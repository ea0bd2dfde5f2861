-------------------------------- MODULE MCAgent --------------------------------
(***************************************************************************)
(* Constants of the TLC runs of Agent.  Whom the agent's policy and the    *)
(* keys' own rules admit is what CallerPolicy says of the peers.           *)
(***************************************************************************)
EXTENDS Agent, TLC

CONSTANTS c1, c2, c3, kOld, kNew, kOther, kFree, lA, lB, lC

Caller == INSTANCE CallerPolicy WITH Paths <- {}, SameHash <- {}, Refused <- None

(* c1 is Apple's ssh, c2 the tool of a vendor the rules file names, c3 a   *)
(* tool that signed itself and claims to be ssh.                           *)
MCPeer == c1 :> [Caller!NoPeer EXCEPT !.platform = TRUE, !.anchored = TRUE,
                                      !.signing = "com.apple.ssh"]
       @@ c2 :> [Caller!NoPeer EXCEPT !.anchored = TRUE, !.team = "T1"]
       @@ c3 :> [Caller!NoPeer EXCEPT !.signing = "com.apple.ssh", !.team = "T1"]

MCPolicy == Caller!NewPeerPolicy(TRUE, FALSE, 0, {Caller!Rule("team-id", "T1")})

MCPolicyAllows == {c \in Conns : Caller!CheckCaller(MCPolicy, MCPeer[c], <<>>)}

(* kOld and kOther require touch, kOther is bound to ssh; kFree and kNew   *)
(* require none and share a label: kNew can be created once kFree is       *)
(* deleted.                                                                *)
MCLabelOf ==
    [k \in Keys |-> CASE k = kOld -> lA [] k = kOther -> lB [] OTHER -> lC]
MCKeyAllows ==
    [k \in Keys |->
        IF k # kOther THEN Conns
        ELSE {c \in Conns : Caller!matchesAnyRule(
                {Caller!Rule("signing-id", "com.apple.ssh")}, MCPeer[c], <<>>)}]
=============================================================================
