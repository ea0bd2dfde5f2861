------------------------------- MODULE RateBucket -------------------------------
(***************************************************************************)
(* The per-key rate limiter of policy.go (rateBucket).  A bucket is the    *)
(* set of grants the code keeps as a slice of time stamps: a grant carries *)
(* the number of the request it was given to, so that two grants of the    *)
(* same instant stay two.  The order of the slice never matters to the     *)
(* code, which only filters and counts it.                                 *)
(***************************************************************************)
EXTENDS Naturals, FiniteSets

CONSTANTS
    RateLimit,      \* PeerPolicy.rateLimit; zero switches the limiter off
    RateWindow      \* time.Minute

ASSUME RateAssumption == /\ RateLimit \in Nat
                         /\ RateWindow \in Nat \ {0}

(* The grants of bucket b that t.After(now - minute) keeps.                *)
Valid(b, now) == {g \in b : g.at + RateWindow > now}

(* Mutant: the limit itself is one too many.                               *)
HasRoom_OffByOne(valid) == Cardinality(valid) <= RateLimit

(* Whether a pruned bucket has room for one more grant.                    *)
HasRoom(valid) == Cardinality(valid) < RateLimit

(* allow(): the bucket after a call of request r at time now.  The pruned  *)
(* bucket is stored whether or not the call is granted.                    *)
AfterAllow(b, r, now) ==
    LET valid == Valid(b, now)
    IN  IF HasRoom(valid) THEN valid \cup {[req |-> r, at |-> now]} ELSE valid

(* CheckRate(): whether the call is granted.                               *)
Granted(b, now) == RateLimit = 0 \/ HasRoom(Valid(b, now))
=============================================================================
