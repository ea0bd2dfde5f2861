-------------------------------- MODULE SignError --------------------------------
(***************************************************************************)
(* The two readings of a failed signature's error message: what the user   *)
(* is told of it (classifySignError, main.go) and whether it counts as a   *)
(* prompt that never completed (isBiometricNonCompletion, agent.go).  Both *)
(* search the text for substrings, each with its own patterns.  A message  *)
(* is its error domain, its code without the sign, and the phrase in it    *)
(* that some pattern asks for.                                             *)
(***************************************************************************)
EXTENDS Naturals

(* "byUser" stands for Canceled by user, "byAnother" for Canceled by        *)
(* another authentication, "systemRunning" for System authentication is    *)
(* running, "byClient" for Invalidated by client, "unableToSign" for       *)
(* unable to sign digest; the other phrases are the symbols themselves.    *)

(* What CryptoKit raises from a signature: LocalAuthentication errors (-2  *)
(* userCancel, -4 systemCancel, -9 appCancel), the keychain's, of which    *)
(* -25308 is a locked Mac, and its own.                                    *)
PhrasesOf(n) ==
    CASE n = 2 -> {"byUser"}
      [] n = 4 -> {"byAnother", "systemRunning", "none"}
      [] n = 9 -> {"byClient"}
      [] OTHER -> {"none"}

LAErrors ==
    {e \in [domain : {"LA"}, code : 1 .. 10 \cup {1004},
            says : UNION {PhrasesOf(n) : n \in 1 .. 10}] :
        e.says \in PhrasesOf(e.code)}

LockedError ==
    [domain |-> "OSStatus", code |-> 25308, says |-> "unableToSign"]

OtherErrors == [domain : {"OSStatus"}, code : {25293, 25300}, says : {"none"}]
                 \cup [domain : {"CryptoKit"}, code : {0}, says : {"none"}]

Raised == LAErrors \cup {LockedError} \cup OtherErrors

(* "Code=-n" occurs in the message: the code begins with the digits of n.  *)
CodeBegins(e, n) ==
    \E p \in {1, 10, 100, 1000, 10000} : n * p <= e.code /\ e.code < (n + 1) * p

(* Mutant: the domain is not looked at.                                    *)
isBiometricNonCompletion_AnyDomain(e) == \E n \in {2, 4, 9} : CodeBegins(e, n)

isBiometricNonCompletion(e) ==
    e.domain = "LA" /\ \E n \in {2, 4, 9} : CodeBegins(e, n)

(* Mutant: any domain, and no space after the code.                        *)
laCode_Prefix(e, n) == CodeBegins(e, n)

(* Domain and "Code=-n " with the space: exactly this code.                *)
laCode(e, n) == e.domain = "LA" /\ e.code = n

MacLocked(e) ==
    \/ e.says \in {"errSecInteractionNotAllowed", "unableToSign"}
    \/ CodeBegins(e, 25308)

(* The advice, by the first case that applies.                             *)
classifySignError(e) ==
    IF MacLocked(e)                                        THEN "locked" ELSE
    IF laCode(e, 2) \/ e.says = "userCancel"               THEN "cancelled" ELSE
    IF laCode(e, 4) /\ e.says = "byAnother"                THEN "takenOver" ELSE
    IF laCode(e, 4) /\ e.says = "systemRunning"            THEN "busy" ELSE
    IF laCode(e, 4) \/ e.says = "systemCancel"             THEN "bySystem" ELSE
    IF laCode(e, 9) \/ e.says \in {"appCancel", "byClient"} THEN "invalidated" ELSE
    IF e.says = "biometryNotAvailable"                     THEN "noHardware" ELSE
    IF e.says = "biometryNotEnrolled"                      THEN "notEnrolled" ELSE
    IF e.says = "biometryLockout"                          THEN "lockedOut" ELSE
    IF e.says = "passcodeNotSet"                           THEN "noPassword"
                                                           ELSE "sign"

(* The advice that tells the user a prompt ended without an answer.        *)
Interrupted == {"cancelled", "takenOver", "busy", "bySystem", "invalidated"}
=============================================================================
