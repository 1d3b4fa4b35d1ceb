----------------------------- MODULE AtMostOnce -----------------------------
(***************************************************************************)
(* What the edge's claims promise, without a table or a network: a message *)
(* is taken at most once under a claim, for as long as the claim lives.    *)
(* A copy that can't claim may take the message without one.  This is the  *)
(* promise of petbot.platform.dedup and of ADR 0006, "one copy answers     *)
(* each message".                                                          *)
(***************************************************************************)
CONSTANTS Copies, Messages

VARIABLES
    claimants,    \* the copies that took a message under a claim
    unprotected,  \* the copies that took it without one
    lapsed        \* messages whose claim may have expired

promiseVars == <<claimants, unprotected, lapsed>>

Init ==
    /\ claimants = [m \in Messages |-> {}]
    /\ unprotected = [m \in Messages |-> {}]
    /\ lapsed = [m \in Messages |-> FALSE]

Take(c, m) ==
    /\ claimants[m] = {} \/ lapsed[m]
    /\ claimants' = [claimants EXCEPT ![m] = @ \cup {c}]
    /\ UNCHANGED <<unprotected, lapsed>>

TakeAnyway(c, m) ==
    /\ unprotected' = [unprotected EXCEPT ![m] = @ \cup {c}]
    /\ UNCHANGED <<claimants, lapsed>>

Lapse(m) ==
    /\ lapsed' = [lapsed EXCEPT ![m] = TRUE]
    /\ UNCHANGED <<claimants, unprotected>>

Next ==
    \/ \E c \in Copies, m \in Messages : Take(c, m) \/ TakeAnyway(c, m)
    \/ \E m \in Messages : Lapse(m)

Spec == Init /\ [][Next]_promiseVars
=============================================================================
