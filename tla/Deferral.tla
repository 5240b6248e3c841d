------------------------------ MODULE Deferral ------------------------------
(***************************************************************************)
(* What deferring a job promises, whichever client defers it: the job is   *)
(* started at most once, for one of three reasons, and is not kept for     *)
(* longer than its patience.  WaitingClients implements it.                *)
(***************************************************************************)
EXTENDS Naturals

CONSTANTS
    Jobs,
    MaxWait            \* how long the caller agreed to wait

VARIABLES
    phase,             \* job -> "asked", "waiting", "ran" or "failed"
    waited,            \* job -> time spent waiting
    why,               \* job -> "none", or why it was started
    patience           \* job -> the longest it is kept waiting, whatever happens

deferralVars == <<phase, waited, why, patience>>

Init ==
    /\ phase = [j \in Jobs |-> "asked"]
    /\ waited = [j \in Jobs |-> 0]
    /\ why = [j \in Jobs |-> "none"]
    /\ patience \in [Jobs -> Nat]

Defer(j) ==
    /\ phase[j] = "asked"
    /\ phase' = [phase EXCEPT ![j] = "waiting"]
    /\ UNCHANGED <<waited, why, patience>>

(* Time passes for every job that waits, if none of them runs out of patience. *)
Wait ==
    /\ \A j \in Jobs : phase[j] = "waiting" => waited[j] < patience[j]
    /\ waited' = [j \in Jobs |-> IF phase[j] = "waiting" THEN waited[j] + 1 ELSE waited[j]]
    /\ UNCHANGED <<phase, why, patience>>

(* On a clean signal at any time, at a planned hour within the time agreed *)
(* to, or because that time is over.                                       *)
MayStart(j, reason) ==
    \/ reason = "clean"
    \/ reason = "planned" /\ waited[j] <= MaxWait
    \/ reason = "deadline" /\ waited[j] >= MaxWait

Start(j, reason) ==
    /\ phase[j] \in {"asked", "waiting"}
    /\ MayStart(j, reason)
    /\ phase' = [phase EXCEPT ![j] = "ran"]
    /\ why' = [why EXCEPT ![j] = reason]
    /\ UNCHANGED <<waited, patience>>

Fail(j) ==
    /\ phase[j] \in {"asked", "waiting"}
    /\ phase' = [phase EXCEPT ![j] = "failed"]
    /\ UNCHANGED <<waited, why, patience>>

Next ==
    \/ \E j \in Jobs : Defer(j) \/ Fail(j)
    \/ \E j \in Jobs : \E r \in {"clean", "planned", "deadline"} : Start(j, r)
    \/ Wait

Spec == Init /\ [][Next]_deferralVars
=============================================================================
