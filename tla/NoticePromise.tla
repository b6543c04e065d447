---------------------------- MODULE NoticePromise ----------------------------
(***************************************************************************)
(* What the notification outbox promises, without workers, leases or       *)
(* processes.  A notice is queued; while it is known, the channel may      *)
(* accept it, and more than once (the guarantee is "at least once");       *)
(* it is called sent only if the channel accepted it, and what is sent     *)
(* stays sent; a notice that was dropped may be queued again.              *)
(***************************************************************************)
EXTENDS Naturals

CONSTANT Msg

VARIABLES stage, delivered

Stages == {"none", "queued", "sent", "dropped", "gone"}

Init ==
    /\ stage = [m \in Msg |-> "none"]
    /\ delivered = [m \in Msg |-> 0]

Submit(m) ==
    /\ stage[m] = "none"
    /\ stage' = [stage EXCEPT ![m] = "queued"]
    /\ UNCHANGED delivered

\* a request that is on its way is not called back, so it may be accepted after the notice was settled or forgotten
Accept(m) ==
    /\ stage[m] # "none"
    /\ delivered' = [delivered EXCEPT ![m] = IF @ = 0 THEN 1 ELSE 2]
    /\ UNCHANGED stage

Confirm(m) ==
    /\ stage[m] = "queued"
    /\ delivered[m] > 0
    /\ stage' = [stage EXCEPT ![m] = "sent"]
    /\ UNCHANGED delivered

Drop(S) ==
    /\ \A m \in S : stage[m] = "queued"
    /\ stage' = [m \in Msg |-> IF m \in S THEN "dropped" ELSE stage[m]]
    /\ UNCHANGED delivered

SubmitAgain(m) ==
    /\ stage[m] = "dropped"
    /\ stage' = [stage EXCEPT ![m] = "queued"]
    /\ UNCHANGED delivered

Forget(m) ==
    /\ stage[m] # "none"
    /\ stage' = [stage EXCEPT ![m] = "gone"]
    /\ UNCHANGED delivered

Next ==
    \/ \E m \in Msg : Submit(m) \/ Accept(m) \/ Confirm(m) \/ SubmitAgain(m) \/ Forget(m)
    \/ \E S \in SUBSET Msg : Drop(S)

Spec == Init /\ [][Next]_<<stage, delivered>>
=============================================================================
