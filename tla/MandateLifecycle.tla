-------------------------- MODULE MandateLifecycle --------------------------
(***************************************************************************)
(* What the A2A server promises about mandates: a mandate is decided once, *)
(* settled or cancelled, the decision is never taken back, and at most one *)
(* requester is ever told that it was the one who decided.                 *)
(***************************************************************************)
CONSTANT Mandates

VARIABLES
    decision,        \* of each mandate: "none", "open" or a verdict
    told             \* mandates whose decision has been acknowledged

Verdicts == {"settled", "cancelled"}

vars == <<decision, told>>

Init ==
    /\ decision = [m \in Mandates |-> "none"]
    /\ told = {}

Propose(m) ==
    /\ decision[m] = "none"
    /\ decision' = [decision EXCEPT ![m] = "open"]
    /\ UNCHANGED told

Decide(m, verdict) ==
    /\ decision[m] = "open"
    /\ decision' = [decision EXCEPT ![m] = verdict]
    /\ UNCHANGED told

\* Several mandates past their date may be cancelled at once.
Expire(overdue) ==
    /\ \A m \in overdue : decision[m] = "open"
    /\ decision' = [m \in Mandates |-> IF m \in overdue THEN "cancelled"
                                       ELSE decision[m]]
    /\ UNCHANGED told

Tell(m) ==
    /\ decision[m] \in Verdicts
    /\ m \notin told
    /\ told' = told \cup {m}
    /\ UNCHANGED decision

Next ==
    \/ \E m \in Mandates :
          \/ Propose(m) \/ Tell(m)
          \/ \E verdict \in Verdicts : Decide(m, verdict)
    \/ \E overdue \in SUBSET Mandates : Expire(overdue)

Spec == Init /\ [][Next]_vars
=============================================================================
