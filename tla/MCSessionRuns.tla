--------------------------- MODULE MCSessionRuns ---------------------------
(***************************************************************************)
(* Two sessions of one vendor and two goroutines.  The drafts end          *)
(* differently: one within its budget on the first offer, the other by the *)
(* seller's acceptance of the last of three rounds; the threshold accepts  *)
(* the second one automatically in round two.  A third one differs from    *)
(* the second in its price, so that a parallel call has a choice.          *)
(* A third call meets the two goroutines of a parallel one.                *)
(***************************************************************************)
EXTENDS ParallelRuns, TLC

CONSTANTS s1, s2, w1, w2, v1

MCSessions == {s1, s2}
MCWorkers == {w1, w2}
MCVendors == {v1}
MCVendorOf == [s \in MCSessions |-> v1]
MCDrafts ==
    {[strategy |-> "balanced", listPrice |-> 10100, budget |-> 9000],
     [strategy |-> "conservative", listPrice |-> 20000, budget |-> 0],
     [strategy |-> "conservative", listPrice |-> 30000, budget |-> 0]}
MCThresholds == {0, 17000}

MCSymmetry == Permutations(MCSessions) \cup Permutations(MCWorkers)

\* The third call is one that meets a batch: its goroutines are two calls, and
\* negotiate_run_negotiation on one of their sessions is another, in any order.
\* It is for what an answer says, so no store call fails then.
MCBound ==
    \/ calls <= 2
    \/ /\ faults = 0 /\ mandates = {} /\ phase \in {"running", "answered"}
       /\ \E r \in ran : r.kind = "run"

MCNext == PNext /\ MCBound'

MCSpec == PInit /\ [][MCNext]_pvars

=============================================================================
