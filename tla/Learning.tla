------------------------------ MODULE Learning ------------------------------
(***************************************************************************)
(* What the server learns from its deals (internal/learning): every        *)
(* negotiation inserts an outcome, strategy_recommend groups the outcomes  *)
(* of a vendor by strategy, and learning_insights counts all of them three *)
(* times, in three statements between which others may be inserted.        *)
(*                                                                         *)
(* The outcomes are read in groups only, so the table is its groups.       *)
(* Negotiations all end accepted (NeverWalksAway), so the wins of a group  *)
(* are its deals, and no autopsy is ever recorded.  Rounding is left out.  *)
(***************************************************************************)
EXTENDS Integers, FiniteSets, FiniteSetsExt

CONSTANTS
    Sellers,         \* vendors
    Tactics,         \* strategies
    Percents,        \* discounts of deals
    Past,            \* the outcomes there may be at the start
    Scholars,        \* goroutines that ask for insights
    NoSeller,
    MaxLessons       \* bound: outcomes recorded in a behaviour

\* The outcomes of one vendor and strategy: how many, and their discounts.
Group == [deals : Nat, discounts : Nat]
Table == [Sellers -> [Tactics -> Group]]

ASSUME LearningAssumption ==
    /\ Percents \subseteq Nat /\ MaxLessons \in Nat /\ Past \subseteq Table
    /\ "balanced" \in Tactics /\ NoSeller \notin Sellers
    /\ IsFiniteSet(Sellers) /\ IsFiniteSet(Tactics)
    /\ Cardinality(Sellers) <= 10          \* the limit on top_vendors

VARIABLES
    learned,         \* table learning_outcomes
    lessons,         \* outcomes recorded so far
    scholar,         \* what each goroutine has counted so far
    advice           \* history: the last recommendation given

learningVars == <<learned, lessons, scholar, advice>>

\* since: how many outcomes were recorded before the first of the three counts.
NoInsight == [pc |-> "idle", total |-> 0, tactics |-> [t \in Tactics |-> 0],
              sellers |-> [v \in Sellers |-> 0], since |-> 0]

NoAdvice == [seller |-> NoSeller, tactic |-> "balanced", confidence |-> "low",
             deals |-> 0]

LearningInit ==
    /\ learned \in Past
    /\ lessons = 0
    /\ scholar = [h \in Scholars |-> NoInsight]
    /\ advice = NoAdvice

DealsOf(v) == MapThenSumSet(LAMBDA t : learned[v][t].deals, Tactics)
DealsBy(t) == MapThenSumSet(LAMBDA v : learned[v][t].deals, Sellers)

\* A strategy nobody has used with the vendor forms no group.
UsedWith(v) == {t \in Tactics : learned[v][t].deals > 0}

HigherAverage(g, h) == g.discounts * h.deals > h.discounts * g.deals

Confidence(n) == IF n >= 10 THEN "high" ELSE IF n >= 3 THEN "medium" ELSE "low"

-----------------------------------------------------------------------------

RecordOutcome(v, t, discount) ==
    /\ lessons < MaxLessons
    /\ lessons' = lessons + 1
    /\ learned' = [learned EXCEPT ![v][t] =
                      [deals |-> @.deals + 1, discounts |-> @.discounts + discount]]
    /\ UNCHANGED <<scholar, advice>>

Recommendation(v, best) ==
    [seller |-> v, tactic |-> best, confidence |-> Confidence(learned[v][best].deals),
     deals |-> DealsOf(v)]

\* The strategy with the highest average discount; among equals it is open.
handleStrategyRecommend(v) ==
    /\ IF UsedWith(v) = {}
       THEN advice' = [NoAdvice EXCEPT !.seller = v]
       ELSE \E best \in UsedWith(v) :
               /\ \A t \in UsedWith(v) : ~HigherAverage(learned[v][t], learned[v][best])
               /\ advice' = Recommendation(v, best)
    /\ UNCHANGED <<learned, lessons, scholar>>

\* GetGlobalInsights: all outcomes, those of each strategy, those of each
\* vendor.
CountAll(h) ==
    /\ scholar[h].pc = "idle"
    /\ scholar' = [scholar EXCEPT ![h] =
          [NoInsight EXCEPT !.pc = "tactics", !.since = lessons,
                            !.total = MapThenSumSet(DealsOf, Sellers)]]
    /\ UNCHANGED <<learned, lessons, advice>>

CountTactics(h) ==
    /\ scholar[h].pc = "tactics"
    /\ scholar' = [scholar EXCEPT ![h].pc = "sellers",
                                  ![h].tactics = [t \in Tactics |-> DealsBy(t)]]
    /\ UNCHANGED <<learned, lessons, advice>>

CountSellers(h) ==
    /\ scholar[h].pc = "sellers"
    /\ scholar' = [scholar EXCEPT ![h].pc = "answer",
                                  ![h].sellers = [v \in Sellers |-> DealsOf(v)]]
    /\ UNCHANGED <<learned, lessons, advice>>

\* The handler answers, or reports the statement that failed.
handleLearningInsights(h) ==
    /\ scholar[h].pc # "idle"
    /\ scholar' = [scholar EXCEPT ![h] = NoInsight]
    /\ UNCHANGED <<learned, lessons, advice>>

LearningNext ==
    \/ \E v \in Sellers, t \in Tactics, discount \in Percents :
          RecordOutcome(v, t, discount)
    \/ \E v \in Sellers : handleStrategyRecommend(v)
    \/ \E h \in Scholars : \/ CountAll(h) \/ CountTactics(h) \/ CountSellers(h)
                           \/ handleLearningInsights(h)

LearningSpec == LearningInit /\ [][LearningNext]_learningVars

-----------------------------------------------------------------------------

LearningTypeOK ==
    /\ learned \in Table
    /\ lessons \in 0 .. MaxLessons
    /\ \A h \in Scholars : scholar[h].pc \in {"idle", "tactics", "sellers", "answer"}
    /\ advice.seller \in Sellers \cup {NoSeller} /\ advice.tactic \in Tactics

(***************************************************************************)
(* Advice is drawn from what is on record.  A recommendation is as sure as *)
(* the deals with that very strategy make it, and until the next deal with *)
(* the vendor no other strategy has saved more on average.  The three      *)
(* counts of one answer may differ, since deals go on between them, but    *)
(* only upwards, and they agree when nothing was recorded meanwhile.       *)
(***************************************************************************)
AdviceIsDrawnFromDeals ==
    /\ LET v == advice.seller
           best == advice.tactic
       IN  v \in Sellers =>
              /\ advice.deals <= DealsOf(v)
              /\ advice.confidence = "high" => learned[v][best].deals >= 10
              /\ advice.confidence = "medium" => learned[v][best].deals >= 3
              /\ advice.deals = DealsOf(v) /\ advice.deals > 0 =>
                    \A t \in UsedWith(v) : ~HigherAverage(learned[v][t], learned[v][best])
    /\ \A h \in Scholars :
          LET byTactic == MapThenSumSet(LAMBDA t : scholar[h].tactics[t], Tactics)
              bySeller == MapThenSumSet(LAMBDA v : scholar[h].sellers[v], Sellers)
          IN  scholar[h].pc = "answer" =>
                 /\ scholar[h].total <= byTactic /\ byTactic <= bySeller
                 /\ scholar[h].since = lessons => scholar[h].total = bySeller
=============================================================================
