---------------------------- MODULE HealthScores ----------------------------
(***************************************************************************)
(* The health of vendors (internal/health): signals about a vendor and the *)
(* score computed from all of them.  record_signal inserts a signal, reads *)
(* the signals back and stores their score, in three statements, and then  *)
(* looks the stored score up for its answer.  vendor_health looks a score  *)
(* up and computes it only when there is none.                             *)
(*                                                                         *)
(* The detail and the date of a signal are left out, and so is the wording *)
(* of the suggestion, which is all that a stored type is read for.         *)
(***************************************************************************)
EXTENDS Integers, FiniteSets, FiniteSetsExt

CONSTANTS
    Firms,           \* the vendors
    SignalTypes,     \* types a caller may give
    Weights,         \* weights a caller may give, 0 standing for none
    Analysts,        \* goroutines that serve calls
    NoFirm,
    MaxSignals       \* bound: signals on record

ASSUME HealthAssumption ==
    /\ Weights \subseteq Int /\ NoFirm \notin Firms /\ MaxSignals \in Nat

VARIABLES
    signals,         \* table health_signals
    scores,          \* table vendor_health
    analyst,         \* what each goroutine is doing
    outdated         \* history: vendors whose score may lag behind

healthVars == <<signals, scores, analyst, outdated>>

SignalTypeWeights == [layoff |-> -15, lawsuit |-> -20, funding |-> 10,
                      growth |-> 15, ipo |-> 20, acquisition |-> 5]

SignalRow == [nr : 1 .. MaxSignals, firm : Firms, weight : Int]

NoScore == [score |-> 0, category |-> "none"]
ScoreRow == [score : 1 .. 100, category : {"struggling", "stable", "growing"}]

\* alone: no other call about this vendor since the call began.
AtDesk == [pc |-> "idle", firm |-> NoFirm, recording |-> FALSE, weight |-> 0,
           score |-> 0, alone |-> TRUE]

HealthInit ==
    /\ signals = {}
    /\ scores = [v \in Firms |-> NoScore]
    /\ analyst = [a \in Analysts |-> AtDesk]
    /\ outdated = {}

GetSignals(v) == {s \in signals : s.firm = v}

Bounded(n) == Max({1, Min({n, 100})})

\* CalculateScore: the weights on top of a neutral 50, within 1 and 100.
CalculateScore(rows) == Bounded(50 + MapThenSumSet(LAMBDA s : s.weight, rows))

Categorize(n) == IF n < 30 THEN "struggling"
                 ELSE IF n > 60 THEN "growing" ELSE "stable"

\* deriveLeverage, without the wording.
Leverage(n) == IF n < 30 THEN "high" ELSE IF n <= 60 THEN "medium" ELSE "low"

\* A weight of 0 is replaced by that of the type, if the type has one.
WeightOf(type, weight) ==
    IF weight = 0 /\ type \in DOMAIN SignalTypeWeights
    THEN SignalTypeWeights[type] ELSE weight

-----------------------------------------------------------------------------

AtWorkOn(v) == {a \in Analysts : analyst[a].firm = v}

\* A call begins; the calls on the same vendor are not alone any more.
BeginAt(a, v, call) ==
    /\ analyst[a] = AtDesk
    /\ analyst' = [b \in Analysts |->
           IF b = a THEN [call EXCEPT !.alone = AtWorkOn(v) = {}]
           ELSE [analyst[b] EXCEPT !.alone = @ /\ b \notin AtWorkOn(v)]]
    /\ UNCHANGED <<signals, scores, outdated>>

handleRecordSignal(a) ==
    \E v \in Firms, type \in SignalTypes, weight \in Weights :
       BeginAt(a, v, [AtDesk EXCEPT !.pc = "insert", !.firm = v, !.recording = TRUE,
                                  !.weight = WeightOf(type, weight)])

handleVendorHealth(a) ==
    \E v \in Firms : BeginAt(a, v, [AtDesk EXCEPT !.pc = "look", !.firm = v])

MoveTo(a, pc) == analyst' = [analyst EXCEPT ![a].pc = pc]

Leave(a) == analyst' = [analyst EXCEPT ![a] = AtDesk]

AddSignal(a) ==
    /\ analyst[a].pc = "insert"
    /\ Cardinality(signals) < MaxSignals
    /\ signals' = signals \cup
          {[nr |-> Cardinality(signals) + 1, firm |-> analyst[a].firm,
            weight |-> analyst[a].weight]}
    /\ MoveTo(a, "read")
    /\ UNCHANGED <<scores, outdated>>

\* Mutated: only the signal of this call is counted.
ReadSignalsOwn(a) ==
    /\ analyst[a].pc = "read"
    /\ analyst' = [analyst EXCEPT ![a].pc = "write",
                                  ![a].score = Bounded(50 + analyst[a].weight)]
    /\ UNCHANGED <<signals, scores, outdated>>

ReadSignals(a) ==
    /\ analyst[a].pc = "read"
    /\ analyst' = [analyst EXCEPT ![a].pc = "write",
                       ![a].score = CalculateScore(GetSignals(analyst[a].firm))]
    /\ UNCHANGED <<signals, scores, outdated>>

\* UpsertHealth.  record_signal looks the row up again for its answer;
\* vendor_health answers with what it has computed.
UpsertHealth(a) ==
    LET v == analyst[a].firm
        n == analyst[a].score
    IN  /\ analyst[a].pc = "write"
        /\ scores' = [scores EXCEPT ![v] = [score |-> n, category |-> Categorize(n)]]
        /\ outdated' = IF analyst[a].alone THEN outdated \ {v} ELSE outdated \cup {v}
        /\ IF analyst[a].recording THEN MoveTo(a, "look") ELSE Leave(a)
        /\ UNCHANGED signals

\* GetLeverage: what is stored is answered, or else computed.
GetLeverage(a) ==
    /\ analyst[a].pc = "look"
    /\ IF scores[analyst[a].firm] = NoScore THEN MoveTo(a, "read") ELSE Leave(a)
    /\ UNCHANGED <<signals, scores, outdated>>

\* A store call fails, and the handler answers with an error.  A signal that
\* has been inserted stays.
AnalystFails(a) ==
    /\ analyst[a].pc \in {"insert", "read", "write", "look"}
    /\ outdated' = IF analyst[a].pc \in {"read", "write"}
                   THEN outdated \cup {analyst[a].firm} ELSE outdated
    /\ Leave(a)
    /\ UNCHANGED <<signals, scores>>

HealthNext ==
    \E a \in Analysts :
       \/ handleRecordSignal(a) \/ handleVendorHealth(a)
       \/ AddSignal(a) \/ ReadSignals(a) \/ UpsertHealth(a) \/ GetLeverage(a)
       \/ AnalystFails(a)

HealthSpec == HealthInit /\ [][HealthNext]_healthVars

-----------------------------------------------------------------------------

HealthTypeOK ==
    /\ signals \subseteq SignalRow
    /\ scores \in [Firms -> ScoreRow \cup {NoScore}]
    /\ \A a \in Analysts :
          \/ analyst[a] = AtDesk
          \/ /\ analyst[a].pc \in {"insert", "read", "write", "look"}
             /\ analyst[a].firm \in Firms
             /\ analyst[a].pc = "write" => analyst[a].score \in 1 .. 100
    /\ outdated \subseteq Firms

(***************************************************************************)
(* The score on record is the score of the signals on record, whenever no  *)
(* call about the vendor is under way, unless the last call to write it    *)
(* had company or a later one failed halfway; a call that had no company   *)
(* puts it right again.  A vendor without signals that anybody asked about *)
(* is neutral.  Even when the score lags behind, its category and the      *)
(* leverage derived from it agree: growing vendors leave little.           *)
(***************************************************************************)
ScoreIsCurrent ==
    \A v \in Firms :
        /\ AtWorkOn(v) = {} /\ v \notin outdated =>
              \/ scores[v].score = CalculateScore(GetSignals(v))
              \/ scores[v] = NoScore /\ GetSignals(v) = {}
        /\ scores[v] # NoScore =>
              <<scores[v].category, Leverage(scores[v].score)>> \in
                 {<<"struggling", "high">>, <<"stable", "medium">>,
                  <<"growing", "low">>}
=============================================================================
