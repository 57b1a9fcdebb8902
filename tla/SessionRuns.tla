----------------------------- MODULE SessionRuns -----------------------------
(***************************************************************************)
(* Negotiation sessions in the shared SQLite database, and the calls that  *)
(* work on them: negotiate_create_session and negotiate_run_negotiation    *)
(* (MCP, internal/server/tools.go) and POST /a2a/negotiate and the         *)
(* query_price task (A2A, internal/a2a/handler.go).                        *)
(*                                                                         *)
(* MCP calls run on a pool of goroutines and every A2A request has its     *)
(* own, so calls interleave; no call opens a database transaction, so      *)
(* they interleave between any two store calls.  Each store call is one    *)
(* action.  Up to MaxFaults times a store call fails (locked database,     *)
(* cancelled request) or the process is killed between two of them, which  *)
(* loses every call in progress and keeps the database.                    *)
(*                                                                         *)
(* Calls are numbered in the order they start.  A row that the code tells  *)
(* apart by an autoincrement id carries the number of the call that        *)
(* inserted it, and "ran", a history variable, keeps the terms of every    *)
(* negotiation a call has carried out.                                     *)
(***************************************************************************)
EXTENDS NegotiationEngine, FiniteSets

CONSTANTS
    Sessions,        \* session ids uuid.New may return, each at most once
    Workers,         \* goroutines that serve calls
    Vendors,
    VendorOf,        \* the vendor each session is negotiated with
    Drafts,          \* the strategy, list price and budget of a new session
    Thresholds,      \* auto_approve_threshold arguments
    MaxCalls,        \* bound on the calls started
    MaxFaults,       \* bound on failed store calls and crashes
    NoSession, NoTerms

ASSUME SessionRunsAssumption ==
    /\ VendorOf \in [Sessions -> Vendors]
    /\ Drafts \subseteq [strategy : Strategies, listPrice : ListPrices,
                         budget : Nat]
    /\ Thresholds \subseteq Nat
    /\ MaxCalls \in Nat
    /\ MaxFaults \in Nat
    /\ NoSession \notin Sessions
    /\ NoTerms \notin Terms

VARIABLES
    minted,          \* session ids handed out so far
    sessions,        \* table negotiation_sessions
    roundRows,       \* table negotiation_rounds
    dealRows,        \* table deal_outcomes
    outcomes,        \* table learning_outcomes: the calls that inserted a row
    mandates,        \* table mandates: the calls that inserted an active one
    reputation,      \* table vendor_reputation, a missing row being all zero
    streak,          \* table user_streaks, the row of the default user
    call,            \* what each goroutine is doing
    calls,           \* number of calls started
    ran,             \* history: the negotiations carried out
    faults,          \* number of failed store calls and crashes
    overlapped       \* history: sessions and vendors with concurrent runs

store == <<sessions, roundRows, dealRows, outcomes, mandates>>
records == <<reputation, streak>>
history == <<minted, calls, ran>>
vars == <<store, records, history, call, faults, overlapped>>

CallIds == 1..MaxCalls

Row == [draft : Drafts, status : {"active", "completed"}, offer : Nat,
        rounds : Nat, outcome : {"", "accepted"}]
NoRow == [status |-> "none"]
\* A price query on record; nothing reads the prices it stores.
QueryRow == [status |-> "completed", outcome |-> "queried"]

Reputation == [deals : Nat, total : Nat, max : Nat, wins : Nat]
NoReputation == [deals |-> 0, total |-> 0, max |-> 0, wins |-> 0]

Streak == [current : Nat, longest : Nat, deals : Nat, savings : Nat]
NoStreak == [current |-> 0, longest |-> 0, deals |-> 0, savings |-> 0]

\* "parallel" is a goroutine of RunParallel, started by ParallelRuns.
Kinds == {"run", "parallel", "a2a"}

Run == [call : CallIds, kind : Kinds, session : Sessions, terms : Terms]

Idle == [pc |-> "idle", id |-> 0, kind |-> "none", session |-> NoSession,
         terms |-> NoTerms, seen |-> NoReputation, had |-> NoStreak]

NewRow(draft) ==
    [draft |-> draft, status |-> "active", rounds |-> 0, outcome |-> "",
     offer |-> InitialOffer(draft.strategy, draft.listPrice)]

TermsOf(draft, threshold, maxRounds) ==
    [strategy |-> draft.strategy, listPrice |-> draft.listPrice,
     budget |-> draft.budget, threshold |-> threshold,
     maxRounds |-> maxRounds]

DraftOf(t) == [strategy |-> t.strategy, listPrice |-> t.listPrice,
               budget |-> t.budget]

\* Mutated: UpdateSession does not write rounds_complete.
ConcludedRowNoRounds(row, t) ==
    [row EXCEPT !.status = "completed", !.offer = FinalOffer(t),
                !.outcome = "accepted"]

\* Mutated: UpdateSession does not write the status.
ConcludedRowStillActive(row, t) ==
    [row EXCEPT !.offer = FinalOffer(t), !.rounds = RoundsComplete(t),
                !.outcome = "accepted"]

ConcludedRow(row, t) ==
    [row EXCEPT !.status = "completed", !.offer = FinalOffer(t),
                !.rounds = RoundsComplete(t), !.outcome = "accepted"]

\* Mutated: the maximum is overwritten by every deal.
UpdatedMaxOverwritten(row, discount) ==
    [deals |-> row.deals + 1, total |-> row.total + discount,
     max |-> discount, wins |-> row.wins + 1]

\* UpdateReputation: one more outcome, every one of them a success.
Updated(row, discount) ==
    [deals |-> row.deals + 1, total |-> row.total + discount,
     max |-> IF discount > row.max THEN discount ELSE row.max,
     wins |-> row.wins + 1]

\* Mutated: savings are taken off the total.
ExtendedSavingsLost(row, savings, gap) ==
    [current |-> row.current + 1, longest |-> row.longest + 1,
     deals |-> row.deals + 1, savings |-> row.savings - savings]

\* RecordNegotiation: the streak restarts after a gap of more than 48 hours.
Extended(row, savings, gap) ==
    LET current == IF gap THEN 1 ELSE row.current + 1
    IN  [current |-> current,
         longest |-> IF current > row.longest THEN current ELSE row.longest,
         deals |-> row.deals + 1, savings |-> row.savings + savings]

Init ==
    /\ minted = {}
    /\ sessions = [s \in Sessions |-> NoRow]
    /\ roundRows = {} /\ dealRows = {} /\ outcomes = {} /\ mandates = {}
    /\ reputation = [v \in Vendors |-> NoReputation]
    /\ streak = NoStreak
    /\ call = [w \in Workers |-> Idle]
    /\ calls = 0
    /\ ran = {}
    /\ faults = 0
    /\ overlapped = {}

-----------------------------------------------------------------------------
(* Steps of a call.  A store call either works or fails; what the code     *)
(* does about a failure is each action's own second case.                  *)

At(w, pc) == call[w].pc = pc

Goto(w, pc) == call' = [call EXCEPT ![w].pc = pc]

Return(w) == call' = [call EXCEPT ![w] = Idle]

Fails == faults < MaxFaults /\ faults' = faults + 1

Works == UNCHANGED faults

Begin(w, kind, s, t, pc) ==
    /\ At(w, "idle")
    /\ calls < MaxCalls
    /\ calls' = calls + 1
    /\ call' = [call EXCEPT ![w] =
                   [pc |-> pc, id |-> calls + 1, kind |-> kind, session |-> s,
                    terms |-> t, seen |-> NoReputation, had |-> NoStreak]]

Mint(s) == s \notin minted /\ minted' = minted \cup {s}

\* The two kinds of call that end with a deal.
SavesDeal(kind) == kind \in {"run", "parallel"}

\* Mutated: RunNegotiation accepts a session in any state.
NegotiableAlways(row) == row \notin {NoRow, QueryRow}

\* The status check RunNegotiation begins with.
Negotiable(row) == row.status = "active"

\* What a run of session s shares with the calls in progress.
Overlaps(w, s) ==
    LET others == {call[u].session : u \in {x \in Workers \ {w} :
                                             ~At(x, "idle")}}
    IN  (others \cap {s})
        \cup (IF \E o \in others : VendorOf[o] = VendorOf[s]
              THEN {VendorOf[s]} ELSE {})

(***************************************************************************)
(* handleCreateSession: the price is read and the session drafted before   *)
(* anything is written.  A failed insert is logged and the id still        *)
(* returned.                                                               *)
(***************************************************************************)
CreateSession(s, draft) ==
    /\ Mint(s)
    /\ \/ sessions' = [sessions EXCEPT ![s] = NewRow(draft)] /\ Works
       \/ UNCHANGED sessions /\ Fails
    /\ UNCHANGED <<roundRows, dealRows, outcomes, mandates, records, call,
                   calls, ran, overlapped>>

(***************************************************************************)
(* handleQueryPriceTask stores the query as a session that is already      *)
(* completed, under the id of the task.                                    *)
(***************************************************************************)
QueryPrice(s) ==
    /\ Mint(s)
    /\ \/ sessions' = [sessions EXCEPT ![s] = QueryRow] /\ Works
       \/ UNCHANGED sessions /\ Fails
    /\ UNCHANGED <<roundRows, dealRows, outcomes, mandates, records, call,
                   calls, ran, overlapped>>

(***************************************************************************)
(* handleRunNegotiation (and the goroutine of RunParallel) up to the end   *)
(* of the round loop: GetSession and the status check of RunNegotiation,   *)
(* which refuses a session that is not active.  The loop only works on the *)
(* copy just read.                                                         *)
(***************************************************************************)
StartRun(w, kind, s, threshold) ==
    /\ Negotiable(sessions[s])
    /\ LET t == TermsOf(sessions[s].draft, threshold, 0)
       IN  /\ Begin(w, kind, s, t, "learn")
           /\ ran' = ran \cup {[call |-> calls + 1, kind |-> kind,
                                session |-> s, terms |-> t]}
    /\ overlapped' = overlapped \cup Overlaps(w, s)
    /\ UNCHANGED <<minted, store, records, faults>>

\* RecordOutcome of the learning engine; its error is dropped.
RecordOutcome(w) ==
    /\ At(w, "learn")
    /\ \/ outcomes' = outcomes \cup {call[w].id} /\ Works
       \/ UNCHANGED outcomes /\ Fails
    /\ Goto(w, "update")
    /\ UNCHANGED <<sessions, roundRows, dealRows, mandates, records, history,
                   overlapped>>

(***************************************************************************)
(* HandleNegotiate: an active mandate first, then a session, whose draft   *)
(* may be refused (unknown vendor or strategy), leaving the mandate.       *)
(***************************************************************************)
StartNegotiate(w, s, draft) ==
    /\ Mint(s)
    /\ LET t == TermsOf(draft, 0, 1)
       IN  /\ Begin(w, "a2a", s, t, "save")
           /\ ran' = ran \cup {[call |-> calls + 1, kind |-> "a2a",
                                session |-> s, terms |-> t]}
    /\ mandates' = mandates \cup {calls + 1}
    /\ UNCHANGED <<sessions, roundRows, dealRows, outcomes, records, faults,
                   overlapped>>

RefuseNegotiate ==
    /\ calls < MaxCalls
    /\ calls' = calls + 1
    /\ mandates' = mandates \cup {calls + 1}
    /\ UNCHANGED <<minted, sessions, roundRows, dealRows, outcomes, records,
                   call, ran, faults, overlapped>>

\* SaveSession in HandleNegotiate: the run goes on when it fails.
SaveSession(w) ==
    /\ At(w, "save")
    /\ \/ /\ sessions' = [sessions EXCEPT ![call[w].session] =
                             NewRow(DraftOf(call[w].terms))]
          /\ Works
       \/ UNCHANGED sessions /\ Fails
    /\ Goto(w, "update")
    /\ UNCHANGED <<roundRows, dealRows, outcomes, mandates, records, history,
                   overlapped>>

(***************************************************************************)
(* UpdateSession rewrites status, offer, rounds and outcome of the row, if *)
(* there is one, whatever its status is by now.                            *)
(***************************************************************************)
UpdateSession(w) ==
    LET s == call[w].session IN
    /\ At(w, "update")
    /\ \/ /\ sessions[s] # NoRow
          /\ sessions' = [sessions EXCEPT ![s] =
                             ConcludedRow(sessions[s], call[w].terms)]
          /\ Works
       \/ sessions[s] = NoRow /\ UNCHANGED sessions /\ Works
       \/ UNCHANGED sessions /\ Fails
    /\ Goto(w, "rounds")
    /\ UNCHANGED <<roundRows, dealRows, outcomes, mandates, records, history,
                   overlapped>>

(***************************************************************************)
(* SaveRounds inserts the rounds one by one and stops at the first error,  *)
(* so what it leaves is a prefix.  The table is written by inserts only    *)
(* and no other call reads it, so the inserts are one step.                *)
(***************************************************************************)
SaveRounds(w) ==
    LET all == Rounds(call[w].terms)
        Inserted(n) == {[call |-> call[w].id, session |-> call[w].session,
                         row |-> all[i]] : i \in 1..n}
    IN
    /\ At(w, "rounds")
    /\ \/ roundRows' = roundRows \cup Inserted(Len(all)) /\ Works
       \/ \E n \in 0..(Len(all) - 1) :
             roundRows' = roundRows \cup Inserted(n) /\ Fails
    /\ IF SavesDeal(call[w].kind) THEN Goto(w, "deal") ELSE Return(w)
    /\ UNCHANGED <<sessions, dealRows, outcomes, mandates, records, history,
                   overlapped>>

SaveDealOutcome(w) ==
    /\ At(w, "deal")
    /\ \/ /\ dealRows' = dealRows \cup
                {[call |-> call[w].id, session |-> call[w].session,
                  price |-> FinalOffer(call[w].terms)]}
          /\ Works
       \/ UNCHANGED dealRows /\ Fails
    /\ Goto(w, IF call[w].kind = "run" THEN "reputation" ELSE "report")
    /\ UNCHANGED <<sessions, roundRows, outcomes, mandates, records, history,
                   overlapped>>

-----------------------------------------------------------------------------
(* After the deal: vendor reputation, and the user's streak.               *)

\* UpdateReputation reads the row ...
ReadReputation(w) ==
    /\ At(w, "reputation")
    /\ \/ /\ call' = [call EXCEPT ![w].pc = "upsert",
                           ![w].seen = reputation[VendorOf[call[w].session]]]
          /\ Works
       \/ Goto(w, "streak") /\ Fails
    /\ UNCHANGED <<store, records, history, overlapped>>

\* ... and writes back the whole row computed from what it read.
UpsertReputation(w) ==
    /\ At(w, "upsert")
    /\ \/ /\ reputation' = [reputation EXCEPT ![VendorOf[call[w].session]] =
                Updated(call[w].seen, TotalDiscount(call[w].terms))]
          /\ Return(w)
          /\ Works
       \/ UNCHANGED reputation /\ Goto(w, "streak") /\ Fails
    /\ UNCHANGED <<store, streak, history, overlapped>>

(***************************************************************************)
(* The gamification block is inside "if err != nil" of UpdateReputation,   *)
(* so it runs only after that call failed.  RecordNegotiation reads the    *)
(* user's row and writes back the whole row, like UpdateReputation.        *)
(***************************************************************************)
ReadStreak(w) ==
    /\ At(w, "streak")
    /\ \/ /\ call' = [call EXCEPT ![w].pc = "extend", ![w].had = streak]
          /\ Works
       \/ Return(w) /\ Fails
    /\ UNCHANGED <<store, records, history, overlapped>>

UpsertStreak(w) ==
    /\ At(w, "extend")
    /\ \/ /\ \E gap \in BOOLEAN :
                streak' = Extended(call[w].had, call[w].terms.listPrice
                                     - FinalOffer(call[w].terms), gap)
          /\ Goto(w, "badges")
          /\ Works
       \/ UNCHANGED streak /\ Return(w) /\ Fails
    /\ UNCHANGED <<store, reputation, history, overlapped>>

(***************************************************************************)
(* The streak is read again for the badge check, whose own writes are left *)
(* out.  The error of that read is dropped, and CheckAndAwardBadges        *)
(* dereferences the nil streak it then gets: nothing recovers the panic,   *)
(* so that failure is one of the ways to Crash.                            *)
(***************************************************************************)
AwardBadges(w) ==
    /\ At(w, "badges")
    /\ Return(w)
    /\ UNCHANGED <<store, records, history, faults, overlapped>>

Crash ==
    /\ \E w \in Workers : ~At(w, "idle")
    /\ Fails
    /\ call' = [w \in Workers |-> Idle]
    /\ UNCHANGED <<store, records, history, overlapped>>

-----------------------------------------------------------------------------

Step(w) ==
    \/ RecordOutcome(w) \/ SaveSession(w) \/ UpdateSession(w)
    \/ SaveRounds(w) \/ SaveDealOutcome(w)
    \/ ReadReputation(w) \/ UpsertReputation(w)
    \/ ReadStreak(w) \/ UpsertStreak(w) \/ AwardBadges(w)

NextWithoutCrash ==
    \/ \E s \in Sessions, draft \in Drafts : CreateSession(s, draft)
    \/ \E s \in Sessions : QueryPrice(s)
    \/ \E w \in Workers, s \in Sessions, threshold \in Thresholds :
          StartRun(w, "run", s, threshold)
    \/ \E w \in Workers, s \in Sessions, draft \in Drafts :
          StartNegotiate(w, s, draft)
    \/ RefuseNegotiate
    \/ \E w \in Workers : Step(w)

Next == NextWithoutCrash \/ Crash

Spec == Init /\ [][Next]_vars

-----------------------------------------------------------------------------

PCs == {"idle", "learn", "save", "update", "rounds", "deal", "reputation",
        "upsert", "streak", "extend", "badges", "report"}

Call == [pc : PCs, id : 0..MaxCalls, kind : Kinds \cup {"none"},
         session : Sessions \cup {NoSession}, terms : Terms \cup {NoTerms},
         seen : Reputation, had : Streak]

TypeOK ==
    /\ minted \subseteq Sessions
    /\ sessions \in [Sessions -> Row \cup {NoRow, QueryRow}]
    /\ roundRows \subseteq [call : CallIds, session : Sessions, row : RoundRows]
    /\ dealRows \subseteq [call : CallIds, session : Sessions, price : Nat]
    /\ outcomes \subseteq CallIds
    /\ mandates \subseteq CallIds
    /\ reputation \in [Vendors -> Reputation]
    /\ streak \in Streak
    /\ call \in [Workers -> Call]
    /\ calls \in 0..MaxCalls
    /\ ran \subseteq Run
    /\ faults \in 0..MaxFaults
    /\ overlapped \subseteq Sessions \cup Vendors

(***************************************************************************)
(* A completed session is final: no call makes it active again, and no     *)
(* call that reads it completed negotiates it once more (the status check  *)
(* of RunNegotiation, engine.go:142), whatever the calls still in progress *)
(* on it write afterwards.                                                 *)
(***************************************************************************)
CompletedIsFinal ==
    [][\A s \in Sessions : sessions[s].status = "completed" =>
          /\ sessions'[s].status = "completed"
          /\ {r \in ran' : r.session = s} = {r \in ran : r.session = s}]_vars

(***************************************************************************)
(* A concluded row is the result of one run: concurrent runs of a session  *)
(* with different thresholds, failed writes and crashes never leave offer  *)
(* and rounds_complete of different runs side by side (UpdateSession       *)
(* writes them in one statement).                                          *)
(***************************************************************************)
RowOfOneRun ==
    \A s \in Sessions : sessions[s] \in Row /\ sessions[s].status = "completed" =>
        \E r \in ran : /\ r.session = s
                       /\ DraftOf(r.terms) = sessions[s].draft
                       /\ sessions[s].offer = FinalOffer(r.terms)
                       /\ sessions[s].rounds = RoundsComplete(r.terms)

(***************************************************************************)
(* A deal is backed by a run of an MCP tool, at the price that run ended   *)
(* with, and no round on record for that run asks less: the deal table and *)
(* the round table never disagree, even when rounds are missing.           *)
(***************************************************************************)
DealIsBacked ==
    \A d \in dealRows :
        /\ \E r \in ran : /\ r.call = d.call /\ SavesDeal(r.kind)
                          /\ r.session = d.session
                          /\ d.price = FinalOffer(r.terms)
        /\ \A x \in roundRows : x.call = d.call =>
              x.session = d.session /\ x.row.offer >= d.price

\* The numbers of the rounds a call has saved.
SavedNumbers(id) == {x.row.number : x \in {y \in roundRows : y.call = id}}

(***************************************************************************)
(* The rounds saved by a run have no gap: they start at 1 and stop where   *)
(* the inserts stopped, at or before the run's last round.                 *)
(***************************************************************************)
RoundsHaveNoGap ==
    \A r \in ran : \E n \in 0..RoundsComplete(r.terms) :
        SavedNumbers(r.call) = 1..n

DealsOf(s) == {d \in dealRows : d.session = s}

RunsOf(s) == {r \in ran : r.session = s /\ SavesDeal(r.kind)}

InProgress(s) == \E w \in Workers : call[w].session = s

(***************************************************************************)
(* While no store call has failed, the process has not died and no two     *)
(* runs of the session overlapped, the tables agree exactly once its calls *)
(* have returned: a session an MCP tool concluded has one deal, at the     *)
(* offer of its row, all its rounds and one learning outcome; any other    *)
(* session has no deal (HandleNegotiate saves none).                       *)
(***************************************************************************)
ExactWhenUndisturbed ==
    \A s \in Sessions : faults = 0 /\ s \notin overlapped /\ ~InProgress(s) =>
        IF RunsOf(s) = {} THEN DealsOf(s) = {}
        ELSE /\ sessions[s].status = "completed"
             /\ Cardinality(DealsOf(s)) = 1
             /\ \A d \in DealsOf(s) :
                   /\ d.price = sessions[s].offer
                   /\ d.call \in outcomes
                   /\ SavedNumbers(d.call) = 1..sessions[s].rounds

(***************************************************************************)
(* The vendor's reputation row stays a possible summary of some deals, in  *)
(* spite of lost updates by concurrent runs: every deal counted was won,   *)
(* the maximum is at least the average and at most the total, and no deal  *)
(* is counted that was not negotiated.  It counts them all when no call    *)
(* failed and no two runs of the vendor overlapped.                        *)
(***************************************************************************)
ReputationIsPlausible ==
    \A v \in Vendors :
        LET rep == reputation[v]
            runs == {r \in ran : r.kind = "run" /\ VendorOf[r.session] = v}
        IN  /\ rep.wins = rep.deals
            /\ rep.max <= rep.total
            /\ rep.total <= rep.deals * rep.max
            /\ rep.deals <= Cardinality(runs)
            /\ \/ faults > 0 \/ v \in overlapped
               \/ \E w \in Workers : call[w].session \in Sessions
                                     /\ VendorOf[call[w].session] = v
               \/ rep.deals = Cardinality(runs)

(***************************************************************************)
(* "Record gamification data after successful negotiation"                 *)
(* (tools.go:1952): once every call has returned, each successful run has  *)
(* been counted in the user's streak.                                      *)
(***************************************************************************)
SuccessIsGamified ==
    (\A w \in Workers : At(w, "idle")) =>
        streak.deals = Cardinality({r \in ran : r.kind = "run"})
=============================================================================
