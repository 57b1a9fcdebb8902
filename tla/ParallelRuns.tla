---------------------------- MODULE ParallelRuns ----------------------------
(***************************************************************************)
(* negotiate_run_parallel (handleRunParallel and parallel.RunParallel) on  *)
(* top of the calls of SessionRuns: the handler stores one session per     *)
(* requested vendor, then a goroutine per session negotiates it, and once  *)
(* all have ended the best offer is selected.  One such call is followed;  *)
(* the other calls of SessionRuns may touch its sessions meanwhile.        *)
(*                                                                         *)
(* The handler passes its strategy argument to CreateSession as well, so   *)
(* only a negotiation strategy gets past the first session, and for those  *)
(* selectWinner always takes its default, the lowest offer.                *)
(***************************************************************************)
EXTENDS SessionRuns

CONSTANT BatchSize      \* vendors in the request

ASSUME ParallelRunsAssumption == BatchSize \in Nat \ {0}

VARIABLES
    phase,       \* progress of the call
    ids,         \* sessionIDs: the sessions stored so far, in order
    pending,     \* sessions whose goroutine has not loaded its session yet
    results,     \* SessionSummary of each goroutine that succeeded
    failed,      \* has a goroutine returned an error?
    winner       \* the summary selected

batch == <<phase, ids, pending, results, failed, winner>>

pvars == <<vars, batch>>

NoWinner == [session |-> NoSession, offer |-> 0, rounds |-> 0]

PInit ==
    /\ Init
    /\ phase = "creating"
    /\ ids = <<>> /\ pending = {} /\ results = <<>>
    /\ failed = FALSE
    /\ winner = NoWinner

\* One turn of the creation loop: the request has one strategy and no budget,
\* and a failed insert ends the call.
StoreNext(s, draft) ==
    /\ phase = "creating" /\ Len(ids) < BatchSize
    /\ draft.budget = 0
    /\ \A i \in 1..Len(ids) :
          sessions[ids[i]].draft.strategy = draft.strategy
    /\ Mint(s)
    /\ \/ /\ sessions' = [sessions EXCEPT ![s] = NewRow(draft)]
          /\ ids' = Append(ids, s)
          /\ Works
          /\ UNCHANGED phase
       \/ Fails /\ phase' = "failed" /\ UNCHANGED <<sessions, ids>>
    /\ UNCHANGED <<roundRows, dealRows, outcomes, mandates, records, call,
                   calls, ran, overlapped, pending, results, failed, winner>>

\* RunParallel starts every goroutine before it waits for any.
Launch ==
    /\ phase = "creating" /\ Len(ids) = BatchSize
    /\ phase' = "running"
    /\ pending' = {ids[i] : i \in 1..Len(ids)}
    /\ UNCHANGED <<vars, ids, results, failed, winner>>

Load(w, s) ==
    /\ phase = "running" /\ s \in pending
    /\ pending' = pending \ {s}
    /\ StartRun(w, "parallel", s, 0)
    /\ UNCHANGED <<phase, ids, results, failed, winner>>

\* GetSession fails, or another call has concluded the session already.
LoadFails(s) ==
    /\ phase = "running" /\ s \in pending
    /\ pending' = pending \ {s}
    /\ IF Negotiable(sessions[s]) THEN Fails ELSE Works
    /\ failed' = TRUE
    /\ UNCHANGED <<store, records, history, call, overlapped,
                   phase, ids, results, winner>>

\* The goroutine appends its summary under the mutex and ends.
Report(w) ==
    /\ At(w, "report")
    /\ results' = Append(results,
         [session |-> call[w].session, offer |-> FinalOffer(call[w].terms),
          rounds |-> RoundsComplete(call[w].terms)])
    /\ Return(w)
    /\ UNCHANGED <<store, records, history, faults, overlapped,
                   phase, ids, pending, failed, winner>>

\* Mutated: the comparison is the wrong way round.
Dearest(rs) ==
    CHOOSE r \in {rs[n] : n \in 1..Len(rs)} :
        \A n \in 1..Len(rs) : r.offer >= rs[n].offer

\* selectWinner's default: a later result replaces the winner if cheaper.
Cheapest(rs) ==
    LET pick[n \in 1..Len(rs)] ==
            IF n = 1 THEN rs[1]
            ELSE IF rs[n].offer < pick[n - 1].offer THEN rs[n]
            ELSE pick[n - 1]
    IN  pick[Len(rs)]

\* g.Wait: any error discards the results of the other goroutines.
Answer ==
    /\ phase = "running" /\ pending = {}
    /\ \A w \in Workers : call[w].kind # "parallel"
    /\ IF failed
       THEN phase' = "failed" /\ UNCHANGED winner
       ELSE phase' = "answered" /\ winner' = Cheapest(results)
    /\ UNCHANGED <<vars, ids, pending, results, failed>>

\* A crash takes the parallel call down with the others.
PCrash ==
    /\ Crash
    /\ phase' = IF phase = "answered" THEN phase ELSE "failed"
    /\ UNCHANGED <<ids, pending, results, failed, winner>>

PNext ==
    \/ \E s \in Sessions, draft \in Drafts : StoreNext(s, draft)
    \/ Launch
    \/ \E w \in Workers, s \in Sessions : Load(w, s)
    \/ \E s \in Sessions : LoadFails(s)
    \/ \E w \in Workers : Report(w)
    \/ Answer
    \/ PCrash
    \/ NextWithoutCrash /\ UNCHANGED batch

PSpec == PInit /\ [][PNext]_pvars

-----------------------------------------------------------------------------

(***************************************************************************)
(* An answer names the cheapest session of the request: every session      *)
(* asked for has reported exactly once, in whatever order the goroutines   *)
(* finished, and none offered less than the winner.                        *)
(***************************************************************************)
WinnerIsCheapest ==
    phase = "answered" =>
        /\ Len(results) = BatchSize
        /\ {results[i].session : i \in 1..Len(results)}
              = {ids[i] : i \in 1..Len(ids)}
        /\ \E i \in 1..Len(results) : results[i] = winner
        /\ \A i \in 1..Len(results) : winner.offer <= results[i].offer

(***************************************************************************)
(* When no store call failed, an answer means that every session of the    *)
(* request is concluded and has a deal at the offer reported for it, even  *)
(* if negotiate_run_negotiation worked on the same sessions meanwhile.     *)
(***************************************************************************)
AnswerIsOnRecord ==
    phase = "answered" /\ faults = 0 =>
        \A i \in 1..Len(results) :
            /\ sessions[results[i].session].status = "completed"
            /\ \E d \in dealRows : /\ d.session = results[i].session
                                   /\ d.price = results[i].offer
=============================================================================
