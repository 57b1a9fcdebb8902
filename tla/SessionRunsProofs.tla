-------------------------- MODULE SessionRunsProofs --------------------------
(***************************************************************************)
(* Proofs about the negotiation sessions and the calls on them, parallel   *)
(* runs and faults included: the types, that a deal is backed by a run,    *)
(* that what is concluded stays so; then what the calls leave on record,   *)
(* how far each has got and what is in the tables by then, how often a     *)
(* vendor's deals have been counted, and which sessions a parallel call    *)
(* answers with.  They hold for any number of sessions, goroutines and     *)
(* vendors, any drafts and thresholds, and whatever the bounds on calls    *)
(* and faults.                                                             *)
(***************************************************************************)
EXTENDS ParallelRuns, NegotiationEngineProofs, FiniteSetTheorems, WellFoundedInduction

-----------------------------------------------------------------------------
(* The inductive invariant.                                                *)

\* The history entry of the run a call is carrying out.
RunOf(c) == [call |-> c.id, kind |-> c.kind, session |-> c.session,
             terms |-> c.terms]

\* A goroutine is idle or works on one of the runs, and no two on the same.
CallInv ==
    /\ \A w \in Workers : call[w] = Idle \/
          (/\ call[w].pc # "idle"
           /\ RunOf(call[w]) \in ran
           /\ call[w].pc = "deal" => SavesDeal(call[w].kind))
    /\ \A u, w \in Workers :
          u # w /\ call[u].id = call[w].id => call[u] = Idle

\* Runs are numbered by their calls, on sessions whose id was handed out.
RanInv ==
    /\ \A r \in ran : /\ r.call <= calls
                      /\ r.session \in minted
                      /\ DraftOf(r.terms) \in Drafts
    /\ \A q, r \in ran : q.call = r.call => q = r

(***************************************************************************)
(* A row exists only under an id handed out, and it keeps the draft every  *)
(* run of the session was started with.  The session an A2A call is about  *)
(* to save has no row yet and no other run.                                *)
(***************************************************************************)
RowInv ==
    /\ \A s \in Sessions : sessions[s] # NoRow => s \in minted
    /\ \A r \in ran : \/ sessions[r.session] = NoRow
                      \/ /\ sessions[r.session] \in Row
                         /\ sessions[r.session].draft = DraftOf(r.terms)
    /\ \A w \in Workers : call[w].pc = "save" =>
          /\ sessions[call[w].session] = NoRow
          /\ \A r \in ran : r.session = call[w].session => r.call = call[w].id

\* Every row of the two record tables comes from a run.
DealInv ==
    \A d \in dealRows : \E r \in ran :
        /\ r.call = d.call /\ SavesDeal(r.kind) /\ r.session = d.session
        /\ d.price = FinalOffer(r.terms)

RoundInv ==
    \A x \in roundRows : \E r \in ran :
        /\ r.call = x.call /\ r.session = x.session
        /\ FinalOffer(r.terms) <= x.row.offer

Inv == /\ TypeOK /\ CallInv /\ RanInv /\ RowInv
       /\ RowOfOneRun /\ DealInv /\ RoundInv

-----------------------------------------------------------------------------
(* Steps of the two modules, seen by the store and the calls.              *)

\* The goroutine of a parallel run returns its summary.
Returns(w) ==
    /\ At(w, "report") /\ Return(w)
    /\ UNCHANGED <<store, records, history, faults, overlapped>>

\* Nothing but the count of faults changes.
Waits ==
    /\ Works \/ Fails
    /\ UNCHANGED <<store, records, history, call, overlapped>>

StoreStep ==
    \/ \E s \in Sessions, draft \in Drafts : CreateSession(s, draft)
    \/ \E s \in Sessions : QueryPrice(s)
    \/ \E w \in Workers, kind \in {"run", "parallel"}, s \in Sessions,
          threshold \in Nat : StartRun(w, kind, s, threshold)
    \/ \E w \in Workers, s \in Sessions, draft \in Drafts :
          StartNegotiate(w, s, draft)
    \/ RefuseNegotiate
    \/ \E w \in Workers : Step(w) \/ Returns(w)
    \/ Crash
    \/ Waits

LEMMA EveryStepIsAStoreStep ==
  ASSUME [PNext]_pvars PROVE StoreStep
<1>1. CASE UNCHANGED pvars
  BY <1>1 DEF pvars, vars, StoreStep, Waits, Works
<1>2. ASSUME NEW s \in Sessions, NEW draft \in Drafts, StoreNext(s, draft)
      PROVE  StoreStep
  <2>1. CreateSession(s, draft)
    BY <1>2 DEF StoreNext, CreateSession
  <2> QED BY <2>1 DEF StoreStep
<1>3. CASE Launch \/ Answer
  BY <1>3 DEF Launch, Answer, vars, StoreStep, Waits, Works
<1>4. ASSUME NEW w \in Workers, NEW s \in Sessions, Load(w, s)
      PROVE  StoreStep
  <2>1. StartRun(w, "parallel", s, 0)
    BY <1>4 DEF Load
  <2> QED BY <2>1 DEF StoreStep
<1>5. ASSUME NEW s \in Sessions, LoadFails(s) PROVE StoreStep
  BY <1>5 DEF LoadFails, StoreStep, Waits
<1>6. ASSUME NEW w \in Workers, Report(w) PROVE StoreStep
  <2>1. Returns(w)
    BY <1>6 DEF Report, Returns
  <2> QED BY <2>1 DEF StoreStep
<1>7. CASE PCrash
  BY <1>7 DEF PCrash, StoreStep
<1>8. CASE NextWithoutCrash
  BY <1>8, SessionRunsAssumption DEF NextWithoutCrash, StoreStep
<1> QED BY <1>1, <1>2, <1>3, <1>4, <1>5, <1>6, <1>7, <1>8 DEF PNext

\* What is known of a goroutine that is not idle.
LEMMA Busy ==
  ASSUME TypeOK, CallInv, RanInv, NEW w \in Workers, call[w].pc # "idle"
  PROVE  /\ RunOf(call[w]) \in ran
         /\ call[w].id \in CallIds /\ call[w].kind \in Kinds
         /\ call[w].session \in Sessions \cap minted
         /\ call[w].terms \in Terms
         /\ DraftOf(call[w].terms) \in Drafts
<1>1. RunOf(call[w]) \in ran
  BY DEF CallInv, Idle
<1>2. RunOf(call[w]) \in Run
  BY <1>1 DEF TypeOK
<1>3. /\ RunOf(call[w]).session \in minted
      /\ DraftOf(RunOf(call[w]).terms) \in Drafts
  BY <1>1 DEF RanInv
<1> QED BY <1>1, <1>2, <1>3 DEF RunOf, Run

(***************************************************************************)
(* A goroutine goes on with its run, or ends it: its record keeps what it  *)
(* says about the run, and it is never "save" again.                       *)
(***************************************************************************)
Progress(w) ==
    /\ call[w].pc # "idle"
    /\ UNCHANGED history
    /\ \E new \in Call :
          /\ call' = [call EXCEPT ![w] = new]
          /\ \/ new = Idle
             \/ /\ new.pc \notin {"idle", "save"}
                /\ RunOf(new) = RunOf(call[w])
                /\ new.pc = "deal" => SavesDeal(new.kind)

LEMMA IdleTyped == Idle \in Call
<1>1. NoReputation \in Reputation
  BY DEF NoReputation, Reputation
<1>2. NoStreak \in Streak
  BY DEF NoStreak, Streak
<1>3. 0 \in 0..MaxCalls
  BY SessionRunsAssumption
<1> QED BY <1>1, <1>2, <1>3 DEF Idle, Call, PCs

LEMMA GotoIsProgress ==
  ASSUME TypeOK, NEW w \in Workers, call[w].pc # "idle", UNCHANGED history,
         NEW pc \in PCs \ {"idle", "save"}, Goto(w, pc),
         pc = "deal" => SavesDeal(call[w].kind)
  PROVE  Progress(w)
<1> DEFINE new == [call[w] EXCEPT !.pc = pc]
<1>1. call \in [Workers -> Call] /\ call[w] \in Call
  BY DEF TypeOK
<1>2. /\ new \in Call /\ new.pc = pc /\ RunOf(new) = RunOf(call[w])
      /\ new.kind = call[w].kind
  BY <1>1 DEF Call, RunOf
<1>3. call' = [call EXCEPT ![w] = new]
  BY <1>1 DEF Goto
<1> HIDE DEF new
<1> QED BY <1>2, <1>3 DEF Progress

LEMMA ReturnIsProgress ==
  ASSUME NEW w \in Workers, call[w].pc # "idle", UNCHANGED history, Return(w)
  PROVE  Progress(w)
  BY IdleTyped DEF Progress, Return

LEMMA RowsTyped ==
  ASSUME TypeOK, NEW s \in Sessions
  PROVE  reputation[VendorOf[s]] \in Reputation /\ streak \in Streak
  BY SessionRunsAssumption DEF TypeOK

LEMMA StepIsProgress ==
  ASSUME TypeOK, CallInv, RanInv, NEW w \in Workers, Step(w) \/ Returns(w)
  PROVE  Progress(w)
<1> USE DEF At, PCs
<1>1. CASE RecordOutcome(w)
  BY <1>1, GotoIsProgress DEF RecordOutcome
<1>2. CASE SaveSession(w)
  BY <1>2, GotoIsProgress DEF SaveSession
<1>3. CASE UpdateSession(w)
  BY <1>3, GotoIsProgress DEF UpdateSession
<1>4. CASE SaveRounds(w)
  BY <1>4, GotoIsProgress, ReturnIsProgress DEF SaveRounds
<1>5. CASE SaveDealOutcome(w)
  BY <1>5, GotoIsProgress DEF SaveDealOutcome
<1>6. CASE ReadReputation(w)
  <2> DEFINE v == VendorOf[call[w].session]
             new == [call[w] EXCEPT !.pc = "upsert", !.seen = reputation[v]]
  <2>1. call[w].pc # "idle" /\ UNCHANGED history
    BY <1>6 DEF ReadReputation
  <2>2. CASE Goto(w, "streak")
    BY <2>1, <2>2, GotoIsProgress
  <2>3. CASE call' = [call EXCEPT ![w].pc = "upsert", ![w].seen = reputation[v]]
    <3>1. call \in [Workers -> Call] /\ call[w] \in Call
      BY DEF TypeOK
    <3>2. reputation[v] \in Reputation
      BY <2>1, Busy, RowsTyped
    <3>3. /\ new \in Call /\ new.pc = "upsert"
          /\ RunOf(new) = RunOf(call[w])
      BY <3>1, <3>2 DEF Call, RunOf
    <3>4. call' = [call EXCEPT ![w] = new]
      BY <2>3, <3>1
    <3> HIDE DEF new
    <3> QED BY <2>1, <3>3, <3>4 DEF Progress
  <2> QED BY <1>6, <2>2, <2>3 DEF ReadReputation
<1>7. CASE UpsertReputation(w)
  BY <1>7, GotoIsProgress, ReturnIsProgress DEF UpsertReputation
<1>8. CASE ReadStreak(w)
  <2> DEFINE new == [call[w] EXCEPT !.pc = "extend", !.had = streak]
  <2>1. call[w].pc # "idle" /\ UNCHANGED history
    BY <1>8 DEF ReadStreak
  <2>2. CASE Return(w)
    BY <2>1, <2>2, ReturnIsProgress
  <2>3. CASE call' = [call EXCEPT ![w].pc = "extend", ![w].had = streak]
    <3>1. call \in [Workers -> Call] /\ call[w] \in Call /\ streak \in Streak
      BY DEF TypeOK
    <3>2. /\ new \in Call /\ new.pc = "extend"
          /\ RunOf(new) = RunOf(call[w])
      BY <3>1 DEF Call, RunOf
    <3>3. call' = [call EXCEPT ![w] = new]
      BY <2>3, <3>1
    <3> HIDE DEF new
    <3> QED BY <2>1, <3>2, <3>3 DEF Progress
  <2> QED BY <1>8, <2>2, <2>3 DEF ReadStreak
<1>9. CASE UpsertStreak(w)
  BY <1>9, GotoIsProgress, ReturnIsProgress DEF UpsertStreak
<1>10. CASE AwardBadges(w)
  BY <1>10, ReturnIsProgress DEF AwardBadges
<1>11. CASE Returns(w)
  BY <1>11, ReturnIsProgress DEF Returns, history
<1> QED BY <1>1, <1>2, <1>3, <1>4, <1>5, <1>6, <1>7, <1>8, <1>9, <1>10,
           <1>11 DEF Step

-----------------------------------------------------------------------------
(* The calls: a step starts one, moves one on, ends one, or ends them all. *)

LEMMA ProgressKeepsCalls ==
  ASSUME TypeOK, CallInv, RanInv, NEW w \in Workers, Progress(w)
  PROVE  CallInv' /\ RanInv'
<1>1. RanInv'
  BY DEF Progress, history, RanInv
<1>2. PICK new \in Call :
        /\ call' = [call EXCEPT ![w] = new]
        /\ \/ new = Idle
           \/ /\ new.pc \notin {"idle", "save"}
              /\ RunOf(new) = RunOf(call[w])
              /\ new.pc = "deal" => SavesDeal(new.kind)
  BY DEF Progress
<1>3. /\ call'[w] = new
      /\ \A u \in Workers \ {w} : call'[u] = call[u]
  BY <1>2 DEF TypeOK
<1>4. call[w].pc # "idle" /\ ran' = ran
  BY DEF Progress, history
<1>5. new = Idle \/ new.id = call[w].id
  BY <1>2 DEF RunOf
<1>6. ASSUME NEW u \in Workers
      PROVE  \/ call'[u] = Idle
             \/ /\ call'[u].pc # "idle"
                /\ RunOf(call'[u]) \in ran'
                /\ call'[u].pc = "deal" => SavesDeal(call'[u].kind)
  <2>1. CASE u = w
    BY <1>2, <1>3, <1>4, <2>1, Busy
  <2>2. CASE u # w
    BY <1>3, <1>4, <2>2 DEF CallInv
  <2> QED BY <2>1, <2>2
<1>7. ASSUME NEW u \in Workers, NEW x \in Workers, u # x,
             call'[u].id = call'[x].id
      PROVE  call'[u] = Idle
  <2>1. Idle.id = 0 /\ Idle.pc = "idle"
    BY DEF Idle
  <2>2. \A y \in Workers : call[y] # Idle => call[y].id # 0
    BY Busy DEF CallInv, CallIds
  <2>3. CASE u # w /\ x # w
    BY <1>3, <1>7, <2>3 DEF CallInv
  <2>4. CASE new = Idle /\ (u = w \/ x = w)
    BY <1>3, <1>7, <2>1, <2>2, <2>4
  <2>5. CASE new.id = call[w].id /\ u = w
    BY <1>3, <1>4, <1>7, <2>1, <2>5 DEF CallInv
  <2>6. CASE new.id = call[w].id /\ x = w
    BY <1>3, <1>7, <2>6 DEF CallInv
  <2> QED BY <1>5, <2>3, <2>4, <2>5, <2>6
<1>8. CallInv'
  BY <1>6, <1>7 DEF CallInv, RunOf
<1> QED BY <1>1, <1>8

LEMMA BeginKeepsCalls ==
  ASSUME TypeOK, CallInv, RanInv,
         NEW w \in Workers, NEW kind \in Kinds, NEW s \in Sessions,
         NEW t \in Terms, NEW pc \in PCs \ {"idle", "deal"},
         Begin(w, kind, s, t, pc),
         ran' = ran \cup {[call |-> calls + 1, kind |-> kind, session |-> s,
                           terms |-> t]},
         minted \subseteq minted', s \in minted', DraftOf(t) \in Drafts
  PROVE  CallInv' /\ RanInv'
<1> DEFINE new == [pc |-> pc, id |-> calls + 1, kind |-> kind, session |-> s,
                   terms |-> t, seen |-> NoReputation, had |-> NoStreak]
           run == [call |-> calls + 1, kind |-> kind, session |-> s,
                   terms |-> t]
<1>1. call' = [call EXCEPT ![w] = new] /\ calls' = calls + 1
  BY DEF Begin
<1>2. new.pc = pc /\ new.id = calls + 1 /\ RunOf(new) = run
  BY DEF RunOf
<1>3. run.call = calls + 1 /\ run.session = s /\ DraftOf(run.terms) = DraftOf(t)
  BY DEF DraftOf
<1>4. calls \in Nat /\ \A r \in ran : r.call \in Nat
  BY SessionRunsAssumption DEF TypeOK, Run, CallIds
<1>5. ran' = ran \cup {run}
  OBVIOUS
<1> HIDE DEF new, run
<1>6. RanInv'
  <2>1. \A r \in ran : r.call <= calls /\ r.session \in minted
    BY DEF RanInv
  <2>2. \A r \in ran' : /\ r.call <= calls'
                        /\ r.session \in minted'
                        /\ DraftOf(r.terms) \in Drafts
    BY <1>1, <1>3, <1>4, <1>5, <2>1 DEF RanInv
  <2>3. \A q, r \in ran' : q.call = r.call => q = r
    BY <1>3, <1>4, <1>5, <2>1 DEF RanInv
  <2> QED BY <2>2, <2>3 DEF RanInv, DraftOf
<1>7. /\ call'[w] = new
      /\ \A u \in Workers \ {w} : call'[u] = call[u]
  BY <1>1 DEF TypeOK
<1>8. \A u \in Workers : call[u] = Idle \/ call[u].id <= calls
  BY DEF CallInv, RanInv, RunOf
<1>9. Idle.id = 0
  BY DEF Idle
<1>10. ASSUME NEW u \in Workers
       PROVE  \/ call'[u] = Idle
              \/ /\ call'[u].pc # "idle"
                 /\ RunOf(call'[u]) \in ran'
                 /\ call'[u].pc = "deal" => SavesDeal(call'[u].kind)
  <2>1. CASE u = w
    BY <1>2, <1>5, <1>7, <2>1
  <2>2. CASE u # w
    BY <1>5, <1>7, <2>2 DEF CallInv
  <2> QED BY <2>1, <2>2
<1>11. ASSUME NEW u \in Workers, NEW x \in Workers, u # x,
              call'[u].id = call'[x].id
       PROVE  call'[u] = Idle
  <2>1. \A y \in Workers : call[y].id # calls + 1
    BY <1>4, <1>8, <1>9, Busy DEF CallInv, CallIds
  <2> QED BY <1>2, <1>7, <1>11, <2>1 DEF CallInv
<1>12. CallInv'
  BY <1>10, <1>11 DEF CallInv, RunOf
<1> QED BY <1>6, <1>12

-----------------------------------------------------------------------------
(* The values the steps store have their types.                            *)

LEMMA TermsTyped ==
  ASSUME NEW d \in Drafts, NEW threshold \in Nat, NEW maxRounds \in Nat
  PROVE  /\ TermsOf(d, threshold, maxRounds) \in Terms
         /\ DraftOf(TermsOf(d, threshold, maxRounds)) = d
<1>1. d \in [strategy : Strategies, listPrice : ListPrices, budget : Nat]
  BY SessionRunsAssumption
<1> QED BY <1>1 DEF TermsOf, DraftOf, Terms

LEMMA NewRowTyped ==
  ASSUME NEW d \in Drafts
  PROVE  NewRow(d) \in Row /\ NewRow(d).draft = d /\ NewRow(d).status = "active"
<1>1. d.strategy \in Strategies /\ d.listPrice \in ListPrices
  BY SessionRunsAssumption
<1>2. InitialOffer(d.strategy, d.listPrice) \in Nat
  BY <1>1, InitialOfferBounds
<1> QED BY <1>2 DEF NewRow, Row

LEMMA ConcludedRowTyped ==
  ASSUME NEW row \in Row, NEW t \in Terms
  PROVE  /\ ConcludedRow(row, t) \in Row
         /\ ConcludedRow(row, t).draft = row.draft
         /\ ConcludedRow(row, t).status = "completed"
         /\ ConcludedRow(row, t).offer = FinalOffer(t)
         /\ ConcludedRow(row, t).rounds = RoundsComplete(t)
  BY ResultBounds DEF ConcludedRow, Row

\* The rows that no negotiation works on are told apart by their status.
LEMMA RowsDiffer ==
  /\ NoRow.status = "none" /\ NoRow \notin Row
  /\ QueryRow.status = "completed" /\ QueryRow \notin Row /\ QueryRow # NoRow
  BY DEF NoRow, QueryRow, Row

LEMMA UpdatedTyped ==
  ASSUME NEW rep \in Reputation, NEW t \in Terms
  PROVE  Updated(rep, TotalDiscount(t)) \in Reputation
  BY TotalDiscountBounds DEF Updated, Reputation

LEMMA ExtendedTyped ==
  ASSUME NEW had \in Streak, NEW t \in Terms, NEW gap \in BOOLEAN
  PROVE  Extended(had, t.listPrice - FinalOffer(t), gap) \in Streak
<1>1. t.listPrice - FinalOffer(t) \in Nat
  BY ResultBounds DEF Terms, ListPrices
<1> QED BY <1>1 DEF Extended, Streak

LEMMA NegotiableRow ==
  ASSUME TypeOK, RowInv, NEW s \in Sessions, Negotiable(sessions[s])
  PROVE  /\ sessions[s] \in Row /\ sessions[s].draft \in Drafts
         /\ s \in minted
<1>1. sessions[s] \in Row \cup {NoRow, QueryRow}
  BY DEF TypeOK
<1>2. sessions[s] \in Row /\ sessions[s] # NoRow
  BY <1>1, RowsDiffer DEF Negotiable
<1> QED BY <1>2 DEF Row, RowInv

-----------------------------------------------------------------------------
(* Every step keeps CallInv and RanInv.                                    *)

LEMMA StartedRun ==
  ASSUME TypeOK, CallInv, RanInv, RowInv,
         NEW w \in Workers, NEW kind \in {"run", "parallel"},
         NEW s \in Sessions, NEW threshold \in Nat,
         StartRun(w, kind, s, threshold)
  PROVE  /\ TermsOf(sessions[s].draft, threshold, 0) \in Terms
         /\ CallInv' /\ RanInv'
<1> DEFINE t == TermsOf(sessions[s].draft, threshold, 0)
<1>1. sessions[s].draft \in Drafts /\ s \in minted
  BY NegotiableRow DEF StartRun
<1>2. t \in Terms /\ DraftOf(t) \in Drafts
  BY <1>1, TermsTyped
<1>3. /\ Begin(w, kind, s, t, "learn")
      /\ ran' = ran \cup {[call |-> calls + 1, kind |-> kind, session |-> s,
                           terms |-> t]}
      /\ minted' = minted
  BY DEF StartRun
<1>4. kind \in Kinds /\ "learn" \in PCs \ {"idle", "deal"}
  BY DEF Kinds, PCs
<1> HIDE DEF t
<1>5. CallInv' /\ RanInv'
  BY <1>1, <1>2, <1>3, <1>4, BeginKeepsCalls
<1> QED BY <1>2, <1>5 DEF t

LEMMA StartedNegotiate ==
  ASSUME TypeOK, CallInv, RanInv, NEW w \in Workers, NEW s \in Sessions,
         NEW draft \in Drafts, StartNegotiate(w, s, draft)
  PROVE  /\ TermsOf(draft, 0, 1) \in Terms
         /\ CallInv' /\ RanInv'
<1> DEFINE t == TermsOf(draft, 0, 1)
<1>1. t \in Terms /\ DraftOf(t) \in Drafts
  BY TermsTyped
<1>2. /\ Begin(w, "a2a", s, t, "save")
      /\ ran' = ran \cup {[call |-> calls + 1, kind |-> "a2a", session |-> s,
                           terms |-> t]}
      /\ minted' = minted \cup {s}
  BY DEF StartNegotiate, Mint
<1>3. "a2a" \in Kinds /\ "save" \in PCs \ {"idle", "deal"}
  BY DEF Kinds, PCs
<1> HIDE DEF t
<1>4. CallInv' /\ RanInv'
  BY <1>1, <1>2, <1>3, BeginKeepsCalls
<1> QED BY <1>1, <1>4 DEF t

LEMMA NextCalls ==
  ASSUME TypeOK, CallInv, RanInv, RowInv, StoreStep
  PROVE  CallInv' /\ RanInv'
<1>1. ASSUME NEW s \in Sessions, NEW draft \in Drafts, CreateSession(s, draft)
      PROVE  CallInv' /\ RanInv'
  BY <1>1 DEF CreateSession, Mint, CallInv, RanInv
<1>2. ASSUME NEW s \in Sessions, QueryPrice(s) PROVE CallInv' /\ RanInv'
  BY <1>2 DEF QueryPrice, Mint, CallInv, RanInv
<1>3. ASSUME NEW w \in Workers, NEW kind \in {"run", "parallel"},
             NEW s \in Sessions, NEW threshold \in Nat,
             StartRun(w, kind, s, threshold)
      PROVE  CallInv' /\ RanInv'
  BY <1>3, StartedRun
<1>4. ASSUME NEW w \in Workers, NEW s \in Sessions, NEW draft \in Drafts,
             StartNegotiate(w, s, draft)
      PROVE  CallInv' /\ RanInv'
  BY <1>4, StartedNegotiate
<1>5. CASE RefuseNegotiate
  <2>1. call' = call /\ ran' = ran /\ minted' = minted /\ calls' = calls + 1
    BY <1>5 DEF RefuseNegotiate
  <2>2. calls \in Nat /\ \A r \in ran : r.call \in Nat
    BY SessionRunsAssumption DEF TypeOK, Run, CallIds
  <2>3. \A r \in ran' : r.call <= calls'
    BY <2>1, <2>2 DEF RanInv
  <2> QED BY <2>1, <2>3 DEF CallInv, RanInv, RunOf
<1>6. ASSUME NEW w \in Workers, Step(w) \/ Returns(w)
      PROVE  CallInv' /\ RanInv'
  BY <1>6, StepIsProgress, ProgressKeepsCalls
<1>7. CASE Crash
  <2>1. call' = [w \in Workers |-> Idle] /\ UNCHANGED history
    BY <1>7 DEF Crash
  <2> QED BY <2>1 DEF history, CallInv, RanInv, RunOf
<1>8. CASE Waits
  BY <1>8 DEF Waits, history, CallInv, RanInv, RunOf
<1> QED BY <1>1, <1>2, <1>3, <1>4, <1>5, <1>6, <1>7, <1>8 DEF StoreStep

-----------------------------------------------------------------------------
(* Every step keeps the types.                                             *)

LEMMA FaultsTyped ==
  ASSUME TypeOK, Works \/ Fails
  PROVE  faults' \in 0..MaxFaults
  BY SessionRunsAssumption DEF TypeOK, Works, Fails

LEMMA BegunTyped ==
  ASSUME TypeOK, NEW w \in Workers, NEW kind \in Kinds, NEW s \in Sessions,
         NEW t \in Terms, NEW pc \in PCs, Begin(w, kind, s, t, pc)
  PROVE  /\ calls + 1 \in CallIds /\ calls' \in 0..MaxCalls
         /\ call' \in [Workers -> Call]
         /\ [call |-> calls + 1, kind |-> kind, session |-> s, terms |-> t]
               \in Run
<1>1. calls + 1 \in CallIds /\ calls + 1 \in 0..MaxCalls /\ calls' = calls + 1
  BY SessionRunsAssumption DEF TypeOK, Begin, CallIds
<1>2. NoReputation \in Reputation /\ NoStreak \in Streak
  BY DEF NoReputation, Reputation, NoStreak, Streak
<1>3. [pc |-> pc, id |-> calls + 1, kind |-> kind, session |-> s, terms |-> t,
       seen |-> NoReputation, had |-> NoStreak] \in Call
  BY <1>1, <1>2 DEF Call
<1>4. call' \in [Workers -> Call]
  BY <1>3 DEF TypeOK, Begin
<1> QED BY <1>1, <1>4 DEF Run

LEMMA ProgressTyped ==
  ASSUME TypeOK, NEW w \in Workers, Progress(w)
  PROVE  /\ call' \in [Workers -> Call]
         /\ minted' \subseteq Sessions /\ calls' \in 0..MaxCalls
         /\ ran' \subseteq Run
  BY DEF Progress, history, TypeOK

\* The tables, and what belongs to a call.
TablesTyped ==
    /\ sessions \in [Sessions -> Row \cup {NoRow, QueryRow}]
    /\ roundRows \subseteq [call : CallIds, session : Sessions, row : RoundRows]
    /\ dealRows \subseteq [call : CallIds, session : Sessions, price : Nat]
    /\ outcomes \subseteq CallIds
    /\ mandates \subseteq CallIds
    /\ reputation \in [Vendors -> Reputation]
    /\ streak \in Streak
    /\ faults \in 0..MaxFaults
    /\ overlapped \subseteq Sessions \cup Vendors

LEMMA StepKeepsTables ==
  ASSUME TypeOK, CallInv, RanInv, RowInv, NEW w \in Workers,
         Step(w) \/ Returns(w)
  PROVE  TablesTyped'
<1> DEFINE c == call[w]
<1>1. call[w].pc # "idle"
  BY StepIsProgress DEF Progress
<1>2. /\ c.id \in CallIds /\ c.session \in Sessions /\ c.terms \in Terms
      /\ DraftOf(c.terms) \in Drafts /\ RunOf(c) \in ran
  BY <1>1, Busy
<1>3. c \in Call
  BY DEF TypeOK
<1>4. FinalOffer(c.terms) \in Nat
  BY <1>2, ResultBounds
<1>5. Works \/ Fails => faults' \in 0..MaxFaults
  BY FaultsTyped
<1>6. TablesTyped
  BY DEF TypeOK, TablesTyped
<1> USE DEF store, records
<1>7. CASE RecordOutcome(w)
  BY <1>2, <1>5, <1>6, <1>7 DEF RecordOutcome, TablesTyped
<1>8. CASE SaveSession(w)
  <2>1. NewRow(DraftOf(c.terms)) \in Row
    BY <1>2, NewRowTyped
  <2>2. sessions' \in [Sessions -> Row \cup {NoRow, QueryRow}]
    BY <1>6, <1>8, <2>1 DEF SaveSession, TablesTyped
  <2> QED BY <1>5, <1>6, <1>8, <2>2 DEF SaveSession, TablesTyped
<1>9. CASE UpdateSession(w)
  <2>1. sessions[c.session] = NoRow \/ sessions[c.session] \in Row
    BY <1>2 DEF RowInv, RunOf
  <2>2. sessions[c.session] \in Row =>
           ConcludedRow(sessions[c.session], c.terms) \in Row
    BY <1>2, ConcludedRowTyped
  <2>3. sessions' \in [Sessions -> Row \cup {NoRow, QueryRow}]
    BY <1>6, <1>9, <2>1, <2>2 DEF UpdateSession, TablesTyped
  <2> QED BY <1>5, <1>6, <1>9, <2>3 DEF UpdateSession, TablesTyped
<1>10. CASE SaveRounds(w)
  <2>1. /\ Rounds(c.terms) \in Seq(RoundRows) /\ Len(Rounds(c.terms)) \in Nat
    BY <1>2, RoundsShape
  <2>2. ASSUME NEW n \in 0..Len(Rounds(c.terms)), NEW i \in 1..n
        PROVE  [call |-> c.id, session |-> c.session,
                row |-> Rounds(c.terms)[i]]
                   \in [call : CallIds, session : Sessions, row : RoundRows]
    <3>1. i \in 1..Len(Rounds(c.terms))
      BY <2>1
    <3>2. Rounds(c.terms)[i] \in RoundRows
      BY <2>1, <3>1
    <3> QED BY <1>2, <3>2
  <2>3. \E n \in 0..Len(Rounds(c.terms)) :
           roundRows' = roundRows \cup
              {[call |-> c.id, session |-> c.session,
                row |-> Rounds(c.terms)[i]] : i \in 1..n}
    <3> DEFINE Inserted(n) == {[call |-> c.id, session |-> c.session,
                                row |-> Rounds(c.terms)[i]] : i \in 1..n}
    <3> SUFFICES \E n \in 0..Len(Rounds(c.terms)) :
                    roundRows' = roundRows \cup Inserted(n)
      OBVIOUS
    <3>1. CASE roundRows' = roundRows \cup Inserted(Len(Rounds(c.terms)))
      <4>1. Len(Rounds(c.terms)) \in 0..Len(Rounds(c.terms))
        BY <2>1
      <4> QED BY <3>1, <4>1
    <3>2. ASSUME NEW n \in 0..(Len(Rounds(c.terms)) - 1),
                 roundRows' = roundRows \cup Inserted(n)
          PROVE  n \in 0..Len(Rounds(c.terms))
      BY <2>1
    <3> QED BY <1>10, <3>1, <3>2 DEF SaveRounds
  <2>4. roundRows' \subseteq
           [call : CallIds, session : Sessions, row : RoundRows]
    BY <1>6, <2>2, <2>3 DEF TablesTyped
  <2> QED BY <1>5, <1>6, <1>10, <2>4 DEF SaveRounds, TablesTyped
<1>11. CASE SaveDealOutcome(w)
  BY <1>2, <1>4, <1>5, <1>6, <1>11 DEF SaveDealOutcome, TablesTyped
<1>12. CASE ReadReputation(w)
  BY <1>5, <1>6, <1>12 DEF ReadReputation, TablesTyped
<1>13. CASE UpsertReputation(w)
  <2>1. c.seen \in Reputation
    BY <1>3 DEF Call
  <2>2. Updated(c.seen, TotalDiscount(c.terms)) \in Reputation
    BY <1>2, <2>1, UpdatedTyped
  <2>3. reputation' \in [Vendors -> Reputation]
    BY <1>6, <1>13, <2>2 DEF UpsertReputation, TablesTyped
  <2> QED BY <1>5, <1>6, <1>13, <2>3 DEF UpsertReputation, TablesTyped
<1>14. CASE ReadStreak(w)
  BY <1>5, <1>6, <1>14 DEF ReadStreak, TablesTyped
<1>15. CASE UpsertStreak(w)
  <2>1. c.had \in Streak
    BY <1>3 DEF Call
  <2>2. \A gap \in BOOLEAN : Extended(c.had, c.terms.listPrice
                                - FinalOffer(c.terms), gap) \in Streak
    BY <1>2, <2>1, ExtendedTyped
  <2>3. streak' \in Streak
    BY <1>6, <1>15, <2>2 DEF UpsertStreak, TablesTyped
  <2> QED BY <1>5, <1>6, <1>15, <2>3 DEF UpsertStreak, TablesTyped
<1>16. CASE AwardBadges(w)
  BY <1>6, <1>16 DEF AwardBadges, TablesTyped
<1>17. CASE Returns(w)
  BY <1>6, <1>17 DEF Returns, TablesTyped
<1> QED BY <1>7, <1>8, <1>9, <1>10, <1>11, <1>12, <1>13, <1>14, <1>15, <1>16,
           <1>17 DEF Step

LEMMA OverlapsTyped ==
  ASSUME TypeOK, NEW w \in Workers, NEW s \in Sessions
  PROVE  Overlaps(w, s) \subseteq Sessions \cup Vendors
  BY SessionRunsAssumption DEF Overlaps

LEMMA NextTyped ==
  ASSUME TypeOK, CallInv, RanInv, RowInv, StoreStep
  PROVE  TypeOK'
<1> USE DEF store, records
<1>1. ASSUME NEW s \in Sessions, NEW draft \in Drafts, CreateSession(s, draft)
      PROVE  TypeOK'
  <2>1. NewRow(draft) \in Row /\ faults' \in 0..MaxFaults
    BY <1>1, NewRowTyped, FaultsTyped DEF CreateSession
  <2>2. sessions' \in [Sessions -> Row \cup {NoRow, QueryRow}]
    BY <1>1, <2>1 DEF CreateSession, TypeOK
  <2> QED BY <1>1, <2>1, <2>2 DEF CreateSession, Mint, TypeOK
<1>2. ASSUME NEW s \in Sessions, QueryPrice(s) PROVE TypeOK'
  <2>1. faults' \in 0..MaxFaults
    BY <1>2, FaultsTyped DEF QueryPrice
  <2>2. sessions' \in [Sessions -> Row \cup {NoRow, QueryRow}]
    BY <1>2 DEF QueryPrice, TypeOK
  <2> QED BY <1>2, <2>1, <2>2 DEF QueryPrice, Mint, TypeOK
<1>3. ASSUME NEW w \in Workers, NEW kind \in {"run", "parallel"},
             NEW s \in Sessions, NEW threshold \in Nat,
             StartRun(w, kind, s, threshold)
      PROVE  TypeOK'
  <2> DEFINE t == TermsOf(sessions[s].draft, threshold, 0)
  <2>1. t \in Terms /\ kind \in Kinds /\ "learn" \in PCs
    BY <1>3, StartedRun DEF Kinds, PCs
  <2>2. Begin(w, kind, s, t, "learn")
    BY <1>3 DEF StartRun
  <2> HIDE DEF t
  <2>3. /\ calls' \in 0..MaxCalls /\ call' \in [Workers -> Call]
        /\ [call |-> calls + 1, kind |-> kind, session |-> s, terms |-> t]
              \in Run
    BY <2>1, <2>2, BegunTyped
  <2>4. overlapped' \subseteq Sessions \cup Vendors
    BY <1>3, OverlapsTyped DEF StartRun, TypeOK
  <2>5. ran' \subseteq Run
    BY <1>3, <2>3 DEF StartRun, TypeOK, t
  <2>6. UNCHANGED <<minted, sessions, roundRows, dealRows, outcomes, mandates,
                    reputation, streak, faults>>
    BY <1>3 DEF StartRun
  <2> QED BY <2>3, <2>4, <2>5, <2>6 DEF TypeOK
<1>4. ASSUME NEW w \in Workers, NEW s \in Sessions, NEW draft \in Drafts,
             StartNegotiate(w, s, draft)
      PROVE  TypeOK'
  <2> DEFINE t == TermsOf(draft, 0, 1)
  <2>1. t \in Terms /\ "a2a" \in Kinds /\ "save" \in PCs
    BY <1>4, StartedNegotiate DEF Kinds, PCs
  <2>2. Begin(w, "a2a", s, t, "save")
    BY <1>4 DEF StartNegotiate
  <2> HIDE DEF t
  <2>3. /\ calls + 1 \in CallIds
        /\ calls' \in 0..MaxCalls /\ call' \in [Workers -> Call]
        /\ [call |-> calls + 1, kind |-> "a2a", session |-> s, terms |-> t]
              \in Run
    BY <2>1, <2>2, BegunTyped
  <2>4. ran' \subseteq Run
    BY <1>4, <2>3 DEF StartNegotiate, TypeOK, t
  <2>5. minted' \subseteq Sessions /\ mandates' \subseteq CallIds
    BY <1>4, <2>3 DEF StartNegotiate, Mint, TypeOK
  <2>6. UNCHANGED <<sessions, roundRows, dealRows, outcomes, reputation,
                    streak, faults, overlapped>>
    BY <1>4 DEF StartNegotiate
  <2> QED BY <2>3, <2>4, <2>5, <2>6 DEF TypeOK
<1>5. CASE RefuseNegotiate
  <2>1. calls + 1 \in CallIds /\ calls + 1 \in 0..MaxCalls
    BY <1>5, SessionRunsAssumption DEF RefuseNegotiate, TypeOK, CallIds
  <2>2. mandates' \subseteq CallIds
    BY <1>5, <2>1 DEF RefuseNegotiate, TypeOK
  <2> QED BY <1>5, <2>1, <2>2 DEF RefuseNegotiate, TypeOK
<1>6. ASSUME NEW w \in Workers, Step(w) \/ Returns(w)
      PROVE  TypeOK'
  <2>1. TablesTyped'
    BY <1>6, StepKeepsTables
  <2>2. /\ call' \in [Workers -> Call]
        /\ minted' \subseteq Sessions /\ calls' \in 0..MaxCalls
        /\ ran' \subseteq Run
    BY <1>6, StepIsProgress, ProgressTyped
  <2> QED BY <2>1, <2>2 DEF TablesTyped, TypeOK
<1>7. CASE Crash
  <2>1. faults' \in 0..MaxFaults
    BY <1>7, FaultsTyped DEF Crash
  <2>2. call' \in [Workers -> Call]
    BY <1>7, IdleTyped DEF Crash
  <2> QED BY <1>7, <2>1, <2>2 DEF Crash, history, TypeOK
<1>8. CASE Waits
  <2>1. faults' \in 0..MaxFaults
    BY <1>8, FaultsTyped DEF Waits
  <2> QED BY <1>8, <2>1 DEF Waits, history, TypeOK
<1> QED BY <1>1, <1>2, <1>3, <1>4, <1>5, <1>6, <1>7, <1>8 DEF StoreStep

-----------------------------------------------------------------------------
(* The rows of the sessions.                                               *)

\* A goroutine that goes on with its run is not about to save a session.
LEMMA SaversBefore ==
  ASSUME TypeOK, NEW w \in Workers, Progress(w),
         NEW u \in Workers, call'[u].pc = "save"
  PROVE  u # w /\ call'[u] = call[u]
<1>1. PICK new \in Call :
         /\ call' = [call EXCEPT ![w] = new]
         /\ new = Idle \/ new.pc \notin {"idle", "save"}
  BY DEF Progress
<1>2. new.pc # "save"
  BY <1>1 DEF Idle
<1> QED BY <1>1, <1>2 DEF TypeOK

\* The session a goroutine is about to save.
LEMMA Saver ==
  ASSUME TypeOK, CallInv, RanInv, RowInv,
         NEW w \in Workers, call[w].pc = "save"
  PROVE  /\ call[w].session \in Sessions \cap minted
         /\ sessions[call[w].session] = NoRow
         /\ \A r \in ran : r.session = call[w].session =>
               r.call = call[w].id /\ r.terms = call[w].terms
<1>1. call[w].session \in Sessions \cap minted /\ RunOf(call[w]) \in ran
  BY Busy
<1>2. ASSUME NEW r \in ran, r.session = call[w].session
      PROVE  r.call = call[w].id /\ r.terms = call[w].terms
  <2>1. r.call = call[w].id
    BY <1>2 DEF RowInv
  <2>2. RunOf(call[w]).call = call[w].id
        /\ RunOf(call[w]).terms = call[w].terms
    BY DEF RunOf
  <2>3. r = RunOf(call[w])
    BY <1>1, <2>1, <2>2 DEF RanInv
  <2> QED BY <2>1, <2>2, <2>3
<1> QED BY <1>1, <1>2 DEF RowInv

\* Nothing a step does to the calls disturbs the rows.
LEMMA SameRows ==
  ASSUME RowInv, UNCHANGED <<sessions, ran>>, minted \subseteq minted',
         \A u \in Workers : call'[u].pc = "save" => call'[u] = call[u]
  PROVE  RowInv'
  BY DEF RowInv, DraftOf

LEMMA StartedRows ==
  ASSUME TypeOK, CallInv, RanInv, RowInv,
         NEW w \in Workers, NEW kind \in {"run", "parallel"},
         NEW s \in Sessions, NEW threshold \in Nat,
         StartRun(w, kind, s, threshold)
  PROVE  RowInv'
<1> DEFINE t == TermsOf(sessions[s].draft, threshold, 0)
           run == [call |-> calls + 1, kind |-> kind, session |-> s,
                   terms |-> t]
<1>1. sessions[s] \in Row /\ sessions[s].draft \in Drafts
  BY NegotiableRow DEF StartRun
<1>2. run.session = s /\ DraftOf(run.terms) = sessions[s].draft
  BY <1>1, TermsTyped
<1>3. /\ sessions' = sessions /\ minted' = minted
      /\ ran' = ran \cup {run}
  BY DEF StartRun, store
<1>4. /\ call'[w].pc = "learn"
      /\ \A u \in Workers \ {w} : call'[u] = call[u]
  BY DEF StartRun, Begin, TypeOK
<1> HIDE DEF run
<1>5. \A r \in ran' : \/ sessions'[r.session] = NoRow
                      \/ /\ sessions'[r.session] \in Row
                         /\ sessions'[r.session].draft = DraftOf(r.terms)
  BY <1>1, <1>2, <1>3 DEF RowInv
<1>6. ASSUME NEW u \in Workers, call'[u].pc = "save"
      PROVE  /\ sessions'[call'[u].session] = NoRow
             /\ \A r \in ran' : r.session = call'[u].session =>
                   r.call = call'[u].id
  <2>1. call'[u] = call[u] /\ call[u].pc = "save"
    BY <1>4, <1>6
  <2>2. sessions[call[u].session] = NoRow
    BY <2>1 DEF RowInv
  <2>3. call[u].session # s
    BY <1>1, <2>2, RowsDiffer
  <2> QED BY <1>2, <1>3, <2>1, <2>2, <2>3 DEF RowInv
<1>7. \A x \in Sessions : sessions'[x] # NoRow => x \in minted'
  BY <1>3 DEF RowInv
<1> QED BY <1>5, <1>6, <1>7 DEF RowInv, DraftOf

LEMMA MintedRows ==
  ASSUME TypeOK, CallInv, RanInv, RowInv, NEW s \in Sessions, Mint(s),
         NEW row \in Row \cup {NoRow, QueryRow},
         sessions' = [sessions EXCEPT ![s] = row],
         UNCHANGED <<call, ran>>
  PROVE  RowInv'
<1>1. /\ sessions'[s] = row
      /\ \A x \in Sessions \ {s} : sessions'[x] = sessions[x]
  BY DEF TypeOK
<1>2. s \notin minted /\ minted' = minted \cup {s}
  BY DEF Mint
<1>3. \A r \in ran : r.session \in Sessions /\ r.session # s
  BY <1>2 DEF RanInv, TypeOK
<1>4. \A u \in Workers : call[u].pc = "save" =>
         call[u].session \in Sessions /\ call[u].session # s
  BY <1>2, Saver
<1>5. \A x \in Sessions : sessions'[x] # NoRow => x \in minted'
  BY <1>1, <1>2 DEF RowInv
<1>6. \A r \in ran : sessions'[r.session] = sessions[r.session]
  BY <1>1, <1>3
<1>7. \A u \in Workers : call[u].pc = "save" =>
         sessions'[call[u].session] = sessions[call[u].session]
  BY <1>1, <1>4
<1> QED BY <1>5, <1>6, <1>7 DEF RowInv, DraftOf

LEMMA NegotiatedRows ==
  ASSUME TypeOK, CallInv, RanInv, RowInv,
         NEW w \in Workers, NEW s \in Sessions, NEW draft \in Drafts,
         StartNegotiate(w, s, draft)
  PROVE  RowInv'
<1> DEFINE t == TermsOf(draft, 0, 1)
           run == [call |-> calls + 1, kind |-> "a2a", session |-> s,
                   terms |-> t]
<1>1. s \notin minted /\ minted' = minted \cup {s}
  BY DEF StartNegotiate, Mint
<1>2. sessions' = sessions /\ sessions[s] = NoRow
  BY <1>1 DEF StartNegotiate, RowInv
<1>3. ran' = ran \cup {run} /\ run.session = s /\ run.call = calls + 1
  BY DEF StartNegotiate
<1>4. /\ call'[w].session = s /\ call'[w].id = calls + 1
      /\ \A u \in Workers \ {w} : call'[u] = call[u]
  BY DEF StartNegotiate, Begin, TypeOK
<1> HIDE DEF run
<1>5. \A r \in ran : r.session # s
  BY <1>1 DEF RanInv
<1>6. \A x \in Sessions : sessions'[x] # NoRow => x \in minted'
  BY <1>1, <1>2 DEF RowInv
<1>7. \A r \in ran' : \/ sessions'[r.session] = NoRow
                      \/ /\ sessions'[r.session] \in Row
                         /\ sessions'[r.session].draft = DraftOf(r.terms)
  BY <1>2, <1>3 DEF RowInv
<1>8. ASSUME NEW u \in Workers, call'[u].pc = "save"
      PROVE  /\ sessions'[call'[u].session] = NoRow
             /\ \A r \in ran' : r.session = call'[u].session =>
                   r.call = call'[u].id
  <2>1. CASE u = w
    BY <1>2, <1>3, <1>4, <1>5, <2>1
  <2>2. CASE u # w
    <3>1. call'[u] = call[u] /\ call[u].pc = "save"
      BY <1>4, <1>8, <2>2
    <3>2. call[u].session # s
      BY <1>1, <3>1, Saver
    <3> QED BY <1>2, <1>3, <3>1, <3>2 DEF RowInv
  <2> QED BY <2>1, <2>2
<1> QED BY <1>6, <1>7, <1>8 DEF RowInv, DraftOf

LEMMA SavedRows ==
  ASSUME TypeOK, CallInv, RanInv, RowInv, NEW w \in Workers, SaveSession(w)
  PROVE  RowInv'
<1> DEFINE s == call[w].session
           row == NewRow(DraftOf(call[w].terms))
<1>1. Progress(w) /\ ran' = ran /\ minted' = minted
  BY StepIsProgress DEF Step, SaveSession, history
<1>2. \A u \in Workers : call'[u].pc = "save" => u # w /\ call'[u] = call[u]
  BY <1>1, SaversBefore
<1>3. CASE UNCHANGED sessions
  BY <1>1, <1>2, <1>3, SameRows
<1>4. CASE sessions' = [sessions EXCEPT ![s] = row]
  <2>1. call[w].pc = "save" /\ call[w].pc # "idle"
    BY DEF SaveSession, At
  <2>2. /\ s \in Sessions \cap minted
        /\ \A r \in ran : r.session = s => /\ r.call = call[w].id
                                           /\ r.terms = call[w].terms
    BY <2>1, Saver
  <2>3. row \in Row /\ row.draft = DraftOf(call[w].terms)
    BY <2>1, Busy, NewRowTyped
  <2> HIDE DEF row
  <2>4. /\ sessions'[s] = row
        /\ \A x \in Sessions \ {s} : sessions'[x] = sessions[x]
    BY <1>4, <2>2 DEF TypeOK
  <2>5. \A x \in Sessions : sessions'[x] # NoRow => x \in minted'
    BY <1>1, <2>2, <2>4 DEF RowInv
  <2>6. ASSUME NEW r \in ran'
        PROVE  \/ sessions'[r.session] = NoRow
               \/ /\ sessions'[r.session] \in Row
                  /\ sessions'[r.session].draft = DraftOf(r.terms)
    <3>1. r \in ran /\ r.session \in Sessions
      BY <1>1 DEF TypeOK, Run
    <3>2. CASE r.session = s
      BY <2>2, <2>3, <2>4, <3>1, <3>2
    <3>3. CASE r.session # s
      BY <2>4, <3>1, <3>3 DEF RowInv
    <3> QED BY <3>2, <3>3
  <2>7. ASSUME NEW u \in Workers, call'[u].pc = "save"
        PROVE  /\ sessions'[call'[u].session] = NoRow
               /\ \A r \in ran' : r.session = call'[u].session =>
                     r.call = call'[u].id
    <3>1. u # w /\ call'[u] = call[u] /\ call[u].pc = "save"
      BY <1>2, <2>7
    <3>2. call[u].session \in Sessions /\ RunOf(call[w]) \in ran
      BY <2>1, <3>1, Saver, Busy
    <3>3. call[u].session # s
      <4>1. SUFFICES ASSUME call[u].session = s PROVE FALSE
        OBVIOUS
      <4>2. RunOf(call[w]).session = call[u].session
            /\ RunOf(call[w]).call = call[w].id
        BY <4>1 DEF RunOf
      <4>3. call[w].id = call[u].id
        BY <3>1, <3>2, <4>2 DEF RowInv
      <4>4. call[u] = Idle
        BY <3>1, <4>3 DEF CallInv
      <4> QED BY <3>1, <4>4 DEF Idle
    <3> QED BY <1>1, <2>4, <3>1, <3>2, <3>3 DEF RowInv
  <2> QED BY <2>5, <2>6, <2>7 DEF RowInv, DraftOf
<1> QED BY <1>3, <1>4 DEF SaveSession

\* UpdateSession changes at most the row of its run, and concludes it.
LEMMA UpdatedRow ==
  ASSUME TypeOK, CallInv, RanInv, RowInv, NEW w \in Workers, UpdateSession(w)
  PROVE  \/ UNCHANGED sessions
         \/ LET s == call[w].session
                t == call[w].terms
            IN  /\ s \in Sessions /\ t \in Terms
                /\ sessions[s] \in Row /\ sessions[s].draft = DraftOf(t)
                /\ sessions' = [sessions EXCEPT ![s] =
                                   ConcludedRow(sessions[s], t)]
<1> DEFINE s == call[w].session
           t == call[w].terms
<1>1. call[w].pc # "idle"
  BY DEF UpdateSession, At
<1>2. s \in Sessions /\ t \in Terms /\ RunOf(call[w]) \in ran
  BY <1>1, Busy
<1>3. RunOf(call[w]).session = s /\ RunOf(call[w]).terms = t
  BY DEF RunOf
<1>4. sessions[s] # NoRow =>
         sessions[s] \in Row /\ sessions[s].draft = DraftOf(t)
  BY <1>2, <1>3 DEF RowInv
<1> QED BY <1>2, <1>4 DEF UpdateSession

LEMMA UpdatedRows ==
  ASSUME TypeOK, CallInv, RanInv, RowInv, NEW w \in Workers, UpdateSession(w)
  PROVE  RowInv'
<1> DEFINE s == call[w].session
           row == ConcludedRow(sessions[s], call[w].terms)
<1>1. Progress(w) /\ ran' = ran /\ minted' = minted
  BY StepIsProgress DEF Step, UpdateSession, history
<1>2. \A u \in Workers : call'[u].pc = "save" => u # w /\ call'[u] = call[u]
  BY <1>1, SaversBefore
<1>3. CASE UNCHANGED sessions
  BY <1>1, <1>2, <1>3, SameRows
<1>4. CASE /\ s \in Sessions /\ call[w].terms \in Terms /\ sessions[s] \in Row
           /\ sessions' = [sessions EXCEPT ![s] = row]
  <2>1. row \in Row /\ row.draft = sessions[s].draft
    BY <1>4, ConcludedRowTyped
  <2> HIDE DEF row
  <2>2. /\ sessions'[s] = row
        /\ \A x \in Sessions \ {s} : sessions'[x] = sessions[x]
    BY <1>4 DEF TypeOK
  <2>3. sessions[s] # NoRow
    BY <1>4, RowsDiffer
  <2>4. \A x \in Sessions : sessions'[x] # NoRow => x \in minted'
    BY <1>1, <2>2, <2>3 DEF RowInv
  <2>5. ASSUME NEW r \in ran'
        PROVE  \/ sessions'[r.session] = NoRow
               \/ /\ sessions'[r.session] \in Row
                  /\ sessions'[r.session].draft = DraftOf(r.terms)
    <3>1. r \in ran /\ r.session \in Sessions
      BY <1>1 DEF TypeOK, Run
    <3>2. CASE r.session = s
      BY <2>1, <2>2, <2>3, <3>1, <3>2 DEF RowInv
    <3>3. CASE r.session # s
      BY <2>2, <3>1, <3>3 DEF RowInv
    <3> QED BY <3>2, <3>3
  <2>6. ASSUME NEW u \in Workers, call'[u].pc = "save"
        PROVE  /\ sessions'[call'[u].session] = NoRow
               /\ \A r \in ran' : r.session = call'[u].session =>
                     r.call = call'[u].id
    <3>1. call'[u] = call[u] /\ call[u].pc = "save"
      BY <1>2, <2>6
    <3>2. call[u].session \in Sessions /\ sessions[call[u].session] = NoRow
      BY <3>1, Saver
    <3>3. call[u].session # s
      BY <2>3, <3>2
    <3> QED BY <1>1, <2>2, <3>1, <3>2, <3>3 DEF RowInv
  <2> QED BY <2>4, <2>5, <2>6 DEF RowInv, DraftOf
<1> QED BY <1>3, <1>4, UpdatedRow

\* The steps that write no session and carry out no new run.
LEMMA OtherStep ==
  ASSUME NEW w \in Workers, Step(w) \/ Returns(w)
  PROVE  \/ SaveSession(w) \/ UpdateSession(w)
         \/ UNCHANGED <<sessions, minted, ran>>
  BY DEF Step, Returns, RecordOutcome, SaveRounds, SaveDealOutcome,
         ReadReputation, UpsertReputation, ReadStreak, UpsertStreak,
         AwardBadges, store, history

LEMMA NextRows ==
  ASSUME TypeOK, CallInv, RanInv, RowInv, StoreStep
  PROVE  RowInv'
<1>1. ASSUME NEW s \in Sessions, NEW draft \in Drafts, CreateSession(s, draft)
      PROVE  RowInv'
  <2>1. NewRow(draft) \in Row /\ Mint(s) /\ UNCHANGED <<call, ran>>
    BY <1>1, NewRowTyped DEF CreateSession
  <2>2. CASE sessions' = [sessions EXCEPT ![s] = NewRow(draft)]
    BY <2>1, <2>2, MintedRows
  <2>3. CASE UNCHANGED sessions
    BY <2>1, <2>3, SameRows DEF Mint
  <2> QED BY <1>1, <2>2, <2>3 DEF CreateSession
<1>2. ASSUME NEW s \in Sessions, QueryPrice(s) PROVE RowInv'
  <2>1. Mint(s) /\ UNCHANGED <<call, ran>>
    BY <1>2 DEF QueryPrice
  <2>2. CASE sessions' = [sessions EXCEPT ![s] = QueryRow]
    BY <2>1, <2>2, MintedRows
  <2>3. CASE UNCHANGED sessions
    BY <2>1, <2>3, SameRows DEF Mint
  <2> QED BY <1>2, <2>2, <2>3 DEF QueryPrice
<1>3. ASSUME NEW w \in Workers, NEW kind \in {"run", "parallel"},
             NEW s \in Sessions, NEW threshold \in Nat,
             StartRun(w, kind, s, threshold)
      PROVE  RowInv'
  BY <1>3, StartedRows
<1>4. ASSUME NEW w \in Workers, NEW s \in Sessions, NEW draft \in Drafts,
             StartNegotiate(w, s, draft)
      PROVE  RowInv'
  BY <1>4, NegotiatedRows
<1>5. CASE RefuseNegotiate
  BY <1>5, SameRows DEF RefuseNegotiate
<1>6. ASSUME NEW w \in Workers, Step(w) \/ Returns(w)
      PROVE  RowInv'
  <2>1. CASE SaveSession(w)
    BY <2>1, SavedRows
  <2>2. CASE UpdateSession(w)
    BY <2>2, UpdatedRows
  <2>3. CASE UNCHANGED <<sessions, minted, ran>>
    <3>1. \A u \in Workers : call'[u].pc = "save" => call'[u] = call[u]
      BY <1>6, StepIsProgress, SaversBefore
    <3> QED BY <2>3, <3>1, SameRows
  <2> QED BY <1>6, <2>1, <2>2, <2>3, OtherStep
<1>7. CASE Crash
  <2>1. \A u \in Workers : call'[u].pc # "save"
    BY <1>7 DEF Crash, Idle
  <2>2. UNCHANGED <<sessions, ran>> /\ minted' = minted
    BY <1>7 DEF Crash, store, history
  <2> QED BY <2>1, <2>2, SameRows
<1>8. CASE Waits
  BY <1>8, SameRows DEF Waits, store, history
<1> QED BY <1>1, <1>2, <1>3, <1>4, <1>5, <1>6, <1>7, <1>8 DEF StoreStep

-----------------------------------------------------------------------------
(* How the steps change the sessions: a row appears under a new id, is     *)
(* saved as active where there was none, or is concluded.                  *)

SessionsStep ==
    \/ UNCHANGED sessions
    \/ \E s \in Sessions : /\ sessions[s] = NoRow
                           /\ \/ \E d \in Drafts :
                                    sessions' = [sessions EXCEPT ![s] = NewRow(d)]
                              \/ sessions' = [sessions EXCEPT ![s] = QueryRow]
    \/ \E r \in ran :
          /\ sessions[r.session] \in Row
          /\ sessions[r.session].draft = DraftOf(r.terms)
          /\ sessions' = [sessions EXCEPT ![r.session] =
                             ConcludedRow(sessions[r.session], r.terms)]

LEMMA NextSessions ==
  ASSUME TypeOK, CallInv, RanInv, RowInv, StoreStep
  PROVE  SessionsStep
<1>1. ASSUME NEW s \in Sessions, NEW draft \in Drafts, CreateSession(s, draft)
      PROVE  SessionsStep
  <2>1. sessions[s] = NoRow
    BY <1>1 DEF CreateSession, Mint, RowInv
  <2> QED BY <1>1, <2>1 DEF CreateSession, SessionsStep
<1>2. ASSUME NEW s \in Sessions, QueryPrice(s) PROVE SessionsStep
  <2>1. sessions[s] = NoRow
    BY <1>2 DEF QueryPrice, Mint, RowInv
  <2> QED BY <1>2, <2>1 DEF QueryPrice, SessionsStep
<1>3. ASSUME NEW w \in Workers, SaveSession(w) PROVE SessionsStep
  <2>1. call[w].pc = "save" /\ call[w].pc # "idle"
    BY <1>3 DEF SaveSession, At
  <2>2. /\ call[w].session \in Sessions /\ DraftOf(call[w].terms) \in Drafts
        /\ sessions[call[w].session] = NoRow
    BY <2>1, Busy, Saver
  <2> QED BY <1>3, <2>2 DEF SaveSession, SessionsStep
<1>4. ASSUME NEW w \in Workers, UpdateSession(w) PROVE SessionsStep
  <2> DEFINE r == RunOf(call[w])
  <2>1. r \in ran
    BY <1>4, Busy DEF UpdateSession, At
  <2>2. r.session = call[w].session /\ r.terms = call[w].terms
    BY DEF RunOf
  <2> HIDE DEF r
  <2> QED BY <1>4, <2>1, <2>2, UpdatedRow DEF SessionsStep
<1>5. CASE UNCHANGED sessions
  BY <1>5 DEF SessionsStep
<1>6. ASSUME NEW w \in Workers, Step(w) \/ Returns(w) PROVE SessionsStep
  BY <1>3, <1>4, <1>5, <1>6, OtherStep
<1>7. ASSUME NEW w \in Workers, NEW kind \in {"run", "parallel"},
             NEW s \in Sessions, NEW threshold \in Nat,
             StartRun(w, kind, s, threshold)
      PROVE  UNCHANGED sessions
  BY <1>7 DEF StartRun, store
<1>8. ASSUME NEW w \in Workers, NEW s \in Sessions, NEW draft \in Drafts,
             StartNegotiate(w, s, draft)
      PROVE  UNCHANGED sessions
  BY <1>8 DEF StartNegotiate
<1>9. CASE RefuseNegotiate \/ Crash \/ Waits
  BY <1>5, <1>9 DEF RefuseNegotiate, Crash, Waits, store
<1> QED BY <1>1, <1>2, <1>5, <1>6, <1>7, <1>8, <1>9 DEF StoreStep

\* Runs are only ever added, and none on a session that is completed.
LEMMA NextRan ==
  ASSUME TypeOK, CallInv, RanInv, RowInv, StoreStep
  PROVE  /\ ran \subseteq ran'
         /\ \A r \in ran' \ ran : sessions[r.session].status # "completed"
<1> DEFINE Goal == /\ ran \subseteq ran'
                   /\ \A r \in ran' \ ran :
                         sessions[r.session].status # "completed"
<1>1. ASSUME NEW w \in Workers, NEW kind \in {"run", "parallel"},
             NEW s \in Sessions, NEW threshold \in Nat,
             StartRun(w, kind, s, threshold)
      PROVE  Goal
  BY <1>1 DEF StartRun, Negotiable
<1>2. ASSUME NEW w \in Workers, NEW s \in Sessions, NEW draft \in Drafts,
             StartNegotiate(w, s, draft)
      PROVE  Goal
  <2>1. sessions[s].status = "none"
    BY <1>2, RowsDiffer DEF StartNegotiate, Mint, RowInv
  <2> QED BY <1>2, <2>1 DEF StartNegotiate
<1>3. ASSUME NEW w \in Workers, Step(w) \/ Returns(w) PROVE ran' = ran
  BY <1>3, StepIsProgress DEF Progress, history
<1>4. CASE ran' = ran
  BY <1>4
<1>5. ASSUME NEW s \in Sessions, NEW draft \in Drafts, CreateSession(s, draft)
      PROVE  ran' = ran
  BY <1>5 DEF CreateSession
<1>6. ASSUME NEW s \in Sessions, QueryPrice(s) PROVE ran' = ran
  BY <1>6 DEF QueryPrice
<1>7. CASE RefuseNegotiate \/ Crash \/ Waits
  BY <1>4, <1>7 DEF RefuseNegotiate, Crash, Waits, history
<1> QED BY <1>1, <1>2, <1>3, <1>4, <1>5, <1>6, <1>7 DEF StoreStep

-----------------------------------------------------------------------------
(* A concluded row stays the result of one run.                            *)

LEMMA NextRowOfOneRun ==
  ASSUME TypeOK, CallInv, RanInv, RowInv, RowOfOneRun, StoreStep
  PROVE  RowOfOneRun'
<1>1. ran \subseteq ran' /\ SessionsStep
  BY NextRan, NextSessions
<1>2. ASSUME NEW x \in Sessions, sessions'[x] = sessions[x],
             sessions'[x] \in Row, sessions'[x].status = "completed"
      PROVE  \E r \in ran' : /\ r.session = x
                             /\ DraftOf(r.terms) = sessions'[x].draft
                             /\ sessions'[x].offer = FinalOffer(r.terms)
                             /\ sessions'[x].rounds = RoundsComplete(r.terms)
  BY <1>1, <1>2 DEF RowOfOneRun
<1>3. ASSUME NEW x \in Sessions, sessions'[x] # sessions[x],
             sessions'[x] \in Row, sessions'[x].status = "completed"
      PROVE  \E r \in ran' : /\ r.session = x
                             /\ DraftOf(r.terms) = sessions'[x].draft
                             /\ sessions'[x].offer = FinalOffer(r.terms)
                             /\ sessions'[x].rounds = RoundsComplete(r.terms)
  <2>1. ASSUME NEW s \in Sessions, NEW d \in Drafts,
               sessions' = [sessions EXCEPT ![s] = NewRow(d)]
        PROVE  FALSE
    <3>1. x = s /\ sessions'[x] = NewRow(d)
      BY <1>3, <2>1 DEF TypeOK
    <3> QED BY <1>3, <3>1, NewRowTyped
  <2>2. ASSUME NEW s \in Sessions,
               sessions' = [sessions EXCEPT ![s] = QueryRow]
        PROVE  FALSE
    <3>1. x = s /\ sessions'[x] = QueryRow
      BY <1>3, <2>2 DEF TypeOK
    <3> QED BY <1>3, <3>1, RowsDiffer
  <2>3. PICK r \in ran :
          /\ sessions[r.session] \in Row
          /\ sessions[r.session].draft = DraftOf(r.terms)
          /\ sessions' = [sessions EXCEPT ![r.session] =
                             ConcludedRow(sessions[r.session], r.terms)]
    BY <1>1, <1>3, <2>1, <2>2 DEF SessionsStep
  <2>4. r.session \in Sessions /\ r.terms \in Terms
    BY DEF TypeOK, Run
  <2>5. x = r.session
        /\ sessions'[x] = ConcludedRow(sessions[r.session], r.terms)
    BY <1>3, <2>3, <2>4 DEF TypeOK
  <2> QED BY <1>1, <2>3, <2>4, <2>5, ConcludedRowTyped
<1> QED BY <1>2, <1>3 DEF RowOfOneRun, DraftOf, FinalOffer, RoundsComplete

-----------------------------------------------------------------------------
(* The record tables: rows are only added, each with its run.              *)

\* The steps that insert into neither record table.
LEMMA OtherRecords ==
  ASSUME StoreStep
  PROVE  \/ \E w \in Workers : SaveRounds(w) \/ SaveDealOutcome(w)
         \/ UNCHANGED <<roundRows, dealRows>>
  BY DEF StoreStep, CreateSession, QueryPrice, StartRun, StartNegotiate,
         RefuseNegotiate, Step, Returns, RecordOutcome, SaveSession,
         UpdateSession, ReadReputation, UpsertReputation, ReadStreak,
         UpsertStreak, AwardBadges, Crash, Waits, store

LEMMA NextDeals ==
  ASSUME TypeOK, CallInv, RanInv, RowInv, DealInv, StoreStep
  PROVE  DealInv'
<1>1. ran \subseteq ran'
  BY NextRan
<1>2. ASSUME NEW w \in Workers, SaveDealOutcome(w) PROVE DealInv'
  <2> DEFINE r == RunOf(call[w])
             d == [call |-> call[w].id, session |-> call[w].session,
                   price |-> FinalOffer(call[w].terms)]
  <2>1. call[w].pc = "deal" /\ call[w].pc # "idle"
    BY <1>2 DEF SaveDealOutcome, At
  <2>2. r \in ran /\ SavesDeal(call[w].kind)
    BY <2>1, Busy DEF CallInv, Idle
  <2>3. /\ r.call = d.call /\ SavesDeal(r.kind) /\ r.session = d.session
        /\ d.price = FinalOffer(r.terms)
    BY <2>2 DEF RunOf
  <2>4. dealRows' \subseteq dealRows \cup {d}
    BY <1>2 DEF SaveDealOutcome
  <2> HIDE DEF r, d
  <2> QED BY <1>1, <2>2, <2>3, <2>4 DEF DealInv, SavesDeal, FinalOffer
<1>3. CASE UNCHANGED dealRows
  BY <1>1, <1>3 DEF DealInv, SavesDeal, FinalOffer
<1>4. ASSUME NEW w \in Workers, SaveRounds(w) PROVE UNCHANGED dealRows
  BY <1>4 DEF SaveRounds
<1> QED BY <1>2, <1>3, <1>4, OtherRecords

LEMMA NextRounds ==
  ASSUME TypeOK, CallInv, RanInv, RowInv, RoundInv, StoreStep
  PROVE  RoundInv'
<1>1. ran \subseteq ran'
  BY NextRan
<1>2. ASSUME NEW w \in Workers, SaveRounds(w) PROVE RoundInv'
  <2> DEFINE r == RunOf(call[w])
             all == Rounds(call[w].terms)
             Inserted(n) == {[call |-> call[w].id, session |-> call[w].session,
                              row |-> all[i]] : i \in 1..n}
  <2>1. r \in ran /\ call[w].terms \in Terms
    BY <1>2, Busy DEF SaveRounds, At
  <2>2. /\ Len(all) \in Nat
        /\ \A i \in 1..Len(all) : FinalOffer(call[w].terms) <= all[i].offer
    BY <2>1, RoundsShape
  <2>3. /\ r.call = call[w].id /\ r.session = call[w].session
        /\ FinalOffer(r.terms) = FinalOffer(call[w].terms)
    BY DEF RunOf
  <2>4. ASSUME NEW n \in 0..Len(all), NEW x \in Inserted(n)
        PROVE  /\ r.call = x.call /\ r.session = x.session
               /\ FinalOffer(r.terms) <= x.row.offer
    <3> HIDE DEF all, r
    <3>1. PICK i \in 1..n : x = [call |-> call[w].id,
                                 session |-> call[w].session, row |-> all[i]]
      OBVIOUS
    <3>2. i \in 1..Len(all)
      BY <2>2
    <3> QED BY <2>2, <2>3, <3>1, <3>2
  <2>5. \E n \in 0..Len(all) : roundRows' \subseteq roundRows \cup Inserted(n)
    <3>1. CASE roundRows' = roundRows \cup Inserted(Len(all))
      <4>1. Len(all) \in 0..Len(all)
        BY <2>2
      <4> QED BY <3>1, <4>1
    <3>2. ASSUME NEW n \in 0..(Len(all) - 1),
                 roundRows' = roundRows \cup Inserted(n)
          PROVE  n \in 0..Len(all)
      BY <2>2
    <3> QED BY <1>2, <3>1, <3>2 DEF SaveRounds
  <2> HIDE DEF r, all, Inserted
  <2> QED BY <1>1, <2>1, <2>4, <2>5 DEF RoundInv, FinalOffer
<1>3. CASE UNCHANGED roundRows
  BY <1>1, <1>3 DEF RoundInv, FinalOffer
<1>4. ASSUME NEW w \in Workers, SaveDealOutcome(w) PROVE UNCHANGED roundRows
  BY <1>4 DEF SaveDealOutcome
<1> QED BY <1>2, <1>3, <1>4, OtherRecords

-----------------------------------------------------------------------------
(* The theorems.                                                           *)

LEMMA InitInv ==
  ASSUME PInit PROVE Inv
<1>1. NoReputation \in Reputation /\ NoStreak \in Streak
  BY DEF NoReputation, Reputation, NoStreak, Streak
<1>2. Idle.pc = "idle"
  BY DEF Idle
<1>3. TypeOK
  BY <1>1, IdleTyped, SessionRunsAssumption DEF PInit, Init, TypeOK
<1>4. CallInv /\ RanInv
  BY DEF PInit, Init, CallInv, RanInv
<1>5. RowInv /\ RowOfOneRun
  BY <1>2, RowsDiffer DEF PInit, Init, RowInv, RowOfOneRun
<1>6. DealInv /\ RoundInv
  BY DEF PInit, Init, DealInv, RoundInv
<1> QED BY <1>3, <1>4, <1>5, <1>6 DEF Inv

LEMMA NextInv ==
  ASSUME Inv, [PNext]_pvars PROVE Inv'
<1>1. StoreStep
  BY EveryStepIsAStoreStep
<1> QED BY <1>1, NextTyped, NextCalls, NextRows, NextRowOfOneRun, NextDeals,
           NextRounds DEF Inv

THEOREM Invariant == PSpec => []Inv
<1>1. PInit => Inv
  BY InitInv
<1>2. Inv /\ [PNext]_pvars => Inv'
  BY NextInv
<1> QED BY <1>1, <1>2, PTL DEF PSpec

(***************************************************************************)
(* The tables, the calls and the bounds on them keep their types.          *)
(***************************************************************************)
THEOREM TypeCorrect == PSpec => []TypeOK
<1>1. Inv => TypeOK
  BY DEF Inv
<1> QED BY <1>1, Invariant, PTL

(***************************************************************************)
(* Offer and rounds_complete of a concluded session (UpdateSession) are    *)
(* those of one run of it, however many runs of it overlap, fail or are    *)
(* lost in a crash.                                                        *)
(***************************************************************************)
THEOREM RowOfOneRunAlways == PSpec => []RowOfOneRun
<1>1. Inv => RowOfOneRun
  BY DEF Inv
<1> QED BY <1>1, Invariant, PTL

(***************************************************************************)
(* Every row of deal_outcomes is backed by a run of an MCP tool at its     *)
(* final price, and the rounds saved for that run never ask less.          *)
(***************************************************************************)
THEOREM DealIsBackedAlways == PSpec => []DealIsBacked
<1>1. Inv => DealIsBacked
  <2> SUFFICES ASSUME Inv, NEW d \in dealRows
               PROVE  /\ \E r \in ran : /\ r.call = d.call /\ SavesDeal(r.kind)
                                        /\ r.session = d.session
                                        /\ d.price = FinalOffer(r.terms)
                      /\ \A x \in roundRows : x.call = d.call =>
                            x.session = d.session /\ x.row.offer >= d.price
    BY DEF DealIsBacked
  <2>1. PICK r \in ran : /\ r.call = d.call /\ SavesDeal(r.kind)
                         /\ r.session = d.session
                         /\ d.price = FinalOffer(r.terms)
    BY DEF Inv, DealInv
  <2>2. ASSUME NEW x \in roundRows, x.call = d.call
        PROVE  x.session = d.session /\ x.row.offer >= d.price
    <3>1. PICK q \in ran : /\ q.call = x.call /\ q.session = x.session
                           /\ FinalOffer(q.terms) <= x.row.offer
      BY DEF Inv, RoundInv
    <3>2. q = r
      BY <2>1, <2>2, <3>1 DEF Inv, RanInv
    <3> QED BY <2>1, <3>1, <3>2
  <2> QED BY <2>1, <2>2
<1> QED BY <1>1, Invariant, PTL

LEMMA NextKeepsCompleted ==
  ASSUME Inv, [PNext]_pvars,
         NEW s \in Sessions, sessions[s].status = "completed"
  PROVE  /\ sessions'[s].status = "completed"
         /\ {r \in ran' : r.session = s} = {r \in ran : r.session = s}
<1>1. TypeOK /\ CallInv /\ RanInv /\ RowInv /\ StoreStep
  BY EveryStepIsAStoreStep DEF Inv
<1>2. /\ SessionsStep
      /\ ran \subseteq ran'
      /\ \A r \in ran' \ ran : sessions[r.session].status # "completed"
  BY <1>1, NextSessions, NextRan
<1>3. \A r \in ran : r.session \in Sessions /\ r.terms \in Terms
  BY <1>1 DEF TypeOK, Run
<1>4. sessions[s] # NoRow
  BY RowsDiffer
<1>5. sessions'[s].status = "completed"
  BY <1>1, <1>2, <1>3, <1>4, ConcludedRowTyped DEF SessionsStep, TypeOK
<1> QED BY <1>2, <1>5

(***************************************************************************)
(* A completed session is final: no call makes it active again, and none   *)
(* negotiates it once more (the status check of RunNegotiation).           *)
(***************************************************************************)
THEOREM CompletedIsFinalAlways == PSpec => CompletedIsFinal
<1>1. Inv /\ [PNext]_pvars =>
         [\A s \in Sessions : sessions[s].status = "completed" =>
             /\ sessions'[s].status = "completed"
             /\ {r \in ran' : r.session = s} = {r \in ran : r.session = s}]_vars
  BY NextKeepsCompleted
<1> QED BY <1>1, Invariant, PTL DEF PSpec, CompletedIsFinal

-----------------------------------------------------------------------------
(* How far the calls have got.                                             *)

\* The step after p is q, for a call that works on a run of this kind.
Follows(p, q, kind) ==
    \/ p \in {"learn", "save"} /\ q = "update"
    \/ p = "update" /\ q = "rounds"
    \/ p = "rounds" /\ q = IF SavesDeal(kind) THEN "deal" ELSE "idle"
    \/ p = "deal" /\ q = IF kind = "run" THEN "reputation" ELSE "report"
    \/ p = "reputation" /\ q \in {"upsert", "streak"}
    \/ p = "upsert" /\ q \in {"streak", "idle"}
    \/ p = "streak" /\ q \in {"extend", "idle"}
    \/ p = "extend" /\ q \in {"badges", "idle"}
    \/ p \in {"badges", "report"} /\ q = "idle"

\* Goroutine w takes its run one step on, and no other goroutine moves.
Moves(w) ==
    /\ \A u \in Workers \ {w} : call'[u] = call[u]
    /\ Follows(call[w].pc, call'[w].pc, call[w].kind)
    /\ \/ call'[w] = Idle
       \/ /\ call'[w].pc # "idle" /\ call'[w].pc # "save"
          /\ call'[w].id = call[w].id /\ call'[w].kind = call[w].kind
          /\ call'[w].session = call[w].session
          /\ call'[w].terms = call[w].terms

\* A call that goes on with its next store call takes one step.
LEMMA GotoMoves ==
  ASSUME TypeOK, NEW w \in Workers, NEW pc \in PCs \ {"idle", "save"},
         Goto(w, pc), Follows(call[w].pc, pc, call[w].kind)
  PROVE  Moves(w)
<1>1. call \in [Workers -> Call]
  BY DEF TypeOK
<1>2. \A u \in Workers \ {w} : call'[u] = call[u]
  BY <1>1 DEF Goto
<1>3. /\ call'[w].pc = pc
      /\ call'[w].id = call[w].id /\ call'[w].kind = call[w].kind
      /\ call'[w].session = call[w].session /\ call'[w].terms = call[w].terms
  BY <1>1 DEF Goto, Call
<1> QED BY <1>2, <1>3 DEF Moves

\* So does a call that returns.
LEMMA ReturnMoves ==
  ASSUME TypeOK, NEW w \in Workers, Return(w),
         Follows(call[w].pc, "idle", call[w].kind)
  PROVE  Moves(w)
<1>1. call \in [Workers -> Call]
  BY DEF TypeOK
<1>2. call'[w] = Idle /\ \A u \in Workers \ {w} : call'[u] = call[u]
  BY <1>1 DEF Return
<1> QED BY <1>2 DEF Moves, Idle

\* Every action of a goroutine is one step of its call.
LEMMA StepMoves ==
  ASSUME TypeOK, NEW w \in Workers, Step(w) \/ Returns(w)
  PROVE  Moves(w)
<1> USE DEF At, PCs, Follows
<1>1. CASE RecordOutcome(w)
  BY <1>1, GotoMoves DEF RecordOutcome
<1>2. CASE SaveSession(w)
  BY <1>2, GotoMoves DEF SaveSession
<1>3. CASE UpdateSession(w)
  BY <1>3, GotoMoves DEF UpdateSession
<1>4. CASE SaveRounds(w)
  BY <1>4, GotoMoves, ReturnMoves DEF SaveRounds
<1>5. CASE SaveDealOutcome(w)
  BY <1>5, GotoMoves DEF SaveDealOutcome
<1>6. CASE ReadReputation(w)
  <2>1. CASE Goto(w, "streak")
    BY <1>6, <2>1, GotoMoves DEF ReadReputation
  <2>2. ASSUME NEW rep,
               call' = [call EXCEPT ![w].pc = "upsert", ![w].seen = rep]
        PROVE  Moves(w)
    <3>1. call \in [Workers -> Call] /\ call[w].pc = "reputation"
      BY <1>6 DEF TypeOK, ReadReputation
    <3>2. \A u \in Workers \ {w} : call'[u] = call[u]
      BY <2>2, <3>1
    <3>3. /\ call'[w].pc = "upsert"
          /\ call'[w].id = call[w].id /\ call'[w].kind = call[w].kind
          /\ call'[w].session = call[w].session
          /\ call'[w].terms = call[w].terms
      BY <2>2, <3>1 DEF Call
    <3> QED BY <3>1, <3>2, <3>3 DEF Moves
  <2> QED BY <1>6, <2>1, <2>2 DEF ReadReputation
<1>7. CASE UpsertReputation(w)
  BY <1>7, GotoMoves, ReturnMoves DEF UpsertReputation
<1>8. CASE ReadStreak(w)
  <2>1. CASE Return(w)
    BY <1>8, <2>1, ReturnMoves DEF ReadStreak
  <2>2. CASE call' = [call EXCEPT ![w].pc = "extend", ![w].had = streak]
    <3>1. call \in [Workers -> Call] /\ call[w].pc = "streak"
      BY <1>8 DEF TypeOK, ReadStreak
    <3>2. \A u \in Workers \ {w} : call'[u] = call[u]
      BY <2>2, <3>1
    <3>3. /\ call'[w].pc = "extend"
          /\ call'[w].id = call[w].id /\ call'[w].kind = call[w].kind
          /\ call'[w].session = call[w].session
          /\ call'[w].terms = call[w].terms
      BY <2>2, <3>1 DEF Call
    <3> QED BY <3>1, <3>2, <3>3 DEF Moves
  <2> QED BY <1>8, <2>1, <2>2 DEF ReadStreak
<1>9. CASE UpsertStreak(w)
  BY <1>9, GotoMoves, ReturnMoves DEF UpsertStreak
<1>10. CASE AwardBadges(w)
  BY <1>10, ReturnMoves DEF AwardBadges
<1>11. CASE Returns(w)
  BY <1>11, ReturnMoves DEF Returns
<1> QED BY <1>1, <1>2, <1>3, <1>4, <1>5, <1>6, <1>7, <1>8, <1>9, <1>10,
           <1>11 DEF Step

-----------------------------------------------------------------------------
(* What a run has left behind, by how far its call has got.                *)

\* No call is carrying out run r at one of these steps (any more).
Past(r, pcs) == \A w \in Workers : call[w].id = r.call => call[w].pc \notin pcs

\* The steps up to a store call of the run.
ToConclude == {"save", "learn", "update"}
ToSave == ToConclude \cup {"rounds"}
ToDeal == ToSave \cup {"deal"}
ToCount == ToDeal \cup {"reputation", "upsert"}

\* Each kind of call has its own steps.
KindInv ==
    \A w \in Workers :
        /\ call[w].pc = "save" => call[w].kind = "a2a"
        /\ call[w].pc \in {"learn", "deal"} => SavesDeal(call[w].kind)
        /\ call[w].pc \in {"reputation", "upsert", "streak", "extend", "badges"}
              => call[w].kind = "run"
        /\ call[w].pc = "report" => call[w].kind = "parallel"

\* A call saves its rounds once.
NoRoundsYet ==
    \A w \in Workers : call[w].pc \in ToSave =>
        \A x \in roundRows : x.call # call[w].id

\* As long as nothing has failed, what a call is past is in the tables.
StageInv ==
    faults = 0 => \A r \in ran :
        /\ Past(r, {"save"}) => sessions[r.session] \in Row
        /\ Past(r, ToConclude) => sessions[r.session].status = "completed"
        /\ SavesDeal(r.kind) =>
              /\ Past(r, {"learn"}) => r.call \in outcomes
              /\ Past(r, ToSave) =>
                    SavedNumbers(r.call) = 1..RoundsComplete(r.terms)
              /\ Past(r, ToDeal) =>
                    [call |-> r.call, session |-> r.session,
                     price |-> FinalOffer(r.terms)] \in dealRows

(***************************************************************************)
(* Steps that start no run and move no call: the sessions of the runs keep *)
(* their rows, and so do the other tables.                                 *)
(***************************************************************************)
Quiet ==
    /\ UNCHANGED <<call, ran, roundRows, dealRows, outcomes, reputation,
                   overlapped>>
    /\ \A r \in ran : sessions'[r.session] = sessions[r.session]
    /\ faults' = 0 => faults = 0

\* What each step is to the runs: none of their business, a begin, or a store call.
LEMMA StepKinds ==
  ASSUME TypeOK, RanInv, StoreStep
  PROVE  \/ Quiet
         \/ \E w \in Workers, kind \in {"run", "parallel"}, s \in Sessions,
               threshold \in Nat : StartRun(w, kind, s, threshold)
         \/ \E w \in Workers, s \in Sessions, draft \in Drafts :
               StartNegotiate(w, s, draft)
         \/ \E w \in Workers : Step(w) \/ Returns(w)
         \/ Crash
<1>1. Works \/ Fails => (faults' = 0 => faults = 0)
  BY DEF Works, Fails, TypeOK
<1>2. ASSUME NEW s \in Sessions, s \notin minted, NEW row,
             sessions' = [sessions EXCEPT ![s] = row], NEW r \in ran
      PROVE  sessions'[r.session] = sessions[r.session]
  BY <1>2 DEF RanInv, TypeOK
<1>3. ASSUME NEW s \in Sessions, NEW draft \in Drafts, CreateSession(s, draft)
      PROVE  Quiet
  <2>1. \A r \in ran : sessions'[r.session] = sessions[r.session]
    BY <1>2, <1>3 DEF CreateSession, Mint
  <2> QED BY <1>1, <1>3, <2>1 DEF CreateSession, Quiet, records
<1>4. ASSUME NEW s \in Sessions, QueryPrice(s)
      PROVE  Quiet
  <2>1. \A r \in ran : sessions'[r.session] = sessions[r.session]
    BY <1>2, <1>4 DEF QueryPrice, Mint
  <2> QED BY <1>1, <1>4, <2>1 DEF QueryPrice, Quiet, records
<1>5. CASE RefuseNegotiate
  BY <1>5 DEF RefuseNegotiate, Quiet, records
<1>6. CASE Waits
  BY <1>1, <1>6 DEF Waits, Quiet, records, store, history
<1> QED BY <1>3, <1>4, <1>5, <1>6 DEF StoreStep

\* A call that begins takes the next number, which no run has.
LEMMA Begun ==
  ASSUME TypeOK, RanInv, NEW w \in Workers, NEW kind, NEW s, NEW t, NEW pc,
         Begin(w, kind, s, t, pc)
  PROVE  /\ call[w].pc = "idle"
         /\ \A u \in Workers \ {w} : call'[u] = call[u]
         /\ call'[w].pc = pc /\ call'[w].id = calls + 1
         /\ call'[w].kind = kind /\ call'[w].session = s
         /\ call'[w].terms = t
         /\ \A r \in ran : r.call # calls + 1
<1>1. call \in [Workers -> Call]
  BY DEF TypeOK
<1>2. calls \in Nat /\ \A r \in ran : r.call \in Nat
  BY SessionRunsAssumption DEF TypeOK, Run, CallIds
<1>3. \A r \in ran : r.call # calls + 1
  BY <1>2 DEF RanInv
<1> QED BY <1>1, <1>3 DEF Begin, At

\* A run the call is past stays past.
LEMMA StaysPast ==
  ASSUME TypeOK, CallInv, RanInv, NEW w \in Workers, Moves(w), NEW r \in ran,
         NEW pcs \in {{"save"}, {"learn"}, ToConclude, ToSave, ToDeal, ToCount},
         Past(r, pcs)
  PROVE  Past(r, pcs)'
<1>1. r.call # 0
  BY DEF TypeOK, Run, CallIds
<1>2. Idle.id = 0
  BY DEF Idle
<1>3. ASSUME NEW u \in Workers, call'[u].id = r.call PROVE call'[u].pc \notin pcs
  <2>1. CASE u # w
    BY <1>3, <2>1 DEF Moves, Past
  <2>2. CASE u = w
    <3>1. call[w].id = r.call
      BY <1>1, <1>2, <1>3, <2>2 DEF Moves
    <3>2. call[w].pc \notin pcs
      BY <3>1 DEF Past
    <3>3. Follows(call[w].pc, call'[w].pc, call[w].kind)
      BY DEF Moves
    <3> QED BY <2>2, <3>2, <3>3
            DEF Follows, ToConclude, ToSave, ToDeal, ToCount
  <2> QED BY <2>1, <2>2
<1> QED BY <1>3 DEF Past

\* The run a call has just got past is the one it works on.
LEMMA JustPast ==
  ASSUME TypeOK, CallInv, RanInv, NEW w \in Workers, Moves(w), NEW r \in ran,
         NEW pcs, ~Past(r, pcs), Past(r, pcs)'
  PROVE  /\ call[w].pc \in pcs /\ r = RunOf(call[w]) /\ r.call = call[w].id
<1>1. r.call # 0 /\ Idle.id = 0
  BY DEF TypeOK, Run, CallIds, Idle
<1>2. PICK u \in Workers : call[u].id = r.call /\ call[u].pc \in pcs
  BY DEF Past
<1>3. u = w
  BY <1>2 DEF Past, Moves
<1>4. RunOf(call[w]) \in ran
  BY <1>1, <1>2, <1>3 DEF CallInv
<1>5. RunOf(call[w]).call = call[w].id
  BY DEF RunOf
<1> QED BY <1>2, <1>3, <1>4, <1>5 DEF RanInv

\* KindInv is inductive.
LEMMA NextKinds ==
  ASSUME TypeOK, CallInv, RanInv, RowInv, KindInv, StoreStep
  PROVE  KindInv'
<1>1. CASE Quiet
  BY <1>1 DEF Quiet, KindInv
<1>2. ASSUME NEW w \in Workers, NEW kind \in {"run", "parallel"},
             NEW s \in Sessions, NEW threshold \in Nat,
             StartRun(w, kind, s, threshold)
      PROVE  KindInv'
  <2>1. call'[w].pc = "learn" /\ call'[w].kind = kind
        /\ \A u \in Workers \ {w} : call'[u] = call[u]
    BY <1>2, Begun DEF StartRun
  <2> QED BY <2>1 DEF KindInv, SavesDeal
<1>3. ASSUME NEW w \in Workers, NEW s \in Sessions, NEW draft \in Drafts,
             StartNegotiate(w, s, draft)
      PROVE  KindInv'
  <2>1. call'[w].pc = "save" /\ call'[w].kind = "a2a"
        /\ \A u \in Workers \ {w} : call'[u] = call[u]
    BY <1>3, Begun DEF StartNegotiate
  <2> QED BY <2>1 DEF KindInv
<1>4. ASSUME NEW w \in Workers, Step(w) \/ Returns(w)
      PROVE  KindInv'
  <2>1. Moves(w)
    BY <1>4, StepMoves
  <2>2. Idle.pc = "idle"
    BY DEF Idle
  <2>3. ASSUME NEW u \in Workers
        PROVE  /\ call'[u].pc = "save" => call'[u].kind = "a2a"
               /\ call'[u].pc \in {"learn", "deal"} => SavesDeal(call'[u].kind)
               /\ call'[u].pc \in {"reputation", "upsert", "streak", "extend",
                                   "badges"} => call'[u].kind = "run"
               /\ call'[u].pc = "report" => call'[u].kind = "parallel"
    <3>1. CASE u # w
      BY <2>1, <3>1 DEF Moves, KindInv
    <3>2. CASE call'[w] = Idle /\ u = w
      BY <2>2, <3>2
    <3>3. CASE u = w /\ call'[w].kind = call[w].kind
      BY <2>1, <3>3 DEF Moves, Follows, KindInv, SavesDeal
    <3> QED BY <2>1, <3>1, <3>2, <3>3 DEF Moves
  <2> QED BY <2>3 DEF KindInv, SavesDeal
<1>5. CASE Crash
  BY <1>5 DEF Crash, KindInv, Idle
<1> QED BY <1>1, <1>2, <1>3, <1>4, <1>5, StepKinds

-----------------------------------------------------------------------------
(* The rounds of a run.                                                    *)

\* The numbers of the rounds call id has among these rows.
NumbersIn(rows, id) == {x.row.number : x \in {y \in rows : y.call = id}}

\* SavedNumbers, as a function of the round table.
LEMMA NumbersSaved ==
  ASSUME NEW id
  PROVE  /\ SavedNumbers(id) = NumbersIn(roundRows, id)
         /\ SavedNumbers(id)' = NumbersIn(roundRows', id)
  BY DEF SavedNumbers, NumbersIn

\* What SaveRounds adds: rounds of its own run, all of them if it works.
LEMMA RoundsSaved ==
  ASSUME TypeOK, CallInv, RanInv, NoRoundsYet,
         NEW w \in Workers, SaveRounds(w)
  PROVE  /\ \A x \in roundRows' \ roundRows : x.call = call[w].id
         /\ roundRows \subseteq roundRows'
         /\ \E n \in 0..RoundsComplete(call[w].terms) :
               /\ NumbersIn(roundRows', call[w].id) = 1..n
               /\ faults' = faults => n = RoundsComplete(call[w].terms)
<1> DEFINE all == Rounds(call[w].terms)
           id == call[w].id
           row(i) == [call |-> call[w].id, session |-> call[w].session,
                      row |-> all[i]]
           Inserted(n) == {row(i) : i \in 1..n}
<1>1. call[w].pc = "rounds" /\ call[w].terms \in Terms
  BY Busy DEF SaveRounds, At
<1>2. /\ Len(all) \in Nat /\ Len(all) = RoundsComplete(call[w].terms)
      /\ \A i \in 1..Len(all) : all[i].number = i
  BY <1>1, RoundsShape
<1>3. \A x \in roundRows : x.call # id
  BY <1>1 DEF NoRoundsYet, ToSave
<1>4. \A i : row(i).call = id /\ row(i).row = all[i]
  OBVIOUS
<1>5. \E n \in 0..Len(all) : /\ roundRows' = roundRows \cup Inserted(n)
                             /\ faults' = faults => n = Len(all)
  <2>1. CASE roundRows' = roundRows \cup Inserted(Len(all))
    <3>1. Len(all) \in 0..Len(all)
      BY <1>2
    <3> HIDE DEF all, Inserted
    <3> QED BY <2>1, <3>1
  <2>2. CASE \E n \in 0..(Len(all) - 1) :
               roundRows' = roundRows \cup Inserted(n) /\ Fails
    <3>1. PICK n \in 0..(Len(all) - 1) :
             roundRows' = roundRows \cup Inserted(n) /\ Fails
      BY <2>2
    <3>2. n \in 0..Len(all)
      BY <1>2
    <3>3. faults' # faults
      BY <3>1 DEF Fails, TypeOK
    <3> HIDE DEF all, Inserted
    <3> QED BY <3>1, <3>2, <3>3
  <2> QED BY <2>1, <2>2 DEF SaveRounds
<1>6. PICK n \in 0..Len(all) : /\ roundRows' = roundRows \cup Inserted(n)
                               /\ faults' = faults => n = Len(all)
  BY <1>5
<1>7. \A i \in 1..n : all[i].number = i
  BY <1>2
<1>8. /\ \A x \in Inserted(n) : x.call = id /\ \E i \in 1..n : x.row.number = i
      /\ \A i \in 1..n : \E x \in Inserted(n) : x.row.number = i
  <2>1. \A x \in Inserted(n) : \E i \in 1..n : x = row(i)
    OBVIOUS
  <2>2. \A i \in 1..n : row(i) \in Inserted(n)
    OBVIOUS
  <2> HIDE DEF row, Inserted, all
  <2> QED BY <1>4, <1>7, <2>1, <2>2
<1> HIDE DEF all, row, Inserted, id
<1>9. {y \in roundRows' : y.call = id} = Inserted(n)
  BY <1>3, <1>6, <1>8
<1>10. NumbersIn(roundRows', id) = 1..n
  BY <1>8, <1>9 DEF NumbersIn
<1>11. /\ roundRows \subseteq roundRows'
       /\ \A x \in roundRows' \ roundRows : x.call = id
  BY <1>6, <1>8
<1>12. \E k \in 0..RoundsComplete(call[w].terms) :
         /\ NumbersIn(roundRows', id) = 1..k
         /\ faults' = faults => k = RoundsComplete(call[w].terms)
  BY <1>2, <1>6, <1>10
<1> QED BY <1>11, <1>12 DEF id

\* Every other step leaves the rounds alone.
LEMMA OtherRounds ==
  ASSUME NEW w \in Workers, Step(w) \/ Returns(w), ~SaveRounds(w)
  PROVE  roundRows' = roundRows
  BY DEF Step, Returns, RecordOutcome, SaveSession, UpdateSession,
         SaveDealOutcome, ReadReputation, UpsertReputation, ReadStreak,
         UpsertStreak, AwardBadges, store

\* NoRoundsYet is inductive.
LEMMA NextNoRoundsYet ==
  ASSUME TypeOK, CallInv, RanInv, RowInv, RoundInv, NoRoundsYet, StoreStep
  PROVE  NoRoundsYet'
<1>1. CASE Quiet
  BY <1>1 DEF Quiet, NoRoundsYet
<1>2. ASSUME NEW w \in Workers, NEW kind, NEW s, NEW t, NEW pc,
             Begin(w, kind, s, t, pc), roundRows' = roundRows
      PROVE  NoRoundsYet'
  <2>1. /\ call'[w].id = calls + 1
        /\ \A u \in Workers \ {w} : call'[u] = call[u]
        /\ \A r \in ran : r.call # calls + 1
    BY <1>2, Begun
  <2>2. \A x \in roundRows : x.call # calls + 1
    BY <2>1 DEF RoundInv
  <2> QED BY <1>2, <2>1, <2>2 DEF NoRoundsYet
<1>3. ASSUME NEW w \in Workers, Step(w) \/ Returns(w)
      PROVE  NoRoundsYet'
  <2>1. Moves(w)
    BY <1>3, StepMoves
  <2>2. Idle.pc = "idle"
    BY DEF Idle
  <2>3. \A u \in Workers : call'[u].pc \in ToSave =>
           call[u].pc \in ToSave /\ call'[u].id = call[u].id
    BY <2>1, <2>2 DEF Moves, Follows, ToSave, ToConclude
  <2>4. CASE roundRows' = roundRows
    BY <2>3, <2>4 DEF NoRoundsYet
  <2>5. CASE SaveRounds(w)
    <3>1. \A x \in roundRows' \ roundRows : x.call = call[w].id
      BY <2>5, RoundsSaved
    <3>2. call[w].pc = "rounds"
      BY <2>5 DEF SaveRounds, At
    <3>3. call'[w].pc \notin ToSave
      BY <2>1, <3>2 DEF Moves, Follows, ToSave, ToConclude
    <3>4. ASSUME NEW u \in Workers, call'[u].pc \in ToSave
          PROVE  \A x \in roundRows' : x.call # call'[u].id
      <4>1. u # w /\ call[u].pc \in ToSave /\ call'[u].id = call[u].id
        BY <2>3, <3>3, <3>4
      <4>2. call[u] # Idle
        BY <2>2, <4>1 DEF ToSave, ToConclude
      <4>3. call[u].id # call[w].id
        BY <4>1, <4>2 DEF CallInv
      <4> QED BY <3>1, <4>1, <4>3 DEF NoRoundsYet
    <3> QED BY <3>4 DEF NoRoundsYet
  <2> QED BY <1>3, <2>4, <2>5, OtherRounds
<1>4. CASE Crash
  BY <1>4 DEF Crash, NoRoundsYet, Idle, ToSave, ToConclude
<1>5. ASSUME NEW w \in Workers, NEW kind \in {"run", "parallel"},
             NEW s \in Sessions, NEW threshold \in Nat,
             StartRun(w, kind, s, threshold)
      PROVE  NoRoundsYet'
  BY <1>2, <1>5 DEF StartRun, store
<1>6. ASSUME NEW w \in Workers, NEW s \in Sessions, NEW draft \in Drafts,
             StartNegotiate(w, s, draft)
      PROVE  NoRoundsYet'
  BY <1>2, <1>6 DEF StartNegotiate
<1> QED BY <1>1, <1>3, <1>4, <1>5, <1>6, StepKinds

\* Rows of other calls do not change the numbers of this one.
LEMMA SameNumbers ==
  ASSUME NEW rows, NEW more, NEW id, rows \subseteq more,
         \A x \in more \ rows : x.call # id
  PROVE  NumbersIn(more, id) = NumbersIn(rows, id)
<1>1. {y \in more : y.call = id} = {y \in rows : y.call = id}
  OBVIOUS
<1> QED BY <1>1 DEF NumbersIn

\* A store call starts no run.
LEMMA StepKeepsRan ==
  ASSUME TypeOK, CallInv, RanInv, NEW w \in Workers, Step(w) \/ Returns(w)
  PROVE  ran' = ran /\ minted' = minted
  BY StepIsProgress DEF Progress, history

\* RoundsHaveNoGap is inductive, since a run saves its rounds once.
LEMMA NextRoundsHaveNoGap ==
  ASSUME TypeOK, CallInv, RanInv, RowInv, RoundInv, NoRoundsYet,
         RoundsHaveNoGap, StoreStep
  PROVE  RoundsHaveNoGap'
<1> DEFINE Gapless(rows, r) == \E n \in 0..RoundsComplete(r.terms) :
                                  NumbersIn(rows, r.call) = 1..n
<1>1. \A r \in ran : Gapless(roundRows, r)
  BY NumbersSaved DEF RoundsHaveNoGap
<1>2. SUFFICES \A r \in ran' : Gapless(roundRows', r)
  BY NumbersSaved DEF RoundsHaveNoGap, RoundsComplete
<1>3. CASE UNCHANGED <<roundRows, ran>>
  BY <1>1, <1>3
<1>4. ASSUME NEW w \in Workers, NEW kind, NEW s, NEW t \in Terms, NEW pc,
             Begin(w, kind, s, t, pc), roundRows' = roundRows,
             ran' = ran \cup {[call |-> calls + 1, kind |-> kind,
                               session |-> s, terms |-> t]}
      PROVE  \A r \in ran' : Gapless(roundRows', r)
  <2> DEFINE run == [call |-> calls + 1, kind |-> kind, session |-> s,
                     terms |-> t]
  <2>1. \A x \in roundRows : x.call # calls + 1
    BY <1>4, Begun DEF RoundInv
  <2>2. NumbersIn(roundRows, calls + 1) = 1..0
    BY <2>1 DEF NumbersIn
  <2>3. 0 \in 0..RoundsComplete(t)
    BY ResultBounds
  <2>4. run.call = calls + 1 /\ run.terms = t
    OBVIOUS
  <2> HIDE DEF run
  <2>5. Gapless(roundRows, run)
    BY <2>2, <2>3, <2>4
  <2> QED BY <1>1, <1>4, <2>5 DEF run
<1>5. ASSUME NEW w \in Workers, NEW kind \in {"run", "parallel"},
             NEW s \in Sessions, NEW threshold \in Nat,
             StartRun(w, kind, s, threshold)
      PROVE  \A r \in ran' : Gapless(roundRows', r)
  <2> DEFINE t == TermsOf(sessions[s].draft, threshold, 0)
  <2>1. t \in Terms
    BY <1>5, StartedRun
  <2>2. /\ Begin(w, kind, s, t, "learn") /\ roundRows' = roundRows
        /\ ran' = ran \cup {[call |-> calls + 1, kind |-> kind,
                             session |-> s, terms |-> t]}
    BY <1>5 DEF StartRun, store
  <2> HIDE DEF t, Gapless
  <2> QED BY <1>4, <2>1, <2>2
<1>6. ASSUME NEW w \in Workers, NEW s \in Sessions, NEW draft \in Drafts,
             StartNegotiate(w, s, draft)
      PROVE  \A r \in ran' : Gapless(roundRows', r)
  <2> DEFINE t == TermsOf(draft, 0, 1)
  <2>1. t \in Terms
    BY <1>6, StartedNegotiate
  <2>2. /\ Begin(w, "a2a", s, t, "save") /\ roundRows' = roundRows
        /\ ran' = ran \cup {[call |-> calls + 1, kind |-> "a2a",
                             session |-> s, terms |-> t]}
    BY <1>6 DEF StartNegotiate
  <2> HIDE DEF t, Gapless
  <2> QED BY <1>4, <2>1, <2>2
<1>7. ASSUME NEW w \in Workers, SaveRounds(w)
      PROVE  \A r \in ran' : Gapless(roundRows', r)
  <2>1. ran' = ran
    BY <1>7, StepKeepsRan DEF Step
  <2>2. call[w].pc # "idle"
    BY <1>7 DEF SaveRounds, At
  <2>3. ASSUME NEW r \in ran, r.call = call[w].id
        PROVE  Gapless(roundRows', r)
    <3>1. RunOf(call[w]).call = call[w].id
          /\ RunOf(call[w]).terms = call[w].terms
      BY DEF RunOf
    <3>2. r = RunOf(call[w])
      BY <2>2, <2>3, <3>1, Busy DEF RanInv
    <3> QED BY <1>7, <2>3, <3>1, <3>2, RoundsSaved
  <2>4. ASSUME NEW r \in ran, r.call # call[w].id
        PROVE  Gapless(roundRows', r)
    <3>1. NumbersIn(roundRows', r.call) = NumbersIn(roundRows, r.call)
      BY <1>7, <2>4, RoundsSaved, SameNumbers
    <3> QED BY <1>1, <3>1
  <2> HIDE DEF Gapless
  <2> QED BY <2>1, <2>3, <2>4
<1>8. ASSUME NEW w \in Workers, Step(w) \/ Returns(w), ~SaveRounds(w)
      PROVE  UNCHANGED <<roundRows, ran>>
  BY <1>8, StepKeepsRan, OtherRounds
<1>9. Crash => UNCHANGED <<roundRows, ran>>
  BY DEF Crash, store, history
<1> HIDE DEF Gapless
<1> QED BY <1>3, <1>5, <1>6, <1>7, <1>8, <1>9, StepKinds DEF Quiet

-----------------------------------------------------------------------------
(* As long as nothing has failed, the tables say what the calls have done. *)

\* The action a goroutine takes is named by where it is.
LEMMA StepAt ==
  ASSUME NEW w \in Workers, Step(w) \/ Returns(w)
  PROVE  /\ call[w].pc = "learn" => RecordOutcome(w)
         /\ call[w].pc = "save" => SaveSession(w)
         /\ call[w].pc = "update" => UpdateSession(w)
         /\ call[w].pc = "rounds" => SaveRounds(w)
         /\ call[w].pc = "deal" => SaveDealOutcome(w)
         /\ call[w].pc = "reputation" => ReadReputation(w)
         /\ call[w].pc = "upsert" => UpsertReputation(w)
  BY DEF Step, Returns, At, RecordOutcome, SaveSession, UpdateSession,
         SaveRounds, SaveDealOutcome, ReadReputation, UpsertReputation,
         ReadStreak, UpsertStreak, AwardBadges

\* The count of faults never falls.
LEMMA FaultsGrow ==
  ASSUME TypeOK, StoreStep, faults' = 0
  PROVE  faults = 0 /\ ~Fails /\ ~Crash
<1>1. faults \in Nat
  BY DEF TypeOK
<1>2. ~Fails /\ ~Crash
  BY <1>1 DEF Fails, Crash
<1>3. faults' = faults
  BY <1>2 DEF StoreStep, CreateSession, QueryPrice, StartRun, StartNegotiate,
     RefuseNegotiate, Step, Returns, RecordOutcome, SaveSession, UpdateSession,
     SaveRounds, SaveDealOutcome, ReadReputation, UpsertReputation, ReadStreak,
     UpsertStreak, AwardBadges, Waits, Works
<1> QED BY <1>2, <1>3

\* A stored session stays stored, a completed one completed.
LEMMA RowsKept ==
  ASSUME TypeOK, CallInv, RanInv, RowInv, StoreStep, NEW s \in Sessions
  PROVE  /\ sessions[s] \in Row => sessions'[s] \in Row
         /\ sessions[s].status = "completed" =>
               sessions'[s].status = "completed"
<1>1. SessionsStep
  BY NextSessions
<1>2. \A r \in ran : r.session \in Sessions /\ r.terms \in Terms
  BY DEF TypeOK, Run
<1> QED BY <1>1, <1>2, RowsDiffer, ConcludedRowTyped DEF SessionsStep, TypeOK

\* The run that begins is at its first step; the others stay where they are.
LEMMA BegunPast ==
  ASSUME TypeOK, RanInv, NEW w \in Workers, NEW kind, NEW s, NEW t, NEW pc,
         Begin(w, kind, s, t, pc), NEW pcs, "idle" \notin pcs
  PROVE  /\ \A r \in ran : Past(r, pcs)' => Past(r, pcs)
         /\ \A r : r.call = calls + 1 /\ pc \in pcs => ~Past(r, pcs)'
<1>1. /\ call[w].pc = "idle"
      /\ \A u \in Workers \ {w} : call'[u] = call[u]
      /\ call'[w].pc = pc /\ call'[w].id = calls + 1
  BY Begun
<1> QED BY <1>1 DEF Past

\* A run whose call is at p is past every step p does not lead to.
LEMMA HeldAt ==
  ASSUME TypeOK, CallInv, RanInv, NEW w \in Workers, call[w].pc # "idle",
         NEW r \in ran, r.call = call[w].id, NEW pcs, call[w].pc \notin pcs,
         "idle" \notin pcs
  PROVE  Past(r, pcs)
<1>1. ASSUME NEW u \in Workers, call[u].id = r.call PROVE call[u].pc \notin pcs
  <2>1. u = w \/ call[u] = Idle
    BY <1>1 DEF CallInv
  <2> QED BY <2>1 DEF Idle
<1> QED BY <1>1 DEF Past

\* What the tables say of run r, given what its call is past.
Recorded(r) ==
    /\ Past(r, {"save"}) => sessions[r.session] \in Row
    /\ Past(r, ToConclude) => sessions[r.session].status = "completed"
    /\ SavesDeal(r.kind) =>
          /\ Past(r, {"learn"}) => r.call \in outcomes
          /\ Past(r, ToSave) =>
                SavedNumbers(r.call) = 1..RoundsComplete(r.terms)
          /\ Past(r, ToDeal) =>
                [call |-> r.call, session |-> r.session,
                 price |-> FinalOffer(r.terms)] \in dealRows

\* StageInv says of each run what is recorded at its stage.
LEMMA StageInvIsRecorded ==
  /\ StageInv <=> (faults = 0 => \A r \in ran : Recorded(r))
  /\ StageInv' <=> (faults' = 0 => \A r \in ran' : Recorded(r)')
  BY DEF StageInv, Recorded, Past, SavedNumbers, SavesDeal, RoundsComplete,
         FinalOffer

\* The steps at which a call may still have a store call to make.
Stages == {{"save"}, {"learn"}, ToConclude, ToSave, ToDeal}

\* A call that begins leaves what is recorded of the runs before it.
LEMMA BegunRecorded ==
  ASSUME TypeOK, CallInv, RanInv, NEW w \in Workers, NEW kind, NEW s, NEW t,
         NEW pc, Begin(w, kind, s, t, pc),
         UNCHANGED <<sessions, roundRows, dealRows, outcomes>>,
         NEW r \in ran, Recorded(r)
  PROVE  Recorded(r)'
<1>1. \A pcs \in Stages : Past(r, pcs)' => Past(r, pcs)
  <2> SUFFICES ASSUME NEW pcs \in Stages PROVE Past(r, pcs)' => Past(r, pcs)
    OBVIOUS
  <2>1. "idle" \notin pcs
    BY DEF Stages, ToConclude, ToSave, ToDeal
  <2> QED BY <2>1, BegunPast
<1>2. SavedNumbers(r.call)' = SavedNumbers(r.call)
  BY DEF SavedNumbers
<1> QED BY <1>1, <1>2 DEF Recorded, Stages

\* A faultless step leaves every run recorded as its stage then asks.
LEMMA StepRecorded ==
  ASSUME TypeOK, CallInv, RanInv, RowInv, KindInv, NoRoundsYet, StoreStep,
         NEW w \in Workers, Step(w) \/ Returns(w), faults' = 0,
         NEW r \in ran, Recorded(r)
  PROVE  Recorded(r)'
<1> DEFINE c == call[w]
<1>1. Moves(w) /\ Works
  <2>1. ~Fails /\ Moves(w)
    BY FaultsGrow, StepMoves
  <2> QED BY <2>1 DEF Step, Returns, RecordOutcome, SaveSession, UpdateSession,
       SaveRounds, SaveDealOutcome, ReadReputation, UpsertReputation,
       ReadStreak, UpsertStreak, AwardBadges, Works
<1>2. r.session \in Sessions /\ r.terms \in Terms
  BY DEF TypeOK, Run
<1>3. /\ sessions[r.session] \in Row => sessions'[r.session] \in Row
      /\ sessions[r.session].status = "completed" =>
            sessions'[r.session].status = "completed"
  BY <1>2, RowsKept
<1>4. ASSUME NEW pcs \in Stages, ~Past(r, pcs), Past(r, pcs)'
      PROVE  /\ c.pc \in pcs /\ c.id = r.call /\ call'[w].pc \notin pcs
             /\ r = RunOf(c)
             /\ c.session = r.session /\ c.terms = r.terms /\ c.kind = r.kind
  <2>1. c.pc \in pcs /\ r = RunOf(c) /\ r.call = c.id
    BY <1>1, <1>4, JustPast
  <2>2. call'[w] = Idle \/ call'[w].id = c.id
    BY <1>1 DEF Moves
  <2>3. call'[w].pc \notin pcs
    <3>1. CASE call'[w].id = c.id
      BY <1>4, <2>1, <3>1 DEF Past
    <3>2. CASE call'[w] = Idle
      BY <3>2 DEF Idle, Stages, ToConclude, ToSave, ToDeal
    <3> QED BY <2>2, <3>1, <3>2
  <2> QED BY <2>1, <2>3 DEF RunOf
<1>5. Follows(c.pc, call'[w].pc, c.kind)
  BY <1>1 DEF Moves
<1>6. Past(r, {"save"})' => sessions'[r.session] \in Row
  <2>1. CASE Past(r, {"save"})
    BY <1>3, <2>1 DEF Recorded
  <2>2. CASE ~Past(r, {"save"}) /\ Past(r, {"save"})'
    <3>1. c.pc = "save" /\ c.session = r.session /\ c.terms = r.terms
      BY <1>4, <2>2 DEF Stages
    <3>2. SaveSession(w) /\ ~Fails
      BY <3>1, StepAt, FaultsGrow
    <3>3. sessions' = [sessions EXCEPT ![r.session] =
                          NewRow(DraftOf(r.terms))]
      BY <3>1, <3>2 DEF SaveSession
    <3>4. DraftOf(r.terms) \in Drafts
      BY DEF RanInv
    <3> QED BY <1>2, <3>3, <3>4, NewRowTyped DEF TypeOK
  <2> QED BY <2>1, <2>2
<1>7. Past(r, ToConclude)' => sessions'[r.session].status = "completed"
  <2>1. CASE Past(r, ToConclude)
    BY <1>3, <2>1 DEF Recorded
  <2>2. CASE ~Past(r, ToConclude) /\ Past(r, ToConclude)'
    <3>1. /\ c.pc \in ToConclude /\ call'[w].pc \notin ToConclude
          /\ c.session = r.session /\ c.terms = r.terms /\ r.call = c.id
      BY <1>4, <2>2 DEF Stages
    <3>2. c.pc = "update"
      BY <1>5, <3>1 DEF Follows, ToConclude
    <3>3. UpdateSession(w) /\ ~Fails
      BY <3>2, StepAt, FaultsGrow
    <3>4. Past(r, {"save"})
      BY <3>1, <3>2, HeldAt
    <3>5. sessions[r.session] \in Row /\ sessions[r.session] # NoRow
      BY <3>4, RowsDiffer DEF Recorded
    <3>6. sessions' = [sessions EXCEPT ![r.session] =
                          ConcludedRow(sessions[r.session], r.terms)]
      BY <3>1, <3>3, <3>5 DEF UpdateSession
    <3> QED BY <1>2, <3>5, <3>6, ConcludedRowTyped DEF TypeOK
  <2> QED BY <2>1, <2>2
<1>8. Past(r, {"learn"})' /\ SavesDeal(r.kind) => r.call \in outcomes'
  <2>1. outcomes \subseteq outcomes'
    BY DEF Step, Returns, RecordOutcome, SaveSession, UpdateSession,
       SaveRounds, SaveDealOutcome, ReadReputation, UpsertReputation,
       ReadStreak, UpsertStreak, AwardBadges, store
  <2>2. CASE Past(r, {"learn"})
    BY <2>1, <2>2 DEF Recorded
  <2>3. CASE ~Past(r, {"learn"}) /\ Past(r, {"learn"})'
    <3>1. c.pc = "learn" /\ r.call = c.id
      BY <1>4, <2>3 DEF Stages
    <3>2. RecordOutcome(w) /\ ~Fails
      BY <3>1, StepAt, FaultsGrow
    <3> QED BY <3>1, <3>2 DEF RecordOutcome
  <2> QED BY <2>2, <2>3
<1>9. Past(r, ToSave)' /\ SavesDeal(r.kind) =>
         SavedNumbers(r.call)' = 1..RoundsComplete(r.terms)
  <2>1. CASE ~SaveRounds(w)
    <3>1. roundRows' = roundRows
      BY <2>1, OtherRounds
    <3>2. CASE Past(r, ToSave)
      BY <3>1, <3>2, NumbersSaved DEF Recorded
    <3>3. CASE ~Past(r, ToSave) /\ Past(r, ToSave)'
      <4>1. c.pc \in ToSave /\ call'[w].pc \notin ToSave
        BY <1>4, <3>3 DEF Stages
      <4>2. c.pc = "rounds"
        BY <1>5, <4>1 DEF Follows, ToSave, ToConclude
      <4> QED BY <2>1, <4>2, StepAt
    <3> QED BY <3>2, <3>3
  <2>2. CASE SaveRounds(w) /\ r.call # c.id
    <3>1. NumbersIn(roundRows', r.call) = NumbersIn(roundRows, r.call)
      BY <2>2, RoundsSaved, SameNumbers
    <3>2. ~Past(r, ToSave) => ~Past(r, ToSave)'
      BY <1>4, <2>2 DEF Stages
    <3> QED BY <3>1, <3>2, NumbersSaved DEF Recorded
  <2>3. CASE SaveRounds(w) /\ r.call = c.id
    <3>1. c.pc = "rounds"
      BY <2>3 DEF SaveRounds, At
    <3>2. RunOf(c) \in ran /\ RunOf(c).call = c.id /\ RunOf(c).terms = c.terms
      BY <3>1, Busy DEF RunOf
    <3>3. r = RunOf(c)
      BY <2>3, <3>2 DEF RanInv
    <3>4. faults' = faults
      BY <1>1 DEF Works
    <3>5. NumbersIn(roundRows', r.call) = 1..RoundsComplete(r.terms)
      BY <2>3, <3>2, <3>3, <3>4, RoundsSaved
    <3> QED BY <3>5, NumbersSaved
  <2> QED BY <2>1, <2>2, <2>3
<1>10. Past(r, ToDeal)' /\ SavesDeal(r.kind) =>
          [call |-> r.call, session |-> r.session,
           price |-> FinalOffer(r.terms)] \in dealRows'
  <2>1. dealRows \subseteq dealRows'
    BY DEF Step, Returns, RecordOutcome, SaveSession, UpdateSession,
       SaveRounds, SaveDealOutcome, ReadReputation, UpsertReputation,
       ReadStreak, UpsertStreak, AwardBadges, store
  <2>2. CASE Past(r, ToDeal)
    BY <2>1, <2>2 DEF Recorded
  <2>3. CASE ~Past(r, ToDeal) /\ Past(r, ToDeal)' /\ SavesDeal(r.kind)
    <3>1. /\ c.pc \in ToDeal /\ call'[w].pc \notin ToDeal
          /\ c.session = r.session /\ c.terms = r.terms /\ r.call = c.id
          /\ c.kind = r.kind
      BY <1>4, <2>3 DEF Stages
    <3>2. c.pc = "deal"
      BY <1>5, <2>3, <3>1 DEF Follows, ToDeal, ToSave, ToConclude
    <3>3. SaveDealOutcome(w) /\ ~Fails
      BY <3>2, StepAt, FaultsGrow
    <3> QED BY <3>1, <3>3 DEF SaveDealOutcome
  <2> QED BY <2>2, <2>3
<1> QED BY <1>6, <1>7, <1>8, <1>9, <1>10 DEF Recorded

\* StageInv is inductive.
LEMMA NextStage ==
  ASSUME TypeOK, CallInv, RanInv, RowInv, KindInv, NoRoundsYet, StageInv,
         StoreStep
  PROVE  StageInv'
<1> SUFFICES ASSUME faults' = 0 PROVE \A r \in ran' : Recorded(r)'
  BY StageInvIsRecorded
<1>1. \A r \in ran : Recorded(r)
  BY FaultsGrow, StageInvIsRecorded
<1>2. CASE Quiet
  <2> SUFFICES ASSUME NEW r \in ran PROVE Recorded(r)'
    BY <1>2 DEF Quiet
  <2> QED BY <1>1, <1>2 DEF Quiet, Recorded, Past, SavedNumbers, SavesDeal,
             RoundsComplete, FinalOffer
<1>3. ASSUME NEW w \in Workers, NEW kind \in {"run", "parallel"},
             NEW s \in Sessions, NEW threshold \in Nat,
             StartRun(w, kind, s, threshold)
      PROVE  \A r \in ran' : Recorded(r)'
  <2> DEFINE t == TermsOf(sessions[s].draft, threshold, 0)
  <2>0. PICK run : run = [call |-> calls + 1, kind |-> kind, session |-> s,
                          terms |-> t]
    OBVIOUS
  <2>1. /\ Begin(w, kind, s, t, "learn")
        /\ UNCHANGED <<sessions, roundRows, dealRows, outcomes>>
        /\ ran' = ran \cup {run}
    BY <1>3, <2>0 DEF StartRun, store
  <2>2. run.call = calls + 1 /\ run.session = s
    BY <2>0
  <2>3. sessions[s] \in Row
    BY <1>3, NegotiableRow DEF StartRun
  <2> HIDE DEF t
  <2>4. ~Past(run, ToConclude)' /\ ~Past(run, {"learn"})' /\ ~Past(run, ToSave)'
        /\ ~Past(run, ToDeal)'
    BY <2>1, <2>2, BegunPast DEF ToConclude, ToSave, ToDeal
  <2>5. Recorded(run)'
    BY <2>1, <2>2, <2>3, <2>4 DEF Recorded
  <2>6. \A r \in ran : Recorded(r)'
    BY <1>1, <2>1, BegunRecorded
  <2> QED BY <2>1, <2>5, <2>6
<1>4. ASSUME NEW w \in Workers, NEW s \in Sessions, NEW draft \in Drafts,
             StartNegotiate(w, s, draft)
      PROVE  \A r \in ran' : Recorded(r)'
  <2> DEFINE t == TermsOf(draft, 0, 1)
  <2>0. PICK run : run = [call |-> calls + 1, kind |-> "a2a", session |-> s,
                          terms |-> t]
    OBVIOUS
  <2>1. /\ Begin(w, "a2a", s, t, "save")
        /\ UNCHANGED <<sessions, roundRows, dealRows, outcomes>>
        /\ ran' = ran \cup {run}
    BY <1>4, <2>0 DEF StartNegotiate
  <2>2. run.call = calls + 1 /\ ~SavesDeal(run.kind)
    BY <2>0 DEF SavesDeal
  <2> HIDE DEF t
  <2>4. ~Past(run, {"save"})' /\ ~Past(run, ToConclude)'
    BY <2>1, <2>2, BegunPast DEF ToConclude
  <2>5. Recorded(run)'
    BY <2>2, <2>4 DEF Recorded, SavesDeal
  <2>6. \A r \in ran : Recorded(r)'
    BY <1>1, <2>1, BegunRecorded
  <2> QED BY <2>1, <2>5, <2>6
<1>5. ASSUME NEW w \in Workers, Step(w) \/ Returns(w)
      PROVE  \A r \in ran' : Recorded(r)'
  BY <1>1, <1>5, StepRecorded, StepKeepsRan
<1>6. ~Crash
  BY FaultsGrow
<1> QED BY <1>2, <1>3, <1>4, <1>5, <1>6, StepKinds

-----------------------------------------------------------------------------
(* Overlapping runs are on record.                                         *)

\* What a run that starts beside another call on its session or vendor adds.
LEMMA OverlapsSeen ==
  ASSUME CallInv, NEW w \in Workers, NEW u \in Workers, u # w, call[u] # Idle,
         NEW s
  PROVE  /\ call[u].session = s => s \in Overlaps(w, s)
         /\ VendorOf[call[u].session] = VendorOf[s] =>
               VendorOf[s] \in Overlaps(w, s)
<1>1. ~At(u, "idle")
  BY DEF CallInv, At
<1> QED BY <1>1 DEF Overlaps

\* Overlaps are put on record when a call begins, never later.
LEMMA OtherOverlapped ==
  ASSUME NEW w \in Workers, Step(w) \/ Returns(w)
  PROVE  overlapped' = overlapped
  BY DEF Step, Returns, RecordOutcome, SaveSession, UpdateSession,
         SaveRounds, SaveDealOutcome, ReadReputation, UpsertReputation,
         ReadStreak, UpsertStreak, AwardBadges

\* No two deals of one vendor are negotiated at once, unless it is on record.
LoneVendor ==
    \A u, w \in Workers :
        /\ u # w /\ SavesDeal(call[u].kind) /\ SavesDeal(call[w].kind)
        /\ VendorOf[call[u].session] = VendorOf[call[w].session]
        => VendorOf[call[w].session] \in overlapped

LoneSession ==
    faults = 0 => \A q, r \in ran :
        q.session = r.session /\ q # r => r.session \in overlapped

\* LoneVendor is inductive.
LEMMA NextLoneVendor ==
  ASSUME TypeOK, CallInv, RanInv, LoneVendor, StoreStep
  PROVE  LoneVendor'
<1>1. CASE Quiet
  BY <1>1 DEF Quiet, LoneVendor, SavesDeal
<1>2. ASSUME NEW x \in Workers, NEW kind \in {"run", "parallel"},
             NEW s \in Sessions, NEW threshold \in Nat,
             StartRun(x, kind, s, threshold)
      PROVE  LoneVendor'
  <2>1. /\ \A u \in Workers \ {x} : call'[u] = call[u]
        /\ call'[x].session = s
    BY <1>2, Begun DEF StartRun
  <2>2. overlapped' = overlapped \cup Overlaps(x, s)
    BY <1>2 DEF StartRun
  <2>3. \A u \in Workers : SavesDeal(call[u].kind) => call[u] # Idle
    BY DEF SavesDeal, Idle
  <2>4. ASSUME NEW u \in Workers, NEW w \in Workers, u # w,
               SavesDeal(call'[u].kind), SavesDeal(call'[w].kind),
               VendorOf[call'[u].session] = VendorOf[call'[w].session]
        PROVE  VendorOf[call'[w].session] \in overlapped'
    <3>1. CASE u # x /\ w # x
      BY <2>1, <2>2, <2>4, <3>1 DEF LoneVendor
    <3>2. CASE w = x
      BY <2>1, <2>2, <2>3, <2>4, <3>2, OverlapsSeen
    <3>3. CASE u = x
      BY <2>1, <2>2, <2>3, <2>4, <3>3, OverlapsSeen
    <3> QED BY <3>1, <3>2, <3>3
  <2> QED BY <2>4 DEF LoneVendor, SavesDeal
<1>3. ASSUME NEW x \in Workers, NEW s \in Sessions, NEW draft \in Drafts,
             StartNegotiate(x, s, draft)
      PROVE  LoneVendor'
  <2>1. /\ \A u \in Workers \ {x} : call'[u] = call[u]
        /\ ~SavesDeal(call'[x].kind) /\ overlapped' = overlapped
    BY <1>3, Begun DEF StartNegotiate, SavesDeal
  <2> QED BY <2>1 DEF LoneVendor, SavesDeal
<1>4. ASSUME NEW x \in Workers, Step(x) \/ Returns(x)
      PROVE  LoneVendor'
  <2>1. Moves(x) /\ overlapped' = overlapped
    BY <1>4, StepMoves, OtherOverlapped
  <2>2. \A u \in Workers : SavesDeal(call'[u].kind) =>
           /\ call'[u].kind = call[u].kind
           /\ call'[u].session = call[u].session
    BY <2>1 DEF Moves, SavesDeal, Idle
  <2> QED BY <2>1, <2>2 DEF LoneVendor, SavesDeal
<1>5. CASE Crash
  BY <1>5 DEF Crash, LoneVendor, SavesDeal, Idle
<1> QED BY <1>1, <1>2, <1>3, <1>4, <1>5, StepKinds

\* LoneSession is inductive.
LEMMA NextLoneSession ==
  ASSUME TypeOK, CallInv, RanInv, RowInv, StageInv, LoneSession, StoreStep
  PROVE  LoneSession'
<1> SUFFICES ASSUME faults' = 0
             PROVE  \A q, r \in ran' : q.session = r.session /\ q # r =>
                       r.session \in overlapped'
  BY DEF LoneSession
<1>0. faults = 0
  BY FaultsGrow
<1>1. CASE UNCHANGED <<ran, overlapped>>
  BY <1>0, <1>1 DEF LoneSession
<1>2. ASSUME NEW w \in Workers, NEW kind \in {"run", "parallel"},
             NEW s \in Sessions, NEW threshold \in Nat,
             StartRun(w, kind, s, threshold)
      PROVE  \A q, r \in ran' : q.session = r.session /\ q # r =>
                r.session \in overlapped'
  <2> DEFINE t == TermsOf(sessions[s].draft, threshold, 0)
  <2>0. PICK run : run = [call |-> calls + 1, kind |-> kind, session |-> s,
                          terms |-> t]
    OBVIOUS
  <2>1. /\ ran' = ran \cup {run} /\ run.session = s
        /\ overlapped' = overlapped \cup Overlaps(w, s)
        /\ call[w].pc = "idle" /\ sessions[s].status = "active"
    BY <1>2, <2>0, Begun DEF StartRun, Negotiable
  <2>2. ASSUME NEW q \in ran, q.session = s
        PROVE  s \in overlapped'
    <3>1. ~Past(q, ToConclude)
      BY <1>0, <2>1, <2>2 DEF StageInv
    <3>2. PICK u \in Workers : call[u].id = q.call /\ call[u].pc \in ToConclude
      BY <3>1 DEF Past
    <3>3. call[u].pc # "idle" /\ u # w /\ call[u] # Idle
      BY <2>1, <3>2 DEF ToConclude, Idle
    <3>4. RunOf(call[u]) \in ran /\ RunOf(call[u]).call = call[u].id
          /\ RunOf(call[u]).session = call[u].session
      BY <3>3, Busy DEF RunOf
    <3>5. call[u].session = s
      BY <2>2, <3>2, <3>4 DEF RanInv
    <3> QED BY <2>1, <3>3, <3>5, OverlapsSeen
  <2> QED BY <1>0, <2>1, <2>2 DEF LoneSession
<1>3. ASSUME NEW w \in Workers, NEW s \in Sessions, NEW draft \in Drafts,
             StartNegotiate(w, s, draft)
      PROVE  \A q, r \in ran' : q.session = r.session /\ q # r =>
                r.session \in overlapped'
  <2> DEFINE t == TermsOf(draft, 0, 1)
  <2>0. PICK run : run = [call |-> calls + 1, kind |-> "a2a", session |-> s,
                          terms |-> t]
    OBVIOUS
  <2>1. /\ ran' = ran \cup {run} /\ run.session = s
        /\ overlapped' = overlapped /\ s \notin minted
    BY <1>3, <2>0 DEF StartNegotiate, Mint
  <2>2. \A q \in ran : q.session # s
    BY <2>1 DEF RanInv
  <2> QED BY <1>0, <2>1, <2>2 DEF LoneSession
<1>4. ASSUME NEW w \in Workers, Step(w) \/ Returns(w)
      PROVE  UNCHANGED <<ran, overlapped>>
  BY <1>4, StepKeepsRan, OtherOverlapped
<1>5. ~Crash
  BY FaultsGrow
<1> QED BY <1>1, <1>2, <1>3, <1>4, <1>5, StepKinds DEF Quiet

-----------------------------------------------------------------------------
(* The tables agree when nothing disturbed the calls.                      *)

\* What is recorded of the one run of a session is what the tables hold.
LEMMA UndisturbedIsExact ==
  ASSUME TypeOK, CallInv, RanInv, RowInv, RowOfOneRun, DealInv, KindInv,
         StageInv, LoneSession
  PROVE  ExactWhenUndisturbed
<1> SUFFICES ASSUME NEW s \in Sessions, faults = 0, s \notin overlapped,
                    ~InProgress(s)
             PROVE  IF RunsOf(s) = {} THEN DealsOf(s) = {}
                    ELSE /\ sessions[s].status = "completed"
                         /\ Cardinality(DealsOf(s)) = 1
                         /\ \A d \in DealsOf(s) :
                               /\ d.price = sessions[s].offer
                               /\ d.call \in outcomes
                               /\ SavedNumbers(d.call) = 1..sessions[s].rounds
  BY DEF ExactWhenUndisturbed
<1>1. CASE RunsOf(s) = {}
  BY <1>1 DEF RunsOf, DealsOf, DealInv
<1>2. CASE RunsOf(s) # {}
  <2>1. PICK r \in ran : r.session = s /\ SavesDeal(r.kind)
    BY <1>2 DEF RunsOf
  <2>2. \A q \in ran : q.session = s => q = r
    BY <2>1 DEF LoneSession
  <2>3. \A pcs : "idle" \notin pcs => Past(r, pcs)
    <3> SUFFICES ASSUME NEW w \in Workers, call[w].id = r.call
                 PROVE  call[w].pc = "idle"
      BY DEF Past
    <3>1. SUFFICES ASSUME call[w].pc # "idle" PROVE FALSE
      OBVIOUS
    <3>2. /\ RunOf(call[w]) \in ran /\ RunOf(call[w]).call = call[w].id
          /\ RunOf(call[w]).session = call[w].session
      BY <3>1, Busy DEF RunOf
    <3>3. RunOf(call[w]) = r
      BY <3>2 DEF RanInv
    <3> QED BY <2>1, <3>2, <3>3 DEF InProgress
  <2>4. /\ Past(r, {"save"}) /\ Past(r, ToConclude) /\ Past(r, {"learn"})
        /\ Past(r, ToSave) /\ Past(r, ToDeal)
    BY <2>3 DEF ToConclude, ToSave, ToDeal
  <2> DEFINE d0 == [call |-> r.call, session |-> r.session,
                    price |-> FinalOffer(r.terms)]
  <2>5. /\ sessions[s] \in Row /\ sessions[s].status = "completed"
        /\ r.call \in outcomes
        /\ SavedNumbers(r.call) = 1..RoundsComplete(r.terms)
        /\ d0 \in dealRows
    BY <2>1, <2>4 DEF StageInv
  <2>6. /\ sessions[s].offer = FinalOffer(r.terms)
        /\ sessions[s].rounds = RoundsComplete(r.terms)
    BY <2>2, <2>5 DEF RowOfOneRun
  <2>7. DealsOf(s) = {d0}
    <3>1. d0 \in DealsOf(s)
      BY <2>1, <2>5 DEF DealsOf
    <3>2. ASSUME NEW d \in dealRows, d.session = s PROVE d = d0
      <4>1. PICK q \in ran : /\ q.call = d.call /\ q.session = d.session
                             /\ d.price = FinalOffer(q.terms)
        BY DEF DealInv
      <4>2. q = r
        BY <2>2, <3>2, <4>1
      <4>3. d = [call |-> d.call, session |-> d.session, price |-> d.price]
        BY DEF TypeOK
      <4> QED BY <4>1, <4>2, <4>3
    <3> QED BY <3>1, <3>2 DEF DealsOf
  <2>8. Cardinality(DealsOf(s)) = 1
    BY <2>7, FS_Singleton
  <2>9. d0.price = FinalOffer(r.terms) /\ d0.call = r.call
    OBVIOUS
  <2> HIDE DEF d0
  <2> QED BY <1>2, <2>5, <2>6, <2>7, <2>8, <2>9
<1> QED BY <1>1, <1>2

-----------------------------------------------------------------------------
(* The reputation of a vendor counts runs that are past the count.         *)

RunsOn(v) == {r \in ran : r.kind = "run" /\ VendorOf[r.session] = v}

Counted(v) == {r \in RunsOn(v) : Past(r, ToCount)}

\* A row that may sum up at most n deals.
Possible(rep, n) ==
    /\ rep.wins = rep.deals
    /\ rep.max <= rep.total
    /\ rep.total <= rep.deals * rep.max
    /\ rep.deals <= n

\* The row, and what a goroutine has read of it and is about to write back.
CountInv ==
    /\ IsFiniteSet(ran)
    /\ \A v \in Vendors : Possible(reputation[v], Cardinality(Counted(v)))
    /\ \A w \in Workers : call[w].pc = "upsert" =>
          Possible(call[w].seen,
                   Cardinality(Counted(VendorOf[call[w].session])))

\* As long as nothing has failed, the runs of a vendor are counted one by one.
CountsAll ==
    faults = 0 => \A v \in Vendors \ overlapped :
        /\ reputation[v].deals = Cardinality(Counted(v))
        /\ \A w \in Workers :
              call[w].pc = "upsert" /\ VendorOf[call[w].session] = v =>
                 call[w].seen.deals = Cardinality(Counted(v))

\* The counted runs are finitely many.
LEMMA CountedFinite ==
  ASSUME IsFiniteSet(ran), NEW v
  PROVE  IsFiniteSet(Counted(v)) /\ Cardinality(Counted(v)) \in Nat
<1>1. Counted(v) \subseteq ran
  BY DEF Counted, RunsOn
<1> QED BY <1>1, FS_Subset, FS_CardinalityType

\* A run that begins is not counted yet.
LEMMA CountedBegin ==
  ASSUME TypeOK, CallInv, RanInv, NEW w \in Workers, NEW kind, NEW s, NEW t,
         NEW pc \in ToCount, Begin(w, kind, s, t, pc),
         ran' = ran \cup {[call |-> calls + 1, kind |-> kind, session |-> s,
                           terms |-> t]},
         NEW v
  PROVE  Counted(v)' = Counted(v)
<1>0. PICK run : run = [call |-> calls + 1, kind |-> kind, session |-> s,
                        terms |-> t]
  OBVIOUS
<1>1. ran' = ran \cup {run} /\ run.call = calls + 1
  BY <1>0
<1>2. "idle" \notin ToCount
  BY DEF ToCount, ToDeal, ToSave, ToConclude
<1>3. ~Past(run, ToCount)'
  BY <1>1, <1>2, BegunPast
<1>4. \A r \in ran : Past(r, ToCount)' => Past(r, ToCount)
  BY <1>2, BegunPast
<1>5. \A r \in ran : Past(r, ToCount) => Past(r, ToCount)'
  BY Begun DEF Past
<1>6. Counted(v)' = {r \in ran' : /\ r.kind = "run" /\ VendorOf[r.session] = v
                                  /\ Past(r, ToCount)'}
  BY DEF Counted, RunsOn, Past, ToCount, ToDeal, ToSave, ToConclude
<1>7. Counted(v) = {r \in ran : /\ r.kind = "run" /\ VendorOf[r.session] = v
                                /\ Past(r, ToCount)}
  BY DEF Counted, RunsOn
<1> QED BY <1>1, <1>3, <1>4, <1>5, <1>6, <1>7

\* A step counts at most the run of its own goroutine.
LEMMA CountedMoves ==
  ASSUME TypeOK, CallInv, RanInv, KindInv, NEW w \in Workers, Moves(w),
         ran' = ran, call[w].pc # "idle", NEW v
  PROVE  /\ Counted(v) \subseteq Counted(v)'
         /\ Counted(v)' \subseteq Counted(v) \cup {RunOf(call[w])}
         /\ Counted(v)' # Counted(v) =>
               /\ call[w].pc \in {"reputation", "upsert"}
               /\ call'[w].pc \notin ToCount
               /\ VendorOf[call[w].session] = v
         /\ call[w].pc = "upsert" /\ VendorOf[call[w].session] = v =>
               /\ RunOf(call[w]) \notin Counted(v)
               /\ RunOf(call[w]) \in Counted(v)'
<1> DEFINE run == RunOf(call[w])
<1>1. /\ run \in ran /\ run.call = call[w].id /\ run.kind = call[w].kind
      /\ run.session = call[w].session
  BY Busy DEF RunOf
<1>2. \A r \in ran : Past(r, ToCount) => Past(r, ToCount)'
  BY StaysPast
<1>3. \A r \in ran : ~Past(r, ToCount) /\ Past(r, ToCount)' =>
         r = run /\ call[w].pc \in ToCount
  BY JustPast
<1>4. Counted(v)' = {r \in ran : /\ r.kind = "run" /\ VendorOf[r.session] = v
                                 /\ Past(r, ToCount)'}
  BY DEF Counted, RunsOn, Past, ToCount, ToDeal, ToSave, ToConclude
<1>5. Counted(v) = {r \in ran : /\ r.kind = "run" /\ VendorOf[r.session] = v
                                /\ Past(r, ToCount)}
  BY DEF Counted, RunsOn
<1>6. Counted(v) \subseteq Counted(v)' /\ Counted(v)' \subseteq Counted(v) \cup {run}
  BY <1>2, <1>3, <1>4, <1>5
<1>7. ASSUME Counted(v)' # Counted(v)
      PROVE  /\ call[w].pc \in {"reputation", "upsert"}
             /\ call'[w].pc \notin ToCount
             /\ VendorOf[call[w].session] = v
  <2>1. PICK r \in ran : /\ r.kind = "run" /\ VendorOf[r.session] = v
                         /\ ~Past(r, ToCount) /\ Past(r, ToCount)'
    BY <1>2, <1>4, <1>5, <1>7
  <2>2. r = run /\ call[w].pc \in ToCount /\ call[w].kind = "run"
    BY <1>1, <1>3, <2>1
  <2>3. call'[w].pc \notin ToCount
    <3>1. CASE call'[w].id = call[w].id
      BY <1>1, <2>1, <2>2, <3>1 DEF Past
    <3>2. CASE call'[w] = Idle
      BY <3>2 DEF Idle, ToCount, ToDeal, ToSave, ToConclude
    <3> QED BY <3>1, <3>2 DEF Moves
  <2>4. Follows(call[w].pc, call'[w].pc, call[w].kind)
    BY DEF Moves
  <2>5. call[w].pc \in {"reputation", "upsert"}
    BY <2>2, <2>3, <2>4
       DEF Follows, SavesDeal, ToCount, ToDeal, ToSave, ToConclude
  <2> QED BY <1>1, <2>1, <2>2, <2>3, <2>5
<1>8. ASSUME call[w].pc = "upsert", VendorOf[call[w].session] = v
      PROVE  run \notin Counted(v) /\ run \in Counted(v)'
  <2>1. ~Past(run, ToCount)
    BY <1>1, <1>8 DEF Past, ToCount
  <2>2. run.kind = "run"
    BY <1>1, <1>8 DEF KindInv
  <2>3. call'[w].pc \notin ToCount
    BY <1>8 DEF Moves, Follows, ToCount, ToDeal, ToSave, ToConclude
  <2>4. PICK r : r = run
    OBVIOUS
  <2>5. \A u \in Workers \ {w} : call'[u].id # r.call
    <3> SUFFICES ASSUME NEW u \in Workers \ {w}, call[u].id = r.call
                 PROVE  FALSE
      BY DEF Moves
    <3>1. call[u] = Idle
      BY <1>1, <2>4 DEF CallInv
    <3>2. call[w].id # 0
      BY <1>8, Busy DEF CallIds
    <3> QED BY <1>1, <2>4, <3>1, <3>2 DEF Idle
  <2>6. Past(r, ToCount)'
    BY <2>3, <2>5 DEF Past, ToCount, ToDeal, ToSave, ToConclude
  <2> QED BY <1>1, <1>4, <1>5, <1>8, <2>1, <2>2, <2>4, <2>6
<1> QED BY <1>6, <1>7, <1>8

\* A crash leaves no run on its way: more runs may be past the count.
LEMMA CountedCrash ==
  ASSUME TypeOK, Crash, NEW v
  PROVE  Counted(v) \subseteq Counted(v)'
<1>1. /\ ran' = ran
      /\ \A w \in Workers : call'[w].pc = "idle"
  BY DEF Crash, history, Idle
<1>2. "idle" \notin ToCount
  BY DEF ToCount, ToDeal, ToSave, ToConclude
<1>3. \A r \in ran : Past(r, ToCount)'
  BY <1>1, <1>2 DEF Past, ToCount, ToDeal, ToSave, ToConclude
<1> QED BY <1>1, <1>3 DEF Counted, RunsOn

\* A row that summed up n deals still may when more are counted.
LEMMA MorePossible ==
  ASSUME NEW rep \in Reputation, NEW n \in Nat, NEW m \in Nat, n <= m,
         Possible(rep, n)
  PROVE  Possible(rep, m)
  BY DEF Possible, Reputation

\* One more deal at any discount.
LEMMA OneMorePossible ==
  ASSUME NEW rep \in Reputation, NEW n \in Nat, NEW m \in Nat, n + 1 <= m,
         NEW discount \in Nat, Possible(rep, n)
  PROVE  /\ Possible(Updated(rep, discount), m)
         /\ Updated(rep, discount).deals = rep.deals + 1
<1> DEFINE max == IF discount > rep.max THEN discount ELSE rep.max
<1>1. /\ rep.deals \in Nat /\ rep.total \in Nat /\ rep.max \in Nat
      /\ rep.wins = rep.deals /\ rep.deals <= n
      /\ rep.max <= rep.total /\ rep.total <= rep.deals * rep.max
  BY DEF Reputation, Possible
<1>2. max \in Nat /\ rep.max <= max /\ discount <= max
      /\ max <= rep.total + discount
  BY <1>1
<1>3. Updated(rep, discount) =
         [deals |-> rep.deals + 1, total |-> rep.total + discount,
          max |-> max, wins |-> rep.wins + 1]
  BY DEF Updated
<1> HIDE DEF max
<1>4. rep.total + discount <= (rep.deals + 1) * max
  <2>1. \A a, x, y \in Nat : x <= y => a * x <= a * y
    OBVIOUS
  <2>2. rep.deals * rep.max <= rep.deals * max
    BY <1>1, <1>2, <2>1
  <2>3. (rep.deals + 1) * max = rep.deals * max + max
    BY <1>1, <1>2
  <2>4. rep.deals * rep.max \in Nat /\ rep.deals * max \in Nat
    BY <1>1, <1>2
  <2> QED BY <1>1, <1>2, <2>2, <2>3, <2>4
<1> QED BY <1>1, <1>2, <1>3, <1>4 DEF Possible

\* There are always finitely many runs.
LEMMA NextFiniteRan ==
  ASSUME TypeOK, CallInv, RanInv, IsFiniteSet(ran), StoreStep
  PROVE  IsFiniteSet(ran')
<1>1. ran' = ran \/ \E r : ran' = ran \cup {r}
  BY StepKinds, StepKeepsRan DEF Quiet, StartRun, StartNegotiate, Crash, history
<1> QED BY <1>1, FS_AddElement

\* More runs counted, and their number with them.
LEMMA MoreCounted ==
  ASSUME IsFiniteSet(ran), IsFiniteSet(ran'), NEW v,
         Counted(v) \subseteq Counted(v)'
  PROVE  /\ Cardinality(Counted(v)) \in Nat /\ Cardinality(Counted(v)') \in Nat
         /\ Cardinality(Counted(v)) <= Cardinality(Counted(v)')
         /\ \A r : r \notin Counted(v) /\ r \in Counted(v)' =>
               Cardinality(Counted(v)) + 1 <= Cardinality(Counted(v)')
         /\ \A r : /\ r \notin Counted(v) /\ r \in Counted(v)'
                   /\ Counted(v)' \subseteq Counted(v) \cup {r}
                   => Cardinality(Counted(v)') = Cardinality(Counted(v)) + 1
<1> DEFINE A == Counted(v)
           B == Counted(v)'
<1>1. B \subseteq ran' /\ A \subseteq B /\ A \subseteq ran
  BY DEF Counted, RunsOn
<1>2. IsFiniteSet(A) /\ IsFiniteSet(B)
  BY <1>1, FS_Subset
<1> HIDE DEF A, B
<1>3. Cardinality(A) \in Nat /\ Cardinality(B) \in Nat
  BY <1>2, FS_CardinalityType
<1>4. Cardinality(A) <= Cardinality(B)
  BY <1>1, <1>2, FS_Subset
<1>5. ASSUME NEW r, r \notin A, r \in B
      PROVE  Cardinality(A) + 1 <= Cardinality(B)
  <2>1. IsFiniteSet(A \cup {r}) /\ Cardinality(A \cup {r}) = Cardinality(A) + 1
    BY <1>2, <1>5, FS_AddElement
  <2>2. A \cup {r} \subseteq B
    BY <1>1, <1>5
  <2> QED BY <1>2, <2>1, <2>2, FS_Subset
<1>6. ASSUME NEW r, r \notin A, r \in B, B \subseteq A \cup {r}
      PROVE  Cardinality(B) = Cardinality(A) + 1
  <2>1. B = A \cup {r}
    BY <1>1, <1>6
  <2> QED BY <1>2, <1>6, <2>1, FS_AddElement
<1>7. /\ \A r : r \notin A /\ r \in B => Cardinality(A) + 1 <= Cardinality(B)
      /\ \A r : r \notin A /\ r \in B /\ B \subseteq A \cup {r}
                => Cardinality(B) = Cardinality(A) + 1
  BY <1>5, <1>6
<1> QED BY <1>3, <1>4, <1>7 DEF A, B

\* Only an upsert changes a row of the reputation.
LEMMA OtherReputation ==
  ASSUME NEW w \in Workers, Step(w) \/ Returns(w), ~UpsertReputation(w)
  PROVE  reputation' = reputation
  BY DEF Step, Returns, RecordOutcome, SaveSession, UpdateSession,
         SaveRounds, SaveDealOutcome, ReadReputation, ReadStreak,
         UpsertStreak, AwardBadges, records

\* What a goroutine about to write the row has read.
LEMMA SeenBefore ==
  ASSUME TypeOK, NEW w \in Workers, Step(w) \/ Returns(w),
         NEW u \in Workers, call'[u].pc = "upsert"
  PROVE  /\ call'[u].session = call[u].session
         /\ \/ u # w /\ call[u].pc = "upsert" /\ call'[u] = call[u]
            \/ /\ u = w /\ call[w].pc = "reputation"
               /\ call'[w].seen = reputation[VendorOf[call[w].session]]
<1>1. Moves(w)
  BY StepMoves
<1>2. CASE u # w
  BY <1>1, <1>2 DEF Moves
<1>3. CASE u = w
  <2>1. /\ call[w].pc = "reputation"
        /\ call'[w].session = call[w].session
    BY <1>1, <1>3 DEF Moves, Follows, Idle
  <2>2. ReadReputation(w)
    BY <2>1, StepAt
  <2>3. call \in [Workers -> Call]
    BY DEF TypeOK
  <2>4. ~Goto(w, "streak")
    BY <1>3, <2>3 DEF Goto, Call
  <2>5. call' = [call EXCEPT ![w].pc = "upsert",
                   ![w].seen = reputation[VendorOf[call[w].session]]]
    BY <2>2, <2>4 DEF ReadReputation
  <2>6. call'[w].seen = reputation[VendorOf[call[w].session]]
    BY <2>3, <2>5 DEF Call
  <2> QED BY <1>3, <2>1, <2>6
<1> QED BY <1>2, <1>3

\* The vendor of a goroutine at work, and the types of what it has read.
LEMMA BusyVendor ==
  ASSUME TypeOK, CallInv, RanInv, NEW w \in Workers, call[w].pc # "idle"
  PROVE  /\ VendorOf[call[w].session] \in Vendors
         /\ reputation[VendorOf[call[w].session]] \in Reputation
         /\ call[w].seen \in Reputation
         /\ TotalDiscount(call[w].terms) \in Nat
<1>1. call[w].session \in Sessions /\ call[w].terms \in Terms
  BY Busy
<1>2. call[w] \in Call
  BY DEF TypeOK
<1> QED BY <1>1, <1>2, RowsTyped, SessionRunsAssumption, TotalDiscountBounds
        DEF Call

\* A successful UpsertReputation writes the row it has read, plus its deal.
LEMMA Upserted ==
  ASSUME TypeOK, CallInv, RanInv, NEW w \in Workers, UpsertReputation(w)
  PROVE  /\ call[w].pc = "upsert"
         /\ \/ reputation' = reputation /\ Fails
            \/ /\ reputation'[VendorOf[call[w].session]] =
                     Updated(call[w].seen, TotalDiscount(call[w].terms))
               /\ \A v \in Vendors : v # VendorOf[call[w].session] =>
                     reputation'[v] = reputation[v]
<1>1. call[w].pc = "upsert" /\ VendorOf[call[w].session] \in Vendors
  BY BusyVendor DEF UpsertReputation, At
<1>2. reputation \in [Vendors -> Reputation]
  BY DEF TypeOK
<1> QED BY <1>1, <1>2 DEF UpsertReputation

\* What a step leaves of the row, and of what was read of it, is possible.
LEMMA StepCounts ==
  ASSUME TypeOK, CallInv, RanInv, KindInv, CountInv, IsFiniteSet(ran'),
         NEW w \in Workers, Step(w) \/ Returns(w)
  PROVE  /\ \A v \in Vendors :
               Possible(reputation'[v], Cardinality(Counted(v)'))
         /\ \A u \in Workers : call'[u].pc = "upsert" =>
               Possible(call'[u].seen,
                        Cardinality(Counted(VendorOf[call[u].session])'))
<1>1. Moves(w) /\ ran' = ran /\ call[w].pc # "idle"
  <2>1. Moves(w) /\ ran' = ran
    BY StepMoves, StepKeepsRan
  <2> QED BY <2>1 DEF Moves, Follows
<1>2. IsFiniteSet(ran)
  BY DEF CountInv
<1>3. ASSUME NEW v
      PROVE  /\ Cardinality(Counted(v)) \in Nat
             /\ Cardinality(Counted(v)') \in Nat
             /\ Cardinality(Counted(v)) <= Cardinality(Counted(v)')
             /\ call[w].pc = "upsert" /\ VendorOf[call[w].session] = v =>
                   Cardinality(Counted(v)) + 1 <= Cardinality(Counted(v)')
  <2>1. /\ Counted(v) \subseteq Counted(v)'
        /\ call[w].pc = "upsert" /\ VendorOf[call[w].session] = v =>
              /\ RunOf(call[w]) \notin Counted(v)
              /\ RunOf(call[w]) \in Counted(v)'
    BY <1>1, CountedMoves
  <2>2. PICK r : r = RunOf(call[w])
    OBVIOUS
  <2> QED BY <1>2, <2>1, <2>2, MoreCounted
<1>4. \A v \in Vendors : reputation[v] \in Reputation
  BY DEF TypeOK
<1>5. ASSUME NEW v \in Vendors, reputation'[v] = reputation[v]
      PROVE  Possible(reputation'[v], Cardinality(Counted(v)'))
  <2>1. Possible(reputation[v], Cardinality(Counted(v)))
    BY DEF CountInv
  <2> QED BY <1>3, <1>4, <1>5, <2>1, MorePossible
<1>6. ASSUME NEW v \in Vendors
      PROVE  Possible(reputation'[v], Cardinality(Counted(v)'))
  <2>1. CASE ~UpsertReputation(w)
    BY <1>5, <2>1, OtherReputation
  <2>2. CASE UpsertReputation(w)
    <3>1. call[w].pc = "upsert"
      BY <2>2, Upserted
    <3>2. CASE v = VendorOf[call[w].session] /\ reputation' # reputation
      <4>1. reputation'[v] =
               Updated(call[w].seen, TotalDiscount(call[w].terms))
        BY <2>2, <3>2, Upserted
      <4>2. Possible(call[w].seen, Cardinality(Counted(v)))
        BY <3>1, <3>2 DEF CountInv
      <4>3. call[w].seen \in Reputation /\ TotalDiscount(call[w].terms) \in Nat
        BY <1>1, BusyVendor
      <4> QED BY <1>3, <3>1, <3>2, <4>1, <4>2, <4>3, OneMorePossible
    <3>3. CASE v # VendorOf[call[w].session] \/ reputation' = reputation
      BY <1>5, <2>2, <3>3, Upserted
    <3> QED BY <3>2, <3>3
  <2> QED BY <2>1, <2>2
<1>7. ASSUME NEW u \in Workers, call'[u].pc = "upsert"
      PROVE  Possible(call'[u].seen,
                      Cardinality(Counted(VendorOf[call[u].session])'))
  <2> DEFINE v == VendorOf[call[u].session]
  <2>0. PICK x : x = v
    OBVIOUS
  <2>1. Possible(call'[u].seen, Cardinality(Counted(x)))
        /\ call'[u].seen \in Reputation
    <3>1. CASE u # w /\ call[u].pc = "upsert" /\ call'[u] = call[u]
      BY <2>0, <3>1, BusyVendor DEF CountInv
    <3>2. CASE /\ u = w /\ call[w].pc = "reputation"
               /\ call'[w].seen = reputation[VendorOf[call[w].session]]
      BY <1>1, <2>0, <3>2, BusyVendor DEF CountInv
    <3> QED BY <1>7, <3>1, <3>2, SeenBefore
  <2>2. Possible(call'[u].seen, Cardinality(Counted(x)'))
    BY <1>3, <2>1, MorePossible
  <2>3. VendorOf[call'[u].session] = x
    BY <1>7, <2>0, SeenBefore
  <2> QED BY <2>2, <2>3
<1> QED BY <1>6, <1>7

\* CountInv is inductive.
LEMMA NextCount ==
  ASSUME TypeOK, CallInv, RanInv, RowInv, KindInv, CountInv, StoreStep
  PROVE  CountInv'
<1>0. IsFiniteSet(ran')
  BY NextFiniteRan DEF CountInv
<1>1. CASE Quiet
  <2>1. \A v : Counted(v)' = Counted(v)
    BY <1>1 DEF Quiet, Counted, RunsOn, Past
  <2> QED BY <1>0, <1>1, <2>1 DEF Quiet, CountInv, Possible
<1>2. ASSUME NEW w \in Workers, NEW kind, NEW s, NEW t, NEW pc \in ToCount,
             Begin(w, kind, s, t, pc), pc # "upsert",
             UNCHANGED reputation,
             ran' = ran \cup {[call |-> calls + 1, kind |-> kind,
                               session |-> s, terms |-> t]}
      PROVE  CountInv'
  <2>1. \A v : Counted(v)' = Counted(v)
    BY <1>2, CountedBegin
  <2>2. \A u \in Workers : call'[u].pc = "upsert" =>
           call'[u] = call[u] /\ call[u].pc = "upsert"
    BY <1>2, Begun
  <2> QED BY <1>0, <1>2, <2>1, <2>2 DEF CountInv, Possible
<1>3. ASSUME NEW w \in Workers, NEW kind \in {"run", "parallel"},
             NEW s \in Sessions, NEW threshold \in Nat,
             StartRun(w, kind, s, threshold)
      PROVE  CountInv'
  <2>1. "learn" \in ToCount
    BY DEF ToCount, ToDeal, ToSave, ToConclude
  <2> QED BY <1>2, <1>3, <2>1 DEF StartRun, records
<1>4. ASSUME NEW w \in Workers, NEW s \in Sessions, NEW draft \in Drafts,
             StartNegotiate(w, s, draft)
      PROVE  CountInv'
  <2>1. "save" \in ToCount
    BY DEF ToCount, ToDeal, ToSave, ToConclude
  <2> QED BY <1>2, <1>4, <2>1 DEF StartNegotiate, records
<1>5. ASSUME NEW w \in Workers, Step(w) \/ Returns(w)
      PROVE  CountInv'
  BY <1>0, <1>5, StepCounts DEF CountInv, Possible
<1>6. CASE Crash
  <2>1. /\ reputation' = reputation
        /\ \A w \in Workers : call'[w].pc # "upsert"
    BY <1>6 DEF Crash, records, Idle
  <2>2. ASSUME NEW v \in Vendors
        PROVE  Possible(reputation'[v], Cardinality(Counted(v)'))
    <3>1. /\ Cardinality(Counted(v)) \in Nat
          /\ Cardinality(Counted(v)') \in Nat
          /\ Cardinality(Counted(v)) <= Cardinality(Counted(v)')
      BY <1>0, <1>6, CountedCrash, MoreCounted DEF CountInv
    <3>2. reputation[v] \in Reputation
      BY DEF TypeOK
    <3> QED BY <2>1, <3>1, <3>2, MorePossible DEF CountInv
  <2> QED BY <1>0, <2>1, <2>2 DEF CountInv, Possible
<1> QED BY <1>1, <1>3, <1>4, <1>5, <1>6, StepKinds

\* A faultless step of a lone goroutine keeps the count exact.
LEMMA StepCountsAll ==
  ASSUME TypeOK, CallInv, RanInv, KindInv, LoneVendor, CountInv, CountsAll,
         StoreStep, faults' = 0, IsFiniteSet(ran'),
         NEW w \in Workers, Step(w) \/ Returns(w),
         NEW v \in Vendors \ overlapped
  PROVE  /\ reputation'[v].deals = Cardinality(Counted(v)')
         /\ \A u \in Workers :
               call'[u].pc = "upsert" /\ VendorOf[call'[u].session] = v =>
                  call'[u].seen.deals = Cardinality(Counted(v)')
<1>1. Moves(w) /\ ran' = ran /\ call[w].pc # "idle"
  <2>1. Moves(w) /\ ran' = ran
    BY StepMoves, StepKeepsRan
  <2> QED BY <2>1 DEF Moves, Follows
<1>2. /\ ~Fails
      /\ reputation[v].deals = Cardinality(Counted(v))
      /\ \A u \in Workers :
            call[u].pc = "upsert" /\ VendorOf[call[u].session] = v =>
               call[u].seen.deals = Cardinality(Counted(v))
  BY FaultsGrow DEF CountsAll
<1>3. ASSUME Counted(v)' = Counted(v), reputation'[v] = reputation[v]
      PROVE  /\ reputation'[v].deals = Cardinality(Counted(v)')
             /\ \A u \in Workers :
                   call'[u].pc = "upsert" /\ VendorOf[call'[u].session] = v =>
                      call'[u].seen.deals = Cardinality(Counted(v)')
  BY <1>2, <1>3, SeenBefore
<1>4. CASE UpsertReputation(w) /\ VendorOf[call[w].session] = v
  <2>1. call[w].pc = "upsert" /\ call[w].kind = "run"
    BY <1>4, Upserted DEF KindInv
  <2>2. reputation'[v] = Updated(call[w].seen, TotalDiscount(call[w].terms))
    BY <1>2, <1>4, Upserted
  <2>3. /\ call[w].seen \in Reputation /\ TotalDiscount(call[w].terms) \in Nat
        /\ Possible(call[w].seen, Cardinality(Counted(v)))
        /\ call[w].seen.deals = Cardinality(Counted(v))
    BY <1>1, <1>2, <1>4, <2>1, BusyVendor DEF CountInv
  <2>4. /\ Counted(v) \subseteq Counted(v)'
        /\ Counted(v)' \subseteq Counted(v) \cup {RunOf(call[w])}
        /\ RunOf(call[w]) \notin Counted(v)
        /\ RunOf(call[w]) \in Counted(v)'
    BY <1>1, <1>4, <2>1, CountedMoves
  <2>5. PICK r : r = RunOf(call[w])
    OBVIOUS
  <2>6. /\ Cardinality(Counted(v)) \in Nat
        /\ Cardinality(Counted(v)') = Cardinality(Counted(v)) + 1
    BY <2>4, <2>5, MoreCounted DEF CountInv
  <2>7. reputation'[v].deals = Cardinality(Counted(v)')
    BY <2>2, <2>3, <2>6 DEF Updated
  <2>8. ASSUME NEW u \in Workers, call'[u].pc = "upsert",
               VendorOf[call'[u].session] = v
        PROVE  FALSE
    <3>1. u # w /\ call[u].pc = "upsert" /\ call'[u] = call[u]
      BY <2>1, <2>8, SeenBefore
    <3>2. call[u].kind = "run" /\ VendorOf[call[u].session] = v
      BY <2>8, <3>1 DEF KindInv
    <3> QED BY <1>4, <2>1, <3>1, <3>2 DEF LoneVendor, SavesDeal
  <2> QED BY <2>7, <2>8
<1>5. CASE ~(UpsertReputation(w) /\ VendorOf[call[w].session] = v)
  <2>1. reputation'[v] = reputation[v]
    BY <1>5, OtherReputation, Upserted
  <2>2. Counted(v)' = Counted(v)
    <3> SUFFICES ASSUME Counted(v)' # Counted(v) PROVE FALSE
      OBVIOUS
    <3>1. /\ call[w].pc \in {"reputation", "upsert"}
          /\ call'[w].pc \notin ToCount
          /\ VendorOf[call[w].session] = v
      BY <1>1, CountedMoves
    <3>2. CASE call[w].pc = "upsert"
      BY <1>5, <3>1, <3>2, StepAt
    <3>3. CASE call[w].pc = "reputation"
      <4>1. ReadReputation(w)
        BY <3>3, StepAt
      <4>2. call' = [call EXCEPT ![w].pc = "upsert",
                       ![w].seen = reputation[VendorOf[call[w].session]]]
        BY <1>2, <4>1 DEF ReadReputation
      <4>3. call'[w].pc = "upsert"
        BY <4>2 DEF TypeOK, Call
      <4> QED BY <3>1, <4>3 DEF ToCount
    <3> QED BY <3>1, <3>2, <3>3
  <2> QED BY <1>3, <2>1, <2>2
<1> QED BY <1>4, <1>5

\* CountsAll is inductive.
LEMMA NextCountsAll ==
  ASSUME TypeOK, CallInv, RanInv, RowInv, KindInv, LoneVendor, CountInv,
         CountsAll, StoreStep
  PROVE  CountsAll'
<1> SUFFICES ASSUME faults' = 0, NEW v \in Vendors \ overlapped'
             PROVE  /\ reputation'[v].deals = Cardinality(Counted(v)')
                    /\ \A u \in Workers :
                          call'[u].pc = "upsert"
                          /\ VendorOf[call'[u].session] = v =>
                             call'[u].seen.deals = Cardinality(Counted(v)')
  BY DEF CountsAll
<1>0. IsFiniteSet(ran')
  BY NextFiniteRan DEF CountInv
<1>1. overlapped \subseteq overlapped'
  BY StepKinds, OtherOverlapped DEF Quiet, StartRun, StartNegotiate, Crash
<1>2. v \in Vendors \ overlapped /\ faults = 0 /\ ~Crash
  BY <1>1, FaultsGrow
<1>3. ASSUME Counted(v)' = Counted(v), reputation' = reputation,
             \A u \in Workers : call'[u].pc = "upsert" => call'[u] = call[u]
      PROVE  /\ reputation'[v].deals = Cardinality(Counted(v)')
             /\ \A u \in Workers :
                   call'[u].pc = "upsert" /\ VendorOf[call'[u].session] = v =>
                      call'[u].seen.deals = Cardinality(Counted(v)')
  BY <1>2, <1>3 DEF CountsAll
<1>4. CASE Quiet
  <2>1. Counted(v)' = Counted(v)
    BY <1>4 DEF Quiet, Counted, RunsOn, Past
  <2> QED BY <1>3, <1>4, <2>1 DEF Quiet
<1>5. ASSUME NEW w \in Workers, NEW kind \in {"run", "parallel"},
             NEW s \in Sessions, NEW threshold \in Nat,
             StartRun(w, kind, s, threshold)
      PROVE  /\ Counted(v)' = Counted(v) /\ reputation' = reputation
             /\ \A u \in Workers : call'[u].pc = "upsert" => call'[u] = call[u]
  <2>1. "learn" \in ToCount
    BY DEF ToCount, ToDeal, ToSave, ToConclude
  <2>2. Counted(v)' = Counted(v) /\ reputation' = reputation
    BY <1>5, <2>1, CountedBegin DEF StartRun, records
  <2>3. /\ call'[w].pc = "learn"
        /\ \A u \in Workers \ {w} : call'[u] = call[u]
    BY <1>5, Begun DEF StartRun
  <2> QED BY <2>2, <2>3
<1>6. ASSUME NEW w \in Workers, NEW s \in Sessions, NEW draft \in Drafts,
             StartNegotiate(w, s, draft)
      PROVE  /\ Counted(v)' = Counted(v) /\ reputation' = reputation
             /\ \A u \in Workers : call'[u].pc = "upsert" => call'[u] = call[u]
  <2>1. "save" \in ToCount
    BY DEF ToCount, ToDeal, ToSave, ToConclude
  <2>2. Counted(v)' = Counted(v) /\ reputation' = reputation
    BY <1>6, <2>1, CountedBegin DEF StartNegotiate, records
  <2>3. /\ call'[w].pc = "save"
        /\ \A u \in Workers \ {w} : call'[u] = call[u]
    BY <1>6, Begun DEF StartNegotiate
  <2> QED BY <2>2, <2>3
<1>7. ASSUME NEW w \in Workers, Step(w) \/ Returns(w)
      PROVE  /\ reputation'[v].deals = Cardinality(Counted(v)')
             /\ \A u \in Workers :
                   call'[u].pc = "upsert" /\ VendorOf[call'[u].session] = v =>
                      call'[u].seen.deals = Cardinality(Counted(v)')
  BY <1>0, <1>2, <1>7, StepCountsAll
<1> QED BY <1>2, <1>3, <1>4, <1>5, <1>6, <1>7, StepKinds

\* A row that may sum up the counted runs is plausible.
LEMMA CountedIsPlausible ==
  ASSUME TypeOK, CallInv, RanInv, CountInv, CountsAll
  PROVE  ReputationIsPlausible
<1> SUFFICES ASSUME NEW v \in Vendors
             PROVE  LET rep == reputation[v]
                        runs == {r \in ran : r.kind = "run"
                                             /\ VendorOf[r.session] = v}
                    IN  /\ rep.wins = rep.deals
                        /\ rep.max <= rep.total
                        /\ rep.total <= rep.deals * rep.max
                        /\ rep.deals <= Cardinality(runs)
                        /\ \/ faults > 0 \/ v \in overlapped
                           \/ \E w \in Workers :
                                 call[w].session \in Sessions
                                 /\ VendorOf[call[w].session] = v
                           \/ rep.deals = Cardinality(runs)
  BY DEF ReputationIsPlausible
<1> DEFINE runs == {r \in ran : r.kind = "run" /\ VendorOf[r.session] = v}
<1>1. runs = RunsOn(v) /\ Counted(v) \subseteq runs /\ runs \subseteq ran
  BY DEF RunsOn, Counted
<1>2. IsFiniteSet(runs) /\ Cardinality(Counted(v)) <= Cardinality(runs)
      /\ Cardinality(runs) \in Nat /\ Cardinality(Counted(v)) \in Nat
  <2>1. IsFiniteSet(runs) /\ IsFiniteSet(Counted(v))
    BY <1>1, CountedFinite, FS_Subset DEF CountInv
  <2> HIDE DEF runs
  <2> QED BY <1>1, <2>1, FS_Subset, FS_CardinalityType
<1>3. reputation[v] \in Reputation /\ faults \in Nat
  BY DEF TypeOK
<1>4. Possible(reputation[v], Cardinality(Counted(v)))
  BY DEF CountInv
<1>5. ASSUME faults = 0, v \notin overlapped,
             ~\E w \in Workers : call[w].session \in Sessions
                                 /\ VendorOf[call[w].session] = v
      PROVE  reputation[v].deals = Cardinality(runs)
  <2>1. ASSUME NEW r \in runs, NEW w \in Workers, call[w].id = r.call
        PROVE  call[w].pc = "idle"
    <3> SUFFICES ASSUME call[w].pc # "idle" PROVE FALSE
      OBVIOUS
    <3>1. /\ RunOf(call[w]) \in ran /\ RunOf(call[w]).call = call[w].id
          /\ RunOf(call[w]).session = call[w].session
          /\ call[w].session \in Sessions
      BY Busy DEF RunOf
    <3>2. r = RunOf(call[w])
      BY <2>1, <3>1 DEF RanInv
    <3> QED BY <1>5, <2>1, <3>1, <3>2
  <2>2. \A r \in runs : Past(r, ToCount)
    BY <2>1 DEF Past, ToCount, ToDeal, ToSave, ToConclude
  <2>3. Counted(v) = runs
    BY <1>1, <2>2 DEF Counted
  <2> QED BY <1>5, <2>3 DEF CountsAll
<1> HIDE DEF runs
<1>6. /\ reputation[v].wins = reputation[v].deals
      /\ reputation[v].max <= reputation[v].total
      /\ reputation[v].total <= reputation[v].deals * reputation[v].max
      /\ reputation[v].deals <= Cardinality(runs)
  BY <1>2, <1>3, <1>4 DEF Possible, Reputation
<1> QED BY <1>3, <1>5, <1>6 DEF runs

-----------------------------------------------------------------------------
(* The winner of a parallel call is the cheapest of its results.           *)

\* A set of numbers has a least member.
LEMMA LeastMember ==
  ASSUME NEW T \in SUBSET Nat, T # {}
  PROVE  \E x \in T : \A y \in T : x <= y
<1>1. PICK x \in T : \A y \in T : <<y, x>> \notin OpToRel(<, Nat)
  BY NatLessThanWellFounded, WFMin
<1>2. \A y \in T : ~(y < x)
  BY <1>1 DEF OpToRel
<1> QED BY <1>2

Summary == [session : Sessions, offer : Nat, rounds : Nat]

\* Results have their offers in Nat.
LEMMA OffersTyped ==
  ASSUME NEW rs \in Seq(Summary)
  PROVE  /\ Len(rs) \in Nat
         /\ \A i \in 1..Len(rs) : rs[i] \in Summary /\ rs[i].offer \in Nat
<1>1. Len(rs) \in Nat /\ \A i \in 1..Len(rs) : rs[i] \in Summary
  OBVIOUS
<1> QED BY <1>1 DEF Summary

\* The first of the cheapest of the first n results.
FirstCheapest(rs, n) ==
    CHOOSE i \in 1..n : /\ \A j \in 1..n : rs[i].offer <= rs[j].offer
                        /\ \A j \in 1..(i - 1) : rs[i].offer < rs[j].offer

\* Any list of results has a first cheapest one.
LEMMA FirstCheapestExists ==
  ASSUME NEW rs \in Seq(Summary), NEW n \in 1..Len(rs)
  PROVE  /\ FirstCheapest(rs, n) \in 1..n
         /\ \A j \in 1..n : rs[FirstCheapest(rs, n)].offer <= rs[j].offer
         /\ \A j \in 1..(FirstCheapest(rs, n) - 1) :
               rs[FirstCheapest(rs, n)].offer < rs[j].offer
<1>1. \A i \in 1..n : rs[i].offer \in Nat
  BY OffersTyped
<1> DEFINE Offers == {rs[i].offer : i \in 1..n}
<1>2. PICK low \in Offers : \A y \in Offers : low <= y
  <2>1. Offers \in SUBSET Nat /\ rs[1].offer \in Offers
    BY <1>1
  <2> HIDE DEF Offers
  <2> QED BY <2>1, LeastMember
<1>3. \A i \in 1..n : low <= rs[i].offer
  BY <1>2
<1> DEFINE At0 == {i \in 1..n : rs[i].offer = low}
<1>4. PICK k \in At0 : \A i \in At0 : k <= i
  <2>1. At0 \in SUBSET Nat /\ At0 # {}
    BY <1>2
  <2> HIDE DEF At0
  <2> QED BY <2>1, LeastMember
<1>5. /\ k \in 1..n /\ \A j \in 1..n : rs[k].offer <= rs[j].offer
      /\ \A j \in 1..(k - 1) : rs[k].offer < rs[j].offer
  BY <1>1, <1>3, <1>4
<1> QED BY <1>5 DEF FirstCheapest

\* It has only one.
LEMMA FirstCheapestUnique ==
  ASSUME NEW rs \in Seq(Summary), NEW n \in 1..Len(rs), NEW i \in 1..n,
         \A j \in 1..n : rs[i].offer <= rs[j].offer,
         \A j \in 1..(i - 1) : rs[i].offer < rs[j].offer
  PROVE  FirstCheapest(rs, n) = i
<1> DEFINE k == FirstCheapest(rs, n)
<1>1. /\ k \in 1..n /\ \A j \in 1..n : rs[k].offer <= rs[j].offer
      /\ \A j \in 1..(k - 1) : rs[k].offer < rs[j].offer
  BY FirstCheapestExists
<1>2. \A j \in 1..n : rs[j].offer \in Nat
  BY OffersTyped
<1> HIDE DEF k
<1>3. ~(k < i) /\ ~(i < k)
  BY <1>1, <1>2
<1> QED BY <1>1, <1>3 DEF k

\* The fold of selectWinner finds it.
LEMMA CheapestIsCheapest ==
  ASSUME NEW rs \in Seq(Summary), Len(rs) > 0
  PROVE  /\ \E i \in 1..Len(rs) : rs[i] = Cheapest(rs)
         /\ \A i \in 1..Len(rs) : Cheapest(rs).offer <= rs[i].offer
<1> DEFINE F(f) == [n \in 1..Len(rs) |->
                      IF n = 1 THEN rs[1]
                      ELSE IF rs[n].offer < f[n - 1].offer THEN rs[n]
                      ELSE f[n - 1]]
           pick == CHOOSE f : f = F(f)
           g == [n \in 1..Len(rs) |-> rs[FirstCheapest(rs, n)]]
<1>1. Cheapest(rs) = pick[Len(rs)]
  BY DEF Cheapest
<1>2. \A n \in 1..Len(rs) : g[n] = IF n = 1 THEN rs[1]
                      ELSE IF rs[n].offer < g[n - 1].offer THEN rs[n]
                      ELSE g[n - 1]
  <2> SUFFICES ASSUME NEW n \in 1..Len(rs)
               PROVE  g[n] = IF n = 1 THEN rs[1]
                      ELSE IF rs[n].offer < g[n - 1].offer THEN rs[n]
                      ELSE g[n - 1]
    OBVIOUS
  <2>0. Len(rs) \in Nat /\ \A i \in 1..Len(rs) : rs[i].offer \in Nat
    BY OffersTyped
  <2>1. CASE n = 1
    <3>1. FirstCheapest(rs, 1) \in 1..1
      BY <2>1, FirstCheapestExists
    <3> QED BY <2>1, <3>1
  <2>2. CASE n # 1
    <3> DEFINE k == FirstCheapest(rs, n - 1)
    <3>1. n - 1 \in 1..Len(rs) /\ n - 1 < n
      BY <2>2
    <3>2. /\ k \in 1..(n - 1)
          /\ \A j \in 1..(n - 1) : rs[k].offer <= rs[j].offer
          /\ \A j \in 1..(k - 1) : rs[k].offer < rs[j].offer
      BY <3>1, FirstCheapestExists
    <3>3. g[n - 1] = rs[k] /\ g[n] = rs[FirstCheapest(rs, n)]
      BY <3>1
    <3> HIDE DEF k, g
    <3>4. CASE rs[n].offer < rs[k].offer
      <4>1. /\ \A j \in 1..n : rs[n].offer <= rs[j].offer
            /\ \A j \in 1..(n - 1) : rs[n].offer < rs[j].offer
        <5>1. \A j \in 1..(n - 1) : rs[n].offer < rs[j].offer
          BY <2>0, <3>2, <3>4
        <5>2. rs[n].offer <= rs[n].offer
          BY <2>0
        <5> QED BY <5>1, <5>2, <2>0
      <4>2. FirstCheapest(rs, n) = n
        BY <4>1, FirstCheapestUnique
      <4> QED BY <2>2, <3>3, <3>4, <4>2
    <3>5. CASE ~(rs[n].offer < rs[k].offer)
      <4>1. k \in 1..n /\ \A j \in 1..n : rs[k].offer <= rs[j].offer
        BY <2>0, <3>1, <3>2, <3>5
      <4>2. FirstCheapest(rs, n) = k
        BY <3>2, <4>1, FirstCheapestUnique
      <4> QED BY <2>2, <3>3, <3>5, <4>2
    <3> QED BY <3>4, <3>5
  <2> QED BY <2>1, <2>2
<1>3. g = F(g)
  <2>1. g = [n \in 1..Len(rs) |-> g[n]]
    OBVIOUS
  <2> HIDE DEF g
  <2> QED BY <1>2, <2>1
<1>4. pick = F(pick)
  <2> HIDE DEF g, F
  <2> QED BY <1>3
<1>5. \A n \in 1..Len(rs) : pick[n] = g[n]
  <2> DEFINE Bad == {n \in 1..Len(rs) : pick[n] # g[n]}
  <2> SUFFICES ASSUME Bad # {} PROVE FALSE
    OBVIOUS
  <2>1. PICK n \in Bad : \A m \in Bad : n <= m
    <3>1. Bad \in SUBSET Nat
      OBVIOUS
    <3> HIDE DEF Bad
    <3> QED BY <3>1, LeastMember
  <2>2. pick[n] = IF n = 1 THEN rs[1]
                  ELSE IF rs[n].offer < pick[n - 1].offer THEN rs[n]
                  ELSE pick[n - 1]
    <3> HIDE DEF pick
    <3> QED BY <1>4, <2>1
  <2> HIDE DEF pick, g
  <2>3. n # 1 => pick[n - 1] = g[n - 1]
    BY <2>1
  <2> QED BY <1>2, <2>1, <2>2, <2>3
<1>6. Len(rs) \in 1..Len(rs)
  OBVIOUS
<1>7. Cheapest(rs) = rs[FirstCheapest(rs, Len(rs))]
  <2>1. g[Len(rs)] = rs[FirstCheapest(rs, Len(rs))]
    BY <1>6
  <2> HIDE DEF pick, g
  <2> QED BY <1>1, <1>5, <1>6, <2>1
<1> QED BY <1>6, <1>7, FirstCheapestExists

-----------------------------------------------------------------------------
(* The parallel call and its goroutines.                                   *)

BatchTypeOK ==
    /\ phase \in {"creating", "running", "failed", "answered"}
    /\ ids \in Seq(Sessions)
    /\ pending \subseteq Sessions
    /\ results \in Seq(Summary)

\* The sessions of the request.
Batch == {ids[i] : i \in 1..Len(ids)}

Reported == {results[i].session : i \in 1..Len(results)}

Parallel(w) == call[w].kind = "parallel"

\* Every session of the request is another one.
IdsInv ==
    /\ Batch \subseteq minted
    /\ \A i, j \in 1..Len(ids) : ids[i] = ids[j] => i = j
    /\ phase \in {"running", "answered"} => Len(ids) = BatchSize

\* No session of the request is worked on twice: it waits for its goroutine,
\* has one, or is reported by it, and never two of these.
OnceInv ==
    /\ pending \subseteq Batch
    /\ \A w \in Workers : Parallel(w) => call[w].session \in Batch \ pending
    /\ \A u, w \in Workers :
          u # w /\ Parallel(u) /\ Parallel(w) =>
             call[u].session # call[w].session
    /\ \A i \in 1..Len(results) :
          /\ results[i].session \in Batch \ pending
          /\ \A w \in Workers : Parallel(w) =>
                results[i].session # call[w].session
          /\ \A j \in 1..Len(results) :
                results[i].session = results[j].session => i = j

\* Unless something has failed no session is lost either.
NoneLost ==
    (phase = "running" /\ ~failed) \/ phase = "answered" =>
        \A s \in Batch : \/ s \in pending
                         \/ \E w \in Workers : Parallel(w) /\ call[w].session = s
                         \/ s \in Reported

PhaseInv ==
    /\ phase = "creating" => /\ pending = {} /\ results = <<>>
                             /\ \A w \in Workers : ~Parallel(w)
    /\ phase = "answered" => /\ pending = {} /\ winner = Cheapest(results)
                             /\ \A w \in Workers : ~Parallel(w)

\* A result is that of a parallel run whose goroutine has returned.
ResultsInv ==
    \A i \in 1..Len(results) : \E r \in ran :
        /\ r.kind = "parallel"
        /\ r.session = results[i].session
        /\ FinalOffer(r.terms) = results[i].offer
        /\ \A w \in Workers : call[w].id # r.call

BatchInv == /\ BatchTypeOK /\ IdsInv /\ OnceInv /\ NoneLost
            /\ PhaseInv /\ ResultsInv

\* The goroutines of the parallel call are those they were.
SameParallel ==
    \A w \in Workers :
        /\ call'[w].kind = "parallel" <=> call[w].kind = "parallel"
        /\ call[w].kind = "parallel" => call'[w].session = call[w].session

\* The store calls leave the goroutines of the parallel call in their stage.
LEMMA OthersKeepParallel ==
  ASSUME TypeOK, CallInv, RanInv, RowInv, KindInv, NextWithoutCrash
  PROVE  SameParallel
<1>1. CASE call' = call
  BY <1>1 DEF SameParallel
<1>2. \A w \in Workers : call[w].pc = "idle" => call[w].kind = "none"
  BY DEF CallInv, Idle
<1>3. ASSUME NEW w \in Workers, NEW s \in Sessions, NEW threshold \in Thresholds,
             StartRun(w, "run", s, threshold)
      PROVE  SameParallel
  <2>1. /\ call[w].pc = "idle" /\ call'[w].kind = "run"
        /\ \A u \in Workers \ {w} : call'[u] = call[u]
    BY <1>3, Begun DEF StartRun
  <2> QED BY <1>2, <2>1 DEF SameParallel
<1>4. ASSUME NEW w \in Workers, NEW s \in Sessions, NEW draft \in Drafts,
             StartNegotiate(w, s, draft)
      PROVE  SameParallel
  <2>1. /\ call[w].pc = "idle" /\ call'[w].kind = "a2a"
        /\ \A u \in Workers \ {w} : call'[u] = call[u]
    BY <1>4, Begun DEF StartNegotiate
  <2> QED BY <1>2, <2>1 DEF SameParallel
<1>5. ASSUME NEW w \in Workers, Step(w)
      PROVE  SameParallel
  <2>1. Moves(w)
    BY <1>5, StepMoves
  <2>2. call[w].pc # "report"
    BY <1>5 DEF Step, At, RecordOutcome, SaveSession, UpdateSession,
       SaveRounds, SaveDealOutcome, ReadReputation, UpsertReputation,
       ReadStreak, UpsertStreak, AwardBadges
  <2>3. call[w].kind = "parallel" => call'[w].pc # "idle"
    BY <2>1, <2>2 DEF Moves, Follows, KindInv, SavesDeal
  <2> QED BY <2>1, <2>3 DEF Moves, SameParallel, Idle
<1> QED BY <1>1, <1>3, <1>4, <1>5
        DEF NextWithoutCrash, CreateSession, QueryPrice, RefuseNegotiate

\* The history of runs only grows, and ends of calls only free their runs.
LEMMA ResultsStay ==
  ASSUME TypeOK, CallInv, RanInv, RowInv, StoreStep, NEW r \in ran,
         \A w \in Workers : call[w].id # r.call
  PROVE  r \in ran' /\ \A w \in Workers : call'[w].id # r.call
<1>1. r \in ran'
  BY NextRan
<1>2. r.call # 0 /\ Idle.id = 0
  BY DEF TypeOK, Run, CallIds, Idle
<1>3. CASE Quiet
  BY <1>3 DEF Quiet
<1>4. ASSUME NEW w \in Workers, NEW kind, NEW s, NEW t, NEW pc,
             Begin(w, kind, s, t, pc)
      PROVE  \A u \in Workers : call'[u].id # r.call
  BY <1>4, Begun
<1>5. ASSUME NEW w \in Workers, Step(w) \/ Returns(w)
      PROVE  \A u \in Workers : call'[u].id # r.call
  BY <1>2, <1>5, StepMoves DEF Moves
<1>6. CASE Crash
  BY <1>1, <1>2, <1>6 DEF Crash
<1> QED BY <1>1, <1>3, <1>4, <1>5, <1>6, StepKinds DEF StartRun, StartNegotiate

\* A step that touches neither the batch nor its goroutines keeps BatchInv.
LEMMA SameBatch ==
  ASSUME BatchTypeOK, IdsInv, OnceInv, NoneLost, PhaseInv, SameParallel,
         UNCHANGED batch, minted \subseteq minted'
  PROVE  /\ BatchTypeOK' /\ IdsInv' /\ OnceInv' /\ NoneLost' /\ PhaseInv'
<1> USE DEF batch
<1>1. BatchTypeOK'
  BY DEF BatchTypeOK
<1>2. Batch' = Batch /\ Reported' = Reported
  BY DEF Batch, Reported
<1>3. IdsInv'
  BY <1>2 DEF IdsInv
<1>4. OnceInv'
  BY <1>2 DEF OnceInv, SameParallel, Parallel
<1>5. NoneLost'
  BY <1>2 DEF NoneLost, SameParallel, Parallel
<1>6. PhaseInv'
  BY DEF PhaseInv, SameParallel, Parallel, Cheapest
<1> QED BY <1>1, <1>3, <1>4, <1>5, <1>6

\* The store calls of a batch keep BatchInv.
LEMMA StoreNextBatch ==
  ASSUME TypeOK, CallInv, RanInv, RowInv, BatchInv,
         NEW s \in Sessions, NEW draft \in Drafts, StoreNext(s, draft)
  PROVE  /\ BatchTypeOK' /\ IdsInv' /\ OnceInv' /\ NoneLost' /\ PhaseInv'
<1>1. /\ phase = "creating" /\ s \notin minted /\ minted' = minted \cup {s}
      /\ call' = call /\ pending' = pending /\ results' = results
      /\ pending = {} /\ results = <<>> /\ \A w \in Workers : ~Parallel(w)
  BY DEF StoreNext, Mint, BatchInv, PhaseInv
<1>2. ids \in Seq(Sessions) /\ Batch \subseteq minted
      /\ \A i, j \in 1..Len(ids) : ids[i] = ids[j] => i = j
  BY DEF BatchInv, BatchTypeOK, IdsInv
<1>3. CASE ids' = ids /\ phase' = "failed"
  <2>1. Batch' = Batch
    BY <1>3 DEF Batch
  <2>2. BatchTypeOK' /\ IdsInv'
    BY <1>1, <1>3, <2>1 DEF BatchInv, BatchTypeOK, IdsInv
  <2>3. OnceInv'
    BY <1>1, <1>3, <2>1 DEF BatchInv, OnceInv, Parallel
  <2>4. NoneLost' /\ PhaseInv'
    BY <1>3 DEF NoneLost, PhaseInv
  <2> QED BY <2>2, <2>3, <2>4
<1>4. CASE ids' = Append(ids, s) /\ phase' = "creating"
  <2>1. /\ ids' \in Seq(Sessions) /\ Len(ids') = Len(ids) + 1
        /\ Len(ids) \in Nat
        /\ \A i \in 1..Len(ids) : ids'[i] = ids[i]
        /\ ids'[Len(ids) + 1] = s
    BY <1>2, <1>4
  <2>2. \A i \in 1..Len(ids) : ids[i] # s
    BY <1>1, <1>2 DEF Batch
  <2>3. \A i \in 1..Len(ids') : i \in 1..Len(ids) \/ i = Len(ids) + 1
    BY <2>1
  <2>4. \A i, j \in 1..Len(ids') : ids'[i] = ids'[j] => i = j
    BY <1>2, <2>1, <2>2, <2>3
  <2>5. Batch' \subseteq Batch \cup {s}
    BY <2>1, <2>3 DEF Batch
  <2>6. BatchTypeOK' /\ IdsInv'
    BY <1>1, <1>2, <1>4, <2>1, <2>4, <2>5
       DEF BatchInv, BatchTypeOK, IdsInv
  <2>7. \A w \in Workers : call'[w].kind # "parallel"
    BY <1>1 DEF Parallel
  <2>8. Len(results') = 0 /\ pending' = {}
    BY <1>1
  <2>9. OnceInv'
    BY <2>7, <2>8 DEF OnceInv, Parallel
  <2>10. NoneLost' /\ PhaseInv'
    BY <1>1, <1>4, <2>7 DEF NoneLost, PhaseInv, Parallel
  <2> QED BY <2>6, <2>9, <2>10
<1> QED BY <1>1, <1>3, <1>4 DEF StoreNext

\* All sessions of the batch become pending when it is launched.
LEMMA LaunchBatch ==
  ASSUME BatchInv, Launch
  PROVE  /\ BatchTypeOK' /\ IdsInv' /\ OnceInv' /\ NoneLost' /\ PhaseInv'
<1>1. /\ phase = "creating" /\ Len(ids) = BatchSize /\ phase' = "running"
      /\ pending' = Batch
      /\ UNCHANGED <<call, minted, ids, results, failed, winner>>
  BY DEF Launch, Batch, vars, history
<1>2. results = <<>> /\ \A w \in Workers : ~Parallel(w)
  BY <1>1 DEF BatchInv, PhaseInv
<1>3. Batch' = Batch /\ Batch \subseteq Sessions
  BY <1>1 DEF Batch, BatchInv, BatchTypeOK
<1>4. BatchTypeOK' /\ IdsInv'
  BY <1>1, <1>3 DEF BatchInv, BatchTypeOK, IdsInv
<1>5. OnceInv'
  <2>1. Len(results') = 0
    BY <1>1, <1>2
  <2> QED BY <1>1, <1>2, <1>3, <2>1 DEF OnceInv, Parallel
<1>6. NoneLost' /\ PhaseInv'
  BY <1>1, <1>3 DEF NoneLost, PhaseInv
<1> QED BY <1>4, <1>5, <1>6

\* A goroutine that loads its session takes it from the pending ones.
LEMMA LoadBatch ==
  ASSUME TypeOK, CallInv, RanInv, RowInv, BatchInv,
         NEW w \in Workers, NEW s \in Sessions, Load(w, s)
  PROVE  /\ BatchTypeOK' /\ IdsInv' /\ OnceInv' /\ NoneLost' /\ PhaseInv'
<1>1. /\ phase = "running" /\ s \in pending /\ pending' = pending \ {s}
      /\ UNCHANGED <<phase, ids, results, failed, winner, minted>>
  BY DEF Load, StartRun
<1>2. /\ call[w].pc = "idle" /\ call'[w].kind = "parallel"
      /\ call'[w].session = s
      /\ \A u \in Workers \ {w} : call'[u] = call[u]
  BY Begun DEF Load, StartRun
<1>3. Batch' = Batch /\ Reported' = Reported
  BY <1>1 DEF Batch, Reported
<1>4. ~Parallel(w)
  BY <1>2 DEF CallInv, Parallel, Idle
<1>5. BatchTypeOK' /\ IdsInv'
  BY <1>1, <1>3 DEF BatchInv, BatchTypeOK, IdsInv
<1>6. OnceInv'
  <2>1. \A u \in Workers : Parallel(u)' =>
           \/ u = w /\ call'[u].session = s
           \/ u # w /\ Parallel(u) /\ call'[u] = call[u]
    BY <1>2 DEF Parallel
  <2>2. /\ pending' \subseteq Batch'
        /\ \A u \in Workers : Parallel(u)' =>
              call'[u].session \in Batch' \ pending'
    BY <1>1, <1>3, <2>1 DEF BatchInv, OnceInv
  <2>3. \A u, x \in Workers : u # x /\ Parallel(u)' /\ Parallel(x)' =>
           call'[u].session # call'[x].session
    BY <1>1, <2>1 DEF BatchInv, OnceInv
  <2>4. \A i \in 1..Len(results') :
           /\ results'[i].session \in Batch' \ pending'
           /\ \A u \in Workers : Parallel(u)' =>
                 results'[i].session # call'[u].session
           /\ \A j \in 1..Len(results') :
                 results'[i].session = results'[j].session => i = j
    BY <1>1, <1>3, <2>1 DEF BatchInv, OnceInv
  <2> QED BY <2>2, <2>3, <2>4 DEF OnceInv, Parallel
<1>7. NoneLost'
  BY <1>1, <1>2, <1>3, <1>4 DEF BatchInv, NoneLost, Parallel
<1>8. PhaseInv'
  BY <1>1 DEF PhaseInv
<1> QED BY <1>5, <1>6, <1>7, <1>8

\* A goroutine that reports adds its session to the results, once.
LEMMA ReportBatch ==
  ASSUME TypeOK, CallInv, RanInv, RowInv, KindInv, BatchInv,
         NEW w \in Workers, Report(w)
  PROVE  /\ BatchTypeOK' /\ IdsInv' /\ OnceInv' /\ NoneLost' /\ PhaseInv'
<1> DEFINE new == [session |-> call[w].session,
                   offer |-> FinalOffer(call[w].terms),
                   rounds |-> RoundsComplete(call[w].terms)]
<1>1. /\ call[w].pc = "report" /\ Parallel(w)
      /\ results' = Append(results, new)
      /\ UNCHANGED <<phase, ids, pending, failed, winner, minted>>
  BY DEF Report, At, KindInv, Parallel, history
<1>2. call'[w] = Idle /\ \A u \in Workers \ {w} : call'[u] = call[u]
  BY DEF Report, Return, TypeOK
<1>3. call[w].session \in Sessions /\ call[w].terms \in Terms
  BY <1>1, Busy
<1>4. new \in Summary /\ new.session = call[w].session
  BY <1>3, ResultBounds DEF Summary
<1> HIDE DEF new
<1>5. results \in Seq(Summary)
  BY DEF BatchInv, BatchTypeOK
<1>6. /\ results' \in Seq(Summary) /\ Len(results') = Len(results) + 1
      /\ Len(results) \in Nat
      /\ \A i \in 1..Len(results) : results'[i] = results[i]
      /\ results'[Len(results) + 1] = new
  BY <1>1, <1>4, <1>5
<1>7. \A i \in 1..Len(results') : i \in 1..Len(results) \/ i = Len(results) + 1
  BY <1>6
<1>8. Batch' = Batch
  BY <1>1 DEF Batch
<1>9. BatchTypeOK' /\ IdsInv'
  BY <1>1, <1>6, <1>8 DEF BatchInv, BatchTypeOK, IdsInv
<1>10. \A u \in Workers : Parallel(u)' =>
          u # w /\ Parallel(u) /\ call'[u] = call[u]
  BY <1>2 DEF Parallel, Idle
<1>11. OnceInv'
  <2>1. /\ pending' \subseteq Batch'
        /\ \A u \in Workers : Parallel(u)' =>
              call'[u].session \in Batch' \ pending'
        /\ \A u, x \in Workers : u # x /\ Parallel(u)' /\ Parallel(x)' =>
              call'[u].session # call'[x].session
    BY <1>1, <1>8, <1>10 DEF BatchInv, OnceInv
  <2>2. /\ call[w].session \in Batch \ pending
        /\ \A u \in Workers \ {w} : Parallel(u) =>
              call[u].session # call[w].session
        /\ \A i \in 1..Len(results) : results[i].session # call[w].session
    BY <1>1 DEF BatchInv, OnceInv
  <2>3. \A i \in 1..Len(results) :
           /\ results[i].session \in Batch \ pending
           /\ \A u \in Workers : Parallel(u) =>
                 results[i].session # call[u].session
           /\ \A j \in 1..Len(results) :
                 results[i].session = results[j].session => i = j
    BY DEF BatchInv, OnceInv
  <2>4. \A i \in 1..Len(results') :
           /\ results'[i].session \in Batch' \ pending'
           /\ \A u \in Workers : Parallel(u)' =>
                 results'[i].session # call'[u].session
           /\ \A j \in 1..Len(results') :
                 results'[i].session = results'[j].session => i = j
    BY <1>1, <1>4, <1>6, <1>7, <1>8, <1>10, <2>2, <2>3
  <2> QED BY <2>1, <2>4 DEF OnceInv, Parallel
<1>12. NoneLost'
  <2>1. /\ call[w].session \in Reported'
        /\ \A s \in Reported : s \in Reported'
    <3>1. Len(results) + 1 \in 1..Len(results')
          /\ \A i \in 1..Len(results) : i \in 1..Len(results')
      BY <1>6
    <3> QED BY <1>4, <1>6, <3>1 DEF Reported
  <2>2. \A u \in Workers : Parallel(u) =>
           u = w \/ (Parallel(u)' /\ call'[u].session = call[u].session)
    BY <1>2 DEF Parallel
  <2> QED BY <1>1, <1>8, <2>1, <2>2 DEF BatchInv, NoneLost, Parallel
<1>13. PhaseInv'
  BY <1>1 DEF BatchInv, PhaseInv
<1> QED BY <1>9, <1>11, <1>12, <1>13

\* The parts of BatchInv about ids and phases are inductive.
LEMMA NextBatch ==
  ASSUME TypeOK, CallInv, RanInv, RowInv, KindInv, BatchInv, [PNext]_pvars
  PROVE  /\ BatchTypeOK' /\ IdsInv' /\ OnceInv' /\ NoneLost' /\ PhaseInv'
<1>0. BatchTypeOK /\ IdsInv /\ OnceInv /\ NoneLost /\ PhaseInv
  BY DEF BatchInv
<1>1. CASE UNCHANGED pvars
  <2>1. SameParallel /\ minted' = minted /\ UNCHANGED batch
    BY <1>1 DEF pvars, vars, history, SameParallel
  <2> QED BY <1>0, <2>1, SameBatch
<1>2. CASE NextWithoutCrash /\ UNCHANGED batch
  <2>1. SameParallel
    BY <1>2, OthersKeepParallel
  <2>2. minted \subseteq minted'
    BY <1>2, StepKeepsRan DEF NextWithoutCrash, CreateSession, QueryPrice, Mint,
       StartRun, StartNegotiate, RefuseNegotiate
  <2> QED BY <1>0, <1>2, <2>1, <2>2, SameBatch
<1>3. ASSUME NEW s \in Sessions, LoadFails(s)
      PROVE  /\ BatchTypeOK' /\ IdsInv' /\ OnceInv' /\ NoneLost' /\ PhaseInv'
  <2>1. /\ phase = "running" /\ pending' = pending \ {s} /\ failed' = TRUE
        /\ UNCHANGED <<phase, ids, results, winner, minted, call>>
    BY <1>3 DEF LoadFails, history
  <2>2. Batch' = Batch
    BY <2>1 DEF Batch
  <2>3. BatchTypeOK' /\ IdsInv'
    BY <1>0, <2>1, <2>2 DEF BatchTypeOK, IdsInv
  <2>4. OnceInv'
    BY <1>0, <2>1, <2>2 DEF OnceInv, Parallel
  <2>5. NoneLost' /\ PhaseInv'
    BY <2>1 DEF NoneLost, PhaseInv
  <2> QED BY <2>3, <2>4, <2>5
<1>4. CASE Answer
  <2>1. /\ phase = "running" /\ pending = {} /\ \A w \in Workers : ~Parallel(w)
        /\ phase' \in {"failed", "answered"}
        /\ phase' = "answered" => ~failed /\ winner' = Cheapest(results)
        /\ UNCHANGED <<ids, pending, results, failed, minted, call>>
    BY <1>4 DEF Answer, vars, history, Parallel
  <2>2. Batch' = Batch /\ Reported' = Reported
    BY <2>1 DEF Batch, Reported
  <2>3. BatchTypeOK' /\ IdsInv'
    BY <1>0, <2>1, <2>2 DEF BatchTypeOK, IdsInv
  <2>4. OnceInv'
    BY <1>0, <2>1, <2>2 DEF OnceInv, Parallel
  <2>5. NoneLost'
    BY <1>0, <2>1, <2>2 DEF NoneLost, Parallel
  <2>6. PhaseInv'
    BY <2>1 DEF PhaseInv, Parallel, Cheapest
  <2> QED BY <2>3, <2>4, <2>5, <2>6
<1>5. CASE PCrash
  <2>1. /\ phase' = IF phase = "answered" THEN phase ELSE "failed"
        /\ \A w \in Workers : call'[w] = Idle
        /\ UNCHANGED <<ids, pending, results, failed, winner, minted>>
    BY <1>5 DEF PCrash, Crash, history
  <2>2. \A w \in Workers : call'[w].kind # "parallel"
    BY <2>1 DEF Idle
  <2>3. Batch' = Batch /\ Reported' = Reported
    BY <2>1 DEF Batch, Reported
  <2>4. BatchTypeOK' /\ IdsInv'
    BY <1>0, <2>1, <2>3 DEF BatchTypeOK, IdsInv
  <2>5. OnceInv'
    BY <1>0, <2>1, <2>2, <2>3 DEF OnceInv, Parallel
  <2>6. NoneLost'
    BY <1>0, <2>1, <2>2, <2>3 DEF NoneLost, PhaseInv, Parallel
  <2>7. PhaseInv'
    BY <1>0, <2>1, <2>2 DEF PhaseInv, Parallel, Cheapest
  <2> QED BY <2>4, <2>5, <2>6, <2>7
<1> QED BY <1>1, <1>2, <1>3, <1>4, <1>5, StoreNextBatch, LaunchBatch, LoadBatch,
           ReportBatch DEF PNext

\* So is the part about the results.
LEMMA NextResults ==
  ASSUME TypeOK, CallInv, RanInv, RowInv, KindInv, BatchInv, [PNext]_pvars
  PROVE  ResultsInv'
<1>1. StoreStep
  BY EveryStepIsAStoreStep
<1>2. \A i \in 1..Len(results) : \E r \in ran :
         /\ r.kind = "parallel"
         /\ r.session = results[i].session
         /\ FinalOffer(r.terms) = results[i].offer
         /\ \A w \in Workers : call[w].id # r.call
  BY DEF BatchInv, ResultsInv
<1>3. ASSUME NEW i \in 1..Len(results)
      PROVE  \E r \in ran' : /\ r.kind = "parallel"
                             /\ r.session = results[i].session
                             /\ FinalOffer(r.terms) = results[i].offer
                             /\ \A w \in Workers : call'[w].id # r.call
  <2>1. PICK r \in ran : /\ r.kind = "parallel"
                         /\ r.session = results[i].session
                         /\ FinalOffer(r.terms) = results[i].offer
                         /\ \A w \in Workers : call[w].id # r.call
    BY <1>2
  <2>2. r \in ran' /\ \A w \in Workers : call'[w].id # r.call
    BY <1>1, <2>1, ResultsStay
  <2> QED BY <2>1, <2>2
<1>4. CASE results' = results
  BY <1>3, <1>4 DEF ResultsInv, FinalOffer
<1>5. ASSUME NEW w \in Workers, Report(w)
      PROVE  ResultsInv'
  <2> DEFINE new == [session |-> call[w].session,
                     offer |-> FinalOffer(call[w].terms),
                     rounds |-> RoundsComplete(call[w].terms)]
  <2>1. /\ call[w].pc = "report" /\ call[w].kind = "parallel"
        /\ results' = Append(results, new)
        /\ ran' = ran
    BY <1>5 DEF Report, At, KindInv, history
  <2>2. call'[w] = Idle /\ \A u \in Workers \ {w} : call'[u] = call[u]
    BY <1>5 DEF Report, Return, TypeOK
  <2>3. /\ RunOf(call[w]) \in ran /\ call[w].id \in CallIds
        /\ call[w].session \in Sessions /\ call[w].terms \in Terms
    BY <2>1, Busy
  <2>4. PICK r \in ran : r = RunOf(call[w])
    BY <2>3
  <2>5. /\ r.kind = "parallel" /\ r.session = new.session
        /\ FinalOffer(r.terms) = new.offer /\ r.call = call[w].id
    BY <2>1, <2>4 DEF RunOf
  <2>6. \A u \in Workers : call'[u].id # r.call
    <3> SUFFICES ASSUME NEW u \in Workers, call'[u].id = r.call PROVE FALSE
      OBVIOUS
    <3>1. r.call # 0 /\ Idle.id = 0
      BY <2>3, <2>5 DEF CallIds, Idle
    <3>2. u # w /\ call[u].id = call[w].id
      BY <2>2, <2>5, <3>1
    <3>3. call[u] = Idle
      BY <3>2 DEF CallInv
    <3> QED BY <2>5, <3>1, <3>2, <3>3
  <2>7. new \in Summary
    BY <2>3, ResultBounds DEF Summary
  <2> HIDE DEF new
  <2>8. /\ Len(results') = Len(results) + 1 /\ Len(results) \in Nat
        /\ \A i \in 1..Len(results) : results'[i] = results[i]
        /\ results'[Len(results) + 1] = new
    BY <2>1, <2>7 DEF BatchInv, BatchTypeOK
  <2>9. ASSUME NEW i \in 1..Len(results')
        PROVE  \E q \in ran' : /\ q.kind = "parallel"
                               /\ q.session = results'[i].session
                               /\ FinalOffer(q.terms) = results'[i].offer
                               /\ \A u \in Workers : call'[u].id # q.call
    <3>1. CASE i \in 1..Len(results)
      BY <1>3, <2>8, <3>1
    <3>2. CASE i = Len(results) + 1
      BY <2>1, <2>5, <2>6, <2>8, <3>2
    <3> QED BY <2>8, <3>1, <3>2
  <2> QED BY <2>9 DEF ResultsInv, FinalOffer
<1>6. results' = results \/ \E w \in Workers : Report(w)
  BY DEF PNext, StoreNext, Launch, Load, LoadFails, Answer, PCrash, batch, pvars
<1> QED BY <1>4, <1>5, <1>6

\* An answer lists every session of the request once.
LEMMA AnswerIsCheapest ==
  ASSUME BatchInv
  PROVE  WinnerIsCheapest
<1> SUFFICES ASSUME phase = "answered"
             PROVE  /\ Len(results) = BatchSize
                    /\ Reported = Batch
                    /\ \E i \in 1..Len(results) : results[i] = winner
                    /\ \A i \in 1..Len(results) :
                          winner.offer <= results[i].offer
  BY DEF WinnerIsCheapest, Reported, Batch
<1>1. /\ ids \in Seq(Sessions) /\ results \in Seq(Summary)
      /\ Len(ids) = BatchSize /\ winner = Cheapest(results)
      /\ \A i, j \in 1..Len(ids) : ids[i] = ids[j] => i = j
      /\ \A i, j \in 1..Len(results) :
            results[i].session = results[j].session => i = j
  BY DEF BatchInv, BatchTypeOK, IdsInv, OnceInv, PhaseInv
<1>2. Reported = Batch
  <2>1. Reported \subseteq Batch
    BY DEF BatchInv, OnceInv, Reported
  <2>2. Batch \subseteq Reported
    BY DEF BatchInv, NoneLost, PhaseInv
  <2> QED BY <2>1, <2>2
<1>3. Len(ids) \in Nat /\ Len(results) \in Nat
  BY <1>1
<1>4. Cardinality(Batch) = Len(ids)
  <2> DEFINE f == [i \in 1..Len(ids) |-> ids[i]]
  <2>1. f \in Bijection(1..Len(ids), Batch)
    BY <1>1 DEF Batch, Bijection, Injection, Surjection, IsInjective
  <2> HIDE DEF f
  <2>2. ExistsBijection(1..Len(ids), Batch)
    BY <2>1 DEF ExistsBijection
  <2> QED BY <1>3, <2>2, FS_CountingElements
<1>5. Cardinality(Reported) = Len(results)
  <2> DEFINE f == [i \in 1..Len(results) |-> results[i].session]
  <2>1. f \in Bijection(1..Len(results), Reported)
    BY <1>1 DEF Reported, Bijection, Injection, Surjection, IsInjective
  <2> HIDE DEF f
  <2>2. ExistsBijection(1..Len(results), Reported)
    BY <2>1 DEF ExistsBijection
  <2> QED BY <1>3, <2>2, FS_CountingElements
<1>6. Len(results) = BatchSize /\ Len(results) > 0
  BY <1>1, <1>2, <1>4, <1>5, ParallelRunsAssumption
<1> QED BY <1>1, <1>2, <1>6, CheapestIsCheapest

\* The runs behind the results have saved their deals.
LEMMA AnswerHasDeals ==
  ASSUME TypeOK, StageInv, BatchInv
  PROVE  AnswerIsOnRecord
<1> SUFFICES ASSUME faults = 0, NEW i \in 1..Len(results)
             PROVE  /\ sessions[results[i].session].status = "completed"
                    /\ \E d \in dealRows : /\ d.session = results[i].session
                                           /\ d.price = results[i].offer
  BY DEF AnswerIsOnRecord
<1>1. PICK r \in ran : /\ r.kind = "parallel"
                       /\ r.session = results[i].session
                       /\ FinalOffer(r.terms) = results[i].offer
                       /\ \A w \in Workers : call[w].id # r.call
  BY DEF BatchInv, ResultsInv
<1>2. Past(r, ToConclude) /\ Past(r, ToDeal) /\ SavesDeal(r.kind)
  BY <1>1 DEF Past, SavesDeal
<1> DEFINE d == [call |-> r.call, session |-> r.session,
                 price |-> FinalOffer(r.terms)]
<1>3. d \in dealRows /\ sessions[r.session].status = "completed"
  BY <1>2 DEF StageInv
<1>4. d.session = r.session /\ d.price = FinalOffer(r.terms)
  OBVIOUS
<1> HIDE DEF d
<1> QED BY <1>1, <1>3, <1>4

-----------------------------------------------------------------------------
(* The theorems.                                                           *)

Records ==
    /\ KindInv /\ NoRoundsYet /\ RoundsHaveNoGap /\ StageInv
    /\ LoneVendor /\ LoneSession /\ CountInv /\ CountsAll /\ BatchInv

\* Records holds before the first call.
LEMMA InitRecords ==
  ASSUME PInit PROVE Records
<1>1. /\ \A w \in Workers : call[w] = Idle
      /\ ran = {} /\ roundRows = {} /\ minted = {} /\ faults = 0
      /\ phase = "creating" /\ ids = <<>> /\ pending = {} /\ results = <<>>
      /\ \A v \in Vendors : reputation[v] = NoReputation
  BY DEF PInit, Init
<1>2. Idle.pc = "idle" /\ Idle.kind = "none"
  BY DEF Idle
<1>3. KindInv /\ NoRoundsYet /\ RoundsHaveNoGap /\ StageInv
  BY <1>1, <1>2 DEF KindInv, NoRoundsYet, RoundsHaveNoGap, StageInv,
                    ToSave, ToConclude
<1>4. LoneVendor /\ LoneSession
  BY <1>1, <1>2 DEF LoneVendor, LoneSession, SavesDeal
<1>5. \A v : Counted(v) = {}
  BY <1>1 DEF Counted, RunsOn
<1>6. CountInv /\ CountsAll
  <2>1. IsFiniteSet(ran) /\ Cardinality({}) = 0
    BY <1>1, FS_EmptySet
  <2>2. Possible(NoReputation, 0)
    BY DEF Possible, NoReputation
  <2>3. NoReputation.deals = 0
    BY DEF NoReputation
  <2> QED BY <1>1, <1>2, <1>5, <2>1, <2>2, <2>3 DEF CountInv, CountsAll
<1>7. BatchInv
  <2>1. Len(ids) = 0 /\ Len(results) = 0 /\ Batch = {}
        /\ ids \in Seq(Sessions) /\ results \in Seq(Summary)
    BY <1>1 DEF Batch
  <2> QED BY <1>1, <1>2, <2>1 DEF BatchInv, BatchTypeOK, IdsInv, OnceInv,
       NoneLost, PhaseInv, ResultsInv, Parallel
<1> QED BY <1>3, <1>4, <1>6, <1>7 DEF Records

\* Records is inductive.
LEMMA NextRecords ==
  ASSUME Inv, Records, [PNext]_pvars PROVE Records'
<1>1. StoreStep
  BY EveryStepIsAStoreStep
<1>2. TypeOK /\ CallInv /\ RanInv /\ RowInv /\ RoundInv
  BY DEF Inv
<1>3. /\ KindInv /\ NoRoundsYet /\ RoundsHaveNoGap /\ StageInv
      /\ LoneVendor /\ LoneSession /\ CountInv /\ CountsAll /\ BatchInv
  BY DEF Records
<1>4. KindInv' /\ NoRoundsYet' /\ RoundsHaveNoGap' /\ StageInv'
  BY <1>1, <1>2, <1>3, NextKinds, NextNoRoundsYet, NextRoundsHaveNoGap,
     NextStage
<1>5. LoneVendor' /\ LoneSession' /\ CountInv' /\ CountsAll'
  BY <1>1, <1>2, <1>3, NextLoneVendor, NextLoneSession, NextCount,
     NextCountsAll
<1>6. BatchInv'
  BY <1>2, <1>3, NextBatch, NextResults DEF BatchInv
<1> QED BY <1>4, <1>5, <1>6 DEF Records

(***************************************************************************)
(* What the calls have written, row by row, and where the parallel call    *)
(* stands: the inductive invariant on top of that of SessionRunsProofs.    *)
(***************************************************************************)
THEOREM RecordsInvariant == PSpec => [](Inv /\ Records)
<1>1. PInit => Inv /\ Records
  BY InitInv, InitRecords
<1>2. Inv /\ Records /\ [PNext]_pvars => (Inv /\ Records)'
  BY NextInv, NextRecords
<1> QED BY <1>1, <1>2, PTL DEF PSpec

(***************************************************************************)
(* The rounds a run has saved are numbered from 1 without a gap, however   *)
(* many of its inserts (SaveRounds) have worked.                           *)
(***************************************************************************)
THEOREM RoundsHaveNoGapAlways == PSpec => []RoundsHaveNoGap
<1>1. Records => RoundsHaveNoGap
  BY DEF Records
<1> QED BY <1>1, RecordsInvariant, PTL

(***************************************************************************)
(* Without a failed store call, a crash or an overlapping run, the four    *)
(* tables agree about a session whose calls have returned.                 *)
(***************************************************************************)
THEOREM ExactAlways == PSpec => []ExactWhenUndisturbed
<1>1. Inv /\ Records => ExactWhenUndisturbed
  BY UndisturbedIsExact DEF Inv, Records
<1> QED BY <1>1, RecordsInvariant, PTL

(***************************************************************************)
(* The reputation row of a vendor is a possible summary of its deals       *)
(* whatever updates are lost, and counts each of them if none overlapped   *)
(* or failed (UpdateReputation).                                           *)
(***************************************************************************)
THEOREM ReputationIsPlausibleAlways == PSpec => []ReputationIsPlausible
<1>1. Inv /\ Records => ReputationIsPlausible
  BY CountedIsPlausible DEF Inv, Records
<1> QED BY <1>1, RecordsInvariant, PTL

(***************************************************************************)
(* An answered parallel call has one result per session it stored, and its *)
(* winner is one of them with the lowest offer (RunParallel, selectWinner).*)
(***************************************************************************)
THEOREM WinnerIsCheapestAlways == PSpec => []WinnerIsCheapest
<1>1. Records => WinnerIsCheapest
  BY AnswerIsCheapest DEF Records
<1> QED BY <1>1, RecordsInvariant, PTL

(***************************************************************************)
(* As long as no store call has failed, the answer of a parallel call is   *)
(* on record: its sessions are concluded and have the deals it reports.    *)
(***************************************************************************)
THEOREM AnswerIsOnRecordAlways == PSpec => []AnswerIsOnRecord
<1>1. Inv /\ Records => AnswerIsOnRecord
  BY AnswerHasDeals DEF Inv, Records
<1> QED BY <1>1, RecordsInvariant, PTL

-----------------------------------------------------------------------------
(* When the user's streak is counted.                                      *)

\* The steps of the gamification block.
Gamifying == {"streak", "extend", "badges"}

(***************************************************************************)
(* While no store call has failed and the process has not died, no call    *)
(* enters the gamification block, and the user's row is as it was at the   *)
(* start.                                                                  *)
(***************************************************************************)
NothingIsGamified ==
    faults = 0 => /\ streak = NoStreak
                  /\ \A w \in Workers : call[w].pc \notin Gamifying

\* Outside UpsertStreak the row of the default user is left alone.
LEMMA OtherStreak ==
  ASSUME NEW w \in Workers, Step(w) \/ Returns(w), ~UpsertStreak(w)
  PROVE  streak' = streak
  BY DEF Step, Returns, RecordOutcome, SaveSession, UpdateSession,
         SaveRounds, SaveDealOutcome, ReadReputation, UpsertReputation,
         ReadStreak, AwardBadges, records

\* Only a failure of UpdateReputation leads to the gamification block.
LEMMA EntersByFailure ==
  ASSUME TypeOK, NEW w \in Workers, Step(w) \/ Returns(w),
         call[w].pc \notin Gamifying, faults' = faults
  PROVE  call'[w].pc \notin Gamifying
<1>1. faults \in Nat /\ call \in [Workers -> Call]
  BY SessionRunsAssumption DEF TypeOK
<1>2. ~Fails
  BY <1>1 DEF Fails
<1>3. Moves(w) /\ Idle.pc = "idle"
  BY StepMoves DEF Idle
<1>4. CASE ReadReputation(w)
  <2>1. call' = [call EXCEPT ![w].pc = "upsert",
                             ![w].seen = reputation[VendorOf[call[w].session]]]
    BY <1>2, <1>4 DEF ReadReputation
  <2>2. call'[w].pc = "upsert"
    BY <1>1, <2>1 DEF Call
  <2> QED BY <2>2 DEF Gamifying
<1>5. CASE UpsertReputation(w)
  <2>1. call'[w] = Idle
    BY <1>1, <1>2, <1>5 DEF UpsertReputation, Return
  <2> QED BY <1>3, <2>1 DEF Gamifying
<1>6. CASE ~ReadReputation(w) /\ ~UpsertReputation(w)
  <2>1. call[w].pc \notin {"reputation", "upsert"}
    BY <1>6 DEF Step, Returns, At, RecordOutcome, SaveSession, UpdateSession,
                SaveRounds, SaveDealOutcome, ReadStreak, UpsertStreak,
                AwardBadges
  <2> QED BY <1>3, <2>1 DEF Moves, Follows, Gamifying
<1> QED BY <1>4, <1>5, <1>6

\* NothingIsGamified is inductive.
LEMMA NextGamified ==
  ASSUME TypeOK, RanInv, NothingIsGamified, StoreStep
  PROVE  NothingIsGamified'
<1> SUFFICES ASSUME faults' = 0
             PROVE  /\ streak' = NoStreak
                    /\ \A u \in Workers : call'[u].pc \notin Gamifying
  BY DEF NothingIsGamified
<1>1. faults \in Nat
  BY SessionRunsAssumption DEF TypeOK
<1>2. faults = 0 /\ ~Fails
  BY <1>1, FaultsGrow DEF Fails
<1>3. streak = NoStreak /\ \A u \in Workers : call[u].pc \notin Gamifying
  BY <1>2 DEF NothingIsGamified
<1>4. ASSUME UNCHANGED <<streak, call>>
      PROVE  /\ streak' = NoStreak
             /\ \A u \in Workers : call'[u].pc \notin Gamifying
  BY <1>3, <1>4
<1>5. CASE \/ \E s \in Sessions, draft \in Drafts : CreateSession(s, draft)
           \/ \E s \in Sessions : QueryPrice(s)
           \/ RefuseNegotiate \/ Waits
  BY <1>4, <1>5 DEF CreateSession, QueryPrice, RefuseNegotiate, Waits, records
<1>6. ASSUME NEW w \in Workers, NEW kind \in {"run", "parallel"},
             NEW s \in Sessions, NEW threshold \in Nat,
             StartRun(w, kind, s, threshold)
      PROVE  /\ streak' = NoStreak
             /\ \A u \in Workers : call'[u].pc \notin Gamifying
  <2>1. call'[w].pc = "learn" /\ \A u \in Workers \ {w} : call'[u] = call[u]
    BY <1>6, Begun DEF StartRun
  <2>2. streak' = streak
    BY <1>6 DEF StartRun, records
  <2> QED BY <1>3, <2>1, <2>2 DEF Gamifying
<1>7. ASSUME NEW w \in Workers, NEW s \in Sessions, NEW draft \in Drafts,
             StartNegotiate(w, s, draft)
      PROVE  /\ streak' = NoStreak
             /\ \A u \in Workers : call'[u].pc \notin Gamifying
  <2>1. call'[w].pc = "save" /\ \A u \in Workers \ {w} : call'[u] = call[u]
    BY <1>7, Begun DEF StartNegotiate
  <2>2. streak' = streak
    BY <1>7 DEF StartNegotiate, records
  <2> QED BY <1>3, <2>1, <2>2 DEF Gamifying
<1>8. ASSUME NEW w \in Workers, Step(w) \/ Returns(w)
      PROVE  /\ streak' = NoStreak
             /\ \A u \in Workers : call'[u].pc \notin Gamifying
  <2>1. ~UpsertStreak(w)
    BY <1>3 DEF UpsertStreak, At, Gamifying
  <2>2. streak' = streak
    BY <1>8, <2>1, OtherStreak
  <2>3. call'[w].pc \notin Gamifying
    BY <1>2, <1>3, <1>8, EntersByFailure
  <2>4. \A u \in Workers \ {w} : call'[u] = call[u]
    BY <1>8, StepMoves DEF Moves
  <2> QED BY <1>3, <2>2, <2>3, <2>4
<1>9. ~Crash
  BY <1>2 DEF Crash
<1> QED BY <1>5, <1>6, <1>7, <1>8, <1>9 DEF StoreStep

(***************************************************************************)
(* A deal is counted in the user's streak only after something has failed: *)
(* handleRunNegotiation records gamification inside the error branch of    *)
(* UpdateReputation.  The run that refutes SuccessIsGamified shows one     *)
(* successful negotiation that is not counted; this says that none is,     *)
(* however many calls there are and however they interleave.               *)
(***************************************************************************)
THEOREM GamifiedOnlyAfterFailure == PSpec => []NothingIsGamified
<1>1. PInit => NothingIsGamified
  BY DEF PInit, Init, NothingIsGamified, Gamifying, Idle
<1>2. Inv /\ NothingIsGamified /\ [PNext]_pvars => NothingIsGamified'
  <2> SUFFICES ASSUME Inv, NothingIsGamified, [PNext]_pvars
               PROVE  NothingIsGamified'
    OBVIOUS
  <2>1. TypeOK /\ RanInv /\ StoreStep
    BY EveryStepIsAStoreStep DEF Inv
  <2> QED BY <2>1, NextGamified
<1> QED BY <1>1, <1>2, Invariant, PTL DEF PSpec
=============================================================================
