-------------------------- MODULE A2AServerProofs --------------------------
(***************************************************************************)
(* Proofs about A2AServer for any number of mandates, clients and          *)
(* goroutines, any rate and window, and whatever the bounds on the clock   *)
(* and the requests; then about the webhooks and notices of MCA2AServer,   *)
(* for any number of subscribers, events, tries, goroutines and addresses. *)
(***************************************************************************)
EXTENDS MCA2AServer, FiniteSetTheorems, TLAPS

LEMMA InitTypeOK == A2AInit => A2ATypeOK
  BY A2AServerAssumption
  DEF A2AInit, A2ATypeOK, NoWindow, Waiting, Statuses

LEMMA ReplyNamesMandate ==
  ASSUME A2ATypeOK, NEW r \in Requests, request[r].pc = "reply"
  PROVE  request[r].mandate \in Mandates
<1>1. request[r] \in {Waiting, Handling} \cup Replying
  BY DEF A2ATypeOK
<1>2. Waiting.pc = "idle" /\ Handling.pc = "handle"
  BY DEF Waiting, Handling
<1>3. request[r] \in Replying
  BY <1>1, <1>2
<1> QED BY <1>3 DEF Replying

(***************************************************************************)
(* Type correctness; it includes that no window ever counts more requests  *)
(* than the rate.                                                          *)
(***************************************************************************)
LEMMA NextTypeOK == A2ATypeOK /\ [A2ANext]_a2aVars => A2ATypeOK'
<1> SUFFICES ASSUME A2ATypeOK, [A2ANext]_a2aVars PROVE A2ATypeOK'
  OBVIOUS
<1> USE A2AServerAssumption DEF A2ATypeOK
<1>1. CASE Tick
  BY <1>1 DEF Tick
<1>2. ASSUME NEW c \in Clients, GenerateKey(c) PROVE A2ATypeOK'
  BY <1>2 DEF GenerateKey
<1>3. ASSUME NEW r \in Requests, NEW c \in Clients, Admit(r, c)
      PROVE A2ATypeOK'
  <2>1. visitors' \in [Clients -> [count : 0..Rate, resetAt : Nat]]
    <3>1. CASE Lapsed(visitors[c])
               /\ visitors' = [visitors EXCEPT
                     ![c] = [count |-> 1, resetAt |-> now + Window]]
      BY <3>1
    <3>2. CASE Allows(visitors[c])
               /\ visitors' = [visitors EXCEPT ![c].count = @ + 1]
      <4>1. /\ visitors[c] \in [count : 0..Rate, resetAt : Nat]
            /\ visitors[c].count + 1 \in 0..Rate
        BY <3>2 DEF Allows
      <4> QED BY <3>2, <4>1
    <3> QED BY <1>3, <3>1, <3>2 DEF Admit
  <2>2. granted' \in [Clients -> Seq(Nat)]
    BY <1>3 DEF Admit
  <2> QED BY <1>3, <2>1, <2>2 DEF Admit
<1>4. ASSUME NEW r \in Requests, NEW m \in Mandates,
             NEW initial \in {"pending", "active"}, CreateMandate(r, m, initial)
      PROVE A2ATypeOK'
  BY <1>4 DEF CreateMandate, Finish, Statuses
<1>5. ASSUME NEW r \in Requests, NEW m \in Mandates, SettleMandate(r, m)
      PROVE A2ATypeOK'
  BY <1>5 DEF SettleMandate, Answer, Replying, Statuses
<1>6. ASSUME NEW r \in Requests, NEW m \in Mandates, CancelMandate(r, m)
      PROVE A2ATypeOK'
  BY <1>6 DEF CancelMandate, Answer, Replying, Statuses
<1>7. ASSUME NEW r \in Requests, Decline(r) \/ LoseReply(r) PROVE A2ATypeOK'
  BY <1>7 DEF Decline, LoseReply, Finish
<1>8. ASSUME NEW r \in Requests, Acknowledge(r) PROVE A2ATypeOK'
  <2>1. request[r].mandate \in Mandates
    BY <1>8, ReplyNamesMandate DEF Acknowledge
  <2> QED BY <1>8, <2>1 DEF Acknowledge, Finish
<1>9. CASE ExpireMandates
  BY <1>9 DEF ExpireMandates, Statuses
<1>10. CASE Restart
  BY <1>10 DEF Restart, NoWindow
<1>11. CASE UNCHANGED a2aVars
  BY <1>11 DEF a2aVars
<1> QED BY <1>1, <1>2, <1>3, <1>4, <1>5, <1>6, <1>7, <1>8, <1>9, <1>10, <1>11
        DEF A2ANext

(***************************************************************************)
(* Every column of the model keeps its type, and no window of the limiter  *)
(* ever counts more requests than the rate, whatever the rate.             *)
(***************************************************************************)
THEOREM TypeCorrect == A2ASpec => []A2ATypeOK
  BY InitTypeOK, NextTypeOK, PTL DEF A2ASpec

-----------------------------------------------------------------------------

(***************************************************************************)
(* OneWinner is not inductive: it needs that a mandate somebody was told   *)
(* about is no longer open, or else it could be settled once more.         *)
(***************************************************************************)
ToldIsDecided == \A m \in told : status[m] \in {"settled", "cancelled"}

WinnerInv == A2ATypeOK /\ OneWinner /\ ToldIsDecided

LEMMA InitWinnerInv == A2AInit => WinnerInv
  BY InitTypeOK DEF A2AInit, WinnerInv, OneWinner, ToldIsDecided, Waiting

\* A statement that decides an open mandate for the requester that sent it.
LEMMA DecidingKeepsOneWinner ==
  ASSUME A2ATypeOK, OneWinner, ToldIsDecided,
         NEW r \in Requests, NEW m \in Mandates,
         NEW verdict \in {"settled", "cancelled"},
         request[r].pc = "handle", status[m] \in {"active", "pending"},
         status' = [status EXCEPT ![m] = verdict],
         Answer(r, m, verdict), UNCHANGED told
  PROVE  OneWinner' /\ ToldIsDecided'
<1>1. m \notin told
  BY DEF ToldIsDecided
<1>2. \A q \in Requests : request[q].mandate # m
  <2> SUFFICES ASSUME NEW q \in Requests PROVE request[q].mandate # m
    OBVIOUS
  <2>1. CASE request[q] \in {Waiting, Handling}
    BY <2>1, A2AServerAssumption DEF Waiting, Handling
  <2>2. CASE request[q] \in Replying
    BY <2>2 DEF Replying, OneWinner
  <2> QED BY <2>1, <2>2 DEF A2ATypeOK
<1>3. /\ request' = [request EXCEPT ![r] =
                        [pc |-> "reply", mandate |-> m, verdict |-> verdict]]
      /\ request \in [Requests -> {Waiting, Handling} \cup Replying]
      /\ status \in [Mandates -> Statuses]
      /\ told \subseteq Mandates
  BY DEF Answer, A2ATypeOK
<1>4. ToldIsDecided'
  BY <1>1, <1>3 DEF ToldIsDecided
<1>5. ASSUME NEW q \in Requests, request'[q].pc = "reply"
      PROVE  /\ status'[request'[q].mandate] = request'[q].verdict
             /\ request'[q].mandate \notin told'
             /\ \A p \in Requests \ {q} :
                   request'[p].mandate # request'[q].mandate
  <2>1. CASE q = r
    BY <1>1, <1>2, <1>3, <2>1
  <2>2. CASE q # r
    <3>1. request'[q] = request[q] /\ request[q].mandate \in Mandates
      BY <1>3, <1>5, <2>2 DEF Waiting, Handling, Replying
    <3>2. \A p \in Requests \ {q} : request'[p].mandate # request[q].mandate
      BY <1>2, <1>3, <1>5, <2>2, <3>1 DEF OneWinner
    <3> QED BY <1>2, <1>3, <1>5, <3>1, <3>2 DEF OneWinner
  <2> QED BY <2>1, <2>2
<1> QED BY <1>4, <1>5 DEF OneWinner

\* A goroutine that is done, or starts, has no mandate to report.
LEMMA FinishingKeepsOneWinner ==
  ASSUME A2ATypeOK, OneWinner, UNCHANGED <<status, told>>,
         NEW r \in Requests, NEW new \in {Waiting, Handling},
         request' = [request EXCEPT ![r] = new]
  PROVE  OneWinner'
<1>1. /\ request \in [Requests -> {Waiting, Handling} \cup Replying]
      /\ new.mandate = NoMandate /\ new.pc # "reply"
  BY DEF A2ATypeOK, Waiting, Handling
<1>2. ASSUME NEW q \in Requests, request'[q].pc = "reply"
      PROVE  /\ status[request'[q].mandate] = request'[q].verdict
             /\ request'[q].mandate \notin told
             /\ \A p \in Requests \ {q} :
                   request'[p].mandate # request'[q].mandate
  <2>1. q # r /\ request'[q] = request[q]
    BY <1>1, <1>2
  <2>2. request[q].mandate \in Mandates
    BY <1>1, <1>2, <2>1 DEF Waiting, Handling, Replying
  <2> QED BY <1>1, <1>2, <2>1, <2>2, A2AServerAssumption DEF OneWinner
<1> QED BY <1>2 DEF OneWinner

LEMMA NextWinnerInv == WinnerInv /\ [A2ANext]_a2aVars => WinnerInv'
<1> SUFFICES ASSUME A2ATypeOK, OneWinner, ToldIsDecided, [A2ANext]_a2aVars
             PROVE  OneWinner' /\ ToldIsDecided'
  BY NextTypeOK DEF WinnerInv
<1>0. /\ request \in [Requests -> {Waiting, Handling} \cup Replying]
      /\ status \in [Mandates -> Statuses]
      /\ told \subseteq Mandates
  BY DEF A2ATypeOK
<1>1. CASE Tick
  BY <1>1 DEF Tick, OneWinner, ToldIsDecided
<1>2. ASSUME NEW c \in Clients, GenerateKey(c)
      PROVE  OneWinner' /\ ToldIsDecided'
  BY <1>2 DEF GenerateKey, OneWinner, ToldIsDecided
<1>3. ASSUME NEW r \in Requests, NEW c \in Clients, Admit(r, c)
      PROVE  OneWinner' /\ ToldIsDecided'
  <2>1. ToldIsDecided'
    BY <1>3 DEF Admit, ToldIsDecided
  <2> QED BY <1>3, <2>1, FinishingKeepsOneWinner DEF Admit
<1>4. ASSUME NEW r \in Requests, NEW m \in Mandates,
             NEW initial \in {"pending", "active"}, CreateMandate(r, m, initial)
      PROVE  OneWinner' /\ ToldIsDecided'
  <2>1. m \notin told
    BY <1>4 DEF CreateMandate, ToldIsDecided
  <2>2. \A q \in Requests : request[q].pc = "reply" => request[q].mandate # m
    <3> SUFFICES ASSUME NEW q \in Requests, request[q].pc = "reply"
                 PROVE  request[q].mandate # m
      OBVIOUS
    <3>1. request[q].verdict \in {"settled", "cancelled"}
      BY <1>0 DEF Waiting, Handling, Replying
    <3>2. status[request[q].mandate] = request[q].verdict
      BY DEF OneWinner
    <3> QED BY <1>4, <3>1, <3>2 DEF CreateMandate
  <2>3. ToldIsDecided'
    BY <1>0, <1>4, <2>1 DEF CreateMandate, ToldIsDecided
  <2>4. ASSUME NEW q \in Requests, request'[q].pc = "reply"
        PROVE  /\ status'[request'[q].mandate] = request'[q].verdict
               /\ request'[q].mandate \notin told
               /\ \A p \in Requests \ {q} :
                     request'[p].mandate # request'[q].mandate
    <3>1. q # r /\ request'[q] = request[q] /\ request'[r] = Waiting
      BY <1>0, <1>4, <2>4 DEF CreateMandate, Finish, Waiting
    <3>2. request[q].mandate \in Mandates \ {m}
      BY <1>0, <2>2, <2>4, <3>1 DEF Waiting, Handling, Replying
    <3>3. \A p \in Requests \ {q} : request'[p].mandate # request[q].mandate
      BY <1>0, <1>4, <2>4, <3>1, <3>2, A2AServerAssumption
      DEF CreateMandate, Finish, Waiting, OneWinner
    <3> QED BY <1>0, <1>4, <2>4, <3>1, <3>2, <3>3 DEF CreateMandate, OneWinner
  <2> QED BY <1>4, <2>3, <2>4 DEF CreateMandate, OneWinner
<1>5. ASSUME NEW r \in Requests, NEW m \in Mandates, SettleMandate(r, m)
      PROVE  OneWinner' /\ ToldIsDecided'
  BY <1>5, DecidingKeepsOneWinner DEF SettleMandate, Settleable
<1>6. ASSUME NEW r \in Requests, NEW m \in Mandates, CancelMandate(r, m)
      PROVE  OneWinner' /\ ToldIsDecided'
  <2>1. status[m] \in {"active", "pending"}
    BY <1>0, <1>6 DEF CancelMandate, Cancellable, Statuses
  <2> QED BY <1>6, <2>1, DecidingKeepsOneWinner DEF CancelMandate
<1>7. ASSUME NEW r \in Requests, Decline(r) \/ LoseReply(r)
      PROVE  OneWinner' /\ ToldIsDecided'
  <2>1. ToldIsDecided'
    BY <1>7 DEF Decline, LoseReply, ToldIsDecided
  <2> QED BY <1>7, <2>1, FinishingKeepsOneWinner DEF Decline, LoseReply, Finish
<1>8. ASSUME NEW r \in Requests, Acknowledge(r)
      PROVE  OneWinner' /\ ToldIsDecided'
  <2> DEFINE won == request[r].mandate
  <2>1. won \in Mandates /\ status[won] \in {"settled", "cancelled"}
    BY <1>0, <1>8 DEF Acknowledge, OneWinner, Waiting, Handling, Replying
  <2>2. ToldIsDecided'
    BY <1>8, <2>1 DEF Acknowledge, ToldIsDecided
  <2>3. ASSUME NEW q \in Requests, request'[q].pc = "reply"
        PROVE  /\ status[request'[q].mandate] = request'[q].verdict
               /\ request'[q].mandate \notin told \cup {won}
               /\ \A p \in Requests \ {q} :
                     request'[p].mandate # request'[q].mandate
    <3>1. q # r /\ request'[q] = request[q] /\ request'[r] = Waiting
      BY <1>0, <1>8, <2>3 DEF Acknowledge, Finish, Waiting
    <3>2. request[q].mandate \in Mandates
      BY <1>0, <2>3, <3>1 DEF Waiting, Handling, Replying
    <3>3. request[q].mandate # won
      BY <2>3, <3>1 DEF OneWinner
    <3>4. \A p \in Requests \ {q} : request'[p].mandate # request[q].mandate
      BY <1>0, <1>8, <2>3, <3>1, <3>2, A2AServerAssumption
      DEF Acknowledge, Finish, Waiting, OneWinner
    <3> QED BY <2>3, <3>1, <3>3, <3>4 DEF OneWinner
  <2> QED BY <1>8, <2>2, <2>3 DEF Acknowledge, OneWinner
<1>9. CASE ExpireMandates
  <2>1. \A m \in Overdue : status[m] \notin {"settled", "cancelled"}
    BY DEF Overdue
  <2>2. ToldIsDecided'
    BY <1>0, <1>9, <2>1 DEF ExpireMandates, ToldIsDecided
  <2>3. \A q \in Requests : request[q].pc = "reply" =>
           request[q].mandate \in Mandates \ Overdue
    BY <1>0, <2>1 DEF OneWinner, Waiting, Handling, Replying
  <2> QED BY <1>0, <1>9, <2>2, <2>3 DEF ExpireMandates, OneWinner
<1>10. CASE Restart
  BY <1>10 DEF Restart, OneWinner, ToldIsDecided, Waiting
<1>11. CASE UNCHANGED a2aVars
  BY <1>11 DEF a2aVars, OneWinner, ToldIsDecided
<1> QED BY <1>1, <1>2, <1>3, <1>4, <1>5, <1>6, <1>7, <1>8, <1>9, <1>10, <1>11
        DEF A2ANext

(***************************************************************************)
(* Of any number of requests racing for a mandate one is told it won, with *)
(* any number of mandates, lost replies and restarts.                      *)
(***************************************************************************)
THEOREM OneWinnerAlways == A2ASpec => []OneWinner
<1>1. A2ASpec => []WinnerInv
  BY InitWinnerInv, NextWinnerInv, PTL DEF A2ASpec
<1> QED BY <1>1, PTL DEF WinnerInv

-----------------------------------------------------------------------------

LEMMA InitRefines == A2AInit => Lifecycle!Init
  BY DEF A2AInit, Lifecycle!Init, decisionBar

\* Every step of the server is a step of the life cycle, or invisible in it.
LEMMA NextRefines ==
  WinnerInv /\ [A2ANext]_a2aVars => [Lifecycle!Next]_(Lifecycle!vars)
<1> SUFFICES ASSUME WinnerInv, [A2ANext]_a2aVars
             PROVE  Lifecycle!Next \/ UNCHANGED <<decisionBar, told>>
  BY DEF Lifecycle!vars
<1> USE DEF Lifecycle!Next, Lifecycle!Verdicts
<1>0. /\ request \in [Requests -> {Waiting, Handling} \cup Replying]
      /\ status \in [Mandates -> Statuses]
  BY DEF WinnerInv, A2ATypeOK
<1>1. CASE UNCHANGED <<status, told>>
  BY <1>1 DEF decisionBar
<1>2. ASSUME NEW r \in Requests, NEW m \in Mandates,
             NEW initial \in {"pending", "active"}, CreateMandate(r, m, initial)
      PROVE  Lifecycle!Next
  <2>1. Lifecycle!Propose(m)
    BY <1>0, <1>2 DEF CreateMandate, Lifecycle!Propose, decisionBar
  <2> QED BY <2>1
<1>3. ASSUME NEW r \in Requests, NEW m \in Mandates, SettleMandate(r, m)
      PROVE  Lifecycle!Next
  <2>1. Lifecycle!Decide(m, "settled")
    BY <1>0, <1>3 DEF SettleMandate, Settleable, Lifecycle!Decide, decisionBar
  <2> QED BY <2>1
<1>4. ASSUME NEW r \in Requests, NEW m \in Mandates, CancelMandate(r, m)
      PROVE  Lifecycle!Next
  <2>1. Lifecycle!Decide(m, "cancelled")
    BY <1>0, <1>4
    DEF CancelMandate, Cancellable, Statuses, Lifecycle!Decide, decisionBar
  <2> QED BY <2>1
<1>5. ASSUME NEW r \in Requests, Acknowledge(r) PROVE Lifecycle!Next
  <2> DEFINE won == request[r].mandate
  <2>1. /\ won \in Mandates /\ won \notin told
        /\ status[won] \in {"settled", "cancelled"}
    BY <1>0, <1>5
    DEF Acknowledge, WinnerInv, OneWinner, Waiting, Handling, Replying
  <2>2. Lifecycle!Tell(won)
    BY <1>5, <2>1 DEF Acknowledge, Lifecycle!Tell, decisionBar
  <2> QED BY <2>1, <2>2
<1>6. CASE ExpireMandates
  <2>1. Overdue \in SUBSET Mandates
    BY DEF Overdue
  <2>2. Lifecycle!Expire(Overdue)
    <3>1. \A m \in Overdue : decisionBar[m] = "open"
      BY DEF Overdue, decisionBar
    <3>2. decisionBar' = [m \in Mandates |-> IF m \in Overdue THEN "cancelled"
                                             ELSE decisionBar[m]]
      BY <1>6 DEF ExpireMandates, decisionBar
    <3> QED BY <1>6, <3>1, <3>2 DEF ExpireMandates, Lifecycle!Expire
  <2> QED BY <2>1, <2>2
<1>7. CASE UNCHANGED a2aVars
  BY <1>1, <1>7 DEF a2aVars
<1> QED BY <1>1, <1>2, <1>3, <1>4, <1>5, <1>6, <1>7
        DEF A2ANext, Tick, GenerateKey, Admit, Decline, LoseReply, Restart

(***************************************************************************)
(* The server implements the abstract life cycle of mandates: a mandate is *)
(* decided once, for good, and at most one requester is told it decided.   *)
(***************************************************************************)
THEOREM Refinement == A2ASpec => DecidedOnce
<1>1. A2ASpec => []WinnerInv
  BY InitWinnerInv, NextWinnerInv, PTL DEF A2ASpec
<1> QED BY <1>1, InitRefines, NextRefines, PTL
        DEF A2ASpec, DecidedOnce, Lifecycle!Spec

-----------------------------------------------------------------------------
(* The burst a client can send.                                            *)

\* The places of a list of times that lie between two moments, inclusive.
Between(g, from, to) == {i \in 1..Len(g) : g[i] \in from..to}

\* The window opened at moment open, by the request at place first.
OpenWindow(open, first, g) ==
    /\ g[first] = open
    /\ \A i \in first..Len(g) : open <= g[i] /\ g[i] <= open + Window
    /\ \A i \in 1..(first - 1) : g[i] < open
    /\ Cardinality(Between(g, open - Window, open - 1)) < Rate

(***************************************************************************)
(* How the times g of the admitted requests lie in the windows at moment   *)
(* n, when the limiter keeps v.  The last v.count of them are in the       *)
(* window it has open, the first of these opened it, and the others came   *)
(* before.  Of those, fewer than the rate lie within the length of one     *)
(* window: the request that opened theirs is out of reach, since a window  *)
(* lapses before the next one opens.                                       *)
(***************************************************************************)
Windowed(v, g, n) ==
    /\ v.count <= Len(g)
    /\ v.count = 0 => Len(g) = 0
    /\ \A i \in 1..Len(g) : g[i] <= n
    /\ v.count # 0 => OpenWindow(v.resetAt - Window, Len(g) - v.count + 1, g)
    /\ \A t \in Int : Cardinality(Between(g, t, t + Window)) < 2 * Rate

\* A set of places within an interval has no more members than the interval.
LEMMA AtMost ==
    ASSUME NEW a \in Int, NEW b \in Int, a <= b + 1, NEW S, S \subseteq a..b
    PROVE  IsFiniteSet(S) /\ Cardinality(S) \in Nat /\ Cardinality(S) <= b - a + 1
<1>1. /\ IsFiniteSet(a..b)
      /\ Cardinality(a..b) = IF a > b THEN 0 ELSE b - a + 1
  BY FS_Interval
<1>2. Cardinality(a..b) = b - a + 1
  BY <1>1
<1>3. IsFiniteSet(S) /\ Cardinality(S) <= Cardinality(a..b)
  BY <1>1, FS_Subset
<1>4. Cardinality(S) \in Nat
  BY <1>3, FS_CardinalityType
<1> QED BY <1>2, <1>3, <1>4

\* The union of two sets has no more members than both together.
LEMMA AtMostBoth ==
    ASSUME NEW S, NEW T, NEW U, IsFiniteSet(S), IsFiniteSet(T), U \subseteq S \cup T
    PROVE  /\ IsFiniteSet(U) /\ Cardinality(U) \in Nat
           /\ Cardinality(U) <= Cardinality(S) + Cardinality(T)
<1>1. /\ IsFiniteSet(S \cup T)
      /\ Cardinality(S \cup T) = Cardinality(S) + Cardinality(T) - Cardinality(S \cap T)
  BY FS_Union
<1>2. IsFiniteSet(S \cap T)
  BY FS_Subset
<1>3. IsFiniteSet(U) /\ Cardinality(U) <= Cardinality(S \cup T)
  BY <1>1, FS_Subset
<1>4. /\ Cardinality(U) \in Nat /\ Cardinality(S \cap T) \in Nat
      /\ Cardinality(S) \in Nat /\ Cardinality(T) \in Nat
  BY <1>2, <1>3, FS_CardinalityType
<1> QED BY <1>1, <1>3, <1>4

\* Only finitely many requests are admitted.
LEMMA BetweenFinite ==
    ASSUME NEW g \in Seq(Nat), NEW from, NEW to
    PROVE  /\ IsFiniteSet(Between(g, from, to))
           /\ Cardinality(Between(g, from, to)) \in Nat
<1>1. Between(g, from, to) \subseteq 1..Len(g) /\ Len(g) \in Nat
  BY DEF Between
<1> QED BY <1>1, AtMost

\* The parameters of the limiter.
LEMMA Limits == Rate \in Nat /\ Rate >= 1 /\ Window \in Nat /\ Window >= 1
BY A2AServerAssumption

\* The list with one more request at moment n.
LEMMA OneMore ==
    ASSUME NEW g \in Seq(Nat), NEW n \in Nat, NEW h, h = Append(g, n)
    PROVE  /\ h \in Seq(Nat) /\ Len(g) \in Nat /\ Len(h) = Len(g) + 1
           /\ h[Len(g) + 1] = n
           /\ \A i \in 1..Len(g) : h[i] = g[i] /\ g[i] \in Nat
OBVIOUS

\* Counting places: the window's requests are the last k.
LEMMA Places ==
    ASSUME NEW first \in Int, NEW last \in Int, NEW k \in Int, first = last - k + 1
    PROVE  /\ last - (first + 1) + 1 = k - 1
           /\ (last + 1) - first + 1 = k + 1
           /\ (last + 1) - (k + 1) + 1 = first
OBVIOUS

\* A request outside a stretch does not count in it.
LEMMA OneMoreBetween ==
    ASSUME NEW g \in Seq(Nat), NEW n \in Nat,
           NEW from \in Int, NEW to \in Int, n < from \/ n > to
    PROVE  Between(Append(g, n), from, to) = Between(g, from, to)
<1>0. PICK h : h = Append(g, n)
  OBVIOUS
<1>1. /\ Len(g) \in Nat /\ Len(h) = Len(g) + 1 /\ h[Len(g) + 1] = n
      /\ \A i \in 1..Len(g) : h[i] = g[i] /\ g[i] \in Nat
  BY <1>0, OneMore
<1>2. n \notin from..to
  OBVIOUS
<1>3. ASSUME NEW i \in 1..Len(h), h[i] \in from..to PROVE i \in 1..Len(g)
  BY <1>1, <1>2, <1>3
<1>4. Between(h, from, to) = {i \in 1..Len(g) : h[i] \in from..to}
  BY <1>1, <1>3 DEF Between
<1> QED BY <1>0, <1>1, <1>4 DEF Between

\* Time passes.
LEMMA LaterWindowed ==
    ASSUME NEW v, NEW g \in Seq(Nat), NEW n \in Nat, NEW m \in Nat, n <= m,
           Windowed(v, g, n)
    PROVE  Windowed(v, g, m)
BY DEF Windowed

\* A process that has just started has admitted nothing.
LEMMA NoneWindowed ==
    ASSUME NEW n \in Nat
    PROVE  Windowed(NoWindow, <<>>, n)
<1>1. Len(<<>>) = 0 /\ \A from, to : Between(<<>>, from, to) = {}
  BY DEF Between
<1> QED BY <1>1, FS_EmptySet, Limits DEF Windowed, NoWindow

\* A request opens a window: those of the last one are all behind it, and the
\* one that opened that is too long ago to count.
LEMMA OpenedWindowed ==
    ASSUME NEW v \in [count : 0..Rate, resetAt : Nat], NEW g \in Seq(Nat), NEW n \in Nat,
           Windowed(v, g, n), v.count = 0 \/ n > v.resetAt
    PROVE  Windowed([count |-> 1, resetAt |-> n + Window], Append(g, n), n)
<1> USE Limits
<1>0. PICK h : h = Append(g, n)
  OBVIOUS
<1>1. PICK last : last = Len(g)
  OBVIOUS
<1>2. PICK open, first : open = v.resetAt - Window /\ first = last - v.count + 1
  OBVIOUS
<1>a. last \in Nat /\ Len(h) = last + 1 /\ h \in Seq(Nat)
  BY <1>0, <1>1, OneMore
<1>b. h[last + 1] = n /\ \A i \in 1..last : h[i] = g[i]
  BY <1>0, <1>1, OneMore
<1>c. \A i \in 1..last : g[i] \in Nat
  BY <1>1
<1>d. v.count \in Nat /\ v.resetAt \in Nat /\ open \in Int /\ first \in Int
      /\ v.count <= Rate
  BY SMTT(30), <1>a, <1>2
<1>e. v.count <= last
  BY <1>1 DEF Windowed
<1>f. v.count = 0 => last = 0
  BY <1>1 DEF Windowed
<1>g. v.count # 0 => OpenWindow(open, first, g)
  BY <1>1, <1>2 DEF Windowed
<1>h. v.count # 0 => n > open + Window
  BY <1>2, <1>d
<1>3. Cardinality(Between(g, n - Window, n - 1)) < Rate /\ \A i \in 1..last : g[i] < n
  <2>1. CASE v.count = 0
    <3>1. Between(g, n - Window, n - 1) = {} /\ last = 0
      BY <1>1, <1>f, <2>1 DEF Between
    <3>2. Cardinality(Between(g, n - Window, n - 1)) = 0
      BY <3>1, FS_EmptySet
    <3> QED BY <3>1, <3>2
  <2>2. CASE v.count # 0
    <3>1. first \in 1..last
      BY SMTT(30), <1>2, <1>a, <1>d, <1>e, <2>2
    <3>2. /\ g[first] = open
          /\ \A i \in first..last : g[i] <= open + Window
          /\ \A i \in 1..(first - 1) : g[i] < open
      BY <1>1, <1>g, <2>2 DEF OpenWindow
    <3>3. open < n - Window /\ open + Window < n /\ open < n
      BY <1>d, <1>h, <2>2
    <3>4. ASSUME NEW i \in 1..last PROVE g[i] < n /\ (i <= first => g[i] < n - Window)
      <4>1. CASE i < first
        <5>1. g[i] < open
          BY <3>1, <3>2, <4>1
        <5> QED BY <1>c, <1>d, <3>3, <5>1
      <4>2. CASE i = first
        BY <1>d, <3>2, <3>3, <4>2
      <4>3. CASE i > first
        <5>1. g[i] <= open + Window
          BY <3>1, <3>2, <4>3
        <5> QED BY <1>c, <1>d, <3>1, <3>3, <4>3, <5>1
      <4> QED BY <3>1, <4>1, <4>2, <4>3
    <3>5. Between(g, n - Window, n - 1) \subseteq (first + 1)..last
      <4>0. Between(g, n - Window, n - 1) \subseteq 1..last
        BY <1>1 DEF Between
      <4> SUFFICES ASSUME NEW i \in Between(g, n - Window, n - 1), i \in 1..last
                   PROVE  i > first
        BY <1>a, <3>1, <4>0
      <4>2. n - Window <= g[i]
        BY DEF Between
      <4>1. g[i] \in Nat /\ (i <= first => g[i] < n - Window)
        BY <1>c, <3>4
      <4> QED BY <3>1, <4>1, <4>2
    <3>6. /\ Cardinality(Between(g, n - Window, n - 1)) <= last - (first + 1) + 1
          /\ Cardinality(Between(g, n - Window, n - 1)) \in Nat
      <4>1. first + 1 \in Int /\ last \in Int /\ first + 1 <= last + 1
        BY <1>a, <3>1
      <4> QED BY <3>5, <4>1, AtMost
    <3>7. last - (first + 1) + 1 < Rate
      <4>1. last - (first + 1) + 1 = v.count - 1
        <5>1. first = last - v.count + 1 /\ last \in Int /\ v.count \in Int
          BY <1>2, <1>a, <1>d
        <5> QED BY SMTT(30), <1>d, <5>1, Places
      <4> QED BY <1>d, <4>1
    <3> HIDE DEF Between
    <3> QED BY <1>a, <3>1, <3>4, <3>6, <3>7
  <2> QED BY <2>1, <2>2
<1>4. Between(h, n - Window, n - 1) = Between(g, n - Window, n - 1)
  <2>1. PICK from, to : from = n - Window /\ to = n - 1
    OBVIOUS
  <2>2. from \in Int /\ to \in Int /\ n > to
    BY <2>1
  <2>3. Between(h, from, to) = Between(g, from, to)
    BY <1>0, <2>2, OneMoreBetween
  <2> QED BY <2>1, <2>3
<1>5. ASSUME NEW t \in Int PROVE Cardinality(Between(h, t, t + Window)) < 2 * Rate
  <2>1. CASE n \notin t..(t + Window)
    <3>1. Between(h, t, t + Window) = Between(g, t, t + Window)
      <4>1. PICK to : to = t + Window
        OBVIOUS
      <4>2. to \in Int /\ (n < t \/ n > to)
        BY <2>1, <4>1
      <4>3. Between(h, t, to) = Between(g, t, to)
        BY <1>0, <4>2, OneMoreBetween
      <4> QED BY <4>1, <4>3
    <3> QED BY <3>1 DEF Windowed
  <2>2. CASE n \in t..(t + Window)
    <3>0. PICK new : new = last + 1
      OBVIOUS
    <3>1. Between(h, t, t + Window) \subseteq Between(g, n - Window, n - 1) \cup (new..new)
      <4> SUFFICES ASSUME NEW i \in Between(h, t, t + Window), i \notin new..new
                   PROVE  i \in Between(g, n - Window, n - 1)
        OBVIOUS
      <4>0. i \in 1..Len(h) /\ h[i] \in t..(t + Window)
        BY DEF Between
      <4>a. i \in 1..(last + 1)
        BY <1>a, <4>0
      <4>1. i \in 1..last
        <5>1. last \in Nat /\ new = last + 1 /\ i \in 1..(last + 1) /\ i \notin new..new
          BY <1>a, <3>0, <4>a
        <5> QED BY ONLY <5>1
      <4>2. g[i] \in Nat /\ g[i] < n /\ g[i] >= t
        BY <1>b, <1>c, <1>3, <4>0, <4>1
      <4>3. g[i] \in (n - Window)..(n - 1)
        BY <2>2, <4>2
      <4> QED BY <1>1, <4>1, <4>3 DEF Between
    <3>2. /\ IsFiniteSet(new..new) /\ Cardinality(new..new) \in Nat
          /\ Cardinality(new..new) <= new - new + 1
      <4>1. new \in Int /\ new <= new + 1
        BY <1>a, <3>0
      <4> QED BY <4>1, AtMost
    <3>3. /\ IsFiniteSet(Between(g, n - Window, n - 1))
          /\ Cardinality(Between(g, n - Window, n - 1)) \in Nat
      BY BetweenFinite
    <3>4. /\ Cardinality(Between(h, t, t + Window))
               <= Cardinality(Between(g, n - Window, n - 1)) + Cardinality(new..new)
          /\ Cardinality(Between(h, t, t + Window)) \in Nat
      BY <3>1, <3>2, <3>3, AtMostBoth
    <3>5. Cardinality(new..new) <= 1
      BY <1>a, <3>0, <3>2
    <3> QED BY <1>3, <3>2, <3>3, <3>4, <3>5
  <2> QED BY <2>1, <2>2
<1>6. OpenWindow(n, last + 1, h)
  <2>1. \A i \in (last + 1)..Len(h) : n <= h[i] /\ h[i] <= n + Window
    BY <1>a, <1>b
  <2>2. Cardinality(Between(h, n - Window, n - 1)) < Rate
    BY <1>3, <1>4
  <2>3. PICK new : new = last + 1
    OBVIOUS
  <2>4. OpenWindow(n, new, h)
    <3>1. h[new] = n
      BY <1>b, <2>3
    <3>2. \A i \in new..Len(h) : n <= h[i] /\ h[i] <= n + Window
      BY <2>1, <2>3
    <3>3. ASSUME NEW i \in 1..(new - 1) PROVE h[i] < n
      <4>1. i \in 1..last
        BY <1>a, <2>3
      <4> QED BY <1>b, <1>3, <4>1
    <3> QED BY <2>2, <3>1, <3>2, <3>3 DEF OpenWindow
  <2> QED BY <2>3, <2>4
<1>7. PICK w : w = [count |-> 1, resetAt |-> n + Window]
  OBVIOUS
<1>8. w.count = 1 /\ w.resetAt - Window = n /\ Len(h) - w.count + 1 = last + 1
  BY <1>a, <1>7
<1>9. w.count <= Len(h) /\ w.count # 0
  BY <1>a, <1>8
<1>10. \A i \in 1..Len(h) : h[i] <= n
  <2> SUFFICES ASSUME NEW i \in 1..(last + 1) PROVE h[i] <= n
    BY <1>a
  <2>1. CASE i = last + 1
    BY <1>b, <2>1
  <2>2. CASE i \in 1..last
    <3>1. h[i] = g[i] /\ g[i] \in Nat /\ g[i] < n
      BY <1>b, <1>c, <1>3, <2>2
    <3> QED BY <3>1
  <2> QED BY <1>a, <2>1, <2>2
<1>11. Windowed(w, h, n)
  BY <1>5, <1>6, <1>8, <1>9, <1>10 DEF Windowed
<1> QED BY <1>0, <1>7, <1>11

\* A request is counted in the open window: a stretch that reaches it misses
\* all that came before, but for fewer than the rate.
LEMMA CountedWindowed ==
    ASSUME NEW v \in [count : 0..Rate, resetAt : Nat], NEW g \in Seq(Nat), NEW n \in Nat,
           Windowed(v, g, n), v.count # 0, n <= v.resetAt, v.count < Rate
    PROVE  Windowed([v EXCEPT !.count = @ + 1], Append(g, n), n)
<1> USE Limits
<1>0. PICK h : h = Append(g, n)
  OBVIOUS
<1>1. PICK last : last = Len(g)
  OBVIOUS
<1>2. PICK open, first : open = v.resetAt - Window /\ first = last - v.count + 1
  OBVIOUS
<1> DEFINE before == Between(g, open - Window, open - 1)
<1>a. last \in Nat /\ Len(h) = last + 1 /\ h \in Seq(Nat)
  BY <1>0, <1>1, OneMore
<1>b. h[last + 1] = n /\ \A i \in 1..last : h[i] = g[i]
  BY <1>0, <1>1, OneMore
<1>c. \A i \in 1..last : g[i] \in Nat
  BY <1>1
<1>d. v.count \in Nat /\ v.resetAt \in Nat /\ open \in Int /\ first \in Int
      /\ v.count <= Rate
  BY SMTT(30), <1>a, <1>2
<1>e. v.count <= last
  BY <1>1 DEF Windowed
<1>f. first \in 1..last
  <2>1. /\ v.count # 0 /\ v.count \in Nat /\ last \in Nat /\ v.count <= last
        /\ first = last - v.count + 1
    BY <1>2, <1>a, <1>d, <1>e
  <2> QED BY ONLY <2>1
<1>g. OpenWindow(open, first, g)
  BY <1>1, <1>2 DEF Windowed
<1>h. /\ g[first] = open
      /\ \A i \in first..last : open <= g[i] /\ g[i] <= open + Window
      /\ \A i \in 1..(first - 1) : g[i] < open
      /\ Cardinality(before) < Rate
  BY <1>1, <1>g DEF OpenWindow
<1>i. \A i \in 1..last : g[i] <= n
  BY <1>1 DEF Windowed
<1>3. open <= n /\ n <= open + Window
  <2>1. n <= open + Window
    BY <1>2, <1>d
  <2>2. g[first] <= n
    BY <1>f, <1>i
  <2> QED BY <1>h, <2>1, <2>2
<1>4. Between(h, open - Window, open - 1) = before
  <2>1. PICK from, to : from = open - Window /\ to = open - 1
    OBVIOUS
  <2>2. from \in Int /\ to \in Int /\ n > to
    BY <1>d, <1>3, <2>1
  <2>3. Between(h, from, to) = Between(g, from, to)
    BY <1>0, <2>2, OneMoreBetween
  <2> QED BY <2>1, <2>3
<1>5. ASSUME NEW t \in Int PROVE Cardinality(Between(h, t, t + Window)) < 2 * Rate
  <2>1. CASE n \notin t..(t + Window)
    <3>1. Between(h, t, t + Window) = Between(g, t, t + Window)
      <4>1. PICK to : to = t + Window
        OBVIOUS
      <4>2. to \in Int /\ (n < t \/ n > to)
        BY <2>1, <4>1
      <4>3. Between(h, t, to) = Between(g, t, to)
        BY <1>0, <4>2, OneMoreBetween
      <4> QED BY <4>1, <4>3
    <3> QED BY <3>1 DEF Windowed
  <2>2. CASE n \in t..(t + Window)
    <3>0. PICK new : new = last + 1
      OBVIOUS
    <3>1. Between(h, t, t + Window) \subseteq before \cup (first..new)
      <4>0. Between(h, t, t + Window) \subseteq 1..new
        BY <1>a, <3>0 DEF Between
      <4> SUFFICES ASSUME NEW i \in Between(h, t, t + Window), i \in 1..new, i < first
                   PROVE  i \in before
        <5> HIDE DEF before
        <5> QED BY <1>a, <1>f, <3>0, <4>0
      <4>a. t <= h[i]
        BY DEF Between
      <4>1. i \in 1..(first - 1) /\ i \in 1..last
        BY <1>a, <1>f
      <4>2. g[i] \in Nat /\ g[i] < open /\ g[i] >= t
        BY <1>b, <1>c, <1>h, <4>1, <4>a
      <4>3. g[i] \in (open - Window)..(open - 1)
        BY SMTT(30), <1>d, <1>3, <2>2, <4>2
      <4> QED BY <1>1, <4>1, <4>3 DEF Between
    <3>2. /\ IsFiniteSet(first..new) /\ Cardinality(first..new) \in Nat
          /\ Cardinality(first..new) <= new - first + 1
      <4>1. first \in Int /\ new \in Int /\ first <= new + 1
        BY <1>a, <1>f, <3>0
      <4> QED BY <4>1, AtMost
    <3>3. IsFiniteSet(before) /\ Cardinality(before) \in Nat
      BY BetweenFinite
    <3>4. /\ Cardinality(Between(h, t, t + Window))
               <= Cardinality(before) + Cardinality(first..new)
          /\ Cardinality(Between(h, t, t + Window)) \in Nat
      <4> HIDE DEF before
      <4> QED BY <3>1, <3>2, <3>3, AtMostBoth
    <3>5. new - first + 1 = v.count + 1
      <4>1. first = last - v.count + 1 /\ last \in Int /\ v.count \in Int
        BY <1>2, <1>a, <1>d
      <4>2. (last + 1) - first + 1 = v.count + 1
        BY SMTT(30), <1>d, <4>1, Places
      <4> QED BY <3>0, <4>2
    <3>6. Cardinality(before) < Rate
      BY <1>h
    <3> HIDE DEF before
    <3> QED BY <1>d, <3>2, <3>3, <3>4, <3>5, <3>6
  <2> QED BY <2>1, <2>2
<1>6. OpenWindow(open, first, h)
  <2>1. ASSUME NEW i \in first..(last + 1) PROVE open <= h[i] /\ h[i] <= open + Window
    <3>1. CASE i = last + 1
      BY <1>b, <1>3, <3>1
    <3>2. CASE i \in first..last
      <4>1. i \in 1..last
        BY <1>f, <3>2
      <4> QED BY <1>b, <1>h, <3>2, <4>1
    <3> QED BY <1>a, <1>f, <3>1, <3>2
  <2>2. h[first] = open
    BY <1>b, <1>f, <1>h
  <2>3. ASSUME NEW i \in 1..(first - 1) PROVE h[i] < open
    <3>1. i \in 1..last
      BY <1>a, <1>f
    <3> QED BY <1>b, <1>h, <3>1
  <2>4. Cardinality(Between(h, open - Window, open - 1)) < Rate
    BY <1>h, <1>4
  <2> QED BY <1>a, <2>1, <2>2, <2>3, <2>4 DEF OpenWindow
<1>7. PICK w : w = [v EXCEPT !.count = @ + 1]
  OBVIOUS
<1>8. w.count = v.count + 1 /\ w.resetAt = v.resetAt
  BY <1>7
<1>9. /\ Len(h) - w.count + 1 = first /\ w.resetAt - Window = open
      /\ w.count <= Len(h) /\ w.count # 0
  <2>1. Len(h) - w.count + 1 = first
    BY <1>2, <1>a, <1>d, <1>8, Places
  <2>2. w.resetAt - Window = open
    BY <1>2, <1>8
  <2>3. w.count <= Len(h)
    BY <1>a, <1>d, <1>e, <1>8
  <2>4. w.count # 0
    BY <1>d, <1>8
  <2> QED BY <2>1, <2>2, <2>3, <2>4
<1>10. \A i \in 1..Len(h) : h[i] <= n
  <2> SUFFICES ASSUME NEW i \in 1..(last + 1) PROVE h[i] <= n
    BY <1>a
  <2>1. CASE i = last + 1
    BY <1>b, <2>1
  <2>2. CASE i \in 1..last
    BY <1>b, <1>i, <2>2
  <2> QED BY <1>a, <2>1, <2>2
<1>11. Windowed(w, h, n)
  BY <1>5, <1>6, <1>9, <1>10 DEF Windowed
<1> QED BY <1>0, <1>7, <1>11

\* Every client's windows.
LimiterInv == \A c \in Clients : Windowed(visitors[c], granted[c], now)

\* Every step keeps every client's windows so.
LEMMA NextLimiterInv == A2ATypeOK /\ LimiterInv /\ [A2ANext]_a2aVars => LimiterInv'
<1> SUFFICES ASSUME A2ATypeOK, LimiterInv, [A2ANext]_a2aVars, NEW c \in Clients
             PROVE  Windowed(visitors'[c], granted'[c], now')
  BY DEF LimiterInv
<1>1. /\ now \in Nat /\ Windowed(visitors[c], granted[c], now)
      /\ visitors[c] \in [count : 0..Rate, resetAt : Nat]
      /\ granted[c] \in Seq(Nat)
      /\ visitors = [b \in Clients |-> visitors[b]]
      /\ granted = [b \in Clients |-> granted[b]]
  BY A2AServerAssumption DEF A2ATypeOK, LimiterInv
<1>2. CASE Tick
  BY <1>1, <1>2, LaterWindowed DEF Tick
<1>3. CASE Restart
  BY <1>1, <1>3, NoneWindowed DEF Restart
<1>4. ASSUME NEW r \in Requests, NEW b \in Clients, Admit(r, b)
      PROVE  Windowed(visitors'[c], granted'[c], now')
  <2>1. CASE b # c
    BY <1>1, <1>4, <2>1 DEF Admit
  <2>2. CASE b = c
    <3>1. granted'[c] = Append(granted[c], now) /\ now' = now
      BY <1>1, <1>4, <2>2 DEF Admit
    <3>2. CASE /\ Lapsed(visitors[c])
               /\ visitors'[c] = [count |-> 1, resetAt |-> now + Window]
      BY <1>1, <3>1, <3>2, OpenedWindowed DEF Lapsed
    <3>3. CASE /\ ~Lapsed(visitors[c]) /\ Allows(visitors[c])
               /\ visitors'[c] = [visitors[c] EXCEPT !.count = @ + 1]
      <4>1. visitors[c].count # 0 /\ now <= visitors[c].resetAt
            /\ visitors[c].count < Rate
        BY <1>1, <3>3 DEF Lapsed, Allows
      <4> QED BY <1>1, <3>1, <3>3, <4>1, CountedWindowed
    <3> QED BY <1>1, <1>4, <2>2, <3>2, <3>3 DEF Admit
  <2> QED BY <2>1, <2>2
<1>5. CASE UNCHANGED <<visitors, granted, now>>
  BY <1>1, <1>5
<1> QED BY <1>2, <1>3, <1>4, <1>5
        DEF A2ANext, GenerateKey, CreateMandate, SettleMandate, CancelMandate,
            Decline, Acknowledge, LoseReply, ExpireMandates, a2aVars

(***************************************************************************)
(* However a client's requests fall on the fixed windows, a stretch of the *)
(* length of a window sees fewer than twice the rate, for every rate and   *)
(* window (Allow, ratelimit.go).                                           *)
(***************************************************************************)
THEOREM BurstIsBoundedAlways == A2ASpec => []BurstIsBounded
<1>1. A2AInit => LimiterInv
  BY NoneWindowed DEF A2AInit, LimiterInv
<1>2. LimiterInv => BurstIsBounded
  <2> SUFFICES ASSUME LimiterInv, NEW c \in Clients, NEW t \in 0..MaxTime
               PROVE  Admitted(c, t, t + Window) < 2 * Rate
    BY DEF BurstIsBounded
  <2>1. t \in Int
    OBVIOUS
  <2>2. Admitted(c, t, t + Window) = Cardinality(Between(granted[c], t, t + Window))
    BY DEF Admitted, Between
  <2> QED BY <2>1, <2>2 DEF LimiterInv, Windowed
<1> QED BY <1>1, <1>2, InitTypeOK, NextTypeOK, NextLimiterInv, PTL DEF A2ASpec

-----------------------------------------------------------------------------
-----------------------------------------------------------------------------
(* Webhooks: what was reported as delivered was delivered.                 *)

HookStages == {"idle", "next", "try", "wait", "done"}

DispatchCall == [pc : HookStages, targets : SUBSET Hooks, left : SUBSET Hooks,
                 to : Hooks \cup {NoHookId}, attempt : 0..Backoffs,
                 failed : SUBSET Hooks]

\* A dispatch that stands at call is busy with subscriber h.
BusyWith(call, h) == call.pc \in {"try", "wait"} /\ call.to = h

\* The subscribers it has dealt with.
DealtWith(call) == {h \in call.targets \ call.left : ~BusyWith(call, h)}

\* Its subscribers are those to come, the one it is busy with and those it
\* has dealt with; what it failed at is among these.
PartsOf(call) ==
    /\ call.left \subseteq call.targets
    /\ call.failed \subseteq DealtWith(call)
    /\ call.pc \in {"try", "wait"} => call.to \in call.targets \ call.left
    /\ call.pc = "idle" => call.targets = {}
    /\ call.pc = "done" => call.left = {}

\* It has sent its event to subscriber h so many times, never before h's turn,
\* during it at most as often as a try has failed, and afterwards at least
\* once unless h was given up.
Served(call, h, times) ==
    /\ h \notin call.targets \/ h \in call.left => times = 0
    /\ BusyWith(call, h) => times <= call.attempt /\ (h \in Up => times = 0)
    /\ h \in DealtWith(call) =>
          /\ times <= Backoffs + 1
          /\ h \in Up => times <= 1
          /\ h \notin call.failed => times > 0

HookInv ==
    /\ hooks \in [Hooks -> HookRow \cup {NoHook}]
    /\ cancelled \subseteq Dispatches
    /\ dispatch \in [Dispatches -> DispatchCall]
    /\ received \in [Dispatches -> [Hooks -> Nat]]
    /\ \A d \in Dispatches :
          /\ PartsOf(dispatch[d])
          /\ dispatch[d].failed \cap Up = {} \/ d \in cancelled
          /\ \A h \in Hooks : Served(dispatch[d], h, received[d][h])

\* The subscribers of a dispatch are served alike by what it does next.
ServesLike(call, next, H) ==
    \A h \in H, times \in Nat : Served(call, h, times) => Served(next, h, times)

LEMMA UnsentParts == Unsent \in DispatchCall /\ PartsOf(Unsent)
BY WebhooksAssumption DEF Unsent, DispatchCall, HookStages, PartsOf, DealtWith

\* It starts with the subscribers it has read.
LEMMA StartParts ==
    ASSUME NEW targets \in SUBSET Hooks, NEW pc, pc = IF targets = {} THEN "done" ELSE "next",
           NEW next, next = [Unsent EXCEPT !.pc = pc, !.targets = targets, !.left = targets]
    PROVE  /\ next \in DispatchCall /\ PartsOf(next)
           /\ next.failed = {} /\ \A h \in Hooks : Served(next, h, 0)
<1>1. next \in DispatchCall
  BY UnsentParts DEF DispatchCall, HookStages
<1>2. /\ next.pc = pc /\ next.targets = targets /\ next.left = targets
      /\ next.failed = {}
  BY DEF Unsent
<1>3. PartsOf(next)
  BY <1>2 DEF PartsOf, DealtWith, BusyWith
<1> QED BY <1>1, <1>2, <1>3 DEF Served, BusyWith, DealtWith

\* It turns to the next subscriber.
LEMMA TurnParts ==
    ASSUME NEW call \in DispatchCall, PartsOf(call), call.pc = "next", NEW k \in call.left,
           NEW next, next = [call EXCEPT !.pc = "try", !.to = k, !.attempt = 0,
                                         !.left = @ \ {k}]
    PROVE  /\ next \in DispatchCall /\ PartsOf(next)
           /\ ServesLike(call, next, Hooks) /\ next.failed = call.failed
<1>0. /\ k \in Hooks /\ call.left \ {k} \in SUBSET Hooks /\ 0 \in 0..Backoffs
      /\ "try" \in HookStages
  BY WebhooksAssumption DEF DispatchCall, HookStages
<1>1. next \in DispatchCall
  BY <1>0 DEF DispatchCall
<1>2. /\ next.pc = "try" /\ next.to = k /\ next.attempt = 0 /\ next.left = call.left \ {k}
      /\ next.targets = call.targets /\ next.failed = call.failed
  BY DEF DispatchCall
<1>3. DealtWith(next) = DealtWith(call)
  BY <1>2 DEF DealtWith, BusyWith, PartsOf
<1>4. PartsOf(next)
  BY <1>2, <1>3 DEF PartsOf
<1>5. ASSUME NEW h \in Hooks, NEW times \in Nat,
             Served(call, h, times)
      PROVE  Served(next, h, times)
  <2>1. CASE h = k
    <3>1. h \notin DealtWith(next) /\ times = 0 /\ h \in call.targets
      BY <1>2, <1>5, <2>1 DEF Served, PartsOf, DealtWith, BusyWith
    <3> QED BY <1>2, <2>1, <3>1 DEF Served
  <2>2. CASE h # k
    <3>1. ~BusyWith(next, h)
      BY <1>2, <2>2 DEF BusyWith
    <3>2. h \notin next.targets \/ h \in next.left <=> h \notin call.targets \/ h \in call.left
      BY <1>2, <2>2
    <3> QED BY <1>2, <1>3, <1>5, <3>1, <3>2 DEF Served
  <2> QED BY <2>1, <2>2
<1> QED BY <1>1, <1>2, <1>4, <1>5 DEF ServesLike

\* It has no subscriber left.
LEMMA DoneParts ==
    ASSUME NEW call \in DispatchCall, PartsOf(call), call.pc = "next", call.left = {},
           NEW next, next = [call EXCEPT !.pc = "done"]
    PROVE  /\ next \in DispatchCall /\ PartsOf(next)
           /\ ServesLike(call, next, Hooks) /\ next.failed = call.failed
<1>1. next \in DispatchCall
  BY DEF DispatchCall, HookStages
<1>2. /\ next.pc = "done" /\ next.left = call.left /\ next.attempt = call.attempt
      /\ next.targets = call.targets /\ next.failed = call.failed
  BY DEF DispatchCall
<1>3. DealtWith(next) = DealtWith(call)
  BY <1>2 DEF DealtWith, BusyWith
<1>4. PartsOf(next)
  BY <1>2, <1>3 DEF PartsOf
<1> QED BY <1>1, <1>2, <1>3, <1>4 DEF ServesLike, Served, BusyWith

\* A try is made again after its pause.
LEMMA TryParts ==
    ASSUME NEW call \in DispatchCall, PartsOf(call), call.pc = "wait",
           NEW next, next = [call EXCEPT !.pc = "try"]
    PROVE  /\ next \in DispatchCall /\ PartsOf(next)
           /\ ServesLike(call, next, Hooks) /\ next.failed = call.failed
<1>1. next \in DispatchCall
  BY DEF DispatchCall, HookStages
<1>2. /\ next.pc = "try" /\ next.left = call.left /\ next.attempt = call.attempt
      /\ next.targets = call.targets /\ next.failed = call.failed /\ next.to = call.to
  BY DEF DispatchCall
<1>3. \A h : BusyWith(next, h) <=> BusyWith(call, h)
  BY <1>2 DEF BusyWith
<1>4. DealtWith(next) = DealtWith(call)
  BY <1>2, <1>3 DEF DealtWith
<1>5. PartsOf(next)
  BY <1>2, <1>4 DEF PartsOf
<1> QED BY <1>1, <1>2, <1>3, <1>4, <1>5 DEF ServesLike, Served

\* A failed try is followed by a pause; its post may have arrived.
LEMMA PauseParts ==
    ASSUME NEW call \in DispatchCall, PartsOf(call), call.pc = "try",
           call.attempt < Backoffs,
           NEW next, next = [call EXCEPT !.pc = "wait", !.attempt = @ + 1]
    PROVE  /\ next \in DispatchCall /\ PartsOf(next)
           /\ ServesLike(call, next, Hooks) /\ next.failed = call.failed
           /\ \A times \in Nat :
                 call.to \notin Up /\ Served(call, call.to, times)
                    => Served(next, call.to, times + 1)
<1>0. call.attempt \in 0..Backoffs /\ Backoffs \in Nat
  BY WebhooksAssumption DEF DispatchCall
<1>b. call.attempt + 1 \in 0..Backoffs /\ "wait" \in HookStages
  BY <1>0 DEF HookStages
<1>1. next \in DispatchCall
  BY <1>b DEF DispatchCall
<1>2. /\ next.pc = "wait" /\ next.left = call.left /\ next.attempt = call.attempt + 1
      /\ next.targets = call.targets /\ next.failed = call.failed /\ next.to = call.to
  BY DEF DispatchCall
<1>3. \A h : BusyWith(next, h) <=> BusyWith(call, h)
  BY <1>2 DEF BusyWith
<1>4. DealtWith(next) = DealtWith(call)
  BY <1>2, <1>3 DEF DealtWith
<1>5. PartsOf(next)
  BY <1>2, <1>4 DEF PartsOf
<1>6. ServesLike(call, next, Hooks)
  BY <1>0, <1>2, <1>3, <1>4 DEF ServesLike, Served
<1>7. ASSUME NEW times \in Nat, call.to \notin Up,
             Served(call, call.to, times)
      PROVE  Served(next, call.to, times + 1)
  <2>1. BusyWith(call, call.to) /\ call.to \in call.targets \ call.left
    BY DEF BusyWith, PartsOf
  <2>2. call.to \notin DealtWith(next)
    BY <1>4, <2>1 DEF DealtWith
  <2>3. times + 1 <= next.attempt
    BY <1>0, <1>2, <1>7, <2>1 DEF Served
  <2> QED BY <1>2, <1>7, <2>1, <2>2, <2>3 DEF Served
<1> QED BY <1>1, <1>2, <1>5, <1>6, <1>7

\* The subscriber is given up; the last post may have arrived all the same.
LEMMA GiveUpParts ==
    ASSUME NEW call \in DispatchCall, PartsOf(call), call.pc \in {"try", "wait"},
           NEW next, next = [call EXCEPT !.pc = "next", !.failed = @ \cup {call.to}]
    PROVE  /\ next \in DispatchCall /\ PartsOf(next)
           /\ ServesLike(call, next, Hooks \ {call.to})
           /\ next.failed = call.failed \cup {call.to}
           /\ \A times \in Nat :
                 Served(call, call.to, times) =>
                    /\ Served(next, call.to, times)
                    /\ call.to \notin Up => Served(next, call.to, times + 1)
<1>0. call.attempt \in 0..Backoffs /\ Backoffs \in Nat
  BY WebhooksAssumption DEF DispatchCall
<1>a. call.to \in call.targets \ call.left /\ call.to \in Hooks
  BY DEF PartsOf, DispatchCall
<1>b. call.failed \cup {call.to} \in SUBSET Hooks /\ "next" \in HookStages
  BY <1>a DEF DispatchCall, HookStages
<1>1. next \in DispatchCall
  BY <1>b DEF DispatchCall
<1>2. /\ next.pc = "next" /\ next.left = call.left
      /\ next.targets = call.targets /\ next.failed = call.failed \cup {call.to}
  BY DEF DispatchCall
<1>3. \A h : ~BusyWith(next, h)
  BY <1>2 DEF BusyWith
<1>4. DealtWith(next) = DealtWith(call) \cup {call.to}
  BY <1>2, <1>3, <1>a DEF DealtWith, BusyWith
<1>5. PartsOf(next)
  BY <1>2, <1>4 DEF PartsOf
<1>6. ServesLike(call, next, Hooks \ {call.to})
  BY <1>2, <1>3, <1>4 DEF ServesLike, Served
<1>7. ASSUME NEW times \in Nat,
             Served(call, call.to, times)
      PROVE  /\ Served(next, call.to, times)
             /\ call.to \notin Up => Served(next, call.to, times + 1)
  <2>1. times <= call.attempt /\ (call.to \in Up => times = 0)
    BY <1>7 DEF Served, BusyWith
  <2>2. times <= Backoffs /\ times + 1 <= Backoffs + 1
    BY <1>0, <2>1
  <2>3. /\ ~BusyWith(next, call.to) /\ call.to \in next.failed
        /\ call.to \in next.targets \ next.left
    BY <1>2, <1>3, <1>a
  <2>4. Served(next, call.to, times)
    <3>1. call.to \in Up => times <= 1
      BY <1>7, <2>1
    <3>2. times <= Backoffs + 1
      BY <1>0, <2>2
    <3> QED BY <2>3, <3>1, <3>2 DEF Served
  <2>5. call.to \notin Up => Served(next, call.to, times + 1)
    BY <2>2, <2>3 DEF Served
  <2> QED BY <2>4, <2>5
<1> QED BY <1>1, <1>2, <1>5, <1>6, <1>7

\* The event has arrived and was answered.
LEMMA DeliveredParts ==
    ASSUME NEW call \in DispatchCall, PartsOf(call), call.pc = "try",
           NEW next, next = [call EXCEPT !.pc = "next"]
    PROVE  /\ next \in DispatchCall /\ PartsOf(next)
           /\ ServesLike(call, next, Hooks \ {call.to}) /\ next.failed = call.failed
           /\ \A times \in Nat :
                 Served(call, call.to, times) => Served(next, call.to, times + 1)
<1>0. call.attempt \in 0..Backoffs /\ Backoffs \in Nat
  BY WebhooksAssumption DEF DispatchCall
<1>a. /\ call.to \in call.targets \ call.left /\ call.to \in Hooks
      /\ call.to \notin call.failed
  BY DEF PartsOf, DispatchCall, DealtWith, BusyWith
<1>1. next \in DispatchCall
  BY DEF DispatchCall, HookStages
<1>2. /\ next.pc = "next" /\ next.left = call.left
      /\ next.targets = call.targets /\ next.failed = call.failed
  BY DEF DispatchCall
<1>3. \A h : ~BusyWith(next, h)
  BY <1>2 DEF BusyWith
<1>4. DealtWith(next) = DealtWith(call) \cup {call.to}
  BY <1>2, <1>3, <1>a DEF DealtWith, BusyWith
<1>5. PartsOf(next)
  BY <1>2, <1>4 DEF PartsOf
<1>6. ServesLike(call, next, Hooks \ {call.to})
  BY <1>2, <1>3, <1>4 DEF ServesLike, Served
<1>7. ASSUME NEW times \in Nat, Served(call, call.to, times)
      PROVE  Served(next, call.to, times + 1)
  <2>1. times <= call.attempt /\ (call.to \in Up => times = 0)
    BY <1>7 DEF Served, BusyWith
  <2>2. times + 1 <= Backoffs + 1 /\ times + 1 > 0 /\ (call.to \in Up => times + 1 <= 1)
    BY <1>0, <2>1
  <2> QED BY <1>2, <1>3, <1>a, <2>2 DEF Served
<1> QED BY <1>1, <1>2, <1>5, <1>6, <1>7

LEMMA HookInitInv == HookInit => HookInv
<1> SUFFICES ASSUME HookInit PROVE HookInv
  OBVIOUS
<1>1. /\ hooks \in [Hooks -> HookRow \cup {NoHook}] /\ cancelled = {}
      /\ dispatch \in [Dispatches -> DispatchCall]
      /\ received \in [Dispatches -> [Hooks -> Nat]]
      /\ \A d \in Dispatches : dispatch[d] = Unsent
      /\ \A d \in Dispatches, h \in Hooks : received[d][h] = 0
  BY UnsentParts DEF HookInit
<1>2. \A h \in Hooks : Served(Unsent, h, 0)
  BY DEF Served, Unsent, DealtWith, BusyWith
<1>3. Unsent.failed = {}
  BY DEF Unsent
<1>4. /\ \A d \in Dispatches : dispatch[d].failed \cap Up = {}
      /\ \A d \in Dispatches, h \in Hooks : Served(dispatch[d], h, received[d][h])
  BY <1>1, <1>2, <1>3
<1> QED BY <1>1, <1>4, UnsentParts DEF HookInv

\* One dispatch goes on to next; the others stay as they were.
LEMMA DispatchMoves ==
    ASSUME HookInv, NEW d \in Dispatches, NEW next \in DispatchCall, PartsOf(next),
           next.failed \cap Up = {} \/ d \in cancelled,
           dispatch' = [dispatch EXCEPT ![d] = next],
           received' \in [Dispatches -> [Hooks -> Nat]],
           \A e \in Dispatches \ {d} : received'[e] = received[e],
           \A h \in Hooks : Served(next, h, received'[d][h]),
           UNCHANGED <<hooks, cancelled>>
    PROVE  HookInv'
<1>1. /\ dispatch' \in [Dispatches -> DispatchCall] /\ dispatch'[d] = next
      /\ \A e \in Dispatches \ {d} : dispatch'[e] = dispatch[e]
  BY DEF HookInv
<1>2. ASSUME NEW e \in Dispatches
      PROVE  /\ PartsOf(dispatch'[e])
             /\ \A h \in Hooks :
                   Served(dispatch'[e], h, received'[e][h])
  <2>1. CASE e = d
    BY <1>1, <2>1
  <2>2. CASE e # d
    BY <1>1, <2>2 DEF HookInv
  <2> QED BY <2>1, <2>2
<1> QED BY <1>1, <1>2 DEF HookInv

\* It goes on without a post that arrives.
LEMMA DispatchMovesQuietly ==
    ASSUME HookInv, NEW d \in Dispatches, NEW next \in DispatchCall, PartsOf(next),
           next.failed \cap Up = {} \/ d \in cancelled,
           dispatch' = [dispatch EXCEPT ![d] = next],
           \A h \in Hooks, times \in Nat :
              Served(dispatch[d], h, times)
                 => Served(next, h, times),
           UNCHANGED <<hooks, cancelled, received>>
    PROVE  HookInv'
<1>1. \A h \in Hooks : received'[d][h] \in Nat /\ received'[d][h] = received[d][h]
  BY DEF HookInv
<1>2. \A h \in Hooks : Served(next, h, received'[d][h])
  BY <1>1 DEF HookInv
<1>3. received' \in [Dispatches -> [Hooks -> Nat]]
  BY DEF HookInv
<1> QED BY <1>2, <1>3, DispatchMoves

\* It goes on with a post that arrives at the subscriber of its turn.
LEMMA DispatchMovesBusily ==
    ASSUME HookInv, NEW d \in Dispatches, NEW next \in DispatchCall, PartsOf(next),
           next.failed \cap Up = {} \/ d \in cancelled,
           NEW k \in Hooks, k = dispatch[d].to,
           dispatch' = [dispatch EXCEPT ![d] = next], Arrives(d),
           ServesLike(dispatch[d], next, Hooks \ {k}),
           \A times \in Nat :
              Served(dispatch[d], k, times)
                 => Served(next, k, times + 1),
           UNCHANGED <<hooks, cancelled>>
    PROVE  HookInv'
<1>1. PICK row : row = [received[d] EXCEPT ![k] = @ + 1]
  OBVIOUS
<1>2. /\ received' = [received EXCEPT ![d] = row] /\ row \in [Hooks -> Nat]
      /\ received[d] \in [Hooks -> Nat]
      /\ row[k] = received[d][k] + 1
      /\ \A h \in Hooks \ {k} : row[h] = received[d][h]
  BY <1>1 DEF HookInv, Arrives
<1>3. /\ received' \in [Dispatches -> [Hooks -> Nat]] /\ received'[d] = row
      /\ \A e \in Dispatches \ {d} : received'[e] = received[e]
  BY <1>2 DEF HookInv
<1>4. ASSUME NEW h \in Hooks
      PROVE  Served(next, h, received'[d][h])
  <2>1. Served(dispatch[d], h, received[d][h]) /\ received[d][h] \in Nat
    BY <1>2 DEF HookInv
  <2>2. CASE h = k
    BY <1>2, <1>3, <2>1, <2>2
  <2>3. CASE h # k
    BY <1>2, <1>3, <2>1, <2>3 DEF ServesLike
  <2> QED BY <2>2, <2>3
<1> QED BY <1>3, <1>4, DispatchMoves

\* What a failed try leads to keeps the invariant, whether its post arrived
\* or not; a receiver that always answers fails a cancelled call only.
LEMMA RetryInv ==
    ASSUME HookInv, NEW d \in Dispatches, dispatch[d].pc = "try", Retry(d),
           \/ dispatch[d].to \notin Up /\ Arrives(d)
           \/ (d \in cancelled \/ dispatch[d].to \notin Up) /\ UNCHANGED received,
           UNCHANGED <<hooks, cancelled>>
    PROVE  HookInv'
<1>1. PICK call \in DispatchCall : call = dispatch[d]
  BY DEF HookInv
<1>2. PartsOf(call) /\ call.pc = "try" /\ call.to \in Hooks
  BY <1>1 DEF HookInv, PartsOf, DispatchCall
<1>3. call.failed \cap Up = {} \/ d \in cancelled
  BY <1>1 DEF HookInv
<1>4. CASE /\ dispatch[d].attempt < Backoffs
           /\ dispatch' = [dispatch EXCEPT ![d].pc = "wait", ![d].attempt = @ + 1]
  <2>1. PICK next : next = [call EXCEPT !.pc = "wait", !.attempt = @ + 1]
    OBVIOUS
  <2>2. dispatch' = [dispatch EXCEPT ![d] = next]
    BY <1>1, <1>4, <2>1 DEF HookInv, DispatchCall
  <2>3. /\ next \in DispatchCall /\ PartsOf(next) /\ ServesLike(call, next, Hooks) /\ next.failed = call.failed
        /\ \A times \in Nat :
              call.to \notin Up /\ Served(call, call.to, times)
                 => Served(next, call.to, times + 1)
    BY <1>1, <1>2, <1>4, <2>1, PauseParts
  <2>4. CASE dispatch[d].to \notin Up /\ Arrives(d)
    <3>1. ServesLike(call, next, Hooks \ {call.to})
      BY <2>3 DEF ServesLike
    <3>2. \A times \in Nat : Served(call, call.to, times)
                                => Served(next, call.to, times + 1)
      BY <1>1, <1>3, <2>3, <2>4
    <3> QED BY <1>1, <1>2, <1>3, <2>2, <2>3, <2>4, <3>1, <3>2, DispatchMovesBusily
  <2>5. CASE UNCHANGED received
    <3>1. \A h \in Hooks, times \in Nat : Served(call, h, times)
                                             => Served(next, h, times)
      BY <1>3, <2>3 DEF ServesLike
    <3> QED BY <1>1, <1>3, <2>2, <2>3, <2>5, <3>1, DispatchMovesQuietly
  <2> QED BY <2>4, <2>5
<1>5. CASE GiveUp(d)
  <2>1. PICK next : next = [call EXCEPT !.pc = "next", !.failed = @ \cup {call.to}]
    OBVIOUS
  <2>2. dispatch' = [dispatch EXCEPT ![d] = next]
    BY <1>1, <1>5, <2>1 DEF HookInv, DispatchCall, GiveUp
  <2>3. /\ next \in DispatchCall /\ PartsOf(next)
        /\ ServesLike(call, next, Hooks \ {call.to})
        /\ next.failed = call.failed \cup {call.to}
        /\ \A times \in Nat :
              Served(call, call.to, times) =>
                 /\ Served(next, call.to, times)
                 /\ call.to \notin Up => Served(next, call.to, times + 1)
    BY <1>1, <1>2, <2>1, GiveUpParts
  <2>a. next.failed \cap Up = {} \/ d \in cancelled
    BY <1>1, <1>3, <2>3
  <2>4. CASE dispatch[d].to \notin Up /\ Arrives(d)
    <3>2. \A times \in Nat : Served(call, call.to, times)
                                => Served(next, call.to, times + 1)
      BY <1>1, <1>3, <2>3, <2>4
    <3> QED BY <1>1, <1>2, <2>2, <2>3, <2>a, <2>4, <3>2, DispatchMovesBusily
  <2>5. CASE (d \in cancelled \/ dispatch[d].to \notin Up) /\ UNCHANGED received
    <3>1. \A times \in Nat : Served(call, call.to, times)
                                => Served(next, call.to, times)
      BY <1>1, <1>3, <2>3, <2>5
    <3>2. ASSUME NEW h \in Hooks, NEW times \in Nat, Served(call, h, times)
          PROVE  Served(next, h, times)
      <4>1. CASE h = call.to
        BY <3>1, <3>2, <4>1
      <4>2. CASE h # call.to
        BY <1>3, <2>3, <3>2, <4>2 DEF ServesLike
      <4> QED BY <4>1, <4>2
    <3> QED BY <1>1, <2>2, <2>3, <2>a, <2>5, <3>2, DispatchMovesQuietly
  <2> QED BY <2>4, <2>5
<1> QED BY <1>4, <1>5 DEF Retry

LEMMA NextHookInv == HookInv /\ [HookNext]_hookVars => HookInv'
<1> SUFFICES ASSUME HookInv, [HookNext]_hookVars PROVE HookInv'
  OBVIOUS
<1>1. ASSUME NEW h \in Hooks, NEW events \in SUBSET (Events \cup {Star}),
             Register(h, events)
      PROVE  HookInv'
  <2>1. PICK row : row = [events |-> events, status |-> "active"]
    OBVIOUS
  <2>2. row \in HookRow
    BY <1>1, <2>1 DEF Register, HookRow
  <2>3. hooks' \in [Hooks -> HookRow \cup {NoHook}]
    BY <1>1, <2>1, <2>2 DEF Register, CreateHook, HookInv
  <2> QED BY <1>1, <2>3 DEF HookInv, Register
<1>2. ASSUME NEW h \in Hooks, Unregister(h)
      PROVE  HookInv'
  <2>1. PICK row : row = [hooks[h] EXCEPT !.status = "disabled"]
    OBVIOUS
  <2>2. row \in HookRow
    BY <1>2, <2>1 DEF Unregister, Disable, HookRow, HookInv
  <2>3. hooks' \in [Hooks -> HookRow \cup {NoHook}]
    BY <1>2, <2>1, <2>2 DEF Unregister, Disable, HookInv
  <2> QED BY <1>2, <2>3 DEF HookInv, Unregister
<1>3. ASSUME NEW d \in Dispatches, NEW event \in Events, Dispatch(d, event)
      PROVE  HookInv'
  <2>1. PICK targets \in SUBSET Hooks : targets = GetByEvent(event)
    BY DEF GetByEvent, ListHooks
  <2>2. PICK pc : pc = IF targets = {} THEN "done" ELSE "next"
    OBVIOUS
  <2>3. PICK next : next = [Unsent EXCEPT !.pc = pc, !.targets = targets,
                                          !.left = targets]
    OBVIOUS
  <2>4. /\ dispatch' = [dispatch EXCEPT ![d] = next] /\ dispatch[d].pc = "idle"
        /\ UNCHANGED <<hooks, cancelled, received>>
    BY <1>3, <2>1, <2>2, <2>3 DEF Dispatch
  <2>5. /\ next \in DispatchCall /\ PartsOf(next) /\ next.failed = {}
        /\ \A h \in Hooks : Served(next, h, 0)
    BY <2>2, <2>3, StartParts
  <2>6. \A h \in Hooks, times \in Nat : Served(dispatch[d], h, times) => times = 0
    BY <2>4 DEF HookInv, PartsOf, Served
  <2> QED BY <2>4, <2>5, <2>6, DispatchMovesQuietly
<1>4. ASSUME NEW d \in Dispatches, NextTarget(d)
      PROVE  HookInv'
  <2>1. PICK call \in DispatchCall : call = dispatch[d]
    BY DEF HookInv
  <2>2. /\ PartsOf(call) /\ call.pc = "next" /\ UNCHANGED <<hooks, cancelled, received>>
        /\ call.failed \cap Up = {} \/ d \in cancelled
    BY <1>4, <2>1 DEF HookInv, NextTarget
  <2>3. ASSUME NEW k \in call.left,
               dispatch' = [dispatch EXCEPT ![d].pc = "try", ![d].to = k,
                                            ![d].attempt = 0, ![d].left = @ \ {k}]
        PROVE  HookInv'
    <3>1. PICK next : next = [call EXCEPT !.pc = "try", !.to = k, !.attempt = 0,
                                          !.left = @ \ {k}]
      OBVIOUS
    <3>2. dispatch' = [dispatch EXCEPT ![d] = next]
      BY <2>1, <2>3, <3>1 DEF HookInv, DispatchCall
    <3>3. /\ next \in DispatchCall /\ PartsOf(next) /\ next.failed = call.failed
          /\ ServesLike(call, next, Hooks)
      BY <2>2, <3>1, TurnParts
    <3> QED BY <2>1, <2>2, <3>2, <3>3, DispatchMovesQuietly DEF ServesLike
  <2>4. ASSUME call.left = {}, dispatch' = [dispatch EXCEPT ![d].pc = "done"]
        PROVE  HookInv'
    <3>1. PICK next : next = [call EXCEPT !.pc = "done"]
      OBVIOUS
    <3>2. dispatch' = [dispatch EXCEPT ![d] = next]
      BY <2>1, <2>4, <3>1 DEF HookInv
    <3>3. /\ next \in DispatchCall /\ PartsOf(next) /\ next.failed = call.failed
          /\ ServesLike(call, next, Hooks)
      BY <2>2, <2>4, <3>1, DoneParts
    <3> QED BY <2>1, <2>2, <3>2, <3>3, DispatchMovesQuietly DEF ServesLike
  <2> QED BY <1>4, <2>1, <2>3, <2>4 DEF NextTarget
<1>5. ASSUME NEW d \in Dispatches, Deliver(d)
      PROVE  HookInv'
  <2>1. dispatch[d].pc = "try" /\ UNCHANGED <<hooks, cancelled>>
    BY <1>5 DEF Deliver
  <2>2. CASE Arrives(d) /\ dispatch' = [dispatch EXCEPT ![d].pc = "next"]
    <3>1. PICK call \in DispatchCall : call = dispatch[d]
      BY DEF HookInv
    <3>2. /\ PartsOf(call) /\ call.pc = "try" /\ call.to \in Hooks
          /\ call.failed \cap Up = {} \/ d \in cancelled
      BY <2>1, <3>1 DEF HookInv, PartsOf, DispatchCall
    <3>3. PICK next : next = [call EXCEPT !.pc = "next"]
      OBVIOUS
    <3>4. dispatch' = [dispatch EXCEPT ![d] = next]
      BY <2>2, <3>1, <3>3 DEF HookInv
    <3>5. /\ next \in DispatchCall /\ PartsOf(next)
          /\ ServesLike(call, next, Hooks \ {call.to}) /\ next.failed = call.failed
          /\ \A times \in Nat :
                Served(call, call.to, times) => Served(next, call.to, times + 1)
      BY <3>2, <3>3, DeliveredParts
    <3> QED BY <2>1, <2>2, <3>1, <3>2, <3>4, <3>5, DispatchMovesBusily
  <2>3. CASE Retry(d) /\ dispatch[d].to \notin Up /\ Arrives(d)
    BY <2>1, <2>3, RetryInv
  <2>4. CASE Retry(d) /\ (d \in cancelled \/ dispatch[d].to \notin Up) /\ UNCHANGED received
    BY <2>1, <2>4, RetryInv
  <2> QED BY <1>5, <2>2, <2>3, <2>4 DEF Deliver
<1>6. ASSUME NEW d \in Dispatches, AwaitBackoff(d)
      PROVE  HookInv'
  <2>1. PICK call \in DispatchCall : call = dispatch[d]
    BY DEF HookInv
  <2>2. /\ PartsOf(call) /\ call.pc = "wait" /\ UNCHANGED <<hooks, cancelled, received>>
        /\ call.failed \cap Up = {} \/ d \in cancelled
    BY <1>6, <2>1 DEF HookInv, AwaitBackoff
  <2>3. CASE dispatch' = [dispatch EXCEPT ![d].pc = "try"]
    <3>1. PICK next : next = [call EXCEPT !.pc = "try"]
      OBVIOUS
    <3>2. dispatch' = [dispatch EXCEPT ![d] = next]
      BY <2>1, <2>3, <3>1 DEF HookInv
    <3>3. /\ next \in DispatchCall /\ PartsOf(next) /\ next.failed = call.failed
          /\ ServesLike(call, next, Hooks)
      BY <2>2, <3>1, TryParts
    <3> QED BY <2>1, <2>2, <3>2, <3>3, DispatchMovesQuietly DEF ServesLike
  <2>4. CASE d \in cancelled /\ GiveUp(d)
    <3>1. PICK next : next = [call EXCEPT !.pc = "next", !.failed = @ \cup {call.to}]
      OBVIOUS
    <3>2. dispatch' = [dispatch EXCEPT ![d] = next]
      BY <2>1, <2>4, <3>1 DEF HookInv, DispatchCall, GiveUp
    <3>3. /\ next \in DispatchCall /\ PartsOf(next)
          /\ ServesLike(call, next, Hooks \ {call.to})
          /\ \A times \in Nat : Served(call, call.to, times) => Served(next, call.to, times)
      BY <2>1, <2>2, <3>1, GiveUpParts
    <3>4. \A h \in Hooks, times \in Nat : Served(call, h, times) => Served(next, h, times)
      BY <3>3 DEF ServesLike
    <3> QED BY <2>1, <2>2, <2>4, <3>2, <3>3, <3>4, DispatchMovesQuietly
  <2> QED BY <1>6, <2>3, <2>4 DEF AwaitBackoff
<1>7. ASSUME NEW d \in Dispatches, CancelDispatch(d)
      PROVE  HookInv'
  BY <1>7 DEF HookInv, CancelDispatch
<1>8. CASE UNCHANGED hookVars
  BY <1>8 DEF HookInv, hookVars
<1> QED BY <1>1, <1>2, <1>3, <1>4, <1>5, <1>6, <1>7, <1>8 DEF HookNext, deliverWithRetry

LEMMA HookInvServes == HookInv => HookTypeOK /\ EachTargetServed
<1> SUFFICES ASSUME HookInv PROVE HookTypeOK /\ EachTargetServed
  OBVIOUS
<1>1. HookTypeOK
  <2>1. ASSUME NEW d \in Dispatches
        PROVE  /\ dispatch[d].pc \in {"idle", "next", "try", "wait", "done"}
               /\ dispatch[d].attempt \in 0 .. Backoffs
               /\ dispatch[d].left \cup dispatch[d].failed \subseteq dispatch[d].targets
               /\ dispatch[d].pc \in {"try", "wait"} =>
                     dispatch[d].to \in dispatch[d].targets \ dispatch[d].left
    <3>1. dispatch[d] \in DispatchCall /\ PartsOf(dispatch[d])
      BY DEF HookInv
    <3> QED BY <3>1 DEF DispatchCall, HookStages, PartsOf, DealtWith
  <2> QED BY <2>1 DEF HookTypeOK, HookInv
<1>2. ASSUME NEW d \in Dispatches, NEW h \in Hooks
      PROVE  /\ received[d][h] <= IF h \in dispatch[d].targets THEN Backoffs + 1 ELSE 0
             /\ Succeeded(d) /\ h \in dispatch[d].targets => received[d][h] > 0
             /\ h \in Up => received[d][h] <= 1
             /\ dispatch[d].pc = "done" /\ d \notin cancelled
                   /\ h \in Up \cap dispatch[d].targets => received[d][h] = 1
  <2>1. PICK times \in Nat : times = received[d][h]
    BY DEF HookInv
  <2>2. PICK call \in DispatchCall : call = dispatch[d]
    BY DEF HookInv
  <2>3. /\ PartsOf(call) /\ Served(call, h, times)
        /\ call.failed \cap Up = {} \/ d \in cancelled
    BY <2>1, <2>2 DEF HookInv
  <2>4. call.attempt \in 0..Backoffs /\ Backoffs \in Nat
    BY WebhooksAssumption DEF DispatchCall
  <2>5. CASE h \notin call.targets \/ h \in call.left
    <3>1. times = 0
      BY <2>3, <2>5 DEF Served
    <3>2. call.pc = "done" => h \notin call.targets
      BY <2>3, <2>5 DEF PartsOf
    <3> QED BY <2>1, <2>2, <2>4, <3>1, <3>2 DEF Succeeded
  <2>6. CASE h \in call.targets \ call.left /\ BusyWith(call, h)
    <3>1. times <= Backoffs + 1 /\ (h \in Up => times = 0) /\ call.pc # "done"
      BY <2>3, <2>4, <2>6 DEF Served, BusyWith
    <3> QED BY <2>1, <2>2, <2>6, <3>1 DEF Succeeded
  <2>7. CASE h \in DealtWith(call)
    <3>1. /\ times <= Backoffs + 1 /\ (h \in Up => times <= 1)
          /\ h \notin call.failed => times > 0
      BY <2>3, <2>7 DEF Served
    <3>2. h \in call.targets
      BY <2>7 DEF DealtWith
    <3>3. Succeeded(d) => times > 0
      BY <2>2, <3>1 DEF Succeeded
    <3>4. d \notin cancelled /\ h \in Up => times = 1
      BY <2>3, <3>1
    <3> QED BY <2>1, <2>2, <3>1, <3>2, <3>3, <3>4
  <2> QED BY <2>5, <2>6, <2>7 DEF DealtWith
<1> QED BY <1>1, <1>2 DEF EachTargetServed
-----------------------------------------------------------------------------
(* Notices: the log can be believed.                                       *)

NoticeStages == {"idle", "send", "sent", "failed"}
Addresses == Urls \cup {NoUrl}
SenderCall == [pc : NoticeStages, channel : Channels, url : Addresses, notice : Nat]
Posted == [notice : Nat, url : Addresses]

PostOf(call) == [notice |-> call.notice, url |-> call.url]

\* A goroutine that serves no call has no notice.  The notice of one that does
\* is not logged yet, is not posted before its turn, and is posted once the
\* goroutine takes it for sent.
SenderAt(call) ==
    /\ call.pc = "idle" <=> call.notice = 0
    /\ call.pc # "idle" => \A n \in noticeLog : n.notice # call.notice
    /\ call.pc = "send" => \A p \in posted : p.notice # call.notice
    /\ call.pc = "sent" /\ call.channel = "webhook" => PostOf(call) \in posted

NoticeTables ==
    /\ prefs \in [Channels -> Addresses \cup {NoPreference}]
    /\ slack \in [url : Addresses, sent : BOOLEAN]
    /\ slack.sent => Enabled(slack)
    /\ noticeLog \subseteq Notice
    /\ posted \subseteq Posted

NoticeInv ==
    /\ NoticeTables
    /\ NoticesAreHonest
    /\ sender \in [Senders -> SenderCall]
    /\ \A s \in Senders : SenderAt(sender[s])
    /\ \A s, o \in Senders : sender[s].notice = sender[o].notice /\ s # o
                                => sender[s].notice = 0

LEMMA NoticeInitInv == NoticeInit => NoticeInv
<1> SUFFICES ASSUME NoticeInit PROVE NoticeInv
  OBVIOUS
<1>1. NoticeTables
  <2>1. PICK url \in Addresses : slack = [url |-> url, sent |-> FALSE]
    BY DEF NoticeInit, NewClient, Addresses
  <2>2. slack \in [url : Addresses, sent : BOOLEAN] /\ ~slack.sent
    BY <2>1
  <2>3. prefs \in [Channels -> Addresses \cup {NoPreference}]
    BY DEF NoticeInit
  <2> QED BY <2>2, <2>3 DEF NoticeInit, NoticeTables
<1>2. NotSending \in SenderCall /\ NotSending.pc = "idle" /\ NotSending.notice = 0
  BY DEF NotSending, SenderCall, NoticeStages, Channels, Addresses
<1>3. sender \in [Senders -> SenderCall] /\ \A s \in Senders : sender[s] = NotSending
  BY <1>2 DEF NoticeInit
<1>4. SenderAt(NotSending)
  BY <1>2 DEF SenderAt
<1>5. NoticesAreHonest
  BY DEF NoticeInit, NoticesAreHonest
<1> QED BY <1>1, <1>2, <1>3, <1>4, <1>5 DEF NoticeInv

\* One goroutine goes on to next, which keeps its notice or gives it up.
LEMMA SenderMoves ==
    ASSUME NoticeInv, NEW s \in Senders, NEW next \in SenderCall,
           sender' = [sender EXCEPT ![s] = next],
           NoticeTables', NoticesAreHonest', SenderAt(next)',
           \A o \in Senders \ {s}, call \in SenderCall :
              call = sender[o] => SenderAt(call)',
           next.notice = 0 \/ \A o \in Senders \ {s} : sender[o].notice # next.notice
    PROVE  NoticeInv'
<1>1. /\ sender' \in [Senders -> SenderCall] /\ sender'[s] = next
      /\ \A o \in Senders \ {s} : sender'[o] = sender[o]
  BY DEF NoticeInv
<1>2. ASSUME NEW o \in Senders PROVE SenderAt(sender[o])'
  <2>1. PICK call \in SenderCall : call = sender'[o]
    BY <1>1
  <2>2. SenderAt(call)'
    BY <1>1, <2>1
  <2> QED BY <2>1, <2>2
<1>3. ASSUME NEW o \in Senders, NEW u \in Senders, o # u,
             sender'[o].notice = sender'[u].notice
      PROVE  sender'[o].notice = 0
  <2>1. CASE o = s
    BY <1>1, <1>3, <2>1
  <2>2. CASE u = s
    BY <1>1, <1>3, <2>2
  <2>3. CASE o # s /\ u # s
    BY <1>1, <1>3, <2>3 DEF NoticeInv
  <2> QED BY <2>1, <2>2, <2>3
<1> QED BY <1>1, <1>2, <1>3 DEF NoticeInv

LEMMA PreferencesRead ==
    ASSUME NoticeTables
    PROVE  GetPreferences.channel \in Channels /\ GetPreferences.url \in Addresses
<1>1. PICK webhook, slackRow : webhook = prefs["webhook"] /\ slackRow = prefs["slack"]
  OBVIOUS
<1>2. /\ webhook \in Addresses \cup {NoPreference}
      /\ slackRow \in Addresses \cup {NoPreference}
  BY <1>1 DEF NoticeTables, Channels
<1>3. CASE webhook # NoPreference
  <2>1. GetPreferences = [channel |-> "webhook", url |-> webhook]
    BY <1>1, <1>3 DEF GetPreferences, StoredPreference
  <2> QED BY <1>2, <1>3, <2>1 DEF Channels
<1>4. CASE webhook = NoPreference /\ slackRow # NoPreference
  <2>1. GetPreferences = [channel |-> "slack", url |-> slackRow]
    BY <1>1, <1>4 DEF GetPreferences, StoredPreference
  <2> QED BY <1>2, <1>4, <2>1 DEF Channels
<1>5. CASE webhook = NoPreference /\ slackRow = NoPreference
  <2>1. GetPreferences = [channel |-> "webhook", url |-> NoUrl]
    BY <1>1, <1>5 DEF GetPreferences, StoredPreference
  <2> QED BY <2>1 DEF Channels, Addresses
<1> QED BY <1>3, <1>4, <1>5

\* The next notice is read with the preferences of the moment.
LEMMA ReadNoticeInv ==
    ASSUME NoticeInv, NEW s \in Senders, handleSendNotification(s)
    PROVE  NoticeInv'
<1>1. PICK channel \in Channels, url \in Addresses :
         channel = GetPreferences.channel /\ url = GetPreferences.url
  BY PreferencesRead DEF NoticeInv
<1>2. PICK notice \in 1 .. MaxNotices :
         /\ \A p \in noticeLog \cup posted : p.notice # notice
         /\ \A o \in Senders : sender[o].notice # notice
         /\ sender' = [sender EXCEPT ![s] = [pc |-> "send", notice |-> notice,
                                             channel |-> channel, url |-> url]]
  BY <1>1 DEF handleSendNotification
<1>3. PICK next : next = [pc |-> "send", notice |-> notice, channel |-> channel, url |-> url]
  OBVIOUS
<1>4. /\ next \in SenderCall /\ next.pc = "send" /\ next.notice = notice
      /\ notice # 0
  BY <1>2, <1>3, NoticesAssumption DEF SenderCall, NoticeStages
<1>5. UNCHANGED <<prefs, noticeLog, posted, slack>>
  BY DEF handleSendNotification
<1>6. NoticeTables' /\ NoticesAreHonest'
  BY <1>5 DEF NoticeInv, NoticeTables, NoticesAreHonest, Enabled
<1>7. SenderAt(next)'
  BY <1>2, <1>4, <1>5 DEF SenderAt
<1>8. \A o \in Senders \ {s}, call \in SenderCall : call = sender[o] => SenderAt(call)'
  BY <1>5 DEF NoticeInv, SenderAt
<1>9. sender' = [sender EXCEPT ![s] = next]
  BY <1>2, <1>3
<1> QED BY <1>2, <1>4, <1>6, <1>7, <1>8, <1>9, SenderMoves

\* The post of a notice, which may arrive although it is called failed.
LEMMA PostNoticeInv ==
    ASSUME NoticeInv, NEW s \in Senders, SendNotification(s)
    PROVE  NoticeInv'
<1>1. PICK call \in SenderCall : call = sender[s]
  BY DEF NoticeInv
<1>2. /\ SenderAt(call) /\ call.pc = "send" /\ UNCHANGED <<prefs, noticeLog, slack>>
      /\ \A o \in Senders \ {s} : sender[o].notice # call.notice
  BY <1>1 DEF NoticeInv, SendNotification, SenderAt
<1>3. PICK next : /\ next \in {[call EXCEPT !.pc = "sent"], [call EXCEPT !.pc = "failed"]}
                  /\ sender' = [sender EXCEPT ![s] = next]
                  /\ \/ posted' = posted \cup {PostOf(call)}
                     \/ posted' = posted
                        /\ (call.channel = "webhook" => next.pc = "failed")
  BY <1>1 DEF SendNotification, sendWebhook, Failed, PostOf, SenderCall
<1>4. /\ next \in SenderCall /\ next.pc \in {"sent", "failed"}
      /\ next.notice = call.notice /\ next.channel = call.channel /\ PostOf(next) = PostOf(call)
  BY <1>3 DEF SenderCall, NoticeStages, PostOf
<1>5. /\ posted \subseteq posted' /\ posted' \subseteq posted \cup {PostOf(call)}
      /\ PostOf(call) \in Posted /\ PostOf(call).notice = call.notice
  BY <1>3 DEF PostOf, Posted, SenderCall
<1>6. NoticeTables'
  BY <1>2, <1>5 DEF NoticeInv, NoticeTables, Enabled
<1>7. NoticesAreHonest'
  <2>1. \A n, m \in posted' : n.notice = m.notice => n = m
    BY <1>2, <1>5 DEF NoticeInv, NoticesAreHonest, SenderAt
  <2> QED BY <1>2, <1>5, <2>1 DEF NoticeInv, NoticesAreHonest
<1>8. SenderAt(next)'
  BY <1>2, <1>3, <1>4 DEF SenderAt
<1>9. ASSUME NEW o \in Senders \ {s}, NEW other \in SenderCall, other = sender[o]
      PROVE  SenderAt(other)'
  <2>1. SenderAt(other) /\ other.notice # call.notice
    BY <1>2, <1>9 DEF NoticeInv
  <2> QED BY <1>2, <1>5, <2>1 DEF SenderAt
<1>10. \A o \in Senders \ {s}, other \in SenderCall :
          other = sender[o] => SenderAt(other)'
  BY <1>9
<1>11. /\ next \in SenderCall /\ sender' = [sender EXCEPT ![s] = next]
       /\ \A o \in Senders \ {s} : sender[o].notice # next.notice
  BY <1>2, <1>3, <1>4
<1> QED BY <1>6, <1>7, <1>8, <1>10, <1>11, SenderMoves

\* The row of the log, if it is written.
LEMMA LogNoticeInv ==
    ASSUME NoticeInv, NEW s \in Senders, LogNotification(s)
    PROVE  NoticeInv'
<1>1. PICK call \in SenderCall : call = sender[s]
  BY DEF NoticeInv
<1>2. PICK row : row = [notice |-> call.notice, channel |-> call.channel,
                        url |-> call.url, status |-> call.pc]
  OBVIOUS
<1>3. /\ SenderAt(call) /\ call.pc \in {"sent", "failed"}
      /\ UNCHANGED <<prefs, posted, slack>>
      /\ sender' = [sender EXCEPT ![s] = NotSending]
      /\ noticeLog \subseteq noticeLog' /\ noticeLog' \subseteq noticeLog \cup {row}
      /\ \A o \in Senders \ {s} : sender[o].notice # call.notice
  BY <1>1, <1>2 DEF NoticeInv, LogNotification, SenderAt
<1>4. /\ row \in Notice /\ row.notice = call.notice /\ row.status = call.pc
      /\ row.channel = call.channel /\ [notice |-> row.notice, url |-> row.url] = PostOf(call)
  BY <1>2, <1>3 DEF Notice, SenderCall, Addresses, PostOf
<1>5. NoticeTables'
  BY <1>3, <1>4 DEF NoticeInv, NoticeTables, Enabled
<1>6. NoticesAreHonest'
  <2>1. \A n, m \in noticeLog' : n.notice = m.notice => n = m
    BY <1>3, <1>4 DEF NoticeInv, NoticesAreHonest, SenderAt
  <2>2. ASSUME NEW n \in noticeLog', n.status = "sent", n.channel = "webhook"
        PROVE  [notice |-> n.notice, url |-> n.url] \in posted
    <3>1. CASE n \in noticeLog
      BY <2>2, <3>1 DEF NoticeInv, NoticesAreHonest
    <3>2. CASE n = row
      BY <1>3, <1>4, <2>2, <3>2 DEF SenderAt
    <3> QED BY <1>3, <3>1, <3>2
  <2> QED BY <1>3, <2>1, <2>2 DEF NoticeInv, NoticesAreHonest
<1>7. /\ NotSending \in SenderCall /\ NotSending.notice = 0 /\ NotSending.pc = "idle"
  BY DEF NotSending, SenderCall, NoticeStages, Channels, Addresses
<1>8. SenderAt(NotSending)'
  BY <1>7 DEF SenderAt
<1>9. ASSUME NEW o \in Senders \ {s}, NEW other \in SenderCall, other = sender[o]
      PROVE  SenderAt(other)'
  <2>1. SenderAt(other) /\ other.notice # call.notice
    BY <1>3, <1>9 DEF NoticeInv
  <2> QED BY <1>3, <1>4, <2>1 DEF SenderAt
<1> QED BY <1>3, <1>5, <1>6, <1>7, <1>8, <1>9, SenderMoves

LEMMA NextNoticeInv == NoticeInv /\ [NoticeNext]_noticeVars => NoticeInv'
<1> SUFFICES ASSUME NoticeInv, [NoticeNext]_noticeVars PROVE NoticeInv'
  OBVIOUS
<1>1. ASSUME UNCHANGED <<sender, noticeLog, posted>>, NoticeTables'
      PROVE  NoticeInv'
  BY <1>1 DEF NoticeInv, NoticesAreHonest, SenderAt
<1>2. CASE handleSetPreferences
  BY <1>1, <1>2 DEF handleSetPreferences, SetPreferences, UpsertPreference, NoticeInv,
     NoticeTables, Addresses, Enabled
<1>3. ASSUME NEW url \in Addresses, handleConfigureSlack(url)
      PROVE  NoticeInv'
  BY <1>1, <1>3 DEF handleConfigureSlack, NewClient, NoticeInv, NoticeTables, Enabled
<1>4. CASE Send
  BY <1>1, <1>4 DEF Send, NoticeInv, NoticeTables, Enabled
<1>5. CASE UNCHANGED noticeVars
  BY <1>1, <1>5 DEF noticeVars, NoticeInv, NoticeTables, Enabled
<1> QED BY <1>2, <1>3, <1>4, <1>5, ReadNoticeInv, PostNoticeInv, LogNoticeInv
        DEF NoticeNext, Addresses

LEMMA NoticeInvHonest == NoticeInv => NoticeTypeOK /\ NoticesAreHonest
BY DEF NoticeInv, NoticeTables, NoticeTypeOK, SenderCall, NoticeStages, Addresses,
       handleSlackStatus

-----------------------------------------------------------------------------
(* The server towards its peers (MCA2AServer).                             *)

PeersInv == A2ATypeOK /\ HookInv /\ NoticeInv

LEMMA PeersInvAlways == MCSpec => []PeersInv
<1>1. MCInit => PeersInv
  BY InitTypeOK, HookInitInv, NoticeInitInv DEF MCInit, PeersInv
<1>2. PeersInv /\ [MCNext]_mcVars => PeersInv'
  <2>1. [MCNext]_mcVars => /\ [A2ANext]_a2aVars
                           /\ [HookNext]_hookVars
                           /\ [NoticeNext]_noticeVars
    BY DEF MCNext, mcVars, Quiet
  <2> QED BY <2>1, NextTypeOK, NextHookInv, NextNoticeInv DEF PeersInv
<1> QED BY <1>1, <1>2, PTL DEF MCSpec

(***************************************************************************)
(* What is reported as delivered was delivered, for any number of          *)
(* subscribers, events, retries, goroutines and addresses: Dispatch serves *)
(* every subscriber it read, once if it answers, whatever the others do    *)
(* (deliverWithRetry, webhooks/engine.go), and a notice the log calls sent *)
(* has arrived (SendNotification, notify/engine.go).                       *)
(***************************************************************************)
THEOREM DeliveryIsHonestAlways == MCSpec => []DeliveryIsHonest
<1>1. PeersInv => DeliveryIsHonest
  BY HookInvServes, NoticeInvHonest DEF PeersInv, DeliveryIsHonest
<1> QED BY <1>1, PeersInvAlways, PTL

(***************************************************************************)
(* The tables of the three desks keep their types, no delivery is tried    *)
(* more often than there are pauses, and a Slack client that has sent is   *)
(* configured (the a2a, webhooks, notify and slack packages).              *)
(***************************************************************************)
THEOREM PeersTypeCorrect == MCSpec => []MCTypeOK
<1>1. PeersInv => MCTypeOK
  BY HookInvServes, NoticeInvHonest DEF PeersInv, MCTypeOK
<1> QED BY <1>1, PeersInvAlways, PTL
=============================================================================
