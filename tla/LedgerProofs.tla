---------------------------- MODULE LedgerProofs ----------------------------
(***************************************************************************)
(* Proofs about the money side: the types, that alerts are real, and that  *)
(* what is computed from the ledger agrees, for any vendors, deals, months *)
(* and amounts, any number of clerks and watchers, any report begun at any *)
(* moment, and whatever fails or is written in between.                    *)
(*                                                                         *)
(* First PriceWatch, then the budgets and the allocation of costs, then    *)
(* the reports, each with its inductive invariant; the desks together and  *)
(* the theorems are at the end.                                            *)
(***************************************************************************)
EXTENDS MCLedger, Sums

-----------------------------------------------------------------------------
(* Prices and their alerts.                                                *)

\* There is a snapshot a rule is about at a price.
SnapshotAt(x, price) == \E s \in About(x) : s.price = price

\* A price that a refresh can make of a list price.
Near(price, list) ==
    9700 * list - 5000 < 10000 * price /\ 10000 * price <= 10300 * list + 5000

LEMMA VariedNear ==
    ASSUME NEW list \in Nat, NEW change \in Int, -300 <= change, change <= 300
    PROVE  Varied(list, change) \in Nat /\ Near(Varied(list, change), list)
<1>1. PICK c \in Nat : c = change + 300 /\ c <= 600
  OBVIOUS
<1>2. PICK x \in Nat : x = list * c /\ x <= 600 * list
  <2>1. list * c \in Nat /\ list * c <= list * 600
    BY <1>1
  <2> QED BY <2>1
<1>3. list * (10000 + change) = list * 9700 + list * c
  BY <1>1
<1>4. PICK y \in Nat : y = 9700 * list + x
  BY <1>2
<1>5. list * (10000 + change) = y
  BY <1>2, <1>3, <1>4
<1>6. Varied(list, change) = (y + 5000) \div 10000
  BY <1>5 DEF Varied
<1>7. PICK z \in Int : z = (y + 5000) \div 10000
  BY <1>4
<1>8. 10000 * z <= y + 5000 /\ y + 5000 < 10000 * z + 10000
  BY <1>7
<1> QED BY <1>2, <1>4, <1>6, <1>7, <1>8 DEF Near

\* Where the list price has not come down, the variation alone makes no drop
\* of six percent, except for very low prices.
LEMMA VariationIsSmall ==
    ASSUME NEW base \in Nat, NEW was \in Nat, NEW price \in Nat, NEW list \in Nat,
           Near(base, was), Near(price, list), was <= list, 518 <= list
    PROVE  100 * (base - price) < 6 * base
<1>1. 10000 * base <= 10300 * list + 5000 /\ 9700 * list - 5000 < 10000 * price
  BY DEF Near
<1>2. CASE list >= 539
  BY <1>1, <1>2
<1>3. CASE list < 539
  BY <1>1, <1>3
<1> QED BY <1>2, <1>3

\* A drop by at least a share of the baseline.
LEMMA DropOf ==
    ASSUME NEW base, NEW price, NEW threshold \in Nat, base \in Int, price \in Int,
           DropMet(base, price, threshold)
    PROVE  /\ base > 0 /\ price > 0
           /\ 100 * price <= (100 - threshold) * base
           /\ threshold >= 6 => 100 * (base - price) >= 6 * base
<1>1. base > 0 /\ price > 0 /\ 100 * (base - price) >= threshold * base
  BY DEF DropMet
<1>2. PICK x \in Nat : x = threshold * base
  BY <1>1
<1>3. (100 - threshold) * base = 100 * base - x
  BY <1>2
<1>4. threshold >= 6 => 6 * base <= x
  BY <1>2
<1> QED BY <1>1, <1>2, <1>3, <1>4

WatchStages == {"idle", "refresh", "price", "baseline", "check", "compare"}

RuleRow == [about : Subjects, threshold : Nat]

WatchCall == [pc : WatchStages, todo : SUBSET (Subjects \cup RuleRow), base : Nat,
              count : Nat]

\* What a goroutine has read is, or was, in the tables.
HasRead(call) ==
    /\ call.pc = "refresh" => call.todo \subseteq Products
    /\ call.pc \in {"price", "baseline"} => call.todo \subseteq Subjects
    /\ call.pc = "refresh" => \A p \in call.todo : listPrice[p] \in ListPrices
    /\ call.pc = "baseline" => \A x \in call.todo : SnapshotAt(x, call.base)
    /\ call.pc \in {"check", "compare"} => call.todo \subseteq RuleRow
    /\ call.pc \in {"price", "baseline", "compare"} => \A q, r \in call.todo : q = r
    /\ call.pc = "compare" /\ call.base > 0 =>
          \A r \in call.todo : SnapshotAt(r.about, call.base)

WatcherInv ==
    /\ watcher \in [Watchers -> WatchCall]
    /\ \A w \in Watchers, call \in WatchCall : watcher[w] = call => HasRead(call)

\* The tables, and where a price in them comes from, unless it was seeded.
SnapshotInv ==
    /\ day \in Nat /\ day <= LastDay
    /\ snapshots \subseteq Snapshot
    /\ \A s \in snapshots \ Seeded :
          s.price \in Nat /\ s.list \in Nat /\ Near(s.price, s.list)
    /\ listPrice \in [Products -> ListPrices \cup {0}]

BaselineInv ==
    /\ rules \in [Subjects -> [threshold : {0, 10} \cup Thresholds]]
    /\ baselines \in [Subjects -> Nat]
    /\ \A x \in Subjects : baselines[x] > 0 => SnapshotAt(x, baselines[x])

WatchInv == SnapshotInv /\ BaselineInv /\ WatcherInv

LEMMA IdleWatcher == Looking \in WatchCall /\ HasRead(Looking)
BY DEF Looking, WatchCall, WatchStages, HasRead

\* The rows of a seed file are snapshots.
LEMMA SeedsAreSnapshots == \A file \in SeedFiles : file \subseteq Snapshot /\ file \subseteq Seeded
BY PriceWatchAssumption DEF Snapshot, Seeded

LEMMA WatchInitInv == WatchInit => WatchInv
<1> SUFFICES ASSUME WatchInit PROVE WatchInv
  OBVIOUS
<1>1. SnapshotInv
  <2>1. snapshots \subseteq Snapshot /\ snapshots \subseteq Seeded
    BY SeedsAreSnapshots DEF WatchInit
  <2>2. day = 0 /\ LastDay \in Nat /\ listPrice = [p \in Products |-> 0]
    BY PriceWatchAssumption DEF WatchInit
  <2> QED BY <2>1, <2>2 DEF SnapshotInv
<1>2. BaselineInv
  BY DEF WatchInit, BaselineInv, NoRule
<1>3. WatcherInv
  BY IdleWatcher DEF WatchInit, WatcherInv
<1> QED BY <1>1, <1>2, <1>3 DEF WatchInv

\* Snapshots and prices stay, so what was read stays read.
LEMMA StillRead ==
    ASSUME NEW call, HasRead(call), snapshots \subseteq snapshots',
           \A p \in Products : listPrice[p] \in ListPrices => listPrice'[p] \in ListPrices
    PROVE  HasRead(call)'
<1>1. \A x, price : SnapshotAt(x, price) => SnapshotAt(x, price)'
  BY DEF SnapshotAt, About
<1> QED BY <1>1 DEF HasRead

LEMMA WatchersKept ==
    ASSUME WatcherInv, UNCHANGED watcher, snapshots \subseteq snapshots',
           \A p \in Products : listPrice[p] \in ListPrices => listPrice'[p] \in ListPrices
    PROVE  WatcherInv'
<1>1. ASSUME NEW w \in Watchers, NEW call \in WatchCall, watcher'[w] = call
      PROVE  HasRead(call)'
  BY <1>1, StillRead DEF WatcherInv
<1> QED BY <1>1 DEF WatcherInv

LEMMA WatcherMoved ==
    ASSUME WatcherInv, snapshots \subseteq snapshots', UNCHANGED listPrice,
           NEW w \in Watchers, NEW next \in WatchCall, HasRead(next)',
           watcher' = [watcher EXCEPT ![w] = next]
    PROVE  WatcherInv'
<1>1. watcher' \in [Watchers -> WatchCall]
  BY DEF WatcherInv
<1>2. ASSUME NEW x \in Watchers, NEW call \in WatchCall, watcher'[x] = call
      PROVE  HasRead(call)'
  <2>1. CASE x = w
    BY <1>2, <2>1 DEF WatcherInv
  <2>2. CASE x # w
    <3>1. watcher[x] = call
      BY <1>2, <2>2 DEF WatcherInv
    <3>2. HasRead(call)
      BY <3>1 DEF WatcherInv
    <3> QED BY <3>2, StillRead
  <2> QED BY <2>1, <2>2
<1> QED BY <1>1, <1>2 DEF WatcherInv

LEMMA SavedSnapshot ==
    ASSUME SnapshotInv, NEW p \in Products, listPrice[p] \in ListPrices, NEW price \in Nat,
           Near(price, listPrice[p]), SaveSnapshot(p, price), UNCHANGED <<day, listPrice>>
    PROVE  SnapshotInv' /\ snapshots \subseteq snapshots'
<1>1. PICK s : s = [product |-> p, price |-> price, list |-> listPrice[p], day |-> day]
  OBVIOUS
<1>2. snapshots' = snapshots \cup {s}
  BY <1>1 DEF SaveSnapshot
<1>a. listPrice[p] \in Nat
  BY PriceWatchAssumption
<1>3. s \in Snapshot
  BY <1>1, <1>a DEF SnapshotInv, Snapshot
<1>4. s.price \in Nat /\ s.list \in Nat /\ Near(s.price, s.list)
  BY <1>1, <1>a
<1>5. \A t \in snapshots' \ Seeded : t.price \in Nat /\ t.list \in Nat /\ Near(t.price, t.list)
  BY <1>2, <1>4 DEF SnapshotInv
<1>6. snapshots' \subseteq Snapshot
  BY <1>2, <1>3 DEF SnapshotInv
<1> QED BY <1>2, <1>5, <1>6 DEF SnapshotInv, Near, Seeded

LEMMA BaselinesKept ==
    ASSUME BaselineInv, UNCHANGED <<rules, baselines>>, snapshots \subseteq snapshots'
    PROVE  BaselineInv'
BY DEF BaselineInv, SnapshotAt, About

\* The price in a reply of GetLatest is one of a snapshot, or 0.
LEMMA LatestIsSnapshot ==
    ASSUME NEW x, NEW price \in GetLatest(x), price # 0
    PROVE  SnapshotAt(x, price)
BY DEF GetLatest, SnapshotAt

\* It is of the last date.
LEMMA LatestIsLast ==
    ASSUME NEW x, NEW price \in GetLatest(x), price # 0
    PROVE  \E t \in About(x) : t.price = price /\ \A s \in About(x) : t.day >= s.day
BY DEF GetLatest

LEMMA NextPricesInv ==
    ASSUME WatchInv, [WatchNext]_watchVars PROVE SnapshotInv' /\ snapshots \subseteq snapshots'
                        /\ \A p \in Products : listPrice[p] \in ListPrices =>
                                                   listPrice'[p] \in ListPrices
<1> USE DEF WatchInv
<1>1. CASE UNCHANGED <<day, snapshots, listPrice>>
  BY <1>1 DEF SnapshotInv, Near, Seeded
<1>2. CASE NextDay
  BY <1>2, PriceWatchAssumption DEF NextDay, SnapshotInv, Near, Seeded
<1>3. ASSUME NEW p \in Products, NEW list \in ListPrices, importPricing(p, list)
      PROVE  /\ SnapshotInv' /\ snapshots \subseteq snapshots'
             /\ \A q \in Products : listPrice[q] \in ListPrices => listPrice'[q] \in ListPrices
  BY <1>3 DEF importPricing, SnapshotInv, Near, Seeded
<1>4. ASSUME NEW file \in SeedFiles \cup {{}}, seedSnapshots(file)
      PROVE  /\ SnapshotInv' /\ snapshots \subseteq snapshots' /\ UNCHANGED listPrice
  <2>1. file \subseteq Snapshot /\ file \subseteq Seeded
    BY SeedsAreSnapshots
  <2>2. snapshots' \in {snapshots, snapshots \cup file} /\ UNCHANGED <<day, listPrice>>
    BY <1>4 DEF seedSnapshots
  <2>3. snapshots \subseteq snapshots' /\ snapshots' \subseteq Snapshot
        /\ snapshots' \ Seeded \subseteq snapshots
    BY <2>1, <2>2 DEF SnapshotInv
  <2> QED BY <2>2, <2>3 DEF SnapshotInv, Near, Seeded
<1>5. ASSUME NEW w \in Watchers, SaveRow(w)
      PROVE  /\ SnapshotInv' /\ snapshots \subseteq snapshots' /\ UNCHANGED listPrice
  <2>1. PICK call \in WatchCall : watcher[w] = call /\ HasRead(call)
    BY DEF WatcherInv
  <2>2. call.pc = "refresh" /\ UNCHANGED <<day, listPrice>>
    BY <1>5, <2>1 DEF SaveRow
  <2>3. PICK p \in call.todo :
           \/ \E change \in Variations : SaveSnapshot(p, Varied(listPrice[p], change))
           \/ UNCHANGED snapshots
    BY <1>5, <2>1 DEF SaveRow
  <2>4. p \in Products /\ listPrice[p] \in ListPrices
    BY <2>1, <2>2, <2>3 DEF HasRead
  <2>5. ASSUME NEW change \in Variations, SaveSnapshot(p, Varied(listPrice[p], change))
        PROVE  SnapshotInv' /\ snapshots \subseteq snapshots'
    <3>1. change \in Int /\ -300 <= change /\ change <= 300 /\ listPrice[p] \in Nat
      BY <2>4, PriceWatchAssumption
    <3>2. PICK list, price : list = listPrice[p] /\ price = Varied(list, change)
      BY <3>1
    <3>3. price \in Nat /\ Near(price, list)
      BY <3>1, <3>2, VariedNear
    <3>4. SaveSnapshot(p, price)
      BY <2>5, <3>2
    <3> QED BY <2>2, <2>4, <3>2, <3>3, <3>4, SavedSnapshot
  <2>6. CASE UNCHANGED snapshots
    BY <2>2, <2>6 DEF SnapshotInv, Near, Seeded
  <2> QED BY <2>2, <2>3, <2>5, <2>6
<1>6. ASSUME NEW w \in Watchers,
             \/ \E asked \in (SUBSET Products) \ {{}} : Refresh(w, asked)
             \/ handleRefreshPricing(w)
             \/ \E x \in Subjects, threshold \in Thresholds : EnableAlert(w, x, threshold)
             \/ ReadPrice(w) \/ handleEnablePriceAlert(w) \/ CheckAlerts(w)
             \/ GetBaseline(w) \/ EvaluateRule(w)
      PROVE  UNCHANGED <<day, snapshots, listPrice>>
  BY <1>6 DEF Refresh, handleRefreshPricing, EnableAlert, ReadPrice, handleEnablePriceAlert,
              CheckAlerts, GetBaseline, EvaluateRule
<1>7. handleDisablePriceAlert => UNCHANGED <<day, snapshots, listPrice>>
  BY DEF handleDisablePriceAlert, DisableAlert
<1> QED BY <1>1, <1>2, <1>3, <1>4, <1>5, <1>6, <1>7 DEF WatchNext, watchVars, NextDay

LEMMA NextBaselineInv ==
    ASSUME WatchInv, [WatchNext]_watchVars, snapshots \subseteq snapshots'
    PROVE  BaselineInv'
<1> USE DEF WatchInv
<1>1. CASE UNCHANGED <<rules, baselines>>
  BY <1>1, BaselinesKept
<1>2. ASSUME NEW w \in Watchers, NEW x \in Subjects, NEW threshold \in Thresholds,
             EnableAlert(w, x, threshold)
      PROVE  BaselineInv'
  <2>1. PICK row : row = [threshold |-> IF threshold <= 0 THEN 10 ELSE threshold]
    OBVIOUS
  <2>2. rules' = [rules EXCEPT ![x] = row] /\ UNCHANGED <<baselines, snapshots>>
    BY <1>2, <2>1 DEF EnableAlert, SetRule
  <2>3. row \in [threshold : {0, 10} \cup Thresholds]
    BY <2>1
  <2> QED BY <2>2, <2>3 DEF BaselineInv, SnapshotAt, About
<1>3. ASSUME NEW x \in Subjects, DisableAlert(x) PROVE BaselineInv'
  BY <1>3 DEF DisableAlert, BaselineInv, SnapshotAt, About, NoRule
<1>4. ASSUME NEW w \in Watchers, handleEnablePriceAlert(w) PROVE BaselineInv'
  <2>1. PICK call \in WatchCall : watcher[w] = call /\ HasRead(call)
    BY DEF WatcherInv
  <2>2. CASE UNCHANGED baselines
    BY <1>1, <1>4, <2>2 DEF handleEnablePriceAlert
  <2>3. CASE \E x \in call.todo : SetBaseline(x, call.base)
    <3>1. PICK x \in call.todo : baselines' = [baselines EXCEPT ![x] = call.base]
      BY <2>3 DEF SetBaseline
    <3>2. call.pc = "baseline" /\ UNCHANGED <<snapshots, rules>>
      BY <1>4, <2>1 DEF handleEnablePriceAlert
    <3>3. x \in Subjects /\ SnapshotAt(x, call.base) /\ call.base \in Nat
      BY <2>1, <3>1, <3>2 DEF HasRead, WatchCall
    <3>4. baselines' \in [Subjects -> Nat]
      BY <3>1, <3>3 DEF BaselineInv
    <3>5. \A y \in Subjects : baselines'[y] = IF y = x THEN call.base ELSE baselines[y]
      BY <3>1, <3>3 DEF BaselineInv
    <3> QED BY <3>2, <3>3, <3>4, <3>5 DEF BaselineInv, SnapshotAt, About
  <2> QED BY <1>4, <2>1, <2>2, <2>3 DEF handleEnablePriceAlert
<1>5. ASSUME NEW w \in Watchers,
             \/ \E asked \in (SUBSET Products) \ {{}} : Refresh(w, asked)
             \/ SaveRow(w) \/ handleRefreshPricing(w) \/ ReadPrice(w)
             \/ CheckAlerts(w) \/ GetBaseline(w) \/ EvaluateRule(w)
      PROVE  UNCHANGED <<rules, baselines>>
  BY <1>5 DEF Refresh, SaveRow, handleRefreshPricing, ReadPrice, CheckAlerts, GetBaseline,
              EvaluateRule
<1>6. ASSUME \/ \E p \in Products, list \in ListPrices : importPricing(p, list)
             \/ \E file \in SeedFiles \cup {{}} : seedSnapshots(file)
      PROVE  UNCHANGED <<rules, baselines>>
  BY <1>6 DEF importPricing, seedSnapshots
<1>7. NextDay \/ UNCHANGED watchVars => UNCHANGED <<rules, baselines>>
  BY DEF NextDay, watchVars
<1>8. CASE handleDisablePriceAlert
  BY <1>3, <1>8 DEF handleDisablePriceAlert
<1>9. CASE \E w \in Watchers, x \in Subjects, threshold \in Thresholds :
              EnableAlert(w, x, threshold)
  BY <1>2, <1>9
<1>10. CASE \E w \in Watchers : handleEnablePriceAlert(w)
  BY <1>4, <1>10
<1> QED BY <1>1, <1>5, <1>6, <1>7, <1>8, <1>9, <1>10 DEF WatchNext

LEMMA NextWatcherInv ==
    ASSUME WatchInv, [WatchNext]_watchVars, snapshots \subseteq snapshots',
           \A p \in Products : listPrice[p] \in ListPrices => listPrice'[p] \in ListPrices
    PROVE  WatcherInv'
<1> USE DEF WatchInv
<1>1. CASE UNCHANGED watcher
  BY <1>1, WatchersKept
<1>2. ASSUME NEW w \in Watchers, NEW asked \in (SUBSET Products) \ {{}}, Refresh(w, asked)
      PROVE  WatcherInv'
  <2>1. PICK todo : todo = {p \in asked : listPrice[p] > 0}
    OBVIOUS
  <2>2. PICK next : next = [pc |-> "refresh", todo |-> todo, base |-> Cardinality(todo),
                            count |-> 0]
    OBVIOUS
  <2>3. watcher' = [watcher EXCEPT ![w] = next] /\ UNCHANGED <<snapshots, listPrice>>
    BY <1>2, <2>1, <2>2 DEF Refresh
  <2>4. todo \subseteq Products /\ Cardinality(todo) \in Nat
    BY <2>1, PriceWatchAssumption, FS_Subset, FS_CardinalityType
  <2>5. next \in WatchCall
    BY <2>2, <2>4 DEF WatchCall, WatchStages, Subjects
  <2>6. \A p \in todo : listPrice[p] \in ListPrices
    BY <2>1 DEF SnapshotInv
  <2>7. HasRead(next)'
    BY <2>2, <2>3, <2>4, <2>6 DEF HasRead
  <2> QED BY <2>3, <2>5, <2>7, WatcherMoved
<1>3. ASSUME NEW w \in Watchers, SaveRow(w) PROVE WatcherInv'
  <2>1. PICK call \in WatchCall : watcher[w] = call /\ HasRead(call)
    BY DEF WatcherInv
  <2>2. call.pc = "refresh" /\ UNCHANGED listPrice
    BY <1>3, <2>1 DEF SaveRow
  <2>a. PICK p \in call.todo : Refreshed(w, p, TRUE) \/ Refreshed(w, p, FALSE)
    BY <1>3, <2>1 DEF SaveRow
  <2>b. PICK n : /\ n \in {call.count, call.count + 1}
                 /\ watcher' = [watcher EXCEPT ![w].todo = @ \ {p}, ![w].count = n]
    BY <2>1, <2>a DEF Refreshed, WatcherInv, WatchCall
  <2>3. watcher' = [watcher EXCEPT ![w] = [call EXCEPT !.todo = call.todo \ {p},
                                                       !.count = n]]
    BY <2>1, <2>b DEF WatcherInv, WatchCall
  <2>4. PICK next : next = [call EXCEPT !.todo = call.todo \ {p}, !.count = n]
    OBVIOUS
  <2>c. n \in Nat /\ call.todo \ {p} \in SUBSET (Subjects \cup RuleRow)
    BY <2>b DEF WatchCall
  <2>5. next \in WatchCall
    BY <2>4, <2>c DEF WatchCall
  <2>d. next.pc = "refresh" /\ next.todo \subseteq call.todo
    BY <2>2, <2>4 DEF WatchCall
  <2>6. HasRead(next)'
    BY <2>1, <2>2, <2>d DEF HasRead
  <2>7. watcher' = [watcher EXCEPT ![w] = next]
    BY <2>3, <2>4
  <2> QED BY <2>2, <2>5, <2>6, <2>7, WatcherMoved
<1>4. ASSUME NEW w \in Watchers,
             handleRefreshPricing(w) \/ handleEnablePriceAlert(w) \/ EvaluateRule(w)
      PROVE  WatcherInv'
  <2>1. watcher' = [watcher EXCEPT ![w] = Looking] /\ UNCHANGED listPrice
    BY <1>4 DEF handleRefreshPricing, handleEnablePriceAlert, EvaluateRule
  <2>2. Looking \in WatchCall /\ HasRead(Looking)'
    BY DEF Looking, WatchCall, WatchStages, HasRead
  <2> QED BY <2>1, <2>2, WatcherMoved
<1>5. ASSUME NEW w \in Watchers, NEW x \in Subjects, NEW threshold \in Thresholds,
             EnableAlert(w, x, threshold)
      PROVE  WatcherInv'
  <2>1. PICK next : next = [Looking EXCEPT !.pc = "price", !.todo = {x}]
    OBVIOUS
  <2>2. watcher' = [watcher EXCEPT ![w] = next] /\ UNCHANGED listPrice
    BY <1>5, <2>1 DEF EnableAlert
  <2>3. next \in WatchCall /\ next.pc = "price" /\ next.todo = {x}
    BY <2>1 DEF Looking, WatchCall, WatchStages
  <2>4. HasRead(next)'
    BY <2>3 DEF HasRead
  <2> QED BY <2>2, <2>3, <2>4, WatcherMoved
<1>6. ASSUME NEW w \in Watchers, ReadPrice(w) PROVE WatcherInv'
  <2>1. PICK call \in WatchCall : watcher[w] = call /\ HasRead(call)
    BY DEF WatcherInv
  <2>2. call.pc = "price" /\ UNCHANGED listPrice
    BY <1>6, <2>1 DEF ReadPrice
  <2>b. PICK x \in call.todo : \E price \in GetLatest(x) :
           watcher' = [watcher EXCEPT ![w] = IF price <= 0 THEN Looking
                         ELSE [call EXCEPT !.pc = "baseline", !.base = price]]
    BY <1>6, <2>1 DEF ReadPrice
  <2>3. PICK price \in GetLatest(x) :
           watcher' = [watcher EXCEPT ![w] = IF price <= 0 THEN Looking
                         ELSE [call EXCEPT !.pc = "baseline", !.base = price]]
    BY <2>b
  <2>4. x \in Subjects /\ call.todo = {x}
    BY <2>1, <2>2, <2>3 DEF HasRead
  <2>5. CASE price <= 0
    <3>1. Looking \in WatchCall /\ HasRead(Looking)'
      BY DEF Looking, WatchCall, WatchStages, HasRead
    <3> QED BY <2>2, <2>3, <2>5, <3>1, WatcherMoved
  <2>6. CASE ~(price <= 0)
    <3>1. SnapshotAt(x, price)
      BY <2>6, LatestIsSnapshot
    <3>2. price \in Nat
      BY <2>6, <3>1 DEF SnapshotAt, About, SnapshotInv, Snapshot
    <3>3. PICK next : next = [call EXCEPT !.pc = "baseline", !.base = price]
      OBVIOUS
    <3>4. next \in WatchCall /\ next.pc = "baseline" /\ next.todo = {x} /\ next.base = price
      BY <2>4, <3>2, <3>3 DEF WatchCall, WatchStages
    <3>5. HasRead(next)
      BY <2>4, <3>1, <3>4 DEF HasRead
    <3>6. HasRead(next)'
      BY <3>5, StillRead
    <3>7. watcher' = [watcher EXCEPT ![w] = next]
      BY <2>3, <2>6, <3>3
    <3> QED BY <2>2, <3>4, <3>6, <3>7, WatcherMoved
  <2> QED BY <2>5, <2>6
<1>7. ASSUME NEW w \in Watchers, CheckAlerts(w) PROVE WatcherInv'
  <2>1. PICK next : next = [Looking EXCEPT !.pc = "check", !.todo = ListRules]
    OBVIOUS
  <2>2. watcher' = [watcher EXCEPT ![w] = next] /\ UNCHANGED listPrice
    BY <1>7, <2>1 DEF CheckAlerts
  <2>3. ListRules \subseteq RuleRow
    <3>1. ASSUME NEW x \in Subjects, NEW rule,
                 rule = [about |-> x, threshold |-> rules[x].threshold]
          PROVE  rule \in RuleRow
      <4>1. rules[x].threshold \in Nat
        <5>1. PICK row \in [threshold : {0, 10} \cup Thresholds] : rules[x] = row
          BY DEF BaselineInv
        <5>2. PICK t : t = row.threshold
          OBVIOUS
        <5>3. t \in {0, 10} \cup Thresholds
          BY <5>2
        <5>4. Thresholds \subseteq Nat
          BY PriceWatchAssumption
        <5>5. t \in Nat
          BY ONLY <5>3, <5>4
        <5> QED BY <5>1, <5>2, <5>5
      <4> QED BY <3>1, <4>1 DEF RuleRow
    <3> QED BY <3>1 DEF ListRules
  <2>4. next \in WatchCall /\ next.pc = "check" /\ next.todo \subseteq RuleRow
    BY <2>1, <2>3 DEF Looking, WatchCall, WatchStages
  <2>5. HasRead(next)'
    BY <2>4 DEF HasRead
  <2> QED BY <2>2, <2>4, <2>5, WatcherMoved
<1>8. ASSUME NEW w \in Watchers, GetBaseline(w) PROVE WatcherInv'
  <2>1. PICK call \in WatchCall : watcher[w] = call /\ HasRead(call)
    BY DEF WatcherInv
  <2>2. call.pc = "check" /\ UNCHANGED listPrice /\ call.todo \subseteq RuleRow
    BY <1>8, <2>1 DEF GetBaseline, HasRead
  <2>3. PICK rule \in call.todo :
              watcher' = [watcher EXCEPT ![w] = [call EXCEPT !.pc = "compare",
                                                 !.todo = {rule},
                                                 !.base = baselines[rule.about]]]
    BY ZenonT(60), <1>8, <2>1 DEF GetBaseline
  <2>4. rule \in RuleRow /\ rule.about \in Subjects
    BY <2>2, <2>3 DEF RuleRow
  <2>a. PICK base : base = baselines[rule.about]
    OBVIOUS
  <2>5. base \in Nat /\ (base > 0 => SnapshotAt(rule.about, base))
    BY <2>a, <2>4 DEF BaselineInv
  <2>6. PICK next : next = [call EXCEPT !.pc = "compare", !.todo = {rule}, !.base = base]
    OBVIOUS
  <2>7. /\ next \in WatchCall /\ next.pc = "compare" /\ next.todo = {rule}
        /\ next.base = base
    BY <2>4, <2>5, <2>6 DEF WatchCall, WatchStages
  <2>8. HasRead(next)
    BY <2>4, <2>5, <2>7 DEF HasRead
  <2>9. HasRead(next)'
    BY <2>8, StillRead
  <2>10. watcher' = [watcher EXCEPT ![w] = next]
    BY <2>a, <2>3, <2>6
  <2> QED BY <2>2, <2>7, <2>9, <2>10, WatcherMoved
<1>9. ASSUME NEW p \in Products, NEW list \in ListPrices, importPricing(p, list)
      PROVE  UNCHANGED watcher
  BY <1>9 DEF importPricing
<1>13. ASSUME NEW file \in SeedFiles \cup {{}}, seedSnapshots(file) PROVE WatcherInv'
  <2>1. watcher' = [w \in Watchers |-> Looking]
    BY <1>13 DEF seedSnapshots
  <2>2. Looking \in WatchCall /\ HasRead(Looking)'
    BY DEF Looking, WatchCall, WatchStages, HasRead
  <2> QED BY <2>1, <2>2 DEF WatcherInv
<1>10. NextDay \/ UNCHANGED watchVars \/ handleDisablePriceAlert => UNCHANGED watcher
  BY DEF NextDay, watchVars, handleDisablePriceAlert, DisableAlert
<1>11. CASE \E w \in Watchers : \E asked \in (SUBSET Products) \ {{}} : Refresh(w, asked)
  BY <1>2, <1>11
<1>12. CASE \E w \in Watchers : \E x \in Subjects, threshold \in Thresholds :
               EnableAlert(w, x, threshold)
  BY <1>5, <1>12
<1> QED BY <1>1, <1>3, <1>4, <1>6, <1>7, <1>8, <1>9, <1>10, <1>11, <1>12, <1>13
    DEF WatchNext

LEMMA NextWatchInv == WatchInv /\ [WatchNext]_watchVars => WatchInv'
<1> SUFFICES ASSUME WatchInv, [WatchNext]_watchVars PROVE WatchInv'
  OBVIOUS
<1>1. SnapshotInv' /\ snapshots \subseteq snapshots'
                   /\ \A p \in Products : listPrice[p] \in ListPrices =>
                                              listPrice'[p] \in ListPrices
  BY NextPricesInv
<1> QED BY <1>1, NextBaselineInv, NextWatcherInv DEF WatchInv

LEMMA PricesReal == WatchInv => PriceAlertsAreReal
<1> SUFFICES ASSUME WatchInv, NEW w \in Watchers, watcher[w].pc = "compare",
                    NEW r \in Results(w), r.met
             PROVE  \E s, t \in About(r.rule.about) :
                       /\ s.price = r.base /\ t.price = r.price
                       /\ s.day <= t.day
                       /\ r.rule.about \in Products => s.product = t.product
                       /\ 100 * t.price <= (100 - r.rule.threshold) * s.price
                       /\ r.rule.threshold >= 6 /\ {s, t} \cap Seeded = {} =>
                             t.list < s.list \/ t.list <= 517
  BY DEF PriceAlertsAreReal
<1> USE DEF WatchInv
<1>1. PICK call \in WatchCall : watcher[w] = call /\ HasRead(call) /\ call.pc = "compare"
  BY DEF WatcherInv
<1>a. PICK rule \in call.todo, q \in call.todo : \E price \in GetLatest(q.about) :
         /\ r.rule = rule /\ r.base = call.base /\ r.price = price
         /\ r.met = DropMet(call.base, price, rule.threshold)
  <2>1. PICK rule \in call.todo, price \in UNION {GetLatest(q.about) : q \in call.todo} :
           r = [rule |-> rule, base |-> call.base, price |-> price,
                met |-> DropMet(call.base, price, rule.threshold)]
    BY <1>1 DEF Results
  <2>2. PICK q \in call.todo : price \in GetLatest(q.about)
    BY <2>1
  <2>3. PICK met : met = DropMet(call.base, price, rule.threshold)
    OBVIOUS
  <2>4. r = [rule |-> rule, base |-> call.base, price |-> price, met |-> met]
    BY <2>1, <2>3
  <2>5. r.rule = rule /\ r.base = call.base /\ r.price = price /\ r.met = met
    BY <2>4
  <2> QED BY <2>2, <2>3, <2>5
<1>2. PICK price \in GetLatest(q.about) :
         /\ r.rule = rule /\ r.base = call.base /\ r.price = price
         /\ r.met = DropMet(call.base, price, rule.threshold)
  BY <1>a
<1>3. q = rule /\ rule \in RuleRow /\ call.base \in Nat
  BY <1>1, <1>a DEF HasRead, WatchCall
<1>4. rule.threshold \in Nat
  BY <1>3 DEF RuleRow
<1>5. DropMet(call.base, price, rule.threshold)
  BY <1>2
<1>6. call.base > 0 /\ price > 0
  BY <1>5 DEF DropMet
<1>7. PICK s \in About(rule.about) : s.price = call.base
  BY <1>1, <1>2, <1>6 DEF HasRead, SnapshotAt
<1>8. price # 0
  BY <1>6
<1>9. PICK t \in About(rule.about) : t.price = price /\ \A q_ \in About(rule.about) : t.day >= q_.day
  BY <1>2, <1>3, <1>8, LatestIsLast
<1>10. /\ s \in snapshots /\ t \in snapshots /\ s \in Snapshot /\ t \in Snapshot
       /\ rule.about \in {s.product, SellerOf[s.product]}
       /\ rule.about \in {t.product, SellerOf[t.product]}
  BY <1>7, <1>9 DEF About, SnapshotInv
<1>11. /\ s.price \in Int /\ t.price \in Int /\ s.day \in Int /\ t.day \in Int
       /\ s.product \in Products /\ t.product \in Products
  BY <1>10 DEF Snapshot
<1>a1. s.day <= t.day
  BY <1>7, <1>9, <1>11
<1>a2. rule.about \in Products => s.product = t.product
  <2>1. SellerOf[s.product] \notin Products /\ SellerOf[t.product] \notin Products
    BY <1>11, PriceWatchAssumption
  <2> QED BY <1>10, <2>1
<1>12. PICK base, now_ : base = s.price /\ now_ = t.price
  OBVIOUS
<1>13. /\ 100 * now_ <= (100 - rule.threshold) * base
       /\ rule.threshold >= 6 => 100 * (base - now_) >= 6 * base
  BY <1>4, <1>5, <1>7, <1>9, <1>11, <1>12, DropOf
<1>14. ASSUME {s, t} \cap Seeded = {}, rule.threshold >= 6
       PROVE  t.list < s.list \/ t.list <= 517
  <2>1. /\ s.price \in Nat /\ s.list \in Nat /\ Near(s.price, s.list)
        /\ t.price \in Nat /\ t.list \in Nat /\ Near(t.price, t.list)
    BY <1>10, <1>14 DEF SnapshotInv
  <2>2. ~ (s.list <= t.list /\ 518 <= t.list)
    <3>1. SUFFICES ASSUME s.list <= t.list, 518 <= t.list PROVE FALSE
      OBVIOUS
    <3>2. 100 * (s.price - t.price) < 6 * s.price
      BY <2>1, <3>1, VariationIsSmall
    <3>3. 100 * (s.price - t.price) >= 6 * s.price
      BY <1>12, <1>13, <1>14
    <3> QED BY <2>1, <3>2, <3>3
  <2> QED BY <2>1, <2>2
<1> QED BY <1>2, <1>7, <1>9, <1>a1, <1>a2, <1>12, <1>13, <1>14

(***************************************************************************)
(* On a database in a file, a refresh that has found prices replies that   *)
(* it has saved none of them.                                              *)
(***************************************************************************)
FileRefreshSavesNone ==
    inFile => \A w \in Watchers : Replies(w) => watcher[w].count = 0

\* No goroutine has counted a row.
NoneCounted == inFile => \A w \in Watchers : watcher[w].count = 0

LEMMA NextNoneCounted ==
    ASSUME WatchInv, NoneCounted, [WatchNext]_watchVars
    PROVE  NoneCounted'
<1>0. watcher \in [Watchers -> WatchCall] /\ Looking.count = 0 /\ inFile' = inFile
  BY DEF WatchInv, WatcherInv, Looking, WatchNext, watchVars, NextDay, importPricing,
         seedSnapshots, handleDisablePriceAlert, DisableAlert, Refresh, SaveRow,
         handleRefreshPricing, EnableAlert, ReadPrice, handleEnablePriceAlert, CheckAlerts,
         GetBaseline, EvaluateRule
<1>1. SUFFICES ASSUME inFile, \A w \in Watchers : watcher[w].count = 0
               PROVE  \A w \in Watchers : watcher'[w].count = 0
  BY <1>0 DEF NoneCounted
<1>2. ASSUME NEW w \in Watchers, NEW call, watcher' = [watcher EXCEPT ![w] = call],
             call.count = 0
      PROVE  \A u \in Watchers : watcher'[u].count = 0
  BY <1>0, <1>1, <1>2
<1>3. ASSUME NEW w \in Watchers, NEW asked \in SUBSET Products, Refresh(w, asked)
      PROVE  \A u \in Watchers : watcher'[u].count = 0
  <2>1. PICK call : /\ call.count = 0
                    /\ watcher' = [watcher EXCEPT ![w] = call]
    BY <1>3 DEF Refresh
  <2> QED BY <1>2, <2>1
<1>4. ASSUME NEW w \in Watchers, SaveRow(w)
      PROVE  \A u \in Watchers : watcher'[u].count = 0
  <2>1. PICK p : Refreshed(w, p, FALSE)
    BY <1>1, <1>4 DEF SaveRow
  <2>2. PICK todo : todo = watcher[w].todo \ {p}
    OBVIOUS
  <2>3. watcher' = [watcher EXCEPT ![w].todo = todo, ![w].count = watcher[w].count]
    BY <1>0, <2>1, <2>2 DEF Refreshed
  <2> QED BY <1>0, <1>1, <2>3 DEF WatchCall
<1>5. ASSUME NEW w \in Watchers, watcher' = [watcher EXCEPT ![w] = Looking]
      PROVE  \A u \in Watchers : watcher'[u].count = 0
  BY <1>0, <1>2, <1>5
<1>6. ASSUME NEW w \in Watchers, NEW x \in Subjects, NEW threshold \in Thresholds,
             EnableAlert(w, x, threshold)
      PROVE  \A u \in Watchers : watcher'[u].count = 0
  <2>1. PICK call : call = [Looking EXCEPT !.pc = "price", !.todo = {x}]
    OBVIOUS
  <2>2. call.count = 0
    BY <2>1 DEF Looking
  <2> QED BY <1>2, <1>6, <2>1, <2>2 DEF EnableAlert
<1>7. ASSUME NEW w \in Watchers, ReadPrice(w)
      PROVE  \A u \in Watchers : watcher'[u].count = 0
  <2>1. PICK price :
           watcher' = [watcher EXCEPT ![w] =
                         IF price <= 0 THEN Looking
                         ELSE [@ EXCEPT !.pc = "baseline", !.base = price]]
    BY <1>7 DEF ReadPrice
  <2>2. PICK call : call = IF price <= 0 THEN Looking
                           ELSE [watcher[w] EXCEPT !.pc = "baseline", !.base = price]
    OBVIOUS
  <2>3. call.count = 0
    BY <1>0, <1>1, <2>2 DEF WatchCall
  <2>4. watcher' = [watcher EXCEPT ![w] = call]
    BY <1>0, <2>1, <2>2
  <2> QED BY <1>2, <2>3, <2>4
<1>8. ASSUME NEW w \in Watchers, CheckAlerts(w)
      PROVE  \A u \in Watchers : watcher'[u].count = 0
  <2>1. PICK call : call = [Looking EXCEPT !.pc = "check", !.todo = ListRules]
    OBVIOUS
  <2>2. call.count = 0
    BY <2>1 DEF Looking
  <2> QED BY <1>2, <1>8, <2>1, <2>2 DEF CheckAlerts
<1>9. ASSUME NEW w \in Watchers, GetBaseline(w)
      PROVE  \A u \in Watchers : watcher'[u].count = 0
  <2>1. PICK todo, base :
           watcher' = [watcher EXCEPT ![w].pc = "compare", ![w].todo = todo, ![w].base = base]
    BY <1>9 DEF GetBaseline
  <2> QED BY <1>0, <1>1, <2>1 DEF WatchCall
<1>10. ASSUME UNCHANGED watcher
       PROVE  \A u \in Watchers : watcher'[u].count = 0
  BY <1>1, <1>10
<1>11. ASSUME \/ NextDay \/ handleDisablePriceAlert \/ UNCHANGED watchVars
              \/ \E p \in Products, list \in ListPrices : importPricing(p, list)
       PROVE  UNCHANGED watcher
  BY <1>11 DEF NextDay, handleDisablePriceAlert, DisableAlert, importPricing, watchVars
<1>13. ASSUME NEW file, seedSnapshots(file)
       PROVE  \A u \in Watchers : watcher'[u].count = 0
  BY <1>0, <1>13 DEF seedSnapshots
<1>12. ASSUME NEW w \in Watchers,
              handleRefreshPricing(w) \/ handleEnablePriceAlert(w) \/ EvaluateRule(w)
       PROVE  watcher' = [watcher EXCEPT ![w] = Looking]
  BY <1>12 DEF handleRefreshPricing, handleEnablePriceAlert, EvaluateRule
<1> QED BY <1>3, <1>4, <1>5, <1>6, <1>7, <1>8, <1>9, <1>10, <1>11, <1>12, <1>13
    DEF WatchNext

\* Each step of the desks is one of the watchers, or leaves them alone.
LEMMA WatchStepOfDesks ==
    [DesksNext]_<<desk, ledgerVars, budgetVars, reportVars, watchVars>>
      => [WatchNext]_watchVars
BY DEF DesksNext, Spending

-----------------------------------------------------------------------------
(* The deals, to which rows are only added.                                *)

DealsInv ==
    /\ deals \in Seq(DealOutcome)
    /\ \A i \in DOMAIN deals : deals[i].terms.final \in Nat \ {0}

Final == [i \in DOMAIN deals |-> deals[i].terms.final]

\* Rows are added at the end.
Grown == \E n \in Nat : /\ n >= Len(deals) /\ Len(deals') = n
                        /\ \A i \in DOMAIN deals : deals'[i] = deals[i]

LEMMA DealsFinite == DealsInv => IsFiniteSet(DOMAIN deals) /\ DOMAIN deals = 1 .. Len(deals)
                                 /\ Len(deals) \in Nat
<1>1. DealsInv => Len(deals) \in Nat /\ DOMAIN deals = 1 .. Len(deals)
  BY DEF DealsInv
<1> QED BY <1>1, FS_Interval

LEMMA FinalRow == DealsInv => \A i \in DOMAIN deals : Final[i] \in Nat \ {0}
                                     /\ Final[i] = deals[i].terms.final
BY DEF DealsInv, Final

\* SUM(final_price) over some rows.
LEMMA SpendIsSum ==
    ASSUME DealsInv, NEW S \in SUBSET DOMAIN deals
    PROVE  Spend(S) = SumOver(Final, S) /\ Spend(S) \in Nat
<1>1. PICK final, all : final = [i \in S |-> deals[i].terms.final] /\ all = Final
  OBVIOUS
<1>2. IsFiniteSet(S)
  BY DealsFinite, FS_Subset
<1>3. \A i \in S : final[i] \in Nat /\ final[i] = all[i]
  BY <1>1, FinalRow
<1>4. SumOver(final, S) = SumOver(all, S)
  BY <1>2, <1>3, SumSame
<1>5. \A sum : SumsUp(sum, final, S) <=>
         sum = [T \in SUBSET S |->
                   IF T = {} THEN 0
                   ELSE deals[CHOOSE i \in T : TRUE].terms.final
                          + sum[T \ {CHOOSE i \in T : TRUE}]]
  BY <1>1 DEF SumsUp, Foremost
<1>6. Spend(S) = SumOver(final, S)
  BY ZenonT(60), <1>5 DEF Spend, MapThenSumSet, MapThenFoldSet, SumOver
<1>7. SumOver(final, S) \in Nat
  BY <1>2, <1>3, SumOfPart
<1> QED BY <1>1, <1>4, <1>6, <1>7

LEMMA SpendSums == DealsInv => \A T \in SUBSET DOMAIN deals : Spend(T) = SumOver(Final, T)
BY SpendIsSum

LEMMA SpendOfMore ==
    ASSUME DealsInv, NEW S \in SUBSET DOMAIN deals, NEW R \in SUBSET S
    PROVE  Spend(R) <= Spend(S)
<1>1. PICK all : all = Final
  OBVIOUS
<1>2. IsFiniteSet(S) /\ \A i \in S : all[i] \in Nat
  BY <1>1, DealsFinite, FinalRow, FS_Subset
<1>3. SumOver(all, R) <= SumOver(all, S)
  BY ONLY <1>2, R \in SUBSET S, SumOfPart
<1> QED BY <1>1, <1>3, SpendIsSum

\* What was spent for rows that are there does not change.
LEMMA SpendStays ==
    ASSUME DealsInv, DealsInv', Grown, NEW S \in SUBSET DOMAIN deals
    PROVE  Spend(S)' = Spend(S) /\ S \in SUBSET DOMAIN deals'
<1>1. PICK f, g : f = Final /\ g = Final'
  OBVIOUS
<1>2. S \in SUBSET DOMAIN deals'
  BY DealsFinite DEF Grown, DealsInv
<1>3. \A i \in S : f[i] = g[i] /\ f[i] \in Int
  BY <1>1, <1>2, FinalRow DEF Grown, Final
<1>4. IsFiniteSet(S)
  BY DealsFinite, FS_Subset
<1>5. SumOver(f, S) = SumOver(g, S)
  BY ONLY <1>3, <1>4, SumSame
<1>6. Spend(S) = SumOver(f, S)
  BY <1>1, SpendIsSum
<1>b. (DealsInv => \A T \in SUBSET DOMAIN deals : Spend(T) = SumOver(Final, T))'
  BY SpendSums, PTL
<1>7. Spend(S)' = SumOver(g, S)
  BY <1>1, <1>2, <1>b
<1> QED BY <1>1, <1>2, <1>5, <1>6, <1>7

LEMMA GrownOrSame ==
    ASSUME DealsInv, \/ UNCHANGED deals
                     \/ \E v \in Vendors, terms \in Terms : importDeals(v, terms)
                     \/ Tick,
           now \in Instants
    PROVE  DealsInv' /\ Grown
<1>1. CASE UNCHANGED deals
  BY <1>1, DealsFinite DEF DealsInv, Grown
<1>2. ASSUME NEW v \in Vendors, NEW terms \in Terms, importDeals(v, terms)
      PROVE  DealsInv' /\ Grown
  <2>1. PICK row : row = [vendor |-> v, terms |-> terms, at |-> now]
    OBVIOUS
  <2>2. deals' = Append(deals, row) /\ terms.final > 0
    BY <1>2, <2>1 DEF importDeals, SaveDealOutcome
  <2>3. row \in DealOutcome
    BY <2>1 DEF DealOutcome
  <2>4. terms.final \in Int
    BY LedgerAssumption
  <2>5. row.terms.final \in Nat \ {0}
    BY <2>1, <2>2, <2>4
  <2>6. deals \in Seq(DealOutcome)
    BY DEF DealsInv
  <2>7. /\ deals' \in Seq(DealOutcome) /\ Len(deals') = Len(deals) + 1
        /\ deals'[Len(deals) + 1] = row
        /\ \A i \in DOMAIN deals : deals'[i] = deals[i]
        /\ DOMAIN deals' = 1 .. Len(deals) + 1 /\ DOMAIN deals = 1 .. Len(deals)
    BY <2>2, <2>3, <2>6
  <2>8. \A i \in DOMAIN deals' : deals'[i].terms.final \in Nat \ {0}
    BY <2>5, <2>7 DEF DealsInv
  <2>9. Len(deals) + 1 \in Nat /\ Len(deals) + 1 >= Len(deals)
    BY <2>6
  <2> QED BY <2>7, <2>8, <2>9 DEF DealsInv, Grown
<1>3. Tick => UNCHANGED deals
  BY DEF Tick
<1> QED BY <1>1, <1>2, <1>3

-----------------------------------------------------------------------------
(* Budgets.                                                                *)

\* The deals of a vendor once came to this sum.
CameTo(v, actual) == \E n \in 0 .. Len(deals) : actual = Spend(OfVendor(deals, 1 .. n, v))

LEMMA FirstRows ==
    ASSUME DealsInv, NEW v, NEW n \in 0 .. Len(deals)
    PROVE  OfVendor(deals, 1 .. n, v) \in SUBSET OfVendor(deals, DOMAIN deals, v)
BY DealsFinite DEF OfVendor

LEMMA VendorRows ==
    ASSUME DealsInv, NEW v PROVE OfVendor(deals, DOMAIN deals, v) \in SUBSET DOMAIN deals
BY DEF OfVendor

LEMMA CameToBound ==
    ASSUME DealsInv, NEW v, NEW actual, CameTo(v, actual)
    PROVE  actual \in Nat /\ actual <= vendorActualSpend(v)
<1>1. PICK n \in 0 .. Len(deals) : actual = Spend(OfVendor(deals, 1 .. n, v))
  BY DEF CameTo
<1>2. PICK R, S : R = OfVendor(deals, 1 .. n, v) /\ S = OfVendor(deals, DOMAIN deals, v)
  OBVIOUS
<1>3. R \in SUBSET S /\ S \in SUBSET DOMAIN deals
  BY <1>2, FirstRows, VendorRows
<1>4. Spend(R) <= Spend(S) /\ Spend(R) \in Nat
  BY <1>3, SpendOfMore, SpendIsSum
<1> QED BY <1>1, <1>2, <1>4 DEF vendorActualSpend

LEMMA CameToStays ==
    ASSUME DealsInv, DealsInv', Grown, NEW v, NEW actual, CameTo(v, actual)
    PROVE  CameTo(v, actual)'
<1>1. PICK n \in 0 .. Len(deals) : actual = Spend(OfVendor(deals, 1 .. n, v))
  BY DEF CameTo
<1>2. PICK R : R = OfVendor(deals, 1 .. n, v)
  OBVIOUS
<1>3. R \in SUBSET DOMAIN deals
  BY <1>2, FirstRows, VendorRows
<1>4. OfVendor(deals', 1 .. n, v) = R /\ n \in 0 .. Len(deals')
  BY <1>2, DealsFinite DEF OfVendor, Grown
<1>5. Spend(R)' = Spend(R)
  BY <1>3, SpendStays
<1> QED BY <1>1, <1>2, <1>4, <1>5 DEF CameTo

LEMMA CameToNow ==
    ASSUME DealsInv, NEW v
    PROVE  /\ CameTo(v, AlertSpend(v)) /\ AlertSpend(v) \in Nat
           /\ vendorActualSpend(v) = AlertSpend(v)
<1>1. AlertSpend(v) = Spend(OfVendor(deals, 1 .. Len(deals), v))
  BY DealsFinite DEF AlertSpend
<1>2. Len(deals) \in 0 .. Len(deals)
  BY DealsFinite
<1>3. CameTo(v, AlertSpend(v))
  BY <1>1, <1>2 DEF CameTo
<1> QED BY <1>3, CameToBound DEF vendorActualSpend, AlertSpend

BudgetRow == [vendor : Vendors, amount : Amounts]

MonthlyRow == {NoBudget} \cup [amount : Nat, rolled : Nat]

LogRow == [vendor : Vendors, budget : Amounts, actual : Nat,
           level : {"critical", "warning", "info"}]

Moving == {"spend", "destination", "create", "mark", "add"}

ClerkCall == [pc : Moving \cup {"idle", "check", "save"},
              item : [vendor : Vendors \cup {NoVendor}, amount : Nat],
              from : Months \cup {0}, to : Months \cup {0}, actual : Nat,
              todo : SUBSET BudgetRow]

\* A rollover is about months of one vendor, of which the first has a budget
\* and before the last two statements the second has one too; an alert is
\* about a sum the deals had come to.
ClerkHolds(call) ==
    /\ call.pc \in Moving =>
          /\ call.item.vendor \in Vendors /\ call.from \in Months /\ call.to \in Months
          /\ monthly[call.item.vendor][call.from] # NoBudget
    /\ call.pc \in {"mark", "add"} => monthly[call.item.vendor][call.to] # NoBudget
    /\ call.pc = "save" =>
          /\ call.item.vendor \in Vendors /\ call.item.amount \in Amounts
          /\ Level(call.actual, call.item.amount) # "none"
          /\ CameTo(call.item.vendor, call.actual)

ClerkInv ==
    /\ clerk \in [Clerks -> ClerkCall]
    /\ \A c \in Clerks, call \in ClerkCall : clerk[c] = call => ClerkHolds(call)

MonthlyInv ==
    /\ monthly \in [Vendors -> [Months -> MonthlyRow]]
    /\ given \in [Vendors -> [Months -> Nat]]

LogInv ==
    /\ alertLog \subseteq LogRow
    /\ \A a \in alertLog : /\ a.level = Level(a.actual, a.budget)
                           /\ CameTo(a.vendor, a.actual)

RowsInv ==
    /\ budgets \in [Vendors -> Amounts \cup {-1}]
    /\ caps \in [Vendors -> [soft : Amounts \cup {0}, hard : Amounts \cup {0},
                             period : Periods \cup {"none"}]]
    /\ shares \in [Vendors -> [Departments -> Percents \cup {-1}]]

BudgetInv == MonthlyInv /\ RowsInv /\ LogInv /\ ClerkInv

LEMMA RestingClerk == AtRest \in ClerkCall /\ ClerkHolds(AtRest)
BY DEF AtRest, ClerkCall, ClerkHolds, Moving

LEMMA BudgetInitInv == BudgetInit => BudgetInv
<1> SUFFICES ASSUME BudgetInit PROVE BudgetInv
  OBVIOUS
<1>1. MonthlyInv
  BY DEF BudgetInit, MonthlyInv, MonthlyRow
<1>2. RowsInv
  BY DEF BudgetInit, RowsInv, NoCap
<1>3. LogInv
  BY DEF BudgetInit, LogInv
<1>4. ClerkInv
  BY RestingClerk DEF BudgetInit, ClerkInv
<1> QED BY <1>1, <1>2, <1>3, <1>4 DEF BudgetInv

\* A month that has a budget keeps having one.
Kept == \A v \in Vendors, m \in Months : monthly[v][m] # NoBudget =>
                                            monthly'[v][m] # NoBudget

LEMMA StillHolds ==
    ASSUME DealsInv, DealsInv', Grown, Kept, NEW call \in ClerkCall, ClerkHolds(call)
    PROVE  ClerkHolds(call)'
<1>1. /\ call.pc \in Moving =>
          /\ call.item.vendor \in Vendors /\ call.from \in Months /\ call.to \in Months
          /\ monthly'[call.item.vendor][call.from] # NoBudget
      /\ call.pc \in {"mark", "add"} => monthly'[call.item.vendor][call.to] # NoBudget
  BY DEF ClerkHolds, Moving, Kept
<1>2. call.pc = "save" =>
          /\ call.item.vendor \in Vendors /\ call.item.amount \in Amounts
          /\ Level(call.actual, call.item.amount) # "none"
          /\ CameTo(call.item.vendor, call.actual)'
  BY CameToStays DEF ClerkHolds
<1> QED BY <1>1, <1>2 DEF ClerkHolds

LEMMA ClerksKept ==
    ASSUME DealsInv, DealsInv', Grown, ClerkInv, Kept, UNCHANGED clerk
    PROVE  ClerkInv'
<1>1. ASSUME NEW c \in Clerks, NEW call \in ClerkCall, clerk'[c] = call
      PROVE  ClerkHolds(call)'
  BY <1>1, StillHolds DEF ClerkInv
<1> QED BY <1>1 DEF ClerkInv

LEMMA ClerkMoved ==
    ASSUME DealsInv, DealsInv', Grown, ClerkInv, Kept, NEW c \in Clerks,
           NEW next \in ClerkCall, ClerkHolds(next)', clerk' = [clerk EXCEPT ![c] = next]
    PROVE  ClerkInv'
<1>1. clerk' \in [Clerks -> ClerkCall]
  BY DEF ClerkInv
<1>2. ASSUME NEW x \in Clerks, NEW call \in ClerkCall, clerk'[x] = call
      PROVE  ClerkHolds(call)'
  <2>1. CASE x = c
    BY <1>2, <2>1 DEF ClerkInv
  <2>2. CASE x # c
    <3>1. clerk[x] = call
      BY <1>2, <2>2 DEF ClerkInv
    <3>2. ClerkHolds(call)
      BY <3>1 DEF ClerkInv
    <3> QED BY <3>2, StillHolds
  <2> QED BY <2>1, <2>2
<1> QED BY <1>1, <1>2 DEF ClerkInv

\* A row of the months is written: it had, or has now, a budget.
LEMMA MonthWritten ==
    ASSUME MonthlyInv, NEW v \in Vendors, NEW m \in Months,
           NEW row \in [amount : Nat, rolled : Nat],
           monthly' = [monthly EXCEPT ![v][m] = row]
    PROVE  /\ monthly' \in [Vendors -> [Months -> MonthlyRow]]
           /\ monthly'[v][m] = row /\ row # NoBudget
           /\ \A u \in Vendors, n \in Months : <<u, n>> # <<v, m>> =>
                 monthly'[u][n] = monthly[u][n]
           /\ Kept
<1>1. PICK line : line = [monthly[v] EXCEPT ![m] = row]
  OBVIOUS
<1>2. monthly' = [monthly EXCEPT ![v] = line]
  BY <1>1
<1>3. row \in MonthlyRow /\ row # NoBudget
  BY DEF MonthlyRow, NoBudget
<1>4. line \in [Months -> MonthlyRow] /\ line[m] = row
      /\ \A n \in Months : n # m => line[n] = monthly[v][n]
  BY <1>1, <1>3 DEF MonthlyInv
<1>5. monthly' \in [Vendors -> [Months -> MonthlyRow]] /\ monthly'[v] = line
      /\ \A u \in Vendors : u # v => monthly'[u] = monthly[u]
  BY <1>2, <1>4 DEF MonthlyInv
<1> HIDE DEF NoBudget
<1>6. \A u \in Vendors, n \in Months : <<u, n>> # <<v, m>> => monthly'[u][n] = monthly[u][n]
  BY <1>4, <1>5
<1>7. Kept
  BY <1>3, <1>4, <1>5, <1>6 DEF Kept
<1> QED BY <1>3, <1>4, <1>5, <1>6, <1>7

\* Setting a budget replaces its amount.
LEMMA BudgetWritten ==
    ASSUME MonthlyInv, NEW v \in Vendors, NEW m \in Months, NEW amount \in Nat,
           SetMonthlyBudget(v, m, amount)
    PROVE  /\ MonthlyInv' /\ Kept /\ monthly'[v][m] # NoBudget
           /\ monthly'[v][m].amount = amount /\ monthly'[v][m].rolled = monthly[v][m].rolled
           /\ given'[v][m] = amount
           /\ \A u \in Vendors, n \in Months : <<u, n>> # <<v, m>> =>
                 monthly'[u][n] = monthly[u][n] /\ given'[u][n] = given[u][n]
<1>1. PICK old \in MonthlyRow : old = monthly[v][m]
  BY DEF MonthlyInv
<1>2. PICK row : row = [old EXCEPT !.amount = amount]
  OBVIOUS
<1>3. monthly' = [monthly EXCEPT ![v][m] = row]
  BY <1>1, <1>2 DEF SetMonthlyBudget
<1>4. row = [amount |-> amount, rolled |-> old.rolled] /\ old.rolled \in Nat
  BY <1>2 DEF MonthlyRow, NoBudget
<1>5. row \in [amount : Nat, rolled : Nat] /\ row.amount = amount /\ row.rolled = old.rolled
  BY <1>4
<1>6. given' = [given EXCEPT ![v][m] = amount]
  BY DEF SetMonthlyBudget
<1>7. given' \in [Vendors -> [Months -> Nat]] /\ given'[v][m] = amount
      /\ \A u \in Vendors, n \in Months : <<u, n>> # <<v, m>> => given'[u][n] = given[u][n]
  BY <1>6 DEF MonthlyInv
<1>8. /\ monthly' \in [Vendors -> [Months -> MonthlyRow]]
      /\ monthly'[v][m] = row /\ row # NoBudget
      /\ \A u \in Vendors, n \in Months : <<u, n>> # <<v, m>> =>
            monthly'[u][n] = monthly[u][n]
      /\ Kept
  BY <1>3, <1>5, MonthWritten
<1>9. MonthlyInv'
  BY <1>7, <1>8 DEF MonthlyInv, MonthlyRow, NoBudget
<1> HIDE DEF NoBudget
<1> QED BY <1>1, <1>5, <1>7, <1>8, <1>9

\* The two other statements add to a row that has a budget.
LEMMA MonthMarked ==
    ASSUME MonthlyInv, NEW v \in Vendors, NEW m \in Months, NEW n \in Nat,
           monthly[v][m] # NoBudget, UNCHANGED given,
           monthly' = [monthly EXCEPT ![v][m].rolled = @ + n]
    PROVE  /\ MonthlyInv' /\ Kept /\ monthly'[v][m] # NoBudget
           /\ monthly'[v][m].amount = monthly[v][m].amount
           /\ monthly'[v][m].rolled = monthly[v][m].rolled + n
           /\ \A u \in Vendors, k \in Months : <<u, k>> # <<v, m>> =>
                 monthly'[u][k] = monthly[u][k]
<1>1. PICK old \in [amount : Nat, rolled : Nat] : old = monthly[v][m]
  BY DEF MonthlyInv, MonthlyRow
<1>2. PICK row : row = [old EXCEPT !.rolled = old.rolled + n]
  OBVIOUS
<1>3. monthly' = [monthly EXCEPT ![v][m] = row]
  BY <1>1, <1>2
<1>4. /\ row \in [amount : Nat, rolled : Nat]
      /\ row.amount = old.amount /\ row.rolled = old.rolled + n
  BY <1>2
<1>5. /\ monthly' \in [Vendors -> [Months -> MonthlyRow]]
      /\ monthly'[v][m] = row /\ row # NoBudget
      /\ \A u \in Vendors, k \in Months : <<u, k>> # <<v, m>> =>
            monthly'[u][k] = monthly[u][k]
      /\ Kept
  BY <1>3, <1>4, MonthWritten
<1>6. MonthlyInv'
  BY <1>5 DEF MonthlyInv, MonthlyRow, NoBudget
<1> HIDE DEF NoBudget
<1> QED BY <1>1, <1>4, <1>5, <1>6

LEMMA MonthTopped ==
    ASSUME MonthlyInv, NEW v \in Vendors, NEW m \in Months, NEW n \in Nat,
           monthly[v][m] # NoBudget, UNCHANGED given,
           monthly' = [monthly EXCEPT ![v][m].amount = @ + n]
    PROVE  /\ MonthlyInv' /\ Kept /\ monthly'[v][m] # NoBudget
           /\ monthly'[v][m].amount = monthly[v][m].amount + n
           /\ monthly'[v][m].rolled = monthly[v][m].rolled
           /\ \A u \in Vendors, k \in Months : <<u, k>> # <<v, m>> =>
                 monthly'[u][k] = monthly[u][k]
<1>1. PICK old \in [amount : Nat, rolled : Nat] : old = monthly[v][m]
  BY DEF MonthlyInv, MonthlyRow
<1>2. PICK row : row = [old EXCEPT !.amount = old.amount + n]
  OBVIOUS
<1>3. monthly' = [monthly EXCEPT ![v][m] = row]
  BY <1>1, <1>2
<1>4. /\ row \in [amount : Nat, rolled : Nat]
      /\ row.amount = old.amount + n /\ row.rolled = old.rolled
  BY <1>2
<1>5. /\ monthly' \in [Vendors -> [Months -> MonthlyRow]]
      /\ monthly'[v][m] = row /\ row # NoBudget
      /\ \A u \in Vendors, k \in Months : <<u, k>> # <<v, m>> =>
            monthly'[u][k] = monthly[u][k]
      /\ Kept
  BY <1>3, <1>4, MonthWritten
<1>6. MonthlyInv'
  BY <1>5 DEF MonthlyInv, MonthlyRow, NoBudget
<1> HIDE DEF NoBudget
<1> QED BY <1>1, <1>4, <1>5, <1>6

LEMMA MonthSpend ==
    ASSUME DealsInv, NEW v, NEW m PROVE vendorMonthSpend(v, m) \in Nat
<1>1. InMonth(deals, OfVendor(deals, DOMAIN deals, v), m) \in SUBSET DOMAIN deals
  BY DEF InMonth, OfVendor
<1> QED BY <1>1, SpendIsSum DEF vendorMonthSpend

\* The tables of months and the calls, over each statement of a rollover.
LEMMA RolloverStep ==
    ASSUME DealsInv, DealsInv', Grown, BudgetInv, RolloverNext
    PROVE  MonthlyInv' /\ ClerkInv'
<1> USE DEF BudgetInv
<1>1. ASSUME NEW v \in Vendors, NEW m \in Months, NEW amount \in Amounts,
             handleSetMonthlyBudget(v, m, amount)
      PROVE  MonthlyInv' /\ ClerkInv'
  <2>1. amount \in Nat /\ SetMonthlyBudget(v, m, amount) /\ UNCHANGED clerk
    BY <1>1, BudgetAssumption DEF handleSetMonthlyBudget
  <2>2. MonthlyInv' /\ Kept
    BY <2>1, BudgetWritten
  <2> QED BY <2>1, <2>2, ClerksKept
<1>2. ASSUME NEW c \in Clerks, NEW v \in Vendors, NEW from \in Months, NEW to \in Months,
             GetSource(c, v, from, to)
      PROVE  MonthlyInv' /\ ClerkInv'
  <2>1. PICK row \in MonthlyRow : row = monthly[v][from]
    BY DEF MonthlyInv
  <2>2. UNCHANGED <<monthly, given>> /\ monthly[v][from] # NoBudget
    BY <1>2 DEF GetSource
  <2>3. row \in [amount : Nat, rolled : Nat]
    BY <2>1, <2>2 DEF MonthlyRow
  <2>4. PICK amount \in Nat : amount = monthly[v][from].amount
    BY <2>1, <2>3
  <2>5. PICK next : next = [AtRest EXCEPT !.pc = "spend", !.from = from, !.to = to,
                               !.item = [vendor |-> v, amount |-> amount]]
    OBVIOUS
  <2>6. clerk' = [clerk EXCEPT ![c] = next]
    BY <1>2, <2>4, <2>5 DEF GetSource
  <2>7. /\ next.pc = "spend" /\ next.from = from /\ next.to = to
        /\ next.item = [vendor |-> v, amount |-> amount]
        /\ next.actual = 0 /\ next.todo = {}
        /\ next = [pc |-> "spend", item |-> [vendor |-> v, amount |-> amount],
                   from |-> from, to |-> to, actual |-> 0, todo |-> {}]
    BY <2>5 DEF AtRest
  <2>8. next \in ClerkCall
    BY <2>7 DEF ClerkCall, Moving
  <2>9. ClerkHolds(next)'
    BY <2>2, <2>7 DEF ClerkHolds, Moving
  <2>10. MonthlyInv' /\ Kept
    BY <2>2 DEF MonthlyInv, Kept
  <2> QED BY <2>6, <2>8, <2>9, <2>10, ClerkMoved
<1>3. ASSUME NEW c \in Clerks, ReadSpend(c) PROVE MonthlyInv' /\ ClerkInv'
  <2>1. PICK call \in ClerkCall : clerk[c] = call /\ ClerkHolds(call)
    BY DEF ClerkInv
  <2>2. call.pc = "spend" /\ UNCHANGED <<monthly, given>>
    BY <1>3, <2>1 DEF ReadSpend
  <2>3. PICK actual \in {vendorMonthSpend(call.item.vendor, call.from), 0} :
          clerk' = [clerk EXCEPT ![c] = IF call.item.amount - actual <= 0 THEN AtRest
                       ELSE [call EXCEPT !.pc = "destination",
                                         !.item.amount = call.item.amount - actual]]
    BY <1>3, <2>1 DEF ReadSpend, VendorOf
  <2>4. actual \in Nat /\ call.item.amount \in Nat
    BY <2>1, <2>3, MonthSpend DEF ClerkCall
  <2>5. MonthlyInv' /\ Kept
    BY <2>2 DEF MonthlyInv, Kept
  <2>6. CASE call.item.amount - actual <= 0
    <3>1. clerk' = [clerk EXCEPT ![c] = AtRest] /\ AtRest \in ClerkCall
      BY <2>3, <2>6, RestingClerk
    <3>2. ClerkHolds(AtRest)'
      BY DEF AtRest, ClerkHolds, Moving
    <3> QED BY <2>5, <3>1, <3>2, ClerkMoved
  <2>7. CASE ~(call.item.amount - actual <= 0)
    <3>1. PICK unused \in Nat : unused = call.item.amount - actual
      BY <2>4, <2>7
    <3>2. PICK next : next = [call EXCEPT !.pc = "destination", !.item.amount = unused]
      OBVIOUS
    <3>3. clerk' = [clerk EXCEPT ![c] = next]
      BY <2>3, <2>7, <3>1, <3>2
    <3>4. /\ next = [pc |-> "destination",
                     item |-> [vendor |-> call.item.vendor, amount |-> unused],
                     from |-> call.from, to |-> call.to, actual |-> call.actual,
                     todo |-> call.todo]
      BY <3>2 DEF ClerkCall
    <3>5. next \in ClerkCall
      BY <3>4 DEF ClerkCall, Moving
    <3>6. /\ next.pc = "destination" /\ next.item.vendor = call.item.vendor
          /\ next.from = call.from /\ next.to = call.to
      BY <3>4
    <3>7. ClerkHolds(next)'
      BY <2>1, <2>2, <3>6 DEF ClerkHolds, Moving
    <3> QED BY <2>5, <3>3, <3>5, <3>7, ClerkMoved
  <2> QED BY <2>6, <2>7
<1>4. ASSUME NEW c \in Clerks, GetDestination(c) PROVE MonthlyInv' /\ ClerkInv'
  <2>1. PICK call \in ClerkCall : clerk[c] = call /\ ClerkHolds(call)
    BY DEF ClerkInv
  <2>2. call.pc = "destination" /\ UNCHANGED <<monthly, given>>
    BY <1>4, <2>1 DEF GetDestination
  <2>3. PICK stage : stage = IF monthly[call.item.vendor][call.to] = NoBudget THEN "create"
                             ELSE "mark"
    OBVIOUS
  <2>4. PICK next : next = [call EXCEPT !.pc = stage]
    OBVIOUS
  <2>5. clerk' = [clerk EXCEPT ![c] = next]
    BY <1>4, <2>1, <2>3, <2>4 DEF GetDestination, VendorOf, ClerkInv
  <2>6. stage \in {"create", "mark"}
        /\ (stage = "mark" => monthly[call.item.vendor][call.to] # NoBudget)
    BY <2>3
  <2>7. /\ next.pc = stage /\ next.item = call.item
        /\ next.from = call.from /\ next.to = call.to /\ next \in ClerkCall
    BY <2>4, <2>6 DEF ClerkCall, Moving
  <2>8. ClerkHolds(next)'
    BY <2>1, <2>2, <2>6, <2>7 DEF ClerkHolds, Moving
  <2>9. MonthlyInv' /\ Kept
    BY <2>2 DEF MonthlyInv, Kept
  <2> QED BY <2>5, <2>7, <2>8, <2>9, ClerkMoved
<1>5. ASSUME NEW c \in Clerks, CreateDestination(c) PROVE MonthlyInv' /\ ClerkInv'
  <2>1. PICK call \in ClerkCall : clerk[c] = call /\ ClerkHolds(call)
    BY DEF ClerkInv
  <2>2. call.pc = "create" /\ SetMonthlyBudget(call.item.vendor, call.to, 0)
    BY <1>5, <2>1 DEF CreateDestination, VendorOf
  <2>3. call.item.vendor \in Vendors /\ call.to \in Months /\ call.from \in Months
        /\ monthly[call.item.vendor][call.from] # NoBudget
    BY <2>1, <2>2 DEF ClerkHolds, Moving
  <2>4. MonthlyInv' /\ Kept /\ monthly'[call.item.vendor][call.to] # NoBudget
    BY <2>2, <2>3, BudgetWritten
  <2>5. PICK next : next = [call EXCEPT !.pc = "mark"]
    OBVIOUS
  <2>6. clerk' = [clerk EXCEPT ![c] = next]
    BY <1>5, <2>1, <2>5 DEF CreateDestination, ClerkInv
  <2>7. /\ next.pc = "mark" /\ next.item = call.item
        /\ next.from = call.from /\ next.to = call.to /\ next \in ClerkCall
    BY <2>5 DEF ClerkCall, Moving
  <2>8. ClerkHolds(next)'
    BY <2>3, <2>4, <2>7 DEF ClerkHolds, Moving, Kept
  <2> QED BY <2>4, <2>6, <2>7, <2>8, ClerkMoved
<1>6. ASSUME NEW c \in Clerks, MarkSource(c) PROVE MonthlyInv' /\ ClerkInv'
  <2>1. PICK call \in ClerkCall : clerk[c] = call /\ ClerkHolds(call)
    BY DEF ClerkInv
  <2>2. call.pc = "mark" /\ UNCHANGED given
        /\ monthly' = [monthly EXCEPT ![call.item.vendor][call.from].rolled =
                                          @ + call.item.amount]
    BY <1>6, <2>1 DEF MarkSource, VendorOf, UnusedOf, UpdateRollover
  <2>3. call.item.vendor \in Vendors /\ call.to \in Months /\ call.from \in Months
        /\ monthly[call.item.vendor][call.from] # NoBudget
        /\ monthly[call.item.vendor][call.to] # NoBudget /\ call.item.amount \in Nat
    BY <2>1, <2>2 DEF ClerkHolds, Moving, ClerkCall
  <2>4. MonthlyInv' /\ Kept
    BY <2>2, <2>3, MonthMarked
  <2>5. PICK next : next = [call EXCEPT !.pc = "add"]
    OBVIOUS
  <2>6. clerk' = [clerk EXCEPT ![c] = next]
    BY <1>6, <2>1, <2>5 DEF MarkSource, ClerkInv
  <2>7. /\ next.pc = "add" /\ next.item = call.item
        /\ next.from = call.from /\ next.to = call.to /\ next \in ClerkCall
    BY <2>5 DEF ClerkCall, Moving
  <2>8. ClerkHolds(next)'
    BY <2>3, <2>4, <2>7 DEF ClerkHolds, Moving, Kept
  <2> QED BY <2>4, <2>6, <2>7, <2>8, ClerkMoved
<1>7. ASSUME NEW c \in Clerks, Rollover(c) PROVE MonthlyInv' /\ ClerkInv'
  <2>1. PICK call \in ClerkCall : clerk[c] = call /\ ClerkHolds(call)
    BY DEF ClerkInv
  <2>2. call.pc = "add" /\ UNCHANGED given
        /\ monthly' = [monthly EXCEPT ![call.item.vendor][call.to].amount =
                                          @ + call.item.amount]
        /\ clerk' = [clerk EXCEPT ![c] = AtRest]
    BY <1>7, <2>1 DEF Rollover, VendorOf, UnusedOf
  <2>3. call.item.vendor \in Vendors /\ call.to \in Months
        /\ monthly[call.item.vendor][call.to] # NoBudget /\ call.item.amount \in Nat
    BY <2>1, <2>2 DEF ClerkHolds, Moving, ClerkCall
  <2>4. MonthlyInv' /\ Kept
    BY <2>2, <2>3, MonthTopped
  <2>5. ClerkHolds(AtRest)' /\ AtRest \in ClerkCall
    BY RestingClerk DEF AtRest, ClerkHolds, Moving
  <2> QED BY <2>2, <2>4, <2>5, ClerkMoved
<1>8. ASSUME NEW c \in Clerks, ClerkFails(c) PROVE MonthlyInv' /\ ClerkInv'
  <2>1. clerk' = [clerk EXCEPT ![c] = AtRest] /\ UNCHANGED <<monthly, given>>
    BY <1>8 DEF ClerkFails
  <2>2. ClerkHolds(AtRest)' /\ AtRest \in ClerkCall
    BY RestingClerk DEF AtRest, ClerkHolds, Moving
  <2>3. MonthlyInv' /\ Kept
    BY <2>1 DEF MonthlyInv, Kept
  <2> QED BY <2>1, <2>2, <2>3, ClerkMoved
<1> QED BY <1>1, <1>2, <1>3, <1>4, <1>5, <1>6, <1>7, <1>8 DEF RolloverNext

\* What a loop over the budgets goes on with.
LEMMA NextTurn ==
    ASSUME DealsInv, DealsInv', Grown, ClerkInv, UNCHANGED monthly, NEW c \in Clerks,
           NEW rest \in SUBSET BudgetRow, NextBudget(c, rest)
    PROVE  ClerkInv'
<1>1. PICK next : next = IF rest = {} THEN AtRest
                         ELSE [AtRest EXCEPT !.pc = "check", !.todo = rest]
  OBVIOUS
<1>2. clerk' = [clerk EXCEPT ![c] = next]
  BY <1>1 DEF NextBudget
<1>3. /\ next = [pc |-> next.pc, item |-> [vendor |-> NoVendor, amount |-> 0],
                 from |-> 0, to |-> 0, actual |-> 0, todo |-> rest]
      /\ next.pc \in {"idle", "check"}
  <2>1. CASE rest = {}
    BY <1>1, <2>1 DEF AtRest
  <2>2. CASE rest # {}
    BY <1>1, <2>2 DEF AtRest
  <2> QED BY <2>1, <2>2
<1>4. next \in ClerkCall
  BY <1>3 DEF ClerkCall
<1>5. ClerkHolds(next)'
  BY <1>3 DEF ClerkHolds, Moving
<1>6. Kept
  BY DEF Kept
<1> QED BY <1>2, <1>4, <1>5, <1>6, ClerkMoved

LEMMA LevelType ==
    ASSUME NEW actual, NEW amount, Level(actual, amount) # "none"
    PROVE  Level(actual, amount) \in {"critical", "warning", "info"}
<1>1. Level(actual, amount) \in {"critical", "warning", "info", "none"}
  BY DEF Level
<1> QED BY <1>1

LEMMA LogKept ==
    ASSUME DealsInv, DealsInv', Grown, LogInv, UNCHANGED alertLog PROVE LogInv'
<1>1. \A a \in alertLog : CameTo(a.vendor, a.actual)'
  BY CameToStays DEF LogInv
<1> QED BY <1>1 DEF LogInv

\* The log and the calls, over each statement of a check of the budgets.
LEMMA AlertStep ==
    ASSUME DealsInv, DealsInv', Grown, UNCHANGED deals, BudgetInv, AlertNext
    PROVE  RowsInv' /\ LogInv' /\ ClerkInv' /\ MonthlyInv'
<1> USE DEF BudgetInv
<1>1. UNCHANGED <<monthly, given, caps, shares>>
  BY DEF AlertNext, handleSetBudget, handleDeleteBudget, CheckBudgets, CheckBudget, SaveAlert,
         ClerkFails
<1>2. MonthlyInv' /\ Kept
  BY <1>1 DEF MonthlyInv, Kept
<1>3. ASSUME NEW v \in Vendors, NEW amount \in Amounts, handleSetBudget(v, amount)
      PROVE  RowsInv' /\ LogInv' /\ ClerkInv'
  <2>1. UNCHANGED <<alertLog, clerk>> /\ budgets' = [budgets EXCEPT ![v] = amount]
    BY <1>3 DEF handleSetBudget, SetBudget
  <2>2. RowsInv'
    BY <1>1, <2>1 DEF RowsInv
  <2> QED BY <1>2, <2>1, <2>2, LogKept, ClerksKept
<1>4. ASSUME NEW v \in Vendors, handleDeleteBudget(v)
      PROVE  RowsInv' /\ LogInv' /\ ClerkInv'
  <2>1. UNCHANGED <<alertLog, clerk>> /\ budgets' = [budgets EXCEPT ![v] = -1]
    BY <1>4 DEF handleDeleteBudget, DeleteBudget
  <2>2. RowsInv'
    BY <1>1, <2>1 DEF RowsInv
  <2> QED BY <1>2, <2>1, <2>2, LogKept, ClerksKept
<1>5. ASSUME NEW c \in Clerks, CheckBudgets(c) \/ ClerkFails(c)
      PROVE  RowsInv' /\ LogInv' /\ ClerkInv'
  <2>1. UNCHANGED <<budgets, alertLog>>
    BY <1>5 DEF CheckBudgets, ClerkFails
  <2>2. RowsInv' /\ LogInv'
    BY <1>1, <2>1, LogKept DEF RowsInv
  <2>3. PICK rest \in SUBSET BudgetRow : NextBudget(c, rest)
    <3>1. CASE CheckBudgets(c)
      <4>1. PICK rest : rest = {[vendor |-> v, amount |-> budgets[v]] : v \in Budgeted}
        OBVIOUS
      <4>2. rest # {} /\ clerk' = [clerk EXCEPT ![c] = [AtRest EXCEPT !.pc = "check",
                                                                      !.todo = rest]]
        BY <3>1, <4>1 DEF CheckBudgets
      <4>3. \A v \in Budgeted : v \in Vendors /\ budgets[v] \in Amounts
        BY DEF Budgeted, RowsInv
      <4>4. rest \in SUBSET BudgetRow
        BY <4>1, <4>3 DEF BudgetRow
      <4> QED BY <4>2, <4>4 DEF NextBudget
    <3>2. CASE ClerkFails(c)
      BY <3>2 DEF ClerkFails, NextBudget
    <3> QED BY <1>5, <3>1, <3>2
  <2> QED BY <1>1, <2>2, <2>3, NextTurn
<1>6. ASSUME NEW c \in Clerks, CheckBudget(c)
      PROVE  RowsInv' /\ LogInv' /\ ClerkInv'
  <2>1. UNCHANGED <<budgets, alertLog>>
    BY <1>6 DEF CheckBudget
  <2>2. RowsInv' /\ LogInv'
    BY <1>1, <2>1, LogKept DEF RowsInv
  <2>3. PICK call \in ClerkCall : clerk[c] = call /\ ClerkHolds(call)
    BY DEF ClerkInv
  <2>4. PICK b \in call.todo :
           \/ /\ Level(AlertSpend(b.vendor), b.amount) # "none"
              /\ clerk' = [clerk EXCEPT ![c].pc = "save", ![c].item = b,
                              ![c].actual = AlertSpend(b.vendor), ![c].todo = @ \ {b}]
           \/ NextBudget(c, call.todo \ {b})
    BY <1>6, <2>3 DEF CheckBudget
  <2>5. call.todo \in SUBSET BudgetRow /\ b.vendor \in Vendors /\ b.amount \in Amounts
        /\ b = [vendor |-> b.vendor, amount |-> b.amount]
    BY <2>3 DEF ClerkCall, BudgetRow
  <2>6. CASE NextBudget(c, call.todo \ {b})
    <3>1. call.todo \ {b} \in SUBSET BudgetRow
      BY <2>5
    <3> QED BY <1>1, <2>2, <2>6, <3>1, NextTurn
  <2>7. CASE ~NextBudget(c, call.todo \ {b})
    <3>1. PICK actual : actual = AlertSpend(b.vendor)
      OBVIOUS
    <3>2. CameTo(b.vendor, actual) /\ actual \in Nat
      BY <3>1, CameToNow
    <3>3. PICK next : next = [call EXCEPT !.pc = "save", !.item = b, !.actual = actual,
                                          !.todo = call.todo \ {b}]
      OBVIOUS
    <3>4. Level(actual, b.amount) # "none" /\ clerk' = [clerk EXCEPT ![c] = next]
      BY <2>3, <2>4, <2>7, <3>1, <3>3 DEF ClerkInv
    <3>5. next = [pc |-> "save", item |-> b, from |-> call.from, to |-> call.to,
                  actual |-> actual, todo |-> call.todo \ {b}]
      BY <3>3 DEF ClerkCall
    <3>6. /\ b \in [vendor : Vendors \cup {NoVendor}, amount : Nat]
          /\ call.todo \ {b} \in SUBSET BudgetRow
      BY <2>5, BudgetAssumption
    <3>7. next \in ClerkCall
      BY <3>2, <3>5, <3>6 DEF ClerkCall
    <3>8. next.pc = "save" /\ next.item = b /\ next.actual = actual
      BY <3>5
    <3>9. CameTo(b.vendor, actual)'
      BY <3>2, CameToStays
    <3>10. ClerkHolds(next)'
      BY <2>5, <3>4, <3>8, <3>9 DEF ClerkHolds, Moving
    <3> QED BY <1>2, <2>2, <3>4, <3>7, <3>10, ClerkMoved
  <2> QED BY <2>6, <2>7
<1>7. ASSUME NEW c \in Clerks, SaveAlert(c)
      PROVE  RowsInv' /\ LogInv' /\ ClerkInv'
  <2>1. UNCHANGED budgets
    BY <1>7 DEF SaveAlert
  <2>2. RowsInv'
    BY <1>1, <2>1 DEF RowsInv
  <2>3. PICK call \in ClerkCall : clerk[c] = call /\ ClerkHolds(call)
    BY DEF ClerkInv
  <2>4. NextBudget(c, call.todo) /\ call.todo \in SUBSET BudgetRow /\ call.pc = "save"
    BY <1>7, <2>3 DEF SaveAlert, ClerkCall
  <2>5. ClerkInv'
    BY <1>1, <2>4, NextTurn
  <2>6. PICK a : a = [vendor |-> call.item.vendor, budget |-> call.item.amount,
                      actual |-> call.actual,
                      level |-> Level(call.actual, call.item.amount)]
    OBVIOUS
  <2>7. \/ alertLog' = alertLog \cup {a}
        \/ UNCHANGED alertLog
    BY <1>7, <2>3, <2>6 DEF SaveAlert
  <2>8. /\ call.item.vendor \in Vendors /\ call.item.amount \in Amounts
        /\ Level(call.actual, call.item.amount) \in {"critical", "warning", "info"}
        /\ CameTo(call.item.vendor, call.actual) /\ call.actual \in Nat
    BY <2>3, <2>4, LevelType DEF ClerkHolds, ClerkCall
  <2>9. a \in LogRow /\ a.level = Level(a.actual, a.budget) /\ CameTo(a.vendor, a.actual)'
    BY <2>6, <2>8, CameToStays DEF LogRow
  <2>10. \A x \in alertLog : CameTo(x.vendor, x.actual)'
    BY CameToStays DEF LogInv
  <2>11. LogInv'
    <3>1. \A x \in alertLog' : x \in alertLog \/ x = a
      BY <2>7
    <3> QED BY <2>9, <2>10, <3>1 DEF LogInv
  <2> QED BY <2>2, <2>5, <2>11
<1> QED BY <1>2, <1>3, <1>4, <1>5, <1>6, <1>7 DEF AlertNext

LEMMA CapStep ==
    ASSUME RowsInv, CapNext \/ CostNext
    PROVE  RowsInv' /\ UNCHANGED <<monthly, given, alertLog, clerk>>
<1>1. ASSUME NEW v \in Vendors, NEW soft \in Amounts \cup {0}, NEW hard \in Amounts \cup {0},
             NEW period \in Periods, handleSetSpendingCap(v, soft, hard, period)
      PROVE  RowsInv' /\ UNCHANGED <<monthly, given, alertLog, clerk>>
  <2>1. PICK cap : cap = [soft |-> soft, hard |-> hard, period |-> period]
    OBVIOUS
  <2>2. /\ caps' = [caps EXCEPT ![v] = cap]
        /\ UNCHANGED <<monthly, given, budgets, alertLog, shares, clerk>>
    BY <1>1, <2>1 DEF handleSetSpendingCap, SetCap
  <2>3. cap \in [soft : Amounts \cup {0}, hard : Amounts \cup {0},
                 period : Periods \cup {"none"}]
    BY <2>1
  <2> QED BY <2>2, <2>3 DEF RowsInv
<1>2. ASSUME NEW v \in Vendors, handleDeleteSpendingCap(v)
      PROVE  RowsInv' /\ UNCHANGED <<monthly, given, alertLog, clerk>>
  <2>1. NoCap \in [soft : Amounts \cup {0}, hard : Amounts \cup {0},
                   period : Periods \cup {"none"}]
    BY DEF NoCap
  <2> QED BY <1>2, <2>1 DEF handleDeleteSpendingCap, DeleteCap, RowsInv
<1>3. ASSUME NEW v \in Vendors, NEW d \in Departments, NEW pct \in Percents,
             handleSetAllocation(v, d, pct)
      PROVE  RowsInv' /\ UNCHANGED <<monthly, given, alertLog, clerk>>
  BY <1>3 DEF handleSetAllocation, SetAllocation, RowsInv
<1> QED BY <1>1, <1>2, <1>3 DEF CapNext, CostNext

LEMMA SpendingStep ==
    ASSUME DealsInv, now \in Instants, BudgetInv,
           \/ RolloverNext /\ UNCHANGED ledgerVars
           \/ AlertNext /\ UNCHANGED ledgerVars
           \/ (CapNext \/ CostNext) /\ UNCHANGED ledgerVars
           \/ /\ Tick \/ \E v \in Vendors, terms \in Terms : importDeals(v, terms)
              /\ UNCHANGED budgetVars
           \/ UNCHANGED <<deals, budgetVars>>
    PROVE  DealsInv' /\ Grown /\ BudgetInv'
<1>1. DealsInv' /\ Grown
  BY GrownOrSame DEF ledgerVars
<1> USE DEF BudgetInv
<1>2. CASE RolloverNext /\ UNCHANGED ledgerVars
  <2>1. UNCHANGED <<budgets, alertLog, caps, shares>>
    BY <1>2 DEF RolloverNext, handleSetMonthlyBudget, GetSource, ReadSpend, GetDestination,
                CreateDestination, MarkSource, Rollover, ClerkFails
  <2>2. RowsInv' /\ LogInv'
    BY <1>1, <2>1, LogKept DEF RowsInv
  <2> QED BY <1>1, <1>2, <2>2, RolloverStep
<1>3. CASE AlertNext /\ UNCHANGED ledgerVars
  BY <1>1, <1>3, AlertStep DEF ledgerVars
<1>4. CASE (CapNext \/ CostNext) /\ UNCHANGED ledgerVars
  <2>1. RowsInv' /\ UNCHANGED <<monthly, given, alertLog, clerk>>
    BY <1>4, CapStep
  <2>2. MonthlyInv' /\ Kept
    BY <2>1 DEF MonthlyInv, Kept
  <2> QED BY <1>1, <2>1, <2>2, LogKept, ClerksKept
<1>5. CASE UNCHANGED budgetVars
  <2>1. UNCHANGED <<monthly, given, budgets, alertLog, caps, shares, clerk>>
    BY <1>5 DEF budgetVars
  <2>2. MonthlyInv' /\ Kept /\ RowsInv'
    BY <2>1 DEF MonthlyInv, Kept, RowsInv
  <2> QED BY <1>1, <2>1, <2>2, LogKept, ClerksKept
<1> QED BY <1>2, <1>3, <1>4, <1>5

\* Every row of the log is so, and the dashboard bears out what is critical.
LEMMA LogReal == DealsInv /\ BudgetInv => BudgetAlertsAreReal
<1> SUFFICES ASSUME DealsInv, BudgetInv, NEW v \in Vendors, NEW a \in ListAlerts(v)
             PROVE  /\ a.level = "critical" /\ budgets[v] = a.budget =>
                          vendorActualSpend(v) > a.budget
                    /\ a.level = "critical" /\ budgets[v] = a.budget
                         /\ 10 * a.actual > 11 * a.budget => v \in Dashboard.warnings
                    /\ \E n \in 0 .. Len(deals) :
                          a.actual = Spend(OfVendor(deals, 1 .. n, v))
  BY DEF BudgetAlertsAreReal
<1>1. /\ a \in LogRow /\ a.vendor = v /\ a.level = Level(a.actual, a.budget)
      /\ CameTo(v, a.actual)
  BY DEF ListAlerts, BudgetInv, LogInv
<1>2. PICK actual, budget, spent : /\ actual = a.actual /\ budget = a.budget
                                   /\ spent = vendorActualSpend(v)
  OBVIOUS
<1>3. actual \in Nat /\ budget \in Nat /\ spent \in Nat /\ actual <= spent
  <2>1. budget \in Nat
    BY <1>1, <1>2, BudgetAssumption DEF LogRow
  <2>2. spent \in Nat
    BY <1>2, CameToNow
  <2> QED BY <1>1, <1>2, <2>1, <2>2, CameToBound
<1>4. a.level = "critical" => 100 * actual > 100 * budget
  BY <1>1, <1>2 DEF Level
<1>5. a.level = "critical" => spent > budget
  BY <1>3, <1>4
<1>6. 10 * actual > 11 * budget => 100 * spent > 110 * budget
  BY <1>3
<1>7. Dashboard.warnings = Warnings
  BY DEF Dashboard
<1>8. budgets[v] = budget => v \in Budgeted
  BY <1>3 DEF Budgeted
<1>9. budgets[v] = budget /\ 10 * actual > 11 * budget => v \in Dashboard.warnings
  BY <1>2, <1>6, <1>7, <1>8 DEF Warnings
<1> QED BY <1>1, <1>2, <1>5, <1>9 DEF CameTo

-----------------------------------------------------------------------------
(* What is rolled over: a vendor's months hold no more beyond what was set *)
(* for them, with what calls still have to add, than was rolled over.      *)

Held(v) == [m \in Months |-> IF monthly[v][m] = NoBudget THEN 0
                             ELSE monthly[v][m].amount - given[v][m]]
Rolled(v) == [m \in Months |-> monthly[v][m].rolled]
Owed(v) == [c \in Clerks |-> IF clerk[c].pc = "add" /\ VendorOf(c) = v THEN UnusedOf(c) ELSE 0]

Balanced(v) ==
    /\ \A m \in Months : Held(v)[m] \in Nat
    /\ SumOver(Held(v), Months) + SumOver(Owed(v), Clerks) <= SumOver(Rolled(v), Months)

RolloverInv == \A v \in Vendors : Balanced(v)

\* A row with a budget has an amount.
LEMMA RowOf ==
    ASSUME MonthlyInv, NEW v \in Vendors, NEW m \in Months
    PROVE  /\ monthly[v][m].rolled \in Nat /\ given[v][m] \in Nat
           /\ monthly[v][m] # NoBudget => monthly[v][m].amount \in Nat
           /\ monthly[v][m].amount \in Int
<1>1. PICK row \in MonthlyRow : row = monthly[v][m]
  BY DEF MonthlyInv
<1>2. row.rolled \in Nat /\ (row # NoBudget => row.amount \in Nat) /\ row.amount \in Int
  BY DEF MonthlyRow, NoBudget
<1>3. given[v][m] \in Nat
  BY DEF MonthlyInv
<1> QED BY <1>1, <1>2, <1>3

RolloverTyped ==
    \A v \in Vendors : /\ \A m \in Months : Rolled(v)[m] \in Nat /\ Held(v)[m] \in Int
                       /\ \A c \in Clerks : Owed(v)[c] \in Nat

LEMMA RolloverTypes == MonthlyInv /\ ClerkInv => RolloverTyped
<1> SUFFICES ASSUME MonthlyInv, ClerkInv, NEW v \in Vendors
             PROVE  /\ \A m \in Months : Rolled(v)[m] \in Nat /\ Held(v)[m] \in Int
                    /\ \A c \in Clerks : Owed(v)[c] \in Nat
  BY DEF RolloverTyped
<1>1. ASSUME NEW m \in Months PROVE Rolled(v)[m] \in Nat /\ Held(v)[m] \in Int
  BY RowOf DEF Rolled, Held
<1>2. ASSUME NEW c \in Clerks PROVE Owed(v)[c] \in Nat
  BY DEF Owed, ClerkInv, ClerkCall, UnusedOf
<1> QED BY <1>1, <1>2

LEMMA FiniteMonths == IsFiniteSet(Months) /\ IsFiniteSet(Clerks) /\ IsFiniteSet(Departments)
BY BudgetAssumption

\* One number each may change in what is held, owed and rolled over.
LEMMA StillBalanced ==
    ASSUME MonthlyInv, ClerkInv, MonthlyInv', ClerkInv', NEW v \in Vendors, Balanced(v),
           \A m \in Months : Held(v)'[m] \in Nat,
           NEW held \in Int, NEW owed \in Int, NEW rolled \in Int, held + owed <= rolled,
           SumOver(Held(v)', Months) = SumOver(Held(v), Months) + held,
           SumOver(Owed(v)', Clerks) = SumOver(Owed(v), Clerks) + owed,
           SumOver(Rolled(v)', Months) = SumOver(Rolled(v), Months) + rolled
    PROVE  Balanced(v)'
<1>1. PICK h, o, r : h = Held(v) /\ o = Owed(v) /\ r = Rolled(v)
  OBVIOUS
<1>2. /\ IsFiniteSet(Months) /\ \A m \in Months : h[m] \in Int /\ r[m] \in Int
      /\ IsFiniteSet(Clerks) /\ \A c \in Clerks : o[c] \in Int
  BY <1>1, RolloverTypes, FiniteMonths DEF RolloverTyped
<1>3. SumOver(h, Months) \in Int /\ SumOver(r, Months) \in Int /\ SumOver(o, Clerks) \in Int
  BY ONLY <1>2, SumInt
<1>4. SumOver(h, Months) + SumOver(o, Clerks) <= SumOver(r, Months)
  BY <1>1 DEF Balanced
<1>5. SumOver(Held(v)', Months) + SumOver(Owed(v)', Clerks) <= SumOver(Rolled(v)', Months)
  BY <1>1, <1>3, <1>4
<1> QED BY <1>5 DEF Balanced

\* g is f, but for one number that changes by some amount.
Changes(f, g, S, by) ==
    \/ (\A x \in S : f[x] = g[x]) /\ by = 0
    \/ \E y \in S : (\A x \in S \ {y} : f[x] = g[x]) /\ by = g[y] - f[y]

LEMMA ChangedSum ==
    ASSUME NEW S, IsFiniteSet(S), NEW f, NEW g, \A x \in S : f[x] \in Int /\ g[x] \in Int,
           NEW by, Changes(f, g, S, by)
    PROVE  SumOver(g, S) = SumOver(f, S) + by
<1>1. CASE (\A x \in S : f[x] = g[x]) /\ by = 0
  BY <1>1, SumsChange
<1>2. CASE \E y \in S : (\A x \in S \ {y} : f[x] = g[x]) /\ by = g[y] - f[y]
  BY <1>2, SumsChange
<1> QED BY <1>1, <1>2 DEF Changes

LEMMA BalanceKept ==
    ASSUME MonthlyInv, ClerkInv, MonthlyInv', ClerkInv', NEW v \in Vendors, Balanced(v),
           \A m \in Months : Held(v)'[m] \in Nat,
           NEW held \in Int, NEW owed \in Int, NEW rolled \in Int, held + owed <= rolled,
           Changes(Held(v), Held(v)', Months, held),
           Changes(Owed(v), Owed(v)', Clerks, owed),
           Changes(Rolled(v), Rolled(v)', Months, rolled)
    PROVE  Balanced(v)'
<1>1. PICK h, o, r : h = Held(v) /\ o = Owed(v) /\ r = Rolled(v)
  OBVIOUS
<1>2. PICK h2, o2, r2 : h2 = Held(v)' /\ o2 = Owed(v)' /\ r2 = Rolled(v)'
  OBVIOUS
<1>3. (MonthlyInv /\ ClerkInv => RolloverTyped)'
  BY RolloverTypes, PTL
<1>4. /\ \A m \in Months : h[m] \in Int /\ h2[m] \in Int
      /\ \A m \in Months : r[m] \in Int /\ r2[m] \in Int
      /\ \A c \in Clerks : o[c] \in Int /\ o2[c] \in Int
  BY <1>1, <1>2, <1>3, RolloverTypes DEF RolloverTyped
<1>5. Changes(h, h2, Months, held) /\ Changes(o, o2, Clerks, owed)
      /\ Changes(r, r2, Months, rolled)
  BY <1>1, <1>2
<1>6. /\ SumOver(h2, Months) = SumOver(h, Months) + held
      /\ SumOver(r2, Months) = SumOver(r, Months) + rolled
  BY ONLY <1>4, <1>5, FiniteMonths, ChangedSum
<1>7. SumOver(o2, Clerks) = SumOver(o, Clerks) + owed
  BY ONLY <1>4, <1>5, FiniteMonths, ChangedSum
<1> QED BY <1>1, <1>2, <1>6, <1>7, StillBalanced

\* A call whose statement leaves the months alone adds to what it owes only
\* by way of the last but one.
LEMMA CalmStep ==
    ASSUME MonthlyInv, ClerkInv, MonthlyInv', ClerkInv', RolloverInv,
           UNCHANGED <<monthly, given>>,
           \/ UNCHANGED clerk
           \/ \E c \in Clerks : /\ clerk'[c].pc # "add"
                                /\ \A x \in Clerks \ {c} : clerk'[x] = clerk[x]
    PROVE  RolloverInv'
<1> SUFFICES ASSUME NEW v \in Vendors PROVE Balanced(v)'
  BY DEF RolloverInv
<1>1. Balanced(v)
  BY DEF RolloverInv
<1>2. /\ Changes(Held(v), Held(v)', Months, 0) /\ Changes(Rolled(v), Rolled(v)', Months, 0)
      /\ \A m \in Months : Held(v)'[m] \in Nat
  BY <1>1 DEF Held, Rolled, Changes, Balanced
<1>3. CASE UNCHANGED clerk
  <2>1. Changes(Owed(v), Owed(v)', Clerks, 0)
    BY <1>3 DEF Owed, Changes, VendorOf, UnusedOf
  <2> QED BY <1>1, <1>2, <2>1, BalanceKept
<1>4. ASSUME NEW c \in Clerks, clerk'[c].pc # "add",
             \A x \in Clerks \ {c} : clerk'[x] = clerk[x]
      PROVE  Balanced(v)'
  <2>1. PICK owed : owed = Owed(v)'[c] - Owed(v)[c]
    OBVIOUS
  <2>2. \A x \in Clerks \ {c} : Owed(v)[x] = Owed(v)'[x]
    BY <1>4 DEF Owed, VendorOf, UnusedOf, ClerkInv
  <2>3. Owed(v)'[c] = 0 /\ Owed(v)[c] \in Nat
    BY <1>4, RolloverTypes DEF Owed, ClerkInv, RolloverTyped
  <2>4. Changes(Owed(v), Owed(v)', Clerks, owed)
    BY <2>1, <2>2 DEF Changes
  <2>5. owed \in Int /\ 0 + owed <= 0
    BY <2>1, <2>3
  <2> QED BY <1>1, <1>2, <2>4, <2>5, BalanceKept
<1> QED BY <1>3, <1>4

\* Where a budget is set nothing is held beyond it.
LEMMA SetStep ==
    ASSUME MonthlyInv, ClerkInv, MonthlyInv', ClerkInv', RolloverInv,
           NEW u \in Vendors, NEW m \in Months, NEW amount \in Nat,
           SetMonthlyBudget(u, m, amount),
           \A v \in Vendors : Changes(Owed(v), Owed(v)', Clerks, 0)
    PROVE  RolloverInv'
<1> SUFFICES ASSUME NEW v \in Vendors PROVE Balanced(v)'
  BY DEF RolloverInv
<1>1. Balanced(v) /\ Changes(Owed(v), Owed(v)', Clerks, 0)
  BY DEF RolloverInv
<1>2. /\ monthly'[u][m] # NoBudget
      /\ monthly'[u][m].amount = amount /\ monthly'[u][m].rolled = monthly[u][m].rolled
      /\ given'[u][m] = amount
      /\ \A w \in Vendors, n \in Months : <<w, n>> # <<u, m>> =>
            monthly'[w][n] = monthly[w][n] /\ given'[w][n] = given[w][n]
  BY BudgetWritten
<1> USE DEF Held, Rolled
<1>3. Changes(Rolled(v), Rolled(v)', Months, 0)
  BY <1>2 DEF Changes
<1>4. CASE v # u
  <2>1. \A n \in Months : Held(v)[n] = Held(v)'[n]
    BY <1>2, <1>4
  <2>2. Changes(Held(v), Held(v)', Months, 0) /\ \A n \in Months : Held(v)'[n] \in Nat
    BY <1>1, <2>1 DEF Changes, Balanced
  <2> QED BY <1>1, <1>3, <2>2, BalanceKept
<1>5. CASE v = u
  <2>1. \A n \in Months \ {m} : Held(v)[n] = Held(v)'[n]
    BY <1>2, <1>5
  <2>2. Held(v)'[m] = 0 /\ Held(v)[m] \in Nat
    BY <1>1, <1>2, <1>5 DEF Balanced
  <2>3. PICK held : held = Held(v)'[m] - Held(v)[m]
    OBVIOUS
  <2>4. held \in Int /\ held + 0 <= 0 /\ Changes(Held(v), Held(v)', Months, held)
    BY <2>1, <2>2, <2>3 DEF Changes
  <2>5. \A n \in Months : Held(v)'[n] \in Nat
    BY <1>1, <2>1, <2>2 DEF Balanced
  <2> QED BY <1>1, <1>3, <2>4, <2>5, BalanceKept
<1> QED BY <1>4, <1>5

\* What is marked as rolled over is owed until it is added.
LEMMA MarkStep ==
    ASSUME MonthlyInv, ClerkInv, MonthlyInv', ClerkInv', RolloverInv,
           NEW c \in Clerks, MarkSource(c)
    PROVE  RolloverInv'
<1> SUFFICES ASSUME NEW v \in Vendors PROVE Balanced(v)'
  BY DEF RolloverInv
<1>1. Balanced(v)
  BY DEF RolloverInv
<1>2. PICK call \in ClerkCall : clerk[c] = call /\ ClerkHolds(call)
  BY DEF ClerkInv
<1>3. PICK u, from, n : u = call.item.vendor /\ from = call.from /\ n = call.item.amount
  OBVIOUS
<1>4. /\ call.pc = "mark" /\ UNCHANGED given
      /\ monthly' = [monthly EXCEPT ![u][from].rolled = @ + n]
      /\ clerk' = [clerk EXCEPT ![c].pc = "add"]
  BY <1>2, <1>3, MarkSource(c) DEF MarkSource, VendorOf, UnusedOf, UpdateRollover
<1>5. u \in Vendors /\ from \in Months /\ n \in Nat /\ monthly[u][from] # NoBudget
  BY <1>2, <1>3, <1>4 DEF ClerkHolds, Moving, ClerkCall
<1>6. /\ monthly'[u][from] # NoBudget
      /\ monthly'[u][from].amount = monthly[u][from].amount
      /\ monthly'[u][from].rolled = monthly[u][from].rolled + n
      /\ \A w \in Vendors, k \in Months : <<w, k>> # <<u, from>> =>
            monthly'[w][k] = monthly[w][k]
  BY <1>4, <1>5, MonthMarked
<1>7. \A k \in Months : Held(v)[k] = Held(v)'[k]
  <2>1. monthly[u][from].amount \in Int
    BY <1>5, RowOf
  <2> QED BY <1>4, <1>5, <1>6, <2>1 DEF Held
<1>8. Changes(Held(v), Held(v)', Months, 0) /\ \A k \in Months : Held(v)'[k] \in Nat
  BY <1>1, <1>7 DEF Changes, Balanced
<1>9. /\ clerk'[c].pc = "add" /\ clerk'[c].item = call.item
      /\ \A x \in Clerks \ {c} : clerk'[x] = clerk[x]
  BY <1>2, <1>4 DEF ClerkInv, ClerkCall
<1>10. \A x \in Clerks \ {c} : Owed(v)[x] = Owed(v)'[x]
  BY <1>9 DEF Owed, VendorOf, UnusedOf
<1>11. Owed(v)[c] = 0 /\ Owed(v)'[c] = IF u = v THEN n ELSE 0
  BY <1>2, <1>3, <1>4, <1>9 DEF Owed, VendorOf, UnusedOf
<1>12. CASE v = u
  <2>1. PICK rolled : rolled = Rolled(v)'[from] - Rolled(v)[from]
    OBVIOUS
  <2>2. rolled = n
    BY <1>5, <1>6, <1>12, <2>1, RowOf DEF Rolled
  <2>3. \A k \in Months \ {from} : Rolled(v)[k] = Rolled(v)'[k]
    BY <1>6, <1>12 DEF Rolled
  <2>4. Changes(Rolled(v), Rolled(v)', Months, n)
    BY <1>5, <2>1, <2>2, <2>3 DEF Changes
  <2>5. Owed(v)'[c] - Owed(v)[c] = n
    BY <1>5, <1>11, <1>12
  <2>6. Changes(Owed(v), Owed(v)', Clerks, n)
    BY <1>10, <2>5 DEF Changes
  <2> QED BY <1>1, <1>5, <1>8, <2>4, <2>6, BalanceKept
<1>13. CASE v # u
  <2>1. Changes(Rolled(v), Rolled(v)', Months, 0)
    BY <1>6, <1>13 DEF Rolled, Changes
  <2>2. \A x \in Clerks : Owed(v)[x] = Owed(v)'[x]
    BY <1>10, <1>11, <1>13
  <2>3. Changes(Owed(v), Owed(v)', Clerks, 0)
    BY <2>2 DEF Changes
  <2> QED BY <1>1, <1>8, <2>1, <2>3, BalanceKept
<1> QED BY <1>12, <1>13

\* The destination then holds what was owed.
LEMMA AddStep ==
    ASSUME MonthlyInv, ClerkInv, MonthlyInv', ClerkInv', RolloverInv,
           NEW c \in Clerks, Rollover(c)
    PROVE  RolloverInv'
<1> SUFFICES ASSUME NEW v \in Vendors PROVE Balanced(v)'
  BY DEF RolloverInv
<1>1. Balanced(v)
  BY DEF RolloverInv
<1>2. PICK call \in ClerkCall : clerk[c] = call /\ ClerkHolds(call)
  BY DEF ClerkInv
<1>3. PICK u, to, n : u = call.item.vendor /\ to = call.to /\ n = call.item.amount
  OBVIOUS
<1>4. /\ call.pc = "add" /\ UNCHANGED given
      /\ monthly' = [monthly EXCEPT ![u][to].amount = @ + n]
      /\ clerk' = [clerk EXCEPT ![c] = AtRest]
  BY <1>2, <1>3, Rollover(c) DEF Rollover, VendorOf, UnusedOf
<1>5. u \in Vendors /\ to \in Months /\ n \in Nat /\ monthly[u][to] # NoBudget
  BY <1>2, <1>3, <1>4 DEF ClerkHolds, Moving, ClerkCall
<1>6. /\ monthly'[u][to] # NoBudget
      /\ monthly'[u][to].amount = monthly[u][to].amount + n
      /\ monthly'[u][to].rolled = monthly[u][to].rolled
      /\ \A w \in Vendors, k \in Months : <<w, k>> # <<u, to>> =>
            monthly'[w][k] = monthly[w][k]
  BY ZenonT(60), <1>4, <1>5, MonthTopped
<1>7. monthly[u][to].amount \in Nat /\ monthly[u][to].rolled \in Nat /\ given[u][to] \in Nat
  BY <1>5, RowOf
<1>8. \A k \in Months : Rolled(v)[k] = Rolled(v)'[k]
  BY <1>5, <1>6, <1>7 DEF Rolled
<1>9. Changes(Rolled(v), Rolled(v)', Months, 0)
  BY <1>8 DEF Changes
<1>10. /\ clerk'[c].pc # "add"
       /\ \A x \in Clerks \ {c} : clerk'[x] = clerk[x]
  BY <1>4 DEF ClerkInv, AtRest
<1>11. \A x \in Clerks \ {c} : Owed(v)[x] = Owed(v)'[x]
  BY <1>10 DEF Owed, VendorOf, UnusedOf
<1>12. Owed(v)'[c] = 0 /\ Owed(v)[c] = IF u = v THEN n ELSE 0
  BY <1>2, <1>3, <1>4, <1>10 DEF Owed, VendorOf, UnusedOf
<1>13. CASE v = u
  <2>1. \A k \in Months \ {to} : Held(v)[k] = Held(v)'[k]
    BY <1>4, <1>6, <1>13 DEF Held
  <2>2. Held(v)[to] = monthly[u][to].amount - given[u][to]
    BY <1>5, <1>13 DEF Held
  <2>3. Held(v)'[to] = (monthly[u][to].amount + n) - given[u][to]
    BY <1>4, <1>5, <1>6, <1>13 DEF Held
  <2>4. Held(v)[to] \in Nat
    BY <1>1, <1>5 DEF Balanced
  <2>5. Held(v)'[to] \in Nat /\ Held(v)'[to] - Held(v)[to] = n
    BY <1>5, <1>7, <2>2, <2>3, <2>4
  <2>6. Changes(Held(v), Held(v)', Months, n)
    BY <1>5, <2>1, <2>5 DEF Changes
  <2>7. \A k \in Months : Held(v)'[k] \in Nat
    BY <1>1, <2>1, <2>5 DEF Balanced
  <2>8. Owed(v)'[c] - Owed(v)[c] = -n
    BY <1>5, <1>12, <1>13
  <2>9. Changes(Owed(v), Owed(v)', Clerks, -n)
    BY <1>11, <2>8 DEF Changes
  <2>10. -n \in Int /\ n + (-n) <= 0
    BY <1>5
  <2> QED BY <1>1, <1>5, <1>9, <2>6, <2>7, <2>9, <2>10, BalanceKept
<1>14. CASE v # u
  <2>1. \A k \in Months : Held(v)[k] = Held(v)'[k]
    BY <1>4, <1>6, <1>14 DEF Held
  <2>2. Changes(Held(v), Held(v)', Months, 0) /\ \A k \in Months : Held(v)'[k] \in Nat
    BY <1>1, <2>1 DEF Changes, Balanced
  <2>3. \A x \in Clerks : Owed(v)[x] = Owed(v)'[x]
    BY <1>11, <1>12, <1>14
  <2>4. Changes(Owed(v), Owed(v)', Clerks, 0)
    BY <2>3 DEF Changes
  <2> QED BY <1>1, <1>9, <2>2, <2>4, BalanceKept
<1> QED BY <1>13, <1>14

LEMMA NextRollover ==
    ASSUME BudgetInv, MonthlyInv', ClerkInv', RolloverInv,
           \/ RolloverNext
           \/ AlertNext
           \/ UNCHANGED <<monthly, given, clerk>>
    PROVE  RolloverInv'
<1> USE DEF BudgetInv
<1>1. ASSUME NEW v \in Vendors, NEW m \in Months, NEW amount \in Amounts,
             handleSetMonthlyBudget(v, m, amount)
      PROVE  RolloverInv'
  <2>1. amount \in Nat /\ SetMonthlyBudget(v, m, amount) /\ UNCHANGED clerk
    BY <1>1, BudgetAssumption DEF handleSetMonthlyBudget
  <2>2. \A u \in Vendors : Changes(Owed(u), Owed(u)', Clerks, 0)
    BY <2>1 DEF Changes, Owed, VendorOf, UnusedOf
  <2> QED BY <2>1, <2>2, SetStep
<1>2. ASSUME NEW c \in Clerks, CreateDestination(c) PROVE RolloverInv'
  <2>1. PICK call \in ClerkCall : clerk[c] = call /\ ClerkHolds(call)
    BY DEF ClerkInv
  <2>2. /\ call.pc = "create" /\ SetMonthlyBudget(call.item.vendor, call.to, 0)
        /\ clerk' = [clerk EXCEPT ![c].pc = "mark"]
    BY <1>2, <2>1 DEF CreateDestination, VendorOf
  <2>3. call.item.vendor \in Vendors /\ call.to \in Months
    BY <2>1, <2>2 DEF ClerkHolds, Moving
  <2>4. clerk'[c].pc = "mark" /\ \A x \in Clerks \ {c} : clerk'[x] = clerk[x]
    BY <2>1, <2>2 DEF ClerkInv, ClerkCall
  <2>5. \A u \in Vendors : Changes(Owed(u), Owed(u)', Clerks, 0)
    <3>1. \A u \in Vendors, x \in Clerks : Owed(u)[x] = Owed(u)'[x]
      BY <2>1, <2>2, <2>4 DEF Owed, VendorOf, UnusedOf
    <3> QED BY <3>1 DEF Changes
  <2> QED BY <2>2, <2>3, <2>5, SetStep
<1>3. ASSUME NEW c \in Clerks, MarkSource(c) \/ Rollover(c) PROVE RolloverInv'
  BY <1>3, MarkStep, AddStep
<1>4. ASSUME NEW c \in Clerks, NEW v \in Vendors, NEW from \in Months, NEW to \in Months,
             GetSource(c, v, from, to)
      PROVE  /\ UNCHANGED <<monthly, given>> /\ clerk'[c].pc # "add"
             /\ \A x \in Clerks \ {c} : clerk'[x] = clerk[x]
  BY <1>4 DEF GetSource, ClerkInv, AtRest
<1>5. ASSUME NEW c \in Clerks, ReadSpend(c)
      PROVE  /\ UNCHANGED <<monthly, given>> /\ clerk'[c].pc # "add"
             /\ \A x \in Clerks \ {c} : clerk'[x] = clerk[x]
  <2>1. PICK call \in ClerkCall : clerk[c] = call
    BY DEF ClerkInv
  <2>2. PICK next : /\ clerk' = [clerk EXCEPT ![c] = next]
                    /\ \/ next = AtRest
                       \/ \E unused : next = [call EXCEPT !.pc = "destination",
                                                          !.item.amount = unused]
    BY <1>5, <2>1 DEF ReadSpend
  <2>3. next.pc # "add"
    <3>1. AtRest.pc # "add"
      BY DEF AtRest
    <3>2. ASSUME NEW unused, next = [call EXCEPT !.pc = "destination", !.item.amount = unused]
          PROVE  next.pc = "destination"
      BY <3>2 DEF ClerkCall
    <3> QED BY <2>2, <3>1, <3>2
  <2> QED BY <1>5, <2>2, <2>3 DEF ClerkInv, ReadSpend
<1>6. ASSUME NEW c \in Clerks, GetDestination(c)
      PROVE  /\ UNCHANGED <<monthly, given>> /\ clerk'[c].pc # "add"
             /\ \A x \in Clerks \ {c} : clerk'[x] = clerk[x]
  <2>1. PICK call \in ClerkCall : clerk[c] = call
    BY DEF ClerkInv
  <2>2. PICK stage \in {"create", "mark"} : clerk' = [clerk EXCEPT ![c].pc = stage]
    BY <1>6 DEF GetDestination
  <2> QED BY <1>6, <2>1, <2>2 DEF ClerkInv, ClerkCall, GetDestination
<1>7. ASSUME NEW c \in Clerks, ClerkFails(c)
      PROVE  /\ UNCHANGED <<monthly, given>> /\ clerk'[c].pc # "add"
             /\ \A x \in Clerks \ {c} : clerk'[x] = clerk[x]
  BY <1>7 DEF ClerkFails, ClerkInv, AtRest
<1>8. CASE AlertNext
  <2>1. ASSUME NEW c \in Clerks, NEW rest, NextBudget(c, rest)
        PROVE  clerk'[c].pc # "add" /\ \A x \in Clerks \ {c} : clerk'[x] = clerk[x]
    BY <2>1 DEF NextBudget, ClerkInv, AtRest
  <2>2. ASSUME NEW c \in Clerks, CheckBudget(c)
        PROVE  clerk'[c].pc # "add" /\ \A x \in Clerks \ {c} : clerk'[x] = clerk[x]
    <3>1. PICK call \in ClerkCall : clerk[c] = call
      BY DEF ClerkInv
    <3>2. PICK b, actual : \/ \E rest : NextBudget(c, rest)
                           \/ clerk' = [clerk EXCEPT ![c].pc = "save", ![c].item = b,
                                           ![c].actual = actual, ![c].todo = @ \ {b}]
      BY <2>2 DEF CheckBudget
    <3> QED BY <2>1, <3>1, <3>2 DEF ClerkInv, ClerkCall
  <2>3. ASSUME NEW c \in Clerks, CheckBudgets(c)
        PROVE  clerk'[c].pc # "add" /\ \A x \in Clerks \ {c} : clerk'[x] = clerk[x]
    BY <2>3 DEF CheckBudgets, ClerkInv, AtRest
  <2>4. ASSUME NEW c \in Clerks, SaveAlert(c)
        PROVE  clerk'[c].pc # "add" /\ \A x \in Clerks \ {c} : clerk'[x] = clerk[x]
    BY <2>1, <2>4 DEF SaveAlert
  <2>5. UNCHANGED <<monthly, given>>
    BY <1>8 DEF AlertNext, handleSetBudget, handleDeleteBudget, CheckBudgets, CheckBudget,
                SaveAlert, ClerkFails
  <2>6. \/ UNCHANGED clerk
        \/ \E c \in Clerks : /\ clerk'[c].pc # "add"
                             /\ \A x \in Clerks \ {c} : clerk'[x] = clerk[x]
    BY <1>7, <1>8, <2>2, <2>3, <2>4 DEF AlertNext, handleSetBudget, handleDeleteBudget
  <2> QED BY <2>5, <2>6, CalmStep
<1>9. CASE UNCHANGED <<monthly, given, clerk>>
  BY <1>9, CalmStep
<1>10. ASSUME NEW c \in Clerks, \/ \E v \in Vendors, from, to \in Months : GetSource(c, v, from, to)
                                \/ ReadSpend(c)
                                \/ GetDestination(c)
                                \/ ClerkFails(c)
       PROVE RolloverInv'
  <2>1. /\ UNCHANGED <<monthly, given>> /\ clerk'[c].pc # "add"
        /\ \A x \in Clerks \ {c} : clerk'[x] = clerk[x]
    BY <1>4, <1>5, <1>6, <1>7, <1>10
  <2> QED BY <2>1, CalmStep
<1> QED BY <1>1, <1>2, <1>3, <1>8, <1>9, <1>10 DEF RolloverNext

LEMMA RolloverInitInv == BudgetInit => RolloverInv
<1> SUFFICES ASSUME BudgetInit, NEW v \in Vendors PROVE Balanced(v)
  BY DEF RolloverInv
<1>1. PICK h, o, r : h = Held(v) /\ o = Owed(v) /\ r = Rolled(v)
  OBVIOUS
<1>2. \A m \in Months : h[m] = 0 /\ r[m] = 0
  BY <1>1 DEF BudgetInit, Held, Rolled, NoBudget
<1>3. \A c \in Clerks : o[c] = 0
  BY <1>1 DEF BudgetInit, Owed, AtRest
<1>4. SumOver(h, Months) = 0 /\ SumOver(r, Months) = 0
  BY ONLY <1>2, FiniteMonths, SumOfZeros
<1>5. SumOver(o, Clerks) = 0
  BY ONLY <1>3, FiniteMonths, SumOfZeros
<1> QED BY <1>1, <1>2, <1>4, <1>5 DEF Balanced

LEMMA RolloverRecorded == BudgetInv /\ RolloverInv => RolloverIsRecorded
<1> SUFFICES ASSUME BudgetInv, RolloverInv PROVE RolloverIsRecorded
  OBVIOUS
<1>1. ASSUME NEW v \in Vendors, NEW months, NEW adding,
             months = {m \in Months : monthly[v][m] # NoBudget},
             adding = {c \in Clerks : clerk[c].pc = "add" /\ VendorOf(c) = v}
      PROVE  /\ \A m \in months : monthly[v][m].amount >= given[v][m]
             /\ MapThenSumSet(LAMBDA m : monthly[v][m].amount - given[v][m], months)
                  + MapThenSumSet(UnusedOf, adding)
                <= RolledOf(v)
  <2>1. PICK h, o, r : h = Held(v) /\ o = Owed(v) /\ r = Rolled(v)
    OBVIOUS
  <2>2. PICK held : held = [m \in months |-> monthly[v][m].amount - given[v][m]]
    OBVIOUS
  <2>3. PICK owed : owed = [c \in adding |-> UnusedOf(c)]
    OBVIOUS
  <2>4. /\ \A m \in Months : h[m] \in Nat /\ r[m] \in Nat
        /\ \A c \in Clerks : o[c] \in Nat
    BY <2>1, RolloverTypes DEF RolloverTyped, BudgetInv, RolloverInv, Balanced
  <2>5. months \in SUBSET Months /\ \A m \in Months \ months : h[m] = 0
    BY <1>1, <2>1 DEF Held
  <2>6. adding \in SUBSET Clerks /\ \A c \in Clerks \ adding : o[c] = 0
    BY <1>1, <2>1 DEF Owed
  <2>7. \A m \in months : h[m] \in Int /\ h[m] = held[m]
    BY <1>1, <2>1, <2>2, <2>4 DEF Held
  <2>8. \A c \in adding : o[c] \in Int /\ o[c] = owed[c]
    BY <1>1, <2>1, <2>3, <2>4 DEF Owed
  <2>9. IsFiniteSet(months) /\ IsFiniteSet(adding)
    BY <2>5, <2>6, FiniteMonths, FS_Subset
  <2>10. SumOver(h, months) = SumOver(h, Months)
    BY ONLY <2>4, <2>5, FiniteMonths, SumOfSupport
  <2>11. SumOver(o, adding) = SumOver(o, Clerks)
    BY ONLY <2>4, <2>6, FiniteMonths, SumOfSupport
  <2>12. SumOver(h, months) = SumOver(held, months)
    BY ONLY <2>7, <2>9, SumSame
  <2>13. SumOver(o, adding) = SumOver(owed, adding)
    BY ONLY <2>8, <2>9, SumSame
  <2>14. MapThenSumSet(LAMBDA m : monthly[v][m].amount - given[v][m], months)
            = SumOver(held, months)
    <3>1. \A sum : SumsUp(sum, held, months) <=>
             sum = [T \in SUBSET months |->
                       IF T = {} THEN 0
                       ELSE monthly[v][CHOOSE m \in T : TRUE].amount
                              - given[v][CHOOSE m \in T : TRUE]
                              + sum[T \ {CHOOSE m \in T : TRUE}]]
      BY <2>2 DEF SumsUp, Foremost
    <3> QED BY ZenonT(60), <3>1 DEF MapThenSumSet, MapThenFoldSet, SumOver
  <2>15. MapThenSumSet(UnusedOf, adding) = SumOver(owed, adding)
    <3>1. \A sum : SumsUp(sum, owed, adding) <=>
             sum = [T \in SUBSET adding |->
                       IF T = {} THEN 0
                       ELSE UnusedOf(CHOOSE c \in T : TRUE)
                              + sum[T \ {CHOOSE c \in T : TRUE}]]
      BY <2>3 DEF SumsUp, Foremost
    <3> QED BY ZenonT(60), <3>1 DEF MapThenSumSet, MapThenFoldSet, SumOver
  <2>16. RolledOf(v) = SumOver(r, Months)
    <3>1. \A sum : SumsUp(sum, r, Months) <=>
             sum = [T \in SUBSET Months |->
                       IF T = {} THEN 0
                       ELSE monthly[v][CHOOSE m \in T : TRUE].rolled
                              + sum[T \ {CHOOSE m \in T : TRUE}]]
      BY <2>1 DEF SumsUp, Foremost, Rolled
    <3> QED BY ZenonT(60), <3>1 DEF RolledOf, MapThenSumSet, MapThenFoldSet, SumOver
  <2>17. SumOver(h, Months) + SumOver(o, Clerks) <= SumOver(r, Months)
    BY <2>1 DEF RolloverInv, Balanced
  <2>18. \A m \in months : monthly[v][m].amount >= given[v][m]
    <3>1. ASSUME NEW m \in months PROVE monthly[v][m].amount >= given[v][m]
      <4>1. m \in Months /\ monthly[v][m].amount - given[v][m] \in Nat
        BY <1>1, <2>1, <2>4 DEF Held
      <4>2. monthly[v][m].amount \in Int /\ given[v][m] \in Int
        BY <4>1, RowOf DEF BudgetInv
      <4> QED BY <4>1, <4>2
    <3> QED BY <3>1
  <2> QED BY <2>10, <2>11, <2>12, <2>13, <2>14, <2>15, <2>16, <2>17, <2>18
<1> QED BY <1>1 DEF RolloverIsRecorded

-----------------------------------------------------------------------------
(* What was spent, by month, quarter and year, by vendor and by cap.       *)

\* A month is in one quarter, and a quarter in one year.
LEMMA Coarser ==
    ASSUME NEW s \in Nat, NEW t \in Nat
    PROVE  /\ MonthOf(s) = MonthOf(t) => QuarterOf(s) = QuarterOf(t)
           /\ QuarterOf(s) = QuarterOf(t) => YearOf(s) = YearOf(t)
           /\ MonthOf(t) \in Nat
<1>1. \A x \in Nat : x \div 180 = (x \div 60) \div 3
  OBVIOUS
<1>2. \A x \in Nat : x \div 720 = (x \div 180) \div 4
  OBVIOUS
<1> QED BY <1>1, <1>2 DEF MonthOf, QuarterOf, YearOf

LEMMA DealRow ==
    ASSUME DealsInv, NEW i \in DOMAIN deals
    PROVE  /\ deals[i].at \in Instants /\ deals[i].at \in Nat
           /\ deals[i].vendor \in Vendors /\ deals[i].terms \in Terms
<1>1. PICK row \in DealOutcome : row = deals[i]
  BY DEF DealsInv
<1> QED BY <1>1, LedgerAssumption DEF DealOutcome

\* Parts no two of which share a row.
LEMMA SpendOfParts ==
    ASSUME DealsInv, NEW I, IsFiniteSet(I), NEW S \in SUBSET DOMAIN deals,
           NEW part, \A i \in I : part[i] \in SUBSET S,
           NEW whole, \A i \in I : whole[i] = Spend(part[i]),
           \A i, j \in I : i # j => part[i] \cap part[j] = {}
    PROVE  /\ SumOver(whole, I) \in Nat
           /\ SumOver(whole, I) = Spend(UNION {part[i] : i \in I})
           /\ SumOver(whole, I) <= Spend(S)
<1>1. PICK all : all = Final
  OBVIOUS
<1>2. IsFiniteSet(S) /\ \A i \in S : all[i] \in Nat
  BY <1>1, DealsFinite, FinalRow, FS_Subset
<1>a. IsFiniteSet(S)
  BY <1>2
<1>b. \A i \in S : all[i] \in Nat
  BY <1>2
<1>3. \A i \in I : part[i] \in SUBSET S
  OBVIOUS
<1>c. \A i \in I : whole[i] = SumOver(all, part[i])
  BY <1>1, <1>3, SpendIsSum
<1>4. /\ SumOver(whole, I) \in Nat
      /\ SumOver(all, UNION {part[i] : i \in I}) = SumOver(whole, I)
  BY ONLY <1>a, <1>b, <1>3, <1>c, IsFiniteSet(I),
          \A i, j \in I : i # j => part[i] \cap part[j] = {}, SumOfParts
<1>5. PICK U \in SUBSET S : U = UNION {part[i] : i \in I}
  OBVIOUS
<1>6. Spend(U) = SumOver(all, U) /\ Spend(U) <= Spend(S)
  BY <1>1, <1>5, SpendIsSum, SpendOfMore
<1> QED BY <1>4, <1>5, <1>6

LEMMA CapsCount ==
    ASSUME DealsInv, now \in Nat, NEW v \in Vendors
    PROVE  /\ CapSpend(v, "monthly") = vendorMonthSpend(v, MonthOf(now))
           /\ CapSpend(v, "") = CapSpend(v, "monthly")
           /\ CapSpend(v, "monthly") <= CapSpend(v, "quarterly")
           /\ CapSpend(v, "quarterly") <= CapSpend(v, "yearly")
           /\ CapSpend(v, "yearly") <= vendorActualSpend(v)
           /\ CapSpend(v, "monthly") \in Nat /\ CapSpend(v, "quarterly") \in Nat
           /\ CapSpend(v, "yearly") \in Nat /\ vendorActualSpend(v) \in Nat
<1>1. PICK mine : mine = OfVendor(deals, DOMAIN deals, v)
  OBVIOUS
<1>2. PICK month, quarter, year :
        /\ month = InMonth(deals, mine, MonthOf(now))
        /\ quarter = {i \in mine : QuarterOf(deals[i].at) = QuarterOf(now)}
        /\ year = {i \in mine : YearOf(deals[i].at) = YearOf(now)}
  OBVIOUS
<1>3. mine \in SUBSET DOMAIN deals
  BY <1>1, VendorRows
<1>4. \A i \in mine : deals[i].at \in Nat
  BY <1>3, DealRow
<1>5. month \in SUBSET quarter /\ quarter \in SUBSET year /\ year \in SUBSET mine
  BY <1>2, <1>4, Coarser DEF InMonth
<1>6. quarter \in SUBSET DOMAIN deals /\ year \in SUBSET DOMAIN deals
      /\ month \in SUBSET DOMAIN deals
  BY <1>3, <1>5
<1>7. /\ Spend(month) <= Spend(quarter) /\ Spend(quarter) <= Spend(year)
      /\ Spend(year) <= Spend(mine)
  BY <1>3, <1>5, <1>6, SpendOfMore
<1>8. /\ Spend(month) \in Nat /\ Spend(quarter) \in Nat /\ Spend(year) \in Nat
      /\ Spend(mine) \in Nat
  BY <1>3, <1>6, SpendIsSum
<1>9. CapSpend(v, "monthly") = Spend(month) /\ CapSpend(v, "") = Spend(month)
  BY <1>1, <1>2 DEF CapSpend
<1>10. CapSpend(v, "quarterly") = Spend(quarter)
  BY <1>1, <1>2 DEF CapSpend
<1>11. CapSpend(v, "yearly") = Spend(year)
  BY <1>1, <1>2 DEF CapSpend
<1>12. vendorActualSpend(v) = Spend(mine) /\ vendorMonthSpend(v, MonthOf(now)) = Spend(month)
  BY <1>1, <1>2 DEF vendorActualSpend, vendorMonthSpend
<1> QED BY <1>7, <1>8, <1>9, <1>10, <1>11, <1>12

\* The sum of what was spent in some months.
LEMMA MonthsSpend ==
    ASSUME DealsInv, NEW v \in Vendors, NEW months \in SUBSET Months
    PROVE  /\ MapThenSumSet(LAMBDA m : vendorMonthSpend(v, m), months) \in Nat
           /\ MapThenSumSet(LAMBDA m : vendorMonthSpend(v, m), months) <= vendorActualSpend(v)
<1>1. PICK mine \in SUBSET DOMAIN deals : mine = OfVendor(deals, DOMAIN deals, v)
  BY VendorRows
<1>2. PICK part, whole : /\ part = [m \in months |-> InMonth(deals, mine, m)]
                         /\ whole = [m \in months |-> vendorMonthSpend(v, m)]
  OBVIOUS
<1>3. IsFiniteSet(months)
  BY FiniteMonths, FS_Subset
<1>4. \A m \in months : part[m] \in SUBSET mine
  BY <1>1, <1>2 DEF InMonth
<1>a. \A m \in months : whole[m] = Spend(part[m])
  BY <1>1, <1>2 DEF vendorMonthSpend
<1>5. \A m, n \in months : m # n => part[m] \cap part[n] = {}
  BY <1>2 DEF InMonth
<1>6. SumOver(whole, months) \in Nat /\ SumOver(whole, months) <= Spend(mine)
  BY <1>3, <1>4, <1>a, <1>5, SpendOfParts
<1>7. \A sum : SumsUp(sum, whole, months) <=>
         sum = [T \in SUBSET months |->
                   IF T = {} THEN 0
                   ELSE vendorMonthSpend(v, CHOOSE m \in T : TRUE)
                          + sum[T \ {CHOOSE m \in T : TRUE}]]
  BY <1>2 DEF SumsUp, Foremost
<1>8. MapThenSumSet(LAMBDA m : vendorMonthSpend(v, m), months) = SumOver(whole, months)
  BY ZenonT(60), <1>7 DEF MapThenSumSet, MapThenFoldSet, SumOver
<1> QED BY <1>1, <1>6, <1>8 DEF vendorActualSpend

\* What is projected is twelve months' worth of the spending, but for half a
\* cent, so that the budget decides unless exactly all of it was spent.
LEMMA ProjectionClose ==
    ASSUME NEW spent \in Int, NEW budget \in Int, NEW month \in 1 .. 12
    PROVE  /\ projectedAnnual(spent, month) \in Int
           /\ month * projectedAnnual(spent, month) <= 12 * budget => spent <= budget
           /\ spent < budget => month * projectedAnnual(spent, month) <= 12 * budget
<1> DEFINE Sound(m) == LET p == (24 * spent + m) \div (2 * m)
                       IN  /\ p \in Int
                           /\ m * p <= 12 * budget => spent <= budget
                           /\ spent < budget => m * p <= 12 * budget
<1>1. Sound(1) /\ Sound(2) /\ Sound(3)
  OBVIOUS
<1>2. Sound(4) /\ Sound(5) /\ Sound(6)
  OBVIOUS
<1>3. Sound(7) /\ Sound(8) /\ Sound(9)
  OBVIOUS
<1>4. Sound(10) /\ Sound(11) /\ Sound(12)
  OBVIOUS
<1>5. month \in {1, 2, 3, 4, 5, 6, 7, 8, 9, 10, 11, 12}
  OBVIOUS
<1>6. Sound(month)
  <2> HIDE DEF Sound
  <2> QED BY <1>1, <1>2, <1>3, <1>4, <1>5
<1> QED BY <1>6 DEF projectedAnnual

LEMMA ForecastAgrees ==
    ASSUME DealsInv, MonthlyInv, now \in Nat, NEW v \in Vendors
    PROVE  /\ GetForecast(v).spent <= vendorActualSpend(v)
           /\ GetForecast(v).status = "on_track" =>
                 GetForecast(v).spent <= GetForecast(v).budget
           /\ GetForecast(v).spent < GetForecast(v).budget =>
                 GetForecast(v).status = "on_track"
<1>1. PICK months : months = GetYTD(v)
  OBVIOUS
<1>2. PICK amount : amount = [m \in months |-> monthly[v][m].amount]
  OBVIOUS
<1>3. months \in SUBSET Months /\ IsFiniteSet(months)
  BY <1>1, FiniteMonths, FS_Subset DEF GetYTD
<1>4. \A m \in months : amount[m] \in Int
  BY <1>2, <1>3, RowOf
<1>5. MapThenSumSet(LAMBDA m : monthly[v][m].amount, months) = SumOver(amount, months)
  <2>1. \A sum : SumsUp(sum, amount, months) <=>
           sum = [T \in SUBSET months |->
                     IF T = {} THEN 0
                     ELSE monthly[v][CHOOSE m \in T : TRUE].amount
                            + sum[T \ {CHOOSE m \in T : TRUE}]]
    BY <1>2 DEF SumsUp, Foremost
  <2> QED BY ZenonT(60), <2>1 DEF MapThenSumSet, MapThenFoldSet, SumOver
<1>6. PICK budget \in Int : budget = MapThenSumSet(LAMBDA m : monthly[v][m].amount, months)
  BY <1>3, <1>4, <1>5, SumInt
<1>7. PICK spent \in Nat : spent = MapThenSumSet(LAMBDA m : vendorMonthSpend(v, m), months)
  BY <1>3, MonthsSpend
<1>8. PICK month \in 1 .. 12 : month = (MonthOf(now) % 12) + 1
  BY Coarser
<1>9. PICK projected : projected = projectedAnnual(spent, month)
  OBVIOUS
<1>10. /\ month * projected <= 12 * budget => spent <= budget
       /\ spent < budget => month * projected <= 12 * budget
  BY <1>9, ProjectionClose
<1>11. PICK status : status = CASE month * projected <= 12 * budget -> "on_track"
                               [] /\ month * projected > 12 * budget
                                  /\ 10 * month * projected <= 11 * 12 * budget ->
                                     "at_risk"
                               [] OTHER -> "over_budget"
  OBVIOUS
<1>12. GetForecast(v) = [budget |-> budget, spent |-> spent, status |-> status]
  BY <1>1, <1>6, <1>7, <1>8, <1>9, <1>11 DEF GetForecast
<1>13. status = "on_track" <=> month * projected <= 12 * budget
  <2>1. projected \in Int
    BY <1>9, ProjectionClose
  <2> QED BY <1>11, <2>1
<1>15. spent <= vendorActualSpend(v)
  BY <1>3, <1>7, MonthsSpend
<1> QED BY <1>10, <1>12, <1>13, <1>15

\* The vendors of a month's dashboard.
LEMMA MonthDashboard ==
    ASSUME DealsInv, NEW m
    PROVE  GetDashboard(m).spent <= Spend(InMonth(deals, DOMAIN deals, m))
<1>1. PICK rows \in SUBSET DOMAIN deals : rows = InMonth(deals, DOMAIN deals, m)
  BY DEF InMonth
<1>2. PICK vendors : vendors = BudgetedIn(m)
  OBVIOUS
<1>3. PICK part, whole :
        /\ part = [v \in vendors |-> InMonth(deals, OfVendor(deals, DOMAIN deals, v), m)]
        /\ whole = [v \in vendors |-> vendorMonthSpend(v, m)]
  OBVIOUS
<1>4. vendors \subseteq Vendors /\ IsFiniteSet(vendors)
  BY <1>2, LedgerAssumption, FS_Subset DEF BudgetedIn
<1>5. \A v \in vendors : part[v] \in SUBSET rows
  BY <1>1, <1>3 DEF InMonth, OfVendor
<1>6. \A v \in vendors : whole[v] = Spend(part[v])
  BY <1>3 DEF vendorMonthSpend
<1>7. \A v, w \in vendors : v # w => part[v] \cap part[w] = {}
  BY <1>3 DEF InMonth, OfVendor
<1>8. SumOver(whole, vendors) <= Spend(rows)
  BY <1>4, <1>5, <1>6, <1>7, SpendOfParts
<1>9. \A sum : SumsUp(sum, whole, vendors) <=>
         sum = [T \in SUBSET vendors |->
                   IF T = {} THEN 0
                   ELSE vendorMonthSpend(CHOOSE v \in T : TRUE, m)
                          + sum[T \ {CHOOSE v \in T : TRUE}]]
  BY <1>3 DEF SumsUp, Foremost
<1>10. MapThenSumSet(LAMBDA v : vendorMonthSpend(v, m), vendors) = SumOver(whole, vendors)
  BY ZenonT(60), <1>9 DEF MapThenSumSet, MapThenFoldSet, SumOver
<1>11. GetDashboard(m).spent = MapThenSumSet(LAMBDA v : vendorMonthSpend(v, m), vendors)
  BY <1>2 DEF GetDashboard
<1> QED BY <1>1, <1>8, <1>10, <1>11

\* A cap that is reached was, and its warning came no later.
LEMMA CapsReached ==
    ASSUME DealsInv, RowsInv, now \in Nat, NEW result \in CheckCaps, result.hard
    PROVE  /\ vendorActualSpend(result.vendor) >= caps[result.vendor].hard
           /\ caps[result.vendor].period \in {"", "monthly", "quarterly", "yearly"}
           /\ caps[result.vendor].soft \in 1 .. caps[result.vendor].hard => result.soft
<1>1. PICK v \in ListCaps :
         result = [vendor |-> v, spent |-> CapSpend(v, caps[v].period),
                   soft |-> Reached(caps[v].soft, CapSpend(v, caps[v].period)),
                   hard |-> Reached(caps[v].hard, CapSpend(v, caps[v].period))]
  BY DEF CheckCaps
<1>2. PICK cap, spent : cap = caps[v] /\ spent = CapSpend(v, cap.period)
  OBVIOUS
<1>3. v \in Vendors
  BY DEF ListCaps
<1>4. cap.soft \in Nat /\ cap.hard \in Nat
  <2>1. cap \in [soft : Amounts \cup {0}, hard : Amounts \cup {0},
                 period : Periods \cup {"none"}]
    BY <1>2, <1>3 DEF RowsInv
  <2>2. PICK soft, hard : soft = cap.soft /\ hard = cap.hard
    OBVIOUS
  <2>3. soft \in Amounts \cup {0} /\ hard \in Amounts \cup {0}
    BY <2>1, <2>2
  <2>4. Amounts \subseteq Nat
    BY BudgetAssumption
  <2>5. soft \in Nat /\ hard \in Nat
    BY ONLY <2>3, <2>4
  <2> QED BY <2>2, <2>5
<1>5. result.vendor = v
  BY <1>1
<1>6. result.soft = Reached(cap.soft, spent)
  BY <1>1, <1>2
<1>7. Reached(cap.hard, spent)
  BY <1>1, <1>2
<1>8. cap.hard > 0 /\ spent >= cap.hard
  BY <1>7 DEF Reached
<1>9. cap.period \in {"", "monthly", "quarterly", "yearly"}
  <2>1. PICK period : period = cap.period
    OBVIOUS
  <2>2. period \notin {"", "monthly", "quarterly", "yearly"} => CapSpend(v, period) = 0
    BY DEF CapSpend
  <2>3. spent # 0
    BY <1>4, <1>8
  <2> QED BY <1>2, <2>1, <2>2, <2>3
<1>10. spent \in Nat /\ vendorActualSpend(v) \in Nat /\ spent <= vendorActualSpend(v)
  <2>1. spent \in {CapSpend(v, ""), CapSpend(v, "monthly"), CapSpend(v, "quarterly"),
                   CapSpend(v, "yearly")}
    BY <1>2, <1>9
  <2>2. /\ CapSpend(v, "") = CapSpend(v, "monthly")
        /\ CapSpend(v, "monthly") <= CapSpend(v, "quarterly")
        /\ CapSpend(v, "quarterly") <= CapSpend(v, "yearly")
        /\ CapSpend(v, "yearly") <= vendorActualSpend(v)
        /\ CapSpend(v, "monthly") \in Nat /\ CapSpend(v, "quarterly") \in Nat
        /\ CapSpend(v, "yearly") \in Nat /\ vendorActualSpend(v) \in Nat
    BY <1>3, CapsCount
  <2>3. PICK e, m, q, y, all : /\ e = CapSpend(v, "") /\ m = CapSpend(v, "monthly")
                               /\ q = CapSpend(v, "quarterly") /\ y = CapSpend(v, "yearly")
                               /\ all = vendorActualSpend(v)
    OBVIOUS
  <2>4. /\ e = m /\ m <= q /\ q <= y /\ y <= all
        /\ m \in Nat /\ q \in Nat /\ y \in Nat /\ all \in Nat
    BY <2>2, <2>3
  <2>5. spent \in {e, m, q, y}
    BY <2>1, <2>3
  <2>6. spent \in Nat /\ spent <= all /\ all \in Nat
    BY ONLY <2>4, <2>5
  <2> QED BY <2>3, <2>6
<1>11. vendorActualSpend(v) >= cap.hard
  BY <1>4, <1>8, <1>10
<1>12. cap.soft \in 1 .. cap.hard => Reached(cap.soft, spent)
  BY <1>4, <1>8, <1>10 DEF Reached
<1> QED BY <1>2, <1>5, <1>6, <1>9, <1>11, <1>12

LEMMA MonthsFinite ==
    ASSUME NEW rows, NEW S, IsFiniteSet(S) PROVE IsFiniteSet(MonthsOf(rows, S))
<1>1. PICK month : month = [i \in S |-> MonthOf(rows[i].at)]
  OBVIOUS
<1>2. MonthsOf(rows, S) = {month[i] : i \in S}
  BY <1>1 DEF MonthsOf
<1> QED BY <1>2, ImageOf

\* The vendors of the dashboard spent no more than its months hold.
LEMMA DashboardAgrees ==
    ASSUME DealsInv
    PROVE  Dashboard.actual <= MapThenSumSet(LAMBDA m : Dashboard.trend[m],
                                             DOMAIN Dashboard.trend)
<1>1. PICK rows : rows = DOMAIN deals
  OBVIOUS
<1>2. PICK months : months = MonthsOf(deals, rows)
  OBVIOUS
<1>3. IsFiniteSet(rows) /\ rows \in SUBSET DOMAIN deals
  BY <1>1, DealsFinite
<1>4. IsFiniteSet(months)
  BY <1>2, <1>3, MonthsFinite
<1>5. PICK part, trend : /\ part = [m \in months |-> InMonth(deals, rows, m)]
                         /\ trend = [m \in months |-> Spend(InMonth(deals, rows, m))]
  OBVIOUS
<1>6. \A m \in months : part[m] \in SUBSET rows
  BY <1>5 DEF InMonth
<1>7. \A m \in months : trend[m] = Spend(part[m])
  BY <1>5
<1>8. \A m, n \in months : m # n => part[m] \cap part[n] = {}
  BY <1>5 DEF InMonth
<1>9. SumOver(trend, months) = Spend(UNION {part[m] : m \in months})
  BY <1>3, <1>4, <1>6, <1>7, <1>8, SpendOfParts
<1>10. UNION {part[m] : m \in months} = rows
  <2>1. ASSUME NEW i \in rows PROVE \E m \in months : i \in part[m]
    BY <1>2, <1>5 DEF MonthsOf, InMonth
  <2> QED BY <1>6, <2>1
<1>11. Dashboard.trend = trend
  BY <1>1, <1>2, <1>5 DEF Dashboard
<1>12. DOMAIN Dashboard.trend = months
  BY <1>5, <1>11
<1>13. MapThenSumSet(LAMBDA m : Dashboard.trend[m], months) = SumOver(trend, months)
  <2>1. \A sum : SumsUp(sum, trend, months) <=>
           sum = [T \in SUBSET months |->
                     IF T = {} THEN 0
                     ELSE Dashboard.trend[CHOOSE m \in T : TRUE]
                            + sum[T \ {CHOOSE m \in T : TRUE}]]
    BY <1>11 DEF SumsUp, Foremost
  <2> QED BY ZenonT(60), <2>1 DEF MapThenSumSet, MapThenFoldSet, SumOver
<1>14. PICK vendors : vendors = Budgeted
  OBVIOUS
<1>15. vendors \subseteq Vendors /\ IsFiniteSet(vendors)
  BY <1>14, LedgerAssumption, FS_Subset DEF Budgeted
<1>16. PICK mine, actual : /\ mine = [v \in vendors |-> OfVendor(deals, rows, v)]
                           /\ actual = [v \in vendors |-> vendorActualSpend(v)]
  OBVIOUS
<1>17. \A v \in vendors : mine[v] \in SUBSET rows
  BY <1>16 DEF OfVendor
<1>18. \A v \in vendors : actual[v] = Spend(mine[v])
  BY <1>1, <1>16 DEF vendorActualSpend
<1>19. \A v, w \in vendors : v # w => mine[v] \cap mine[w] = {}
  BY <1>16 DEF OfVendor
<1>20. SumOver(actual, vendors) <= Spend(rows)
  BY <1>3, <1>15, <1>17, <1>18, <1>19, SpendOfParts
<1>21. MapThenSumSet(vendorActualSpend, vendors) = SumOver(actual, vendors)
  <2>1. \A sum : SumsUp(sum, actual, vendors) <=>
           sum = [T \in SUBSET vendors |->
                     IF T = {} THEN 0
                     ELSE vendorActualSpend(CHOOSE v \in T : TRUE)
                            + sum[T \ {CHOOSE v \in T : TRUE}]]
    BY <1>16 DEF SumsUp, Foremost
  <2> QED BY ZenonT(60), <2>1 DEF MapThenSumSet, MapThenFoldSet, SumOver
<1>22. Dashboard.actual = MapThenSumSet(vendorActualSpend, vendors)
  BY <1>14 DEF Dashboard
<1> QED BY <1>9, <1>10, <1>12, <1>13, <1>20, <1>21, <1>22

-----------------------------------------------------------------------------
(* The shares of the departments.                                          *)

\* What one vendor is charged: a share of its cost to each department, and the
\* shares add up to a hundred.
LEMMA WholeVendor ==
    ASSUME NEW D, IsFiniteSet(D), NEW rows, NEW row, \A d \in D : row[d] \in rows,
           \A d, e \in D : d # e => row[d] # row[e],
           \A r \in rows : \E d \in D : r = row[d],
           NEW cost \in Int, NEW share, \A d \in D : share[d] \in Int,
           SumOver(share, D) = 100,
           NEW term, \A d \in D : term[row[d]] = cost * share[d]
    PROVE  SumOver(term, rows) = 100 * cost
<1>1. rows = {row[d] : d \in D}
  OBVIOUS
<1>2. IsFiniteSet(rows)
  BY <1>1, ImageOf
<1>3. \A r \in rows : term[r] \in Int
  OBVIOUS
<1>4. PICK part, charged : /\ part = [d \in D |-> {row[d]}]
                           /\ charged = [d \in D |-> cost * share[d]]
  OBVIOUS
<1>5. \A d \in D : part[d] \in SUBSET rows
  BY <1>4
<1>6. \A d \in D : charged[d] = SumOver(term, part[d])
  <2>1. ASSUME NEW d \in D PROVE charged[d] = SumOver(term, part[d])
    <3>1. PICK r : r = row[d]
      OBVIOUS
    <3>2. term[r] \in Int
      BY <1>3, <3>1
    <3>3. SumOver(term, {r}) = term[r]
      BY ONLY <3>2, SumOne
    <3> QED BY <1>4, <3>1, <3>3
  <2> QED BY <2>1
<1>7. \A d, e \in D : d # e => part[d] \cap part[e] = {}
  BY <1>4
<1>8. \A r \in rows : \E d \in D : r \in part[d]
  BY <1>4
<1>9. SumOver(charged, D) = SumOver(term, rows)
  BY ONLY IsFiniteSet(D), <1>2, <1>3, <1>5, <1>6, <1>7, <1>8, SumOfPartition
<1>10. \A d \in D : share[d] \in Int /\ charged[d] = cost * share[d]
  BY <1>4
<1>11. SumOver(charged, D) = cost * SumOver(share, D)
  BY ONLY IsFiniteSet(D), cost \in Int, <1>10, SumTimes
<1> QED BY <1>9, <1>11

\* Each vendor's cost is divided by shares that add up to a hundred, and what
\* is asked of a department is rounded.
Divided(D, W, cost, share, held, rows, term, ofDepartment, charge) ==
    /\ \A v \in W : cost[v] \in Int
    /\ \A v \in W : \A d \in D : share[v][d] \in Int
    /\ \A v \in W : held[v] \in SUBSET D /\ SumOver(share[v], held[v]) = 100
    /\ \A row \in rows : row \in W \X D /\ row[2] \in held[row[1]]
    /\ \A v \in W : \A d \in held[v] : <<v, d>> \in rows
    /\ \A v \in W : \A d \in held[v] : term[<<v, d>>] = cost[v] * share[v][d]
    /\ \A d \in D : \A row : row \in ofDepartment[d] <=> row \in rows /\ row[2] = d
    /\ \A d \in D : charge[d] = (SumOver(term, ofDepartment[d]) + 50) \div 100

\* What the departments are charged is what the vendors cost, but for half a
\* unit of rounding at each department.
LEMMA SharedOut ==
    ASSUME NEW D, IsFiniteSet(D), NEW W, IsFiniteSet(W), NEW cost, NEW share, NEW held,
           NEW rows, NEW term, NEW ofDepartment, NEW charge,
           Divided(D, W, cost, share, held, rows, term, ofDepartment, charge)
    PROVE  /\ 2 * (SumOver(cost, W) - SumOver(charge, D)) <= Cardinality(D)
           /\ -2 * (SumOver(cost, W) - SumOver(charge, D)) <= Cardinality(D)
<1>a. /\ \A v \in W : cost[v] \in Int
      /\ \A v \in W : \A d \in D : share[v][d] \in Int
      /\ \A v \in W : held[v] \in SUBSET D /\ SumOver(share[v], held[v]) = 100
      /\ \A row \in rows : row \in W \X D /\ row[2] \in held[row[1]]
      /\ \A v \in W : \A d \in held[v] : <<v, d>> \in rows
      /\ \A v \in W : \A d \in held[v] : term[<<v, d>>] = cost[v] * share[v][d]
      /\ \A d \in D : \A row : row \in ofDepartment[d] <=> row \in rows /\ row[2] = d
      /\ \A d \in D : charge[d] = (SumOver(term, ofDepartment[d]) + 50) \div 100
  BY DEF Divided
<1> USE <1>a
<1>1. IsFiniteSet(rows)
  <2>1. IsFiniteSet(W \X D)
    BY FS_Product
  <2> QED BY <2>1, FS_Subset
<1>2. \A row \in rows : term[row] \in Int
  <2>1. ASSUME NEW row \in rows PROVE term[row] \in Int
    <3>1. PICK v \in W, d \in D : row = <<v, d>> /\ d \in held[v]
      OBVIOUS
    <3>2. cost[v] \in Int /\ share[v][d] \in Int /\ term[row] = cost[v] * share[v][d]
      BY <3>1
    <3> QED BY <3>2
  <2> QED BY <2>1
<1>3. PICK ofVendor, asked, due :
        /\ ofVendor = [v \in W |-> {<<v, d>> : d \in held[v]}]
        /\ asked = [d \in D |-> SumOver(term, ofDepartment[d])]
        /\ due = [v \in W |-> 100 * cost[v]]
  OBVIOUS
<1>4. \A v \in W : due[v] = SumOver(term, ofVendor[v])
  <2>1. ASSUME NEW v \in W PROVE due[v] = SumOver(term, ofVendor[v])
    <3>1. PICK own, mine, price : own = held[v] /\ mine = share[v] /\ price = cost[v]
      OBVIOUS
    <3>2. own \in SUBSET D
      BY <3>1
    <3>3. IsFiniteSet(own)
      BY <3>2, FS_Subset
    <3>4. \A d \in own : mine[d] \in Int
      BY <3>1, <3>2
    <3>5. SumOver(mine, own) = 100
      BY <3>1
    <3>a. PICK c \in Int : c = price
      BY <3>1
    <3>6. PICK row, R : row = [d \in own |-> <<v, d>>] /\ R = {<<v, d>> : d \in own}
      OBVIOUS
    <3>b. \A d \in own : row[d] \in R
      BY <3>6
    <3>c. \A d, e \in own : d # e => row[d] # row[e]
      BY <3>6
    <3>d. \A r \in R : \E d \in own : r = row[d]
      BY <3>6
    <3>7. \A d \in own : term[row[d]] = c * mine[d]
      BY <3>1, <3>a, <3>6
    <3>8. SumOver(term, R) = 100 * c
      BY ONLY SMTT(30), c \in Int, <3>3, <3>b, <3>c, <3>d, <3>4, <3>5, <3>7, WholeVendor
    <3> QED BY <1>3, <3>1, <3>a, <3>6, <3>8
  <2> QED BY <2>1
<1>5. SumOver(due, W) = SumOver(term, rows)
  <2>1. \A v \in W : ofVendor[v] \in SUBSET rows
    BY <1>3
  <2>2. \A v, w \in W : v # w => ofVendor[v] \cap ofVendor[w] = {}
    BY <1>3
  <2>3. \A row \in rows : \E v \in W : row \in ofVendor[v]
    BY <1>3
  <2> QED BY ONLY IsFiniteSet(W), <1>1, <1>2, <1>4, <2>1, <2>2, <2>3, SumOfPartition
<1>6. SumOver(due, W) = 100 * SumOver(cost, W)
  <2>1. \A v \in W : cost[v] \in Int /\ due[v] = 100 * cost[v]
    BY <1>3
  <2>2. 100 \in Int
    OBVIOUS
  <2> QED BY ONLY IsFiniteSet(W), <2>1, <2>2, SumTimes
<1>7. SumOver(asked, D) = SumOver(term, rows)
  <2>1. \A d \in D : ofDepartment[d] \in SUBSET rows
    BY <1>3
  <2>2. \A d \in D : asked[d] = SumOver(term, ofDepartment[d])
    BY <1>3
  <2>3. \A d, e \in D : d # e => ofDepartment[d] \cap ofDepartment[e] = {}
    BY <1>3
  <2>4. \A row \in rows : \E d \in D : row \in ofDepartment[d]
    BY <1>3
  <2> QED BY ONLY IsFiniteSet(D), <1>1, <1>2, <2>1, <2>2, <2>3, <2>4, SumOfPartition
<1>8. \A d \in D : asked[d] \in Int
  <2>1. ASSUME NEW d \in D PROVE asked[d] \in Int
    <3>1. PICK S \in SUBSET rows : S = ofDepartment[d]
      BY <1>3
    <3>2. IsFiniteSet(S) /\ \A row \in S : term[row] \in Int
      BY <1>1, <1>2, FS_Subset
    <3> QED BY <1>3, <3>1, <3>2, SumInt
  <2> QED BY <2>1
<1>9. \A d \in D : charge[d] = (asked[d] + 50) \div 100
  BY <1>3
<1>10. PICK hundred : hundred = [d \in D |-> 100 * charge[d]]
  OBVIOUS
<1>11. \A d \in D : /\ charge[d] \in Int /\ hundred[d] = 100 * charge[d]
                    /\ hundred[d] <= asked[d] + 50 /\ asked[d] <= hundred[d] + 50
  <2>1. ASSUME NEW d \in D
        PROVE  /\ charge[d] \in Int /\ hundred[d] = 100 * charge[d]
               /\ hundred[d] <= asked[d] + 50 /\ asked[d] <= hundred[d] + 50
    <3>1. PICK x \in Int : x = asked[d]
      BY <1>8
    <3>2. PICK y \in Int : y = (x + 50) \div 100
      OBVIOUS
    <3>3. charge[d] = y /\ hundred[d] = 100 * y
      BY <1>9, <1>10, <3>1, <3>2
    <3>4. 100 * y <= x + 50 /\ x <= 100 * y + 50
      BY <3>2
    <3> QED BY <3>1, <3>3, <3>4
  <2> QED BY <2>1
<1>12. SumOver(hundred, D) = 100 * SumOver(charge, D)
  <2>1. \A d \in D : charge[d] \in Int /\ hundred[d] = 100 * charge[d]
    BY <1>11
  <2>2. 100 \in Int
    OBVIOUS
  <2> QED BY ONLY IsFiniteSet(D), <2>1, <2>2, SumTimes
<1>13. /\ SumOver(hundred, D) <= SumOver(asked, D) + 50 * Cardinality(D)
       /\ SumOver(asked, D) <= SumOver(hundred, D) + 50 * Cardinality(D)
  <2>1. \A d \in D : hundred[d] \in Int /\ asked[d] \in Int /\ hundred[d] <= asked[d] + 50
    BY <1>8, <1>11
  <2>2. \A d \in D : asked[d] \in Int /\ hundred[d] \in Int /\ asked[d] <= hundred[d] + 50
    BY <1>8, <1>11
  <2>3. 50 \in Int
    OBVIOUS
  <2>4. SumOver(hundred, D) <= SumOver(asked, D) + 50 * Cardinality(D)
    BY ONLY IsFiniteSet(D), <2>1, <2>3, SumClose
  <2>5. SumOver(asked, D) <= SumOver(hundred, D) + 50 * Cardinality(D)
    BY ONLY IsFiniteSet(D), <2>2, <2>3, SumClose
  <2> QED BY <2>4, <2>5
<1>14. SumOver(cost, W) \in Int /\ SumOver(charge, D) \in Int
  BY <1>11, SumInt
<1>15. Cardinality(D) \in Nat
  BY FS_CardinalityType
<1>16. PICK c \in Int, k \in Int, n \in Nat :
         c = SumOver(cost, W) /\ k = SumOver(charge, D) /\ n = Cardinality(D)
  BY <1>14, <1>15
<1>17. 100 * k <= 100 * c + 50 * n /\ 100 * c <= 100 * k + 50 * n
  BY <1>5, <1>6, <1>7, <1>12, <1>13, <1>16
<1>18. 2 * (c - k) <= n /\ -2 * (c - k) <= n
  BY <1>17
<1> QED BY <1>16, <1>18

LEMMA CostInt ==
    ASSUME DealsInv, NEW S \in SUBSET DOMAIN deals PROVE Cost(S) \in Int
<1>1. PICK cost : cost = [i \in S |-> deals[i].terms.final * deals[i].terms.seats]
  OBVIOUS
<1>2. IsFiniteSet(S)
  BY DealsFinite, FS_Subset
<1>3. \A i \in S : cost[i] \in Int
  <2>1. ASSUME NEW i \in S PROVE cost[i] \in Int
    <3>1. PICK terms \in Terms : terms = deals[i].terms
      BY DealRow
    <3>2. terms.final \in Int /\ terms.seats \in Int
      BY LedgerAssumption
    <3> QED BY <1>1, <3>1, <3>2
  <2> QED BY <2>1
<1>4. \A sum : SumsUp(sum, cost, S) <=>
         sum = [T \in SUBSET S |->
                   IF T = {} THEN 0
                   ELSE deals[CHOOSE i \in T : TRUE].terms.final
                          * deals[CHOOSE i \in T : TRUE].terms.seats
                          + sum[T \ {CHOOSE i \in T : TRUE}]]
  BY <1>1 DEF SumsUp, Foremost
<1>5. Cost(S) = SumOver(cost, S)
  BY ZenonT(60), <1>4 DEF Cost, MapThenSumSet, MapThenFoldSet, SumOver
<1>6. SumOver(cost, S) \in Int
  BY <1>2, <1>3, SumInt
<1> QED BY <1>5, <1>6

LEMMA VendorCost == DealsInv => \A v, halfDays : CostOf(v, halfDays) \in Int
<1> SUFFICES ASSUME DealsInv, NEW v, NEW halfDays PROVE CostOf(v, halfDays) \in Int
  OBVIOUS
<1>1. PICK rows \in SUBSET DOMAIN deals :
         rows = OfVendor(deals, SinceDay(deals, now - halfDays), v)
  BY DEF OfVendor, SinceDay
<1> QED BY <1>1, CostInt DEF CostOf

\* The sums of the module, as sums of a function.
LEMMA SumOfMap ==
    ASSUME NEW f, NEW S PROVE MapThenSumSet(LAMBDA x : f[x], S) = SumOver(f, S)
<1>1. \A sum : SumsUp(sum, f, S) <=>
         sum = [T \in SUBSET S |->
                   IF T = {} THEN 0
                   ELSE f[CHOOSE x \in T : TRUE] + sum[T \ {CHOOSE x \in T : TRUE}]]
  BY DEF SumsUp, Foremost
<1> QED BY ONLY ZenonT(60), <1>1 DEF MapThenSumSet, MapThenFoldSet, SumOver

LEMMA SharesSum ==
    ASSUME NEW v, NEW S
    PROVE  MapThenSumSet(LAMBDA d : shares[v][d], S) = SumOver(shares[v], S)
BY ONLY SumOfMap

LEMMA ChargesSum ==
    ASSUME NEW result, NEW S
    PROVE  MapThenSumSet(LAMBDA d : result.department[d], S) = SumOver(result.department, S)
BY ONLY SumOfMap

LEMMA CostsSum ==
    ASSUME NEW S, NEW cost, cost = [v \in S |-> CostOf(v, 60)]
    PROVE  MapThenSumSet(LAMBDA v : CostOf(v, 60), S) = SumOver(cost, S)
<1>1. \A sum : SumsUp(sum, cost, S) <=>
         sum = [T \in SUBSET S |->
                   IF T = {} THEN 0
                   ELSE CostOf(CHOOSE v \in T : TRUE, 60) + sum[T \ {CHOOSE v \in T : TRUE}]]
  BY DEF SumsUp, Foremost
<1> QED BY ONLY ZenonT(60), <1>1 DEF MapThenSumSet, MapThenFoldSet, SumOver

PartOf(row) == CostOf(row[1], 60) * shares[row[1]][row[2]]

LEMMA PartsSum ==
    ASSUME NEW S, NEW term, term = [row \in S |-> PartOf(row)]
    PROVE  Allocated(S, 60) = (SumOver(term, S) + 50) \div 100
<1>1. \A sum : SumsUp(sum, term, S) <=>
         sum = [T \in SUBSET S |->
                   IF T = {} THEN 0
                   ELSE CostOf((CHOOSE row \in T : TRUE)[1], 60)
                          * shares[(CHOOSE row \in T : TRUE)[1]][(CHOOSE row \in T : TRUE)[2]]
                          + sum[T \ {CHOOSE row \in T : TRUE}]]
  BY DEF SumsUp, Foremost, PartOf
<1>2. MapThenSumSet(LAMBDA row : CostOf(row[1], 60) * shares[row[1]][row[2]], S)
        = SumOver(term, S)
  BY ONLY ZenonT(60), <1>1 DEF MapThenSumSet, MapThenFoldSet, SumOver
<1> QED BY <1>2 DEF Allocated

\* The sum of rounded parts, and the rounded sum of the parts.
LEMMA RoundedParts ==
    ASSUME NEW S, IsFiniteSet(S), NEW term, \A x \in S : term[x] \in Int,
           NEW charge, \A x \in S : charge[x] = (term[x] + 50) \div 100,
           NEW whole, whole = (SumOver(term, S) + 50) \div 100
    PROVE  /\ 2 * (SumOver(charge, S) - whole) <= Cardinality(S)
           /\ -2 * (SumOver(charge, S) - whole) <= Cardinality(S)
<1>1. PICK hundred : hundred = [x \in S |-> 100 * charge[x]]
  OBVIOUS
<1>2. \A x \in S : /\ charge[x] \in Int /\ hundred[x] = 100 * charge[x]
                    /\ hundred[x] \in Int
                    /\ hundred[x] <= term[x] + 50 /\ term[x] <= hundred[x] + 49
  <2>1. ASSUME NEW x \in S
        PROVE  /\ charge[x] \in Int /\ hundred[x] = 100 * charge[x]
               /\ hundred[x] \in Int
               /\ hundred[x] <= term[x] + 50 /\ term[x] <= hundred[x] + 49
    <3>1. PICK t \in Int : t = term[x]
      OBVIOUS
    <3>2. PICK y \in Int : y = (t + 50) \div 100
      OBVIOUS
    <3>3. charge[x] = y /\ hundred[x] = 100 * y
      BY <1>1, <3>1, <3>2
    <3>4. 100 * y <= t + 50 /\ t <= 100 * y + 49
      BY <3>2
    <3> QED BY <3>1, <3>3, <3>4
  <2> QED BY <2>1
<1>3. SumOver(hundred, S) = 100 * SumOver(charge, S)
  <2>1. \A x \in S : charge[x] \in Int /\ hundred[x] = 100 * charge[x]
    BY <1>2
  <2>2. 100 \in Int
    OBVIOUS
  <2> QED BY ONLY IsFiniteSet(S), <2>1, <2>2, SumTimes
<1>4. SumOver(hundred, S) <= SumOver(term, S) + 50 * Cardinality(S)
  <2>1. \A x \in S : hundred[x] \in Int /\ term[x] \in Int /\ hundred[x] <= term[x] + 50
    BY <1>2
  <2>2. 50 \in Int
    OBVIOUS
  <2> QED BY ONLY IsFiniteSet(S), <2>1, <2>2, SumClose
<1>5. SumOver(term, S) <= SumOver(hundred, S) + 49 * Cardinality(S)
  <2>1. \A x \in S : term[x] \in Int /\ hundred[x] \in Int /\ term[x] <= hundred[x] + 49
    BY <1>2
  <2>2. 49 \in Int
    OBVIOUS
  <2> QED BY ONLY IsFiniteSet(S), <2>1, <2>2, SumClose
<1>6. PICK c \in Int, t \in Int, n \in Nat :
         c = SumOver(charge, S) /\ t = SumOver(term, S) /\ n = Cardinality(S)
  BY <1>2, SumInt, FS_CardinalityType
<1>7. 100 * c <= t + 50 * n /\ t <= 100 * c + 49 * n
  BY <1>3, <1>4, <1>5, <1>6
<1>8. PICK w \in Int : w = (t + 50) \div 100 /\ w = whole
  BY <1>6
<1>9. 100 * w <= t + 50 /\ t <= 100 * w + 49
  BY <1>8
<1>10. n = 0 => c = 0 /\ t = 0
  <2>1. n = 0 => S = {}
    BY <1>6, FS_EmptySet
  <2> QED BY <1>6, <2>1, SumEmpty
<1>11. 2 * (c - w) <= n /\ -2 * (c - w) <= n
  BY <1>7, <1>9, <1>10
<1> QED BY <1>6, <1>8, <1>11

LEMMA AmountsSum ==
    ASSUME NEW S, NEW charge, charge = [row \in S |-> Amount(row, 60)]
    PROVE  MapThenSumSet(LAMBDA row : Amount(row, 60), S) = SumOver(charge, S)
<1>1. \A sum : SumsUp(sum, charge, S) <=>
         sum = [T \in SUBSET S |->
                   IF T = {} THEN 0
                   ELSE Amount(CHOOSE row \in T : TRUE, 60)
                          + sum[T \ {CHOOSE row \in T : TRUE}]]
  BY DEF SumsUp, Foremost
<1> QED BY ONLY ZenonT(60), <1>1 DEF MapThenSumSet, MapThenFoldSet, SumOver

\* A department's report, and what the report of all says of it.
LEMMA DepartmentAgrees ==
    ASSUME DealsInv, RowsInv, NEW d \in Departments
    PROVE  LET rows == Cardinality(ListByDepartment(d))
               gap == DepartmentReport(d, 60).department
                        - AllocationReport(60).department[d]
           IN  2 * gap <= rows /\ -2 * gap <= rows
<1>1. PICK rows : rows = ListByDepartment(d)
  OBVIOUS
<1>2. rows \subseteq Vendors \X Departments /\ IsFiniteSet(rows)
  <2>1. rows \subseteq Vendors \X Departments
    BY <1>1 DEF ListByDepartment, ListAll
  <2>2. IsFiniteSet(Vendors \X Departments)
    BY LedgerAssumption, FiniteMonths, FS_Product
  <2> QED BY <2>1, <2>2, FS_Subset
<1>3. PICK term, charge : /\ term = [row \in rows |-> PartOf(row)]
                          /\ charge = [row \in rows |-> Amount(row, 60)]
  OBVIOUS
<1>4. \A row \in rows : term[row] \in Int /\ charge[row] = (term[row] + 50) \div 100
  <2>1. ASSUME NEW row \in rows
        PROVE  term[row] \in Int /\ charge[row] = (term[row] + 50) \div 100
    <3>1. row[1] \in Vendors /\ row[2] \in Departments
      BY <1>2
    <3>2. shares[row[1]][row[2]] \in Int
      <4>1. \A v \in Vendors, e \in Departments : shares[v][e] \in Percents \cup {-1}
        BY DEF RowsInv
      <4>2. shares[row[1]][row[2]] \in Percents \cup {-1}
        BY ONLY <3>1, <4>1, Zenon
      <4>3. PICK share : share = shares[row[1]][row[2]]
        OBVIOUS
      <4>4. share \in Percents \cup {-1} /\ Percents \subseteq Nat
        BY <4>2, <4>3, BudgetAssumption
      <4>5. share \in Int
        BY ONLY <4>4
      <4> QED BY <4>3, <4>5
    <3>3. PICK c \in Int, s \in Int : c = CostOf(row[1], 60) /\ s = shares[row[1]][row[2]]
      <4>1. CostOf(row[1], 60) \in Int
        BY VendorCost
      <4> QED BY ONLY <3>2, <4>1
    <3>4. term[row] = c * s
      BY <1>3, <3>3 DEF PartOf
    <3>5. charge[row] = (c * s + 50) \div 100
      BY <1>3, <3>3 DEF Amount
    <3> QED BY <3>4, <3>5
  <2> QED BY <2>1
<1>5. PICK whole : whole = Allocated(rows, 60)
  OBVIOUS
<1>6. whole = (SumOver(term, rows) + 50) \div 100
  BY <1>3, <1>5, PartsSum
<1>7. /\ 2 * (SumOver(charge, rows) - whole) <= Cardinality(rows)
      /\ -2 * (SumOver(charge, rows) - whole) <= Cardinality(rows)
  BY ONLY <1>2, <1>4, <1>6, RoundedParts
<1>8. DepartmentReport(d, 60).department = SumOver(charge, rows)
  <2>1. MapThenSumSet(LAMBDA row : Amount(row, 60), rows) = SumOver(charge, rows)
    BY <1>3, AmountsSum
  <2> QED BY <1>1, <2>1 DEF DepartmentReport
<1>9. AllocationReport(60).department[d] = whole
  BY <1>1, <1>5 DEF AllocationReport, ListByDepartment
<1> QED BY <1>1, <1>7, <1>8, <1>9

\* What the departments report.
LEMMA AllocationAgrees ==
    ASSUME DealsInv, RowsInv,
           {row[1] : row \in ListAll} =
              {v \in Vendors : MapThenSumSet(LAMBDA d : shares[v][d],
                                 {d \in Departments : shares[v][d] >= 0}) = 100}
    PROVE  /\ 2 * (AllocationReport(60).total
                     - MapThenSumSet(LAMBDA d : AllocationReport(60).department[d],
                                     Departments)) <= Cardinality(Departments)
           /\ -2 * (AllocationReport(60).total
                      - MapThenSumSet(LAMBDA d : AllocationReport(60).department[d],
                                      Departments)) <= Cardinality(Departments)
<1>1. PICK rows : rows = ListAll
  OBVIOUS
<1>2. PICK W : W = {row[1] : row \in rows}
  OBVIOUS
<1>3. \A row \in rows : row \in Vendors \X Departments
  BY <1>1 DEF ListAll
<1>4. W \subseteq Vendors /\ IsFiniteSet(W) /\ IsFiniteSet(Departments)
  BY <1>2, <1>3, LedgerAssumption, FiniteMonths, FS_Subset
<1>5. PICK cost, held, term, charge :
        /\ cost = [v \in W |-> CostOf(v, 60)]
        /\ held = [v \in W |-> {d \in Departments : shares[v][d] >= 0}]
        /\ term = [row \in rows |-> PartOf(row)]
        /\ charge = [d \in Departments |-> Allocated({row \in ListAll : row[2] = d}, 60)]
  OBVIOUS
<1>6. \A v \in W : cost[v] \in Int
  BY <1>5, VendorCost
<1>7. \A v \in W : \A d \in Departments : shares[v][d] \in Int
  BY <1>4, BudgetAssumption DEF RowsInv
<1>8. \A v \in W : held[v] \in SUBSET Departments
  BY <1>5
<1>9. \A v \in W : SumOver(shares[v], held[v]) = 100
  <2>1. ASSUME NEW v \in W PROVE SumOver(shares[v], held[v]) = 100
    <3>1. MapThenSumSet(LAMBDA d : shares[v][d], {d \in Departments : shares[v][d] >= 0}) = 100
      BY <1>1, <1>2
    <3>2. PICK own : own = {d \in Departments : shares[v][d] >= 0}
      OBVIOUS
    <3>3. SumOver(shares[v], own) = 100
      BY <3>1, <3>2, SharesSum
    <3> QED BY <1>5, <3>2, <3>3
  <2> QED BY <2>1
<1>10. rows = {row \in W \X Departments : row[2] \in held[row[1]]}
  <2>1. rows = {row \in Vendors \X Departments : shares[row[1]][row[2]] >= 0}
    BY <1>1 DEF ListAll
  <2> QED BY <1>2, <1>4, <1>5, <2>1
<1>11. \A v \in W : \A d \in held[v] : term[<<v, d>>] = cost[v] * shares[v][d]
  <2>1. ASSUME NEW v \in W, NEW d \in held[v]
        PROVE  term[<<v, d>>] = cost[v] * shares[v][d]
    <3>1. PICK row \in rows : row = <<v, d>>
      BY <1>8, <1>10
    <3>2. term[row] = CostOf(row[1], 60) * shares[row[1]][row[2]]
      BY <1>5 DEF PartOf
    <3>3. row[1] = v /\ row[2] = d
      BY <3>1
    <3> QED BY <1>5, <3>1, <3>2, <3>3
  <2> QED BY <2>1
<1>12. \A d \in Departments :
          charge[d] = (SumOver(term, {row \in rows : row[2] = d}) + 50) \div 100
  <2>1. ASSUME NEW d \in Departments
        PROVE  charge[d] = (SumOver(term, {row \in rows : row[2] = d}) + 50) \div 100
    <3>1. PICK own \in SUBSET rows : own = {row \in rows : row[2] = d}
      OBVIOUS
    <3>2. PICK mine : mine = [row \in own |-> PartOf(row)]
      OBVIOUS
    <3>3. IsFiniteSet(own)
      <4>1. IsFiniteSet(W \X Departments) /\ own \subseteq W \X Departments
        BY <1>4, <1>10, FS_Product
      <4> QED BY <4>1, FS_Subset
    <3>4. \A row \in own : mine[row] \in Int /\ mine[row] = term[row]
      <4>1. ASSUME NEW row \in own PROVE mine[row] \in Int /\ mine[row] = term[row]
        <5>1. PICK c \in Int, s \in Int : c = CostOf(row[1], 60) /\ s = shares[row[1]][row[2]]
          BY <1>7, <1>10, VendorCost
        <5>2. mine[row] = c * s /\ term[row] = c * s
          BY <1>5, <3>1, <3>2, <5>1 DEF PartOf
        <5> QED BY <5>2
      <4> QED BY <4>1
    <3>5. SumOver(mine, own) = SumOver(term, own)
      BY <3>3, <3>4, SumSame
    <3>6. Allocated(own, 60) = (SumOver(mine, own) + 50) \div 100
      BY <3>2, PartsSum
    <3>7. charge[d] = Allocated(own, 60)
      BY <1>1, <1>5, <3>1
    <3> QED BY <3>1, <3>5, <3>6, <3>7
  <2> QED BY <2>1
<1>13. /\ 2 * (SumOver(cost, W) - SumOver(charge, Departments)) <= Cardinality(Departments)
       /\ -2 * (SumOver(cost, W) - SumOver(charge, Departments)) <= Cardinality(Departments)
  <2>1. IsFiniteSet(Departments)
    BY <1>4
  <2>2. IsFiniteSet(W)
    BY <1>4
  <2>3. \A row \in rows : row \in W \X Departments /\ row[2] \in held[row[1]]
    BY <1>10
  <2>4. \A v \in W : \A d \in held[v] : <<v, d>> \in rows
    BY <1>8, <1>10
  <2>5. PICK ofDepartment :
           ofDepartment = [d \in Departments |-> {row \in rows : row[2] = d}]
    OBVIOUS
  <2>6. \A d \in Departments : \A row :
           row \in ofDepartment[d] <=> row \in rows /\ row[2] = d
    BY <2>5
  <2>7. \A d \in Departments :
           charge[d] = (SumOver(term, ofDepartment[d]) + 50) \div 100
    BY <1>12, <2>5
  <2>8. PICK share : share = shares
    OBVIOUS
  <2>9. Divided(Departments, W, cost, share, held, rows, term, ofDepartment, charge)
    BY ONLY <1>6, <1>7, <1>8, <1>9, <2>3, <2>4, <2>6, <1>11, <2>7, <2>8 DEF Divided
  <2> QED BY ONLY <2>1, <2>2, <2>9, SharedOut
<1>14. AllocationReport(60).total = SumOver(cost, W) /\ AllocationReport(60).department = charge
  <2>1. MapThenSumSet(LAMBDA v : CostOf(v, 60), W) = SumOver(cost, W)
    BY <1>5, CostsSum
  <2>2. CostOfRows(ListAll, 60) = SumOver(cost, W)
    BY <1>1, <1>2, <2>1 DEF CostOfRows
  <2> QED BY <1>5, <2>2 DEF AllocationReport
<1>15. MapThenSumSet(LAMBDA d : AllocationReport(60).department[d], Departments)
         = SumOver(charge, Departments)
  <2>1. MapThenSumSet(LAMBDA d : AllocationReport(60).department[d], Departments)
          = SumOver(AllocationReport(60).department, Departments)
    BY ONLY ChargesSum
  <2> QED BY ONLY <1>14, <2>1
<1> QED BY ONLY <1>13, <1>14, <1>15

\* SpendingAgrees, of any deals, budgets, caps and shares.
LEMMA SpendingSound == DealsInv /\ now \in Nat /\ BudgetInv => SpendingAgrees
<1> SUFFICES ASSUME DealsInv, now \in Nat, BudgetInv PROVE SpendingAgrees
  OBVIOUS
<1>1. MonthlyInv /\ RowsInv
  BY DEF BudgetInv
<1>2. ASSUME NEW v \in Vendors
      PROVE  /\ CapSpend(v, "monthly") = vendorMonthSpend(v, MonthOf(now))
             /\ CapSpend(v, "monthly") <= CapSpend(v, "quarterly")
             /\ CapSpend(v, "quarterly") <= CapSpend(v, "yearly")
             /\ CapSpend(v, "yearly") <= vendorActualSpend(v)
             /\ GetForecast(v).spent <= vendorActualSpend(v)
             /\ GetForecast(v).status = "on_track" =>
                   GetForecast(v).spent <= GetForecast(v).budget
             /\ GetForecast(v).spent < GetForecast(v).budget =>
                   GetForecast(v).status = "on_track"
  BY <1>1, CapsCount, ForecastAgrees
<1>3. \A m \in Months : GetDashboard(m).spent <=
                           Spend(InMonth(deals, DOMAIN deals, m))
  BY MonthDashboard
<1>4. ASSUME NEW result \in CheckCaps, result.hard
      PROVE  /\ vendorActualSpend(result.vendor) >= caps[result.vendor].hard
             /\ caps[result.vendor].period \in {"", "monthly", "quarterly", "yearly"}
             /\ caps[result.vendor].soft \in 1 .. caps[result.vendor].hard => result.soft
  BY <1>1, <1>4, CapsReached
<1>5. Dashboard.actual <= MapThenSumSet(LAMBDA m : Dashboard.trend[m],
                                        DOMAIN Dashboard.trend)
  BY DashboardAgrees
<1>6. ASSUME NEW d \in Departments
      PROVE  LET rows == Cardinality(ListByDepartment(d))
                 gap == DepartmentReport(d, 60).department
                          - AllocationReport(60).department[d]
             IN  2 * gap <= rows /\ -2 * gap <= rows
  BY ONLY DealsInv, <1>1, <1>6, DepartmentAgrees
<1>7. ASSUME {row[1] : row \in ListAll} =
                {v \in Vendors : MapThenSumSet(LAMBDA d : shares[v][d],
                                   {d \in Departments : shares[v][d] >= 0}) = 100}
      PROVE  /\ 2 * (AllocationReport(60).total
                       - MapThenSumSet(LAMBDA d : AllocationReport(60).department[d],
                                       Departments)) <= Cardinality(Departments)
             /\ -2 * (AllocationReport(60).total
                        - MapThenSumSet(LAMBDA d : AllocationReport(60).department[d],
                                        Departments)) <= Cardinality(Departments)
  BY ONLY DealsInv, <1>1, <1>7, AllocationAgrees
<1> QED BY ONLY <1>2, <1>3, <1>4, <1>5, <1>6, <1>7 DEF SpendingAgrees

-----------------------------------------------------------------------------
(* Reports: the figures of the tables, and what the answers say of them.   *)

\* SUM(list_price - final_price) over rows.
Saved == [i \in DOMAIN deals |-> deals[i].terms.list - deals[i].terms.final]

Spent(since) == SumOver(Final, SinceInstant(deals, since))
DealsSince(since) == Cardinality(SinceInstant(deals, since))
SavedSince(since) == SumOver(Saved, SinceInstant(deals, since))
SavedEver == SumOver(Saved, DOMAIN deals)
Recent == Cardinality(SinceDay(deals, now - Period))
WithOutcomeNow(outcome) == Cardinality({i \in DOMAIN sessions : sessions[i].outcome = outcome})
ActiveNow == WithOutcomeNow("")
SessionsSince(since) == Cardinality(SinceInstant(sessions, since))

\* The tables: rows of theirs, and no deal of tomorrow.
TablesInv ==
    /\ now \in Instants
    /\ Len(deals) <= MaxDeals
    /\ \A i \in DOMAIN deals : deals[i].at <= now /\ deals[i].terms.list > 0
    /\ sessions \in Seq(SessionRecord)
    /\ Len(sessions) <= MaxSessions

LEMMA AnswerSum == ASSUME NEW answer PROVE Sum(answer) = SumOver(answer, DOMAIN answer)
<1>1. MapThenSumSet(LAMBDA x : answer[x], DOMAIN answer) = SumOver(answer, DOMAIN answer)
  BY ONLY SumOfMap
<1> QED BY ONLY <1>1 DEF Sum

\* Rows counted part by part.
LEMMA CountOfParts ==
    ASSUME NEW I, IsFiniteSet(I), NEW S, IsFiniteSet(S),
           NEW part, \A i \in I : part[i] \in SUBSET S,
           NEW whole, \A i \in I : whole[i] = Cardinality(part[i]),
           \A i, j \in I : i # j => part[i] \cap part[j] = {},
           \A x \in S : \E i \in I : x \in part[i]
    PROVE  SumOver(whole, I) = Cardinality(S)
<1>1. PICK one : one = [x \in S |-> 1]
  OBVIOUS
<1>2. \A x \in S : one[x] = 1
  BY <1>1
<1>3. \A T \in SUBSET S : Cardinality(T) = SumOver(one, T)
  BY <1>2, CountIsSum
<1>4. \A x \in S : one[x] \in Int
  BY <1>2
<1>5. \A i \in I : whole[i] = SumOver(one, part[i])
  BY <1>3
<1>6. SumOver(whole, I) = SumOver(one, S)
  BY ONLY IsFiniteSet(I), IsFiniteSet(S), <1>4, \A i \in I : part[i] \in SUBSET S, <1>5,
          \A i, j \in I : i # j => part[i] \cap part[j] = {},
          \A x \in S : \E i \in I : x \in part[i], SumOfPartition
<1> QED BY <1>3, <1>6

\* Rows grouped by what they have in one column.
LEMMA CountByKey ==
    ASSUME NEW S, IsFiniteSet(S), NEW R \in SUBSET S, NEW key, NEW whole,
           \A i \in S : key[i] \in DOMAIN whole,
           \A k \in DOMAIN whole : \E i \in S : key[i] = k,
           \A k \in DOMAIN whole : whole[k] = Cardinality({i \in R : key[i] = k})
    PROVE  Sum(whole) = Cardinality(R)
<1>1. PICK I : I = DOMAIN whole
  OBVIOUS
<1>2. I = {key[i] : i \in S}
  BY <1>1
<1>3. IsFiniteSet(I) /\ IsFiniteSet(R)
  BY <1>2, ImageOf, FS_Subset
<1>4. PICK part : part = [k \in I |-> {i \in R : key[i] = k}]
  OBVIOUS
<1>5. \A k \in I : part[k] \in SUBSET R
  BY <1>4
<1>6. \A k \in I : whole[k] = Cardinality(part[k])
  BY <1>1, <1>4
<1>7. \A k, l \in I : k # l => part[k] \cap part[l] = {}
  BY <1>4
<1>8. \A i \in R : \E k \in I : i \in part[k]
  BY <1>1, <1>4
<1>9. SumOver(whole, I) = Cardinality(R)
  BY <1>3, <1>5, <1>6, <1>7, <1>8, CountOfParts
<1> QED BY <1>1, <1>9, AnswerSum

\* A breakdown of what was spent.
LEMMA SpendByKey ==
    ASSUME DealsInv, NEW S \in SUBSET DOMAIN deals, NEW key, NEW whole,
           \A i \in S : key[i] \in DOMAIN whole,
           \A k \in DOMAIN whole : \E i \in S : key[i] = k,
           \A k \in DOMAIN whole : whole[k] = Spend({i \in S : key[i] = k})
    PROVE  Sum(whole) = Spend(S)
<1>1. PICK I : I = DOMAIN whole
  OBVIOUS
<1>2. I = {key[i] : i \in S}
  BY <1>1
<1>3. IsFiniteSet(I)
  <2>1. IsFiniteSet(S)
    BY DealsFinite, FS_Subset
  <2> QED BY <1>2, <2>1, ImageOf
<1>4. PICK part : part = [k \in I |-> {i \in S : key[i] = k}]
  OBVIOUS
<1>5. \A k \in I : part[k] \in SUBSET S
  BY <1>4
<1>6. \A k \in I : whole[k] = Spend(part[k])
  BY <1>1, <1>4
<1>7. \A k, l \in I : k # l => part[k] \cap part[l] = {}
  BY <1>4
<1>8. SumOver(whole, I) = Spend(UNION {part[k] : k \in I})
  BY <1>3, <1>5, <1>6, <1>7, SpendOfParts
<1>9. UNION {part[k] : k \in I} = S
  BY <1>1, <1>4, <1>5
<1> QED BY <1>1, <1>8, <1>9, AnswerSum

LEMMA SavingsIsSum ==
    ASSUME DealsInv, NEW S \in SUBSET DOMAIN deals PROVE Savings(S) = SumOver(Saved, S)
<1>1. PICK saved, all :
         saved = [i \in S |-> deals[i].terms.list - deals[i].terms.final] /\ all = Saved
  OBVIOUS
<1>2. IsFiniteSet(S)
  BY DealsFinite, FS_Subset
<1>3. \A i \in S : saved[i] \in Int /\ saved[i] = all[i]
  <2>1. ASSUME NEW i \in S PROVE saved[i] \in Int /\ saved[i] = all[i]
    <3>1. PICK terms \in Terms : terms = deals[i].terms
      BY DealRow
    <3>2. terms.list \in Int /\ terms.final \in Int
      BY LedgerAssumption
    <3> QED BY <1>1, <3>1, <3>2 DEF Saved
  <2> QED BY <2>1
<1>4. SumOver(saved, S) = SumOver(all, S)
  BY <1>2, <1>3, SumSame
<1>5. \A sum : SumsUp(sum, saved, S) <=>
         sum = [T \in SUBSET S |->
                   IF T = {} THEN 0
                   ELSE deals[CHOOSE i \in T : TRUE].terms.list
                          - deals[CHOOSE i \in T : TRUE].terms.final
                          + sum[T \ {CHOOSE i \in T : TRUE}]]
  BY <1>1 DEF SumsUp, Foremost
<1>6. Savings(S) = SumOver(saved, S)
  BY ONLY ZenonT(60), <1>5 DEF Savings, MapThenSumSet, MapThenFoldSet, SumOver
<1> QED BY <1>1, <1>4, <1>6

\* The rows selected are rows.
LEMMA Rows ==
    ASSUME DealsInv, TablesInv
    PROVE  /\ IsFiniteSet(DOMAIN deals) /\ IsFiniteSet(DOMAIN sessions)
           /\ DOMAIN deals = 1 .. Len(deals) /\ DOMAIN sessions = 1 .. Len(sessions)
           /\ Len(deals) \in Nat /\ Len(sessions) \in Nat
           /\ Cardinality(DOMAIN deals) = Len(deals)
           /\ Cardinality(DOMAIN sessions) = Len(sessions)
           /\ \A since : /\ SinceInstant(deals, since) \in SUBSET DOMAIN deals
                         /\ SinceDay(deals, since) \in SUBSET DOMAIN deals
                         /\ SinceInstant(sessions, since) \in SUBSET DOMAIN sessions
                         /\ SinceDay(sessions, since) \in SUBSET DOMAIN sessions
<1>1. DOMAIN deals = 1 .. Len(deals) /\ Len(deals) \in Nat
  BY DEF DealsInv
<1>2. DOMAIN sessions = 1 .. Len(sessions) /\ Len(sessions) \in Nat
  BY DEF TablesInv
<1>3. \A n \in Nat : IsFiniteSet(1 .. n) /\ Cardinality(1 .. n) = n
  <2>1. ASSUME NEW n \in Nat PROVE IsFiniteSet(1 .. n) /\ Cardinality(1 .. n) = n
    BY FS_Interval
  <2> QED BY <2>1
<1> QED BY <1>1, <1>2, <1>3 DEF SinceInstant, SinceDay

LEMMA SpentIs ==
    ASSUME DealsInv, TablesInv, NEW since
    PROVE  totalSpendSince(since) = Spent(since) /\ Spent(since) \in Nat
<1>1. PICK S \in SUBSET DOMAIN deals : S = SinceInstant(deals, since)
  BY Rows
<1> QED BY <1>1, SpendIsSum DEF totalSpendSince, Spent

LEMMA VendorBreakdown ==
    ASSUME DealsInv, TablesInv, NEW since
    PROVE  Sum(vendorBreakdown(since)) = Spent(since)
<1>1. PICK S \in SUBSET DOMAIN deals : S = SinceInstant(deals, since)
  BY Rows
<1>2. PICK key : key = [i \in S |-> deals[i].vendor]
  OBVIOUS
<1>3. PICK whole : whole = vendorBreakdown(since)
  OBVIOUS
<1>4. whole = [v \in {deals[i].vendor : i \in S} |-> Spend({i \in S : deals[i].vendor = v})]
  BY <1>1, <1>3 DEF vendorBreakdown, VendorsOf, OfVendor
<1>5. \A i \in S : key[i] \in DOMAIN whole
  BY <1>2, <1>4
<1>6. \A k \in DOMAIN whole : \E i \in S : key[i] = k
  BY <1>2, <1>4
<1>7. \A k \in DOMAIN whole : whole[k] = Spend({i \in S : key[i] = k})
  <2>1. ASSUME NEW k \in DOMAIN whole PROVE whole[k] = Spend({i \in S : key[i] = k})
    <3>1. {i \in S : key[i] = k} = {i \in S : deals[i].vendor = k}
      BY <1>2
    <3> QED BY <1>4, <3>1
  <2> QED BY <2>1
<1>8. Sum(whole) = Spend(S)
  BY <1>5, <1>6, <1>7, SpendByKey
<1> QED BY <1>1, <1>3, <1>8, SpendIsSum DEF Spent

LEMMA MonthlyTrend ==
    ASSUME DealsInv, TablesInv, NEW since
    PROVE  Sum(monthlyTrend(since)) = Spent(since)
<1>1. PICK S \in SUBSET DOMAIN deals : S = SinceInstant(deals, since)
  BY Rows
<1>2. PICK key : key = [i \in S |-> MonthOf(deals[i].at)]
  OBVIOUS
<1>3. PICK whole : whole = monthlyTrend(since)
  OBVIOUS
<1>4. whole = [m \in {MonthOf(deals[i].at) : i \in S} |->
                 Spend({i \in S : MonthOf(deals[i].at) = m})]
  BY <1>1, <1>3 DEF monthlyTrend, MonthsOf, InMonth
<1>5. \A i \in S : key[i] \in DOMAIN whole
  BY <1>2, <1>4
<1>6. \A k \in DOMAIN whole : \E i \in S : key[i] = k
  BY <1>2, <1>4
<1>7. \A k \in DOMAIN whole : whole[k] = Spend({i \in S : key[i] = k})
  <2>1. ASSUME NEW k \in DOMAIN whole PROVE whole[k] = Spend({i \in S : key[i] = k})
    <3>1. {i \in S : key[i] = k} = {i \in S : MonthOf(deals[i].at) = k}
      BY <1>2
    <3> QED BY <1>4, <3>1
  <2> QED BY <2>1
<1>8. Sum(whole) = Spend(S)
  BY <1>5, <1>6, <1>7, SpendByKey
<1> QED BY <1>1, <1>3, <1>8, SpendIsSum DEF Spent

\* The rows of R counted by vendor and by month, for the vendors and the months
\* that some row of S has.
LEMMA CountsByVendor ==
    ASSUME NEW rows, NEW S, IsFiniteSet(S), NEW R \in SUBSET S
    PROVE  Sum([v \in {rows[i].vendor : i \in S} |-> Cardinality(OfVendor(rows, R, v))])
             = Cardinality(R)
<1>1. PICK key : key = [i \in S |-> rows[i].vendor]
  OBVIOUS
<1>2. PICK whole : whole = [v \in {rows[i].vendor : i \in S} |->
                              Cardinality(OfVendor(rows, R, v))]
  OBVIOUS
<1>3. \A i \in S : key[i] \in DOMAIN whole
  BY <1>1, <1>2
<1>4. \A k \in DOMAIN whole : \E i \in S : key[i] = k
  BY <1>1, <1>2
<1>5. \A k \in DOMAIN whole : whole[k] = Cardinality({i \in R : key[i] = k})
  <2>1. ASSUME NEW k \in DOMAIN whole
        PROVE  whole[k] = Cardinality({i \in R : key[i] = k})
    <3>1. {i \in R : key[i] = k} = OfVendor(rows, R, k)
      BY <1>1 DEF OfVendor
    <3> QED BY <1>2, <3>1
  <2> QED BY <2>1
<1>6. Sum(whole) = Cardinality(R)
  BY <1>3, <1>4, <1>5, CountByKey
<1> QED BY ONLY <1>2, <1>6

LEMMA CountsByMonth ==
    ASSUME NEW rows, NEW S, IsFiniteSet(S), NEW R \in SUBSET S
    PROVE  Sum([m \in MonthsOf(rows, S) |-> Cardinality(InMonth(rows, R, m))])
             = Cardinality(R)
<1>1. PICK key : key = [i \in S |-> MonthOf(rows[i].at)]
  OBVIOUS
<1>2. PICK whole : whole = [m \in MonthsOf(rows, S) |-> Cardinality(InMonth(rows, R, m))]
  OBVIOUS
<1>3. \A i \in S : key[i] \in DOMAIN whole
  BY <1>1, <1>2 DEF MonthsOf
<1>4. \A k \in DOMAIN whole : \E i \in S : key[i] = k
  BY <1>1, <1>2 DEF MonthsOf
<1>5. \A k \in DOMAIN whole : whole[k] = Cardinality({i \in R : key[i] = k})
  <2>1. ASSUME NEW k \in DOMAIN whole
        PROVE  whole[k] = Cardinality({i \in R : key[i] = k})
    <3>1. {i \in R : key[i] = k} = InMonth(rows, R, k)
      BY <1>1 DEF InMonth
    <3> QED BY <1>2, <3>1
  <2> QED BY <2>1
<1>6. Sum(whole) = Cardinality(R)
  BY <1>3, <1>4, <1>5, CountByKey
<1> QED BY ONLY <1>2, <1>6

LEMMA RecentDeals ==
    ASSUME DealsInv, TablesInv
    PROVE  Sum(vendorBreakdownSection) = Recent /\ Sum(trendsSection) = Recent
<1>1. PICK S \in SUBSET DOMAIN deals : S = SinceDay(deals, now - Period)
  BY Rows
<1>2. IsFiniteSet(S) /\ S \in SUBSET S
  BY Rows, FS_Subset
<1>3. vendorBreakdownSection =
         [v \in {deals[i].vendor : i \in S} |-> Cardinality(OfVendor(deals, S, v))]
  BY <1>1 DEF vendorBreakdownSection, VendorsOf
<1>4. Sum(vendorBreakdownSection) = Cardinality(S)
  BY <1>2, <1>3, CountsByVendor
<1>5. trendsSection = [m \in MonthsOf(deals, S) |-> Cardinality(InMonth(deals, S, m))]
  BY <1>1 DEF trendsSection
<1>6. Sum(trendsSection) = Cardinality(S)
  BY <1>2, <1>5, CountsByMonth
<1> QED BY <1>1, <1>4, <1>6 DEF Recent

LEMMA WonSessions ==
    ASSUME DealsInv, TablesInv
    PROVE  /\ Sum(wonByVendor) = WithOutcomeNow("won")
           /\ Sum(wonByMonth) <= WithOutcomeNow("won")
           /\ outcomes.won = WithOutcomeNow("won") /\ WithOutcomeNow("won") \in Nat
<1>1. PICK all, won, ended :
        /\ all = DOMAIN sessions
        /\ won = {i \in all : sessions[i].outcome = "won"}
        /\ ended = WithOutcome(all, {"won", "lost"})
  OBVIOUS
<1>2. IsFiniteSet(all) /\ won \in SUBSET all /\ ended \in SUBSET all /\ won \in SUBSET ended
  BY <1>1, Rows DEF WithOutcome
<1>3. IsFiniteSet(ended) /\ IsFiniteSet(won)
  BY <1>2, FS_Subset
<1>4. Cardinality(won) \in Nat /\ WithOutcomeNow("won") = Cardinality(won)
  BY <1>1, <1>3, FS_CardinalityType DEF WithOutcomeNow
<1>5. WithOutcome(all, {"won"}) = won /\ WithOutcome(ended, {"won"}) = won
  BY <1>1 DEF WithOutcome
<1>6. Sum(wonByVendor) = Cardinality(won)
  <2>1. wonByVendor =
           [v \in {sessions[i].vendor : i \in ended} |->
               Cardinality(OfVendor(sessions, won, v))]
    BY <1>1, <1>5 DEF wonByVendor
  <2> QED BY <1>2, <1>3, <2>1, CountsByVendor
<1>7. Sum(wonByMonth) <= Cardinality(won)
  <2>1. PICK year, late : /\ year = WithOutcome(SinceDay(sessions, now - 720), {"won", "lost"})
                          /\ late = WithOutcome(year, {"won"})
    OBVIOUS
  <2>2. year \in SUBSET all /\ late \in SUBSET year /\ late \in SUBSET won
    BY <1>1, <2>1, Rows DEF WithOutcome
  <2>3. IsFiniteSet(year)
    BY <1>2, <2>2, FS_Subset
  <2>4. wonByMonth =
           [m \in MonthsOf(sessions, year) |-> Cardinality(InMonth(sessions, late, m))]
    BY <2>1 DEF wonByMonth
  <2>5. Sum(wonByMonth) = Cardinality(late)
    BY <2>2, <2>3, <2>4, CountsByMonth
  <2>6. Cardinality(late) <= Cardinality(won)
    BY <1>3, <2>2, FS_Subset
  <2> QED BY <2>5, <2>6
<1>8. outcomes.won = Cardinality(won)
  BY <1>1, <1>5 DEF outcomes
<1> QED BY <1>4, <1>6, <1>7, <1>8

LEMMA OutcomesApart ==
    ASSUME DealsInv, TablesInv
    PROVE  /\ \A outcome : WithOutcomeNow(outcome) \in Nat
           /\ WithOutcomeNow("won") + WithOutcomeNow("lost") + ActiveNow
                <= Len(sessions)
<1>1. PICK all, won, lost, active :
        /\ all = DOMAIN sessions
        /\ won = {i \in all : sessions[i].outcome = "won"}
        /\ lost = {i \in all : sessions[i].outcome = "lost"}
        /\ active = {i \in all : sessions[i].outcome = ""}
  OBVIOUS
<1>2. IsFiniteSet(all) /\ Cardinality(all) = Len(sessions)
  BY <1>1, Rows
<1>3. \A outcome : WithOutcomeNow(outcome) \in Nat
  <2>1. ASSUME NEW outcome PROVE WithOutcomeNow(outcome) \in Nat
    <3>1. PICK S \in SUBSET all : S = {i \in all : sessions[i].outcome = outcome}
      OBVIOUS
    <3>2. Cardinality(S) \in Nat
      BY <1>2, FS_Subset, FS_CardinalityType
    <3> QED BY <1>1, <3>1, <3>2 DEF WithOutcomeNow
  <2> QED BY <2>1
<1>4. IsFiniteSet(won) /\ IsFiniteSet(lost) /\ IsFiniteSet(active)
  BY <1>1, <1>2, FS_Subset
<1>5. won \cap lost = {} /\ (won \cup lost) \cap active = {}
  BY <1>1
<1>6. /\ IsFiniteSet(won \cup lost)
      /\ Cardinality(won \cup lost) = Cardinality(won) + Cardinality(lost)
  <2>1. Cardinality(won) \in Nat /\ Cardinality(lost) \in Nat
    BY <1>4, FS_CardinalityType
  <2> QED BY <1>4, <1>5, <2>1, FS_Union, FS_EmptySet
<1>7. Cardinality((won \cup lost) \cup active)
         = Cardinality(won \cup lost) + Cardinality(active)
  <2>1. Cardinality(won \cup lost) \in Nat /\ Cardinality(active) \in Nat
    BY <1>4, <1>6, FS_CardinalityType
  <2> QED BY SMTT(30), <1>4, <1>5, <1>6, <2>1, FS_Union, FS_EmptySet
<1>8. Cardinality((won \cup lost) \cup active) <= Cardinality(all)
  <2>1. (won \cup lost) \cup active \in SUBSET all
    BY <1>1
  <2> QED BY <1>2, <2>1, FS_Subset
<1>9. /\ WithOutcomeNow("won") = Cardinality(won)
      /\ WithOutcomeNow("lost") = Cardinality(lost)
      /\ ActiveNow = Cardinality(active)
  BY <1>1 DEF WithOutcomeNow, ActiveNow
<1> QED BY <1>2, <1>3, <1>6, <1>7, <1>8, <1>9

\* Of the deals by date history lists the last.
LEMMA DealList ==
    ASSUME DealsInv, TablesInv
    PROVE  dealList = IF Len(deals) <= HistoryLimit THEN Len(deals) ELSE HistoryLimit
<1>1. PICK n \in Nat, limit \in Nat \ {0} : n = Len(deals) /\ limit = HistoryLimit
  BY Rows, ReportAssumption
<1>2. All = 1 .. n
  BY <1>1, Rows DEF All
<1>3. \A i \in 1 .. n : Cardinality({j \in 1 .. n : j > i}) = n - i
  <2>1. ASSUME NEW i \in 1 .. n PROVE Cardinality({j \in 1 .. n : j > i}) = n - i
    <3>1. {j \in 1 .. n : j > i} = (i + 1) .. n
      OBVIOUS
    <3>2. Cardinality((i + 1) .. n) = n - i
      <4>1. i + 1 \in Int /\ n \in Int
        OBVIOUS
      <4>2. Cardinality((i + 1) .. n) = IF i + 1 > n THEN 0 ELSE n - (i + 1) + 1
        BY ONLY <4>1, FS_Interval
      <4> QED BY <4>2
    <3> QED BY <3>1, <3>2
  <2> QED BY <2>1
<1>4. PICK low \in Int : /\ n <= limit => low = 1
                         /\ n > limit => low = n - limit + 1
  <2>1. CASE n <= limit
    BY <2>1
  <2>2. CASE n > limit
    BY <2>2
  <2> QED BY <2>1, <2>2
<1>5. {i \in 1 .. n : n - i < limit} = low .. n
  BY <1>4
<1>6. {i \in All : Cardinality({j \in All : j > i}) < HistoryLimit} = low .. n
  BY <1>1, <1>2, <1>3, <1>5
<1>7. Cardinality(low .. n) = IF low > n THEN 0 ELSE n - low + 1
  BY ONLY low \in Int, n \in Nat, FS_Interval
<1>8. PICK listed \in Int : listed = dealList /\ listed = n - low + 1
  <2>1. low <= n + 1
    BY <1>4
  <2>2. Cardinality(low .. n) = n - low + 1
    BY <1>7, <2>1
  <2>3. dealList = Cardinality(low .. n)
    BY ONLY <1>6 DEF dealList
  <2> QED BY <2>2, <2>3
<1>9. /\ n <= limit => listed = n
      /\ n > limit => listed = limit
  BY <1>4, <1>8
<1> QED BY <1>1, <1>8, <1>9

LEMMA Activity ==
    ASSUME DealsInv, TablesInv, NEW since
    PROVE  /\ sessionCount(since) = SessionsSince(since)
           /\ completedCount(since) <= SessionsSince(since)
           /\ activeDays(since) <= SessionsSince(since)
           /\ Sum(topVendors(since)) = SessionsSince(since)
<1>1. PICK S \in SUBSET DOMAIN sessions : S = SinceInstant(sessions, since)
  BY Rows
<1>2. IsFiniteSet(S) /\ S \in SUBSET S
  BY Rows, FS_Subset
<1>3. completedCount(since) <= Cardinality(S)
  <2>1. WithOutcome(S, {"won", "lost"}) \in SUBSET S
    BY DEF WithOutcome
  <2> QED BY <1>1, <1>2, <2>1, FS_Subset DEF completedCount
<1>4. activeDays(since) <= Cardinality(S)
  <2>1. PICK dayOf : dayOf = [i \in S |-> DayOf(sessions[i].at)]
    OBVIOUS
  <2>2. {DayOf(sessions[i].at) : i \in S} = {dayOf[i] : i \in S}
    BY <2>1
  <2>3. Cardinality({dayOf[i] : i \in S}) <= Cardinality(S)
    BY <1>2, ImageOf
  <2> QED BY <1>1, <2>2, <2>3 DEF activeDays
<1>5. Sum(topVendors(since)) = Cardinality(S)
  <2>1. topVendors(since) =
           [v \in {sessions[i].vendor : i \in S} |-> Cardinality(OfVendor(sessions, S, v))]
    BY <1>1 DEF topVendors
  <2> QED BY <1>2, <2>1, CountsByVendor
<1> QED BY <1>1, <1>3, <1>4, <1>5 DEF sessionCount, SessionsSince

\* A finite set of numbers has a least and a greatest.
LEMMA LeastAndGreatest ==
    ASSUME NEW S \in SUBSET Nat, IsFiniteSet(S), S # {}
    PROVE  Min(S) \in Nat /\ Max(S) \in Nat /\ Min(S) <= Max(S)
<1>1. PICK x \in S : \A y \in S : <<y, x>> \notin OpToRel(<, Nat)
  BY NatLessThanWellFounded, WFMin
<1>2. \A y \in S : x <= y
  <2>1. \A y \in S : ~(y < x)
    BY <1>1 DEF OpToRel
  <2> QED BY <2>1
<1>3. Min(S) \in S /\ \A y \in S : Min(S) <= y
  BY <1>2 DEF Min
<1> DEFINE Good == {T \in SUBSET S : T # {} => \E z \in T : \A y \in T : z >= y}
<1>4. {} \in Good
  OBVIOUS
<1>5. ASSUME NEW T \in SUBSET S, NEW w \in S, T \in Good, w \notin T
      PROVE  T \cup {w} \in Good
  <2>1. CASE T = {}
    BY <2>1
  <2>2. CASE T # {}
    <3>1. PICK z \in T : \A y \in T : z >= y
      BY <1>5, <2>2
    <3>2. CASE w >= z
      <4>1. \A y \in T \cup {w} : w >= y
        BY <3>1, <3>2
      <4> QED BY <4>1
    <3>3. CASE z >= w
      <4>1. \A y \in T \cup {w} : z >= y
        BY <3>1, <3>3
      <4> QED BY <4>1
    <3> QED BY <3>2, <3>3
  <2> QED BY <2>1, <2>2
<1>6. S \in Good
  <2> HIDE DEF Good
  <2>1. SUBSET S \subseteq Good
    BY <1>4, <1>5, AllSubsets
  <2> QED BY <2>1
<1>7. Max(S) \in S /\ \A y \in S : Max(S) >= y
  BY <1>6 DEF Max
<1> QED BY <1>3, <1>7

LEMMA Summary == DealsInv /\ TablesInv => summary.best <= summary.worst
<1> SUFFICES ASSUME DealsInv, TablesInv PROVE summary.best <= summary.worst
  OBVIOUS
<1>1. PICK prices : prices = {deals[i].terms.final : i \in All}
  OBVIOUS
<1>2. PICK final : final = Final
  OBVIOUS
<1>3. \A i \in All : final[i] \in Nat /\ final[i] = deals[i].terms.final
  BY <1>2, FinalRow DEF All
<1>4. prices = {final[i] : i \in All}
  BY <1>1, <1>3
<1>5. IsFiniteSet(prices)
  BY <1>4, Rows, ImageOf DEF All
<1>6. prices \in SUBSET Nat
  BY <1>3, <1>4
<1>7. CASE All = {}
  BY <1>7 DEF summary
<1>8. CASE All # {}
  <2>1. prices # {}
    BY <1>4, <1>8
  <2>2. Min(prices) <= Max(prices)
    BY <1>5, <1>6, <2>1, LeastAndGreatest
  <2>3. summary.best = Min(prices) /\ summary.worst = Max(prices)
    BY <1>1, <1>8 DEF summary
  <2> QED BY <2>2, <2>3
<1> QED BY <1>7, <1>8

\* The months of a chart, and the deals they hold.
LEMMA Charted ==
    ASSUME DealsInv, TablesInv, NEW since \in Int
    PROVE  /\ Sum(dealsByMonth(since)) \in Nat
           /\ Sum(dealsByMonth(since)) <= Len(deals)
           /\ since = now - Period => Sum(dealsByMonth(since)) = DealsSince(since)
<1>1. PICK last \in Int : last = since + Period
  BY ReportAssumption
<1>2. PICK S : S = {i \in SinceInstant(deals, since) : deals[i].at <= last}
  OBVIOUS
<1>3. S \in SUBSET DOMAIN deals /\ IsFiniteSet(S) /\ Cardinality(S) \in Nat
  <2>1. S \in SUBSET DOMAIN deals
    BY <1>2, Rows
  <2> QED BY <2>1, Rows, FS_Subset, FS_CardinalityType
<1>4. PICK I, whole : /\ I = MonthOf(since) .. MonthOf(last)
                      /\ whole = [m \in I |-> Cardinality(InMonth(deals, S, m))]
  OBVIOUS
<1>5. dealsByMonth(since) = whole
  BY <1>1, <1>2, <1>4 DEF dealsByMonth
<1>6. MonthOf(since) \in Int /\ MonthOf(last) \in Int
  BY DEF MonthOf
<1>7. IsFiniteSet(I)
  BY <1>4, <1>6, FS_Interval
<1>8. PICK part : part = [m \in I |-> InMonth(deals, S, m)]
  OBVIOUS
<1>9. \A m \in I : part[m] \in SUBSET S
  BY <1>8 DEF InMonth
<1>10. \A m \in I : whole[m] = Cardinality(part[m])
  BY <1>4, <1>8
<1>11. \A m, n \in I : m # n => part[m] \cap part[n] = {}
  BY <1>8 DEF InMonth
<1>12. \A i \in S : \E m \in I : i \in part[m]
  <2>1. ASSUME NEW i \in S PROVE \E m \in I : i \in part[m]
    <3>1. PICK t \in Nat : t = deals[i].at
      BY <1>3, DealRow
    <3>2. since <= t /\ t <= last
      BY <1>2, <3>1 DEF SinceInstant
    <3>3. MonthOf(t) \in I
      BY <1>1, <1>4, <3>1, <3>2 DEF MonthOf
    <3>4. i \in part[MonthOf(t)]
      BY <1>8, <3>1, <3>3 DEF InMonth
    <3> QED BY <3>3, <3>4
  <2> QED BY <2>1
<1>a. IsFiniteSet(S)
  BY <1>3
<1>13. SumOver(whole, I) = Cardinality(S)
  BY ONLY <1>7, <1>a, <1>9, <1>10, <1>11, <1>12, CountOfParts
<1>14. Sum(whole) = Cardinality(S)
  BY <1>4, <1>13, AnswerSum
<1>15. Cardinality(S) <= Len(deals)
  BY <1>3, Rows, FS_Subset
<1>16. since = now - Period => S = SinceInstant(deals, since)
  <2>1. ASSUME since = now - Period, NEW i \in SinceInstant(deals, since)
        PROVE  deals[i].at <= last
    <3>1. i \in DOMAIN deals /\ now \in Int
      BY LedgerAssumption DEF SinceInstant, TablesInv
    <3>2. deals[i].at <= now
      BY <3>1 DEF TablesInv
    <3> QED BY <1>1, <2>1, <3>1, <3>2, ReportAssumption
  <2> QED BY <1>2, <2>1
<1> QED BY <1>3, <1>5, <1>14, <1>15, <1>16 DEF DealsSince

-----------------------------------------------------------------------------
(* What an answer says of the tables.                                      *)

\* A number that the tables have reached, and have now if nobody wrote.
Counts(n, figure, quiet) == n \in Nat /\ n <= figure /\ (quiet => n = figure)

\* What an answer to a statement says of the tables as they are, later in the
\* same report; more if it is quiet.
Stated(x, answer, since, quiet) ==
    /\ x = "totalSpendSince" => Counts(answer, Spent(since), quiet)
    /\ x \in {"vendorBreakdown", "monthlyTrend"} => Counts(Sum(answer), Spent(since), quiet)
    /\ x = "oneYear" => /\ answer.at \in Int
                        /\ Counts(answer.spend, Spent(answer.at - 720), quiet)
    /\ x \in {"savingsSection", "benchmarksSection"} => (quiet => answer.count = Recent)
    /\ x \in {"vendorBreakdownSection", "trendsSection"} => (quiet => Sum(answer) = Recent)
    /\ x = "outcomes" => Counts(answer.won, WithOutcomeNow("won"), quiet)
    /\ x = "wonByVendor" => Counts(Sum(answer), WithOutcomeNow("won"), quiet)
    /\ x = "wonByMonth" => (quiet => Sum(answer) <= WithOutcomeNow("won"))
    /\ x = "outcomeCounts" => (quiet => /\ answer.won = WithOutcomeNow("won")
                                        /\ answer.lost = WithOutcomeNow("lost"))
    /\ x = "activeSessions" => (quiet => answer = ActiveNow)
    /\ x \in {"dealStats", "globalStats"} =>
          /\ Counts(answer.count, Len(deals), quiet)
          /\ quiet => answer = [count |-> Len(deals), savings |-> SavedEver]
    /\ x \in {"avgDiscountPct", "averageScore"} =>
          /\ Counts(answer.count, DealsSince(since), quiet)
          /\ quiet => answer = [discount |-> SavedSince(since), count |-> DealsSince(since)]
    /\ x = "sessionCount" => (quiet => answer = SessionsSince(since))
    /\ x \in {"completedCount", "activeDays"} => (quiet => answer <= SessionsSince(since))
    /\ x = "topVendors" => (quiet => Sum(answer) = SessionsSince(since))
    /\ x = "summary" => answer.best <= answer.worst
    /\ x = "dealsByMonth" => /\ Sum(answer) \in Nat /\ Sum(answer) <= Len(deals)
                             /\ quiet => Sum(answer) = DealsSince(since)
    /\ x \in {"queryDeals", "querySessions"} => answer \in Nat

\* An answer says so when it is given.
LEMMA FreshAnswer ==
    ASSUME DealsInv, TablesInv, NEW x, NEW since \in Int, NEW quiet \in BOOLEAN,
           quiet => since = now - Period
    PROVE  x # "twoYears" => Stated(x, Answer(x, since), since, quiet)
<1> DEFINE a == Answer(x, since)
<1>1. now \in Int
  BY LedgerAssumption DEF TablesInv
<1>2. x = "totalSpendSince" => Counts(a, Spent(since), quiet)
  <2>1. x = "totalSpendSince" => a = totalSpendSince(since)
    BY DEF Answer
  <2> QED BY <2>1, SpentIs DEF Counts
<1>3. x \in {"vendorBreakdown", "monthlyTrend"} => Counts(Sum(a), Spent(since), quiet)
  <2>1. x = "vendorBreakdown" => a = vendorBreakdown(since)
    BY DEF Answer
  <2>2. x = "monthlyTrend" => a = monthlyTrend(since)
    BY DEF Answer
  <2>3. /\ Sum(vendorBreakdown(since)) = Spent(since) /\ Sum(monthlyTrend(since)) = Spent(since)
        /\ Spent(since) \in Nat
    BY VendorBreakdown, MonthlyTrend, SpentIs
  <2> HIDE DEF a
  <2> QED BY <2>1, <2>2, <2>3 DEF Counts
<1>4. x = "oneYear" => /\ a.at \in Int
                       /\ Counts(a.spend, Spent(a.at - 720), quiet)
  <2>1. x = "oneYear" => a = [at |-> now, spend |-> totalSpendSince(now - 720)]
    BY DEF Answer, yoyChange
  <2>2. totalSpendSince(now - 720) = Spent(now - 720) /\ Spent(now - 720) \in Nat
    BY SpentIs
  <2> HIDE DEF a
  <2> QED BY <1>1, <2>1, <2>2 DEF Counts
<1>5. x \in {"savingsSection", "benchmarksSection"} => (quiet => a.count = Recent)
  <2>1. x = "savingsSection" => a = savingsSection
    BY DEF Answer
  <2>2. x = "benchmarksSection" => a = benchmarksSection
    BY DEF Answer
  <2>3. savingsSection.count = Recent /\ benchmarksSection.count = Recent
    BY DEF savingsSection, benchmarksSection, Recent
  <2> HIDE DEF a
  <2> QED BY <2>1, <2>2, <2>3
<1>6. x \in {"vendorBreakdownSection", "trendsSection"} => (quiet => Sum(a) = Recent)
  <2>1. x = "vendorBreakdownSection" => a = vendorBreakdownSection
    BY DEF Answer
  <2>2. x = "trendsSection" => a = trendsSection
    BY DEF Answer
  <2> HIDE DEF a
  <2> QED BY <2>1, <2>2, RecentDeals
<1>7. x = "outcomes" => Counts(a.won, WithOutcomeNow("won"), quiet)
  <2>1. x = "outcomes" => a = outcomes
    BY DEF Answer
  <2> HIDE DEF a
  <2> QED BY <2>1, WonSessions DEF Counts
<1>8. x = "wonByVendor" => Counts(Sum(a), WithOutcomeNow("won"), quiet)
  <2>1. x = "wonByVendor" => a = wonByVendor
    BY DEF Answer
  <2> HIDE DEF a
  <2> QED BY <2>1, WonSessions DEF Counts
<1>9. x = "wonByMonth" => (quiet => Sum(a) <= WithOutcomeNow("won"))
  <2>1. x = "wonByMonth" => a = wonByMonth
    BY DEF Answer
  <2> HIDE DEF a
  <2> QED BY <2>1, WonSessions
<1>10. x = "outcomeCounts" => (quiet => /\ a.won = WithOutcomeNow("won")
                                        /\ a.lost = WithOutcomeNow("lost"))
  <2>1. x = "outcomeCounts" => a = outcomeCounts
    BY DEF Answer
  <2>2. /\ outcomeCounts.won = WithOutcomeNow("won")
        /\ outcomeCounts.lost = WithOutcomeNow("lost")
    <3>1. \A o : WithOutcome(DOMAIN sessions, {o})
                   = {i \in DOMAIN sessions : sessions[i].outcome = o}
      BY DEF WithOutcome
    <3> QED BY <3>1 DEF outcomeCounts, WithOutcomeNow
  <2> HIDE DEF a
  <2> QED BY <2>1, <2>2
<1>11. x = "activeSessions" => (quiet => a = ActiveNow)
  <2>1. x = "activeSessions" => a = activeSessions
    BY DEF Answer
  <2>2. activeSessions = ActiveNow
    <3>1. WithOutcome(DOMAIN sessions, {""})
             = {i \in DOMAIN sessions : sessions[i].outcome = ""}
      BY DEF WithOutcome
    <3> QED BY <3>1 DEF activeSessions, WithOutcomeNow, ActiveNow
  <2> HIDE DEF a
  <2> QED BY <2>1, <2>2
<1>12. x \in {"dealStats", "globalStats"} =>
         /\ Counts(a.count, Len(deals), quiet)
         /\ quiet => a = [count |-> Len(deals), savings |-> SavedEver]
  <2>1. x \in {"dealStats", "globalStats"} => a = dealStats
    BY DEF Answer
  <2>2. dealStats = [count |-> Len(deals), savings |-> SavedEver] /\ Len(deals) \in Nat
    BY Rows, SavingsIsSum DEF dealStats, All, SavedEver
  <2> HIDE DEF a
  <2> QED BY <2>1, <2>2 DEF Counts
<1>13. x \in {"avgDiscountPct", "averageScore"} =>
         /\ Counts(a.count, DealsSince(since), quiet)
         /\ quiet => a = [discount |-> SavedSince(since), count |-> DealsSince(since)]
  <2>1. x = "avgDiscountPct" => a = avgDiscountPct(since)
    BY DEF Answer
  <2>2. x = "averageScore" => a = averageScore(since)
    BY DEF Answer
  <2>3. PICK S \in SUBSET DOMAIN deals : S = SinceInstant(deals, since)
    BY Rows
  <2>4. Cardinality(S) \in Nat
    BY Rows, FS_Subset, FS_CardinalityType
  <2>5. Savings(S) = SumOver(Saved, S)
    BY SavingsIsSum
  <2>6. /\ avgDiscountPct(since) = [discount |-> SavedSince(since), count |-> DealsSince(since)]
        /\ averageScore(since) = [discount |-> SavedSince(since), count |-> DealsSince(since)]
        /\ DealsSince(since) \in Nat
    BY <2>3, <2>4, <2>5 DEF avgDiscountPct, averageScore, SavedSince, DealsSince
  <2> HIDE DEF a
  <2> QED BY <2>1, <2>2, <2>6 DEF Counts
<1>14. x = "sessionCount" => (quiet => a = SessionsSince(since))
  <2>1. x = "sessionCount" => a = sessionCount(since)
    BY DEF Answer
  <2> HIDE DEF a
  <2> QED BY <2>1, Activity
<1>15. x \in {"completedCount", "activeDays"} => (quiet => a <= SessionsSince(since))
  <2>1. x = "completedCount" => a = completedCount(since)
    BY DEF Answer
  <2>2. x = "activeDays" => a = activeDays(since)
    BY DEF Answer
  <2> HIDE DEF a
  <2> QED BY <2>1, <2>2, Activity
<1>16. x = "topVendors" => (quiet => Sum(a) = SessionsSince(since))
  <2>1. x = "topVendors" => a = topVendors(since)
    BY DEF Answer
  <2> HIDE DEF a
  <2> QED BY <2>1, Activity
<1>17. x = "summary" => a.best <= a.worst
  <2>1. x = "summary" => a = summary
    BY DEF Answer
  <2> HIDE DEF a
  <2> QED BY <2>1, Summary
<1>18. x = "dealsByMonth" => /\ Sum(a) \in Nat /\ Sum(a) <= Len(deals)
                             /\ quiet => Sum(a) = DealsSince(since)
  <2>1. x = "dealsByMonth" => a = dealsByMonth(since)
    BY DEF Answer
  <2> HIDE DEF a
  <2> QED BY <2>1, Charted
<1>19. x \in {"queryDeals", "querySessions"} => a \in Nat
  <2>1. x = "queryDeals" => a = Cardinality(All)
    BY DEF Answer, queryDeals
  <2>2. x = "querySessions" => a = Len(sessions)
    BY DEF Answer, querySessions
  <2> HIDE DEF a
  <2> QED BY <2>1, <2>2, Rows DEF All
<1> HIDE DEF a
<1>20. Stated(x, a, since, quiet)
  BY ONLY <1>2, <1>3, <1>4, <1>5, <1>6, <1>7, <1>8, <1>9, <1>10, <1>11, <1>12, <1>13, <1>14,
          <1>15, <1>16, <1>17, <1>18, <1>19 DEF Stated
<1> QED BY <1>20 DEF a

\* Nobody wrote: the figures are what they were.
LEMMA FiguresStay ==
    ASSUME UNCHANGED ledgerVars
    PROVE  /\ \A since : /\ Spent(since)' = Spent(since)
                         /\ DealsSince(since)' = DealsSince(since)
                         /\ SavedSince(since)' = SavedSince(since)
                         /\ SessionsSince(since)' = SessionsSince(since)
           /\ SavedEver' = SavedEver /\ Recent' = Recent /\ Len(deals)' = Len(deals)
           /\ ActiveNow' = ActiveNow
           /\ \A outcome : WithOutcomeNow(outcome)' = WithOutcomeNow(outcome)
<1>1. now' = now /\ deals' = deals /\ sessions' = sessions
  BY DEF ledgerVars
<1>2. Final' = Final /\ Saved' = Saved
  BY <1>1 DEF Final, Saved
<1>3. ASSUME NEW since
      PROVE  /\ Spent(since)' = Spent(since)
             /\ DealsSince(since)' = DealsSince(since)
             /\ SavedSince(since)' = SavedSince(since)
             /\ SessionsSince(since)' = SessionsSince(since)
  BY <1>1, <1>2 DEF Spent, DealsSince, SavedSince, SessionsSince
<1>4. SavedEver' = SavedEver /\ Recent' = Recent /\ Len(deals)' = Len(deals)
  BY <1>1, <1>2 DEF SavedEver, Recent
<1>5. ASSUME NEW outcome PROVE WithOutcomeNow(outcome)' = WithOutcomeNow(outcome)
  BY <1>1 DEF WithOutcomeNow
<1>6. ActiveNow' = ActiveNow
  BY <1>5 DEF ActiveNow
<1> QED BY <1>3, <1>4, <1>5, <1>6

LEMMA StillStated ==
    ASSUME UNCHANGED ledgerVars, NEW x, NEW answer, NEW since, NEW quiet \in BOOLEAN,
           Stated(x, answer, since, quiet)
    PROVE  Stated(x, answer, since, quiet)'
<1>1. /\ Spent(since)' = Spent(since)
      /\ DealsSince(since)' = DealsSince(since)
      /\ SavedSince(since)' = SavedSince(since)
      /\ SessionsSince(since)' = SessionsSince(since)
  BY FiguresStay
<1>2. PICK year : year = answer.at - 720
  OBVIOUS
<1>3. Spent(year)' = Spent(year)
  BY FiguresStay
<1>4. Spent(answer.at - 720)' = Spent(answer.at - 720)
  BY <1>2, <1>3
<1>5. SavedEver' = SavedEver /\ Recent' = Recent /\ Len(deals)' = Len(deals)
  BY FiguresStay
<1>6. /\ WithOutcomeNow("won")' = WithOutcomeNow("won")
      /\ WithOutcomeNow("lost")' = WithOutcomeNow("lost")
      /\ ActiveNow' = ActiveNow
  BY FiguresStay
<1> QED BY <1>1, <1>4, <1>5, <1>6 DEF Stated, Counts

\* The rows that are there are there still, and what ended has the outcome it had.
LEMMA SessionsGrow ==
    ASSUME TablesInv, LedgerNext
    PROVE  /\ sessions' \in Seq(SessionRecord) /\ Len(sessions') <= MaxSessions
           /\ DOMAIN sessions \subseteq DOMAIN sessions'
           /\ \A i \in DOMAIN sessions :
                 sessions[i].outcome = "won" => sessions'[i].outcome = "won"
<1>1. sessions \in Seq(SessionRecord) /\ now \in Instants /\ Len(sessions) <= MaxSessions
  BY DEF TablesInv
<1>2. ASSUME NEW row \in SessionRecord, Len(sessions) < MaxSessions,
             sessions' = Append(sessions, row)
      PROVE  /\ sessions' \in Seq(SessionRecord) /\ Len(sessions') <= MaxSessions
             /\ DOMAIN sessions \subseteq DOMAIN sessions'
             /\ \A i \in DOMAIN sessions :
                   sessions[i].outcome = "won" => sessions'[i].outcome = "won"
  <2>1. Len(sessions) \in Nat /\ MaxSessions \in Nat
    BY <1>1, LedgerAssumption
  <2>2. /\ sessions' \in Seq(SessionRecord)
        /\ Len(sessions') = Len(sessions) + 1
        /\ DOMAIN sessions' = 1 .. Len(sessions) + 1
        /\ \A i \in DOMAIN sessions : sessions'[i] = sessions[i]
    BY <1>1, <1>2, <2>1
  <2>3. DOMAIN sessions = 1 .. Len(sessions)
    BY <1>1
  <2> QED BY <1>2, <2>1, <2>2, <2>3
<1>a. ASSUME NEW v \in Vendors, NEW outcome \in {"", "accepted", "queried", "won"},
             NEW at \in Instants \cup {Epoch}, SaveSession(v, outcome, at)
      PROVE  \E row \in SessionRecord : Len(sessions) < MaxSessions
                                        /\ sessions' = Append(sessions, row)
  BY <1>a DEF SaveSession, SessionRecord
<1>3. ASSUME NEW i \in DOMAIN sessions, UpdateSession(i)
      PROVE  /\ sessions' \in Seq(SessionRecord) /\ Len(sessions') <= MaxSessions
             /\ DOMAIN sessions \subseteq DOMAIN sessions'
             /\ \A j \in DOMAIN sessions :
                   sessions[j].outcome = "won" => sessions'[j].outcome = "won"
  <2>1. PICK row \in SessionRecord : row = sessions[i]
    BY <1>1
  <2>2. PICK next : next = [row EXCEPT !.outcome = "accepted"]
    OBVIOUS
  <2>3. next \in SessionRecord
    BY <2>1, <2>2 DEF SessionRecord
  <2>4. sessions' = [sessions EXCEPT ![i] = next] /\ row.outcome = ""
    BY <1>3, <2>1, <2>2 DEF UpdateSession
  <2>6. DOMAIN sessions' = DOMAIN sessions
    BY <2>4
  <2>a. PICK n \in Nat : n = Len(sessions) /\ DOMAIN sessions = 1 .. n
    BY <1>1
  <2>b. sessions \in [1 .. n -> SessionRecord]
    BY <1>1, <2>a
  <2>c. sessions' \in [1 .. n -> SessionRecord]
    BY <2>3, <2>4, <2>b
  <2>5. sessions' \in Seq(SessionRecord) /\ Len(sessions') = Len(sessions)
    BY <2>a, <2>c
  <2>7. \A j \in DOMAIN sessions : j # i => sessions'[j] = sessions[j]
    BY <2>4
  <2> QED BY <1>1, <2>1, <2>4, <2>5, <2>6, <2>7
<1>4. CASE UNCHANGED sessions
  BY <1>1, <1>4
<1>5. \A v \in Vendors, terms \in Terms : importDeals(v, terms) => UNCHANGED sessions
  BY DEF importDeals, SaveDealOutcome
<1>6. Tick => UNCHANGED sessions
  BY DEF Tick
<1>7. \A v \in Vendors : BatchItem(v) => SaveSession(v, "won", Epoch)
  BY DEF BatchItem
<1>8. \A v \in Vendors : SaveSession(v, "", now) \/ SaveSession(v, "queried", now)
                             \/ BatchItem(v) =>
         \E row \in SessionRecord : Len(sessions) < MaxSessions
                                    /\ sessions' = Append(sessions, row)
  BY <1>1, <1>a, <1>7
<1>9. \/ \E row \in SessionRecord : Len(sessions) < MaxSessions
                                    /\ sessions' = Append(sessions, row)
      \/ \E i \in DOMAIN sessions : UpdateSession(i)
      \/ UNCHANGED sessions
  BY <1>5, <1>6, <1>8 DEF LedgerNext
<1> QED BY <1>2, <1>3, <1>4, <1>9

LEMMA DealsGrow ==
    ASSUME DealsInv, TablesInv, LedgerNext \/ Tick
                                \/ \E v \in Vendors, terms \in Terms : importDeals(v, terms)
    PROVE  /\ DealsInv' /\ Grown /\ now' \in Instants
           /\ Len(deals') <= MaxDeals
           /\ \A i \in DOMAIN deals' : deals'[i].at <= now' /\ deals'[i].terms.list > 0
<1>1. now \in Instants
  BY DEF TablesInv
<1>2. \/ UNCHANGED <<now, deals>>
      \/ \E v \in Vendors, terms \in Terms : importDeals(v, terms)
      \/ Tick
  BY DEF LedgerNext, SaveSession, BatchItem, UpdateSession
<1>3. DealsInv' /\ Grown
  BY <1>1, <1>2, GrownOrSame
<1>4. CASE UNCHANGED <<now, deals>>
  BY <1>1, <1>3, <1>4 DEF TablesInv
<1>5. CASE Tick
  <2>1. now' \in Instants /\ now' > now /\ deals' = deals
    BY <1>5 DEF Tick
  <2>2. \A i \in DOMAIN deals : deals[i].at <= now'
    <3>1. ASSUME NEW i \in DOMAIN deals PROVE deals[i].at <= now'
      <4>1. deals[i].at \in Int /\ deals[i].at <= now
        BY DealRow DEF TablesInv
      <4> QED BY <1>1, <2>1, <4>1, LedgerAssumption
    <3> QED BY <3>1
  <2> QED BY <1>3, <2>1, <2>2 DEF TablesInv
<1>6. ASSUME NEW v \in Vendors, NEW terms \in Terms, importDeals(v, terms)
      PROVE  /\ now' \in Instants /\ Len(deals') <= MaxDeals
             /\ \A i \in DOMAIN deals' : deals'[i].at <= now' /\ deals'[i].terms.list > 0
  <2>1. PICK row : row = [vendor |-> v, terms |-> terms, at |-> now]
    OBVIOUS
  <2>2. deals' = Append(deals, row) /\ terms.list > 0 /\ Len(deals) < MaxDeals /\ now' = now
    BY <1>6, <2>1 DEF importDeals, SaveDealOutcome
  <2>3. deals \in Seq(DealOutcome) /\ Len(deals) \in Nat /\ MaxDeals \in Nat
    BY LedgerAssumption DEF DealsInv
  <2>4. Len(deals') = Len(deals) + 1 /\ DOMAIN deals' = 1 .. Len(deals) + 1
        /\ deals'[Len(deals) + 1] = row
        /\ \A i \in DOMAIN deals : deals'[i] = deals[i]
    BY <2>2, <2>3
  <2>5. row.at = now /\ now \in Int /\ row.terms.list > 0
    BY <1>1, <2>1, <2>2, LedgerAssumption
  <2>6. DOMAIN deals = 1 .. Len(deals)
    BY <2>3
  <2>7. \A i \in DOMAIN deals' : deals'[i].at <= now' /\ deals'[i].terms.list > 0
    <3>1. ASSUME NEW i \in DOMAIN deals'
          PROVE  deals'[i].at <= now' /\ deals'[i].terms.list > 0
      <4>1. CASE i = Len(deals) + 1
        BY <2>2, <2>4, <2>5, <4>1
      <4>2. CASE i # Len(deals) + 1
        <5>1. i \in DOMAIN deals
          BY <2>3, <2>4, <2>6, <4>2
        <5> QED BY <2>2, <2>4, <5>1 DEF TablesInv
      <4> QED BY <4>1, <4>2
    <3> QED BY <3>1
  <2> QED BY <1>1, <2>2, <2>3, <2>4, <2>7
<1> QED BY <1>2, <1>3, <1>4, <1>5, <1>6

\* What was spent since an instant is a number, then too.
LEMMA SpentNat == ASSUME DealsInv, TablesInv PROVE \A since : Spent(since) \in Nat
<1>1. ASSUME NEW since PROVE Spent(since) \in Nat
  BY SpentIs
<1> QED BY <1>1

LEMMA SpentSums ==
    ASSUME DealsInv, TablesInv
    PROVE  \A since : Spent(since) = Spend(SinceInstant(deals, since))
<1>1. ASSUME NEW since PROVE Spent(since) = Spend(SinceInstant(deals, since))
  BY SpentIs DEF totalSpendSince
<1> QED BY <1>1

Numbers == DealsInv /\ TablesInv

LEMMA MoreSpend ==
    DealsInv => \A S \in SUBSET DOMAIN deals : \A R \in SUBSET S : Spend(R) <= Spend(S)
<1> SUFFICES ASSUME DealsInv, NEW S \in SUBSET DOMAIN deals, NEW R \in SUBSET S
             PROVE  Spend(R) <= Spend(S)
  OBVIOUS
<1> QED BY SpendOfMore

LEMMA SpentOf ==
    Numbers => \A since : /\ Spent(since) = Spend(SinceInstant(deals, since))
                          /\ Spent(since) \in Nat
BY SpentSums, SpentNat DEF Numbers

LEMMA RowsOf ==
    Numbers => /\ IsFiniteSet(DOMAIN deals) /\ IsFiniteSet(DOMAIN sessions)
               /\ Len(deals) \in Nat
BY Rows DEF Numbers

\* Rows are only added: no figure that a report states falls.
LEMMA FiguresGrow ==
    ASSUME Numbers, Numbers', Grown,
           DOMAIN sessions \subseteq DOMAIN sessions',
           \A i \in DOMAIN sessions : sessions[i].outcome = "won" => sessions'[i].outcome = "won"
    PROVE  /\ \A since : /\ Spent(since) <= Spent(since)'
                         /\ Spent(since) \in Nat /\ Spent(since)' \in Nat
           /\ \A since : /\ DealsSince(since) <= DealsSince(since)'
                         /\ DealsSince(since) \in Nat /\ DealsSince(since)' \in Nat
           /\ Len(deals) <= Len(deals)' /\ Len(deals) \in Nat /\ Len(deals)' \in Nat
           /\ /\ WithOutcomeNow("won") <= WithOutcomeNow("won")'
              /\ WithOutcomeNow("won") \in Nat /\ WithOutcomeNow("won")' \in Nat
<1>1. DealsInv /\ TablesInv /\ DealsInv'
  BY DEF Numbers
<1>2. (DealsInv => \A S \in SUBSET DOMAIN deals : \A R \in SUBSET S : Spend(R) <= Spend(S))'
  BY MoreSpend, PTL
<1>3. (Numbers => \A since : /\ Spent(since) = Spend(SinceInstant(deals, since))
                             /\ Spent(since) \in Nat)'
  BY SpentOf, PTL
<1>4. (Numbers => /\ IsFiniteSet(DOMAIN deals) /\ IsFiniteSet(DOMAIN sessions)
                  /\ Len(deals) \in Nat)'
  BY RowsOf, PTL
<1>5. ASSUME NEW since
      PROVE  /\ Spent(since) <= Spent(since)'
             /\ Spent(since) \in Nat /\ Spent(since)' \in Nat
             /\ DealsSince(since) <= DealsSince(since)'
             /\ DealsSince(since) \in Nat /\ DealsSince(since)' \in Nat
  <2>1. PICK R \in SUBSET DOMAIN deals : R = SinceInstant(deals, since)
    BY <1>1, Rows
  <2>2. PICK S \in SUBSET DOMAIN deals' : S = SinceInstant(deals', since)
    BY DEF SinceInstant
  <2>3. R \subseteq DOMAIN deals' /\ Spend(R)' = Spend(R)
    BY <1>1, SpendStays
  <2>4. R \in SUBSET S
    <3>1. ASSUME NEW i \in R PROVE i \in S
      <4>1. i \in DOMAIN deals /\ deals[i].at >= since
        BY <2>1 DEF SinceInstant
      <4>2. deals'[i] = deals[i] /\ i \in DOMAIN deals'
        BY <2>3, <4>1 DEF Grown
      <4> QED BY <2>2, <4>1, <4>2 DEF SinceInstant
    <3> QED BY <3>1
  <2>5. Spend(R)' <= Spend(S)'
    BY <1>1, <1>2, <2>4
  <2>6. Spent(since) = Spend(R) /\ Spent(since) \in Nat
    BY <2>1, SpentOf
  <2>7. Spent(since)' = Spend(S)' /\ Spent(since)' \in Nat
    BY <1>3, <2>2
  <2>8. IsFiniteSet(S) /\ IsFiniteSet(R)
    BY <1>4, <2>4, FS_Subset
  <2>9. Cardinality(R) <= Cardinality(S) /\ Cardinality(R) \in Nat /\ Cardinality(S) \in Nat
    BY <2>4, <2>8, FS_Subset, FS_CardinalityType
  <2>10. DealsSince(since) = Cardinality(R) /\ DealsSince(since)' = Cardinality(S)
    BY <2>1, <2>2 DEF DealsSince
  <2> QED BY <2>3, <2>5, <2>6, <2>7, <2>9, <2>10
<1>6. Len(deals) <= Len(deals)' /\ Len(deals) \in Nat /\ Len(deals)' \in Nat
  BY <1>1, Rows DEF Grown
<1>7. /\ WithOutcomeNow("won") <= WithOutcomeNow("won")'
      /\ WithOutcomeNow("won") \in Nat /\ WithOutcomeNow("won")' \in Nat
  <2>1. PICK R, S : /\ R = {i \in DOMAIN sessions : sessions[i].outcome = "won"}
                    /\ S = {i \in DOMAIN sessions' : sessions'[i].outcome = "won"}
    OBVIOUS
  <2>2. R \in SUBSET S /\ S \in SUBSET DOMAIN sessions'
    BY <2>1
  <2>3. IsFiniteSet(S) /\ IsFiniteSet(R)
    BY <1>4, <2>2, FS_Subset
  <2>4. Cardinality(R) <= Cardinality(S) /\ Cardinality(R) \in Nat /\ Cardinality(S) \in Nat
    BY <2>2, <2>3, FS_Subset, FS_CardinalityType
  <2>5. WithOutcomeNow("won") = Cardinality(R) /\ WithOutcomeNow("won")' = Cardinality(S)
    BY <2>1 DEF WithOutcomeNow
  <2> QED BY <2>4, <2>5
<1> QED BY <1>5, <1>6, <1>7

\* What an answer said it says of the tables later, no longer exactly.
LEMMA StatedLater ==
    ASSUME NEW x, NEW answer, NEW since, NEW quiet \in BOOLEAN,
           Stated(x, answer, since, quiet),
           \A t : /\ Spent(t) <= Spent(t)' /\ Spent(t) \in Nat /\ Spent(t)' \in Nat,
           \A t : /\ DealsSince(t) <= DealsSince(t)'
                  /\ DealsSince(t) \in Nat /\ DealsSince(t)' \in Nat,
           Len(deals) <= Len(deals)' /\ Len(deals) \in Nat /\ Len(deals)' \in Nat,
           /\ WithOutcomeNow("won") <= WithOutcomeNow("won")'
           /\ WithOutcomeNow("won") \in Nat /\ WithOutcomeNow("won")' \in Nat
    PROVE  Stated(x, answer, since, FALSE)'
<1>1. ASSUME NEW n, NEW f \in Nat, NEW g \in Nat, f <= g, Counts(n, f, quiet)
      PROVE  Counts(n, g, FALSE)
  BY <1>1 DEF Counts
<1>2. PICK year : year = answer.at - 720
  OBVIOUS
<1>3. \A n : /\ Counts(n, Spent(since), quiet) => Counts(n, Spent(since)', FALSE)
             /\ Counts(n, Spent(year), quiet) => Counts(n, Spent(year)', FALSE)
             /\ Counts(n, DealsSince(since), quiet) => Counts(n, DealsSince(since)', FALSE)
             /\ Counts(n, Len(deals), quiet) => Counts(n, Len(deals)', FALSE)
             /\ Counts(n, WithOutcomeNow("won"), quiet) => Counts(n, WithOutcomeNow("won")', FALSE)
  BY <1>1
<1>4. /\ Spent(answer.at - 720) = Spent(year)
      /\ Spent(answer.at - 720)' = Spent(year)'
  BY <1>2
<1>5. Sum(answer) \in Nat /\ Sum(answer) <= Len(deals) => Sum(answer) <= Len(deals)'
  OBVIOUS
<1> QED BY <1>3, <1>4, <1>5 DEF Stated, Counts

-----------------------------------------------------------------------------
(* A report being computed.                                                *)

LEMMA KindsAre ==
    Kinds = {"spend", "build", "winloss", "metrics", "history", "benchmark", "score",
             "activity", "chart", "export"}
BY DEF Kinds, Statements

\* Each report asks a few statements, and where it asks the ones whose answers
\* are compared.
LEMMA Placed ==
    ASSUME NEW k \in Kinds
    PROVE  /\ Len(Statements[k]) \in 1 .. 5
           /\ DOMAIN Statements[k] = 1 .. Len(Statements[k])
           /\ \A j \in 1 .. Len(Statements[k]) :
                LET x == Statements[k][j] IN
                /\ x \in {"totalSpendSince", "outcomes", "dealStats"} => j = 1
                /\ x \in {"vendorBreakdown", "dealList", "globalStats", "avgDiscountPct"} => j = 2
                /\ x \in {"monthlyTrend", "wonByVendor"} => j = 3
                /\ x \in {"oneYear", "averageScore"} => j = 4
                /\ x = "twoYears" => j = 5
<1> DEFINE Goal(q) ==
      /\ Len(q) \in 1 .. 5
      /\ DOMAIN q = 1 .. Len(q)
      /\ \A j \in 1 .. Len(q) :
           /\ q[j] \in {"totalSpendSince", "outcomes", "dealStats"} => j = 1
           /\ q[j] \in {"vendorBreakdown", "dealList", "globalStats", "avgDiscountPct"} => j = 2
           /\ q[j] \in {"monthlyTrend", "wonByVendor"} => j = 3
           /\ q[j] \in {"oneYear", "averageScore"} => j = 4
           /\ q[j] = "twoYears" => j = 5
<1>1. Goal(SpendReport) /\ Goal(Build)
  BY DEF SpendReport, Build
<1>2. Goal(Analyze) /\ Goal(Generate) /\ Goal(GetHistory)
  BY DEF Analyze, Generate, GetHistory
<1>3. Goal(GenerateReport) /\ Goal(Score)
  BY DEF GenerateReport, Score
<1>4. Goal(ActivityReport) /\ Goal(Chart) /\ Goal(Export)
  BY DEF ActivityReport, Chart, Export
<1>5. Statements[k] \in {SpendReport, Build, Analyze, Generate, GetHistory, GenerateReport,
                         Score, ActivityReport, Chart, Export}
  BY KindsAre DEF Statements
<1> HIDE DEF Goal
<1>6. Goal(Statements[k])
  BY <1>1, <1>2, <1>3, <1>4, <1>5
<1> QED BY <1>6 DEF Goal

\* What each answer says of the tables.
AllStated(got, since, quiet) ==
    \A x \in DOMAIN got : x # "twoYears" => Stated(x, got[x], since, quiet)

\* What two answers of a report have in common, once both are there: what is
\* stated first is no more than what is stated later.
Pairs(got, quiet) ==
    /\ {"totalSpendSince", "vendorBreakdown"} \subseteq DOMAIN got =>
          got["totalSpendSince"] <= Sum(got["vendorBreakdown"])
    /\ {"vendorBreakdown", "monthlyTrend"} \subseteq DOMAIN got =>
          Sum(got["vendorBreakdown"]) <= Sum(got["monthlyTrend"])
    /\ {"totalSpendSince", "oneYear"} \subseteq DOMAIN got =>
          (quiet /\ Period <= 720 => got["totalSpendSince"] <= got["oneYear"].spend)
    /\ {"oneYear", "twoYears"} \subseteq DOMAIN got =>
          got["oneYear"].spend <= got["twoYears"]
    /\ {"outcomes", "wonByVendor"} \subseteq DOMAIN got =>
          got["outcomes"].won <= Sum(got["wonByVendor"])
    /\ {"dealStats", "dealList"} \subseteq DOMAIN got =>
          got["dealList"] >= Min({got["dealStats"].count, HistoryLimit})
    /\ {"dealStats", "globalStats"} \subseteq DOMAIN got =>
          got["dealStats"].count <= got["globalStats"].count
    /\ {"avgDiscountPct", "averageScore"} \subseteq DOMAIN got =>
          got["avgDiscountPct"].count <= got["averageScore"].count

Underway(r) ==
    /\ r = [kind |-> r.kind, step |-> r.step, since |-> r.since, quiet |-> r.quiet,
            got |-> r.got]
    /\ r.kind \in Kinds
    /\ r.step \in 1 .. Len(Statements[r.kind]) + 1
    /\ r.since \in Int /\ r.since <= now
    /\ r.quiet \in BOOLEAN
    /\ r.quiet => r.since = now - Period
    /\ DOMAIN r.got \subseteq {Statements[r.kind][i] : i \in 1 .. r.step - 1}
    /\ AllStated(r.got, r.since, r.quiet)
    /\ Pairs(r.got, r.quiet)

ReportInv ==
    /\ exports \subseteq Nat
    /\ report # NoReport => Underway(report)

\* The earlier the more.
LEMMA SpentEarlier ==
    ASSUME Numbers, NEW s \in Int, NEW t \in Int, s <= t
    PROVE  Spent(t) <= Spent(s)
<1>1. PICK S \in SUBSET DOMAIN deals, R \in SUBSET DOMAIN deals :
         S = SinceInstant(deals, s) /\ R = SinceInstant(deals, t)
  BY Rows DEF Numbers
<1>2. R \in SUBSET S
  <2>1. ASSUME NEW i \in R PROVE i \in S
    <3>1. i \in DOMAIN deals /\ deals[i].at \in Nat /\ deals[i].at >= t
      BY <1>1, <2>1, DealRow DEF SinceInstant, Numbers
    <3> QED BY <1>1, <3>1 DEF SinceInstant
  <2> QED BY <2>1
<1>3. Spend(R) <= Spend(S)
  BY <1>2, SpendOfMore DEF Numbers
<1> QED BY <1>1, <1>3, SpentOf

LEMMA LeastOfTwo ==
    ASSUME NEW a \in Int, NEW b \in Int
    PROVE  Min({a, b}) = IF a <= b THEN a ELSE b
<1>1. PICK m \in {a, b} : \A y \in {a, b} : m <= y
  OBVIOUS
<1>2. Min({a, b}) \in {a, b} /\ \A y \in {a, b} : Min({a, b}) <= y
  BY <1>1 DEF Min
<1> QED BY <1>2

\* None of the statements that come later in a report was answered yet.
InOrder(x, D) ==
    /\ x \notin D
    /\ x = "totalSpendSince" => "vendorBreakdown" \notin D /\ "oneYear" \notin D
    /\ x = "vendorBreakdown" => "monthlyTrend" \notin D
    /\ x = "oneYear" => "twoYears" \notin D
    /\ x = "outcomes" => "wonByVendor" \notin D
    /\ x = "dealStats" => "dealList" \notin D /\ "globalStats" \notin D
    /\ x = "avgDiscountPct" => "averageScore" \notin D

LEMMA StatementsInOrder ==
    ASSUME NEW k \in Kinds, NEW p \in 1 .. Len(Statements[k]), NEW D,
           D \subseteq {Statements[k][i] : i \in 1 .. p - 1}
    PROVE  InOrder(Statements[k][p], D)
<1>1. PICK n \in 1 .. 5 : n = Len(Statements[k])
  BY Placed
<1>2. PICK q : q = Statements[k]
  OBVIOUS
<1>3. \A j \in 1 .. n :
        /\ q[j] \in {"totalSpendSince", "outcomes", "dealStats"} => j = 1
        /\ q[j] \in {"vendorBreakdown", "dealList", "globalStats", "avgDiscountPct"} => j = 2
        /\ q[j] \in {"monthlyTrend", "wonByVendor"} => j = 3
        /\ q[j] \in {"oneYear", "averageScore"} => j = 4
        /\ q[j] = "twoYears" => j = 5
  BY <1>1, <1>2, Placed
<1>4. \A y \in D : \E i \in 1 .. n : i < p /\ q[i] = y
  BY <1>1, <1>2
<1>5. p \in 1 .. n
  BY <1>1
<1>6. \A i, j \in 1 .. n : q[i] = q[j] => i = j
  <2>1. ASSUME NEW k1 \in Kinds PROVE \A i, j \in 1 .. Len(Statements[k1]) :
                                         Statements[k1][i] = Statements[k1][j] => i = j
    <3> DEFINE Goal(s) == \A i, j \in 1 .. Len(s) : s[i] = s[j] => i = j
    <3>1. Goal(SpendReport) /\ Goal(Build)
      BY DEF SpendReport, Build
    <3>2. Goal(Analyze) /\ Goal(Generate) /\ Goal(GetHistory)
      BY DEF Analyze, Generate, GetHistory
    <3>3. Goal(GenerateReport) /\ Goal(Score)
      BY DEF GenerateReport, Score
    <3>4. Goal(ActivityReport) /\ Goal(Chart) /\ Goal(Export)
      BY DEF ActivityReport, Chart, Export
    <3>5. Statements[k1] \in {SpendReport, Build, Analyze, Generate, GetHistory,
                              GenerateReport, Score, ActivityReport, Chart, Export}
      BY KindsAre DEF Statements
    <3> HIDE DEF Goal
    <3>6. Goal(Statements[k1])
      BY <3>1, <3>2, <3>3, <3>4, <3>5
    <3> QED BY <3>6 DEF Goal
  <2> QED BY <1>1, <1>2, <2>1
<1>7. q[p] \notin D
  BY ONLY <1>1, <1>4, <1>5, <1>6
<1>8. /\ q[p] \in {"totalSpendSince", "outcomes", "dealStats"} => p = 1
      /\ q[p] \in {"vendorBreakdown", "dealList", "globalStats", "avgDiscountPct"} => p = 2
      /\ q[p] \in {"monthlyTrend", "wonByVendor"} => p = 3
      /\ q[p] \in {"oneYear", "averageScore"} => p = 4
  BY <1>3, <1>5
<1>9. \A y \in D :
        /\ y \in {"vendorBreakdown", "dealList", "globalStats", "avgDiscountPct"} => 2 < p
        /\ y \in {"monthlyTrend", "wonByVendor"} => 3 < p
        /\ y \in {"oneYear", "averageScore"} => 4 < p
        /\ y = "twoYears" => 5 < p
  BY <1>3, <1>4
<1> QED BY ONLY <1>1, <1>2, <1>5, <1>7, <1>8, <1>9 DEF InOrder

\* One more answer, and it goes with those that are there.
LEMMA PairsKept ==
    ASSUME Numbers, NEW got, report.got = got, NEW x, InOrder(x, DOMAIN got),
           NEW since \in Int, NEW quiet \in BOOLEAN, quiet => since = now - Period,
           AllStated(got, since, quiet), Pairs(got, quiet),
           x = "twoYears" => "oneYear" \in DOMAIN got
    PROVE  Pairs(Answered(got, x, Answer(x, since)), quiet)
<1>1. PICK a : a = Answer(x, since)
  OBVIOUS
<1>2. PICK next : next = Answered(got, x, a)
  OBVIOUS
<1>3. /\ DOMAIN next = DOMAIN got \cup {x}
      /\ \A y \in DOMAIN next : next[y] = IF y = x THEN a ELSE got[y]
  BY <1>2 DEF Answered
<1>4. x \notin DOMAIN got
  BY DEF InOrder
<1>5. now \in Int
  BY LedgerAssumption DEF Numbers, TablesInv
<1> DEFINE Told(y) == y \in DOMAIN next /\ y # x
<1>6. \A y : Told(y) => y \in DOMAIN got /\ next[y] = got[y]
  BY <1>3
<1>7. \A y : Told(y) /\ y # "twoYears" => Stated(y, got[y], since, quiet)
  BY <1>6 DEF AllStated
<1>8. Spent(since) \in Nat /\ totalSpendSince(since) = Spent(since)
  BY SpentIs DEF Numbers
<1>9. {"totalSpendSince", "vendorBreakdown"} \subseteq DOMAIN next =>
         next["totalSpendSince"] <= Sum(next["vendorBreakdown"])
  <2>1. CASE x = "vendorBreakdown" /\ Told("totalSpendSince")
    <3>1. got["totalSpendSince"] \in Nat /\ got["totalSpendSince"] <= Spent(since)
      BY <1>7, <2>1 DEF Stated, Counts
    <3>2. Sum(a) = Spent(since)
      <4>1. a = vendorBreakdown(since)
        BY <1>1, <2>1 DEF Answer
      <4> QED BY <4>1, VendorBreakdown DEF Numbers
    <3>3. next["vendorBreakdown"] = a
      BY <1>3, <2>1
    <3> QED BY <1>6, <2>1, <3>1, <3>2, <3>3
  <2>2. CASE Told("vendorBreakdown") /\ Told("totalSpendSince")
    BY <1>6, <2>2 DEF Pairs
  <2>3. x = "totalSpendSince" => ~Told("vendorBreakdown")
    BY <1>6 DEF InOrder
  <2> QED BY <2>1, <2>2, <2>3
<1>10. {"vendorBreakdown", "monthlyTrend"} \subseteq DOMAIN next =>
         Sum(next["vendorBreakdown"]) <= Sum(next["monthlyTrend"])
  <2>1. CASE x = "monthlyTrend" /\ Told("vendorBreakdown")
    <3>1. Sum(got["vendorBreakdown"]) \in Nat /\ Sum(got["vendorBreakdown"]) <= Spent(since)
      BY <1>7, <2>1 DEF Stated, Counts
    <3>2. Sum(a) = Spent(since)
      <4>1. a = monthlyTrend(since)
        BY <1>1, <2>1 DEF Answer
      <4> QED BY <4>1, MonthlyTrend DEF Numbers
    <3>3. next["monthlyTrend"] = a
      BY <1>3, <2>1
    <3> QED BY <1>6, <2>1, <3>1, <3>2, <3>3
  <2>2. CASE Told("vendorBreakdown") /\ Told("monthlyTrend")
    BY <1>6, <2>2 DEF Pairs
  <2>3. x = "vendorBreakdown" => ~Told("monthlyTrend")
    BY <1>6 DEF InOrder
  <2> QED BY <2>1, <2>2, <2>3
<1>11. {"totalSpendSince", "oneYear"} \subseteq DOMAIN next =>
         (quiet /\ Period <= 720 => next["totalSpendSince"] <= next["oneYear"].spend)
  <2>1. CASE x = "oneYear" /\ Told("totalSpendSince") /\ quiet /\ Period <= 720
    <3>1. got["totalSpendSince"] \in Nat /\ got["totalSpendSince"] <= Spent(since)
      BY <1>7, <2>1 DEF Stated, Counts
    <3>2. a.spend = Spent(now - 720)
      <4>1. a = [at |-> now, spend |-> totalSpendSince(now - 720)]
        BY <1>1, <2>1 DEF Answer, yoyChange
      <4> QED BY <4>1, SpentIs DEF Numbers
    <3>3. Spent(since) <= Spent(now - 720) /\ Spent(now - 720) \in Nat
      <4>1. now - 720 \in Int /\ now - 720 <= since
        BY <1>5, <2>1, ReportAssumption
      <4>2. PICK year \in Int : year = now - 720
        BY <4>1
      <4>3. year <= since
        BY <4>1, <4>2
      <4> QED BY <4>2, <4>3, SpentEarlier, SpentOf
    <3>4. next["oneYear"] = a
      BY <1>3, <2>1
    <3> QED BY <1>6, <1>8, <2>1, <3>1, <3>2, <3>3, <3>4
  <2>2. CASE Told("oneYear") /\ Told("totalSpendSince")
    BY <1>6, <2>2 DEF Pairs
  <2>3. x = "totalSpendSince" => ~Told("oneYear")
    BY <1>6 DEF InOrder
  <2> QED BY <2>1, <2>2, <2>3
<1>12. {"oneYear", "twoYears"} \subseteq DOMAIN next =>
         next["oneYear"].spend <= next["twoYears"]
  <2>1. CASE x = "twoYears" /\ Told("oneYear")
    <3>1. PICK at \in Int : at = got["oneYear"].at
      BY <1>7, <2>1 DEF Stated
    <3>2. got["oneYear"].spend \in Nat /\ got["oneYear"].spend <= Spent(at - 720)
      BY <1>7, <2>1, <3>1 DEF Stated, Counts
    <3>3. a = Spent(at - 1440)
      <4>1. a = totalSpendSince(report.got["oneYear"].at - 1440)
        BY <1>1, <2>1 DEF Answer
      <4>2. a = totalSpendSince(at - 1440)
        BY <3>1, <4>1
      <4> QED BY <4>2, SpentIs DEF Numbers
    <3>4. Spent(at - 720) <= Spent(at - 1440) /\ Spent(at - 720) \in Nat
          /\ Spent(at - 1440) \in Nat
      <4>1. PICK s \in Int, t \in Int : s = at - 1440 /\ t = at - 720
        OBVIOUS
      <4>2. s <= t
        BY <4>1
      <4> QED BY <4>1, <4>2, SpentEarlier, SpentOf
    <3>5. next["twoYears"] = a
      BY <1>3, <2>1
    <3> QED BY <1>6, <2>1, <3>2, <3>3, <3>4, <3>5
  <2>2. CASE Told("oneYear") /\ Told("twoYears")
    BY <1>6, <2>2 DEF Pairs
  <2>3. x = "oneYear" => ~Told("twoYears")
    BY <1>6 DEF InOrder
  <2> QED BY <2>1, <2>2, <2>3
<1>13. {"outcomes", "wonByVendor"} \subseteq DOMAIN next =>
         next["outcomes"].won <= Sum(next["wonByVendor"])
  <2>1. CASE x = "wonByVendor" /\ Told("outcomes")
    <3>1. got["outcomes"].won \in Nat /\ got["outcomes"].won <= WithOutcomeNow("won")
      BY <1>7, <2>1 DEF Stated, Counts
    <3>2. Sum(a) = WithOutcomeNow("won")
      <4>1. a = wonByVendor
        BY <1>1, <2>1 DEF Answer
      <4> QED BY <4>1, WonSessions DEF Numbers
    <3>3. next["wonByVendor"] = a
      BY <1>3, <2>1
    <3> QED BY <1>6, <2>1, <3>1, <3>2, <3>3
  <2>2. CASE Told("outcomes") /\ Told("wonByVendor")
    BY <1>6, <2>2 DEF Pairs
  <2>3. x = "outcomes" => ~Told("wonByVendor")
    BY <1>6 DEF InOrder
  <2> QED BY <2>1, <2>2, <2>3
<1>14. {"dealStats", "dealList"} \subseteq DOMAIN next =>
         next["dealList"] >= Min({next["dealStats"].count, HistoryLimit})
  <2>1. CASE x = "dealList" /\ Told("dealStats")
    <3>1. got["dealStats"].count \in Nat /\ got["dealStats"].count <= Len(deals)
      BY <1>7, <2>1 DEF Stated, Counts
    <3>2. a = IF Len(deals) <= HistoryLimit THEN Len(deals) ELSE HistoryLimit
      <4>1. a = dealList
        BY <1>1, <2>1 DEF Answer
      <4> QED BY <4>1, DealList DEF Numbers
    <3>3. PICK count \in Nat, limit \in Nat : count = got["dealStats"].count
                                             /\ limit = HistoryLimit
      BY <3>1, ReportAssumption
    <3>4. Min({count, limit}) = IF count <= limit THEN count ELSE limit
      BY ONLY count \in Nat, limit \in Nat, LeastOfTwo
    <3>5. a >= Min({count, limit})
      BY <3>1, <3>2, <3>3, <3>4, RowsOf
    <3>6. next["dealList"] = a
      BY <1>3, <2>1
    <3> QED BY <1>6, <2>1, <3>3, <3>5, <3>6
  <2>2. CASE Told("dealStats") /\ Told("dealList")
    BY <1>6, <2>2 DEF Pairs
  <2>3. x = "dealStats" => ~Told("dealList")
    BY <1>6 DEF InOrder
  <2> QED BY <2>1, <2>2, <2>3
<1>15. {"dealStats", "globalStats"} \subseteq DOMAIN next =>
         next["dealStats"].count <= next["globalStats"].count
  <2>1. CASE x = "globalStats" /\ Told("dealStats")
    <3>1. got["dealStats"].count \in Nat /\ got["dealStats"].count <= Len(deals)
      BY <1>7, <2>1 DEF Stated, Counts
    <3>2. a.count = Len(deals)
      <4>1. a = dealStats
        BY <1>1, <2>1 DEF Answer
      <4> QED BY <4>1, Rows DEF Numbers, dealStats, All
    <3>3. next["globalStats"] = a
      BY <1>3, <2>1
    <3> QED BY <1>6, <2>1, <3>1, <3>2, <3>3
  <2>2. CASE Told("dealStats") /\ Told("globalStats")
    BY <1>6, <2>2 DEF Pairs
  <2>3. x = "dealStats" => ~Told("globalStats")
    BY <1>6 DEF InOrder
  <2> QED BY <2>1, <2>2, <2>3
<1>16. {"avgDiscountPct", "averageScore"} \subseteq DOMAIN next =>
         next["avgDiscountPct"].count <= next["averageScore"].count
  <2>1. CASE x = "averageScore" /\ Told("avgDiscountPct")
    <3>1. got["avgDiscountPct"].count \in Nat /\ got["avgDiscountPct"].count <= DealsSince(since)
      BY <1>7, <2>1 DEF Stated, Counts
    <3>2. a.count = DealsSince(since)
      <4>1. a = averageScore(since)
        BY <1>1, <2>1 DEF Answer
      <4> QED BY <4>1 DEF averageScore, DealsSince
    <3>3. next["averageScore"] = a
      BY <1>3, <2>1
    <3> QED BY <1>6, <2>1, <3>1, <3>2, <3>3
  <2>2. CASE Told("avgDiscountPct") /\ Told("averageScore")
    BY <1>6, <2>2 DEF Pairs
  <2>3. x = "avgDiscountPct" => ~Told("averageScore")
    BY <1>6 DEF InOrder
  <2> QED BY <2>1, <2>2, <2>3
<1> HIDE DEF Told
<1>17. Pairs(next, quiet)
  BY ONLY <1>9, <1>10, <1>11, <1>12, <1>13, <1>14, <1>15, <1>16 DEF Pairs
<1> QED BY <1>1, <1>2, <1>17

LEMMA AfterStart ==
    ASSUME Numbers, NEW k \in Kinds, ReportInv, Start(k) PROVE ReportInv'
<1>1. PICK next : next = report'
  OBVIOUS
<1>2. next = [kind |-> k, step |-> 1, since |-> now - Period, quiet |-> TRUE, got |-> <<>>]
  BY <1>1 DEF Start, NoReport
<1>3. now' = now /\ exports' = exports
  BY DEF Start, ledgerVars
<1>4. DOMAIN next.got = {}
  BY <1>2
<1>5. AllStated(next.got, next.since, next.quiet)' /\ Pairs(next.got, next.quiet)'
  BY <1>4 DEF AllStated, Pairs
<1>6. Len(Statements[k]) \in Nat
  BY Placed
<1>7. now - Period \in Int /\ now - Period <= now
  BY LedgerAssumption, ReportAssumption DEF Numbers, TablesInv
<1>8. Underway(next)'
  <2>1. next.step \in 1 .. Len(Statements[next.kind]) + 1 /\ next.kind \in Kinds
    BY <1>2, <1>6
  <2>2. DOMAIN next.got \subseteq {Statements[next.kind][i] : i \in 1 .. next.step - 1}
    BY <1>4
  <2>3. next = [kind |-> next.kind, step |-> next.step, since |-> next.since,
                quiet |-> next.quiet, got |-> next.got]
    BY <1>2
  <2>4. /\ next.since \in Int /\ next.since <= now' /\ next.quiet \in BOOLEAN
        /\ next.quiet => next.since = now' - Period
    BY <1>2, <1>3, <1>7
  <2> QED BY <1>5, <2>1, <2>2, <2>3, <2>4 DEF Underway
<1> QED BY <1>1, <1>3, <1>8 DEF ReportInv

LEMMA StillUnderway ==
    ASSUME UNCHANGED ledgerVars, NEW got, NEW since, NEW quiet \in BOOLEAN,
           AllStated(got, since, quiet)
    PROVE  AllStated(got, since, quiet)'
<1>1. ASSUME NEW x \in DOMAIN got, x # "twoYears" PROVE Stated(x, got[x], since, quiet)'
  <2>1. Stated(x, got[x], since, quiet)
    BY <1>1 DEF AllStated
  <2> QED BY <2>1, StillStated
<1> QED BY <1>1 DEF AllStated

LEMMA AfterAnswer ==
    ASSUME Numbers, ReportInv, Query PROVE ReportInv'
<1>1. PICK r, next : r = report /\ next = report'
  OBVIOUS
<1>2. PICK x, a : x = Current /\ a = Answer(Current, report.since)
  OBVIOUS
<1>3. Underway(r) /\ r.step <= Len(Statements[r.kind])
  <2>1. report # NoReport /\ ~(report.step > Len(Statements[report.kind]))
    BY DEF Query, Computing, Finished
  <2>2. Underway(r)
    BY <1>1, <2>1 DEF ReportInv
  <2>3. r.step \in Int /\ Len(Statements[r.kind]) \in Int
    BY <2>2, Placed DEF Underway
  <2> QED BY <1>1, <2>1, <2>2, <2>3
<1>4. PICK n \in Nat : n = Len(Statements[r.kind])
  BY <1>3, Placed DEF Underway
<1>5. r.step \in 1 .. n /\ r.kind \in Kinds
  BY <1>3, <1>4 DEF Underway
<1>6. next = [kind |-> r.kind, step |-> r.step + 1, since |-> r.since, quiet |-> r.quiet,
              got |-> Answered(r.got, x, a)]
  <2>1. next = [r EXCEPT !.step = @ + 1, !.got = Answered(@, x, a)]
    BY <1>1, <1>2 DEF Query
  <2>2. r = [kind |-> r.kind, step |-> r.step, since |-> r.since, quiet |-> r.quiet,
             got |-> r.got]
    BY <1>3 DEF Underway
  <2> QED BY <2>1, <2>2
<1>7. UNCHANGED ledgerVars /\ now' = now /\ exports' = exports
  BY DEF Query, ledgerVars
<1>8. x = Statements[r.kind][r.step]
  BY <1>1, <1>2 DEF Current
<1>9. /\ r.since \in Int /\ r.quiet \in BOOLEAN /\ (r.quiet => r.since = now - Period)
      /\ DOMAIN r.got \subseteq {Statements[r.kind][i] : i \in 1 .. r.step - 1}
      /\ AllStated(r.got, r.since, r.quiet)
      /\ Pairs(r.got, r.quiet)
  BY <1>3 DEF Underway
<1>10. InOrder(x, DOMAIN r.got)
  BY <1>4, <1>5, <1>8, <1>9, StatementsInOrder
<1>11. PICK since \in Int, quiet \in BOOLEAN : since = r.since /\ quiet = r.quiet
  BY <1>9
<1>a. PICK got : got = r.got
  OBVIOUS
<1>12. a = Answer(x, since)
  BY <1>1, <1>2, <1>11, <1>a
<1>13. Pairs(Answered(got, x, a), quiet)
  <2>1. report.got = got /\ (x = "twoYears" => "oneYear" \in DOMAIN got)
    BY <1>1, <1>2, <1>11, <1>a DEF Query
  <2>2. /\ InOrder(x, DOMAIN got) /\ (quiet => since = now - Period)
        /\ AllStated(got, since, quiet) /\ Pairs(got, quiet)
    BY <1>9, <1>10, <1>11, <1>a
  <2>3. Pairs(Answered(got, x, Answer(x, since)), quiet)
    BY <2>1, <2>2, PairsKept
  <2> QED BY <1>12, <2>3
<1>14. PICK all : all = Answered(got, x, a)
  OBVIOUS
<1>15. /\ DOMAIN all = DOMAIN got \cup {x}
       /\ \A y \in DOMAIN all : all[y] = IF y = x THEN a ELSE got[y]
  BY <1>14 DEF Answered
<1>16. AllStated(all, since, quiet)
  <2>1. ASSUME NEW y \in DOMAIN all, y # "twoYears" PROVE Stated(y, all[y], since, quiet)
    <3>1. CASE y = x
      <4>1. quiet => since = now - Period
        BY <1>9, <1>11, <1>a
      <4>2. x # "twoYears" => Stated(x, Answer(x, since), since, quiet)
        BY <4>1, FreshAnswer DEF Numbers
      <4> QED BY <1>12, <1>15, <2>1, <3>1, <4>2
    <3>2. CASE y # x
      <4>1. y \in DOMAIN got /\ all[y] = got[y]
        BY <1>15, <3>2
      <4> QED BY <1>9, <1>11, <1>a, <2>1, <4>1 DEF AllStated
    <3> QED BY <3>1, <3>2
  <2> QED BY <2>1 DEF AllStated
<1>17. AllStated(all, since, quiet)'
  BY <1>7, <1>16, StillUnderway
<1>18. DOMAIN all \subseteq {Statements[r.kind][i] : i \in 1 .. (r.step + 1) - 1}
  <2>1. \A y \in DOMAIN all : \E i \in 1 .. r.step : y = Statements[r.kind][i]
    BY <1>4, <1>5, <1>8, <1>9, <1>11, <1>a, <1>15
  <2>2. (r.step + 1) - 1 = r.step
    BY <1>5
  <2> QED BY <2>1, <2>2
<1>19. r.since <= now
  BY <1>3 DEF Underway
<1>20. /\ next.kind = r.kind /\ next.step = r.step + 1 /\ next.since = since
       /\ next.quiet = quiet /\ next.got = all
  BY <1>6, <1>11, <1>a, <1>14
<1>21. Pairs(all, quiet)'
  BY <1>13, <1>14 DEF Pairs
<1>22. Underway(next)'
  <2>1. next.step \in 1 .. Len(Statements[next.kind]) + 1
    BY <1>4, <1>5, <1>20
  <2>2. next = [kind |-> next.kind, step |-> next.step, since |-> next.since,
                quiet |-> next.quiet, got |-> next.got]
    BY <1>6
  <2>3. next.quiet => next.since = now' - Period
    BY <1>7, <1>9, <1>11, <1>a, <1>20
  <2>4. DOMAIN next.got \subseteq {Statements[next.kind][i] : i \in 1 .. next.step - 1}
    BY <1>18, <1>20
  <2>5. /\ next.kind \in Kinds /\ next.since \in Int /\ next.since <= now'
        /\ next.quiet \in BOOLEAN
    BY <1>5, <1>7, <1>11, <1>a, <1>19, <1>20
  <2>6. AllStated(next.got, next.since, next.quiet)' /\ Pairs(next.got, next.quiet)'
    BY <1>17, <1>20, <1>21
  <2> QED BY <2>1, <2>2, <2>3, <2>4, <2>5, <2>6 DEF Underway
<1> QED BY <1>1, <1>7, <1>22 DEF ReportInv

LEMMA AfterPass ==
    ASSUME ReportInv, PassOver PROVE ReportInv'
<1>1. PICK r, next : r = report /\ next = report'
  OBVIOUS
<1>3. Underway(r) /\ r.step <= Len(Statements[r.kind])
  <2>1. report # NoReport /\ ~(report.step > Len(Statements[report.kind]))
    BY DEF PassOver, Computing, Finished
  <2>2. Underway(r)
    BY <1>1, <2>1 DEF ReportInv
  <2>3. r.step \in Int /\ Len(Statements[r.kind]) \in Int
    BY <2>2, Placed DEF Underway
  <2> QED BY <1>1, <2>1, <2>2, <2>3
<1>4. PICK n \in Nat : n = Len(Statements[r.kind])
  BY <1>3, Placed DEF Underway
<1>5. r.step \in 1 .. n /\ r.kind \in Kinds
  BY <1>3, <1>4 DEF Underway
<1>6. next = [kind |-> r.kind, step |-> r.step + 1, since |-> r.since, quiet |-> r.quiet,
              got |-> r.got]
  <2>1. next = [r EXCEPT !.step = @ + 1]
    BY <1>1 DEF PassOver
  <2>2. r = [kind |-> r.kind, step |-> r.step, since |-> r.since, quiet |-> r.quiet,
             got |-> r.got]
    BY <1>3 DEF Underway
  <2> QED BY <2>1, <2>2
<1>7. UNCHANGED ledgerVars /\ now' = now /\ exports' = exports
  BY DEF PassOver, ledgerVars
<1>8. PICK since \in Int, quiet \in BOOLEAN : since = r.since /\ quiet = r.quiet
  BY <1>3 DEF Underway
<1>a. PICK got : got = r.got
  OBVIOUS
<1>9. /\ since <= now /\ (quiet => since = now - Period)
      /\ DOMAIN got \subseteq {Statements[r.kind][i] : i \in 1 .. r.step - 1}
      /\ AllStated(got, since, quiet) /\ Pairs(got, quiet)
  BY <1>3, <1>8, <1>a DEF Underway
<1>10. AllStated(got, since, quiet)' /\ Pairs(got, quiet)'
  BY <1>7, <1>9, StillUnderway DEF Pairs
<1>11. /\ next.kind = r.kind /\ next.step = r.step + 1 /\ next.since = since
       /\ next.quiet = quiet /\ next.got = got
  BY <1>6, <1>8, <1>a
<1>12. \A i \in 1 .. r.step - 1 : i \in 1 .. (r.step + 1) - 1
  BY <1>5
<1>13. Underway(next)'
  <2>1. next.step \in 1 .. Len(Statements[next.kind]) + 1
    BY <1>4, <1>5, <1>11
  <2>2. DOMAIN next.got \subseteq {Statements[next.kind][i] : i \in 1 .. next.step - 1}
    BY <1>9, <1>11, <1>12
  <2>3. next = [kind |-> next.kind, step |-> next.step, since |-> next.since,
                quiet |-> next.quiet, got |-> next.got]
    BY <1>6
  <2>4. /\ next.kind \in Kinds /\ next.since \in Int /\ next.since <= now'
        /\ next.quiet \in BOOLEAN /\ (next.quiet => next.since = now' - Period)
    BY <1>5, <1>7, <1>9, <1>11
  <2>5. AllStated(next.got, next.since, next.quiet)' /\ Pairs(next.got, next.quiet)'
    BY <1>10, <1>11
  <2> QED BY <2>1, <2>2, <2>3, <2>4, <2>5 DEF Underway
<1> QED BY <1>1, <1>7, <1>13 DEF ReportInv

LEMMA ExportCounts ==
    ASSUME NEW got, NEW since, NEW quiet, AllStated(got, since, quiet),
           DOMAIN got \subseteq {"queryDeals", "querySessions"}
    PROVE  Sum(got) \in Nat
<1>1. PICK D : D = DOMAIN got
  OBVIOUS
<1>2. IsFiniteSet(D)
  <2>1. PICK S : S = {"queryDeals", "querySessions"}
    OBVIOUS
  <2>2. IsFiniteSet({"queryDeals"}) /\ S = {"queryDeals"} \cup {"querySessions"}
    BY <2>1, FS_Singleton
  <2>3. IsFiniteSet(S)
    BY <2>2, FS_AddElement
  <2>4. D \in SUBSET S
    BY <1>1, <2>1
  <2> QED BY <2>3, <2>4, FS_Subset
<1>3. \A x \in D : got[x] \in Nat
  <2>1. ASSUME NEW x \in D PROVE got[x] \in Nat
    <3>1. Stated(x, got[x], since, quiet) /\ x \in {"queryDeals", "querySessions"}
      BY <1>1 DEF AllStated
    <3> QED BY <3>1 DEF Stated
  <2> QED BY <2>1
<1>4. SumOver(got, D) \in Nat
  <2>1. D \in SUBSET D
    OBVIOUS
  <2> QED BY <1>2, <1>3, <2>1, SumOfPart
<1> QED BY <1>1, <1>4, AnswerSum

LEMMA AfterReply ==
    ASSUME ReportInv, Reply PROVE ReportInv'
<1>1. PICK r : r = report
  OBVIOUS
<1>2. Underway(r)
  BY <1>1 DEF ReportInv, Reply, Finished, Computing
<1>3. report' = NoReport
  BY DEF Reply
<1>4. CASE r.kind # "export"
  BY <1>1, <1>3, <1>4 DEF Reply, ReportInv
<1>5. CASE r.kind = "export"
  <2>1. DOMAIN r.got \subseteq {"queryDeals", "querySessions"}
    <3>1. PICK q : q = Statements["export"]
      OBVIOUS
    <3>2. \A i \in 1 .. 2 : q[i] \in {"queryDeals", "querySessions"}
      BY <3>1 DEF Statements, Export
    <3>3. Len(q) = 2
      BY <3>1 DEF Statements, Export
    <3>4. r.step \in 1 .. 3 /\ DOMAIN r.got \subseteq {q[i] : i \in 1 .. r.step - 1}
      BY <1>2, <1>5, <3>1, <3>3 DEF Underway
    <3>5. \A i \in 1 .. r.step - 1 : i \in 1 .. 2
      BY <3>4
    <3> QED BY <3>2, <3>4, <3>5
  <2>2. Sum(r.got) \in Nat
    <3>1. AllStated(r.got, r.since, r.quiet)
      BY <1>2 DEF Underway
    <3> QED BY <2>1, <3>1, ExportCounts
  <2>3. PICK count : count = Sum(report.got)
    OBVIOUS
  <2>4. exports' = exports \cup {count} \/ UNCHANGED exports
    BY <1>1, <1>5, <2>3 DEF Reply, SaveExport, Sum
  <2> QED BY <1>1, <1>3, <2>2, <2>3, <2>4 DEF ReportInv
<1> QED BY <1>4, <1>5

LEMMA AfterFailure ==
    ASSUME ReportInv, ReportFails PROVE ReportInv'
BY DEF ReportFails, ReportInv

\* The figures, when another call writes.
LEMMA AfterWrite ==
    ASSUME Numbers, LedgerNext
    PROVE  /\ Numbers' /\ Grown
           /\ DOMAIN sessions \subseteq DOMAIN sessions'
           /\ \A i \in DOMAIN sessions :
                 sessions[i].outcome = "won" => sessions'[i].outcome = "won"
           /\ now' \in Instants /\ now <= now'
<1>1. DealsInv /\ TablesInv
  BY DEF Numbers
<1>2. /\ DealsInv' /\ Grown /\ now' \in Instants
      /\ Len(deals') <= MaxDeals
      /\ \A i \in DOMAIN deals' : deals'[i].at <= now' /\ deals'[i].terms.list > 0
  BY <1>1, DealsGrow
<1>3. /\ sessions' \in Seq(SessionRecord) /\ Len(sessions') <= MaxSessions
      /\ DOMAIN sessions \subseteq DOMAIN sessions'
      /\ \A i \in DOMAIN sessions :
            sessions[i].outcome = "won" => sessions'[i].outcome = "won"
  BY <1>1, SessionsGrow
<1>4. TablesInv'
  BY <1>2, <1>3 DEF TablesInv
<1>5. now <= now'
  <2>1. now \in Int /\ now' \in Int
    BY <1>1, <1>2, LedgerAssumption DEF TablesInv
  <2>2. now' = now \/ now' > now
    BY DEF LedgerNext, Tick, importDeals, SaveDealOutcome, SaveSession, BatchItem, UpdateSession
  <2> QED BY <2>1, <2>2
<1> QED BY <1>2, <1>3, <1>4, <1>5 DEF Numbers

LEMMA AfterMeanwhile ==
    ASSUME Numbers, ReportInv, Meanwhile PROVE ReportInv'
<1>1. PICK r, next : r = report /\ next = report'
  OBVIOUS
<1>2. CASE ~Computing
  BY <1>2 DEF Meanwhile, Computing, ReportInv
<1>3. CASE Computing
  <2>1. Underway(r)
    BY <1>1, <1>3 DEF Computing, ReportInv
  <2>2. next = [kind |-> r.kind, step |-> r.step, since |-> r.since, quiet |-> FALSE,
                got |-> r.got]
    <3>1. next = [r EXCEPT !.quiet = FALSE]
      BY <1>1, <1>3 DEF Meanwhile
    <3>2. r = [kind |-> r.kind, step |-> r.step, since |-> r.since, quiet |-> r.quiet,
               got |-> r.got]
      BY <2>1 DEF Underway
    <3> QED BY <3>1, <3>2
  <2>3. PICK since \in Int, quiet \in BOOLEAN : since = r.since /\ quiet = r.quiet
    BY <2>1 DEF Underway
  <2>4. PICK got : got = r.got
    OBVIOUS
  <2>5. AllStated(got, since, quiet) /\ Pairs(got, quiet)
    BY <2>1, <2>3, <2>4 DEF Underway
  <2>6. LedgerNext
    BY DEF Meanwhile
  <2>7. /\ Numbers' /\ Grown
        /\ DOMAIN sessions \subseteq DOMAIN sessions'
        /\ \A i \in DOMAIN sessions :
              sessions[i].outcome = "won" => sessions'[i].outcome = "won"
        /\ now' \in Instants /\ now <= now'
    BY <2>6, AfterWrite
  <2>8. /\ \A t : /\ Spent(t) <= Spent(t)' /\ Spent(t) \in Nat /\ Spent(t)' \in Nat
        /\ \A t : /\ DealsSince(t) <= DealsSince(t)'
                  /\ DealsSince(t) \in Nat /\ DealsSince(t)' \in Nat
        /\ Len(deals) <= Len(deals)' /\ Len(deals) \in Nat /\ Len(deals)' \in Nat
        /\ /\ WithOutcomeNow("won") <= WithOutcomeNow("won")'
           /\ WithOutcomeNow("won") \in Nat /\ WithOutcomeNow("won")' \in Nat
    BY <2>7, FiguresGrow
  <2>9. AllStated(got, since, FALSE)'
    <3>1. ASSUME NEW x \in DOMAIN got, x # "twoYears" PROVE Stated(x, got[x], since, FALSE)'
      <4>1. Stated(x, got[x], since, quiet)
        BY <2>5, <3>1 DEF AllStated
      <4>2. PICK answer : answer = got[x]
        OBVIOUS
      <4>3. Stated(x, answer, since, quiet)
        BY <4>1, <4>2
      <4>4. Stated(x, answer, since, FALSE)'
        BY <2>8, <4>3, StatedLater
      <4> QED BY <4>2, <4>4
    <3> QED BY <3>1 DEF AllStated
  <2>10. Pairs(got, FALSE)'
    BY <2>5 DEF Pairs
  <2>11. /\ next.kind = r.kind /\ next.step = r.step /\ next.since = since
         /\ next.quiet = FALSE /\ next.got = got
    BY <2>2, <2>3, <2>4
  <2>12. /\ r.kind \in Kinds /\ r.step \in 1 .. Len(Statements[r.kind]) + 1
         /\ DOMAIN r.got \subseteq {Statements[r.kind][i] : i \in 1 .. r.step - 1}
         /\ since <= now
    BY <2>1, <2>3 DEF Underway
  <2>13. since <= now'
    <3>1. now \in Int /\ now' \in Int
      BY <2>7, LedgerAssumption DEF Numbers, TablesInv
    <3> QED BY <2>3, <2>7, <2>12, <3>1
  <2>14. Underway(next)'
    <3>1. next = [kind |-> next.kind, step |-> next.step, since |-> next.since,
                  quiet |-> next.quiet, got |-> next.got]
      BY <2>2
    <3>2. /\ next.kind \in Kinds /\ next.step \in 1 .. Len(Statements[next.kind]) + 1
          /\ DOMAIN next.got \subseteq {Statements[next.kind][i] : i \in 1 .. next.step - 1}
      BY <2>4, <2>11, <2>12
    <3>3. /\ next.since \in Int /\ next.since <= now' /\ next.quiet \in BOOLEAN
          /\ next.quiet => next.since = now' - Period
      BY <2>3, <2>11, <2>13
    <3>4. AllStated(next.got, next.since, next.quiet)' /\ Pairs(next.got, next.quiet)'
      BY <2>9, <2>10, <2>11
    <3> QED BY <3>1, <3>2, <3>3, <3>4 DEF Underway
  <2> QED BY <1>1, <2>14 DEF Meanwhile, ReportInv
<1> QED BY <1>2, <1>3

\* A report that was told everything was told what each of its statements returns.
LEMMA CompleteHas ==
    ASSUME ReportInv, Complete
    PROVE  /\ Underway(report)
           /\ \A i \in 1 .. Len(Statements[report.kind]) :
                 Statements[report.kind][i] \in DOMAIN report.got
<1>1. PICK r : r = report
  OBVIOUS
<1>2. Underway(r)
  BY <1>1 DEF ReportInv, Complete, Finished, Computing
<1>3. PICK n \in Nat : n = Len(Statements[r.kind])
  BY <1>2, Placed DEF Underway
<1>4. r.step \in 1 .. n + 1 /\ r.step > n
  BY <1>1, <1>2, <1>3 DEF Underway, Complete, Finished
<1>5. r.step - 1 = n
  BY <1>3, <1>4
<1>6. PICK I, S, q : I = 1 .. n /\ S = {q[i] : i \in I} /\ q = Statements[r.kind]
  OBVIOUS
<1>7. IsFiniteSet(I) /\ Cardinality(I) = n
  BY <1>3, <1>6, FS_Interval
<1>8. IsFiniteSet(S) /\ Cardinality(S) <= n
  BY <1>6, <1>7, ImageOf
<1>9. PICK D \in SUBSET S : D = DOMAIN r.got
  BY <1>2, <1>5, <1>6 DEF Underway
<1>10. Cardinality(D) = n
  BY <1>1, <1>3, <1>9 DEF Complete
<1>11. Cardinality(S) \in Nat
  BY <1>8, FS_CardinalityType
<1>12. D = S
  <2>1. Cardinality(D) <= Cardinality(S) /\ (Cardinality(D) = Cardinality(S) => D = S)
    BY <1>8, FS_Subset
  <2> QED BY <1>3, <1>8, <1>10, <1>11, <2>1
<1> QED BY <1>1, <1>2, <1>3, <1>6, <1>9, <1>12

\* What a complete report states, kind by kind.
LEMMA ReportsAgreeNow ==
    ASSUME Numbers, ReportInv, Complete PROVE ReportsAgree
<1>1. PICK got : got = report.got
  OBVIOUS
<1>2. Underway(report)
  BY CompleteHas
<1>3. PICK since \in Int, quiet \in BOOLEAN : since = report.since /\ quiet = report.quiet
  BY <1>2 DEF Underway
<1>4. AllStated(got, since, quiet) /\ Pairs(got, quiet) /\ (quiet => since = now - Period)
  BY <1>1, <1>2, <1>3 DEF Underway
<1>5. \A x \in DOMAIN got : x # "twoYears" => Stated(x, got[x], since, quiet)
  BY <1>4 DEF AllStated
<1>6. \A k \in Kinds : report.kind = k =>
         \A i \in 1 .. Len(Statements[k]) : Statements[k][i] \in DOMAIN got
  BY <1>1, CompleteHas
<1>7. report.kind = "spend" =>
        /\ got["totalSpendSince"] <= Sum(got["vendorBreakdown"])
        /\ Sum(got["vendorBreakdown"]) <= Sum(got["monthlyTrend"])
        /\ quiet => got["totalSpendSince"] = Sum(got["monthlyTrend"])
        /\ got["oneYear"].spend <= got["twoYears"]
        /\ quiet /\ Period <= 720 => got["totalSpendSince"] <= got["oneYear"].spend
  <2>1. SUFFICES ASSUME report.kind = "spend"
                 PROVE  /\ got["totalSpendSince"] <= Sum(got["vendorBreakdown"])
                        /\ Sum(got["vendorBreakdown"]) <= Sum(got["monthlyTrend"])
                        /\ quiet => got["totalSpendSince"] = Sum(got["monthlyTrend"])
                        /\ got["oneYear"].spend <= got["twoYears"]
                        /\ quiet /\ Period <= 720 =>
                              got["totalSpendSince"] <= got["oneYear"].spend
    OBVIOUS
  <2>2. PICK q : q = SpendReport
    OBVIOUS
  <2>3. Statements["spend"] = q /\ "spend" \in Kinds
    BY <2>2, KindsAre DEF Statements
  <2>4. Len(q) = 5 /\ q[1] = "totalSpendSince" /\ q[2] = "vendorBreakdown"
        /\ q[3] = "monthlyTrend" /\ q[4] = "oneYear" /\ q[5] = "twoYears"
    BY <2>2 DEF SpendReport
  <2>a. \A i \in 1 .. 5 : q[i] \in DOMAIN got
    <3>1. \A i \in 1 .. Len(Statements["spend"]) : Statements["spend"][i] \in DOMAIN got
      BY <1>6, <2>1, <2>3
    <3> QED BY <2>3, <2>4, <3>1
  <2>5. {"totalSpendSince", "vendorBreakdown", "monthlyTrend", "oneYear", "twoYears"}
           \subseteq DOMAIN got
    BY <2>4, <2>a
  <2>b. /\ Stated("totalSpendSince", got["totalSpendSince"], since, quiet)
        /\ Stated("vendorBreakdown", got["vendorBreakdown"], since, quiet)
        /\ Stated("monthlyTrend", got["monthlyTrend"], since, quiet)
        /\ Stated("oneYear", got["oneYear"], since, quiet)
    BY <1>5, <2>5
  <2>6. quiet => got["totalSpendSince"] = Spent(since)
    BY <2>b DEF Stated, Counts
  <2>7. quiet => Sum(got["monthlyTrend"]) = Spent(since)
    BY <2>b DEF Stated, Counts
  <2> QED BY <1>4, <2>5, <2>6, <2>7 DEF Pairs
<1>8. report.kind = "build" /\ quiet =>
        /\ got["savingsSection"].count = Sum(got["vendorBreakdownSection"])
        /\ got["savingsSection"].count = got["benchmarksSection"].count
        /\ got["savingsSection"].count = Sum(got["trendsSection"])
  <2>1. SUFFICES ASSUME report.kind = "build", quiet
                 PROVE  /\ got["savingsSection"].count = Sum(got["vendorBreakdownSection"])
                        /\ got["savingsSection"].count = got["benchmarksSection"].count
                        /\ got["savingsSection"].count = Sum(got["trendsSection"])
    OBVIOUS
  <2>2. PICK q : q = Build
    OBVIOUS
  <2>3. Statements["build"] = q /\ "build" \in Kinds
    BY <2>2, KindsAre DEF Statements
  <2>4. Len(q) = 5 /\ q[1] = "savingsSection" /\ q[2] = "vendorBreakdownSection"
        /\ q[4] = "benchmarksSection" /\ q[5] = "trendsSection"
    BY <2>2 DEF Build
  <2>a. \A i \in 1 .. 5 : q[i] \in DOMAIN got
    <3>1. \A i \in 1 .. Len(Statements["build"]) : Statements["build"][i] \in DOMAIN got
      BY <1>6, <2>1, <2>3
    <3> QED BY <2>3, <2>4, <3>1
  <2>5. {"savingsSection", "vendorBreakdownSection", "benchmarksSection", "trendsSection"}
           \subseteq DOMAIN got
    BY <2>4, <2>a
  <2>b. /\ Stated("savingsSection", got["savingsSection"], since, quiet)
        /\ Stated("vendorBreakdownSection", got["vendorBreakdownSection"], since, quiet)
        /\ Stated("benchmarksSection", got["benchmarksSection"], since, quiet)
        /\ Stated("trendsSection", got["trendsSection"], since, quiet)
    BY <1>5, <2>5
  <2>6. got["savingsSection"].count = Recent /\ got["benchmarksSection"].count = Recent
    BY <2>1, <2>b DEF Stated
  <2>7. Sum(got["vendorBreakdownSection"]) = Recent /\ Sum(got["trendsSection"]) = Recent
    BY <2>1, <2>b DEF Stated
  <2> QED BY <2>6, <2>7
<1>9. report.kind = "winloss" =>
        /\ got["outcomes"].won <= Sum(got["wonByVendor"])
        /\ quiet => /\ got["outcomes"].won = Sum(got["wonByVendor"])
                    /\ Sum(got["wonByMonth"]) <= got["outcomes"].won
  <2>1. SUFFICES ASSUME report.kind = "winloss"
                 PROVE  /\ got["outcomes"].won <= Sum(got["wonByVendor"])
                        /\ quiet => /\ got["outcomes"].won = Sum(got["wonByVendor"])
                                    /\ Sum(got["wonByMonth"]) <= got["outcomes"].won
    OBVIOUS
  <2>2. PICK q : q = Analyze
    OBVIOUS
  <2>3. Statements["winloss"] = q /\ "winloss" \in Kinds
    BY <2>2, KindsAre DEF Statements
  <2>4. Len(q) = 4 /\ q[1] = "outcomes" /\ q[3] = "wonByVendor" /\ q[4] = "wonByMonth"
    BY <2>2 DEF Analyze
  <2>a. \A i \in 1 .. 4 : q[i] \in DOMAIN got
    <3>1. \A i \in 1 .. Len(Statements["winloss"]) : Statements["winloss"][i] \in DOMAIN got
      BY <1>6, <2>1, <2>3
    <3> QED BY <2>3, <2>4, <3>1
  <2>5. {"outcomes", "wonByVendor", "wonByMonth"} \subseteq DOMAIN got
    BY <2>4, <2>a
  <2>b. /\ Stated("outcomes", got["outcomes"], since, quiet)
        /\ Stated("wonByVendor", got["wonByVendor"], since, quiet)
        /\ Stated("wonByMonth", got["wonByMonth"], since, quiet)
    BY <1>5, <2>5
  <2>6. quiet => got["outcomes"].won = WithOutcomeNow("won")
    BY <2>b DEF Stated, Counts
  <2>7. quiet => /\ Sum(got["wonByVendor"]) = WithOutcomeNow("won")
                 /\ Sum(got["wonByMonth"]) <= WithOutcomeNow("won")
    BY <2>b DEF Stated, Counts
  <2> QED BY <1>4, <2>5, <2>6, <2>7 DEF Pairs
<1>10. report.kind = "metrics" /\ quiet =>
         got["outcomeCounts"].won + got["outcomeCounts"].lost + got["activeSessions"]
           <= Len(sessions)
  <2>1. SUFFICES ASSUME report.kind = "metrics", quiet
                 PROVE  got["outcomeCounts"].won + got["outcomeCounts"].lost
                          + got["activeSessions"] <= Len(sessions)
    OBVIOUS
  <2>2. PICK q : q = Generate
    OBVIOUS
  <2>3. Statements["metrics"] = q /\ "metrics" \in Kinds
    BY <2>2, KindsAre DEF Statements
  <2>4. Len(q) = 3 /\ q[1] = "outcomeCounts" /\ q[3] = "activeSessions"
    BY <2>2 DEF Generate
  <2>a. \A i \in 1 .. 3 : q[i] \in DOMAIN got
    <3>1. \A i \in 1 .. Len(Statements["metrics"]) : Statements["metrics"][i] \in DOMAIN got
      BY <1>6, <2>1, <2>3
    <3> QED BY <2>3, <2>4, <3>1
  <2>5. {"outcomeCounts", "activeSessions"} \subseteq DOMAIN got
    BY <2>4, <2>a
  <2>b. /\ Stated("outcomeCounts", got["outcomeCounts"], since, quiet)
        /\ Stated("activeSessions", got["activeSessions"], since, quiet)
    BY <1>5, <2>5
  <2>6. /\ got["outcomeCounts"].won = WithOutcomeNow("won")
        /\ got["outcomeCounts"].lost = WithOutcomeNow("lost")
        /\ got["activeSessions"] = ActiveNow
    BY <2>1, <2>b DEF Stated
  <2> QED BY <2>6, OutcomesApart DEF Numbers
<1>11. report.kind = "history" =>
         got["dealList"] >= Min({got["dealStats"].count, HistoryLimit})
  <2>1. SUFFICES ASSUME report.kind = "history"
                 PROVE  got["dealList"] >= Min({got["dealStats"].count, HistoryLimit})
    OBVIOUS
  <2>2. PICK q : q = GetHistory
    OBVIOUS
  <2>3. Statements["history"] = q /\ "history" \in Kinds
    BY <2>2, KindsAre DEF Statements
  <2>4. Len(q) = 2 /\ q[1] = "dealStats" /\ q[2] = "dealList"
    BY <2>2 DEF GetHistory
  <2>a. \A i \in 1 .. 2 : q[i] \in DOMAIN got
    <3>1. \A i \in 1 .. Len(Statements["history"]) : Statements["history"][i] \in DOMAIN got
      BY <1>6, <2>1, <2>3
    <3> QED BY <2>3, <2>4, <3>1
  <2>5. {"dealStats", "dealList"} \subseteq DOMAIN got
    BY <2>4, <2>a
  <2> QED BY <1>4, <2>5 DEF Pairs
<1>12. report.kind = "benchmark" =>
         /\ got["dealStats"].count <= got["globalStats"].count
         /\ quiet => got["dealStats"] = got["globalStats"]
  <2>1. SUFFICES ASSUME report.kind = "benchmark"
                 PROVE  /\ got["dealStats"].count <= got["globalStats"].count
                        /\ quiet => got["dealStats"] = got["globalStats"]
    OBVIOUS
  <2>2. PICK q : q = GenerateReport
    OBVIOUS
  <2>3. Statements["benchmark"] = q /\ "benchmark" \in Kinds
    BY <2>2, KindsAre DEF Statements
  <2>4. Len(q) = 2 /\ q[1] = "dealStats" /\ q[2] = "globalStats"
    BY <2>2 DEF GenerateReport
  <2>a. \A i \in 1 .. 2 : q[i] \in DOMAIN got
    <3>1. \A i \in 1 .. Len(Statements["benchmark"]) : Statements["benchmark"][i] \in DOMAIN got
      BY <1>6, <2>1, <2>3
    <3> QED BY <2>3, <2>4, <3>1
  <2>5. {"dealStats", "globalStats"} \subseteq DOMAIN got
    BY <2>4, <2>a
  <2>b. /\ Stated("dealStats", got["dealStats"], since, quiet)
        /\ Stated("globalStats", got["globalStats"], since, quiet)
    BY <1>5, <2>5
  <2>6. quiet => /\ got["dealStats"] = [count |-> Len(deals), savings |-> SavedEver]
                 /\ got["globalStats"] = [count |-> Len(deals), savings |-> SavedEver]
    BY <2>b DEF Stated
  <2> QED BY <1>4, <2>5, <2>6 DEF Pairs
<1>13. report.kind = "score" =>
         /\ got["avgDiscountPct"].count <= got["averageScore"].count
         /\ quiet => got["avgDiscountPct"] = got["averageScore"]
  <2>1. SUFFICES ASSUME report.kind = "score"
                 PROVE  /\ got["avgDiscountPct"].count <= got["averageScore"].count
                        /\ quiet => got["avgDiscountPct"] = got["averageScore"]
    OBVIOUS
  <2>2. PICK q : q = Score
    OBVIOUS
  <2>3. Statements["score"] = q /\ "score" \in Kinds
    BY <2>2, KindsAre DEF Statements
  <2>4. Len(q) = 4 /\ q[2] = "avgDiscountPct" /\ q[4] = "averageScore"
    BY <2>2 DEF Score
  <2>a. \A i \in 1 .. 4 : q[i] \in DOMAIN got
    <3>1. \A i \in 1 .. Len(Statements["score"]) : Statements["score"][i] \in DOMAIN got
      BY <1>6, <2>1, <2>3
    <3> QED BY <2>3, <2>4, <3>1
  <2>5. {"avgDiscountPct", "averageScore"} \subseteq DOMAIN got
    BY <2>4, <2>a
  <2>b. /\ Stated("avgDiscountPct", got["avgDiscountPct"], since, quiet)
        /\ Stated("averageScore", got["averageScore"], since, quiet)
    BY <1>5, <2>5
  <2>6. quiet =>
          /\ got["avgDiscountPct"] = [discount |-> SavedSince(since), count |-> DealsSince(since)]
          /\ got["averageScore"] = [discount |-> SavedSince(since), count |-> DealsSince(since)]
    BY <2>b DEF Stated
  <2> QED BY <1>4, <2>5, <2>6 DEF Pairs
<1>14. report.kind = "activity" /\ quiet =>
         /\ got["completedCount"] <= got["sessionCount"]
         /\ got["activeDays"] <= got["sessionCount"]
         /\ Sum(got["topVendors"]) = got["sessionCount"]
  <2>1. SUFFICES ASSUME report.kind = "activity", quiet
                 PROVE  /\ got["completedCount"] <= got["sessionCount"]
                        /\ got["activeDays"] <= got["sessionCount"]
                        /\ Sum(got["topVendors"]) = got["sessionCount"]
    OBVIOUS
  <2>2. PICK q : q = ActivityReport
    OBVIOUS
  <2>3. Statements["activity"] = q /\ "activity" \in Kinds
    BY <2>2, KindsAre DEF Statements
  <2>4. Len(q) = 5 /\ q[1] = "sessionCount" /\ q[2] = "completedCount"
        /\ q[4] = "activeDays" /\ q[5] = "topVendors"
    BY <2>2 DEF ActivityReport
  <2>a. \A i \in 1 .. 5 : q[i] \in DOMAIN got
    <3>1. \A i \in 1 .. Len(Statements["activity"]) : Statements["activity"][i] \in DOMAIN got
      BY <1>6, <2>1, <2>3
    <3> QED BY <2>3, <2>4, <3>1
  <2>5. {"sessionCount", "completedCount", "activeDays", "topVendors"} \subseteq DOMAIN got
    BY <2>4, <2>a
  <2>b. /\ Stated("sessionCount", got["sessionCount"], since, quiet)
        /\ Stated("completedCount", got["completedCount"], since, quiet)
        /\ Stated("activeDays", got["activeDays"], since, quiet)
        /\ Stated("topVendors", got["topVendors"], since, quiet)
    BY <1>5, <2>5
  <2>6. /\ got["sessionCount"] = SessionsSince(since)
        /\ got["completedCount"] <= SessionsSince(since)
        /\ got["activeDays"] <= SessionsSince(since)
        /\ Sum(got["topVendors"]) = SessionsSince(since)
    BY <2>1, <2>b DEF Stated
  <2> QED BY <2>6
<1>15. report.kind = "chart" =>
         /\ got["summary"].best <= got["summary"].worst
         /\ Sum(got["dealsByMonth"]) <= Len(deals)
         /\ quiet => Sum(got["dealsByMonth"]) = DealsSince(since)
  <2>1. SUFFICES ASSUME report.kind = "chart"
                 PROVE  /\ got["summary"].best <= got["summary"].worst
                        /\ Sum(got["dealsByMonth"]) <= Len(deals)
                        /\ quiet => Sum(got["dealsByMonth"]) = DealsSince(since)
    OBVIOUS
  <2>2. PICK q : q = Chart
    OBVIOUS
  <2>3. Statements["chart"] = q /\ "chart" \in Kinds
    BY <2>2, KindsAre DEF Statements
  <2>4. Len(q) = 2 /\ q[1] = "dealsByMonth" /\ q[2] = "summary"
    BY <2>2 DEF Chart
  <2>a. \A i \in 1 .. 2 : q[i] \in DOMAIN got
    <3>1. \A i \in 1 .. Len(Statements["chart"]) : Statements["chart"][i] \in DOMAIN got
      BY <1>6, <2>1, <2>3
    <3> QED BY <2>3, <2>4, <3>1
  <2>5. {"dealsByMonth", "summary"} \subseteq DOMAIN got
    BY <2>4, <2>a
  <2>b. /\ Stated("dealsByMonth", got["dealsByMonth"], since, quiet)
        /\ Stated("summary", got["summary"], since, quiet)
    BY <1>5, <2>5
  <2> QED BY <2>b DEF Stated
<1>16. DealsSince(since) = Cardinality(SinceInstant(deals, report.since))
  BY <1>3 DEF DealsSince
<1> QED BY <1>1, <1>3, <1>7, <1>8, <1>9, <1>10, <1>11, <1>12, <1>13, <1>14, <1>15, <1>16
        DEF ReportsAgree

-----------------------------------------------------------------------------
(* The desks together.                                                     *)

LEMMA FirstInstant == LedgerInit => now \in Instants
<1>1. PICK T \in SUBSET Nat : T = Instants /\ T # {}
  BY LedgerAssumption
<1>2. PICK x \in T : \A y \in T : <<y, x>> \notin OpToRel(<, Nat)
  BY <1>1, NatLessThanWellFounded, WFMin
<1>3. \A y \in T : x <= y
  <2>1. \A y \in T : ~(y < x)
    BY <1>2 DEF OpToRel
  <2> QED BY <2>1
<1>4. Min(Instants) \in Instants
  BY <1>1, <1>3 DEF Min
<1> QED BY <1>4 DEF LedgerInit

\* All that the tables and the calls in progress have in common.
DesksInv ==
    /\ DealsInv /\ TablesInv
    /\ BudgetInv /\ RolloverInv
    /\ ReportInv /\ (desk # "reports" => report = NoReport)
    /\ WatchInv

LEMMA DesksInitInv == MCInit => DesksInv
<1> SUFFICES ASSUME MCInit PROVE DesksInv
  OBVIOUS
<1>1. LedgerInit /\ BudgetInit /\ ReportInit /\ WatchInit
  BY DEF MCInit
<1>2. DealsInv
  BY <1>1 DEF LedgerInit, DealsInv
<1>3. TablesInv
  <2>1. now \in Instants
    BY <1>1, FirstInstant
  <2>2. deals = <<>> /\ sessions = <<>>
    BY <1>1 DEF LedgerInit
  <2> QED BY <2>1, <2>2, LedgerAssumption DEF TablesInv
<1>4. ReportInv /\ report = NoReport
  BY <1>1 DEF ReportInit, ReportInv
<1> QED BY <1>1, <1>2, <1>3, <1>4, BudgetInitInv, RolloverInitInv, WatchInitInv DEF DesksInv

\* The budgets stay while a call works on something else.
LEMMA BudgetsKept ==
    ASSUME DealsInv, now \in Instants, BudgetInv, RolloverInv, UNCHANGED budgetVars,
           \/ UNCHANGED deals
           \/ Tick \/ \E v \in Vendors, terms \in Terms : importDeals(v, terms)
    PROVE  BudgetInv' /\ RolloverInv'
<1>1. \/ /\ Tick \/ \E v \in Vendors, terms \in Terms : importDeals(v, terms)
         /\ UNCHANGED budgetVars
      \/ UNCHANGED <<deals, budgetVars>>
  OBVIOUS
<1>2. BudgetInv'
  BY <1>1, SpendingStep
<1>3. MonthlyInv' /\ ClerkInv'
  BY <1>2 DEF BudgetInv
<1>4. UNCHANGED <<monthly, given, clerk>>
  BY DEF budgetVars
<1>5. RolloverInv'
  BY <1>3, <1>4, NextRollover
<1> QED BY <1>2, <1>5

\* What a report does to the ledger: nothing, or what another call does meanwhile.
LEMMA ReportLedger ==
    ReportNext => LedgerNext \/ UNCHANGED ledgerVars
BY DEF ReportNext, handleVendorSpend, handleBuildReport, handleWinLossAnalysis,
       handleMetrics, handleHistory, handleBenchmarkReport, handleEffectivenessScore,
       handleUserActivity, handlePriceChart, handleExportData, Start, Query, PassOver,
       Reply, ReportFails, Meanwhile

LEMMA TablesKept ==
    ASSUME DealsInv, TablesInv, UNCHANGED ledgerVars PROVE DealsInv' /\ TablesInv'
BY DEF DealsInv, TablesInv, ledgerVars

LEMMA ReportKept ==
    ASSUME ReportInv, UNCHANGED <<ledgerVars, reportVars>> PROVE ReportInv'
<1>1. CASE report = NoReport
  BY <1>1 DEF ReportInv, reportVars
<1>2. CASE report # NoReport
  <2>1. PICK r : r = report
    OBVIOUS
  <2>2. Underway(r) /\ report' = r /\ exports' = exports /\ now' = now
    BY <1>2, <2>1 DEF ReportInv, reportVars, ledgerVars
  <2>3. PICK since \in Int, quiet \in BOOLEAN : since = r.since /\ quiet = r.quiet
    BY <2>2 DEF Underway
  <2>4. PICK got : got = r.got
    OBVIOUS
  <2>5. AllStated(got, since, quiet) /\ Pairs(got, quiet)
    BY <2>2, <2>3, <2>4 DEF Underway
  <2>6. AllStated(got, since, quiet)' /\ Pairs(got, quiet)'
    BY <2>5, StillUnderway DEF Pairs
  <2>7. AllStated(r.got, r.since, r.quiet)' /\ Pairs(r.got, r.quiet)'
    BY <2>3, <2>4, <2>6
  <2>8. Underway(r)'
    BY <2>2, <2>7 DEF Underway
  <2> QED BY <2>2, <2>8 DEF ReportInv
<1> QED BY <1>1, <1>2

LEMMA TablesGrow ==
    ASSUME DealsInv, TablesInv,
           Tick \/ \E v \in Vendors, terms \in Terms : importDeals(v, terms)
    PROVE  DealsInv' /\ TablesInv'
<1>1. /\ DealsInv' /\ now' \in Instants /\ Len(deals') <= MaxDeals
      /\ \A i \in DOMAIN deals' : deals'[i].at <= now' /\ deals'[i].terms.list > 0
  BY DealsGrow
<1>2. sessions' = sessions
  BY DEF Tick, importDeals, SaveDealOutcome
<1> QED BY <1>1, <1>2 DEF TablesInv

\* What a step of a report does to the tables and to the report.
LEMMA ReportStep ==
    ASSUME DealsInv, TablesInv, ReportInv, ReportNext
    PROVE  DealsInv' /\ TablesInv' /\ ReportInv'
<1>1. Numbers
  BY DEF Numbers
<1>2. ASSUME NEW k \in Kinds, Start(k) PROVE ReportInv' /\ UNCHANGED ledgerVars
  BY <1>1, <1>2, AfterStart DEF Start
<1>3. Query => ReportInv' /\ UNCHANGED ledgerVars
  BY <1>1, AfterAnswer DEF Query
<1>4. PassOver => ReportInv' /\ UNCHANGED ledgerVars
  BY AfterPass DEF PassOver
<1>5. Reply => ReportInv' /\ UNCHANGED ledgerVars
  BY AfterReply DEF Reply
<1>6. ReportFails => ReportInv' /\ UNCHANGED ledgerVars
  BY AfterFailure DEF ReportFails
<1>7. CASE Meanwhile
  <2>1. ReportInv'
    BY <1>1, <1>7, AfterMeanwhile
  <2>2. Numbers'
    BY <1>1, <1>7, AfterWrite DEF Meanwhile
  <2> QED BY <2>1, <2>2 DEF Numbers
<1>8. ReportNext => (\E k \in Kinds : Start(k)) \/ Query \/ PassOver \/ Reply \/ ReportFails
                      \/ Meanwhile
  BY KindsAre DEF ReportNext, handleVendorSpend, handleBuildReport, handleWinLossAnalysis,
     handleMetrics, handleHistory, handleBenchmarkReport, handleEffectivenessScore,
     handleUserActivity, handlePriceChart, handleExportData
<1>9. ReportInv' /\ UNCHANGED ledgerVars => DealsInv' /\ TablesInv' /\ ReportInv'
  BY TablesKept
<1> QED BY <1>2, <1>3, <1>4, <1>5, <1>6, <1>7, <1>8, <1>9

LEMMA DesksStepInv ==
    DesksInv /\ [DesksNext]_<<desk, ledgerVars, budgetVars, reportVars, watchVars>> => DesksInv'
<1> SUFFICES ASSUME DesksInv,
                    [DesksNext]_<<desk, ledgerVars, budgetVars, reportVars, watchVars>>
             PROVE  DesksInv'
  OBVIOUS
<1> USE DEF DesksInv
<1>1. ASSUME Spending(RolloverNext) \/ Spending(AlertNext) \/ Spending(CapNext)
                \/ Spending(CostNext),
             desk # "reports", desk' = desk
      PROVE  DesksInv'
  <2>1. UNCHANGED watchVars /\ UNCHANGED reportVars
    BY <1>1 DEF Spending
  <2>2. \/ RolloverNext /\ UNCHANGED ledgerVars
        \/ AlertNext /\ UNCHANGED ledgerVars
        \/ (CapNext \/ CostNext) /\ UNCHANGED ledgerVars
        \/ /\ Tick \/ \E v \in Vendors, terms \in Terms : importDeals(v, terms)
           /\ UNCHANGED budgetVars
    BY <1>1 DEF Spending
  <2>3. now \in Instants
    BY DEF TablesInv
  <2>4. DealsInv' /\ BudgetInv'
    BY <2>2, <2>3, SpendingStep
  <2>5. MonthlyInv' /\ ClerkInv'
    BY <2>4 DEF BudgetInv
  <2>6. RolloverNext \/ AlertNext \/ UNCHANGED <<monthly, given, clerk>>
    BY <2>2 DEF budgetVars, CapNext, CostNext, handleSetSpendingCap, handleDeleteSpendingCap,
                handleSetAllocation
  <2>7. RolloverInv'
    BY <2>5, <2>6, NextRollover
  <2>8. WatchInv'
    BY <2>1, NextWatchInv
  <2>9. TablesInv'
    BY <2>2, TablesKept, TablesGrow
  <2>10. ReportInv' /\ report' = NoReport
    BY <1>1, <2>1 DEF ReportInv, reportVars
  <2> QED BY <2>4, <2>7, <2>8, <2>9, <2>10
<1>2. ASSUME ReportNext, UNCHANGED <<budgetVars, watchVars>>, desk = "reports", desk' = desk
      PROVE  DesksInv'
  <2>1. DealsInv' /\ TablesInv' /\ ReportInv'
    BY <1>2, ReportStep
  <2>2. LedgerNext \/ UNCHANGED ledgerVars
    BY <1>2, ReportLedger
  <2>3. \/ UNCHANGED deals
        \/ Tick \/ \E v \in Vendors, terms \in Terms : importDeals(v, terms)
    BY <2>2 DEF LedgerNext, SaveSession, BatchItem, UpdateSession, ledgerVars
  <2>4. now \in Instants
    BY DEF TablesInv
  <2>5. BudgetInv' /\ RolloverInv'
    BY <1>2, <2>3, <2>4, BudgetsKept
  <2>6. WatchInv'
    BY <1>2, NextWatchInv
  <2> QED BY <1>2, <2>1, <2>5, <2>6
<1>3. ASSUME WatchNext \/ UNCHANGED watchVars,
             UNCHANGED <<desk, ledgerVars, budgetVars, reportVars>>
      PROVE  DesksInv'
  <2>1. DealsInv' /\ TablesInv' /\ ReportInv'
    BY <1>3, TablesKept, ReportKept
  <2>2. now \in Instants /\ UNCHANGED deals
    BY <1>3 DEF TablesInv, ledgerVars
  <2>3. BudgetInv' /\ RolloverInv'
    BY <1>3, <2>2, BudgetsKept
  <2>4. WatchInv'
    BY <1>3, NextWatchInv
  <2>5. (desk # "reports" => report = NoReport)'
    BY <1>3 DEF reportVars
  <2> QED BY <2>1, <2>3, <2>4, <2>5
<1> QED BY <1>1, <1>2, <1>3 DEF DesksNext

-----------------------------------------------------------------------------
(* The theorems.                                                           *)

LEMMA TypesHold == DesksInv => MCTypeOK
<1> SUFFICES ASSUME DesksInv PROVE MCTypeOK
  OBVIOUS
<1> USE DEF DesksInv
<1>1. LedgerTypeOK
  BY DEF LedgerTypeOK, TablesInv, DealsInv
<1>2. BudgetTypeOK
  <2>1. \A row \in MonthlyRow : /\ row.amount \in Nat \cup {-1} /\ row.rolled \in Nat
                                /\ row.amount = -1 => row = NoBudget
    BY DEF MonthlyRow, NoBudget
  <2>2. \A v \in Vendors, m \in Months : monthly[v][m] \in MonthlyRow
    BY DEF BudgetInv, MonthlyInv
  <2>3. \A v \in Vendors : /\ budgets[v] \in Amounts \cup {-1}
                           /\ caps[v].period \in Periods \cup {"none"}
    <3>1. ASSUME NEW v \in Vendors
          PROVE  budgets[v] \in Amounts \cup {-1} /\ caps[v].period \in Periods \cup {"none"}
      <4>1. PICK cap : cap = caps[v]
        OBVIOUS
      <4>2. cap \in [soft : Amounts \cup {0}, hard : Amounts \cup {0},
                     period : Periods \cup {"none"}]
        BY <4>1 DEF BudgetInv, RowsInv
      <4> QED BY <4>1, <4>2 DEF BudgetInv, RowsInv
    <3> QED BY <3>1
  <2>4. \A a \in alertLog : a.level \in {"critical", "warning", "info"}
    BY DEF BudgetInv, LogInv, LogRow
  <2>5. \A c \in Clerks : clerk[c].pc \in {"idle", "spend", "destination", "create", "mark",
                                           "add", "check", "save"}
    <3>1. \A call \in ClerkCall : call.pc \in Moving \cup {"idle", "check", "save"}
      BY DEF ClerkCall
    <3>2. \A c \in Clerks : clerk[c] \in ClerkCall
      BY DEF BudgetInv, ClerkInv
    <3> QED BY <3>1, <3>2 DEF Moving
  <2> QED BY <2>1, <2>2, <2>3, <2>4, <2>5 DEF BudgetTypeOK
<1>3. ReportTypeOK
  <2>1. CASE report = NoReport
    BY <2>1 DEF ReportTypeOK, ReportInv, NoReport, Computing
  <2>2. CASE report # NoReport
    BY <2>2 DEF ReportTypeOK, ReportInv, Computing, Underway
  <2> QED BY <2>1, <2>2
<1>4. WatchTypeOK
  <2>1. snapshots \subseteq Snapshot
    BY DEF WatchInv, SnapshotInv
  <2>2. /\ \A p \in Products : listPrice[p] \in ListPrices \cup {0}
        /\ \A x \in Subjects : baselines[x] \in Nat
    BY DEF WatchInv, SnapshotInv, BaselineInv
  <2>3. \A x \in Subjects : rules[x].threshold \in {0, 10} \cup Thresholds
    <3>1. \A row \in [threshold : {0, 10} \cup Thresholds] :
             row.threshold \in {0, 10} \cup Thresholds
      OBVIOUS
    <3>2. \A x \in Subjects : rules[x] \in [threshold : {0, 10} \cup Thresholds]
      BY DEF WatchInv, BaselineInv
    <3> QED BY <3>1, <3>2
  <2>4. \A w \in Watchers : watcher[w].pc \in WatchStages
    <3>1. \A call \in WatchCall : call.pc \in WatchStages
      BY DEF WatchCall
    <3>2. \A w \in Watchers : watcher[w] \in WatchCall
      BY DEF WatchInv, WatcherInv
    <3> QED BY <3>1, <3>2
  <2> QED BY <2>1, <2>2, <2>3, <2>4 DEF WatchTypeOK, WatchStages
<1> QED BY <1>1, <1>2, <1>3, <1>4 DEF MCTypeOK

\* The bounds of the runs only leave steps out, so what follows holds of MCSpec.
LEMMA BoundsLeaveOut == MCSpec => DesksSpec
<1>1. [MCNext]_<<desk, ledgerVars, budgetVars, reportVars, watchVars>> =>
         [DesksNext]_<<desk, ledgerVars, budgetVars, reportVars, watchVars>>
  BY DEF MCNext
<1> QED BY <1>1, PTL DEF MCSpec, DesksSpec

\* The tables of the money side, and what a call on them holds while it is
\* served, are of their types: rows of the ledger, budgets, caps and shares,
\* snapshots and baselines, and the report being computed.
THEOREM TypesHoldAlways == DesksSpec => []MCTypeOK
BY TypesHold, DesksInitInv, DesksStepInv, PTL DEF DesksSpec

\* An alert on a price reports a fall from one snapshot its rule is about to
\* another that is not older, of the same product if the rule names one, for
\* any overlap of refreshes, checks and restarts with a seed file of any rows;
\* between two refreshed ones a fall of six percent or more is never the random
\* variation alone above 5.17.  And an alert on a budget reports an amount that
\* the deals of its vendor had come to.
THEOREM AlertsAreRealAlways == DesksSpec => []AlertsAreReal
<1>1. DesksInv => AlertsAreReal
  BY LogReal, PricesReal DEF DesksInv, AlertsAreReal
<1> QED BY <1>1, DesksInitInv, DesksStepInv, PTL DEF DesksSpec

\* The books agree: money in the monthly budgets is what was set for them or
\* is on record as rolled over, whichever rollovers overlap or fail half way;
\* forecast, dashboard, caps and allocation of costs state the spending of the
\* same deals, but for the cents that their different roundings may add; and the
\* statements of a report that others write into never
\* state less than the ones before them, and state the same if nobody does.
THEOREM BooksAgreeAlways == DesksSpec => []BooksAgree
<1>1. DesksInv => RolloverIsRecorded
  BY RolloverRecorded DEF DesksInv
<1>2. DesksInv => SpendingAgrees
  <2>1. DesksInv => now \in Nat
    BY LedgerAssumption DEF DesksInv, TablesInv
  <2> QED BY <2>1, SpendingSound DEF DesksInv
<1>3. DesksInv => ReportsAgree
  <2>1. CASE Complete
    BY <2>1, ReportsAgreeNow DEF DesksInv, Numbers
  <2>2. CASE ~Complete
    BY <2>2 DEF ReportsAgree
  <2> QED BY <2>1, <2>2
<1>4. DesksInv => BooksAgree
  BY <1>1, <1>2, <1>3 DEF BooksAgree
<1> QED BY <1>4, DesksInitInv, DesksStepInv, PTL DEF DesksSpec

\* On a database in a file every refresh_pricing replies that it has saved no
\* trend data point, whatever it is asked for and whichever calls overlap: the
\* run that refutes RefreshSavesAll shows one refresh of one product, this says
\* that it is so for all of them (Refresh, pricingrefresh/engine.go).
THEOREM FileRefreshSavesNoneAlways == DesksSpec => []FileRefreshSavesNone
<1>1. MCInit => NoneCounted
  BY DEF MCInit, WatchInit, NoneCounted, Looking
<1>2. NoneCounted => FileRefreshSavesNone
  BY DEF NoneCounted, FileRefreshSavesNone
<1>3. /\ DesksInv /\ NoneCounted
      /\ [DesksNext]_<<desk, ledgerVars, budgetVars, reportVars, watchVars>>
      => NoneCounted'
  BY WatchStepOfDesks, NextNoneCounted DEF DesksInv
<1> QED BY <1>1, <1>2, <1>3, DesksInitInv, DesksStepInv, PTL DEF DesksSpec
=============================================================================
