----------------------------- MODULE PriceWatch -----------------------------
(***************************************************************************)
(* Prices over time: the list prices (internal/pricing, written by         *)
(* internal/dataimport), the snapshots taken of them                       *)
(* (internal/pricingrefresh, internal/trends) and the alerts on them       *)
(* (internal/pricealerts).                                                 *)
(*                                                                         *)
(* Enabling an alert writes its rule, reads the latest price and records   *)
(* it as the baseline; a check lists the rules and then reads, rule by     *)
(* rule, the baseline and the latest price; a refresh lists the products   *)
(* and saves a snapshot of one after the other.  Calls interleave between  *)
(* these statements.  A start with a seed file (cmd/server) adds its rows  *)
(* as snapshots of any price and date, and a restart does it again.        *)
(*                                                                         *)
(* An alert names a product or, without a SKU, only a seller: then it is   *)
(* about the snapshots of all the products of that seller.                 *)
(*                                                                         *)
(* A refresh saves while the query it reads its rows from is still open.   *)
(* SQLite is external: in the shared memory of the tests the two touch     *)
(* different tables and do not meet, in the file of the server a commit    *)
(* waits for every reader, and this one waits for the commit.              *)
(*                                                                         *)
(* A product is a vendor's SKU, and the day stands for the date of a       *)
(* snapshot; snapshots of one date come in no known order.  Rows that are  *)
(* equal are one row here, since nothing in this module counts them.       *)
(***************************************************************************)
EXTENDS Integers, FiniteSets

CONSTANTS
    Products,        \* vendor and SKU
    Sellers,         \* vendors of them
    SellerOf,        \* the vendor of each product
    SeedFiles,       \* seed files, as the rows seedSnapshotsFromCSV takes of them
    ListPrices,      \* list prices, in cents
    Thresholds,      \* drops asked for, in percent; 0 stands for "none given"
    Watchers,        \* goroutines that serve calls
    Variations,      \* changes a refresh makes to a price, in 1/100 of a percent
    LastDay,         \* bound: the days 0 .. LastDay
    MaxSnapshots     \* bound: snapshots saved by refreshes

ASSUME PriceWatchAssumption ==
    /\ ListPrices \subseteq Nat \ {0} /\ Thresholds \subseteq Nat
    /\ \A change \in Variations : change \in Int /\ -300 <= change /\ change <= 300
    /\ LastDay \in Nat /\ IsFiniteSet(Products)
    /\ SellerOf \in [Products -> Sellers] /\ Products \cap Sellers = {}
    /\ \A file \in SeedFiles :
          file \subseteq [product : Products, price : Int, list : Int, day : Int]

VARIABLES
    inFile,          \* the database is a file, as in cmd/server
    day,
    listPrice,       \* table pricing_snapshot, 0 for no row
    snapshots,       \* table price_snapshots
    rules,           \* table price_alerts, by what the rule is about
    baselines,       \* table price_baselines, 0 for no row
    watcher          \* what each goroutine is doing

watchVars == <<inFile, day, listPrice, snapshots, rules, baselines, watcher>>

NoRule == [threshold |-> 0]
Snapshot == [product : Products, price : Int, list : Int, day : Int]

\* What a rule is about: a product or, without a SKU, a seller.
Subjects == Products \cup Sellers

\* The rows that have come from a seed file.
Seeded == UNION SeedFiles

Looking == [pc |-> "idle", todo |-> {}, base |-> 0, count |-> 0]

WatchInit ==
    /\ inFile \in BOOLEAN
    /\ day = 0
    /\ listPrice = [p \in Products |-> 0]
    /\ snapshots \in SeedFiles \cup {{}}
    /\ rules = [x \in Subjects |-> NoRule]
    /\ baselines = [x \in Subjects |-> 0]
    /\ watcher = [w \in Watchers |-> Looking]

NextDay ==
    /\ day < LastDay
    /\ day' = day + 1
    /\ UNCHANGED <<inFile, listPrice, snapshots, rules, baselines, watcher>>

\* parsePricingJSON keeps the records with a price above zero.
ValidPrice(list) == list > 0

\* importPricing: each record is an upsert of its own.
importPricing(p, list) ==
    /\ ValidPrice(list)
    /\ listPrice' = [listPrice EXCEPT ![p] = list]
    /\ UNCHANGED <<inFile, day, snapshots, rules, baselines, watcher>>

SaveSnapshot(p, price) ==
    /\ Cardinality(snapshots \ Seeded) < MaxSnapshots
    /\ snapshots' = snapshots \cup
          {[product |-> p, price |-> price, list |-> listPrice[p], day |-> day]}

\* Refresh up to its loop: the products that have a list price.
Refresh(w, asked) ==
    LET todo == {p \in asked : listPrice[p] > 0} IN
    /\ watcher[w] = Looking
    /\ todo # {}
    /\ watcher' = [watcher EXCEPT ![w] = [pc |-> "refresh", todo |-> todo,
                                          base |-> Cardinality(todo), count |-> 0]]
    /\ UNCHANGED <<inFile, day, listPrice, snapshots, rules, baselines>>

\* A snapshot is within three percent of the list price, rounded to the cent.
Varied(list, change) == (list * (10000 + change) + 5000) \div 10000

Refreshed(w, p, saved) ==
    watcher' = [watcher EXCEPT ![w].todo = @ \ {p},
                               ![w].count = IF saved THEN @ + 1 ELSE @]

\* One row of the loop; a Save that fails is logged and passed over.
SaveRow(w) ==
    /\ watcher[w].pc = "refresh"
    /\ \E p \in watcher[w].todo :
          \/ /\ ~inFile
             /\ \E change \in Variations : SaveSnapshot(p, Varied(listPrice[p], change))
             /\ Refreshed(w, p, TRUE)
          \/ inFile /\ Refreshed(w, p, FALSE) /\ UNCHANGED snapshots
    /\ UNCHANGED <<inFile, day, listPrice, rules, baselines>>

\* refresh_pricing replies how many rows it has saved, its count.
Replies(w) == watcher[w].pc = "refresh" /\ watcher[w].todo = {}

handleRefreshPricing(w) ==
    /\ Replies(w)
    /\ watcher' = [watcher EXCEPT ![w] = Looking]
    /\ UNCHANGED <<inFile, day, listPrice, snapshots, rules, baselines>>

\* A restart with a seed file inserts all of its rows in one transaction, as
\* the first start has done, whatever the table holds; the error is logged.
\* The calls under way are lost.
seedSnapshots(file) ==
    /\ inFile
    /\ snapshots' \in {snapshots, snapshots \cup file}
    /\ watcher' = [w \in Watchers |-> Looking]
    /\ UNCHANGED <<inFile, day, listPrice, rules, baselines>>

\* The snapshots of what a rule is about: the SKU is left out of the query when
\* the rule names none.
About(x) == {s \in snapshots : x \in {s.product, SellerOf[s.product]}}

\* Mutated: without ORDER BY date.
GetLatestOfAnyDay(x) ==
    IF About(x) = {} THEN {0} ELSE {s.price : s \in About(x)}

\* GetLatest: the price of a snapshot of the last date, 0 if there is none.
\* The query leaves open which one, so it is a set.
GetLatest(x) ==
    IF About(x) = {} THEN {0}
    ELSE {s.price : s \in {r \in About(x) : \A q \in About(x) : r.day >= q.day}}

SetRule(x, threshold) == rules' = [rules EXCEPT ![x] = [threshold |-> threshold]]

\* EnableAlert writes the rule; without a threshold it is 10 percent.
EnableAlert(w, x, threshold) ==
    /\ watcher[w] = Looking
    /\ SetRule(x, IF threshold <= 0 THEN 10 ELSE threshold)
    /\ watcher' = [watcher EXCEPT ![w] = [Looking EXCEPT !.pc = "price",
                                                         !.todo = {x}]]
    /\ UNCHANGED <<inFile, day, listPrice, snapshots, baselines>>

\* It reads the latest price; without one above zero there is no baseline to
\* record.
ReadPrice(w) ==
    /\ watcher[w].pc = "price"
    /\ \E x \in watcher[w].todo : \E price \in GetLatest(x) :
          watcher' = [watcher EXCEPT ![w] =
                        IF price <= 0 THEN Looking
                        ELSE [@ EXCEPT !.pc = "baseline", !.base = price]]
    /\ UNCHANGED <<inFile, day, listPrice, snapshots, rules, baselines>>

SetBaseline(x, price) == baselines' = [baselines EXCEPT ![x] = price]

\* The reply follows the baseline, whose error is only logged.
handleEnablePriceAlert(w) ==
    /\ watcher[w].pc = "baseline"
    /\ \/ \E x \in watcher[w].todo : SetBaseline(x, watcher[w].base)
       \/ UNCHANGED baselines
    /\ watcher' = [watcher EXCEPT ![w] = Looking]
    /\ UNCHANGED <<inFile, day, listPrice, snapshots, rules>>

\* DisableAlert deletes the rule and leaves the baseline.
DisableAlert(x) ==
    /\ rules' = [rules EXCEPT ![x] = NoRule]
    /\ UNCHANGED <<inFile, day, listPrice, snapshots, baselines, watcher>>

handleDisablePriceAlert == \E x \in Subjects : DisableAlert(x)

\* ListRules, with the thresholds as they are now.
ListRules == {[about |-> x, threshold |-> rules[x].threshold] :
                 x \in {y \in Subjects : rules[y] # NoRule}}

CheckAlerts(w) ==
    /\ watcher[w] = Looking /\ ListRules # {}
    /\ watcher' = [watcher EXCEPT ![w] = [Looking EXCEPT !.pc = "check",
                                                         !.todo = ListRules]]
    /\ UNCHANGED <<inFile, day, listPrice, snapshots, rules, baselines>>

\* evaluateRule reads the baseline of a rule and then, in EvaluateRule, the
\* price.  The order of the rules does not matter, nor does a check that
\* stops after any of them.
GetBaseline(w) ==
    /\ watcher[w].pc = "check"
    /\ \E rule \in watcher[w].todo :
          watcher' = [watcher EXCEPT ![w].pc = "compare", ![w].todo = {rule},
                                     ![w].base = baselines[rule.about]]
    /\ UNCHANGED <<inFile, day, listPrice, snapshots, rules, baselines>>

\* The drop is at least the threshold's share of the baseline.
DropMet(base, price, threshold) ==
    base > 0 /\ price > 0 /\ 100 * (base - price) >= threshold * base

\* The result of a check, for each price the query may return.
Results(w) ==
    {[rule |-> rule, base |-> watcher[w].base, price |-> price,
      met |-> DropMet(watcher[w].base, price, rule.threshold)] :
        rule \in watcher[w].todo,
        price \in UNION {GetLatest(r.about) : r \in watcher[w].todo}}

EvaluateRule(w) ==
    /\ watcher[w].pc = "compare"
    /\ watcher' = [watcher EXCEPT ![w] = Looking]
    /\ UNCHANGED <<inFile, day, listPrice, snapshots, rules, baselines>>

WatchNext ==
    \/ NextDay
    \/ \E p \in Products, list \in ListPrices : importPricing(p, list)
    \/ \E file \in SeedFiles \cup {{}} : seedSnapshots(file)
    \/ handleDisablePriceAlert
    \/ \E w \in Watchers :
          \/ \E asked \in (SUBSET Products) \ {{}} : Refresh(w, asked)
          \/ SaveRow(w)
          \/ handleRefreshPricing(w)
          \/ \E x \in Subjects, threshold \in Thresholds : EnableAlert(w, x, threshold)
          \/ ReadPrice(w)
          \/ handleEnablePriceAlert(w)
          \/ CheckAlerts(w)
          \/ GetBaseline(w)
          \/ EvaluateRule(w)

WatchSpec == WatchInit /\ [][WatchNext]_watchVars

-----------------------------------------------------------------------------

WatchTypeOK ==
    /\ snapshots \subseteq Snapshot
    /\ \A p \in Products : listPrice[p] \in ListPrices \cup {0}
    /\ \A x \in Subjects : /\ rules[x].threshold \in {0, 10} \cup Thresholds
                           /\ baselines[x] \in Nat
    /\ \A w \in Watchers :
          watcher[w].pc \in {"idle", "refresh", "price", "baseline", "check",
                             "compare"}

(***************************************************************************)
(* An alert reports a fall that took place: the baseline and the price it  *)
(* compares are of snapshots its rule is about, of one product if it names *)
(* one, and the second was not taken on an earlier day, whichever calls    *)
(* and restarts overlap.  And the random variation of a refresh alone      *)
(* raises none of six percent or more: unless one of the two was seeded,   *)
(* the list price of the second is the lower one (of a rule without a SKU  *)
(* it may be the list price of another product), or so small, at most      *)
(* 5.17, that what rounding to the cent adds to the variation makes up for *)
(* the difference.                                                         *)
(***************************************************************************)
PriceAlertsAreReal ==
    \A w \in Watchers : watcher[w].pc = "compare" =>
      \A r \in Results(w) : r.met =>
        \E s, t \in About(r.rule.about) :
            /\ s.price = r.base /\ t.price = r.price
            /\ s.day <= t.day
            /\ r.rule.about \in Products => s.product = t.product
            /\ 100 * t.price <= (100 - r.rule.threshold) * s.price
            /\ r.rule.threshold >= 6 /\ {s, t} \cap Seeded = {} =>
                  t.list < s.list \/ t.list <= 517

(***************************************************************************)
(* "Creates new trend data points", as the tool says of a refresh: it has  *)
(* saved one for every price it found.                                     *)
(***************************************************************************)
RefreshSavesAll ==
    \A w \in Watchers : Replies(w) => watcher[w].count = watcher[w].base
=============================================================================
