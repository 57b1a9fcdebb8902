------------------------------ MODULE MCLedger ------------------------------
(***************************************************************************)
(* The money side: prices and their alerts, budgets, and reports.  Prices  *)
(* share nothing with the other two, which are computed from one ledger    *)
(* and write different tables, so an initial state says what a behaviour   *)
(* is about.                                                               *)
(*                                                                         *)
(* The instants are a morning and an afternoon, then thirty days after the *)
(* afternoon, so that a period of thirty days cuts a day in two, and then  *)
(* thirty days more, which is the next quarter.  They are in the eighth to *)
(* the tenth month of their year.  One deal is cheaper than its list       *)
(* price, one dearer, and one has no price; the sums of two of them stand  *)
(* below, between and above the steps of the alerts on a budget of 95, and *)
(* one is the budget itself, whose projection is rounded up.               *)
(*                                                                         *)
(* Two products are of one seller and a third, with the lowest price, of   *)
(* another.  Of the seed files one has two prices of a day that are far    *)
(* apart, the other a price of zero and a later one that is six percent    *)
(* lower at the same list price.                                           *)
(***************************************************************************)
EXTENDS Budgets, Reports, PriceWatch, TLC

CONSTANTS v1, v2, p1, p2, p3, e1, e2, c1, c2, w1, w2, dp1, dp2

VARIABLE desk        \* what this behaviour is about

MCTerms == {[list |-> 160, final |-> 85, seats |-> 2],
            [list |-> 8, final |-> 10, seats |-> 1],
            [list |-> 8, final |-> 0, seats |-> 1]}
MCInstants == {1860, 1861, 1921, 1981}
MCVariations == {-300, 300}
MCSellerOf == [p \in {p1, p2, p3} |-> IF p = p3 THEN e2 ELSE e1]
MCSeedFiles ==
    {{[product |-> p1, price |-> 1000, list |-> 1000, day |-> 0],
      [product |-> p2, price |-> 600, list |-> 1000, day |-> 0],
      [product |-> p3, price |-> 100, list |-> 100, day |-> 1]},
     {[product |-> p2, price |-> 0, list |-> 1000, day |-> 0],
      [product |-> p1, price |-> 940, list |-> 1000, day |-> 1]}}

MCSymmetry == Permutations({v1, v2}) \cup Permutations({c1, c2})
              \cup Permutations({w1, w2})

MCInit == /\ LedgerInit /\ BudgetInit /\ ReportInit /\ WatchInit
          /\ desk \in {"rollover", "alerts", "caps", "costs", "reports", "prices"}
          /\ desk # "prices" => inFile /\ snapshots = {}

\* What the calls on budgets work on: deals arrive and time passes.
Spending(Next) ==
    /\ \/ Next /\ UNCHANGED ledgerVars
       \/ /\ Tick \/ \E v \in Vendors, terms \in Terms : importDeals(v, terms)
          /\ UNCHANGED budgetVars
    /\ UNCHANGED <<reportVars, watchVars>>

\* A step at the desk, without the bounds below.
DesksNext ==
    /\ UNCHANGED desk
    /\ \/ desk = "rollover" /\ Spending(RolloverNext)
       \/ desk = "alerts" /\ Spending(AlertNext)
       \/ desk = "caps" /\ Spending(CapNext)
       \/ desk = "costs" /\ Spending(CostNext)
       \/ /\ desk = "reports" /\ ReportNext
          /\ UNCHANGED <<budgetVars, watchVars>>
       \/ /\ desk = "prices" /\ WatchNext
          /\ UNCHANGED <<ledgerVars, budgetVars, reportVars>>

DesksSpec == MCInit /\ [][DesksNext]_<<desk, ledgerVars, budgetVars, reportVars, watchVars>>

\* The call a watcher serves.
Call(w) == CASE watcher[w].pc \in {"price", "baseline"} -> "enable"
             [] watcher[w].pc \in {"check", "compare"} -> "check"
             [] OTHER -> watcher[w].pc

\* The bounds that differ between the desks: rollovers from a month to another
\* for one of the vendors, with one deal, or two when no call is under way, and
\* all at one time; caps for one of the vendors; a report of two rows and two
\* months, with one failed query, that begins after the first instant, and none
\* after an export; one alert, on the first product or its seller, watchers that
\* serve different calls, with two list prices no more than one day and one call
\* at a time, and with rows of a seed file no more than one refreshed.
MCBound ==
    CASE desk = "rollover" ->
            /\ Cardinality({v \in Vendors : \E m \in Months :
                                monthly[v][m] # NoBudget}) <= 1
            /\ Len(deals) <= 1 \/ \A c \in Clerks : clerk[c] = AtRest
            /\ now = Min(Instants)
            /\ \A c \in Clerks : clerk[c] = AtRest \/ clerk[c].from # clerk[c].to
      [] desk = "caps" -> Cardinality(ListCaps) <= 1
      [] desk = "reports" ->
            /\ Len(deals) + Len(sessions) <= 2 /\ now < Max(Instants)
            /\ exports = {} \/ ~Computing
            /\ Computing => /\ report.step <= Cardinality(DOMAIN report.got) + 2
                            /\ report.since > Min(Instants) - Period
      [] desk = "prices" ->
            /\ \E x \in {p1, e1} : \A y \in Subjects \ {x} :
                  rules[y] = NoRule /\ baselines[y] = 0
            /\ \A w, x \in Watchers : w # x => Call(w) # Call(x) \/ Call(w) = "idle"
            /\ \/ Cardinality({p \in Products : listPrice[p] > 0}) <= 1
               \/ day = 0 /\ Cardinality({w \in Watchers : watcher[w] # Looking}) <= 1
            /\ snapshots \cap Seeded = {} \/ Cardinality(snapshots \ Seeded) <= 1
      [] OTHER -> TRUE

MCNext == DesksNext /\ MCBound'

MCSpec == MCInit /\ [][MCNext]_<<desk, ledgerVars, budgetVars, reportVars, watchVars>>

\* The types of all the tables and what a call may hold on to.
MCTypeOK == LedgerTypeOK /\ BudgetTypeOK /\ ReportTypeOK /\ WatchTypeOK

\* What the two kinds of alerts say is so.
AlertsAreReal == PriceAlertsAreReal /\ BudgetAlertsAreReal

\* What is computed from the ledger, by different packages and at different
\* moments, is compatible.
BooksAgree == RolloverIsRecorded /\ SpendingAgrees /\ ReportsAgree
=============================================================================
