------------------------------ MODULE Budgets ------------------------------
(***************************************************************************)
(* Budgets and what is spent of them: a budget per vendor                  *)
(* (internal/budget) with its alerts (internal/budgetalerts), a budget per *)
(* vendor and month with the rollover of what is left                      *)
(* (internal/budgetmgmt), caps on spending (internal/spendingcaps) and the *)
(* share of each department (internal/costallocation).                     *)
(*                                                                         *)
(* Rollover is up to six statements and a check of the budgets two for     *)
(* each vendor, with other calls and new deals between any two of them.    *)
(* Any statement may fail, and the call then ends with what it has written *)
(* so far.  Spending is summed over deal_outcomes each time it is needed.  *)
(***************************************************************************)
EXTENDS Ledger

CONSTANTS
    Months,          \* months with a budget
    Amounts,         \* budgets
    Departments,
    Percents,        \* shares of a department
    Periods,         \* of caps
    Clerks,          \* goroutines that serve calls
    NoVendor,
    MaxRolled        \* bound: no more is rolled over once a vendor has this much

ASSUME BudgetAssumption ==
    /\ Months \subseteq Nat /\ Amounts \subseteq Nat /\ Percents \subseteq Nat
    /\ MaxRolled \in Nat
    /\ \A S \in {Months, Departments, Clerks} : IsFiniteSet(S)

VARIABLES
    monthly,         \* table monthly_budgets
    given,           \* the amount last set for a month (history variable)
    budgets,         \* table spend_budgets, -1 for no row
    alertLog,        \* table budget_alert_history
    caps,            \* table spending_caps
    shares,          \* table cost_allocations, -1 for no row
    clerk            \* what each goroutine is doing

budgetVars == <<monthly, given, budgets, alertLog, caps, shares, clerk>>

NoBudget == [amount |-> -1, rolled |-> 0]
NoCap == [soft |-> 0, hard |-> 0, period |-> "none"]

\* The item is the budget a call is about, with an amount of it.
AtRest == [pc |-> "idle", item |-> [vendor |-> NoVendor, amount |-> 0],
           from |-> 0, to |-> 0, actual |-> 0, todo |-> {}]

BudgetInit ==
    /\ monthly = [v \in Vendors |-> [m \in Months |-> NoBudget]]
    /\ given = [v \in Vendors |-> [m \in Months |-> 0]]
    /\ budgets = [v \in Vendors |-> -1]
    /\ alertLog = {}
    /\ caps = [v \in Vendors |-> NoCap]
    /\ shares = [v \in Vendors |-> [d \in Departments |-> -1]]
    /\ clerk = [c \in Clerks |-> AtRest]

-----------------------------------------------------------------------------
(***************************************************************************)
(* Monthly budgets and their rollover.                                     *)
(***************************************************************************)

\* An upsert: the amount is replaced, what was rolled over is kept.
SetMonthlyBudget(v, m, amount) ==
    /\ monthly' = [monthly EXCEPT ![v][m].amount = amount]
    /\ given' = [given EXCEPT ![v][m] = amount]

handleSetMonthlyBudget(v, m, amount) ==
    /\ SetMonthlyBudget(v, m, amount)
    /\ UNCHANGED <<budgets, alertLog, caps, shares, clerk>>

vendorMonthSpend(v, m) == Spend(InMonth(deals, OfVendor(deals, DOMAIN deals, v), m))

\* Rollover reads the budget of the month it takes from.
GetSource(c, v, from, to) ==
    /\ clerk[c] = AtRest
    /\ monthly[v][from] # NoBudget
    /\ clerk' = [clerk EXCEPT ![c] = [AtRest EXCEPT
          !.pc = "spend", !.from = from, !.to = to,
          !.item = [vendor |-> v, amount |-> monthly[v][from].amount]]]
    /\ UNCHANGED <<monthly, given, budgets, alertLog, caps, shares>>

VendorOf(c) == clerk[c].item.vendor
UnusedOf(c) == clerk[c].item.amount

\* What is left is what it was minus what was spent.  When the sum of the
\* deals cannot be read, the column "spent" stands in for it, and nothing
\* ever writes that column.
ReadSpend(c) ==
    /\ clerk[c].pc = "spend"
    /\ \E actual \in {vendorMonthSpend(VendorOf(c), clerk[c].from), 0} :
          LET unused == clerk[c].item.amount - actual
          IN  clerk' = [clerk EXCEPT ![c] =
                          IF unused <= 0 THEN AtRest
                          ELSE [@ EXCEPT !.pc = "destination",
                                         !.item.amount = unused]]
    /\ UNCHANGED <<monthly, given, budgets, alertLog, caps, shares>>

GetDestination(c) ==
    /\ clerk[c].pc = "destination"
    /\ clerk' = [clerk EXCEPT ![c].pc =
          IF monthly[VendorOf(c)][clerk[c].to] = NoBudget THEN "create" ELSE "mark"]
    /\ UNCHANGED <<monthly, given, budgets, alertLog, caps, shares>>

\* The same upsert that sets a budget, with zero.
CreateDestination(c) ==
    /\ clerk[c].pc = "create"
    /\ SetMonthlyBudget(VendorOf(c), clerk[c].to, 0)
    /\ clerk' = [clerk EXCEPT ![c].pc = "mark"]
    /\ UNCHANGED <<budgets, alertLog, caps, shares>>

RolledOf(v) == MapThenSumSet(LAMBDA m : monthly[v][m].rolled, Months)

\* Mutated: only the destination is written.
UpdateRolloverForgotten(v, m, unused) == UNCHANGED monthly

\* UpdateRollover, in the row of the source.
UpdateRollover(v, m, unused) ==
    monthly' = [monthly EXCEPT ![v][m].rolled = @ + unused]

MarkSource(c) ==
    /\ clerk[c].pc = "mark"
    /\ RolledOf(VendorOf(c)) <= MaxRolled
    /\ UpdateRollover(VendorOf(c), clerk[c].from, UnusedOf(c))
    /\ clerk' = [clerk EXCEPT ![c].pc = "add"]
    /\ UNCHANGED <<given, budgets, alertLog, caps, shares>>

\* The last statement adds what was left to the destination.
Rollover(c) ==
    /\ clerk[c].pc = "add"
    /\ monthly' = [monthly EXCEPT ![VendorOf(c)][clerk[c].to].amount =
                                      @ + UnusedOf(c)]
    /\ clerk' = [clerk EXCEPT ![c] = AtRest]
    /\ UNCHANGED <<given, budgets, alertLog, caps, shares>>

\* A statement fails, or the process stops: the call ends here.
ClerkFails(c) ==
    /\ clerk[c] # AtRest
    /\ clerk' = [clerk EXCEPT ![c] = AtRest]
    /\ UNCHANGED <<monthly, given, budgets, alertLog, caps, shares>>

BudgetedIn(m) == {v \in Vendors : monthly[v][m] # NoBudget}

\* The dashboard of a month, with what was spent of each of its budgets.
GetDashboard(m) ==
    [budget |-> MapThenSumSet(LAMBDA v : monthly[v][m].amount, BudgetedIn(m)),
     spent |-> MapThenSumSet(LAMBDA v : vendorMonthSpend(v, m), BudgetedIn(m))]

\* The rows a forecast takes for the year to date: all months up to this one,
\* those of the years before included.
GetYTD(v) == {m \in Months : m <= MonthOf(now) /\ monthly[v][m] # NoBudget}

\* What was spent in the months of a year so far, extended to twelve months
\* and rounded to the cent.
projectedAnnual(spent, monthInt) == (24 * spent + monthInt) \div (2 * monthInt)

\* The forecast compares that with the budget so far, of the months that have
\* one, extended to twelve months as well, which is not rounded.
GetForecast(v) ==
    LET months == GetYTD(v)
        monthInt == (MonthOf(now) % 12) + 1
        budget == MapThenSumSet(LAMBDA m : monthly[v][m].amount, months)
        spent == MapThenSumSet(LAMBDA m : vendorMonthSpend(v, m), months)
        projected == projectedAnnual(spent, monthInt)
    IN  [budget |-> budget, spent |-> spent,
         status |-> CASE monthInt * projected <= 12 * budget -> "on_track"
                      [] /\ monthInt * projected > 12 * budget
                         /\ 10 * monthInt * projected <= 11 * 12 * budget -> "at_risk"
                      [] OTHER -> "over_budget"]

RolloverNext ==
    \/ \E v \in Vendors, m \in Months, amount \in Amounts :
          handleSetMonthlyBudget(v, m, amount)
    \/ \E c \in Clerks :
          \/ \E v \in Vendors, from, to \in Months : GetSource(c, v, from, to)
          \/ ReadSpend(c)
          \/ GetDestination(c)
          \/ CreateDestination(c)
          \/ MarkSource(c)
          \/ Rollover(c)
          \/ ClerkFails(c)

-----------------------------------------------------------------------------
(***************************************************************************)
(* Budgets per vendor, their dashboard and their alerts.                   *)
(***************************************************************************)

SetBudget(v, amount) == budgets' = [budgets EXCEPT ![v] = amount]

DeleteBudget(v) == budgets' = [budgets EXCEPT ![v] = -1]

handleSetBudget(v, amount) ==
    /\ SetBudget(v, amount)
    /\ UNCHANGED <<monthly, given, alertLog, caps, shares, clerk>>

\* Without a row there is nothing to delete.
handleDeleteBudget(v) ==
    /\ budgets[v] >= 0
    /\ DeleteBudget(v)
    /\ UNCHANGED <<monthly, given, alertLog, caps, shares, clerk>>

Budgeted == {v \in Vendors : budgets[v] >= 0}

\* vendorActualSpend of internal/budget: all deals of the vendor.
vendorActualSpend(v) == Spend(OfVendor(deals, DOMAIN deals, v))

\* The dashboard warns when a budget is exceeded by more than ten percent.
Warnings == {v \in Budgeted : 100 * vendorActualSpend(v) > 110 * budgets[v]}

Dashboard ==
    [budget |-> MapThenSumSet(LAMBDA v : budgets[v], Budgeted),
     actual |-> MapThenSumSet(vendorActualSpend, Budgeted),
     trend |-> [m \in MonthsOf(deals, DOMAIN deals) |->
                   Spend(InMonth(deals, DOMAIN deals, m))],
     warnings |-> Warnings]

\* Mutated: the sum is over all vendors.
AlertSpendOfAll(v) == Spend(DOMAIN deals)

\* vendorActualSpend of internal/budgetalerts.
AlertSpend(v) == Spend(OfVendor(deals, DOMAIN deals, v))

Level(actual, amount) ==
    LET pct == 100 * actual IN
    CASE pct > 100 * amount -> "critical"
      [] pct > 90 * amount /\ pct <= 100 * amount -> "warning"
      [] pct > 80 * amount /\ pct <= 90 * amount -> "info"
      [] OTHER -> "none"

\* loadBudgets.
CheckBudgets(c) ==
    /\ clerk[c] = AtRest /\ Budgeted # {}
    /\ clerk' = [clerk EXCEPT ![c] = [AtRest EXCEPT
          !.pc = "check",
          !.todo = {[vendor |-> v, amount |-> budgets[v]] : v \in Budgeted}]]
    /\ UNCHANGED <<monthly, given, budgets, alertLog, caps, shares>>

\* The loop ends with its last budget.
NextBudget(c, rest) ==
    clerk' = [clerk EXCEPT ![c] = IF rest = {} THEN AtRest
                                  ELSE [AtRest EXCEPT !.pc = "check", !.todo = rest]]

\* One turn of the loop reads what was spent and, if that is an alert, goes
\* on to record it.  A sum that cannot be read and a budget of zero are
\* passed over.
CheckBudget(c) ==
    /\ clerk[c].pc = "check"
    /\ \E b \in clerk[c].todo :
          LET actual == AlertSpend(b.vendor) IN
          \/ /\ b.amount > 0 /\ Level(actual, b.amount) # "none"
             /\ clerk' = [clerk EXCEPT ![c].pc = "save", ![c].item = b,
                                       ![c].actual = actual, ![c].todo = @ \ {b}]
          \/ NextBudget(c, clerk[c].todo \ {b})
    /\ UNCHANGED <<monthly, given, budgets, alertLog, caps, shares>>

\* Save; its error is only logged.
SaveAlert(c) ==
    /\ clerk[c].pc = "save"
    /\ LET b == clerk[c].item IN
       \/ alertLog' = alertLog \cup
              {[vendor |-> b.vendor, budget |-> b.amount, actual |-> clerk[c].actual,
                level |-> Level(clerk[c].actual, b.amount)]}
       \/ UNCHANGED alertLog
    /\ NextBudget(c, clerk[c].todo)
    /\ UNCHANGED <<monthly, given, budgets, caps, shares>>

\* The alerts of a vendor, as budget_alert_history lists them.
ListAlerts(v) == {a \in alertLog : a.vendor = v}

AlertNext ==
    \/ \E v \in Vendors : \/ \E amount \in Amounts : handleSetBudget(v, amount)
                          \/ handleDeleteBudget(v)
    \/ \E c \in Clerks : \/ CheckBudgets(c)
                         \/ CheckBudget(c)
                         \/ SaveAlert(c)
                         \/ ClerkFails(c)

-----------------------------------------------------------------------------
(***************************************************************************)
(* Caps and shares.                                                        *)
(***************************************************************************)

SetCap(v, soft, hard, period) ==
    caps' = [caps EXCEPT ![v] = [soft |-> soft, hard |-> hard, period |-> period]]

\* Any two amounts and any word for the period are taken.
handleSetSpendingCap(v, soft, hard, period) ==
    /\ SetCap(v, soft, hard, period)
    /\ UNCHANGED <<monthly, given, budgets, alertLog, shares, clerk>>

DeleteCap(v) == caps' = [caps EXCEPT ![v] = NoCap]

handleDeleteSpendingCap(v) ==
    /\ caps[v] # NoCap
    /\ DeleteCap(v)
    /\ UNCHANGED <<monthly, given, budgets, alertLog, shares, clerk>>

\* checkVendor: what counts for a cap of each period, all in calendar terms;
\* for a period it does not know, nothing does.
CapSpend(v, period) ==
    LET mine == OfVendor(deals, DOMAIN deals, v) IN
    CASE period \in {"monthly", ""} -> Spend(InMonth(deals, mine, MonthOf(now)))
      [] period = "quarterly" ->
            Spend({i \in mine : QuarterOf(deals[i].at) = QuarterOf(now)})
      [] period = "yearly" -> Spend({i \in mine : YearOf(deals[i].at) = YearOf(now)})
      [] OTHER -> 0

\* A cap of zero is none.
Reached(cap, spent) == cap > 0 /\ spent >= cap

ListCaps == {v \in Vendors : caps[v] # NoCap}

\* CheckCaps goes through the rows; a sum that cannot be read is passed over.
CheckCaps ==
    {[vendor |-> v, spent |-> CapSpend(v, caps[v].period),
      soft |-> Reached(caps[v].soft, CapSpend(v, caps[v].period)),
      hard |-> Reached(caps[v].hard, CapSpend(v, caps[v].period))] : v \in ListCaps}

CapNext ==
    \E v \in Vendors :
       \/ \E soft, hard \in Amounts \cup {0}, period \in Periods :
             handleSetSpendingCap(v, soft, hard, period)
       \/ handleDeleteSpendingCap(v)

\* costallocation.Set is an upsert; the shares of a vendor may be of any sum.
SetAllocation(v, d, pct) == shares' = [shares EXCEPT ![v][d] = pct]

handleSetAllocation(v, d, pct) ==
    /\ SetAllocation(v, d, pct)
    /\ UNCHANGED <<monthly, given, budgets, alertLog, caps, clerk>>

\* costallocation.Delete has no caller outside the tests of its package.

CostNext == \E v \in Vendors, d \in Departments, pct \in Percents :
               handleSetAllocation(v, d, pct)

\* The rows of the table, and of one department.
ListAll == {row \in Vendors \X Departments : shares[row[1]][row[2]] >= 0}
ListByDepartment(d) == {row \in ListAll : row[2] = d}

\* What the vendors of some rows cost in a period, SUM(final_price * seats).
CostOf(v, halfDays) ==
    Cost(OfVendor(deals, SinceDay(deals, now - halfDays), v))

CostOfRows(rows, halfDays) ==
    MapThenSumSet(LAMBDA v : CostOf(v, halfDays), {row[1] : row \in rows})

\* A department's parts are added up before they are rounded ...
Allocated(rows, halfDays) ==
    (MapThenSumSet(LAMBDA row : CostOf(row[1], halfDays) * shares[row[1]][row[2]], rows)
       + 50) \div 100

\* ... or its part of a vendor is rounded by itself.
Amount(row, halfDays) ==
    (CostOf(row[1], halfDays) * shares[row[1]][row[2]] + 50) \div 100

\* Report: each department's part of every vendor, and the whole.
AllocationReport(halfDays) ==
    [total |-> CostOfRows(ListAll, halfDays),
     department |-> [d \in Departments |->
                        Allocated({row \in ListAll : row[2] = d}, halfDays)]]

\* DepartmentReport adds up the rounded amounts of one department's vendors.
DepartmentReport(d, halfDays) ==
    [total |-> CostOfRows(ListByDepartment(d), halfDays),
     department |-> MapThenSumSet(LAMBDA row : Amount(row, halfDays),
                                  ListByDepartment(d))]

-----------------------------------------------------------------------------

BudgetTypeOK ==
    /\ \A v \in Vendors, m \in Months :
          /\ monthly[v][m].amount \in Nat \cup {-1}
          /\ monthly[v][m].rolled \in Nat
          /\ monthly[v][m].amount = -1 => monthly[v][m] = NoBudget
    /\ \A v \in Vendors : budgets[v] \in Amounts \cup {-1}
    /\ \A v \in Vendors : caps[v].period \in Periods \cup {"none"}
    /\ \A a \in alertLog : a.level \in {"critical", "warning", "info"}
    /\ \A c \in Clerks :
          clerk[c].pc \in {"idle", "spend", "destination", "create", "mark", "add",
                           "check", "save"}

(***************************************************************************)
(* Money does not appear in a budget: what months hold beyond the amounts  *)
(* set for them is on record as rolled over out of months of the same      *)
(* vendor, with what a call still has to add.  No overlap of rollovers     *)
(* and new budgets, and no failure, leads to more; less is possible, when  *)
(* the second statement is missing or an upsert replaced the amount.       *)
(***************************************************************************)
RolloverIsRecorded ==
    \A v \in Vendors :
      LET months == {m \in Months : monthly[v][m] # NoBudget}
          adding == {c \in Clerks : clerk[c].pc = "add" /\ VendorOf(c) = v}
      IN  /\ \A m \in months : monthly[v][m].amount >= given[v][m]
          /\ MapThenSumSet(LAMBDA m : monthly[v][m].amount - given[v][m], months)
               + MapThenSumSet(UnusedOf, adding)
             <= RolledOf(v)

(***************************************************************************)
(* A critical alert on a budget that is still in force is confirmed by the *)
(* dashboard, which sums the deals by itself; and every row of the log     *)
(* states a sum that the deals of its vendor had reached at some time.     *)
(***************************************************************************)
BudgetAlertsAreReal ==
    \A v \in Vendors : \A a \in ListAlerts(v) :
      /\ a.level = "critical" /\ budgets[v] = a.budget =>
            vendorActualSpend(v) > a.budget
      /\ a.level = "critical" /\ budgets[v] = a.budget /\ 10 * a.actual > 11 * a.budget =>
            v \in Dashboard.warnings
      /\ \E n \in 0 .. Len(deals) : a.actual = Spend(OfVendor(deals, 1 .. n, v))

(***************************************************************************)
(* The packages agree on what was spent: this month's budget and a monthly *)
(* cap count the same, a longer period never less, and the vendors of a    *)
(* dashboard no more than the month or the months.  A forecast is on track *)
(* while less was spent than budgeted and never when more was: the cent    *)
(* its projection is rounded by decides only where both are the same.  A   *)
(* cap that is reached was, and its warning came no later.  What one       *)
(* department reports and what the report of all of them says of it differ *)
(* by at most half a cent for each of its vendors, which they round at     *)
(* different places; and when the shares of the vendors add up to a        *)
(* hundred, the departments are charged what the vendors cost, but for     *)
(* half a cent at each department.                                         *)
(***************************************************************************)
SpendingAgrees ==
    /\ \A v \in Vendors :
          /\ CapSpend(v, "monthly") = vendorMonthSpend(v, MonthOf(now))
          /\ CapSpend(v, "monthly") <= CapSpend(v, "quarterly")
          /\ CapSpend(v, "quarterly") <= CapSpend(v, "yearly")
          /\ CapSpend(v, "yearly") <= vendorActualSpend(v)
          /\ GetForecast(v).spent <= vendorActualSpend(v)
          /\ GetForecast(v).status = "on_track" =>
                GetForecast(v).spent <= GetForecast(v).budget
          /\ GetForecast(v).spent < GetForecast(v).budget =>
                GetForecast(v).status = "on_track"
    /\ \A m \in Months : GetDashboard(m).spent <=
                            Spend(InMonth(deals, DOMAIN deals, m))
    /\ \A result \in CheckCaps :
          result.hard => /\ vendorActualSpend(result.vendor) >= caps[result.vendor].hard
                         /\ caps[result.vendor].period \in
                               {"", "monthly", "quarterly", "yearly"}
                         /\ caps[result.vendor].soft \in 1 .. caps[result.vendor].hard =>
                               result.soft
    /\ LET dash == Dashboard
       IN  dash.actual <= MapThenSumSet(LAMBDA m : dash.trend[m], DOMAIN dash.trend)
    /\ LET report == AllocationReport(60)
           whole == {v \in Vendors :
                       MapThenSumSet(LAMBDA d : shares[v][d],
                                     {d \in Departments : shares[v][d] >= 0}) = 100}
       IN  /\ \A d \in Departments :
                 LET rows == Cardinality(ListByDepartment(d))
                     gap == DepartmentReport(d, 60).department - report.department[d]
                 IN  2 * gap <= rows /\ -2 * gap <= rows
           /\ {row[1] : row \in ListAll} = whole =>
                 LET gap == report.total - MapThenSumSet(LAMBDA d : report.department[d],
                                                         Departments)
                 IN  /\ 2 * gap <= Cardinality(Departments)
                     /\ -2 * gap <= Cardinality(Departments)
=============================================================================
