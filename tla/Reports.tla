------------------------------ MODULE Reports ------------------------------
(***************************************************************************)
(* Reports over deals and sessions: internal/vendorspend, reports,         *)
(* winloss, metrics, history, effectiveness, useractivity, pricechart,     *)
(* benchmark and export.                                                   *)
(*                                                                         *)
(* A report is a list of SELECT statements without a transaction, so each  *)
(* of them sees the rows committed before it, and other calls add deals    *)
(* and sessions, or midnight passes, between any two.  Some packages fix   *)
(* the beginning of their period once, others name it in every statement.  *)
(* What the statements have returned so far is kept by name; averages are  *)
(* kept as a sum and a count.                                              *)
(***************************************************************************)
EXTENDS Ledger

CONSTANTS
    Period,          \* half days in the period of a report, "30d"
    HistoryLimit,    \* rows history lists, 100 in the code
    MaxExports       \* bound: rows of data_exports

ASSUME ReportAssumption ==
    Period \in Nat /\ HistoryLimit \in Nat \ {0} /\ MaxExports \in Nat

VARIABLES
    report,          \* the report being computed
    exports          \* table data_exports: the record counts

reportVars == <<report, exports>>

(***************************************************************************)
(* The statements of each report, in the order of its code.                *)
(***************************************************************************)
SpendReport == <<"totalSpendSince", "vendorBreakdown", "monthlyTrend",
                 "oneYear", "twoYears">>
Build == <<"savingsSection", "vendorBreakdownSection", "winLossSection",
           "benchmarksSection", "trendsSection">>
Analyze == <<"outcomes", "dealCount", "wonByVendor", "wonByMonth">>
Generate == <<"outcomeCounts", "dealCount", "activeSessions">>
GetHistory == <<"dealStats", "dealList">>
GenerateReport == <<"dealStats", "globalStats">>
Score == <<"winRate", "avgDiscountPct", "totalSavings", "averageScore">>
ActivityReport == <<"sessionCount", "completedCount", "totalSavings",
                    "activeDays", "topVendors">>
Chart == <<"dealsByMonth", "summary">>
Export == <<"queryDeals", "querySessions">>

Statements ==
    [spend |-> SpendReport, build |-> Build, winloss |-> Analyze,
     metrics |-> Generate, history |-> GetHistory, benchmark |-> GenerateReport,
     score |-> Score, activity |-> ActivityReport, chart |-> Chart,
     export |-> Export]

\* An error of these is logged or dropped and the report goes on without the
\* answer, or with 0 in its place; an error of any other ends the report.
PassedOver ==
    {<<"spend", n>> : n \in {"monthlyTrend", "oneYear", "twoYears"}}
      \cup {<<"winloss", n>> : n \in {"dealCount", "wonByVendor", "wonByMonth"}}
      \cup {<<"metrics", n>> : n \in {"dealCount", "activeSessions"}}
      \cup {<<"score", Score[i]>> : i \in DOMAIN Score}
      \cup {<<"activity", ActivityReport[i]>> : i \in DOMAIN ActivityReport}
      \cup {<<"chart", "summary">>}
      \cup {<<"export", Export[i]>> : i \in DOMAIN Export}

Kinds == DOMAIN Statements

NoReport == [kind |-> "none", step |-> 0, since |-> 0, quiet |-> TRUE, got |-> <<>>]

ReportInit == report = NoReport /\ exports = {}

-----------------------------------------------------------------------------
(***************************************************************************)
(* What each statement returns from the tables as they are now.  The       *)
(* argument is the instant fixed at the start of the report.               *)
(***************************************************************************)

All == DOMAIN deals
VendorsOf(S) == {deals[i].vendor : i \in S}

\* internal/vendorspend
totalSpendSince(since) == Spend(SinceInstant(deals, since))

vendorBreakdown(since) ==
    LET rows == SinceInstant(deals, since)
    IN  [v \in VendorsOf(rows) |-> Spend(OfVendor(deals, rows, v))]

monthlyTrend(since) ==
    LET rows == SinceInstant(deals, since)
    IN  [m \in MonthsOf(deals, rows) |-> Spend(InMonth(deals, rows, m))]

\* The comparison with the year before reads the clock again, once.
yoyChange == [at |-> now, spend |-> totalSpendSince(now - 720)]

\* internal/reports: the sections name their period themselves.
savingsSection ==
    LET rows == SinceDay(deals, now - Period)
    IN  [savings |-> Savings(rows), count |-> Cardinality(rows)]

vendorBreakdownSection ==
    LET rows == SinceDay(deals, now - Period)
    IN  [v \in VendorsOf(rows) |-> Cardinality(OfVendor(deals, rows, v))]

winLossSection ==
    LET rows == SinceDay(sessions, now - Period)
    IN  [won |-> Cardinality(WithOutcome(rows, {"won"})),
         lost |-> Cardinality(WithOutcome(rows, {"lost"}))]

benchmarksSection ==
    LET rows == SinceDay(deals, now - Period)
    IN  [final |-> Spend(rows), count |-> Cardinality(rows)]

trendsSection ==
    LET rows == SinceDay(deals, now - Period)
    IN  [m \in MonthsOf(deals, rows) |-> Cardinality(InMonth(deals, rows, m))]

\* internal/winloss, over all of the time and the last year.
outcomes ==
    LET won == WithOutcome(DOMAIN sessions, {"won"})
        lost == WithOutcome(DOMAIN sessions, {"lost"})
    IN  [won |-> Cardinality(won), lost |-> Cardinality(lost),
         pending |-> Cardinality(DOMAIN sessions \ (won \cup lost))]

wonByVendor ==
    LET rows == WithOutcome(DOMAIN sessions, {"won", "lost"})
    IN  [v \in {sessions[i].vendor : i \in rows} |->
            Cardinality(OfVendor(sessions, WithOutcome(rows, {"won"}), v))]

wonByMonth ==
    LET rows == WithOutcome(SinceDay(sessions, now - 720), {"won", "lost"})
    IN  [m \in MonthsOf(sessions, rows) |->
            Cardinality(InMonth(sessions, WithOutcome(rows, {"won"}), m))]

\* internal/metrics
outcomeCounts ==
    [won |-> Cardinality(WithOutcome(DOMAIN sessions, {"won"})),
     lost |-> Cardinality(WithOutcome(DOMAIN sessions, {"lost"}))]

\* A session that ended has an outcome and is no longer active.
activeSessions == Cardinality(WithOutcome(DOMAIN sessions, {""}))

\* internal/history, without a period.
dealStats == [count |-> Cardinality(All), savings |-> Savings(All)]

dealList == Cardinality({i \in All : Cardinality({j \in All : j > i}) < HistoryLimit})

\* internal/effectiveness: the user asked for is in none of the queries.
winRate(since) ==
    LET rows == WithOutcome(SinceInstant(sessions, since), {"won", "lost"})
    IN  [won |-> Cardinality(WithOutcome(rows, {"won"})), total |-> Cardinality(rows)]

avgDiscountPct(since) ==
    [discount |-> Savings(SinceInstant(deals, since)),
     count |-> Cardinality(SinceInstant(deals, since))]

totalSavings(since) == Savings(SinceInstant(deals, since))

averageScore(since) ==
    [discount |-> Savings(SinceInstant(deals, since)),
     count |-> Cardinality(SinceInstant(deals, since))]

\* internal/useractivity
sessionCount(since) == Cardinality(SinceInstant(sessions, since))

completedCount(since) ==
    Cardinality(WithOutcome(SinceInstant(sessions, since), {"won", "lost"}))

activeDays(since) ==
    Cardinality({DayOf(sessions[i].at) : i \in SinceInstant(sessions, since)})

topVendors(since) ==
    LET rows == SinceInstant(sessions, since)
    IN  [v \in {sessions[i].vendor : i \in rows} |->
            Cardinality(OfVendor(sessions, rows, v))]

\* internal/pricechart: the months from the first instant to the last, both
\* fixed at the start; and the best and the worst price of all time.
dealsByMonth(since) ==
    LET last == since + Period
        rows == {i \in SinceInstant(deals, since) : deals[i].at <= last}
    IN  [m \in MonthOf(since) .. MonthOf(last) |-> Cardinality(InMonth(deals, rows, m))]

summary ==
    IF All = {} THEN [best |-> 0, worst |-> 0, savings |-> 0]
    ELSE [best |-> Min({deals[i].terms.final : i \in All}),
          worst |-> Max({deals[i].terms.final : i \in All}),
          savings |-> Savings(All)]

\* internal/export: without filters, all rows.
queryDeals == Cardinality(All)
querySessions == Len(sessions)

Answer(statement, since) ==
    CASE statement = "totalSpendSince" -> totalSpendSince(since)
      [] statement = "vendorBreakdown" -> vendorBreakdown(since)
      [] statement = "monthlyTrend" -> monthlyTrend(since)
      [] statement = "oneYear" -> yoyChange
      [] statement = "twoYears" -> totalSpendSince(report.got["oneYear"].at - 1440)
      [] statement = "savingsSection" -> savingsSection
      [] statement = "vendorBreakdownSection" -> vendorBreakdownSection
      [] statement = "winLossSection" -> winLossSection
      [] statement = "benchmarksSection" -> benchmarksSection
      [] statement = "trendsSection" -> trendsSection
      [] statement = "outcomes" -> outcomes
      [] statement = "dealCount" -> Cardinality(All)
      [] statement = "wonByVendor" -> wonByVendor
      [] statement = "wonByMonth" -> wonByMonth
      [] statement = "outcomeCounts" -> outcomeCounts
      [] statement = "activeSessions" -> activeSessions
      [] statement \in {"dealStats", "globalStats"} -> dealStats
      [] statement = "dealList" -> dealList
      [] statement = "winRate" -> winRate(since)
      [] statement = "avgDiscountPct" -> avgDiscountPct(since)
      [] statement = "totalSavings" -> totalSavings(since)
      [] statement = "averageScore" -> averageScore(since)
      [] statement = "sessionCount" -> sessionCount(since)
      [] statement = "completedCount" -> completedCount(since)
      [] statement = "activeDays" -> activeDays(since)
      [] statement = "topVendors" -> topVendors(since)
      [] statement = "dealsByMonth" -> dealsByMonth(since)
      [] statement = "summary" -> summary
      [] statement = "queryDeals" -> queryDeals
      [] statement = "querySessions" -> querySessions

-----------------------------------------------------------------------------

Computing == report # NoReport
Finished == Computing /\ report.step > Len(Statements[report.kind])

\* parsePeriod: the beginning of the period, before the first statement.
Start(kind) ==
    /\ ~Computing
    /\ report' = [NoReport EXCEPT !.kind = kind, !.step = 1, !.since = now - Period]
    /\ UNCHANGED <<ledgerVars, exports>>

handleVendorSpend == Start("spend")
handleBuildReport == Start("build")
handleWinLossAnalysis == Start("winloss")
handleMetrics == Start("metrics")
handleHistory == Start("history")
handleBenchmarkReport == Start("benchmark")
handleEffectivenessScore == Start("score")
handleUserActivity == Start("activity")
handlePriceChart == Start("chart")
handleExportData == Start("export")

Current == Statements[report.kind][report.step]

\* What a report has been told so far, with one more answer.
Answered(got, statement, answer) ==
    [x \in DOMAIN got \cup {statement} |-> IF x = statement THEN answer ELSE got[x]]

\* The second of the two years is asked for only if the first was answered.
Query ==
    /\ Computing /\ ~Finished
    /\ Current = "twoYears" => "oneYear" \in DOMAIN report.got
    /\ report' = [report EXCEPT
          !.step = @ + 1,
          !.got = Answered(@, Current, Answer(Current, report.since))]
    /\ UNCHANGED <<ledgerVars, exports>>

\* A statement failed and the report goes on without it.
PassOver ==
    /\ Computing /\ ~Finished
    /\ <<report.kind, Current>> \in PassedOver
    /\ report' = [report EXCEPT !.step = @ + 1]
    /\ UNCHANGED <<ledgerVars, exports>>

\* SaveExport records how many rows were exported; a failure is logged.
SaveExport(count) ==
    \/ Cardinality(exports) < MaxExports /\ exports' = exports \cup {count}
    \/ UNCHANGED exports

Reply ==
    /\ Finished
    /\ report' = NoReport
    /\ IF report.kind = "export"
       THEN SaveExport(MapThenSumSet(LAMBDA x : report.got[x], DOMAIN report.got))
       ELSE UNCHANGED exports
    /\ UNCHANGED ledgerVars

\* A statement failed and the report fails with it.
ReportFails ==
    /\ Computing /\ ~Finished
    /\ <<report.kind, Current>> \notin PassedOver
    /\ report' = NoReport
    /\ UNCHANGED <<ledgerVars, exports>>

\* Another call writes, or time passes, while the report is computed.
Meanwhile ==
    /\ LedgerNext
    /\ report' = IF Computing THEN [report EXCEPT !.quiet = FALSE] ELSE report
    /\ UNCHANGED exports

ReportNext ==
    \/ handleVendorSpend \/ handleBuildReport \/ handleWinLossAnalysis
    \/ handleMetrics \/ handleHistory \/ handleBenchmarkReport
    \/ handleEffectivenessScore \/ handleUserActivity \/ handlePriceChart
    \/ handleExportData
    \/ Query
    \/ PassOver
    \/ Reply
    \/ ReportFails
    \/ Meanwhile

-----------------------------------------------------------------------------

ReportTypeOK ==
    /\ report.kind \in Kinds \cup {"none"}
    /\ Computing => /\ DOMAIN report.got \subseteq
                          {Statements[report.kind][i] : i \in 1 .. report.step - 1}
                    /\ report.since <= now
    /\ exports \subseteq Nat

\* Every statement was answered.
Complete == Finished /\ Cardinality(DOMAIN report.got) = Len(Statements[report.kind])

\* The sum of all entries of one statement's answer.
Sum(answer) == MapThenSumSet(LAMBDA x : answer[x], DOMAIN answer)

(***************************************************************************)
(* The parts of a report that has them all belong together.  What a report *)
(* states first is never more than what it states later, where its period  *)
(* is fixed and rows are only added; and if nobody wrote meanwhile, totals *)
(* are the sums of their breakdowns and two statements for one figure      *)
(* agree.                                                                  *)
(***************************************************************************)
ReportsAgree ==
    Complete => LET got == report.got  quiet == report.quiet IN
      /\ report.kind = "spend" =>
            /\ got["totalSpendSince"] <= Sum(got["vendorBreakdown"])
            /\ Sum(got["vendorBreakdown"]) <= Sum(got["monthlyTrend"])
            /\ quiet => got["totalSpendSince"] = Sum(got["monthlyTrend"])
            /\ got["oneYear"].spend <= got["twoYears"]
            /\ quiet /\ Period <= 720 =>
                  got["totalSpendSince"] <= got["oneYear"].spend
      /\ report.kind = "build" /\ quiet =>
            /\ got["savingsSection"].count = Sum(got["vendorBreakdownSection"])
            /\ got["savingsSection"].count = got["benchmarksSection"].count
            /\ got["savingsSection"].count = Sum(got["trendsSection"])
      /\ report.kind = "winloss" =>
            /\ got["outcomes"].won <= Sum(got["wonByVendor"])
            /\ quiet => /\ got["outcomes"].won = Sum(got["wonByVendor"])
                        /\ Sum(got["wonByMonth"]) <= got["outcomes"].won
      /\ report.kind = "metrics" /\ quiet =>
            got["outcomeCounts"].won + got["outcomeCounts"].lost
              + got["activeSessions"] <= Len(sessions)
      /\ report.kind = "history" =>
            got["dealList"] >= Min({got["dealStats"].count, HistoryLimit})
      /\ report.kind = "benchmark" =>
            /\ got["dealStats"].count <= got["globalStats"].count
            /\ quiet => got["dealStats"] = got["globalStats"]
      /\ report.kind = "score" =>
            /\ got["avgDiscountPct"].count <= got["averageScore"].count
            /\ quiet => got["avgDiscountPct"] = got["averageScore"]
      /\ report.kind = "activity" /\ quiet =>
            /\ got["completedCount"] <= got["sessionCount"]
            /\ got["activeDays"] <= got["sessionCount"]
            /\ Sum(got["topVendors"]) = got["sessionCount"]
      /\ report.kind = "chart" =>
            /\ got["summary"].best <= got["summary"].worst
            /\ Sum(got["dealsByMonth"]) <= Len(deals)
            /\ quiet => Sum(got["dealsByMonth"]) =
                           Cardinality(SinceInstant(deals, report.since))

(***************************************************************************)
(* "Total negotiations by outcome", as the help line of the metric says of *)
(* negotiation_total: those that were won are all that ended in a deal.    *)
(***************************************************************************)
WinsAreCounted ==
    Complete /\ report.quiet /\ report.kind = "metrics" =>
        report.got["outcomeCounts"].won =
            Cardinality(WithOutcome(DOMAIN sessions, {"accepted", "won"}))
=============================================================================
