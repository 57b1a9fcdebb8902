------------------------------- MODULE Claims -------------------------------
(***************************************************************************)
(* Service level agreements (internal/sla): contracts with a credit rate,  *)
(* the breaches recorded under them, the claims filed for breaches and the *)
(* monthly report.  FileClaim reads the breach and then updates it, with   *)
(* nothing in between that would keep a second call from doing the same.   *)
(*                                                                         *)
(* A vendor and its service are one value here.  Money is in cents, and    *)
(* percentages are whole.                                                  *)
(***************************************************************************)
EXTENDS Integers, FiniteSets, FiniteSetsExt

CONSTANTS
    Slas, Breaches,      \* ids, each handed out at most once
    SlaTerms,            \* service, spend, credit rate and cap of a contract
    Durations,           \* minutes of an outage
    Months,
    Clerks,              \* goroutines that serve calls
    NoBreach

ASSUME ClaimsAssumption ==
    /\ \A t \in SlaTerms : t.spend \in Nat /\ t.credit \in Nat /\ t.cap \in Nat
    /\ Durations \subseteq Nat
    /\ NoBreach \notin Breaches

VARIABLES
    slas,            \* table sla_contracts
    breaches,        \* table sla_breaches
    clerk,           \* what each goroutine is doing
    paid,            \* history: claims reported as filed
    rushed           \* history: breaches with two claims at once

claimVars == <<slas, breaches, clerk, paid, rushed>>

NoSla == [status |-> "absent"]
NoBreachRow == [filed |-> FALSE, minutes |-> -1]

SlaRow == [terms : SlaTerms, status : {"active"}]
BreachRow == [service : {t.service : t \in SlaTerms}, month : Months,
              minutes : Durations, due : Nat, filed : BOOLEAN, payout : Nat]

Available == [pc |-> "idle", breach |-> NoBreach, due |-> 0]

Existing == {s \in Slas : slas[s] # NoSla}
Recorded == {b \in Breaches : breaches[b] # NoBreachRow}

ClaimInit ==
    /\ slas = [s \in Slas |-> NoSla]
    /\ breaches = [b \in Breaches |-> NoBreachRow]
    /\ clerk = [k \in Clerks |-> Available]
    /\ paid = {}
    /\ rushed = {}

TotalMonthlyMins == 43200

RoundedRatio(n, d) == (2 * n + d) \div (2 * d)

\* calculateCredit: the share of the month, at most cap percent of it.
CalculateCredit(t, minutes) ==
    IF 100 * minutes > t.cap * TotalMonthlyMins
    THEN RoundedRatio(t.spend * t.credit * t.cap, 10000)
    ELSE RoundedRatio(t.spend * t.credit * minutes, 100 * TotalMonthlyMins)

AddSLA(s, terms) ==
    /\ slas[s] = NoSla
    /\ slas' = [slas EXCEPT ![s] = [terms |-> terms, status |-> "active"]]
    /\ UNCHANGED <<breaches, clerk, paid, rushed>>

handleAddSLA == \E s \in Slas, terms \in SlaTerms : AddSLA(s, terms)

\* ListContracts: the active contracts of a service, in no known order.
Covering(service) ==
    {s \in Existing : slas[s].terms.service = service
                        /\ slas[s].status = "active"}

AddBreach(b, row) ==
    /\ breaches[b] = NoBreachRow
    /\ breaches' = [breaches EXCEPT ![b] = row]
    /\ UNCHANGED <<slas, clerk, paid, rushed>>

\* RecordBreach: the credit is that of the first contract found.  Contracts
\* are never changed, so its two store calls are one step.
RecordBreach(b, service, month, minutes) ==
    \E s \in Covering(service) :
       AddBreach(b, [service |-> service, month |-> month, minutes |-> minutes,
                     due |-> CalculateCredit(slas[s].terms, minutes),
                     filed |-> FALSE, payout |-> 0])

handleRecordBreach ==
    \E b \in Breaches, service \in {t.service : t \in SlaTerms},
       month \in Months, minutes \in Durations :
          RecordBreach(b, service, month, minutes)

\* Mutated: a claim may be filed again.
ClaimableAgain(b) == breaches[b] # NoBreachRow

Claimable(b) == breaches[b] # NoBreachRow /\ ~breaches[b].filed

\* FileClaim reads the breach and refuses one that is filed.
FileClaim(k, b) ==
    /\ clerk[k] = Available
    /\ Claimable(b)
    /\ clerk' = [clerk EXCEPT ![k] = [pc |-> "file", breach |-> b,
                                      due |-> breaches[b].due]]
    /\ rushed' = rushed \cup ({clerk[j].breach : j \in Clerks} \cap {b})
    /\ UNCHANGED <<slas, breaches, paid>>

\* UPDATE ... SET filed = 1, payout = ? WHERE id = ?
FileBreach(b, payout) ==
    breaches' = [breaches EXCEPT ![b].filed = TRUE, ![b].payout = payout]

\* The update is done, and file_claim reports what is paid out.
handleFileClaim(k) ==
    LET b == clerk[k].breach IN
    /\ clerk[k].pc = "file"
    /\ FileBreach(b, clerk[k].due)
    /\ paid' = paid \cup {[breach |-> b, amount |-> clerk[k].due,
                           nr |-> Cardinality(paid) + 1]}
    /\ clerk' = [clerk EXCEPT ![k] = Available]
    /\ UNCHANGED <<slas, rushed>>

\* The update fails, or is done but its reply is lost.
ClerkFails(k) ==
    /\ clerk[k].pc = "file"
    /\ \/ FileBreach(clerk[k].breach, clerk[k].due)
       \/ UNCHANGED breaches
    /\ clerk' = [clerk EXCEPT ![k] = Available]
    /\ UNCHANGED <<slas, paid, rushed>>

ClaimNext ==
    \/ handleAddSLA
    \/ handleRecordBreach
    \/ \E k \in Clerks : \/ \E b \in Breaches : FileClaim(k, b)
                         \/ handleFileClaim(k)
                         \/ ClerkFails(k)

ClaimSpec == ClaimInit /\ [][ClaimNext]_claimVars

-----------------------------------------------------------------------------
(***************************************************************************)
(* The monthly report.  Its loop runs over all contracts and adds up as it *)
(* goes, so a breach counts once for every contract of its service.        *)
(***************************************************************************)

ListBreaches(service, month) ==
    {b \in Recorded : breaches[b].service = service
                        /\ breaches[b].month = month}

\* What the loop adds for a contract.
CreditsOf(s, month) ==
    MapThenSumSet(LAMBDA b : breaches[b].due, ListBreaches(slas[s].terms.service, month))

FiledOf(s, month) ==
    Cardinality({b \in ListBreaches(slas[s].terms.service, month) : breaches[b].filed})

SLAResult(contracts, month) ==
    [total |-> MapThenSumSet(LAMBDA s : CreditsOf(s, month), contracts),
     filed |-> MapThenSumSet(LAMBDA s : FiledOf(s, month), contracts)]

\* Mutated: the running totals start anew with every service.
GetReportLastOnly(month) ==
    SLAResult({s \in Existing : \A r \in Existing :
                  slas[r].terms.service <= slas[s].terms.service}, month)

GetReport(month) == SLAResult(Existing, month)

-----------------------------------------------------------------------------

ClaimTypeOK ==
    /\ slas \in [Slas -> SlaRow \cup {NoSla}]
    /\ \A b \in Breaches : breaches[b] = NoBreachRow \/ breaches[b] \in BreachRow
    /\ \A k \in Clerks : clerk[k] = Available \/ clerk[k].breach \in Recorded
    /\ \A p \in paid : p.breach \in Breaches
    /\ rushed \subseteq Breaches

PaymentsFor(b) == {p \in paid : p.breach = b}

(***************************************************************************)
(* A breach is paid once however often its claim is retried, unless two    *)
(* claims for it overlapped; every payment, overlapping or not, is of the  *)
(* credit due, no more than the contract's cap of its monthly spend, and   *)
(* of a breach on record as filed.                                         *)
(***************************************************************************)
PaidOnce ==
    /\ \A b \in Breaches \ rushed : Cardinality(PaymentsFor(b)) <= 1
    /\ \A p \in paid :
          /\ breaches[p.breach].filed
          /\ p.amount = breaches[p.breach].payout
          /\ \E s \in Covering(breaches[p.breach].service) :
                LET t == slas[s].terms IN
                10000 * (p.amount - 1) < t.spend * t.credit * t.cap

OneSlaPerService ==
    \A s, r \in Existing : slas[s].terms.service = slas[r].terms.service => s = r

(***************************************************************************)
(* The report accounts for every claim: what has been paid out in a month  *)
(* never exceeds its total and its count; the count is exact as long as no *)
(* service has two contracts, and once everything is filed the total is    *)
(* what was paid.                                                          *)
(***************************************************************************)
ReportCoversPayouts ==
    \A month \in Months :
        LET mine == {b \in Recorded : breaches[b].month = month}
            filed == {b \in mine : breaches[b].filed}
            payout == MapThenSumSet(LAMBDA b : breaches[b].payout, filed)
            report == GetReport(month)
        IN  /\ payout <= report.total /\ Cardinality(filed) <= report.filed
            /\ OneSlaPerService =>
                  /\ report.filed = Cardinality(filed)
                  /\ mine = filed => report.total = payout

(***************************************************************************)
(* "The total agg is correct", as the code says of its report: the total   *)
(* is the credit due for the breaches of the month.                        *)
(***************************************************************************)
TotalIsCorrect ==
    \A month \in Months :
        GetReport(month).total =
            MapThenSumSet(LAMBDA b : breaches[b].due,
                          {b \in Recorded : breaches[b].month = month})
=============================================================================
