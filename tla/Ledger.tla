------------------------------- MODULE Ledger -------------------------------
(***************************************************************************)
(* The two tables every budget and every report is computed from           *)
(* (internal/history): deal_outcomes, to which rows are only added, and    *)
(* negotiation_sessions, whose rows are added and updated.                 *)
(*                                                                         *)
(* Time is counted in half days, a month has thirty days and a year twelve *)
(* months, so that a period of thirty days and a calendar month differ.    *)
(*                                                                         *)
(* Rows carry created_at as text and periods are compared with it as text. *)
(* Some queries bind an instant formatted like the rows, others write      *)
(* datetime('now', '-30 days'), which has a space where the rows have a T: *)
(* the first cut a day in two, the second take the whole of it.            *)
(***************************************************************************)
EXTENDS Integers, Sequences, FiniteSets, FiniteSetsExt

CONSTANTS
    Vendors,
    Terms,           \* of a deal: [list, final, seats]
    Instants,        \* bound: the half days at which something happens
    Epoch,           \* the zero time, before all of them
    MaxDeals,        \* bound: rows of deal_outcomes
    MaxSessions      \* bound: rows of negotiation_sessions

ASSUME LedgerAssumption ==
    /\ Instants \subseteq Nat /\ Instants # {} /\ Epoch \in Int
    /\ MaxDeals \in Nat /\ MaxSessions \in Nat
    /\ Terms \subseteq [list : Int, final : Int, seats : Int] /\ IsFiniteSet(Vendors)

VARIABLES
    now,
    deals,           \* table deal_outcomes
    sessions         \* table negotiation_sessions

ledgerVars == <<now, deals, sessions>>

DayOf(t) == t \div 2
MonthOf(t) == t \div 60
QuarterOf(t) == t \div 180
YearOf(t) == t \div 720

\* A row of deal_outcomes.
DealOutcome == [vendor : Vendors, terms : Terms, at : Instants]

\* The outcomes written: a run sets accepted, query_price queried and
\* batch_negotiate won; there is no other writer.
SessionRecord == [vendor : Vendors, outcome : {"", "accepted", "queried", "won"},
                  at : Instants \cup {Epoch}]

LedgerInit == now = Min(Instants) /\ deals = <<>> /\ sessions = <<>>

Tick ==
    /\ \E t \in Instants : t > now /\ now' = t
    /\ UNCHANGED <<deals, sessions>>

\* A deal is concluded, or imported as one.
SaveDealOutcome(v, terms) ==
    /\ Len(deals) < MaxDeals
    /\ deals' = Append(deals, [vendor |-> v, terms |-> terms, at |-> now])
    /\ UNCHANGED <<now, sessions>>

\* Mutated: records without a price are kept.
importDealsUnchecked(v, terms) == SaveDealOutcome(v, terms)

\* parseDealsJSON keeps the records whose prices are above zero; each is
\* saved by an INSERT of its own.
importDeals(v, terms) ==
    terms.list > 0 /\ terms.final > 0 /\ SaveDealOutcome(v, terms)

SaveSession(v, outcome, at) ==
    /\ Len(sessions) < MaxSessions
    /\ sessions' = Append(sessions, [vendor |-> v, outcome |-> outcome, at |-> at])
    /\ UNCHANGED <<now, deals>>

\* batch_negotiate saves sessions that are won and have no date.
BatchItem(v) == SaveSession(v, "won", Epoch)

\* A run concludes the session: its row keeps the date it was created at.
UpdateSession(i) ==
    /\ sessions[i].outcome = ""
    /\ sessions' = [sessions EXCEPT ![i].outcome = "accepted"]
    /\ UNCHANGED <<now, deals>>

LedgerNext ==
    \/ Tick
    \/ \E v \in Vendors, terms \in Terms : importDeals(v, terms)
    \/ \E v \in Vendors : \/ SaveSession(v, "", now)
                          \/ SaveSession(v, "queried", now)
                          \/ BatchItem(v)
    \/ \E i \in DOMAIN sessions : UpdateSession(i)

-----------------------------------------------------------------------------
(***************************************************************************)
(* The clauses the queries are made of: each selects rows of a table.      *)
(***************************************************************************)

\* created_at >= ?, with an instant formatted as the rows are.
SinceInstant(rows, since) == {i \in DOMAIN rows : rows[i].at >= since}

\* created_at >= datetime('now', ...).
SinceDay(rows, since) == {i \in DOMAIN rows : DayOf(rows[i].at) >= DayOf(since)}

OfVendor(rows, S, v) == {i \in S : rows[i].vendor = v}
InMonth(rows, S, m) == {i \in S : MonthOf(rows[i].at) = m}
MonthsOf(rows, S) == {MonthOf(rows[i].at) : i \in S}

WithOutcome(S, outcomes) == {i \in S : sessions[i].outcome \in outcomes}

\* SUM(final_price), SUM(list_price - final_price), SUM(final_price * seats)
Spend(S) == MapThenSumSet(LAMBDA i : deals[i].terms.final, S)
Savings(S) == MapThenSumSet(LAMBDA i : deals[i].terms.list - deals[i].terms.final, S)
Cost(S) == MapThenSumSet(LAMBDA i : deals[i].terms.final * deals[i].terms.seats, S)

LedgerTypeOK ==
    /\ now \in Instants
    /\ deals \in Seq(DealOutcome) /\ Len(deals) <= MaxDeals
    /\ \A i \in DOMAIN deals : deals[i].terms.final > 0 /\ deals[i].terms.list > 0
    /\ sessions \in Seq(SessionRecord) /\ Len(sessions) <= MaxSessions
=============================================================================
