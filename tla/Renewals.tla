------------------------------ MODULE Renewals ------------------------------
(***************************************************************************)
(* The renewal calendar (internal/calendar) and the reminders              *)
(* (internal/reminders) that read the same table: contracts with a renewal *)
(* date, trigger_renewal, which negotiates a new price for one of them in  *)
(* several store calls without a transaction, and the two reports of what  *)
(* is due.                                                                 *)
(*                                                                         *)
(* A call keeps the row it read and writes the whole of it back.  Time is  *)
(* counted in half days, so that a date and an instant within it differ.   *)
(* The session and the rounds a renewal saves have ids nobody else knows   *)
(* and are left out; its deal is kept.                                     *)
(***************************************************************************)
EXTENDS NegotiationEngine, FiniteSets

CONSTANTS
    Contracts,           \* ids, each handed out at most once
    ContractTerms,       \* price and renewal date of a new contract
    Quotes,              \* list prices the pricing store may have
    Instants,            \* the instants at which something is looked at
    Hosts,               \* goroutines that serve calls
    MaxTriggers,         \* bound on the renewals started
    NoContract

ASSUME RenewalsAssumption ==
    /\ ContractTerms \subseteq [price : ListPrices, due : Nat]
    /\ Quotes \subseteq ListPrices
    /\ Instants \subseteq Nat /\ Instants # {}
    /\ MaxTriggers \in Nat
    /\ NoContract \notin Contracts

VARIABLES
    contracts,       \* table contracts
    renewalDeals,    \* table deal_outcomes, the rows of renewals
    clock,
    host,            \* what each goroutine is doing, with the row it read
    triggers,        \* number of renewals started
    disputed         \* history: contracts with two renewals at once

renewalVars == <<contracts, renewalDeals, clock, host, triggers, disputed>>

NoRenewalRow == [status |-> "absent"]

ContractRow == [price : Nat, due : Nat, last : Nat,
                status : {"active", "negotiating", "renewed"}]

Renewal == [contract : Contracts, from : Nat, to : Nat, nr : Nat]

NotHosting == [pc |-> "idle", contract |-> NoContract, row |-> NoRenewalRow,
               final |-> 0]

RenewalInit ==
    /\ contracts = [c \in Contracts |-> NoRenewalRow]
    /\ renewalDeals = {}
    /\ clock \in Instants
    /\ host = [g \in Hosts |-> NotHosting]
    /\ triggers = 0
    /\ disputed = {}

-----------------------------------------------------------------------------
(***************************************************************************)
(* What is due.                                                            *)
(***************************************************************************)

DayOf(instant) == instant \div 2

\* GetContractsExpiringSoon compares texts: "T" sorts after the blank of
\* datetime('now'), so only the dates count, the last one excluded.
ExpiringSoon(n) ==
    {c \in Contracts : /\ contracts[c].status = "active"
                       /\ DayOf(contracts[c].due) >= DayOf(clock)
                       /\ DayOf(contracts[c].due) < DayOf(clock) + n}

\* ListContracts with a status ("" for any) and a horizon (0 for none).
ListContracts(status, n) ==
    {c \in Contracts : /\ contracts[c] # NoRenewalRow
                       /\ status \in {"", contracts[c].status}
                       /\ n > 0 => /\ DayOf(contracts[c].due) >= DayOf(clock)
                                   /\ DayOf(contracts[c].due) < DayOf(clock) + n}

handleListContracts(status, n) ==
    [contracts |-> ListContracts(status, n),
     count |-> Cardinality(ListContracts(status, n))]

\* CheckRenewals of the calendar: days rounded up, never negative.
DaysUntil(c) ==
    IF contracts[c].due <= clock THEN 0
    ELSE (contracts[c].due - clock + 1) \div 2

Urgency(c) == CASE DaysUntil(c) < 30 -> "high"
                [] DaysUntil(c) \in 30..90 -> "medium"
                [] OTHER -> "low"

ActionNeeded(c) == CASE DaysUntil(c) < 14 -> "urgent"
                     [] DaysUntil(c) \in 14..60 -> "soon"
                     [] DaysUntil(c) \in 61..90 -> "monitor"
                     [] OTHER -> "none"

CheckRenewals(n) ==
    {[contract |-> c, days |-> DaysUntil(c), urgency |-> Urgency(c),
      action |-> ActionNeeded(c)] : c \in ExpiringSoon(n)}

\* check_renewals: what is urgent is also sent to Slack.
handleCheckRenewals(n) ==
    [renewals |-> CheckRenewals(n),
     alerts |-> {check \in CheckRenewals(n) : check.urgency = "high"}]

\* CheckRenewals of the reminders gets the date only, and rounds down.
DaysLeft(c) ==
    IF 2 * DayOf(contracts[c].due) <= clock THEN 0
    ELSE (2 * DayOf(contracts[c].due) - clock) \div 2

\* Mutated: contracts of the last month are not reminded of.
RemindersEarly ==
    LET due == ExpiringSoon(60) IN
    [critical |-> {c \in due : DaysLeft(c) < 7},
     soon |-> {c \in due : DaysLeft(c) \in 7..29},
     upcoming |-> {c \in due : DaysLeft(c) \in 30..55}]

Reminders ==
    LET due == ExpiringSoon(60) IN
    [critical |-> {c \in due : DaysLeft(c) < 7},
     soon |-> {c \in due : DaysLeft(c) \in 7..29},
     upcoming |-> {c \in due : DaysLeft(c) \in 30..59}]

handleCheckRenewalReminders ==
    [buckets |-> Reminders,
     total |-> Cardinality(Reminders.critical) + Cardinality(Reminders.soon)
                 + Cardinality(Reminders.upcoming)]

-----------------------------------------------------------------------------
(***************************************************************************)
(* The calls.                                                              *)
(***************************************************************************)

CreateContract(c, row) ==
    /\ contracts[c] = NoRenewalRow
    /\ contracts' = [contracts EXCEPT ![c] = row]
    /\ UNCHANGED <<renewalDeals, clock, host, triggers, disputed>>

\* add_contract.
handleAddContract ==
    \E c \in Contracts, terms \in ContractTerms :
       CreateContract(c, [price |-> terms.price, due |-> terms.due,
                          last |-> 0, status |-> "active"])

Wait ==
    /\ \E instant \in Instants : instant > clock /\ clock' = instant
    /\ UNCHANGED <<contracts, renewalDeals, host, triggers, disputed>>

Goto(g, pc) == host' = [host EXCEPT ![g].pc = pc]

Release(g) == host' = [host EXCEPT ![g] = NotHosting]

\* UpdateContract writes every column of the row the call holds.
UpdateContract(g, row) ==
    contracts' = [contracts EXCEPT ![host[g].contract] = row]

\* Mutated: TriggerNegotiation renews a contract in any state.
RenewableAlways(row) == row # NoRenewalRow

Renewable(row) == row.status = "active"

\* TriggerNegotiation reads the contract and refuses one that is not active.
TriggerNegotiation(g, c) ==
    /\ host[g] = NotHosting
    /\ triggers < MaxTriggers
    /\ Renewable(contracts[c])
    /\ triggers' = triggers + 1
    /\ host' = [host EXCEPT ![g] = [pc |-> "claim", contract |-> c,
                                    row |-> contracts[c], final |-> 0]]
    /\ disputed' = disputed \cup ({host[f].contract : f \in Hosts} \cap {c})
    /\ UNCHANGED <<contracts, renewalDeals, clock>>

\* trigger_renewal.
handleTriggerRenewal(g) == \E c \in Contracts : TriggerNegotiation(g, c)

\* The contract is marked, or the call gives up.
Claim(g) ==
    /\ host[g].pc = "claim"
    /\ \/ /\ UpdateContract(g, [host[g].row EXCEPT !.status = "negotiating"])
          /\ Goto(g, "draft")
       \/ UNCHANGED contracts /\ Release(g)
    /\ UNCHANGED <<renewalDeals, clock, triggers, disputed>>

\* The session the renewal negotiates: "balanced", within the present price,
\* for at most four rounds.
RenewalTerms(row, list) ==
    [strategy |-> "balanced", listPrice |-> list, budget |-> row.price,
     threshold |-> 0, maxRounds |-> 4]

\* CreateSession takes the list price of the pricing store, or the present
\* price where it has none, and fails for an unknown vendor; RunNegotiation
\* always comes to a price.
Draft(g) ==
    /\ host[g].pc = "draft"
    /\ \/ \E list \in Quotes \cup {host[g].row.price} :
             host' = [host EXCEPT ![g].pc = "save",
                 ![g].final = FinalOffer(RenewalTerms(host[g].row, list))]
       \/ Goto(g, "revert")
    /\ UNCHANGED <<contracts, renewalDeals, clock, triggers, disputed>>

\* The error path: the contract is active again, unless that fails too.
Revert(g) ==
    /\ host[g].pc = "revert"
    /\ \/ UpdateContract(g, [host[g].row EXCEPT !.status = "active"])
       \/ UNCHANGED contracts
    /\ Release(g)
    /\ UNCHANGED <<renewalDeals, clock, triggers, disputed>>

\* SaveDealOutcome; a failure is logged and ignored.
SaveRenewal(g) ==
    /\ host[g].pc = "save"
    /\ \/ renewalDeals' = renewalDeals \cup
             {[contract |-> host[g].contract, from |-> host[g].row.price,
               to |-> host[g].final, nr |-> Cardinality(renewalDeals) + 1]}
       \/ UNCHANGED renewalDeals
    /\ Goto(g, "conclude")
    /\ UNCHANGED <<contracts, clock, triggers, disputed>>

\* Mutated: the status of a session is written.
RenewedRowCompleted(row, final) ==
    [row EXCEPT !.status = "completed", !.last = final, !.price = final]

RenewedRow(row, final) ==
    [row EXCEPT !.status = "renewed", !.last = final, !.price = final]

\* The last write; a failure is logged, and the call succeeds all the same.
Conclude(g) ==
    /\ host[g].pc = "conclude"
    /\ \/ UpdateContract(g, RenewedRow(host[g].row, host[g].final))
       \/ UNCHANGED contracts
    /\ Release(g)
    /\ UNCHANGED <<renewalDeals, clock, triggers, disputed>>

RenewalCrash ==
    /\ \E g \in Hosts : host[g] # NotHosting
    /\ host' = [g \in Hosts |-> NotHosting]
    /\ UNCHANGED <<contracts, renewalDeals, clock, triggers, disputed>>

RenewalNext ==
    \/ handleAddContract
    \/ Wait
    \/ \E g \in Hosts :
          \/ handleTriggerRenewal(g)
          \/ Claim(g) \/ Draft(g) \/ Revert(g)
          \/ SaveRenewal(g) \/ Conclude(g)
    \/ RenewalCrash

RenewalSpec == RenewalInit /\ [][RenewalNext]_renewalVars

-----------------------------------------------------------------------------

RenewalTypeOK ==
    /\ contracts \in [Contracts -> ContractRow \cup {NoRenewalRow}]
    /\ renewalDeals \subseteq Renewal
    /\ clock \in Instants
    /\ \A g \in Hosts : \/ host[g] = NotHosting
                        \/ /\ host[g].contract \in Contracts
                           /\ host[g].row \in ContractRow
    /\ triggers \in 0..MaxTriggers
    /\ disputed \subseteq Contracts

RenewalsOf(c) == {d \in renewalDeals : d.contract = c}

(***************************************************************************)
(* A contract is renewed once, at the price that was negotiated for it,    *)
(* however its renewal is interrupted, as long as no second one was under  *)
(* way: there is at most one deal, a contract still "active" has none, and *)
(* a renewed contract costs what its deal says.  (A contract whose renewal *)
(* was cut short may stay "negotiating" for good.)                         *)
(***************************************************************************)
RenewedOnce ==
    \A c \in Contracts \ disputed :
        /\ Cardinality(RenewalsOf(c)) <= 1
        /\ contracts[c].status = "active" => RenewalsOf(c) = {}
        /\ contracts[c].status = "renewed" =>
              \A d \in RenewalsOf(c) : contracts[c].price = d.to

(***************************************************************************)
(* The two reports of what is due round a day in opposite directions and   *)
(* still agree on what matters: a contract due within 60 days is in just   *)
(* one bucket of the reminders, whatever the calendar calls urgent is      *)
(* critical or soon there, and whatever is critical there is urgent.       *)
(***************************************************************************)
RemindersAgree ==
    LET r == Reminders
        check == handleCheckRenewals(60)
    IN  /\ r.critical \cup r.soon \cup r.upcoming = ListContracts("active", 60)
        /\ handleCheckRenewalReminders.total =
              handleListContracts("active", 60).count
        /\ \A a \in check.alerts : a.contract \notin r.upcoming
        /\ \A c \in r.critical : \E a \in check.alerts :
              a.contract = c /\ a.action = "urgent"
=============================================================================
