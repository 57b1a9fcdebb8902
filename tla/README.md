# A2A Negotiation MCP — verification project

TLA+ models of the Go server in `src/`: the negotiation of software prices over
MCP tools and over an agent-to-agent (A2A) HTTP interface, the records these
negotiations leave in one SQLite database, and the two market places beside
them. TLC checks the models on small instances; TLAPS proves the central facts
about them for every value of the constants. `PROJECT.json` lists the
components, the runs, the source lines of every definition, the hazards and
the theorems.

## 1. The system

One process (`cmd/server/main.go`) opens one SQLite database and builds about
ninety small engines over it. It serves

- MCP tools over stdio (`internal/server/tools.go`): each call runs on a
  goroutine of the MCP library's pool;
- A2A over HTTP (`internal/a2a`): each request has a goroutine of its own, and
  the command line client (`cmd/cli`) is one of its callers.

Calls therefore interleave. Apart from `strategymarket.RateStrategy` and
`pricing.SeedFromCSV` no operation modelled here opens a transaction, so what is
atomic is one SQL statement, and a failure or a crash can come between any two
of them. Many handlers log a failed write and go on.

| component | state | operations that change it | what makes it hard | correct when |
|---|---|---|---|---|
| negotiation (`negotiation`) | a session value passed in | `CreateSession`, `RunNegotiation` | boundaries of rounds, rounding, thresholds | every run ends, in a deal, with the rounds it reports |
| sessions (`server/tools.go`, `history`) | tables of sessions, rounds, deals | create, run, query | read, compute, write back; errors ignored; crashes | the tables agree with each other |
| parallel (`parallel`) | result list under a mutex | `RunParallel` | completion order, one goroutine failing | the winner is the best of all sessions, and on record |
| reputation, gamification, learning | a row per vendor or user | `UpdateReputation`, `RecordNegotiation`, `RecordOutcome` | read-modify-write | rows summarise the deals made |
| vendor health (`health`) | signals, scores | `RecordSignal`, `GetLeverage` | insert, read back, store: a slower call stores an older score | the score is that of the signals |
| A2A mandates (`a2a`) | table `mandates` | create, settle, cancel, expire | racing requests, lost replies, restarts | decided once, one winner |
| A2A admission (`a2a`) | key map, windows | `GenerateKey`, `Allow` | window boundaries, restart | bursts are bounded |
| marketplace (`marketplace`) | listings, offers, transactions | list, offer, accept | a sale is three writes | seats are sold once, at an agreed price |
| sell (`sell`) | listings, bids | list, bid, accept, expire | stale status written back | one buyer, the best bid |
| renewals (`calendar`, `reminders`) | contracts | `TriggerNegotiation` | whole-row write of a stale row, rounding of days | renewed once, both reports agree |
| service levels (`sla`) | contracts, breaches | record, claim, report | check, then unconditional update | paid once, reported in full |
| approvals, signatures (`approvals`, `esignature`) | requests | approve, reject, sign | check, then unconditional update | a verdict stands |
| strategies (`strategymarket`, `sharedstrategies`) | ratings, uses | rate, import | a transaction that must fail rather than wait | every vote counts |
| groups (`group`) | groups, members, offers | join, offer | members join while an offer is computed | more members never pay more |
| webhooks (`webhooks`), notices (`notify`, `slack`) | subscriptions, preferences, log | dispatch with retry, send | lost answers, unregistering, a client replaced while it sends | subscribers are served, the log is true |
| budgets (`budget`, `budgetmgmt`, `budgetalerts`, `spendingcaps`, `costallocation`) | budgets, caps, shares, alert log | set, roll over, check | up to six statements while deals arrive; four ways to sum the same deals | no money appears, sums agree |
| reports (`reports`, `metrics`, `winloss`, ...) | none | sequences of SELECTs | rows arrive, midnight passes between two of them | parts and wholes agree |
| prices (`pricing`, `dataimport`, `pricingrefresh`, `trends`, `pricealerts`) | vendors, prices, snapshots, rules, baselines | seed, import, refresh, enable, check | row ids, columns by position, a write under an open query | quotes are what was written, alerts are real |
| process (`cmd/server`, `shutdown`, `healthcheck`, `apidocs`, `autocomplete`) | open or closed database, stores that were built | start, signal, shutdown tool | closing under calls in progress, stores that are nil | answers are true |
| operator (`apikeyrotation`, `ipwhitelist`, `serverconfig`) | keys, addresses, settings | rotate, add, remove, import | two operators, partial imports, restart | one active key, what was answered is so |
| command line (`cmd/cli`) | none | one request per run | words and flags, repeated runs | exit code 0 only for what was done |
| the rest | rows that nobody's control flow depends on | inserts, aggregation | | not modelled (section 8) |

## 2. Modules

```
NegotiationEngine      arithmetic and closed form of RunNegotiation
 |- NegotiationLoop    the round loop           MCNegotiationLoop: loop, concedes
 '- SessionRuns        sessions, store call by store call
     '- ParallelRuns   run_parallel on top      MCSessionRuns: sessions, gamified
Marketplace SellListings Renewals Claims Approvals StrategyMarket BuyingGroups
HealthScores CommandLine Operator Badges Learning
PriceList - ServerLife                          MCDesks: desks, slatotal, seed, cli
MandateLifecycle - A2AServer
Webhooks Notices                                MCA2AServer: a2a
Ledger - Budgets, Reports
PriceWatch                                      MCLedger: ledger, refresh, wins
```

The proofs are in NegotiationEngineProofs, NegotiationLoopProofs,
SessionRunsProofs, A2AServerProofs, DesksProofs, MCDesksProofs and LedgerProofs,
and lemmas about sums over sets in Sums. A
"desk" is a group of tables that shares no state with the others. An MC module
composes desks by letting the initial state choose one: a behaviour is about
that desk alone, so the states add up instead of multiplying, and every
property is checked on all of them. Desks that do share state are one module
stack (`Ledger` under `Budgets` and `Reports`, `PriceList` under `ServerLife`).

Common conventions. A goroutine is a program counter with what it remembers
(`call`, `clerk`, `host`, `watcher`, ...); each SQL statement is one action, and
a statement that may fail has a second outcome with the code's own reaction.
History variables only record what callers were told or which calls overlapped;
no guard reads them. Reads without effect are operators named like the handler.
Money is an integer, times are small integers, names are model values.

**NegotiationEngine** holds the strategy profiles and `RunNegotiation` as
functions of its terms. Money is in hundredths of a cent, so that a percentage
of a price in cents is exact and `math.Round(x*100)/100` is `RoundToCent`. The
code computes in binary floating point; an offer that falls exactly on half a
cent may be rounded the other way by it. `CreateSession` also applies a cultural
adjustment and, if a health engine is attached, leverage constraints: the first
changes a local copy of the strategy that `RunNegotiation` looks up again, the
second is never attached (`SetHealthEngine` has no caller), so neither changes
any state.

**NegotiationLoop** is the loop as written. Its walk-away branch and the
"rejected" outcome have no action, because `SellerNeverRefuses` shows them
unreachable; `ComputesResult` ties the loop to the closed form, which lets the
modules above treat a negotiation as one step.

**SessionRuns** has one variable per table. `StartRun` is the read and the
status check of `run_negotiation`, followed by `RecordOutcome`, `UpdateSession`,
`SaveRounds`, `SaveDealOutcome`, `ReadReputation`, `UpsertReputation` and, only
when a reputation call failed, `ReadStreak`, `UpsertStreak`, `AwardBadges`.
`StartNegotiate` and `SaveSession` are `POST /a2a/negotiate`. `Crash` ends all
calls. Autopsies and the audit log are left out: nothing modelled reads them.
The gap of 48 hours that restarts a streak is a free choice.
**ParallelRuns** adds `run_parallel`. Only the default case of `selectWinner` is
modelled: the strategy argument is also passed to `CreateSession`, which refuses
"best_discount" and "fastest".

**Marketplace** and **SellListings** are the tables of a market place each.
`RejectBid` and the haggling limit of `PlaceBid` only read; `CheckExpired` has no
caller in the server but is part of the engine, so it is modelled. The terms of
a row never change, hence what a call remembers of a row is its id.

**Renewals** counts half days, because `CheckRenewals` truncates hours and the
reminders compare dates. The session and rounds a renewal saves have ids nobody
else knows and are left out. **Claims** keeps a vendor and its service as one
value. **Approvals** has approvals and signature envelopes in one table of
requests: they share the shape of their decisions and nothing else.
**HealthScores** stores a signal's weight; its type only words the suggestion.
(`health_signals` has a foreign key on `vendor_health`, whose row is written
later; SQLite does not enforce it unless told to, and the server does not.)
**Badges** is what a run does for its user, for several users at once: the row
is read and written whole, read again, and badges are inserted one by one. The
dates of badges are left out, and so is the learning engine of the check, which
is never attached. **Learning** keeps the outcomes as the groups its statements
read (vendor and strategy, with deals and discounts).
**StrategyMarket** models SQLite's locks, which decide what two overlapping
ratings do. **BuyingGroups** has the tiers of the price as functions of the
members and of their demand.

**PriceList** models row ids, because `SeedFromCSV` takes the id of a vendor
from `LastInsertId` of an `INSERT OR IGNORE`; `guessed` records where that, or
a file in another layout, made the code guess. **ServerLife** runs processes one
after the other on that database: stores opened in order (`OpenCoreStores`,
`OpenServiceStores`; those whose error is dropped are left nil), seeding, calls,
the shutdown tool, signals and crashes. **CommandLine** has the words of a line
as elements and models which of them become part of the request and what
`HandleTask` and `HandleNegotiate` do with it. **Operator** has keys, addresses
and settings; the first two die with the process.

**Webhooks** is `Dispatch` with its retries: the list is read once, deliveries
go one after the other, each with up to `Backoffs` + 1 posts. The receivers of
`Up` always answer, the others may or may not get what was sent. `Register`,
`Unregister` and `Dispatch` have no caller in the server outside tests.
**Notices** are notifications over a channel that is read before it is used; the
types a user enables and the digest setting are left out because nothing that
sends reads them.

**Ledger** is what budgets and reports sum: deals and sessions with an instant.
A month is thirty days, a quarter ninety and a year twelve months. Periods are
compared as text: bound instants cut a day in two, SQLite's own `datetime('now',
...)` has a space where the rows have a T and takes the whole day; both are
modelled. The strategy of a session is left out. **Budgets** has the budgets
with rollover, the alerts, caps and cost shares, and rounds a forecast and the
parts of a department where the code does; **Reports** each report as the
list of its statements, without a vendor filter and for exports of type "all",
and without the metrics that count other packages' rows. **PriceWatch** has
prices, snapshots, rules and baselines, and the lock of an open query. A rule is
about a product or, without a SKU, about a vendor, and then `GetLatest` is the
latest price of any of its products, one of several if their dates are equal
(`About`). A restart may add all the rows of a seed file (`seedSnapshots`),
whose prices and dates are free, to a table that has them already. Prices are
cents, and a refreshed one is rounded to a cent as in the code, so a very cheap
product (below 5.18) can seem to fall by six percent although its list price has
not changed. `PriceAlertsAreReal` says what is left: the two prices are of
snapshots the rule is about, the later one not older, of one product if the rule
names one; and what it says of the list price is about refreshed snapshots.

**A2AServer** models admission (`Admit`: key, then fixed window), the handlers
(one SQL statement each, then the reply), lost replies and restarts.
`ExpireMandates` has no caller either. **MandateLifecycle** is the abstract
promise: open, then settled or cancelled for good, and acknowledged at most
once; `DecidedOnce` is the refinement, with the mapping `decisionBar` from the
status column.

## 3. Runs

| run | what is checked | result |
|---|---|---|
| `loop` | `TypeOK`, `SellerNeverRefuses`, `ComputesResult`, `AlwaysConcludes` | pass |
| `sessions` | `TypeOK`, `RowOfOneRun`, `DealIsBacked`, `RoundsHaveNoGap`, `ExactWhenUndisturbed`, `ReputationIsPlausible`, `WinnerIsCheapest`, `AnswerIsOnRecord`, `CompletedIsFinal` | pass, 527 000 states |
| `desks` | `MCTypeOK`; seats: `ExtraSalesAreRetries`, `StatusIsBacked`, `SaleIsAgreed`, `CompletedExactlyWhenSold`; items: `SoldOnceForGood`, `SoldToABid`, `AuctionIsHonoured`; renewals: `RenewedOnce`, `RemindersAgree`; claims: `PaidOnce`, `ReportCoversPayouts`; approvals: `VerdictStands`; strategies: `EveryVoteCounts`; groups: `TogetherIsCheaper`; server: `PricesAsWritten`; health: `ScoreIsCurrent`; server, commands, operator, badges and learning: `RepliesAreHonest` | pass, 612 000 states |
| `a2a` | `MCTypeOK`, `BurstIsBounded`, `OneWinner`, `DecidedOnce`, `DeliveryIsHonest`, `DispatchReturns` | pass, 293 000 states |
| `ledger` | `MCTypeOK`, `AlertsAreReal`, `BooksAgree` | pass, 519 000 states |
| `gamified`, `concedes`, `slatotal`, `refresh`, `wins`, `seed`, `cli` | one property each | violated, see section 7 |

`RepliesAreHonest`, `DeliveryIsHonest`, `AlertsAreReal` and `BooksAgree` each join
the named properties of the modules under their MC module (`AnswersAreTrue`,
`ExitIsHonest`, `OneActiveKey`, `AllowedAsAnswered`, `ImportedAsAnswered`,
`BadgesAreEarned`, `AdviceIsDrawnFromDeals`;
`EachTargetServed`, `NoticesAreHonest`; `PriceAlertsAreReal`,
`BudgetAlertsAreReal`; `RolloverIsRecorded`, `SpendingAgrees`, `ReportsAgree`).

Several properties say what still holds when the code's weak spots are hit:
duplicate deals do occur in the model, and so do lost reputation updates,
double sales, double renewals and payouts, overturned verdicts and stale
scores. `ExactWhenUndisturbed`, `ExtraSalesAreRetries`, `SoldOnceForGood`,
`CompletedExactlyWhenSold`, `RenewedOnce`, `PaidOnce`, `VerdictStands` and
`ScoreIsCurrent` say exactly when they do not (no overlapping calls on the same
row, some of them: no failed call); `DealIsBacked`, `RowOfOneRun`,
`StatusIsBacked`, `SoldToABid`, `ReputationIsPlausible`, `EveryVoteCounts` and
`TogetherIsCheaper` hold even then.

**Bounds.**
`loop`: every strategy; prices 0, 1 cent, 5 cents, 101.00 and 100 000.00 with
budgets and thresholds below, inside and above the range of offers and "none";
round limits none, 1, 2 and too many. Every condition of the loop is met on
both sides; the theorems of section 5 remove the bounds.
`sessions`: two sessions of one vendor, two goroutines, 2 calls, 1 failed store
call or crash, and one parallel call of 2 sessions. The goroutines of a parallel
call are two calls, so a third is allowed beside it (`MCBound`): a
`negotiate_run_negotiation` on one of its sessions, before, while or after the
goroutine has it, up to the answer and without faults. Two calls are what
overlapping needs; the drafts end in the first round or in the last, with the
threshold in between, so runs of one session can differ. One fault shows every
partial effect; more of them only combine effects of different calls.
`desks` (the comment of MCDesks says what each desk contains): two goroutines
each, which every race here needs and no race needs more of; one or two rows;
prices, seats, dates, outages, weights and quantities on both sides of each
threshold of the code; up to two interrupted calls on a listing, so that a retry
of a retry occurs; three triggers of one contract at thirteen instants, the two half days on
either side of each bucket and each urgency of the reminders; three
ratings; five members, which reach the third size tier; two starts of the server
with two calls (`MaxStarts`, `MaxCalls`), files in the three layouts; two runs of
nine command lines; three keys, three changes, one restart; two signals;
three deals of a newcomer and of a user who is two short of two badges; eleven
to thirteen outcomes, on both sides of a confidence and of an average.
`a2a`: two mandates, two requests, one client, `Rate` 2 per `Window` of 2 ticks,
`MaxTime` 4, lifetimes of 1 and 3 ticks so that mandates fall due while a request
works on them; one dispatch with all `Backoffs` of the code to two subscribers,
one of which always answers; two notices to two addresses.
`ledger`: two deals and one session, at four instants: two on one day, one that
is thirty days later, one in the next quarter; `MCBound` says which desk uses
which part of them (two months with one rollover at a time in each direction, one
cap, one alert, and so on), because all together would be out of
reach; `DesksSpec` is the same without these bounds, and what is proved is about
it. The instants are in the eighth month and after, and a budget of 95 is what
the two deals come to, so a forecast is rounded up past a budget that was spent
exactly. List prices are 5.18, the least at which rounding cannot pretend a fall, and
10.00, and a refresh varies them by the full three percent up or down. Two
products are of one vendor and a third, the cheapest, of another; of the two seed
files one has two prices of a day far apart, for alerts without a SKU, the other a
price of zero and a later one six percent lower at the same list price. An alert
is on a product or on its vendor, and with seeded rows there is one refreshed
one at most. Shares are
a quarter and three quarters, which divide the cost of a deal with a remainder.
`ReportsAgree` needs two rows and one failed statement.
The violation runs use the constants of `desks` and `ledger` with one desk each.

**Symmetry** is used for ids and goroutines only. `desks` exchanges both members
of all pairs at once (one permutation); `a2a` permutes mandates and the
goroutines of requests, which its liveness property and the fairness it needs
never mention.

**Deadlock.** The loop, the sessions and the desks stop when their bounded calls
are used up, and their cfg files say so. `a2a` checks deadlock: requests always go
on, and the other two desks may stop only through `Quiet`.

**Fairness.** `AlwaysConcludes` assumes `WF_vars(Next)`: the loop is sequential Go
code without waiting. `DispatchReturns` assumes weak fairness of the two steps of
a dispatch that has begun: a post ends with the client's timeout at the latest
and a timer fires. No other module assumes anything about progress.

## 4. Mutants

Every property of a passing run has a mutant, a definition named after
the bug and marked "Mutated:" next to the definition it replaces (an unclamped
round limit, a missing status check, a status left out of an UPDATE, the wrong
comparison in `selectWinner`, a read without its lock, a tier off by one, an id
taken without looking it up, ...). The run fails on that property when the
mutant is put in place.

## 5. Proofs

- **NegotiationEngineProofs**: lemmas about the arithmetic (`LimitBounds`,
  `DiscountBounds`, `OfferBounds`, existence and uniqueness of `LastRound`,
  `RoundsShape`).
- **NegotiationLoopProofs**: `TypeCorrect` (`TypeOK`), `NeverWalksAway`
  (`SellerNeverRefuses`) and `ComputesClosedForm` (`ComputesResult`), for every
  set of inputs. `ComputesResult` speaks of ended runs only and is not
  inductive; `LoopInv` adds that a running loop has recorded exactly the buyer's
  rounds so far and that no earlier round ended it, which makes the current
  round the `LastRound` of the closed form when it ends. `BuyerNeverConcedes`
  (`OffersNeverRise`) makes a statement about every session of what the run
  `concedes` shows of one: from a round to any later one the offer never rises.
- **SessionRunsProofs**: `TypeCorrect` (`TypeOK`), `RowOfOneRunAlways`,
  `DealIsBackedAlways` and `CompletedIsFinalAlways`, for the specification with
  parallel runs and any numbers of sessions, goroutines and vendors. None of
  the properties is inductive: a table is written from what a goroutine
  remembers. `CallInv` therefore ties every busy goroutine to the one entry of
  `ran` it carries out, `RanInv` numbers those entries, and `RowInv` says that a
  row keeps the draft its runs were started with, and that a session an A2A
  call is about to save is still nobody else's, so the insert cannot reopen a
  completed session. `RoundInv` gives each row of the round table its run; with
  `RoundsShape` and the uniqueness of the numbers this bounds the rounds of a
  deal. Proofs go by `StoreStep`, the actions of both modules reduced to what
  they do to the store.
  *What the tables have in common*: `RoundsHaveNoGapAlways`, `ExactAlways`
  (`ExactWhenUndisturbed`), `ReputationIsPlausibleAlways`,
  `WinnerIsCheapestAlways` and `AnswerIsOnRecordAlways`, on top of that
  invariant and with faults and crashes. `RecordsInvariant` is what
  they share. `StageInv` says what each run has put in the tables by the stage its
  call is at, for as long as nothing has failed; `NoRoundsYet` that a run which
  has not reached `SaveRounds` has no rounds, so that a run saves them once.
  `LoneVendor` and `LoneSession` turn "no overlap was recorded" into "no other
  goroutine is at this vendor or session". `CountInv` bounds a reputation row, and
  what a goroutine has read of it and not yet written back, by the number of runs
  that are past the count; `CountsAll` makes that an equality without faults and
  overlaps. `BatchInv` follows each session of a parallel call from `pending`
  to a goroutine and into `results`, each exactly once. `selectWinner` is
  a recursive function of the list; `CheapestIsCheapest` says what it finds, by
  the least element of a set of counterexamples (`LeastMember`), which is induction in a form
  without operator parameters.
  `GamifiedOnlyAfterFailure` (`NothingIsGamified`) is the general form of what the run
  `gamified` shows: as long as nothing has failed, no call is in the
  gamification block and the user's row is untouched.
- **DesksProofs**: a section for each desk whose calls read a row and write it later.
  *Marketplace*: `MarketplaceTypeCorrect`, `StatusIsBackedAlways`
  (`StatusIsBacked`), `SaleIsAgreedAlways` (`SaleIsAgreed`),
  `ExtraSalesAreRetriesAlways` and `CompletedExactlyWhenSoldAlways`, for any
  numbers of listings, offers and goroutines. `MarketInv` adds what a goroutine in the
  middle of a call remembers: that its listing exists, that the offer id it has
  drawn is still its own, and that every write before its stage has been made.
  Rows are only ever added to (`RowsGrow`), so a sale that was agreed stays so.
  The last two theorems are about listings where no calls overlapped, and rest on
  `SalesInv`: the goroutine at such a listing is the only one and found it
  active (`LoneAt`); each sale but one is of a call that went wrong, and that
  one too while the listing is active and nobody is past the transaction
  (`CountAt`); without failures the statuses lack only what the call under way
  has yet to write (`SettledAt`). Calls at other listings leave all of it
  alone (`Untouched`).
  *Sell-side listings*: `SellListingsTypeCorrect`, `SoldToABidAlways` (`SoldToABid`),
  `SoldOnceForGoodAlways` (`SoldOnceForGood`) and `AuctionIsHonouredAlways`
  (`AuctionIsHonoured`), for any numbers of items, bids and goroutines. The
  last two speak of items at which no two calls overlapped, and depend on what a
  goroutine read some writes ago. `SellInv` says that this is still true while
  the goroutine is alone with its item: nothing has been sold, the item still takes
  bids (unless it is being sold directly), the best bid is still the best, and an
  auction about to be withdrawn has
  no bid. Ids of bids belong to one goroutine until they are inserted, and
  later rows never move to another item.
  *Approvals*: `ApprovalsTypeCorrect` and `VerdictStandsAlways`
  (`VerdictStands`), for any numbers of requests and goroutines.
  `VerdictStands` is a property of a step; the state invariant under it is
  `ApprovalInv`: two goroutines at one request make that request contested, and
  a goroutine that is alone with it still finds it open and without a verdict.
  *Claims*: `ClaimsTypeCorrect` and `PaidOnceAlways` (`PaidOnce`). `ClaimInv`
  says that a goroutine holds a recorded breach and the credit due for it, and
  that one which is alone with its breach still finds it unfiled, so it makes the
  first payment; `CreditWithinCap` is the arithmetic of `calculateCredit` for
  every outage, cap and spend.
  *Renewals*: `RenewalsTypeCorrect`, `RenewedOnceAlways` (`RenewedOnce`) and
  `RemindersAgreeAlways` (`RemindersAgree`). `HostAt` says what the table has of
  a contract at each stage of its renewal, and `RenewalAt` what it has of one that
  no two renewals were at: a deal exists only past the stage that saves it, and
  "negotiating" keeps everybody else out. A renewal runs on the price the
  last one came to, so the types need that result in whole cents
  (`FinalOfferInCents`). `DaysAgree` bounds the
  difference of the two counts of days; the total of the reminders needs that
  only finitely many contracts are on record.
  *The report of claims*: `ReportCoversPayoutsAlways` (`ReportCoversPayouts`).
  The report adds up per contract, the property per month: the breaches a contract
  is credited with are the parts of a cover of the month (`SumOfParts`), which overlap only
  where a service has two contracts. That is also why the total is not correct in the
  run `slatotal`.
  *Strategy market*: `StrategiesTypeCorrect` and `EveryVoteCountsAlways`
  (`EveryVoteCounts`). A transaction holds SQLite's lock from its first read, so that
  what it has read is still the row when it commits (`TxRuns`), and the row is
  the count and the sum of the votes (`VotesInv`); an import increments
  the row as it is, and what it reports was read before (`SharingInv`).
  *Buying groups*: `GroupsTypeCorrect` and `TogetherIsCheaperAlways`
  (`TogetherIsCheaper`). Members only join, so an offer computed stays what the
  members it was computed for want (`Computed`); demand grows with the
  members (`SumOfPart`), the discount with demand and members, and the price falls with
  the discount, rounded as it is.
  *Health*: `HealthTypeCorrect` and `ScoreIsCurrentAlways` (`ScoreIsCurrent`). A
  goroutine that is alone with a vendor carries the score of the signals it
  has read, and nobody has added one since; a vendor that no goroutine is at and
  that is not marked has the score of its signals, and that is between 1 and
  100, each score in one category (`HealthInv`).
  *Operator*: `OperatorHonestAlways`. Of the keys that descend from one key exactly
  one is active, because a rotation revokes and inserts in one step (`KeyInv`);
  the list of addresses is what the answers say, because additions and removals
  are answered by the row they changed (`AddressInv`); an import under way has written
  the entries up to where it is, but for those others wrote (`ConfigInv`).
  *Command line*: `CliHonestAlways`. `CliInv` follows the runs: the mandates number
  at least the runs of negotiate the server has accepted, each of which is
  past that step for good. `OtherCommandsFailAlways` generalises the run `cli`: a
  run that exits with 0 is of `query` or `negotiate`. *Learning*: `AdviceIsDrawnFromDealsAlways`. The deals
  per vendor and the deals per strategy are sums over the same pairs
  (`CountedTwoWays`), and what a scholar counted is at most what the table
  holds later, with equality while nothing was recorded (`InsightAt`).
- **MCDesksProofs**: the remaining desks, and all of them together.
  *Price list and server*: `PricesAsWrittenAlways` (`PricesAsWritten`) and
  `AnswersAreTrueAlways` (`AnswersAreTrue` with the types), for any callers, files,
  imports and restarts. `Agreeing` says that the two tables are one price list: each
  row is of a vendor, there is one for each vendor and SKU, and it has the price
  last written. A seed file is a fold over its rows, with its cache and the id of the last
  insert, and what it says is a fold as well; `Steps` gives both, and the parsing of an
  import, as one recursive function over the numbers of the rows, so that one
  induction (`FileSeeded`) takes them forward together. The ids that the code
  mixes up are the reason for `lost`: a row written under another vendor's id is
  what `guessed` excludes. `CallsInv` follows the calls: the ids they hold are those of
  vendors on record (`Holding`), because vendors are never deleted, and no mark against
  them is ever made (`Honest`); once the shutdown tool has answered the database is
  closed for good (`MainInv`), so a later call comes to nothing.
  *Badges*: `BadgesAreEarnedAlways` (`BadgesAreEarned` with the types). Overlapping
  calls lose updates, so a row has no fixed relation to the deals of its user;
  `Behind` says what stays: a row of the table, and one that a goroutine has
  read and not yet written, lacks at least the deals that are counted and still
  owed to it, and lacks no savings beyond those if it lacks no other deal. That
  is a sum over the goroutines that are on their way to the row (`Late`,
  `Worth`). A badge therefore stands for recorded deals (`DeservedInv`). In the other
  direction `WillGive` names, for each badge a row qualifies for and the user does not have,
  a goroutine that has yet to read the row or to insert the badge (`GivenInv`).
  *The desks together*: `DesksTypeCorrect` (`MCTypeOK`), `RepliesAreHonestAlways`
  (`RepliesAreHonest`) and `DesksKeepTheirPromises` (all other invariants of the run) are
  about `MCSpec`, the specification that the run `desks` checks. Each step of
  the desks together is a step of one of them and a stutter of every other
  (`MarketStepOfDesks` and its like), so that what was proved of a desk holds of the
  composition.
- **Sums**: what a sum over a finite set comes to. `MapThenSumSet` folds over a set
  in an order it chooses; `SumsUp` is its recursive function, `SumsExist`
  and `SumsAgree` that there is exactly one, and the lemmas after them what adding an
  element, taking a part, or covering by parts does to the sum. All are inductions, which the
  library's theorems cannot give here because these take the formula as an operator.
  `AllNumbers` and `AllSubsets` state induction without one: a set that has
  {} and with every T also T with one element more has all subsets of a finite set.
  `NatLessThanWellFounded` is what they rest on.
- **A2AServerProofs**: `TypeCorrect` (`A2ATypeOK`, a part of `MCTypeOK` in the
  run `a2a`), `OneWinnerAlways`
  (`OneWinner`), `Refinement` (`DecidedOnce`) and `BurstIsBoundedAlways`, for any
  numbers of mandates, requests and clients, any rate and window. `OneWinner` is made inductive by the types alone
  (`WinnerInv`): a request can only get a verdict to report from a status that
  no other pending reply, and no acknowledged mandate, can have. The refinement
  follows from it step by step: deciding maps to `Decide`, acknowledging to
  `Tell`, expiring to `Expire`, everything else to a stutter. `BurstIsBounded`
  counts requests in stretches of time that do not line up with the limiter's
  windows; `Windowed` says where they lie: the last `count` of them are in the
  open window, the first of those opened it, the others came before, and fewer
  than the rate of the others within one window's length (`OpenWindow`),
  because the request that opened their window is at least that old by then.
  The module extends MCA2AServer, so that its theorems are about the run's own
  specification: `DeliveryIsHonestAlways` (`DeliveryIsHonest`) and
  `PeersTypeCorrect` (`MCTypeOK`), for any subscribers, events, pauses, senders
  and addresses. `PartsOf` splits the subscribers a dispatch has read into those
  to come, the one it is busy with and those it has dealt with, and `Served`
  says how often each has seen the event by then: never, at most as often as a
  try has failed, or at least once unless it was given up, which a subscriber
  that answers only is when the call was cancelled. `SenderAt` follows a notice:
  not logged while a goroutine has it, not posted before its turn, posted once
  it is taken for sent.
- **LedgerProofs**: `TypesHoldAlways` (`MCTypeOK`), `AlertsAreRealAlways`
  (`AlertsAreReal`) and `BooksAgreeAlways` (`BooksAgree`), for any vendors, terms,
  months, departments, products and goroutines, and over `DesksSpec`, which has
  none of the bounds of the run (`BoundsLeaveOut`: a behaviour of the run's
  specification is one of it). `DesksInv` joins an invariant per desk.
  *Prices*: `WatchInv` says that every baseline and every price a watcher
  remembers is that of a snapshot the rule is about, and that a snapshot which was
  not seeded is within three percent of its list price and half a cent; snapshots stay, so the
  latest is never older than the baseline, and the threshold of an alert leaves
  between refreshed ones only a lower list price, or one too small for cents. Of
  the seed files nothing is assumed but that they name known products. `FileRefreshSavesNoneAlways`
  generalises the run `refresh`: with a database in a file no refresh has counted
  a row it saved when it replies.
  *Budgets*: `BudgetInv` says which deals the actual amount of an alert summed, the first so
  many of the table; `RolloverInv` balances each vendor's months against the
  rollovers on record and what a goroutine in the middle of one holds.
  *Sums of the same deals*: the four ways packages select deals of a month are
  compared by the lemmas of Sums; `SharedOut` bounds what rounding per department may add
  to a cost report, half a cent each, `RoundedParts` what rounding per vendor makes
  of a department's own report, and `ProjectionClose` what it does to a forecast,
  month by month.
  *Reports*: a report is a sequence of statements among which rows arrive.
  `Stated` says what the answer of each statement tells of the tables at any later time:
  no more than they hold now, and exactly that if nothing has come in since.
  `Pairs` says how two answers relate that were given to one report; later
  ones see more (`StatementsInOrder`), and what the report ends with follows
  from these pairs. `ReportInv` carries both through every step of a report.

Assumptions: the named `ASSUME`s of the modules, which TLC evaluates in the
runs. They say what the code's configuration guarantees (rates and windows are
positive, key files hold known clients) and that the null values are distinct.
Sets that are summed over (vendors, months, departments, goroutines, products) are
finite. One says more than the code checks: the prices of BuyingGroups are natural
numbers, as in the price list that is shipped, while an import takes negative ones
too. Seed files are assumed to be in one of the three layouts of columns that the
documentation and the code name, with any whole amounts, below zero too; imports
are any lists of records. A user's row starts with a current streak no longer than
its longest, as `RecordNegotiation` keeps it. Nothing is assumed of the period of
a report, because `parsePeriod` takes any number of years; the yearly change of the vendor spend report sums the last year
whatever was asked, and the clause of `ReportsAgree` that compares it with the
total is about periods of at most a year (720 half days).

Only model-checked is liveness (`AlwaysConcludes`, `DispatchReturns`): fairness is
out of TLAPS's reach. Every other property of the passing runs is a theorem, and
so is the type invariant of every run. The properties of the violation runs are
refuted by TLC; for four of them a theorem says what the code does instead, in
every behaviour and not only in the counterexample.

## 6. Plan

Done: every component whose operations change state that other operations
depend on has a module and a run. What is left:

- Trends and the statistics over snapshots against a reference definition.

## 7. Findings

Each is a run of its own that TLC ends with a counterexample.

- `gamified`: `handleRunNegotiation` records gamification data inside
  `if err := ...UpdateReputation(...); err != nil` (`tools.go:1949`), although
  the comment there says "Record gamification data after successful
  negotiation". A faultless successful run is not counted.
- `concedes`: the strategy descriptions say the buyer concedes
  (`strategies.go:21`); the offers of `RunNegotiation` fall in every round
  because the "concession" is added to the discount (`engine.go:162`).
- `slatotal`: the SLA report adds a service's breaches once per contract of the
  service (`sla/engine.go:147`); the comment says "the total agg is correct".
- `refresh`: `refresh_pricing` writes while its own query is open
  (`pricingrefresh/engine.go:113`). In the shared memory of the tests that works;
  in the file of the server nothing is saved, and the error is only logged.
- `wins`: metrics and reports count "won" and "lost"; negotiations store
  "accepted" (`metrics/engine.go:103`, `negotiation/engine.go:193`).
- `seed`: the CSV layout the README documents, and the file it ships, is read by
  other columns (`pricing/db.go:144`): the SKU becomes the description, the list
  price the lowest price seen, and the typical discount 0.
- `cli`: the server knows four tasks; the client sends a task per command, so
  most of the README's examples end with "unknown task" (`a2a/handler.go:64`).
  Flags after the first positional word, as in `negotiate Slack Pro --strategy
  balanced --budget 7`, are ignored besides.

Met while modelling, modelled as they are, and without a run of their own:

- the engines behind the API documentation and autocompletion are built before
  the server they describe and keep a nil pointer (`cmd/server/main.go:473`, 479;
  the assignments at 651 and 653 come after the engines were handed over), so
  their tools panic; several stores whose error is dropped stay nil likewise;
- the snapshots of a seed file are inserted again at every start
  (`cmd/server/main.go:260`; the comments at 258 and 720 say "first-run only" and
  "a first-run operation"), and an ignored insert leaves `LastInsertId` at another row (`pricing/db.go:160`);
- an SKU without a price is negotiated from the budget as its list price, and
  `HandleNegotiate` answers 200 although the session could not be saved;
- `RotateKey` loses the owner of a key and finds none in the server, where
  `AddKey` has no caller; the allow-list is enforced nowhere;
- the shutdown tool closes the database and leaves the process running;
- a rollover repeated or run twice adds the same unused amount again, which
  `RolloverIsRecorded` allows since each is on record; a cap with an unknown period is
  never reached; budgets ignore seats and cost shares count them;
- an alert without a SKU compares the latest prices of its vendor, which may be
  of two products (`trends/store.go:109`), so the fall it reports need not be one
  of any product;
- spending exactly the budget may be forecast as "at_risk", because only the
  projection is rounded (`budgetmgmt/engine.go:115`: 0.04 of 0.04 by May), and a
  department's own report may differ by cents from the report of all
  (`costallocation/engine.go:196` and 95);
- an alert that is disabled keeps its baseline for the next one;
- `configure_slack` replaces the client while others use it, without a lock, and
  the "slack" channel of the preferences posts nothing but is logged as sent;
- `ImportConfig` answers an error with count 0 although entries were written;
- the comment at `webhooks/engine.go:93` says "Retries: 3 attempts"; there are
  three retries after the first post.

## 8. Not modelled

Listed with the reason for each in `PROJECT.json`:

- the statistics of `trends`, and autopsies of failed negotiations, of which
  there are none (`NeverWalksAway`);
- schedules, triggers, workflows, sandbox and A/B tests: rows that nothing
  executes;
- retention, backup, residency and compliance: simulated, without effect on the
  data they speak of; the rate limit manager, which the limiter never reads;
- reports that only aggregate, price arithmetic on arguments (`tco`, `slacredit`),
  text analysis and rendering, static catalogues;
- stores of independent rows (notes, logs, reviews, workspaces, billing, push
  messages), where an insert is followed by listings only;
- the registration of tools, their schemas and the read-only resources.

In the modelled components, text, formatting, ids, audit entries and log lines
are left out throughout.
