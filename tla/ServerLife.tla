----------------------------- MODULE ServerLife -----------------------------
(***************************************************************************)
(* A server process from start to exit and its successors (main of         *)
(* cmd/server), and the calls under way in it: quotes, imports of prices,  *)
(* health checks, the documentation and configuration tools and the        *)
(* shutdown tool, which closes the database and leaves the process running.*)
(*                                                                         *)
(* main opens the database, seeds it, opens one store after the other and  *)
(* serves.  A store that cannot be opened ends the process, save those     *)
(* whose error is dropped: their tools then work on a nil store.           *)
(***************************************************************************)
EXTENDS PriceList

CONSTANTS Callers,       \* tool calls that may be under way together
          Imports,       \* what import_data may be given: sequences of records
          MaxStarts,     \* bound: processes started, one after the other
          MaxCalls       \* bound: calls begun

ImportRecord == [vendor : Vendors, sku : Skus, list : Int]

ASSUME LifeAssumption ==
    Imports \subseteq Seq(ImportRecord) /\ MaxStarts \in Nat /\ MaxCalls \in Nat

VARIABLES
    pc,          \* where main is
    seedFile,    \* the file of the -seed flag, or NoFile
    dbOpen,      \* the pool of database connections has not been closed
    nilStores,   \* stores whose opening failed with the error dropped
    snapshots,   \* rows of price_snapshots
    call,        \* what each call does
    told,        \* history: the shutdown tool has answered in this process
    starts, calls

lifeVars == <<priceVars, pc, seedFile, dbOpen, nilStores, snapshots, call, told,
              starts, calls>>

NoFile == [layout |-> <<>>, rows |-> <<>>]

\* The stores whose error main drops: `config' stands for ratelimitmgr,
\* serverconfig and translation (assigned to _) and for toolbilling, scheduler
\* and aiperformance (err is assigned again before it is tested).
Unchecked == {"config"}

\* marks: history: "late" if the call began after the shutdown tool had answered,
\* "wrong" if it quoted another price than the one last written.
Idle == [op |-> "none", at |-> "idle", todo |-> <<>>, id |-> 0, done |-> 0,
         skipped |-> 0, answer |-> "none", marks |-> {}]

Ops == {"query", "import", "health", "docs", "config", "shutdown"}

LifeTypeOK ==
    /\ PriceTypeOK
    /\ pc \in {"down", "open", "seed", "core", "snapshots", "services",
               "operators", "build", "serving"}
    /\ seedFile \in Files \cup {NoFile}
    /\ dbOpen \in BOOLEAN /\ told \in BOOLEAN
    /\ nilStores \subseteq Unchecked
    /\ snapshots \in Nat /\ starts \in 0..MaxStarts /\ calls \in 0..MaxCalls
    /\ \A c \in Callers :
          /\ call[c].op \in Ops \cup {"none"}
          /\ call[c].at \in {"idle", "lookup", "addVendor", "lookAgain", "upsert",
                             "fetch", "ping", "select", "close", "panic"}
          /\ call[c].answer \in {"none", "ok", "error", "not found", "healthy", "degraded"}
    /\ dbOpen => pc # "down"

LifeInit ==
    /\ PriceInit
    /\ pc = "down" /\ seedFile = NoFile /\ dbOpen = FALSE /\ nilStores = {}
    /\ snapshots = 0 /\ call = [c \in Callers |-> Idle] /\ told = FALSE
    /\ starts = 0 /\ calls = 0

-----------------------------------------------------------------------------
(***************************************************************************)
(* Start-up.                                                               *)
(***************************************************************************)

Start(file) ==
    /\ pc = "down" /\ starts < MaxStarts
    /\ pc' = "open" /\ seedFile' = file /\ starts' = starts + 1
    /\ nilStores' = {} /\ told' = FALSE
    /\ UNCHANGED <<priceVars, dbOpen, snapshots, call, calls>>

\* os.Exit(1), or a panic in any goroutine: nothing is answered any more.
Die == /\ pc' = "down" /\ dbOpen' = FALSE
       /\ call' = [c \in Callers |-> Idle]
       /\ UNCHANGED <<priceVars, seedFile, nilStores, snapshots, told, starts, calls>>

\* pricing.NewStore: open, ping, migrate.
OpenDatabase ==
    /\ pc = "open"
    /\ \/ /\ pc' = "seed" /\ dbOpen' = TRUE
          /\ UNCHANGED <<priceVars, seedFile, nilStores, snapshots, call, told, starts, calls>>
       \/ Die

Seed ==
    /\ pc = "seed"
    /\ \/ /\ pc' = "core"
          /\ IF seedFile = NoFile THEN UNCHANGED priceVars ELSE SeedFromCSV(seedFile)
          /\ UNCHANGED <<seedFile, dbOpen, nilStores, snapshots, call, told, starts, calls>>
       \/ seedFile # NoFile /\ Die

\* Each store makes its tables when it is opened; an error ends main.
OpenStores(from, to) ==
    /\ pc = from
    /\ \/ /\ pc' = to
          /\ UNCHANGED <<priceVars, seedFile, dbOpen, nilStores, snapshots, call, told,
                         starts, calls>>
       \/ Die

\* Sessions, mandates, groups, listings, contracts, seats, health, SLAs, returns
\* and trends.
OpenCoreStores == OpenStores("core", "snapshots")

\* Webhooks, notices, budgets, alerts, workspaces, notes, approvals and so on.
OpenServiceStores == OpenStores("services", "operators")

\* seedSnapshotsFromCSV reads the same file; its errors are only logged.
SeedSnapshots ==
    /\ pc = "snapshots"
    /\ pc' = "services"
    /\ \E n \in {0, IF seedFile = NoFile THEN 0 ELSE SnapshotsOf(seedFile)} :
          snapshots' = snapshots + n
    /\ UNCHANGED <<priceVars, seedFile, dbOpen, nilStores, call, told, starts, calls>>

\* The stores of the operator's tools, among them those left nil.
OpenOperatorStores ==
    /\ pc = "operators"
    /\ \/ /\ pc' = "build"
          /\ nilStores' \in SUBSET Unchecked
          /\ UNCHANGED <<priceVars, seedFile, dbOpen, snapshots, call, told, starts, calls>>
       \/ Die

\* NewNegotiationServer gets the engines of the documentation tools before
\* there is a server to list; main then replaces its own variables only.
Build ==
    /\ pc = "build"
    /\ \/ /\ pc' = "serving"
          /\ UNCHANGED <<priceVars, seedFile, dbOpen, nilStores, snapshots, call, told,
                         starts, calls>>
       \/ Die

-----------------------------------------------------------------------------
(***************************************************************************)
(* Calls.  A statement on a closed pool returns an error.                  *)
(***************************************************************************)

BeginCall(c, op, todo, at) ==
    /\ pc = "serving" /\ call[c].at = "idle" /\ calls < MaxCalls
    /\ calls' = calls + 1
    /\ call' = [call EXCEPT ![c] = [Idle EXCEPT !.op = op, !.todo = todo, !.at = at,
                                                !.marks = IF told THEN {"late"} ELSE {}]]
    /\ UNCHANGED <<priceVars, pc, seedFile, dbOpen, nilStores, snapshots, told, starts>>

Alter(c, new) ==
    /\ call' = [call EXCEPT ![c] = new]
    /\ UNCHANGED <<pc, seedFile, dbOpen, nilStores, snapshots, told, starts, calls>>

Answer(c, a) == Alter(c, [call[c] EXCEPT !.at = "idle", !.answer = a])

\* handleQueryPrice: the vendor's id, then the row.
QueryLookup(c) ==
    LET q == call[c].todo[1]
    IN  /\ call[c].op = "query" /\ call[c].at = "lookup"
        /\ IF ~dbOpen THEN Answer(c, "error")
           ELSE IF vendors[q.vendor] = 0 THEN Answer(c, "not found")
           ELSE Alter(c, [call[c] EXCEPT !.at = "fetch", !.id = vendors[q.vendor]])
        /\ UNCHANGED priceVars

QueryFetch(c) ==
    LET q     == call[c].todo[1]
        found == PricesOf(Tables, call[c].id, q.sku)
    IN  /\ call[c].at = "fetch"
        /\ IF ~dbOpen THEN Answer(c, "error")
           ELSE IF found = {} THEN Answer(c, "not found")
           ELSE Alter(c, [call[c] EXCEPT !.at = "idle", !.answer = "ok",
                  !.marks = IF guessed \/ \A p \in found : p.list = meant[<<q.vendor, q.sku>>]
                            THEN @ ELSE @ \cup {"wrong"}])
        /\ UNCHANGED priceVars

\* importPricing, record by record; a failed statement skips the record.
Skip(c) ==
    Alter(c, [call[c] EXCEPT !.at = "lookup", !.todo = Tail(@), !.skipped = @ + 1])

ImportLookup(c) ==
    /\ call[c].op = "import" /\ call[c].at \in {"lookup", "lookAgain"}
    /\ call[c].todo # <<>>
    /\ LET v == call[c].todo[1].vendor
       IN  IF dbOpen /\ vendors[v] # 0
           THEN Alter(c, [call[c] EXCEPT !.at = "upsert", !.id = vendors[v]])
           ELSE IF call[c].at = "lookup"
           THEN Alter(c, [call[c] EXCEPT !.at = "addVendor"])
           ELSE Skip(c)
    /\ UNCHANGED priceVars

\* Mutated: the new row's id is taken to be the next one,
\* without looking it up, also when another call has added the vendor meanwhile.
ImportVendorById(c) ==
    /\ call[c].at = "addVendor"
    /\ IF dbOpen
       THEN /\ AddVendor(call[c].todo[1].vendor)
            /\ Alter(c, [call[c] EXCEPT !.at = "upsert", !.id = rowids["vendors"] + 1])
       ELSE Skip(c) /\ UNCHANGED priceVars

ImportVendor(c) ==
    /\ call[c].at = "addVendor"
    /\ IF dbOpen
       THEN /\ AddVendor(call[c].todo[1].vendor)
            /\ Alter(c, [call[c] EXCEPT !.at = "lookAgain"])
       ELSE Skip(c) /\ UNCHANGED priceVars

ImportUpsert(c) ==
    /\ call[c].at = "upsert"
    /\ IF dbOpen
       THEN /\ ImportPrice(call[c].id, call[c].todo[1])
            /\ Alter(c, [call[c] EXCEPT !.at = "lookup", !.todo = Tail(@), !.done = @ + 1])
       ELSE Skip(c) /\ UNCHANGED priceVars

ImportDone(c) ==
    /\ call[c].op = "import" /\ call[c].at = "lookup" /\ call[c].todo = <<>>
    /\ Answer(c, "ok") /\ UNCHANGED priceVars

\* healthcheck.Check: a ping and then a statement of its own.
HealthPing(c) ==
    /\ call[c].at = "ping"
    /\ IF dbOpen THEN Alter(c, [call[c] EXCEPT !.at = "select"])
                 ELSE Answer(c, "degraded")
    /\ UNCHANGED priceVars

HealthSelect(c) ==
    /\ call[c].at = "select"
    /\ Answer(c, IF dbOpen THEN "healthy" ELSE "degraded")
    /\ UNCHANGED priceVars

\* Mutated: answers, and leaves closing for later.
ShutdownAnswers(c) ==
    /\ call[c].at = "close"
    /\ told' = TRUE
    /\ call' = [call EXCEPT ![c].at = "idle", ![c].answer = "ok"]
    /\ UNCHANGED <<priceVars, dbOpen, pc, seedFile, nilStores, snapshots, starts, calls>>

\* handleShutdown closes the pool, twice; the process goes on.
ShutdownClose(c) ==
    /\ call[c].at = "close"
    /\ dbOpen' = FALSE /\ told' = TRUE
    /\ call' = [call EXCEPT ![c].at = "idle", ![c].answer = "ok"]
    /\ UNCHANGED <<priceVars, pc, seedFile, nilStores, snapshots, starts, calls>>

\* collectDocs lists the tools of a nil server, a tool of a nil store uses its
\* database: a panic that no one recovers from.
Panic(c) ==
    /\ call[c].at = "panic"
    /\ IF call[c].op = "docs" \/ nilStores # {} THEN Die
       ELSE Answer(c, IF dbOpen THEN "ok" ELSE "error") /\ UNCHANGED priceVars

BeginAny(c) ==
    \/ \E v \in Vendors, s \in Skus : BeginCall(c, "query", <<[vendor |-> v, sku |-> s]>>, "lookup")
    \/ \E recs \in Imports : BeginCall(c, "import", Parsed(recs), "lookup")
    \/ BeginCall(c, "health", <<>>, "ping")
    \/ BeginCall(c, "docs", <<>>, "panic")
    \/ BeginCall(c, "config", <<>>, "panic")
    \/ BeginCall(c, "shutdown", <<>>, "close")

\* The end of stdin, at any time while serving: ServeStdio returns, main runs
\* its deferred Close and the process ends with what is under way.
StdinCloses == pc = "serving" /\ Die

LifeNext ==
    \/ \E file \in Files \cup {NoFile} : Start(file)
    \/ OpenDatabase \/ Seed \/ OpenCoreStores \/ SeedSnapshots
    \/ OpenServiceStores \/ OpenOperatorStores \/ Build
    \/ StdinCloses
    \/ \E c \in Callers :
          \/ BeginAny(c)
          \/ QueryLookup(c) \/ QueryFetch(c)
          \/ ImportLookup(c) \/ ImportVendor(c) \/ ImportUpsert(c) \/ ImportDone(c)
          \/ HealthPing(c) \/ HealthSelect(c) \/ ShutdownClose(c) \/ Panic(c)

LifeSpec == LifeInit /\ [][LifeNext]_lifeVars

-----------------------------------------------------------------------------

\* A quote that was answered is the price last written for that vendor's SKU
\* when it was read, although its two statements are not one transaction, and
\* between calls the tables hold what was written: through imports under way
\* together that add the same vendor, restarts half-way and seeding again.
PricesAsWritten ==
    QuotedAsWritten /\ \A c \in Callers : "wrong" \notin call[c].marks

\* What an answer says is so.  A call begun after the shutdown tool has
\* answered never succeeds; "degraded" is said only of a database that was
\* closed; and an import accounts for each record it was given.
AnswersAreTrue ==
    \A c \in Callers :
        /\ "late" \in call[c].marks /\ call[c].op # "shutdown" =>
              \/ call[c].answer \in {"none", "error", "degraded"}
              \/ call[c].op = "import" /\ call[c].done = 0
        /\ call[c].answer = "degraded" => ~dbOpen
        /\ call[c].op = "import" /\ call[c].answer = "ok" =>
              (dbOpen /\ call[c].todo = <<>> => call[c].skipped = 0)

\* A database that was seeded for the first time quotes the prices of the file,
\* as the names of its columns give them (README, "Seed File Format").
SeedIsQuotedBack ==
    pc = "core" /\ starts = 1 =>
        \A v \in Vendors, sku \in Skus : Quoted(v, sku) = meant[<<v, sku>>]
=============================================================================
