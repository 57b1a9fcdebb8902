--------------------------- MODULE StrategyMarket ---------------------------
(***************************************************************************)
(* Strategies passed from user to user: those published and rated          *)
(* (internal/strategymarket) and those shared and imported                 *)
(* (internal/sharedstrategies).                                            *)
(*                                                                         *)
(* A rating is a transaction that reads the row, computes the new average  *)
(* and writes it back.  Its locks are those of SQLite, external here: a    *)
(* transaction reads under a shared lock, writes under the one reserved    *)
(* lock, commits when nobody else reads, and never waits.  An import reads *)
(* the row and then counts itself in one statement.                        *)
(*                                                                         *)
(* Name, description, configuration and notes are left out.  The column    *)
(* rating is kept as its product with rating_count, which is exact.        *)
(***************************************************************************)
EXTENDS Integers, Sequences, FiniteSets, FiniteSetsExt

CONSTANTS
    Raters,          \* goroutines that serve calls
    Stars,           \* ratings given; the code takes any number
    Categories,
    MaxPublished,    \* bound: strategies published
    MaxRatings,      \* bound: ratings accepted
    Shared,          \* ids of shared strategies
    MaxImports       \* bound: imports

ASSUME StrategyMarketAssumption ==
    /\ Stars \subseteq Int
    /\ MaxPublished \in Nat /\ MaxRatings \in Nat /\ MaxImports \in Nat

VARIABLES
    published,       \* table strategy_marketplace
    rater,           \* the transaction of each goroutine
    accepted,        \* history: the ratings whose call succeeded
    shared,          \* table shared_strategies, the column usage_count
    importer,        \* the usage each goroutine has read
    imported         \* history: the imports that succeeded

stratVars == <<published, rater, accepted, shared, importer, imported>>

MarketRow == [category : Categories, total : Int, count : Nat]
NoTx == [pc |-> "idle", id |-> 0, stars |-> 0, total |-> 0, count |-> 0]
NotShared == -1
NotImporting == [pc |-> "idle", id |-> 0, usage |-> 0]

StrategyInit ==
    /\ published = <<>>
    /\ rater = [g \in Raters |-> NoTx]
    /\ accepted = {}
    /\ shared = [s \in Shared |-> NotShared]
    /\ importer = [g \in Raters |-> NotImporting]
    /\ imported = {}

\* The locks: a transaction that has read holds the shared one until it
\* ends, and the reserved one once it has written.
Reads(g) == rater[g].pc \in {"fetched", "updated"}
Writes(g) == rater[g].pc = "updated"
CanWrite(g) == \A o \in Raters \ {g} : ~Writes(o)
CanCommit(g) == \A o \in Raters \ {g} : ~Reads(o)

\* A statement of its own writes and commits at once.
PublishStrategy(category) ==
    /\ Len(published) < MaxPublished
    /\ \A g \in Raters : ~Reads(g)
    /\ published' = Append(published,
                           [category |-> category, total |-> 0, count |-> 0])
    /\ UNCHANGED <<rater, accepted, shared, importer, imported>>

handlePublishStrategy == \E category \in Categories : PublishStrategy(category)

\* BrowseStrategies, without its order; "" stands for all categories.
BrowseStrategies(category) ==
    {i \in DOMAIN published : category \in {"", published[i].category}}

\* ImportStrategy: the row, if there is one.
Import(id) == {published[i] : i \in DOMAIN published \cap {id}}

\* RateStrategy, its three statements.  Every failure rolls back.
Rollback(g) == rater' = [rater EXCEPT ![g] = NoTx]

\* Mutated: the row is read outside of the transaction.
FetchUnlocked(g, id, stars) ==
    rater' = [rater EXCEPT ![g] = [pc |-> "unlocked", id |-> id, stars |-> stars,
                                   total |-> published[id].total,
                                   count |-> published[id].count]]

Fetch(g, id, stars) ==
    rater' = [rater EXCEPT ![g] = [pc |-> "fetched", id |-> id, stars |-> stars,
                                   total |-> published[id].total,
                                   count |-> published[id].count]]

handleRateStrategy(g, id, stars) ==
    /\ rater[g] = NoTx /\ Cardinality(accepted) < MaxRatings
    /\ Import(id) # {}
    /\ Fetch(g, id, stars)
    /\ UNCHANGED <<published, accepted, shared, importer, imported>>

UpdateRating(g) ==
    /\ rater[g].pc \in {"fetched", "unlocked"}
    /\ \/ CanWrite(g) /\ rater' = [rater EXCEPT ![g].pc = "updated",
                                                ![g].total = @ + rater[g].stars,
                                                ![g].count = @ + 1]
       \/ ~CanWrite(g) /\ Rollback(g)
    /\ UNCHANGED <<published, accepted, shared, importer, imported>>

\* A context that is done ends a transaction wherever it stands.
CommitRating(g) ==
    /\ rater[g].pc = "updated" /\ CanCommit(g)
    /\ published' = [published EXCEPT ![rater[g].id].total = rater[g].total,
                                      ![rater[g].id].count = rater[g].count]
    /\ accepted' = accepted \cup {[nr |-> Cardinality(accepted) + 1,
                                   id |-> rater[g].id, stars |-> rater[g].stars]}
    /\ Rollback(g)
    /\ UNCHANGED <<shared, importer, imported>>

RatingFails(g) ==
    /\ rater[g] # NoTx
    /\ Rollback(g)
    /\ UNCHANGED <<published, accepted, shared, importer, imported>>

\* RateStrategy as a whole.
RateStrategy(g) == UpdateRating(g) \/ CommitRating(g) \/ RatingFails(g)

ShareStrategy(s) ==
    /\ shared[s] = NotShared
    /\ shared' = [shared EXCEPT ![s] = 0]
    /\ UNCHANGED <<published, rater, accepted, importer, imported>>

ListShared == {s \in Shared : shared[s] # NotShared}

\* The engine's ImportStrategy: Get, and then IncrementUsage; the reply says
\* one more than was read.
handleImportStrategy(g, s) ==
    /\ importer[g] = NotImporting /\ Cardinality(imported) < MaxImports
    /\ s \in ListShared
    /\ importer' = [importer EXCEPT ![g] = [pc |-> "read", id |-> s,
                                            usage |-> shared[s]]]
    /\ UNCHANGED <<published, rater, accepted, shared, imported>>

IncrementUsage(g) == shared' = [shared EXCEPT ![importer[g].id] = @ + 1]

ImportStrategy(g) ==
    /\ importer[g].pc = "read"
    /\ \/ /\ IncrementUsage(g)
          /\ imported' = imported \cup {[nr |-> Cardinality(imported) + 1,
                                         id |-> importer[g].id,
                                         reply |-> importer[g].usage + 1]}
       \/ UNCHANGED <<shared, imported>>            \* the update fails
    /\ importer' = [importer EXCEPT ![g] = NotImporting]
    /\ UNCHANGED <<published, rater, accepted>>

StrategyNext ==
    \/ handlePublishStrategy
    \/ \E s \in Shared : ShareStrategy(s)
    \/ \E g \in Raters :
          \/ \E id \in 1 .. MaxPublished, stars \in Stars : handleRateStrategy(g, id, stars)
          \/ RateStrategy(g)
          \/ \E s \in Shared : handleImportStrategy(g, s)
          \/ ImportStrategy(g)

StrategySpec == StrategyInit /\ [][StrategyNext]_stratVars

-----------------------------------------------------------------------------

StrategyTypeOK ==
    /\ published \in Seq(MarketRow) /\ Len(published) <= MaxPublished
    /\ shared \in [Shared -> Nat \cup {NotShared}]
    /\ \A g \in Raters :
          /\ rater[g].pc \in {"idle", "fetched", "unlocked", "updated"}
          /\ importer[g].pc \in {"idle", "read"}
          /\ rater[g] # NoTx => rater[g].id \in DOMAIN published
          /\ importer[g] # NotImporting => importer[g].id \in ListShared

RatingsOf(id) == {r \in accepted : r.id = id}
ImportsOf(s) == {r \in imported : r.id = s}

(***************************************************************************)
(* Every vote counts, once: the rating of a strategy is the average of the *)
(* ratings that were accepted, and its usage the number of its imports,    *)
(* whichever calls overlap and whichever of them fail.  An import that     *)
(* reports a usage never reports more than there are.                      *)
(***************************************************************************)
EveryVoteCounts ==
    /\ \A id \in DOMAIN published :
          /\ published[id].count = Cardinality(RatingsOf(id))
          /\ published[id].total = MapThenSumSet(LAMBDA r : r.stars, RatingsOf(id))
    /\ \A s \in ListShared :
          /\ shared[s] = Cardinality(ImportsOf(s))
          /\ \A r \in ImportsOf(s) : r.reply \in 1 .. shared[s]
    /\ \A category \in Categories \cup {""} : \A i \in BrowseStrategies(category) :
          Import(i) = {published[i]}
=============================================================================
