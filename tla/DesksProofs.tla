---------------------------- MODULE DesksProofs -----------------------------
(***************************************************************************)
(* Proofs about the desks, for any number of rows and goroutines, whatever *)
(* fails in between: Marketplace and SellListings, where seats and items   *)
(* are sold; Approvals, Claims, Renewals, StrategyMarket, BuyingGroups and *)
(* HealthScores, whose calls read a row and write it later; and what       *)
(* Operator, CommandLine and Learning answer.                              *)
(*                                                                         *)
(* Each section starts with the inductive invariant of its module.         *)
(***************************************************************************)
EXTENDS Marketplace, SellListings, Approvals, Claims, Renewals, StrategyMarket,
        BuyingGroups, HealthScores, Operator, CommandLine, Learning,
        NegotiationEngineProofs, Sums

-----------------------------------------------------------------------------
(* Marketplace.                                                            *)

SaleStages == {"idle", "offer", "lookup", "transaction", "accept", "complete"}

\* What a goroutine can remember.
Calls == [pc : SaleStages, listing : Listings \cup {NoListing},
          offer : Offers \cup {NoOffer}]

At(a, stages) == selling[a].pc \in stages

\* The table of listings.
ListingInv == listings \in [Listings -> Listing \cup {Absent}]

\* An offer has a drawn id, and stands on a listing that has the seats.
OfferInv ==
    /\ offers \in [Offers -> OfferRow \cup {Absent}]
    /\ drawn \subseteq Offers
    /\ \A o \in Offers : offers[o] # Absent =>
          /\ o \in drawn
          /\ listings[offers[o].listing] # Absent
          /\ offers[o].terms.seats <= listings[offers[o].listing].terms.seats

\* What a goroutine remembers: the listing exists, the id of an offer to be
\* inserted is its own, and the writes before its stage have been made.
AgentInv ==
    /\ selling \in [Agents -> Calls]
    /\ \A a \in Agents :
          /\ At(a, {"idle"}) => selling[a] = Resting
          /\ ~At(a, {"idle"}) => /\ selling[a].listing \in Listings
                                 /\ listings[selling[a].listing] # Absent
          /\ At(a, {"offer"}) => /\ selling[a].offer \in drawn
                                 /\ offers[selling[a].offer] = Absent
          /\ At(a, {"transaction", "accept", "complete"}) =>
                /\ selling[a].offer \in Offers
                /\ offers[selling[a].offer] # Absent
                /\ offers[selling[a].offer].listing = selling[a].listing
          /\ At(a, {"accept", "complete"}) =>
                \E t \in transactions : /\ t.offer = selling[a].offer
                                        /\ t.listing = selling[a].listing
          /\ At(a, {"complete"}) => offers[selling[a].offer].status = "accepted"
    /\ \A a, b \in Agents : a # b /\ At(a, {"offer"}) /\ At(b, {"offer"}) =>
          selling[a].offer # selling[b].offer

\* The table of transactions: each one's offer and listing are there.
TransactionInv ==
    /\ transactions \subseteq Transaction
    /\ IsFiniteSet(transactions)
    /\ \A t \in transactions : /\ offers[t.offer] # Absent
                               /\ listings[t.listing] # Absent
    /\ SaleIsAgreed

HistoryInv ==
    /\ failures \in [Listings -> 0..MaxFailures]
    /\ contended \subseteq Listings

MarketInv ==
    ListingInv /\ OfferInv /\ AgentInv /\ TransactionInv /\ HistoryInv /\ StatusIsBacked

-----------------------------------------------------------------------------
(* What is true of any step.                                               *)

\* Rows are only added, and of those there are only the status moves on.
RowsGrow ==
    /\ \A l \in Listings : listings[l] # Absent =>
          listings'[l] # Absent /\ listings'[l].terms = listings[l].terms
    /\ \A o \in Offers : offers[o] # Absent =>
          /\ offers'[o] # Absent
          /\ offers'[o].listing = offers[o].listing
          /\ offers'[o].terms = offers[o].terms
          /\ offers[o].status = "accepted" => offers'[o].status = "accepted"
    /\ transactions \subseteq transactions'

\* An existing row is a row, with the numbers in its terms.
LEMMA Rows ==
    ASSUME ListingInv, OfferInv
    PROVE  /\ \A l \in Listings : listings[l] # Absent =>
                 /\ listings[l] \in Listing
                 /\ listings[l].terms.seats \in Nat
                 /\ listings[l].terms.ask \in Nat
           /\ \A o \in Offers : offers[o] # Absent =>
                 /\ offers[o] \in OfferRow
                 /\ offers[o].listing \in Listings
                 /\ offers[o].terms.seats \in Int
                 /\ offers[o].terms.max \in Nat
<1>1. \A l \in Listings : listings[l] # Absent => listings[l] \in Listing
  BY DEF ListingInv
<1>2. \A o \in Offers : offers[o] # Absent => offers[o] \in OfferRow
  BY DEF OfferInv
<1>3. \A x \in Listing : x.terms.seats \in Nat /\ x.terms.ask \in Nat
  BY MarketplaceAssumption DEF Listing
<1>4. \A x \in OfferRow : /\ x.listing \in Listings /\ x.terms.seats \in Int
                       /\ x.terms.max \in Nat
  BY MarketplaceAssumption DEF OfferRow
<1> QED
  BY <1>1, <1>2, <1>3, <1>4

\* A goroutine that does not move keeps what AgentInv says of it, unless its
\* offer is the one that is inserted.
LEMMA OthersKeep ==
    ASSUME MarketInv, RowsGrow, drawn \subseteq drawn',
           NEW b \in Agents, selling'[b] = selling[b],
           At(b, {"offer"}) => offers'[selling[b].offer] = offers[selling[b].offer]
    PROVE  /\ At(b, {"idle"})' => selling'[b] = Resting
           /\ ~At(b, {"idle"})' => /\ selling'[b].listing \in Listings
                                   /\ listings'[selling'[b].listing] # Absent
           /\ At(b, {"offer"})' => /\ selling'[b].offer \in drawn'
                                   /\ offers'[selling'[b].offer] = Absent
           /\ At(b, {"transaction", "accept", "complete"})' =>
                 /\ selling'[b].offer \in Offers
                 /\ offers'[selling'[b].offer] # Absent
                 /\ offers'[selling'[b].offer].listing = selling'[b].listing
           /\ At(b, {"accept", "complete"})' =>
                 \E t \in transactions' : /\ t.offer = selling'[b].offer
                                          /\ t.listing = selling'[b].listing
           /\ At(b, {"complete"})' => offers'[selling'[b].offer].status = "accepted"
BY DEF MarketInv, AgentInv, RowsGrow, At, OfferInv

\* Sales stay agreed, and accepted offers backed, when rows only grow.
LEMMA SalesKeep ==
    ASSUME MarketInv, RowsGrow, NEW t \in transactions
    PROVE  /\ offers'[t.offer] # Absent /\ listings'[t.listing] # Absent
           /\ offers'[t.offer].listing = t.listing
           /\ t.seats = offers'[t.offer].terms.seats
           /\ t.seats <= listings'[t.listing].terms.seats
           /\ t.price <= offers'[t.offer].terms.max
           /\ t.price <= listings'[t.listing].terms.ask
<1>1. t.offer \in Offers /\ t.listing \in Listings
  BY DEF MarketInv, TransactionInv, Transaction
<1> QED
  BY <1>1 DEF MarketInv, TransactionInv, SaleIsAgreed, RowsGrow

LEMMA InitMarketInv == MarketInit => MarketInv
<1> SUFFICES ASSUME MarketInit PROVE MarketInv
  OBVIOUS
<1>1. IsFiniteSet(transactions)
  BY FS_EmptySet DEF MarketInit
<1>2. ListingInv /\ OfferInv /\ HistoryInv /\ TransactionInv /\ StatusIsBacked
  BY <1>1, MarketplaceAssumption
     DEF MarketInit, ListingInv, OfferInv, HistoryInv, TransactionInv, SaleIsAgreed,
         StatusIsBacked, Absent
<1>3. AgentInv
  BY DEF MarketInit, AgentInv, Calls, Resting, At, SaleStages
<1> QED
  BY <1>2, <1>3 DEF MarketInv

LEMMA ListSeatsKeepsInv ==
    ASSUME MarketInv, NEW l \in Listings, NEW terms \in SaleTerms, ListSeats(l, terms)
    PROVE  MarketInv'
<1>1. /\ listings[l] = Absent
      /\ listings' = [listings EXCEPT ![l] = [terms |-> terms, status |-> "active"]]
      /\ UNCHANGED <<offers, transactions, drawn, selling, failures, contended>>
  BY DEF ListSeats
<1>2. ListingInv'
  BY <1>1 DEF MarketInv, ListingInv, Listing
<1>3. /\ listings'[l] # Absent /\ listings'[l].status = "active"
      /\ \A k \in Listings : k # l => listings'[k] = listings[k]
  BY <1>1 DEF MarketInv, ListingInv, Absent
<1>4. RowsGrow
  BY <1>1, <1>3 DEF RowsGrow
<1>5. OfferInv'
  <2> SUFFICES ASSUME NEW o \in Offers, offers[o] # Absent
               PROVE  /\ listings'[offers[o].listing] # Absent
                      /\ offers[o].terms.seats <= listings'[offers[o].listing].terms.seats
    BY <1>1 DEF MarketInv, OfferInv
  <2>1. offers[o].listing \in Listings
    BY Rows DEF MarketInv
  <2> QED
    BY <2>1, <1>4 DEF MarketInv, OfferInv, RowsGrow
<1>6. AgentInv'
  BY <1>1, <1>4, OthersKeep DEF MarketInv, AgentInv, At
<1>7. TransactionInv'
  BY <1>1, <1>4, SalesKeep DEF MarketInv, TransactionInv, SaleIsAgreed
<1>8. StatusIsBacked'
  BY <1>1, <1>3 DEF MarketInv, StatusIsBacked
<1> QED
  BY <1>1, <1>2, <1>5, <1>6, <1>7, <1>8 DEF MarketInv, HistoryInv

\* The steps that write nothing into the three tables: all that is left to
\* see is what the goroutines remember.
LEMMA TablesKept ==
    ASSUME MarketInv, UNCHANGED <<listings, offers, transactions>>,
           drawn \subseteq drawn', drawn' \subseteq Offers
    PROVE  /\ ListingInv' /\ OfferInv' /\ TransactionInv' /\ StatusIsBacked'
           /\ RowsGrow
BY DEF MarketInv, ListingInv, OfferInv, TransactionInv, SaleIsAgreed, StatusIsBacked,
       RowsGrow

LEMMA MakeOfferKeepsInv ==
    ASSUME MarketInv, NEW a \in Agents, NEW l \in Listings, NEW o \in Offers,
           MakeOffer(a, l, o)
    PROVE  MarketInv'
<1>1. /\ o \notin drawn /\ listings[l] # Absent
      /\ selling' = [selling EXCEPT ![a] = [pc |-> "offer", listing |-> l, offer |-> o]]
      /\ drawn' = drawn \cup {o}
      /\ contended' \subseteq contended \cup {l}
      /\ UNCHANGED <<listings, offers, transactions, failures>>
  BY DEF MakeOffer, Enter, Open, Absent
<1>2. ListingInv' /\ OfferInv' /\ TransactionInv' /\ StatusIsBacked' /\ RowsGrow
  BY <1>1, TablesKept DEF MarketInv, OfferInv
<1>3. offers[o] = Absent
  BY <1>1 DEF MarketInv, OfferInv
<1>4. /\ selling'[a] = [pc |-> "offer", listing |-> l, offer |-> o]
      /\ \A b \in Agents : b # a => selling'[b] = selling[b]
  BY <1>1 DEF MarketInv, AgentInv
<1>5. AgentInv'
  <2>1. selling' \in [Agents -> Calls]
    BY <1>1 DEF MarketInv, AgentInv, Calls, SaleStages
  <2>2. \A b \in Agents : b # a /\ At(b, {"offer"}) => selling[b].offer # o
    BY <1>1 DEF MarketInv, AgentInv
  <2>3. \A b, c \in Agents : b # c /\ At(b, {"offer"})' /\ At(c, {"offer"})' =>
           selling'[b].offer # selling'[c].offer
    BY <1>4, <2>2 DEF MarketInv, AgentInv, At
  <2>4. \A b \in Agents : b # a => selling'[b] = selling[b] /\ offers' = offers
    BY <1>1, <1>4
  <2>5. drawn \subseteq drawn' /\ o \in drawn' /\ offers' = offers /\ listings' = listings
    BY <1>1
  <2> QED
    BY <1>1, <1>2, <1>3, <1>4, <2>1, <2>3, <2>4, <2>5, OthersKeep DEF AgentInv, At
<1>6. HistoryInv'
  BY <1>1 DEF MarketInv, HistoryInv
<1> QED
  BY <1>2, <1>5, <1>6 DEF MarketInv

\* A goroutine that begins, gives up or finds the offer it looked for.
LEMMA MoveKeepsInv ==
    ASSUME MarketInv, NEW a \in Agents,
           UNCHANGED <<listings, offers, transactions, drawn>>,
           selling' \in [Agents -> Calls],
           \A b \in Agents : b # a => selling'[b] = selling[b],
           \/ selling'[a] = Resting
           \/ /\ At(a, {"lookup", "transaction"})'
              /\ selling'[a].listing \in Listings
              /\ listings[selling'[a].listing] # Absent
              /\ At(a, {"transaction"})' =>
                    /\ selling'[a].offer \in Offers
                    /\ offers[selling'[a].offer] # Absent
                    /\ offers[selling'[a].offer].listing = selling'[a].listing,
           HistoryInv'
    PROVE  MarketInv'
<1>1. ListingInv' /\ OfferInv' /\ TransactionInv' /\ StatusIsBacked' /\ RowsGrow
  BY TablesKept DEF MarketInv, OfferInv
<1>2. \A b, c \in Agents : b # c /\ At(b, {"offer"})' /\ At(c, {"offer"})' =>
         selling'[b].offer # selling'[c].offer
  BY DEF MarketInv, AgentInv, At, Resting
<1> QED
  BY <1>1, <1>2, OthersKeep DEF MarketInv, AgentInv, At, Resting

LEMMA AddOfferKeepsInv ==
    ASSUME MarketInv, NEW a \in Agents, NEW terms \in OfferTerms, AddOffer(a, terms)
    PROVE  MarketInv'
<1> DEFINE l == selling[a].listing
           o == selling[a].offer
           row == [listing |-> l, terms |-> terms, status |-> "pending"]
<1>1. /\ At(a, {"offer"})
      /\ terms.seats <= listings[l].terms.seats
      /\ offers' = [offers EXCEPT ![o] = row]
      /\ \/ selling' = [selling EXCEPT ![a].pc = "transaction"]
         \/ selling' = [selling EXCEPT ![a] = Resting]
      /\ UNCHANGED <<listings, transactions, drawn, failures, contended>>
  BY DEF AddOffer, At, Continue, Rest
<1>2. /\ l \in Listings /\ listings[l] # Absent
      /\ o \in drawn /\ o \in Offers /\ offers[o] = Absent
  BY <1>1 DEF MarketInv, AgentInv, OfferInv, At
<1>3. /\ offers'[o] = row /\ row # Absent
      /\ \A p \in Offers : p # o => offers'[p] = offers[p]
  BY <1>1, <1>2 DEF MarketInv, OfferInv, Absent
<1>4. RowsGrow
  BY <1>1, <1>2, <1>3 DEF RowsGrow
<1>5. ListingInv' /\ HistoryInv'
  BY <1>1 DEF MarketInv, ListingInv, HistoryInv
<1>6. OfferInv'
  <2>1. offers' \in [Offers -> OfferRow \cup {Absent}]
    BY <1>1, <1>2 DEF MarketInv, OfferInv, OfferRow
  <2> QED
    BY <1>1, <1>2, <1>3, <2>1 DEF MarketInv, OfferInv
<1>7. AgentInv'
  <2>1. selling' \in [Agents -> Calls]
    BY <1>1 DEF MarketInv, AgentInv, Calls, SaleStages, Resting
  <2>2. /\ \A b \in Agents : b # a => selling'[b] = selling[b]
        /\ \/ /\ selling'[a].pc = "transaction" /\ selling'[a].listing = l
              /\ selling'[a].offer = o
           \/ selling'[a] = Resting
    BY <1>1 DEF MarketInv, AgentInv, Calls
  <2>3. \A b \in Agents : b # a /\ At(b, {"offer"}) =>
           selling[b].offer # o /\ selling[b].offer \in Offers
    BY <1>1 DEF MarketInv, AgentInv, OfferInv
  <2>4. \A b, c \in Agents : b # c /\ At(b, {"offer"})' /\ At(c, {"offer"})' =>
           selling'[b].offer # selling'[c].offer
    BY <2>2 DEF MarketInv, AgentInv, At, Resting
  <2> QED
    BY <1>1, <1>2, <1>3, <1>4, <2>1, <2>2, <2>3, <2>4, OthersKeep
       DEF AgentInv, At, Resting
<1>8. TransactionInv'
  BY <1>1, <1>4, SalesKeep DEF MarketInv, TransactionInv, SaleIsAgreed
<1>9. StatusIsBacked'
  <2>1. \A p \in Offers : offers'[p].status = "accepted" => p # o
    BY <1>3
  <2>2. \A p \in Offers : offers[p].status = "accepted" => p # o
    BY <1>2 DEF Absent
  <2> QED
    BY <1>1, <1>3, <2>1, <2>2 DEF MarketInv, StatusIsBacked
<1> QED
  BY <1>5, <1>6, <1>7, <1>8, <1>9 DEF MarketInv

LEMMA CreateTransactionKeepsInv ==
    ASSUME MarketInv, NEW a \in Agents, CreateTransaction(a)
    PROVE  MarketInv'
<1> DEFINE l == selling[a].listing
           o == selling[a].offer
           sale == [number |-> Cardinality(transactions) + 1, listing |-> l, offer |-> o,
                    seats |-> offers[o].terms.seats, price |-> Price(l, o)]
<1>1. /\ At(a, {"transaction"})
      /\ transactions' = transactions \cup {sale}
      /\ selling' = [selling EXCEPT ![a].pc = "accept"]
      /\ UNCHANGED <<listings, offers, drawn, failures, contended>>
  BY DEF CreateTransaction, At, Continue
<1>2. /\ l \in Listings /\ listings[l] # Absent
      /\ o \in Offers /\ offers[o] # Absent /\ offers[o].listing = l
  BY <1>1 DEF MarketInv, AgentInv, At
<1>3. /\ listings[l].terms.ask \in Nat
      /\ offers[o].terms.max \in Nat /\ offers[o].terms.seats \in Int
      /\ offers[o].terms.seats <= listings[l].terms.seats
  BY <1>2, Rows DEF MarketInv, OfferInv
<1>4. /\ Price(l, o) \in Nat
      /\ Price(l, o) <= offers[o].terms.max
      /\ Price(l, o) <= listings[l].terms.ask
  BY <1>3 DEF Price
<1>5. Cardinality(transactions) \in Nat /\ IsFiniteSet(transactions')
  BY <1>1, FS_CardinalityType, FS_AddElement DEF MarketInv, TransactionInv
<1>6. sale \in Transaction
  BY <1>2, <1>3, <1>4, <1>5 DEF Transaction
<1>7. RowsGrow
  BY <1>1 DEF RowsGrow
<1>8. ListingInv' /\ HistoryInv' /\ OfferInv'
  BY <1>1 DEF MarketInv, ListingInv, HistoryInv, OfferInv
<1>9. AgentInv'
  <2>1. selling' \in [Agents -> Calls]
    BY <1>1 DEF MarketInv, AgentInv, Calls, SaleStages
  <2>2. /\ \A b \in Agents : b # a => selling'[b] = selling[b]
        /\ selling'[a].pc = "accept" /\ selling'[a].listing = l /\ selling'[a].offer = o
    BY <1>1 DEF MarketInv, AgentInv
  <2>3. \A b, c \in Agents : b # c /\ At(b, {"offer"})' /\ At(c, {"offer"})' =>
           selling'[b].offer # selling'[c].offer
    BY <2>2 DEF MarketInv, AgentInv, At
  <2>4. \E t \in transactions' : t.offer = o /\ t.listing = l
    <3>1. sale \in transactions'
      BY <1>1
    <3>2. sale.offer = o /\ sale.listing = l
      OBVIOUS
    <3> HIDE DEF sale
    <3> QED
      BY <3>1, <3>2
  <2> QED
    BY SMTT(30), <1>1, <1>2, <1>7, <2>1, <2>2, <2>3, <2>4, OthersKeep DEF AgentInv, At
<1>10. TransactionInv'
  <2>1. \A t \in transactions' : t \in transactions \/ t = sale
    BY <1>1
  <2>2. /\ sale.offer = o /\ sale.listing = l /\ sale.seats = offers[o].terms.seats
        /\ sale.price = Price(l, o)
    OBVIOUS
  <2>3. SaleIsAgreed'
    BY <1>1, <1>2, <1>3, <1>4, <1>7, <2>1, <2>2, SalesKeep DEF SaleIsAgreed
  <2>4. transactions' \subseteq Transaction
    BY <1>1, <1>6 DEF MarketInv, TransactionInv
  <2>5. \A t \in transactions' : offers'[t.offer] # Absent /\ listings'[t.listing] # Absent
    BY <1>1, <1>2, <2>1, <2>2 DEF MarketInv, TransactionInv
  <2> QED
    BY <1>5, <2>3, <2>4, <2>5 DEF TransactionInv
<1>11. StatusIsBacked'
  BY <1>1 DEF MarketInv, StatusIsBacked
<1> QED
  BY <1>8, <1>9, <1>10, <1>11 DEF MarketInv

LEMMA UpdateOfferStatusKeepsInv ==
    ASSUME MarketInv, NEW a \in Agents, UpdateOfferStatus(a)
    PROVE  MarketInv'
<1> DEFINE l == selling[a].listing
           o == selling[a].offer
<1>1. /\ At(a, {"accept"})
      /\ offers' = [offers EXCEPT ![o].status = "accepted"]
      /\ selling' = [selling EXCEPT ![a].pc = "complete"]
      /\ UNCHANGED <<listings, transactions, drawn, failures, contended>>
  BY DEF UpdateOfferStatus, At, Continue
<1>2. /\ l \in Listings /\ listings[l] # Absent
      /\ o \in Offers /\ offers[o] # Absent /\ offers[o].listing = l
      /\ \E t \in transactions : t.offer = o /\ t.listing = l
  BY <1>1 DEF MarketInv, AgentInv, At
<1>3. /\ offers'[o] \in OfferRow /\ offers'[o].status = "accepted"
      /\ offers'[o].listing = offers[o].listing /\ offers'[o].terms = offers[o].terms
      /\ \A p \in Offers : p # o => offers'[p] = offers[p]
  <2>1. offers[o] \in OfferRow
    BY <1>2 DEF MarketInv, OfferInv
  <2> QED
    BY <1>1, <1>2, <2>1 DEF MarketInv, OfferInv, OfferRow
<1>4. offers'[o] # Absent
  BY <1>3 DEF Absent
<1>5. RowsGrow
  BY <1>1, <1>3, <1>4 DEF RowsGrow
<1>6. ListingInv' /\ HistoryInv'
  BY <1>1 DEF MarketInv, ListingInv, HistoryInv
<1>7. OfferInv'
  <2>1. offers' \in [Offers -> OfferRow \cup {Absent}]
    <3>1. \A p \in Offers : offers'[p] \in OfferRow \cup {Absent}
      BY <1>3 DEF MarketInv, OfferInv
    <3>2. offers' = [p \in Offers |-> offers'[p]]
      BY <1>1 DEF MarketInv, OfferInv
    <3> QED
      BY <3>1, <3>2
  <2> QED
    BY <1>1, <1>2, <1>3, <2>1 DEF MarketInv, OfferInv
<1>8. AgentInv'
  <2>1. selling' \in [Agents -> Calls]
    BY <1>1 DEF MarketInv, AgentInv, Calls, SaleStages
  <2>2. /\ \A b \in Agents : b # a => selling'[b] = selling[b]
        /\ selling'[a].pc = "complete" /\ selling'[a].listing = l /\ selling'[a].offer = o
    BY <1>1 DEF MarketInv, AgentInv
  <2>3. \A b \in Agents : At(b, {"offer"}) =>
           selling[b].offer # o /\ selling[b].offer \in Offers
    BY <1>2 DEF MarketInv, AgentInv, OfferInv
  <2>4. \A b, c \in Agents : b # c /\ At(b, {"offer"})' /\ At(c, {"offer"})' =>
           selling'[b].offer # selling'[c].offer
    BY <2>2 DEF MarketInv, AgentInv, At
  <2> QED
    BY SMTT(30), <1>1, <1>2, <1>3, <1>4, <1>5, <2>1, <2>2, <2>3, <2>4, OthersKeep DEF AgentInv, At
<1>9. TransactionInv'
  BY <1>1, <1>5, SalesKeep DEF MarketInv, TransactionInv, SaleIsAgreed
<1>10. StatusIsBacked'
  <2>1. ASSUME NEW p \in Offers, offers'[p].status = "accepted"
        PROVE  \E t \in transactions' : t.offer = p /\ t.listing = offers'[p].listing
    BY <1>1, <1>2, <1>3, <2>1 DEF MarketInv, StatusIsBacked
  <2>2. ASSUME NEW k \in Listings, listings'[k].status = "completed"
        PROVE  \E p \in Offers : offers'[p].status = "accepted" /\ offers'[p].listing = k
    BY <1>1, <1>3, <2>2 DEF MarketInv, StatusIsBacked
  <2> QED
    BY <2>1, <2>2 DEF StatusIsBacked
<1> QED
  BY <1>6, <1>7, <1>8, <1>9, <1>10 DEF MarketInv

LEMMA UpdateListingStatusKeepsInv ==
    ASSUME MarketInv, NEW a \in Agents, UpdateListingStatus(a)
    PROVE  MarketInv'
<1> DEFINE l == selling[a].listing
           o == selling[a].offer
<1>1. /\ At(a, {"complete"})
      /\ listings' = [listings EXCEPT ![l].status = "completed"]
      /\ selling' = [selling EXCEPT ![a] = Resting]
      /\ UNCHANGED <<offers, transactions, drawn, failures, contended>>
  BY DEF UpdateListingStatus, At, Rest
<1>2. /\ l \in Listings /\ listings[l] # Absent
      /\ o \in Offers /\ offers[o].listing = l /\ offers[o].status = "accepted"
  BY <1>1 DEF MarketInv, AgentInv, At
<1>3. /\ listings'[l] \in Listing /\ listings'[l].terms = listings[l].terms
      /\ \A k \in Listings : k # l => listings'[k] = listings[k]
  <2>1. listings[l] \in Listing
    BY <1>2 DEF MarketInv, ListingInv
  <2> QED
    BY <1>1, <1>2, <2>1 DEF MarketInv, ListingInv, Listing
<1>4. listings'[l] # Absent
  BY <1>3 DEF Listing, Absent
<1>5. RowsGrow
  BY <1>1, <1>3, <1>4 DEF RowsGrow
<1>6. ListingInv'
  <2>1. \A k \in Listings : listings'[k] \in Listing \cup {Absent}
    BY <1>3 DEF MarketInv, ListingInv
  <2>2. listings' = [k \in Listings |-> listings'[k]]
    BY <1>1 DEF MarketInv, ListingInv
  <2> QED
    BY <2>1, <2>2 DEF ListingInv
<1>7. OfferInv'
  <2> SUFFICES ASSUME NEW p \in Offers, offers[p] # Absent
               PROVE  /\ listings'[offers[p].listing] # Absent
                      /\ offers[p].terms.seats <= listings'[offers[p].listing].terms.seats
    BY <1>1 DEF MarketInv, OfferInv
  <2>1. offers[p].listing \in Listings
    BY Rows DEF MarketInv
  <2> QED
    BY <2>1, <1>5 DEF MarketInv, OfferInv, RowsGrow
<1>8. AgentInv'
  <2>1. selling' \in [Agents -> Calls]
    BY <1>1 DEF MarketInv, AgentInv, Calls, SaleStages, Resting
  <2>2. selling'[a] = Resting /\ \A b \in Agents : b # a => selling'[b] = selling[b]
    BY <1>1 DEF MarketInv, AgentInv
  <2>3. \A b, c \in Agents : b # c /\ At(b, {"offer"})' /\ At(c, {"offer"})' =>
           selling'[b].offer # selling'[c].offer
    BY <2>2 DEF MarketInv, AgentInv, At, Resting
  <2> QED
    BY <1>1, <1>5, <2>1, <2>2, <2>3, OthersKeep DEF AgentInv, At, Resting
<1>9. TransactionInv'
  BY <1>1, <1>5, SalesKeep DEF MarketInv, TransactionInv, SaleIsAgreed
<1>10. StatusIsBacked'
  BY <1>1, <1>2, <1>3 DEF MarketInv, StatusIsBacked
<1> QED
  BY <1>1, <1>6, <1>7, <1>8, <1>9, <1>10 DEF MarketInv, HistoryInv

\* A crash forgets what the goroutines remember, and nothing else.
LEMMA CrashKeepsInv == ASSUME MarketInv, MarketCrash PROVE MarketInv'
<1>1. ListingInv' /\ OfferInv' /\ TransactionInv' /\ StatusIsBacked'
  BY TablesKept DEF MarketCrash, MarketInv, OfferInv
<1>2. HistoryInv'
  BY MarketplaceAssumption DEF MarketCrash, MarketInv, HistoryInv
<1>3. AgentInv'
  BY DEF MarketCrash, AgentInv, Calls, At, SaleStages, Resting
<1> QED
  BY <1>1, <1>2, <1>3 DEF MarketInv

LEMMA NextInv == MarketInv /\ [MarketNext]_marketVars => MarketInv'
<1> SUFFICES ASSUME MarketInv, [MarketNext]_marketVars
             PROVE  MarketInv'
  OBVIOUS
<1>1. ASSUME NEW a \in Agents, NEW l \in Listings, AcceptOffer(a, l)
      PROVE  MarketInv'
  <2>1. listings[l] # Absent
    BY <1>1 DEF AcceptOffer, Sellable, Absent
  <2>2. /\ selling' = [selling EXCEPT ![a] =
                          [pc |-> "lookup", listing |-> l, offer |-> NoOffer]]
        /\ contended' \subseteq contended \cup {l}
        /\ UNCHANGED <<listings, offers, transactions, drawn, failures>>
    BY <1>1 DEF AcceptOffer, Enter
  <2>3. /\ selling' \in [Agents -> Calls]
        /\ \A b \in Agents : b # a => selling'[b] = selling[b]
        /\ selling'[a].pc = "lookup" /\ selling'[a].listing = l
    BY <2>2 DEF MarketInv, AgentInv, Calls, SaleStages
  <2>4. HistoryInv'
    BY <2>2 DEF MarketInv, HistoryInv
  <2> QED
    BY <2>1, <2>2, <2>3, <2>4, MoveKeepsInv DEF At
<1>2. ASSUME NEW a \in Agents, NEW o \in Offers, FindOffer(a, o)
      PROVE  MarketInv'
  <2>1. /\ At(a, {"lookup"}) /\ offers[o] # Absent
        /\ offers[o].listing = selling[a].listing
        /\ selling' = [selling EXCEPT ![a].pc = "transaction", ![a].offer = o]
        /\ UNCHANGED <<listings, offers, transactions, drawn, failures, contended>>
    BY <1>2 DEF FindOffer, At, Absent
  <2>2. selling[a].listing \in Listings /\ listings[selling[a].listing] # Absent
    BY <2>1 DEF MarketInv, AgentInv, At
  <2>3. /\ selling' \in [Agents -> Calls]
        /\ \A b \in Agents : b # a => selling'[b] = selling[b]
        /\ selling'[a].pc = "transaction" /\ selling'[a].offer = o
        /\ selling'[a].listing = selling[a].listing
    <3> DEFINE half == [selling EXCEPT ![a].pc = "transaction"]
    <3>1. selling' = [half EXCEPT ![a].offer = o]
      BY <2>1
    <3>2. /\ half \in [Agents -> Calls]
          /\ \A b \in Agents : b # a => half[b] = selling[b]
          /\ half[a].pc = "transaction" /\ half[a].listing = selling[a].listing
      BY DEF MarketInv, AgentInv, Calls, SaleStages
    <3> HIDE DEF half
    <3> QED
      BY <3>1, <3>2 DEF Calls
  <2>4. HistoryInv'
    BY <2>1 DEF MarketInv, HistoryInv
  <2> QED
    BY <2>1, <2>2, <2>3, <2>4, MoveKeepsInv DEF At
<1>3. ASSUME NEW a \in Agents, RefuseOffer(a) \/ CallFails(a)
      PROVE  MarketInv'
  <2>1. /\ selling' = [selling EXCEPT ![a] = Resting]
        /\ UNCHANGED <<listings, offers, transactions, drawn>>
    BY <1>3 DEF RefuseOffer, CallFails, Rest
  <2>2. /\ selling' \in [Agents -> Calls]
        /\ \A b \in Agents : b # a => selling'[b] = selling[b]
        /\ selling'[a] = Resting
    BY <2>1 DEF MarketInv, AgentInv, Calls, SaleStages, Resting
  <2>3. HistoryInv'
    <3>1. CASE RefuseOffer(a)
      BY <3>1 DEF RefuseOffer, MarketInv, HistoryInv
    <3>2. CASE CallFails(a)
      <4>1. selling[a].listing \in Listings
        BY <3>2 DEF CallFails, MarketInv, AgentInv, At
      <4>2. failures[selling[a].listing] + 1 \in 0..MaxFailures
        BY <3>2, <4>1, MarketplaceAssumption DEF CallFails, MarketInv, HistoryInv
      <4> QED
        BY <3>2, <4>1, <4>2 DEF CallFails, MarketInv, HistoryInv
    <3> QED
      BY <1>3, <3>1, <3>2
  <2> QED
    BY <2>1, <2>2, <2>3, MoveKeepsInv
<1>4. CASE UNCHANGED marketVars
  BY <1>4 DEF marketVars, MarketInv, ListingInv, OfferInv, AgentInv, TransactionInv,
              HistoryInv, StatusIsBacked, SaleIsAgreed, At
<1> QED
  BY <1>1, <1>2, <1>3, <1>4, ListSeatsKeepsInv, MakeOfferKeepsInv, AddOfferKeepsInv,
     CreateTransactionKeepsInv, UpdateOfferStatusKeepsInv,
     UpdateListingStatusKeepsInv, CrashKeepsInv DEF MarketNext

LEMMA MarketInvAlways == MarketSpec => []MarketInv
BY InitMarketInv, NextInv, PTL DEF MarketSpec

-----------------------------------------------------------------------------
(* A listing with one call at a time.                                      *)

\* A sale of listing l is on record, and its call still has writes to make.
Midway(l) ==
    \E a \in Agents : selling[a].listing = l /\ At(a, {"accept", "complete"})

\* OfferRow o has been sold, and its call is about to say so.
Selling(o, l) ==
    \E a \in Agents : /\ selling[a].listing = l /\ selling[a].offer = o
                      /\ At(a, {"accept"})

\* The goroutine at listing l is the only one, and found it active.
LoneAt(l) ==
    /\ \A a, b \in Agents :
          selling[a].listing = l /\ selling[b].listing = l => a = b
    /\ \A a \in Agents : selling[a].listing = l => listings[l].status = "active"

\* Each sale but one is of a call that went wrong; and that one too, as long
\* as the listing is active and no call is past its transaction.
CountAt(l) ==
    /\ Cardinality(SalesOf(l)) <= failures[l] + 1
    /\ \/ listings[l].status = "completed"
       \/ Midway(l)
       \/ Cardinality(SalesOf(l)) <= failures[l]

\* When no call went wrong, the statuses lack only what a call has yet to write.
SettledAt(l) ==
    failures[l] = 0 =>
        /\ listings[l].status = "completed" <=> SalesOf(l) # {} /\ ~Midway(l)
        /\ \A o \in Offers : offers[o] # Absent /\ offers[o].listing = l =>
              (offers[o].status = "accepted"
                 <=> (\E t \in SalesOf(l) : t.offer = o) /\ ~Selling(o, l))

SalesInv == \A l \in Listings \ contended : LoneAt(l) /\ CountAt(l) /\ SettledAt(l)

\* SalesOf, of the table after the step.
LEMMA SalesAfter ==
    ASSUME NEW l PROVE SalesOf(l)' = {t \in transactions' : t.listing = l}
BY DEF SalesOf

\* Failures of a listing are never forgotten.
LEMMA FailuresGrow ==
    ASSUME MarketInv, MarketNext, NEW l \in Listings
    PROVE  failures[l] \in Nat /\ failures'[l] \in Nat /\ failures[l] <= failures'[l]
<1>1. /\ failures \in [Listings -> 0..MaxFailures] /\ MaxFailures \in Nat
      /\ \A k \in Listings : failures[k] \in Nat
  BY MarketplaceAssumption DEF MarketInv, HistoryInv
<1>2. ASSUME NEW a \in Agents, CallFails(a)
      PROVE  failures'[l] \in Nat /\ failures[l] <= failures'[l]
  BY <1>1, <1>2 DEF CallFails
<1>3. CASE MarketCrash
  <2>1. failures'[l] = failures[l] \/ failures'[l] = failures[l] + 1
    BY <1>1, <1>3 DEF MarketCrash
  <2> QED
    BY <1>1, <2>1
<1>4. CASE failures' = failures
  BY <1>1, <1>4
<1> QED
  BY <1>1, <1>2, <1>3, <1>4 DEF MarketNext, ListSeats, MakeOffer, AddOffer, AcceptOffer,
     FindOffer, RefuseOffer, CreateTransaction, UpdateOfferStatus, UpdateListingStatus

\* What a step does not do to a listing when it is about another.
Untouched(l) ==
    /\ listings'[l] = listings[l]
    /\ failures'[l] = failures[l]
    /\ \A t : t.listing = l => (t \in transactions' <=> t \in transactions)
    /\ \A b \in Agents : selling[b].listing = l \/ selling'[b].listing = l =>
          selling'[b] = selling[b]
    /\ \A o \in Offers :
          \/ offers[o] # Absent /\ offers[o].listing = l
          \/ offers'[o] # Absent /\ offers'[o].listing = l
          => offers'[o] = offers[o]

LEMMA UntouchedKeeps ==
    ASSUME NEW l \in Listings, Untouched(l), LoneAt(l), CountAt(l), SettledAt(l)
    PROVE  LoneAt(l)' /\ CountAt(l)' /\ SettledAt(l)'
<1>1. SalesOf(l)' = SalesOf(l)
  BY SalesAfter DEF Untouched, SalesOf
<1>2. Midway(l)' <=> Midway(l)
  BY DEF Midway, Untouched, At
<1>3. \A o : Selling(o, l)' <=> Selling(o, l)
  BY DEF Selling, Untouched, At
<1>4. LoneAt(l)'
  BY DEF LoneAt, Untouched
<1>5. CountAt(l)'
  BY <1>1, <1>2 DEF CountAt, Untouched
<1>6. SettledAt(l)'
  BY <1>1, <1>2, <1>3 DEF SettledAt, Untouched
<1> QED
  BY <1>4, <1>5, <1>6

\* The listing of another goroutine's call, or of another row, is untouched.
LEMMA Elsewhere ==
    ASSUME MarketInv, NEW l \in Listings, NEW a \in Agents,
           \/ \E k \in Listings, o \in Offers : MakeOffer(a, k, o) /\ k # l
           \/ \E k \in Listings : AcceptOffer(a, k) /\ k # l
           \/ /\ selling[a].listing # l
              /\ \/ \E terms \in OfferTerms : AddOffer(a, terms)
                 \/ \E o \in Offers : FindOffer(a, o)
                 \/ RefuseOffer(a) \/ CreateTransaction(a) \/ UpdateOfferStatus(a)
                 \/ UpdateListingStatus(a) \/ CallFails(a)
    PROVE  Untouched(l)
<1>1. /\ selling \in [Agents -> Calls] /\ listings \in [Listings -> Listing \cup {Absent}]
      /\ offers \in [Offers -> OfferRow \cup {Absent}]
      /\ failures \in [Listings -> 0..MaxFailures]
      /\ Resting.listing = NoListing /\ NoListing # l
  BY MarketplaceAssumption
     DEF MarketInv, AgentInv, ListingInv, OfferInv, HistoryInv, Resting
<1>2. ASSUME NEW k \in Listings, NEW o \in Offers, MakeOffer(a, k, o), k # l
      PROVE  Untouched(l)
  BY <1>1, <1>2 DEF MakeOffer, Enter, Untouched
<1>3. ASSUME NEW k \in Listings, AcceptOffer(a, k), k # l
      PROVE  Untouched(l)
  BY <1>1, <1>3 DEF AcceptOffer, Enter, Untouched
<1>4. ASSUME selling[a].listing # l, RefuseOffer(a) \/ CallFails(a)
      PROVE  Untouched(l)
  BY <1>1, <1>4 DEF RefuseOffer, CallFails, Rest, Untouched
<1>5. ASSUME selling[a].listing # l, NEW o \in Offers, FindOffer(a, o)
      PROVE  Untouched(l)
  <2>1. selling'[a].listing = selling[a].listing
        /\ \A b \in Agents : b # a => selling'[b] = selling[b]
    BY <1>1, <1>5 DEF FindOffer, Calls
  <2> QED
    BY <1>1, <1>5, <2>1 DEF FindOffer, Untouched
<1>6. ASSUME selling[a].listing # l, NEW terms \in OfferTerms, AddOffer(a, terms)
      PROVE  Untouched(l)
  <2>1. /\ selling'[a].listing \in {selling[a].listing, NoListing}
        /\ \A b \in Agents : b # a => selling'[b] = selling[b]
    BY <1>1, <1>6 DEF AddOffer, Continue, Rest, Calls
  <2>2. \A o \in Offers : o # selling[a].offer => offers'[o] = offers[o]
    BY <1>1, <1>6 DEF AddOffer
  <2>3. /\ offers[selling[a].offer] = Absent /\ selling[a].offer \in Offers
        /\ offers'[selling[a].offer].listing = selling[a].listing
    BY <1>1, <1>6 DEF AddOffer, MarketInv, AgentInv, OfferInv, At
  <2> QED
    BY <1>1, <1>6, <2>1, <2>2, <2>3 DEF AddOffer, Untouched
<1>7. ASSUME selling[a].listing # l, CreateTransaction(a)
      PROVE  Untouched(l)
  <2>1. selling'[a].listing = selling[a].listing
        /\ \A b \in Agents : b # a => selling'[b] = selling[b]
    BY <1>1, <1>7 DEF CreateTransaction, Continue, Calls
  <2>2. \A t : t.listing = l => (t \in transactions' <=> t \in transactions)
    BY <1>7 DEF CreateTransaction
  <2> QED
    BY <1>1, <1>7, <2>1, <2>2 DEF CreateTransaction, Untouched
<1>8. ASSUME selling[a].listing # l, UpdateOfferStatus(a)
      PROVE  Untouched(l)
  <2>1. selling'[a].listing = selling[a].listing
        /\ \A b \in Agents : b # a => selling'[b] = selling[b]
    BY <1>1, <1>8 DEF UpdateOfferStatus, Continue, Calls
  <2>2. /\ selling[a].offer \in Offers /\ offers[selling[a].offer] \in OfferRow
        /\ offers[selling[a].offer].listing = selling[a].listing
    BY <1>1, <1>8 DEF UpdateOfferStatus, MarketInv, AgentInv, At
  <2>3. /\ offers'[selling[a].offer].listing = selling[a].listing
        /\ \A o \in Offers : o # selling[a].offer => offers'[o] = offers[o]
    BY <1>1, <1>8, <2>2 DEF UpdateOfferStatus, OfferRow
  <2> QED
    BY <1>1, <1>8, <2>1, <2>2, <2>3 DEF UpdateOfferStatus, Untouched
<1>9. ASSUME selling[a].listing # l, UpdateListingStatus(a)
      PROVE  Untouched(l)
  BY <1>1, <1>9 DEF UpdateListingStatus, Rest, Untouched
<1> QED
  BY <1>2, <1>3, <1>4, <1>5, <1>6, <1>7, <1>8, <1>9

\* A goroutine enters a listing, and stays alone there if the listing is not
\* contended after that.
LEMMA EnterSales ==
    ASSUME MarketInv, NEW l \in Listings, NEW a \in Agents, l \notin contended',
           \/ \E o \in Offers : MakeOffer(a, l, o)
           \/ AcceptOffer(a, l),
           LoneAt(l), CountAt(l), SettledAt(l)
    PROVE  LoneAt(l)' /\ CountAt(l)' /\ SettledAt(l)'
<1>1. /\ selling' = [selling EXCEPT ![a] = selling'[a]]
      /\ selling'[a].listing = l /\ selling'[a].pc \in {"offer", "lookup"}
      /\ UNCHANGED <<listings, offers, transactions, failures>>
      /\ listings[l].status = "active" /\ selling[a] = Resting
      /\ \A b \in Agents \ {a} : selling[b].listing # l
  <2>1. selling \in [Agents -> Calls] /\ listings[l] \in Listing \cup {Absent}
    BY DEF MarketInv, AgentInv, ListingInv
  <2>2. CASE \E o \in Offers : MakeOffer(a, l, o)
    BY <2>1, <2>2 DEF MakeOffer, Enter, Open
  <2>3. CASE AcceptOffer(a, l)
    BY <2>1, <2>3 DEF AcceptOffer, Enter, Sellable, Listing, Absent
  <2> QED
    BY <2>2, <2>3
<1>2. \A b \in Agents \ {a} : selling'[b] = selling[b]
  BY <1>1 DEF MarketInv, AgentInv
<1>3. LoneAt(l)'
  BY <1>1, <1>2 DEF LoneAt
<1>4. ~Midway(l) /\ ~Midway(l)'
  BY <1>1, <1>2 DEF Midway, At, Resting
<1>5. \A o : ~Selling(o, l) /\ ~Selling(o, l)'
  BY <1>1, <1>2 DEF Selling, At, Resting
<1>6. SalesOf(l)' = SalesOf(l)
  BY <1>1 DEF SalesOf
<1>7. CountAt(l)'
  BY <1>1, <1>4, <1>6 DEF CountAt
<1>8. SettledAt(l)'
  BY <1>1, <1>4, <1>5, <1>6 DEF SettledAt
<1> QED
  BY <1>3, <1>7, <1>8

\* A call ends without another write: well, before its sale; or not, anywhere.
LEMMA LeaveSales ==
    ASSUME MarketInv, NEW l \in Listings, NEW a \in Agents, selling[a].listing = l,
           RefuseOffer(a) \/ CallFails(a), LoneAt(l), CountAt(l), SettledAt(l)
    PROVE  LoneAt(l)' /\ CountAt(l)' /\ SettledAt(l)'
<1>1. /\ selling \in [Agents -> Calls]
      /\ selling' = [selling EXCEPT ![a] = Resting]
      /\ UNCHANGED <<listings, offers, transactions>>
      /\ Resting.listing # l
  BY MarketplaceAssumption DEF RefuseOffer, CallFails, Rest, MarketInv, AgentInv, Resting
<1>2. \A b \in Agents : selling'[b].listing # l
  BY <1>1 DEF LoneAt
<1>3. LoneAt(l)' /\ ~Midway(l)' /\ \A o : ~Selling(o, l)'
  BY <1>2 DEF LoneAt, Midway, Selling
<1>4. SalesOf(l)' = SalesOf(l) /\ Cardinality(SalesOf(l)) \in Nat
  <2>1. IsFiniteSet(SalesOf(l))
    BY FS_Subset DEF SalesOf, MarketInv, TransactionInv
  <2> QED
    BY <1>1, <2>1, FS_CardinalityType DEF SalesOf
<1>5. failures[l] \in Nat
  BY MarketplaceAssumption DEF MarketInv, HistoryInv
<1>6. CASE RefuseOffer(a)
  <2>1. ~Midway(l) /\ (\A o : ~Selling(o, l)) /\ failures' = failures
    BY <1>6, <1>1 DEF RefuseOffer, Midway, Selling, LoneAt, At
  <2> QED
    BY <1>1, <1>3, <1>4, <2>1 DEF CountAt, SettledAt
<1>7. CASE CallFails(a)
  <2>1. failures'[l] = failures[l] + 1
    BY <1>7 DEF CallFails, MarketInv, HistoryInv
  <2> QED
    BY <1>1, <1>3, <1>4, <1>5, <2>1 DEF CountAt, SettledAt
<1> QED
  BY <1>6, <1>7

LEMMA CrashSales ==
    ASSUME MarketInv, NEW l \in Listings, MarketCrash,
           LoneAt(l), CountAt(l), SettledAt(l)
    PROVE  LoneAt(l)' /\ CountAt(l)' /\ SettledAt(l)'
<1>1. /\ selling' = [b \in Agents |-> Resting]
      /\ UNCHANGED <<listings, offers, transactions>>
      /\ Resting.listing # l /\ failures[l] \in Nat
  BY MarketplaceAssumption DEF MarketCrash, Resting, MarketInv, HistoryInv
<1>2. LoneAt(l)' /\ ~Midway(l)' /\ \A o : ~Selling(o, l)'
  BY <1>1 DEF LoneAt, Midway, Selling
<1>3. SalesOf(l)' = SalesOf(l) /\ Cardinality(SalesOf(l)) \in Nat
  <2>1. IsFiniteSet(SalesOf(l))
    BY FS_Subset DEF SalesOf, MarketInv, TransactionInv
  <2> QED
    BY <1>1, <2>1, FS_CardinalityType DEF SalesOf
<1>4. CASE \E a \in Agents : selling[a].listing = l
  <2>1. failures'[l] = failures[l] + 1
    BY <1>4 DEF MarketCrash
  <2> QED
    BY <1>1, <1>2, <1>3, <2>1 DEF CountAt, SettledAt
<1>5. CASE \A a \in Agents : selling[a].listing # l
  <2>1. failures'[l] = failures[l]
    BY <1>5, <1>1 DEF MarketCrash
  <2>2. ~Midway(l) /\ \A o : ~Selling(o, l)
    BY <1>5 DEF Midway, Selling
  <2> QED
    BY <1>1, <1>2, <1>3, <2>1, <2>2 DEF CountAt, SettledAt
<1> QED
  BY <1>4, <1>5

LEMMA ListSales ==
    ASSUME MarketInv, NEW l \in Listings, NEW terms \in SaleTerms, ListSeats(l, terms)
    PROVE  LoneAt(l)' /\ CountAt(l)' /\ SettledAt(l)'
<1>1. /\ listings[l] = Absent
      /\ listings'[l] = [terms |-> terms, status |-> "active"]
      /\ UNCHANGED <<offers, transactions, selling, failures>>
  BY DEF ListSeats, MarketInv, ListingInv
<1>2. \A a \in Agents : selling'[a].listing # l
  BY <1>1, MarketplaceAssumption DEF MarketInv, AgentInv, Resting
<1>3. LoneAt(l)' /\ ~Midway(l)'
  BY <1>2 DEF LoneAt, Midway
<1>4. SalesOf(l)' = {}
  BY <1>1 DEF SalesOf, MarketInv, TransactionInv
<1>5. \A o \in Offers : offers'[o] # Absent => offers'[o].listing # l
  BY <1>1 DEF MarketInv, OfferInv
<1>6. failures'[l] \in Nat
  BY <1>1, MarketplaceAssumption DEF MarketInv, HistoryInv
<1>7. listings'[l].status # "completed"
  BY <1>1
<1> QED
  BY <1>3, <1>4, <1>5, <1>6, <1>7, FS_EmptySet DEF CountAt, SettledAt

\* What is said of a listing in the middle of a call, for the call there.
LEMMA LoneCall ==
    ASSUME MarketInv, NEW l \in Listings, LoneAt(l),
           NEW a \in Agents, selling[a].listing = l
    PROVE  /\ listings[l] \in Listing /\ listings[l].status = "active"
           /\ Midway(l) <=> At(a, {"accept", "complete"})
           /\ \A o : Selling(o, l) <=> At(a, {"accept"}) /\ selling[a].offer = o
           /\ IsFiniteSet(SalesOf(l)) /\ Cardinality(SalesOf(l)) \in Nat
           /\ failures[l] \in Nat
<1>1. listings[l].status = "active" /\ listings[l] \in Listing
  <2>1. listings[l].status = "active" /\ ~At(a, {"idle"})
    BY MarketplaceAssumption DEF LoneAt, MarketInv, AgentInv, Resting
  <2> QED
    BY <2>1 DEF MarketInv, ListingInv, AgentInv
<1>2. \A b \in Agents : selling[b].listing = l => b = a
  BY DEF LoneAt
<1>3. Midway(l) <=> At(a, {"accept", "complete"})
  BY <1>2 DEF Midway, At
<1>4. \A o : Selling(o, l) <=> At(a, {"accept"}) /\ selling[a].offer = o
  BY <1>2 DEF Selling, At
<1>5. IsFiniteSet(SalesOf(l)) /\ Cardinality(SalesOf(l)) \in Nat
  BY FS_Subset, FS_CardinalityType DEF SalesOf, MarketInv, TransactionInv
<1>6. failures[l] \in Nat
  BY MarketplaceAssumption DEF MarketInv, HistoryInv
<1> QED
  BY <1>1, <1>3, <1>4, <1>5, <1>6

\* A goroutine that goes on or ends leaves the others where they are.
LEMMA LoneStep ==
    ASSUME MarketInv, NEW l \in Listings, LoneAt(l),
           NEW a \in Agents, selling[a].listing = l,
           \A b \in Agents : b # a => selling'[b] = selling[b],
           selling'[a].listing = l => listings'[l].status = "active"
    PROVE  /\ LoneAt(l)'
           /\ Midway(l)' <=> /\ selling'[a].listing = l
                             /\ selling'[a].pc \in {"accept", "complete"}
           /\ \A o : Selling(o, l)' <=> /\ selling'[a].listing = l
                                        /\ selling'[a].pc = "accept"
                                        /\ selling'[a].offer = o
<1>1. \A b \in Agents : selling'[b].listing = l => b = a
  BY DEF LoneAt
<1>2. LoneAt(l)'
  BY <1>1 DEF LoneAt
<1> QED
  BY <1>1, <1>2 DEF Midway, Selling, At

\* The steps of a call at its own listing before its transaction.
LEMMA EarlySales ==
    ASSUME MarketInv, NEW l \in Listings, NEW a \in Agents, selling[a].listing = l,
           \/ \E o \in Offers : FindOffer(a, o)
           \/ \E terms \in OfferTerms : AddOffer(a, terms),
           LoneAt(l), CountAt(l), SettledAt(l)
    PROVE  LoneAt(l)' /\ CountAt(l)' /\ SettledAt(l)'
<1>1. /\ selling \in [Agents -> Calls]
      /\ UNCHANGED <<listings, transactions, failures>>
      /\ selling[a].pc \in {"lookup", "offer"}
      /\ \A b \in Agents : b # a => selling'[b] = selling[b]
      /\ \/ selling'[a] = Resting
         \/ selling'[a].pc = "transaction"
  <2>1. selling \in [Agents -> Calls]
    BY DEF MarketInv, AgentInv
  <2>2. CASE \E o \in Offers : FindOffer(a, o)
    BY <2>1, <2>2 DEF FindOffer, Calls
  <2>3. CASE \E terms \in OfferTerms : AddOffer(a, terms)
    BY <2>1, <2>3 DEF AddOffer, Continue, Rest, Calls
  <2> QED
    BY <2>1, <2>2, <2>3
<1>2. /\ ~Midway(l) /\ (\A o : ~Selling(o, l))
      /\ listings[l].status = "active"
  BY <1>1, LoneCall DEF At
<1>3. LoneAt(l)' /\ ~Midway(l)' /\ \A o : ~Selling(o, l)'
  BY <1>1, <1>2, LoneStep DEF Resting
<1>4. SalesOf(l)' = SalesOf(l)
  BY <1>1 DEF SalesOf
<1>5. CountAt(l)'
  BY <1>1, <1>2, <1>4 DEF CountAt
<1>6. SettledAt(l)'
  <2>1. CASE offers' = offers
    BY <2>1, <1>1, <1>2, <1>3, <1>4 DEF SettledAt
  <2>2. CASE \E terms \in OfferTerms : AddOffer(a, terms)
    <3>1. /\ offers[selling[a].offer] = Absent /\ selling[a].offer \in Offers
          /\ offers'[selling[a].offer].status = "pending"
          /\ \A o \in Offers : o # selling[a].offer => offers'[o] = offers[o]
      BY <2>2 DEF AddOffer, MarketInv, AgentInv, OfferInv, At
    <3>2. \A t \in SalesOf(l) : t.offer # selling[a].offer
      BY <3>1 DEF SalesOf, MarketInv, TransactionInv
    <3> QED
      BY <1>1, <1>2, <1>3, <1>4, <3>1, <3>2 DEF SettledAt
  <2> QED
    BY <2>1, <2>2 DEF FindOffer
<1> QED
  BY <1>3, <1>5, <1>6

LEMMA CreateSales ==
    ASSUME MarketInv, NEW l \in Listings, NEW a \in Agents, selling[a].listing = l,
           CreateTransaction(a), LoneAt(l), CountAt(l), SettledAt(l)
    PROVE  LoneAt(l)' /\ CountAt(l)' /\ SettledAt(l)'
<1> DEFINE o == selling[a].offer
<1>0. PICK sale : sale = [number |-> Cardinality(transactions) + 1, listing |-> l,
                          offer |-> o, seats |-> offers[o].terms.seats,
                          price |-> Price(l, o)]
  OBVIOUS
<1>1. /\ selling \in [Agents -> Calls]
      /\ UNCHANGED <<listings, offers, failures>>
      /\ transactions' = transactions \cup {sale}
      /\ selling[a].pc = "transaction"
      /\ \A b \in Agents : b # a => selling'[b] = selling[b]
      /\ selling'[a].pc = "accept" /\ selling'[a].listing = l
      /\ selling'[a].offer = o
  BY <1>0 DEF CreateTransaction, Continue, MarketInv, AgentInv, Calls
<1>2. /\ ~Midway(l) /\ (\A p : ~Selling(p, l))
      /\ listings[l].status = "active"
      /\ IsFiniteSet(SalesOf(l)) /\ Cardinality(SalesOf(l)) \in Nat
      /\ failures[l] \in Nat
  BY <1>1, LoneCall DEF At
<1>3. LoneAt(l)' /\ Midway(l)' /\ \A p : Selling(p, l)' <=> o = p
  BY <1>1, <1>2, LoneStep
<1>4. SalesOf(l)' = SalesOf(l) \cup {sale} /\ sale.offer = o
  BY <1>0, <1>1 DEF SalesOf
<1>5. CountAt(l)'
  <2>0. PICK sales : sales = SalesOf(l)
    OBVIOUS
  <2>1. Cardinality(SalesOf(l) \cup {sale}) <= Cardinality(SalesOf(l)) + 1
    <3>1. Cardinality(sales) \in Nat /\ IsFiniteSet(sales)
      BY <1>2, <2>0
    <3>2. \/ Cardinality(sales \cup {sale}) = Cardinality(sales)
          \/ Cardinality(sales \cup {sale}) = Cardinality(sales) + 1
      BY <3>1, FS_AddElement
    <3> QED
      BY <3>1, <3>2, <2>0
  <2>2. Cardinality(SalesOf(l)) <= failures[l]
    BY <1>2 DEF CountAt
  <2>3. Cardinality(SalesOf(l) \cup {sale}) \in Nat
    BY <1>2, FS_AddElement, FS_CardinalityType
  <2> QED
    BY <1>1, <1>2, <1>3, <1>4, <2>1, <2>2, <2>3 DEF CountAt
<1>6. SettledAt(l)'
  <2> SUFFICES ASSUME failures[l] = 0
               PROVE  /\ listings'[l].status # "completed" /\ Midway(l)'
                      /\ \A p \in Offers : offers[p] # Absent /\ offers[p].listing = l =>
                           (offers[p].status = "accepted"
                              <=> (\E t \in SalesOf(l)' : t.offer = p) /\ ~Selling(p, l)')
    BY <1>1 DEF SettledAt
  <2>1. SalesOf(l) = {} /\ listings[l].status # "completed"
    BY <1>2 DEF SettledAt
  <2>2. \A p \in Offers : offers[p] # Absent /\ offers[p].listing = l =>
           offers[p].status # "accepted"
    BY <2>1 DEF SettledAt
  <2>3. \A t \in SalesOf(l)' : t.offer = o
    BY <1>4, <2>1
  <2> QED
    BY <1>1, <1>3, <2>1, <2>2, <2>3
<1> QED
  BY <1>3, <1>5, <1>6

LEMMA AcceptSales ==
    ASSUME MarketInv, NEW l \in Listings, NEW a \in Agents, selling[a].listing = l,
           UpdateOfferStatus(a), LoneAt(l), CountAt(l), SettledAt(l)
    PROVE  LoneAt(l)' /\ CountAt(l)' /\ SettledAt(l)'
<1> DEFINE o == selling[a].offer
<1>1. /\ selling \in [Agents -> Calls]
      /\ UNCHANGED <<listings, transactions, failures>>
      /\ selling[a].pc = "accept"
      /\ \A b \in Agents : b # a => selling'[b] = selling[b]
      /\ selling'[a].pc = "complete" /\ selling'[a].listing = l
  BY DEF UpdateOfferStatus, Continue, MarketInv, AgentInv, Calls
<1>2. /\ o \in Offers /\ offers[o] \in OfferRow /\ offers[o].listing = l
      /\ \E t \in transactions : t.offer = o /\ t.listing = l
  BY <1>1 DEF MarketInv, AgentInv, OfferInv, At
<1>3. /\ offers'[o].status = "accepted"
      /\ \A p \in Offers : p # o => offers'[p] = offers[p]
  BY <1>2 DEF UpdateOfferStatus, MarketInv, OfferInv, OfferRow
<1>4. Midway(l) /\ (\A p : Selling(p, l) <=> o = p) /\ listings[l].status = "active"
  BY <1>1, LoneCall DEF At
<1>5. LoneAt(l)' /\ Midway(l)' /\ \A p : ~Selling(p, l)'
  BY <1>1, <1>4, LoneStep
<1>6. SalesOf(l)' = SalesOf(l) /\ \E t \in SalesOf(l) : t.offer = o
  BY <1>1, <1>2 DEF SalesOf
<1>7. CountAt(l)'
  BY <1>1, <1>5, <1>6 DEF CountAt
<1>8. SettledAt(l)'
  <2> SUFFICES ASSUME failures[l] = 0
               PROVE  /\ listings'[l].status # "completed" /\ Midway(l)'
                      /\ \A p \in Offers : offers'[p] # Absent /\ offers'[p].listing = l =>
                           (offers'[p].status = "accepted"
                              <=> (\E t \in SalesOf(l)' : t.offer = p) /\ ~Selling(p, l)')
    BY <1>1 DEF SettledAt
  <2>1. listings'[l].status # "completed"
    BY <1>1, <1>4
  <2>2. ASSUME NEW p \in Offers, p # o, offers[p] # Absent, offers[p].listing = l
        PROVE  offers[p].status = "accepted" <=> (\E t \in SalesOf(l) : t.offer = p)
    BY <1>4, <2>2 DEF SettledAt
  <2> QED
    BY <1>3, <1>5, <1>6, <2>1, <2>2
<1> QED
  BY <1>5, <1>7, <1>8

LEMMA CompleteSales ==
    ASSUME MarketInv, NEW l \in Listings, NEW a \in Agents, selling[a].listing = l,
           UpdateListingStatus(a), LoneAt(l), CountAt(l), SettledAt(l)
    PROVE  LoneAt(l)' /\ CountAt(l)' /\ SettledAt(l)'
<1>1. /\ UNCHANGED <<offers, transactions, failures>>
      /\ selling[a].pc = "complete"
      /\ \A b \in Agents : b # a => selling'[b] = selling[b]
      /\ selling'[a] = Resting
  BY DEF UpdateListingStatus, Rest, MarketInv, AgentInv
<1>2. /\ ~Selling(selling[a].offer, l) /\ (\A p : ~Selling(p, l))
      /\ listings[l] \in Listing /\ listings[l].status = "active"
  BY <1>1, LoneCall DEF At
<1>3. listings'[l].status = "completed"
  BY <1>2 DEF UpdateListingStatus, MarketInv, ListingInv, Listing
<1>4. Resting.listing # l
  BY MarketplaceAssumption DEF Resting
<1>5. LoneAt(l)' /\ ~Midway(l)' /\ \A p : ~Selling(p, l)'
  BY <1>1, <1>4, LoneStep
<1>6. SalesOf(l)' = SalesOf(l) /\ SalesOf(l) # {}
  BY <1>1 DEF SalesOf, MarketInv, AgentInv, At
<1>7. CountAt(l)'
  BY <1>1, <1>3, <1>6 DEF CountAt
<1>8. SettledAt(l)'
  BY <1>1, <1>2, <1>3, <1>5, <1>6 DEF SettledAt
<1> QED
  BY <1>5, <1>7, <1>8

LEMMA InitSales == MarketInit => SalesInv
<1> SUFFICES ASSUME MarketInit, NEW l \in Listings
             PROVE  LoneAt(l) /\ CountAt(l) /\ SettledAt(l)
  BY DEF SalesInv
<1>1. \A a \in Agents : selling[a].listing # l
  BY MarketplaceAssumption DEF MarketInit, Resting
<1>2. LoneAt(l) /\ ~Midway(l)
  BY <1>1 DEF LoneAt, Midway
<1>3. SalesOf(l) = {} /\ failures[l] = 0
  BY DEF MarketInit, SalesOf
<1>4. listings[l].status # "completed" /\ \A o \in Offers : offers[o] = Absent
  BY DEF MarketInit, Absent
<1> QED
  BY <1>2, <1>3, <1>4, FS_EmptySet DEF CountAt, SettledAt

LEMMA NextSales == MarketInv /\ SalesInv /\ [MarketNext]_marketVars => SalesInv'
<1> SUFFICES ASSUME MarketInv, SalesInv, MarketNext, NEW l \in Listings, l \notin contended'
             PROVE  LoneAt(l)' /\ CountAt(l)' /\ SettledAt(l)'
  <2>1. CASE UNCHANGED marketVars
    BY <2>1 DEF marketVars, SalesInv, LoneAt, CountAt, SettledAt, Midway, Selling, At,
                SalesOf
  <2> QED
    BY <2>1 DEF SalesInv
<1>1. l \notin contended
  BY DEF MarketNext, ListSeats, MakeOffer, AddOffer, AcceptOffer, FindOffer, RefuseOffer,
     CreateTransaction, UpdateOfferStatus, UpdateListingStatus, CallFails, MarketCrash,
     Enter
<1>2. LoneAt(l) /\ CountAt(l) /\ SettledAt(l)
  BY <1>1 DEF SalesInv
<1>3. ASSUME NEW k \in Listings, NEW terms \in SaleTerms, ListSeats(k, terms)
      PROVE  LoneAt(l)' /\ CountAt(l)' /\ SettledAt(l)'
  <2>1. CASE k = l
    BY <1>3, <2>1, ListSales
  <2>2. CASE k # l
    <3>1. Untouched(l)
      BY <1>3, <2>2 DEF ListSeats, Untouched, MarketInv, ListingInv
    <3> QED
      BY <1>2, <3>1, UntouchedKeeps
  <2> QED
    BY <2>1, <2>2
<1>4. CASE MarketCrash
  BY <1>2, <1>4, CrashSales
<1>5. ASSUME NEW a \in Agents, Untouched(l)
      PROVE  LoneAt(l)' /\ CountAt(l)' /\ SettledAt(l)'
  BY <1>2, <1>5, UntouchedKeeps
<1>6. ASSUME NEW a \in Agents,
             \/ \E k \in Listings, o \in Offers : MakeOffer(a, k, o)
             \/ \E k \in Listings : AcceptOffer(a, k)
      PROVE  LoneAt(l)' /\ CountAt(l)' /\ SettledAt(l)'
  BY <1>1, <1>2, <1>5, <1>6, Elsewhere, EnterSales
<1>7. ASSUME NEW a \in Agents,
             \/ \E terms \in OfferTerms : AddOffer(a, terms)
             \/ \E o \in Offers : FindOffer(a, o)
             \/ RefuseOffer(a) \/ CreateTransaction(a) \/ UpdateOfferStatus(a)
             \/ UpdateListingStatus(a) \/ CallFails(a)
      PROVE  LoneAt(l)' /\ CountAt(l)' /\ SettledAt(l)'
  <2>1. CASE selling[a].listing = l
    BY <1>2, <1>7, <2>1, EarlySales, LeaveSales, CreateSales, AcceptSales, CompleteSales
  <2>2. CASE selling[a].listing # l
    BY <1>5, <1>7, <2>2, Elsewhere
  <2> QED
    BY <2>1, <2>2
<1> QED
  BY <1>3, <1>4, <1>6, <1>7 DEF MarketNext

LEMMA SalesAlways == MarketSpec => [](MarketInv /\ SalesInv)
BY InitMarketInv, InitSales, NextInv, NextSales, PTL DEF MarketSpec

-----------------------------------------------------------------------------

\* The three tables of the market place, the ids drawn, the calls on them and
\* the history keep their types (internal/marketplace).
THEOREM MarketplaceTypeCorrect == MarketSpec => []MarketTypeOK
<1>1. MarketInv => MarketTypeOK
  BY DEF MarketInv, ListingInv, OfferInv, AgentInv, TransactionInv, HistoryInv,
         MarketTypeOK, At, Calls
<1> QED
  BY <1>1, MarketInvAlways, PTL

\* An accepted offer has its transaction and a completed listing its accepted
\* offer, wherever AcceptOffer or MakeOffer stopped between their writes.
THEOREM StatusIsBackedAlways == MarketSpec => []StatusIsBacked
<1>1. MarketInv => StatusIsBacked
  BY DEF MarketInv
<1> QED
  BY <1>1, MarketInvAlways, PTL

\* A transaction is for the seats of an offer on its listing, no more than
\* were listed, at a price neither side can refuse (MakeOffer, AcceptOffer).
THEOREM SaleIsAgreedAlways == MarketSpec => []SaleIsAgreed
<1>1. MarketInv => SaleIsAgreed
  BY DEF MarketInv, TransactionInv
<1> QED
  BY <1>1, MarketInvAlways, PTL

\* While no two calls on a listing overlapped, every transaction beyond the
\* first is the retry of a call that went wrong between the three writes of a
\* sale (AcceptOffer, MakeOffer).
THEOREM ExtraSalesAreRetriesAlways == MarketSpec => []ExtraSalesAreRetries
<1>1. MarketInv /\ SalesInv => ExtraSalesAreRetries
  <2> SUFFICES ASSUME MarketInv, NEW l \in Listings, CountAt(l)
               PROVE  Cardinality(SalesOf(l)) <= 1 + failures[l]
    BY DEF SalesInv, ExtraSalesAreRetries
  <2>1. failures[l] \in Nat
    BY MarketplaceAssumption DEF MarketInv, HistoryInv
  <2> QED
    BY <2>1 DEF CountAt
<1> QED
  BY <1>1, SalesAlways, PTL

\* A listing that was only used by calls that ended well, one at a time, is
\* completed exactly when its seats were sold, and the offer sold is the one
\* that is accepted (UpdateOfferStatus, UpdateListingStatus).
THEOREM CompletedExactlyWhenSoldAlways == MarketSpec => []CompletedExactlyWhenSold
<1>1. MarketInv /\ SalesInv => CompletedExactlyWhenSold
  <2> SUFFICES ASSUME MarketInv, NEW l \in Listings, SettledAt(l), failures[l] = 0,
                      \A a \in Agents : selling[a].listing # l
               PROVE  /\ (listings[l].status = "completed") <=> (SalesOf(l) # {})
                      /\ \A o \in Offers : offers[o].status # "absent" =>
                            (offers[o].listing = l =>
                               ((offers[o].status = "accepted")
                                  <=> (\E t \in SalesOf(l) : t.offer = o)))
    BY DEF SalesInv, CompletedExactlyWhenSold
  <2>1. ~Midway(l) /\ \A o : ~Selling(o, l)
    BY DEF Midway, Selling
  <2>2. \A o \in Offers : offers[o].status # "absent" => offers[o] # Absent
    BY DEF Absent
  <2> QED
    BY <2>1, <2>2 DEF SettledAt
<1> QED
  BY <1>1, SalesAlways, PTL

-----------------------------------------------------------------------------
(* Sell-side listings.                                                     *)

Pcs == {"idle", "negotiate", "bid", "find", "sell", "award", "close", "withdraw"}

Hand == [pc : Pcs, item : Items \cup {NoItem}, bid : Bids \cup {NoBid}]

Sale == [item : Items, bid : Bids, awarded : BOOLEAN, number : Nat \ {0}]

Busy(h) == hand[h] # Free

\* A goroutine that is about to insert its bid.
Bidding(h) == Busy(h) /\ hand[h].pc \in {"negotiate", "bid"}

ItemInv ==
    /\ items \in [Items -> ItemRow \cup {NoRow}]
    /\ lapsed \subseteq Items /\ mixed \subseteq Items

\* Only ids that were handed out have rows, and only for items on record.
BidInv ==
    /\ bids \in [Bids -> BidRow \cup {NoRow}]
    /\ used \subseteq Bids
    /\ \A b \in Bids : bids[b] # NoRow =>
          b \in used /\ items[bids[b].item] # NoRow

\* What a goroutine remembers: an item on record, and a bid id that is its
\* own until the bid is inserted, or that of a bid for this item.
HandInv ==
    /\ hand \in [Hands -> Hand]
    /\ \A h \in Hands : Busy(h) =>
          /\ hand[h].pc # "idle"
          /\ hand[h].item \in Items
          /\ items[hand[h].item] # NoRow
          /\ hand[h].bid \in used \cup {NoBid}
          /\ hand[h].pc \in {"sell", "award"} => hand[h].bid \in Placed(hand[h].item)
    /\ \A h \in Hands : Bidding(h) =>
          hand[h].bid \in used /\ bids[hand[h].bid] = NoRow
    /\ \A h, g \in Hands :
          h # g /\ Bidding(h) /\ Bidding(g) => hand[h].bid # hand[g].bid

SaleInv ==
    /\ confirmed \subseteq Sale
    /\ IsFiniteSet(confirmed)
    /\ SoldToABid

\* Two goroutines at one item make it mixed.
ApartInv ==
    \A h, g \in Hands :
       h # g /\ Busy(h) /\ Busy(g) /\ hand[h].item = hand[g].item
          => hand[h].item \in mixed

\* What AuctionIsHonoured says of one item.
HonouredAt(i) ==
    /\ items[i].status = "withdrawn" => Placed(i) = {}
    /\ \A c \in SalesOfItem(i) : c.awarded =>
          \A b \in Placed(i) : bids[b].amount <= bids[c.bid].amount

\* A goroutine that is alone with its item still finds what it has read: the
\* item is not sold, bids are taken unless the owner is accepting one, an
\* auction about to be withdrawn has no bids, and the winner is the best.
AloneAt(h) ==
    LET i == hand[h].item IN
    /\ items[i].status # "sold"
    /\ hand[h].pc \notin {"find", "sell"} => TakesBids(i)
    /\ hand[h].pc = "withdraw" /\ items[i].terms.strategy = "auction"
          => Placed(i) = {}
    /\ hand[h].pc = "award" =>
          \A b \in Placed(i) : bids[b].amount <= bids[hand[h].bid].amount

AloneHandInv ==
    \A h \in Hands : Busy(h) /\ hand[h].item \notin mixed => AloneAt(h)

\* SoldOnceForGood, without cardinalities.
OnceInv ==
    \A i \in Items \ mixed :
       /\ \A c, d \in confirmed : c.item = i /\ d.item = i => c = d
       /\ (\E c \in confirmed : c.item = i) <=> items[i].status = "sold"

SellInv == /\ ItemInv /\ BidInv /\ HandInv /\ SaleInv
           /\ ApartInv /\ AloneHandInv /\ OnceInv /\ AuctionIsHonoured

USE SellListingsAssumption DEF Busy, Bidding

-----------------------------------------------------------------------------

LEMMA BidRowIsARow == \A r \in BidRow : r # NoRow
BY DEF BidRow, NoRow

LEMMA ItemRowIsARow == \A r \in ItemRow : r # NoRow
BY DEF ItemRow, NoRow

LEMMA FreeIsAHand == Free \in Hand
BY DEF Free, Hand, Pcs

LEMMA InitSellInv == SellInit => SellInv
<1> SUFFICES ASSUME SellInit PROVE SellInv
  OBVIOUS
<1> USE DEF SellInit
<1>1. ItemInv /\ BidInv
  BY DEF ItemInv, BidInv, NoRow
<1>2. HandInv
  BY FreeIsAHand DEF HandInv
<1>3. SaleInv
  BY FS_EmptySet DEF SaleInv, SoldToABid, NoRow
<1>4. ApartInv /\ AloneHandInv /\ OnceInv
  BY DEF ApartInv, AloneHandInv, AloneAt, OnceInv, NoRow
<1>5. AuctionIsHonoured
  BY DEF AuctionIsHonoured, NoRow
<1> QED
  BY <1>1, <1>2, <1>3, <1>4, <1>5 DEF SellInv

-----------------------------------------------------------------------------

\* An item that is listed is nobody's yet: no goroutine, bid or sale has it.
LEMMA ListKeepsInv ==
    ASSUME SellInv, NEW i \in Items, NEW terms \in ItemTerms, ListItem(i, terms)
    PROVE  SellInv'
<1> DEFINE row == [terms |-> terms, status |-> "active"]
<1>1. /\ items[i] = NoRow
      /\ items' = [items EXCEPT ![i] = row]
      /\ UNCHANGED <<bids, lapsed, hand, used, confirmed, mixed>>
  BY DEF ListItem
<1>2. row \in ItemRow /\ row # NoRow
  BY ItemRowIsARow DEF ItemRow
<1>3. /\ items'[i] = row
      /\ \A j \in Items : j # i => items'[j] = items[j]
  BY <1>1 DEF SellInv, ItemInv
<1>4. \A h \in Hands : Busy(h) => hand[h].item # i
  BY <1>1 DEF SellInv, HandInv
<1>5. \A b \in Bids : bids[b] # NoRow => bids[b].item # i /\ bids[b].item \in Items
  BY <1>1 DEF SellInv, BidInv, BidRow
<1>6. \A c \in confirmed : c.item # i /\ c.item \in Items /\ c.bid \in Placed(c.item)
  BY <1>5 DEF SellInv, SaleInv, SoldToABid, Sale, Placed
<1>7. \A j \in Items : Placed(j)' = Placed(j) /\ SalesOfItem(j)' = SalesOfItem(j)
  BY <1>1 DEF Placed, SalesOfItem
<1>8. ItemInv'
  BY <1>1, <1>2 DEF SellInv, ItemInv
<1>9. BidInv'
  BY <1>1, <1>3, <1>5 DEF SellInv, BidInv
<1>10. HandInv'
  BY <1>1, <1>3, <1>4, <1>7 DEF SellInv, HandInv
<1>11. SaleInv'
  <2>1. (\A c \in confirmed : c.bid \in Placed(c.item))'
    BY <1>1, <1>6, <1>7
  <2>2. (\A j \in Items : items[j].status = "sold" => SalesOfItem(j) # {})'
    BY <1>3, <1>7 DEF SellInv, SaleInv, SoldToABid
  <2> QED
    BY <1>1, <2>1, <2>2 DEF SellInv, SaleInv, SoldToABid
<1>12. ApartInv'
  BY <1>1 DEF SellInv, ApartInv
<1>13. AloneHandInv'
  BY <1>1, <1>3, <1>4, <1>7 DEF SellInv, AloneHandInv, AloneAt, HandInv, TakesBids
<1>14. OnceInv'
  BY <1>1, <1>3, <1>6 DEF SellInv, OnceInv
<1>15. AuctionIsHonoured'
  <2> SUFFICES ASSUME NEW j \in Items \ mixed, items'[j] # NoRow,
                      items'[j].terms.strategy = "auction"
               PROVE  HonouredAt(j)'
    BY <1>1 DEF AuctionIsHonoured, HonouredAt
  <2>1. CASE j = i
    BY <1>3, <1>6, <1>7, <2>1 DEF HonouredAt, SalesOfItem
  <2>2. CASE j # i
    BY <1>1, <1>3, <1>7, <2>2 DEF SellInv, AuctionIsHonoured, HonouredAt
  <2> QED
    BY <2>1, <2>2
<1> QED
  BY <1>8, <1>9, <1>10, <1>11, <1>12, <1>13, <1>14, <1>15 DEF SellInv

LEMMA ExpireKeepsInv ==
    ASSUME SellInv, NEW i \in Items, Expire(i)
    PROVE  SellInv'
<1> USE DEF Expire
<1>1. ItemInv' /\ BidInv'
  BY DEF SellInv, ItemInv, BidInv
<1>2. HandInv' /\ SaleInv' /\ ApartInv'
  BY DEF SellInv, HandInv, Placed, SaleInv, SoldToABid, SalesOfItem, ApartInv
<1>3. AloneHandInv' /\ OnceInv' /\ AuctionIsHonoured'
  BY DEF SellInv, AloneHandInv, AloneAt, OnceInv, AuctionIsHonoured, Placed, SalesOfItem, TakesBids
<1> QED
  BY <1>1, <1>2, <1>3 DEF SellInv

\* The first read of a call: the item is on record, not sold, and takes bids
\* unless its owner accepts one; a bid id is a new one.
LEMMA TakeKeepsInv ==
    ASSUME SellInv, NEW h \in Hands, NEW i \in Items, NEW b \in Bids \cup {NoBid},
           NEW pc \in {"negotiate", "bid", "find", "close"},
           Take(h, i, b, pc), Acceptable(i),
           pc # "find" => TakesBids(i),
           pc \in {"negotiate", "bid"} => b \in used' \ used,
           pc \in {"find", "close"} => b = NoBid,
           used \subseteq used', used' \subseteq Bids,
           UNCHANGED <<items, bids, lapsed, confirmed>>
    PROVE  SellInv'
<1> DEFINE taken == [pc |-> pc, item |-> i, bid |-> b]
<1>1. /\ ~Busy(h)
      /\ hand' = [hand EXCEPT ![h] = taken]
      /\ mixed' = mixed \cup ({hand[g].item : g \in Hands \ {h}} \cap {i})
  BY DEF Take
<1>2. taken \in Hand /\ taken # Free
  BY DEF Hand, Pcs, Free
<1>3. /\ hand'[h] = taken
      /\ \A g \in Hands : g # h => hand'[g] = hand[g]
  BY <1>1 DEF SellInv, HandInv
<1>4. items[i] # NoRow /\ items[i].status # "sold"
  BY DEF Acceptable, NoRow
<1>5. \A j \in Items : Placed(j)' = Placed(j) /\ SalesOfItem(j)' = SalesOfItem(j)
  BY DEF Placed, SalesOfItem
<1>6. mixed \subseteq mixed' /\ mixed' \subseteq Items
  BY <1>1 DEF SellInv, ItemInv
<1>7. ItemInv'
  BY <1>6 DEF SellInv, ItemInv
<1>8. BidInv'
  BY DEF SellInv, BidInv
<1>9. HandInv'
  <2>1. hand' \in [Hands -> Hand]
    BY <1>1, <1>2 DEF SellInv, HandInv
  <2>2. ASSUME NEW g \in Hands, Busy(g)'
        PROVE  /\ hand'[g].pc # "idle"
               /\ hand'[g].item \in Items
               /\ items'[hand'[g].item] # NoRow
               /\ hand'[g].bid \in used' \cup {NoBid}
               /\ (hand[g].pc \in {"sell", "award"}
                      => hand[g].bid \in Placed(hand[g].item))'
    BY <1>3, <1>4, <2>2 DEF SellInv, HandInv, Placed
  <2>3. ASSUME NEW g \in Hands, Bidding(g)'
        PROVE  hand'[g].bid \in used' /\ bids'[hand'[g].bid] = NoRow
    BY <1>3, <2>3 DEF SellInv, HandInv, BidInv
  <2>4. ASSUME NEW f \in Hands, NEW g \in Hands, f # g, Bidding(f)', Bidding(g)'
        PROVE  hand'[f].bid # hand'[g].bid
    <3>1. CASE f # h /\ g # h
      BY <1>3, <2>4, <3>1 DEF SellInv, HandInv
    <3>2. CASE f = h
      BY <1>3, <2>4, <3>2 DEF SellInv, HandInv
    <3>3. CASE g = h
      BY <1>3, <2>4, <3>3 DEF SellInv, HandInv
    <3> QED
      BY <3>1, <3>2, <3>3
  <2> QED
    BY <2>1, <2>2, <2>3, <2>4 DEF HandInv
<1>10. SaleInv'
  BY <1>5 DEF SellInv, SaleInv, SoldToABid, Sale
<1>11. ApartInv'
  <2> SUFFICES ASSUME NEW f \in Hands, NEW g \in Hands, f # g, Busy(f)', Busy(g)',
                      hand'[f].item = hand'[g].item
               PROVE  hand'[f].item \in mixed'
    BY DEF ApartInv
  <2>1. CASE f # h /\ g # h
    BY <1>3, <1>6, <2>1 DEF SellInv, ApartInv
  <2>2. CASE f = h
    BY <1>1, <1>3, <2>2
  <2>3. CASE g = h
    BY <1>1, <1>3, <2>3
  <2> QED
    BY <2>1, <2>2, <2>3
<1>12. AloneHandInv'
  <2> SUFFICES ASSUME NEW g \in Hands, Busy(g)', hand'[g].item \notin mixed'
               PROVE  AloneAt(g)'
    BY DEF AloneHandInv
  <2>1. CASE g = h
    BY <1>3, <1>4, <2>1 DEF AloneAt, TakesBids
  <2>2. CASE g # h
    BY SMTT(30), <1>3, <1>5, <1>6, <2>2 DEF SellInv, AloneHandInv, HandInv, AloneAt, TakesBids
  <2> QED
    BY <2>1, <2>2
<1>13. OnceInv'
  BY <1>6 DEF SellInv, OnceInv
<1>14. AuctionIsHonoured'
  BY <1>5, <1>6 DEF SellInv, AuctionIsHonoured
<1> QED
  BY <1>7, <1>8, <1>9, <1>10, <1>11, <1>12, <1>13, <1>14 DEF SellInv

LEMMA PlaceBidKeepsInv ==
    ASSUME SellInv, NEW h \in Hands, NEW i \in Items, NEW b \in Bids,
           PlaceBid(h, i, b)
    PROVE  SellInv'
<1>1. Acceptable(i) /\ TakesBids(i)
  BY DEF PlaceBid, TakesBids, Acceptable
<1>2. b \in used' \ used /\ used \subseteq used' /\ used' \subseteq Bids
  BY DEF PlaceBid, SellInv, BidInv
<1>3. UNCHANGED <<items, bids, lapsed, confirmed>>
  BY DEF PlaceBid
<1>4. CASE items[i].status = "active"
  <2>1. Take(h, i, b, "negotiate")
    BY <1>4 DEF PlaceBid
  <2> QED
    BY <1>1, <1>2, <1>3, <2>1, TakeKeepsInv
<1>5. CASE items[i].status # "active"
  <2>1. Take(h, i, b, "bid")
    BY <1>5 DEF PlaceBid
  <2> QED
    BY <1>1, <1>2, <1>3, <2>1, TakeKeepsInv
<1> QED
  BY <1>4, <1>5

LEMMA CallKeepsInv ==
    ASSUME SellInv, NEW h \in Hands, NEW i \in Items,
           AcceptBid(h, i) \/ CheckExpired(h, i)
    PROVE  SellInv'
<1>1. used \subseteq Bids
  BY DEF SellInv, BidInv
<1>2. UNCHANGED <<items, bids, lapsed, confirmed, used>>
  BY DEF AcceptBid, CheckExpired
<1>3. CASE AcceptBid(h, i)
  <2>1. Take(h, i, NoBid, "find") /\ Acceptable(i)
    BY <1>3 DEF AcceptBid
  <2> QED
    BY <1>1, <1>2, <2>1, TakeKeepsInv
<1>4. CASE CheckExpired(h, i)
  <2>1. Take(h, i, NoBid, "close") /\ Acceptable(i) /\ TakesBids(i)
    BY <1>4 DEF CheckExpired, TakesBids, Acceptable
  <2> QED
    BY <1>1, <1>2, <2>1, TakeKeepsInv
<1> QED
  BY <1>3, <1>4

-----------------------------------------------------------------------------

\* Steps that write no table: calls that end, find a bid or close an item.
LEMMA HandKeepsInv ==
    ASSUME SellInv, hand' \in [Hands -> Hand],
           \A g \in Hands :
              \/ hand'[g] = Free
              \/ hand'[g] = hand[g]
              \/ /\ Busy(g) /\ hand'[g].item = hand[g].item
                 /\ hand'[g].pc \in {"sell", "award", "withdraw"}
                 /\ hand'[g].pc # "withdraw" => hand'[g].bid \in Placed(hand[g].item)
                 /\ hand'[g].pc = "withdraw" => hand'[g].bid = hand[g].bid
                 /\ hand[g].item \notin mixed => AloneAt(g)',
           UNCHANGED <<items, bids, lapsed, used, confirmed, mixed>>
    PROVE  SellInv'
<1>1. \A g \in Hands : Busy(g)' => Busy(g) /\ hand'[g].item = hand[g].item
  OBVIOUS
<1>2. \A g \in Hands : Bidding(g)' => hand'[g] = hand[g]
  OBVIOUS
<1>3. \A j \in Items : Placed(j)' = Placed(j) /\ SalesOfItem(j)' = SalesOfItem(j)
  BY DEF Placed, SalesOfItem
<1>4. ItemInv' /\ BidInv'
  BY DEF SellInv, ItemInv, BidInv
<1>5. HandInv'
  <2>1. ASSUME NEW g \in Hands, Busy(g)'
        PROVE  /\ hand'[g].pc # "idle"
               /\ hand'[g].item \in Items
               /\ items'[hand'[g].item] # NoRow
               /\ hand'[g].bid \in used' \cup {NoBid}
               /\ (hand[g].pc \in {"sell", "award"}
                      => hand[g].bid \in Placed(hand[g].item))'
    BY <1>1, <2>1 DEF SellInv, HandInv, BidInv, Placed
  <2>2. ASSUME NEW g \in Hands, Bidding(g)'
        PROVE  hand'[g].bid \in used' /\ bids'[hand'[g].bid] = NoRow
    BY <1>2, <2>2 DEF SellInv, HandInv
  <2>3. ASSUME NEW f \in Hands, NEW g \in Hands, f # g, Bidding(f)', Bidding(g)'
        PROVE  hand'[f].bid # hand'[g].bid
    BY <1>2, <2>3 DEF SellInv, HandInv
  <2> QED
    BY <2>1, <2>2, <2>3 DEF HandInv
<1>6. SaleInv'
  BY <1>3 DEF SellInv, SaleInv, SoldToABid, Sale
<1>7. ApartInv'
  BY <1>1 DEF SellInv, ApartInv
<1>8. AloneHandInv'
  <2> SUFFICES ASSUME NEW g \in Hands, Busy(g)', hand'[g].item \notin mixed'
               PROVE  AloneAt(g)'
    BY DEF AloneHandInv
  <2>1. CASE hand'[g] = hand[g]
    BY <2>1 DEF SellInv, AloneHandInv, AloneAt, TakesBids, Placed
  <2>2. CASE hand'[g] # hand[g]
    BY <1>1, <2>2
  <2> QED
    BY <2>1, <2>2
<1>9. OnceInv' /\ AuctionIsHonoured'
  BY <1>3 DEF SellInv, OnceInv, AuctionIsHonoured
<1> QED
  BY <1>4, <1>5, <1>6, <1>7, <1>8, <1>9 DEF SellInv

LEMMA EndKeepsInv ==
    ASSUME SellInv, (\E h \in Hands : HandFails(h)) \/ SellCrash
    PROVE  SellInv'
<1>1. UNCHANGED <<items, bids, lapsed, used, confirmed, mixed>>
  BY DEF HandFails, SellCrash
<1>2. /\ hand' \in [Hands -> Hand]
      /\ \A g \in Hands : hand'[g] = Free \/ hand'[g] = hand[g]
  BY FreeIsAHand DEF HandFails, SellCrash, Finish, SellInv, HandInv
<1> QED
  BY <1>1, <1>2, HandKeepsInv

LEMMA FindKeepsInv ==
    ASSUME SellInv, NEW h \in Hands, FindBid(h)
    PROVE  SellInv'
<1>1. /\ hand[h].pc = "find"
      /\ UNCHANGED <<items, bids, lapsed, used, confirmed, mixed>>
  BY DEF FindBid
<1>2. CASE Finish(h)
  <2>1. /\ hand' \in [Hands -> Hand]
        /\ \A g \in Hands : hand'[g] = Free \/ hand'[g] = hand[g]
    BY <1>2, FreeIsAHand DEF Finish, SellInv, HandInv
  <2> QED
    BY <1>1, <2>1, HandKeepsInv
<1>3. CASE \E b \in Placed(hand[h].item) :
              hand' = [hand EXCEPT ![h].pc = "sell", ![h].bid = b]
  <2>1. PICK b \in Placed(hand[h].item) :
           hand' = [hand EXCEPT ![h].pc = "sell", ![h].bid = b]
    BY <1>3
  <2>2. b \in Bids /\ hand[h] \in Hand /\ Busy(h)
    BY <1>1 DEF Placed, SellInv, HandInv, Free
  <2>3. /\ hand' \in [Hands -> Hand]
        /\ hand'[h] = [pc |-> "sell", item |-> hand[h].item, bid |-> b]
        /\ \A g \in Hands : g # h => hand'[g] = hand[g]
    BY <2>1, <2>2 DEF SellInv, HandInv, Hand, Pcs
  <2>4. hand[h].item \notin mixed => AloneAt(h)'
    BY <1>1, <2>2, <2>3 DEF SellInv, AloneHandInv, AloneAt
  <2> QED
    BY <1>1, <2>2, <2>3, <2>4, HandKeepsInv
<1> QED
  BY <1>2, <1>3 DEF FindBid

LEMMA CloseKeepsInv ==
    ASSUME SellInv, NEW h \in Hands, Close(h)
    PROVE  SellInv'
<1> DEFINE i == hand[h].item
<1>1. /\ hand[h].pc = "close" /\ hand[h] \in Hand /\ Busy(h)
      /\ UNCHANGED <<items, bids, lapsed, used, confirmed, mixed>>
  BY DEF Close, SellInv, HandInv, Free
<1>2. i \notin mixed => items[i].status # "sold" /\ TakesBids(i)
  BY <1>1 DEF SellInv, AloneHandInv, AloneAt
<1>3. CASE items[i].terms.strategy = "auction" /\ Placed(i) # {}
  <2>1. PICK b \in BestBids(i) :
           hand' = [hand EXCEPT ![h].pc = "award", ![h].bid = b]
    BY <1>3 DEF Close
  <2>2. /\ b \in Bids /\ b \in Placed(i)
        /\ \A c \in Placed(i) : bids[c].amount <= bids[b].amount
    BY DEF BestBids, Placed
  <2>3. /\ hand' \in [Hands -> Hand]
        /\ hand'[h] = [pc |-> "award", item |-> i, bid |-> b]
        /\ \A g \in Hands : g # h => hand'[g] = hand[g]
    BY <1>1, <2>1, <2>2 DEF SellInv, HandInv, Hand, Pcs
  <2>4. i \notin mixed => AloneAt(h)'
    BY <1>1, <1>2, <2>2, <2>3 DEF AloneAt, TakesBids, Placed
  <2> QED
    BY <1>1, <2>2, <2>3, <2>4, HandKeepsInv
<1>4. CASE ~(items[i].terms.strategy = "auction" /\ Placed(i) # {})
  <2>1. hand' = [hand EXCEPT ![h].pc = "withdraw"]
    BY <1>4 DEF Close, Proceed
  <2>2. /\ hand' \in [Hands -> Hand]
        /\ hand'[h] = [pc |-> "withdraw", item |-> i, bid |-> hand[h].bid]
        /\ \A g \in Hands : g # h => hand'[g] = hand[g]
    BY <1>1, <2>1 DEF SellInv, HandInv, Hand, Pcs
  <2>3. i \notin mixed => AloneAt(h)'
    BY <1>1, <1>2, <1>4, <2>2 DEF AloneAt, TakesBids, Placed
  <2> QED
    BY <1>1, <2>2, <2>3, HandKeepsInv
<1> QED
  BY <1>3, <1>4

-----------------------------------------------------------------------------

\* A write of the status leaves everything else of the items as it is.
LEMMA StatusIsWritten ==
    ASSUME SellInv, NEW i \in Items, items[i] # NoRow, SetStatus(i, "sold")
              \/ SetStatus(i, "negotiating") \/ SetStatus(i, "withdrawn")
    PROVE  /\ items' \in [Items -> ItemRow \cup {NoRow}]
           /\ \A j \in Items : j # i => items'[j] = items[j]
           /\ items'[i] # NoRow /\ items'[i].terms = items[i].terms
           /\ SetStatus(i, "sold") => items'[i].status = "sold"
           /\ SetStatus(i, "negotiating") => items'[i].status = "negotiating"
           /\ SetStatus(i, "withdrawn") => items'[i].status = "withdrawn"
<1>1. items \in [Items -> ItemRow \cup {NoRow}] /\ items[i] \in ItemRow
  BY DEF SellInv, ItemInv
<1>2. PICK s \in {"sold", "negotiating", "withdrawn"} :
         items' = [items EXCEPT ![i].status = s]
  BY DEF SetStatus
<1>3. /\ items'[i] = [items[i] EXCEPT !.status = s]
      /\ \A j \in Items : j # i => items'[j] = items[j]
  BY <1>1, <1>2
<1>4. /\ items'[i] \in ItemRow /\ items'[i].terms = items[i].terms
      /\ items'[i].status = s
  BY <1>1, <1>3 DEF ItemRow
<1>5. items'[i] # NoRow
  BY <1>4, ItemRowIsARow
<1>6. \A r \in {"sold", "negotiating", "withdrawn"} :
         items' = [items EXCEPT ![i].status = r] => items'[i].status = r
  BY <1>1 DEF ItemRow
<1>7. items' \in [Items -> ItemRow \cup {NoRow}]
  BY <1>1, <1>2, <1>3, <1>4
<1> QED
  BY <1>3, <1>4, <1>5, <1>6, <1>7 DEF SetStatus

\* Whoever is alone at an item finds no sale of it.
LEMMA NothingSoldYet ==
    ASSUME SellInv, NEW h \in Hands, Busy(h), hand[h].item \notin mixed
    PROVE  \A c \in confirmed : c.item # hand[h].item
BY DEF SellInv, AloneHandInv, AloneAt, OnceInv, HandInv

LEMMA NegotiateKeepsInv ==
    ASSUME SellInv, NEW h \in Hands, Negotiate(h)
    PROVE  SellInv'
<1> DEFINE i == hand[h].item
<1>1. /\ hand[h].pc = "negotiate" /\ hand[h] \in Hand /\ Busy(h)
      /\ i \in Items /\ items[i] # NoRow /\ SetStatus(i, "negotiating")
      /\ UNCHANGED <<bids, lapsed, used, confirmed, mixed>>
  BY DEF Negotiate, SellInv, HandInv, Free
<1>2. /\ items' \in [Items -> ItemRow \cup {NoRow}]
      /\ \A j \in Items : j # i => items'[j] = items[j]
      /\ items'[i] # NoRow /\ items'[i].terms = items[i].terms
      /\ items'[i].status = "negotiating"
  BY <1>1, StatusIsWritten
<1>3. /\ hand' \in [Hands -> Hand]
      /\ hand'[h] = [pc |-> "bid", item |-> i, bid |-> hand[h].bid]
      /\ \A g \in Hands : g # h => hand'[g] = hand[g]
  BY <1>1 DEF Negotiate, Proceed, SellInv, HandInv, Hand, Pcs
<1>4. \A g \in Hands : /\ Busy(g)' => Busy(g)
                       /\ Bidding(g)' => Bidding(g)
                       /\ hand'[g].item = hand[g].item /\ hand'[g].bid = hand[g].bid
                       /\ hand'[g].pc # "bid" => hand'[g] = hand[g]
  BY <1>1, <1>3
<1>5. \A j \in Items : Placed(j)' = Placed(j) /\ SalesOfItem(j)' = SalesOfItem(j)
  BY <1>1 DEF Placed, SalesOfItem
<1>6. i \notin mixed => \A c \in confirmed : c.item # i
  BY <1>1, NothingSoldYet
<1>7. ItemInv' /\ BidInv'
  <2>1. \A b \in Bids : bids[b] # NoRow => bids[b].item \in Items
    BY DEF SellInv, BidInv, BidRow
  <2> QED
    BY <1>1, <1>2, <2>1 DEF SellInv, ItemInv, BidInv
<1>8. HandInv'
  <2>1. ASSUME NEW g \in Hands, Busy(g)'
        PROVE  /\ hand'[g].pc # "idle"
               /\ hand'[g].item \in Items
               /\ items'[hand'[g].item] # NoRow
               /\ hand'[g].bid \in used' \cup {NoBid}
               /\ (hand[g].pc \in {"sell", "award"}
                      => hand[g].bid \in Placed(hand[g].item))'
    BY <1>1, <1>2, <1>4, <2>1 DEF SellInv, HandInv, Placed
  <2> QED
    BY <1>1, <1>3, <1>4, <2>1 DEF SellInv, HandInv
<1>9. SaleInv'
  BY <1>1, <1>2, <1>5 DEF SellInv, SaleInv, SoldToABid, Sale
<1>10. ApartInv'
  <2>1. \A g \in Hands : Busy(g)' => Busy(g) /\ hand'[g].item = hand[g].item
    BY <1>4
  <2> QED
    BY <1>1, <2>1 DEF SellInv, ApartInv
<1>11. AloneHandInv'
  <2> SUFFICES ASSUME NEW g \in Hands, Busy(g)', hand'[g].item \notin mixed'
               PROVE  AloneAt(g)'
    BY DEF AloneHandInv
  <2>1. CASE g = h
    BY <1>2, <1>3, <2>1 DEF AloneAt, TakesBids
  <2>2. CASE g # h
    <3>1. hand[g].item \in Items \ {i}
      BY <1>1, <1>3, <2>2 DEF SellInv, ApartInv, HandInv
    <3> QED
      BY <1>1, <1>2, <1>3, <2>2, <3>1
         DEF SellInv, AloneHandInv, AloneAt, TakesBids, Placed
  <2> QED
    BY <2>1, <2>2
<1>12. OnceInv'
  BY <1>1, <1>2, <1>6 DEF SellInv, OnceInv
<1>13. AuctionIsHonoured'
  <2> SUFFICES ASSUME NEW j \in Items \ mixed, items'[j] # NoRow,
                      items'[j].terms.strategy = "auction"
               PROVE  HonouredAt(j)'
    BY <1>1 DEF AuctionIsHonoured, HonouredAt
  <2>1. CASE j = i
    BY <1>2, <1>5, <1>6, <2>1 DEF HonouredAt, SalesOfItem
  <2>2. CASE j # i
    BY <1>1, <1>2, <1>5, <2>2 DEF SellInv, AuctionIsHonoured, HonouredAt
  <2> QED
    BY <2>1, <2>2
<1> QED
  BY <1>7, <1>8, <1>9, <1>10, <1>11, <1>12, <1>13 DEF SellInv

LEMMA WithdrawKeepsInv ==
    ASSUME SellInv, NEW h \in Hands, Withdraw(h)
    PROVE  SellInv'
<1> DEFINE i == hand[h].item
<1>1. /\ hand[h].pc = "withdraw" /\ hand[h] \in Hand /\ Busy(h)
      /\ i \in Items /\ items[i] # NoRow /\ SetStatus(i, "withdrawn")
      /\ UNCHANGED <<bids, lapsed, used, confirmed, mixed>>
  BY DEF Withdraw, SellInv, HandInv, Free
<1>2. /\ items' \in [Items -> ItemRow \cup {NoRow}]
      /\ \A j \in Items : j # i => items'[j] = items[j]
      /\ items'[i] # NoRow /\ items'[i].terms = items[i].terms
      /\ items'[i].status = "withdrawn"
  BY <1>1, StatusIsWritten
<1>3. /\ hand' \in [Hands -> Hand]
      /\ hand'[h] = Free
      /\ \A g \in Hands : g # h => hand'[g] = hand[g]
  BY FreeIsAHand DEF Withdraw, Finish, SellInv, HandInv
<1>4. \A j \in Items : Placed(j)' = Placed(j) /\ SalesOfItem(j)' = SalesOfItem(j)
  BY <1>1 DEF Placed, SalesOfItem
<1>5. i \notin mixed => \A c \in confirmed : c.item # i
  BY <1>1, NothingSoldYet
<1>6. ItemInv' /\ BidInv'
  <2>1. \A b \in Bids : bids[b] # NoRow => bids[b].item \in Items
    BY DEF SellInv, BidInv, BidRow
  <2> QED
    BY <1>1, <1>2, <2>1 DEF SellInv, ItemInv, BidInv
<1>7. HandInv'
  BY <1>1, <1>2, <1>3 DEF SellInv, HandInv, Placed
<1>8. SaleInv'
  BY <1>1, <1>2, <1>4 DEF SellInv, SaleInv, SoldToABid, Sale
<1>9. ApartInv'
  BY <1>1, <1>3 DEF SellInv, ApartInv
<1>10. AloneHandInv'
  <2> SUFFICES ASSUME NEW g \in Hands, Busy(g)', hand'[g].item \notin mixed'
               PROVE  AloneAt(g)'
    BY DEF AloneHandInv
  <2>1. /\ g # h /\ hand'[g] = hand[g] /\ Busy(g)
        /\ hand[g].item \in Items \ {i}
    BY <1>1, <1>3 DEF SellInv, ApartInv, HandInv
  <2> QED
    BY <1>1, <1>2, <2>1 DEF SellInv, AloneHandInv, AloneAt, TakesBids, Placed
<1>11. OnceInv'
  BY <1>1, <1>2, <1>5 DEF SellInv, OnceInv
<1>12. AuctionIsHonoured'
  <2> SUFFICES ASSUME NEW j \in Items \ mixed, items'[j] # NoRow,
                      items'[j].terms.strategy = "auction"
               PROVE  HonouredAt(j)'
    BY <1>1 DEF AuctionIsHonoured, HonouredAt
  <2>1. CASE j = i
    BY <1>1, <1>2, <1>4, <1>5, <2>1
       DEF HonouredAt, SalesOfItem, SellInv, AloneHandInv, AloneAt
  <2>2. CASE j # i
    BY <1>1, <1>2, <1>4, <2>2 DEF SellInv, AuctionIsHonoured, HonouredAt
  <2> QED
    BY <2>1, <2>2
<1> QED
  BY <1>6, <1>7, <1>8, <1>9, <1>10, <1>11, <1>12 DEF SellInv

LEMMA SellKeepsInv ==
    ASSUME SellInv, NEW h \in Hands, Sell(h)
    PROVE  SellInv'
<1> DEFINE i == hand[h].item
           b == hand[h].bid
           sale == [item |-> i, bid |-> b, awarded |-> hand[h].pc = "award",
                    number |-> Cardinality(confirmed) + 1]
<1>1. /\ hand[h].pc \in {"sell", "award"} /\ hand[h] \in Hand /\ Busy(h)
      /\ i \in Items /\ items[i] # NoRow /\ SetStatus(i, "sold")
      /\ b \in Placed(i)
      /\ confirmed' = confirmed \cup {sale}
      /\ UNCHANGED <<bids, lapsed, used, mixed>>
  BY DEF Sell, SellInv, HandInv, Free
<1>0. /\ sale.item = i /\ sale.bid = b
      /\ sale.awarded <=> hand[h].pc = "award"
      /\ Cardinality(confirmed) + 1 \in Nat \ {0} => sale \in Sale
  <2>1. b \in Bids /\ (hand[h].pc = "award") \in BOOLEAN
    BY <1>1 DEF Placed
  <2> QED
    BY <1>1, <2>1 DEF Sale
<1> HIDE DEF sale
<1>2. /\ items' \in [Items -> ItemRow \cup {NoRow}]
      /\ \A j \in Items : j # i => items'[j] = items[j]
      /\ items'[i] # NoRow /\ items'[i].terms = items[i].terms
      /\ items'[i].status = "sold"
  BY <1>1, StatusIsWritten
<1>3. /\ hand' \in [Hands -> Hand]
      /\ hand'[h] = Free
      /\ \A g \in Hands : g # h => hand'[g] = hand[g]
  BY FreeIsAHand DEF Sell, Finish, SellInv, HandInv
<1>4. \A j \in Items : Placed(j)' = Placed(j)
  BY <1>1 DEF Placed
<1>5. i \notin mixed => \A c \in confirmed : c.item # i
  BY <1>1, NothingSoldYet
<1>6. ItemInv' /\ BidInv'
  <2>1. \A c \in Bids : bids[c] # NoRow => bids[c].item \in Items
    BY DEF SellInv, BidInv, BidRow
  <2> QED
    BY <1>1, <1>2, <2>1 DEF SellInv, ItemInv, BidInv
<1>7. HandInv'
  BY <1>1, <1>2, <1>3 DEF SellInv, HandInv, Placed
<1>8. SaleInv'
  <2>1. IsFiniteSet(confirmed') /\ Cardinality(confirmed) \in Nat
    BY <1>1, FS_AddElement, FS_CardinalityType DEF SellInv, SaleInv
  <2>2. sale \in Sale
    BY <1>0, <2>1
  <2>3. \A c \in confirmed' : (c.bid \in Placed(c.item))'
    <3>1. \A c \in confirmed' : c.item \in Items /\ c.bid \in Placed(c.item)
      BY <1>0, <1>1 DEF SellInv, SaleInv, SoldToABid, Sale
    <3> QED
      BY <1>4, <3>1
  <2>4. (\A j \in Items : items[j].status = "sold" => SalesOfItem(j) # {})'
    <3> SUFFICES ASSUME NEW j \in Items, items'[j].status = "sold"
                 PROVE  \E c \in confirmed' : c.item = j
      BY DEF SalesOfItem
    <3>1. CASE j = i
      BY <1>0, <1>1, <3>1
    <3>2. CASE j # i
      BY <1>1, <1>2, <3>2 DEF SellInv, SaleInv, SoldToABid, SalesOfItem
    <3> QED
      BY <3>1, <3>2
  <2> QED
    BY <1>1, <2>1, <2>2, <2>3, <2>4 DEF SellInv, SaleInv, SoldToABid
<1>9. ApartInv'
  BY <1>1, <1>3 DEF SellInv, ApartInv
<1>10. AloneHandInv'
  <2> SUFFICES ASSUME NEW g \in Hands, Busy(g)', hand'[g].item \notin mixed'
               PROVE  AloneAt(g)'
    BY DEF AloneHandInv
  <2>1. /\ g # h /\ hand'[g] = hand[g] /\ Busy(g)
        /\ hand[g].item \in Items \ {i}
    BY <1>1, <1>3 DEF SellInv, ApartInv, HandInv
  <2> QED
    BY <1>1, <1>2, <2>1 DEF SellInv, AloneHandInv, AloneAt, TakesBids, Placed
<1>11. OnceInv'
  <2> SUFFICES ASSUME NEW j \in Items \ mixed
               PROVE  /\ \A c, d \in confirmed' : c.item = j /\ d.item = j => c = d
                      /\ (\E c \in confirmed' : c.item = j) <=> items'[j].status = "sold"
    BY <1>1 DEF OnceInv
  <2>1. CASE j = i
    BY <1>0, <1>1, <1>2, <1>5, <2>1
  <2>2. CASE j # i
    BY <1>0, <1>1, <1>2, <2>2 DEF SellInv, OnceInv
  <2> QED
    BY <2>1, <2>2
<1>12. AuctionIsHonoured'
  <2> SUFFICES ASSUME NEW j \in Items \ mixed, items'[j] # NoRow,
                      items'[j].terms.strategy = "auction"
               PROVE  HonouredAt(j)'
    BY <1>1 DEF AuctionIsHonoured, HonouredAt
  <2>1. CASE j = i
    <3>1. \A c \in SalesOfItem(j)' : c = sale
      BY <1>1, <1>5, <2>1 DEF SalesOfItem
    <3>2. hand[h].pc = "award" =>
             \A c \in Placed(i) : bids[c].amount <= bids[b].amount
      BY <1>1, <2>1 DEF SellInv, AloneHandInv, AloneAt
    <3> QED
      BY <1>0, <1>1, <1>2, <1>4, <2>1, <3>1, <3>2 DEF HonouredAt
  <2>2. CASE j # i
    <3>1. SalesOfItem(j)' = SalesOfItem(j)
      BY <1>0, <1>1, <2>2 DEF SalesOfItem
    <3> QED
      BY <1>1, <1>2, <1>4, <2>2, <3>1 DEF SellInv, AuctionIsHonoured, HonouredAt
  <2> QED
    BY <2>1, <2>2
<1> QED
  BY <1>6, <1>7, <1>8, <1>9, <1>10, <1>11, <1>12 DEF SellInv

LEMMA AddBidKeepsInv ==
    ASSUME SellInv, NEW h \in Hands, NEW amount \in Amounts, AddBid(h, amount)
    PROVE  SellInv'
<1> DEFINE i == hand[h].item
           b == hand[h].bid
           row == [item |-> i, amount |-> amount]
<1>1. /\ hand[h].pc = "bid" /\ hand[h] \in Hand /\ Busy(h) /\ Bidding(h)
      /\ i \in Items /\ items[i] # NoRow
      /\ b \in used /\ b \in Bids /\ bids[b] = NoRow
      /\ bids' = [bids EXCEPT ![b] = row]
      /\ UNCHANGED <<items, lapsed, used, confirmed, mixed>>
  BY DEF AddBid, SellInv, HandInv, BidInv, Free
<1>2. row \in BidRow /\ row # NoRow
  BY <1>1, BidRowIsARow DEF BidRow
<1>3. /\ bids' \in [Bids -> BidRow \cup {NoRow}]
      /\ bids'[b] = row
      /\ \A c \in Bids : c # b => bids'[c] = bids[c]
  BY <1>1, <1>2 DEF SellInv, BidInv
<1>4. /\ hand' \in [Hands -> Hand]
      /\ \/ hand'[h] = Free
         \/ hand'[h] = [pc |-> "sell", item |-> i, bid |-> b]
      /\ \A g \in Hands : g # h => hand'[g] = hand[g]
  BY <1>1, FreeIsAHand DEF AddBid, Proceed, Finish, SellInv, HandInv, Hand, Pcs
<1>5. \A j \in Items : /\ j = i => Placed(j)' = Placed(j) \cup {b}
                      /\ j # i => Placed(j)' = Placed(j)
  <2>1. ASSUME NEW j \in Items, NEW c \in Bids
        PROVE  c \in Placed(j)' <=> c \in Placed(j) \/ (c = b /\ j = i)
    BY <1>1, <1>2, <1>3 DEF Placed
  <2>2. \A j \in Items : Placed(j) \subseteq Bids /\ Placed(j)' \subseteq Bids
    BY DEF Placed
  <2>3. ASSUME NEW j \in Items, j = i  PROVE  Placed(j)' = Placed(j) \cup {b}
    BY <1>1, <2>1, <2>2, <2>3
  <2>4. ASSUME NEW j \in Items, j # i  PROVE  Placed(j)' = Placed(j)
    BY <2>1, <2>2, <2>4
  <2> QED
    BY <2>3, <2>4
<1>6. \A j \in Items : \A c \in Placed(j) : c \in Placed(j)' /\ bids'[c] = bids[c]
  BY <1>1, <1>3, <1>5 DEF Placed
<1>7. i \notin mixed => /\ \A c \in confirmed : c.item # i
                        /\ TakesBids(i)
  BY <1>1, NothingSoldYet DEF SellInv, AloneHandInv, AloneAt
<1>8. ItemInv' /\ BidInv'
  BY <1>1, <1>3 DEF SellInv, ItemInv, BidInv
<1>9. HandInv'
  <2>1. ASSUME NEW g \in Hands, Busy(g)'
        PROVE  /\ hand'[g].pc # "idle"
               /\ hand'[g].item \in Items
               /\ items'[hand'[g].item] # NoRow
               /\ hand'[g].bid \in used' \cup {NoBid}
               /\ (hand[g].pc \in {"sell", "award"}
                      => hand[g].bid \in Placed(hand[g].item))'
    <3>1. CASE g = h
      BY <1>1, <1>2, <1>3, <1>4, <2>1, <3>1 DEF Placed
    <3>2. CASE g # h
      BY <1>1, <1>3, <1>4, <2>1, <3>2 DEF SellInv, HandInv, Placed
    <3> QED
      BY <3>1, <3>2
  <2>2. ASSUME NEW g \in Hands, Bidding(g)'
        PROVE  g # h /\ hand'[g] = hand[g] /\ hand[g].bid # b
    BY <1>1, <1>4, <2>2 DEF SellInv, HandInv
  <2>3. ASSUME NEW g \in Hands, Bidding(g)'
        PROVE  hand'[g].bid \in used' /\ bids'[hand'[g].bid] = NoRow
    BY <1>1, <1>3, <2>2, <2>3 DEF SellInv, HandInv, BidInv
  <2>4. ASSUME NEW f \in Hands, NEW g \in Hands, f # g, Bidding(f)', Bidding(g)'
        PROVE  hand'[f].bid # hand'[g].bid
    BY <2>2, <2>4 DEF SellInv, HandInv
  <2> QED
    BY <1>4, <2>1, <2>3, <2>4 DEF HandInv
<1>10. SaleInv'
  <2>1. \A c \in confirmed : c.item \in Items /\ c.bid \in Placed(c.item)
    BY DEF SellInv, SaleInv, SoldToABid, Sale
  <2>2. (\A c \in confirmed : c.bid \in Placed(c.item))'
    BY <1>1, <1>6, <2>1
  <2> QED
    BY <1>1, <2>2 DEF SellInv, SaleInv, SoldToABid, SalesOfItem
<1>11. ApartInv'
  BY <1>1, <1>4 DEF SellInv, ApartInv
<1>12. AloneHandInv'
  <2> SUFFICES ASSUME NEW g \in Hands, Busy(g)', hand'[g].item \notin mixed'
               PROVE  AloneAt(g)'
    BY DEF AloneHandInv
  <2>1. CASE g = h
    BY <1>1, <1>4, <1>7, <2>1 DEF AloneAt, TakesBids
  <2>2. CASE g # h
    <3>1. /\ hand'[g] = hand[g] /\ Busy(g)
          /\ hand[g].item \in Items /\ hand[g].item # i
      BY <1>1, <1>4, <2>2 DEF SellInv, ApartInv, HandInv
    <3>2. AloneAt(g) /\ (hand[g].pc = "award" => hand[g].bid \in Placed(hand[g].item))
      BY <1>1, <3>1 DEF SellInv, AloneHandInv, HandInv
    <3>3. Placed(hand[g].item)' = Placed(hand[g].item)
      BY <1>5, <3>1 DEF Placed
    <3> QED
      BY <1>1, <1>6, <3>1, <3>2, <3>3 DEF AloneAt, TakesBids
  <2> QED
    BY <2>1, <2>2
<1>13. OnceInv'
  BY <1>1 DEF SellInv, OnceInv
<1>14. AuctionIsHonoured'
  <2> SUFFICES ASSUME NEW j \in Items \ mixed, items[j] # NoRow,
                      items[j].terms.strategy = "auction"
               PROVE  HonouredAt(j)'
    BY <1>1 DEF AuctionIsHonoured, HonouredAt
  <2>0. SalesOfItem(j)' = SalesOfItem(j)
    BY <1>1 DEF SalesOfItem
  <2>1. CASE j = i
    BY <1>1, <1>7, <2>0, <2>1 DEF HonouredAt, SalesOfItem, TakesBids
  <2>2. CASE j # i
    <3>1. HonouredAt(j) /\ \A c \in SalesOfItem(j) : c.bid \in Placed(j)
      BY DEF SellInv, AuctionIsHonoured, HonouredAt, SaleInv, SoldToABid, SalesOfItem
    <3> QED
      BY <1>1, <1>5, <1>6, <2>0, <2>2, <3>1 DEF HonouredAt
  <2> QED
    BY <2>1, <2>2
<1> QED
  BY <1>8, <1>9, <1>10, <1>11, <1>12, <1>13, <1>14 DEF SellInv

-----------------------------------------------------------------------------

LEMMA NextKeepsInv == SellInv /\ [SellNext]_sellVars => SellInv'
<1> SUFFICES ASSUME SellInv, [SellNext]_sellVars PROVE SellInv'
  OBVIOUS
<1>1. CASE \E i \in Items : Expire(i) \/ \E terms \in ItemTerms : ListItem(i, terms)
  BY <1>1, ListKeepsInv, ExpireKeepsInv
<1>2. ASSUME NEW h \in Hands, NEW i \in Items, NEW b \in Bids, PlaceBid(h, i, b)
      PROVE  SellInv'
  BY <1>2, PlaceBidKeepsInv
<1>3. ASSUME NEW h \in Hands, NEW i \in Items, AcceptBid(h, i) \/ CheckExpired(h, i)
      PROVE  SellInv'
  BY <1>3, CallKeepsInv
<1>4. CASE \E h \in Hands : \/ \E amount \in Amounts : AddBid(h, amount)
                            \/ Negotiate(h) \/ FindBid(h) \/ Sell(h)
                            \/ Close(h) \/ Withdraw(h)
  BY <1>4, AddBidKeepsInv, NegotiateKeepsInv, FindKeepsInv, SellKeepsInv,
     CloseKeepsInv, WithdrawKeepsInv
<1>5. CASE (\E h \in Hands : HandFails(h)) \/ SellCrash
  BY <1>5, EndKeepsInv
<1>6. CASE UNCHANGED sellVars
  BY <1>6 DEF sellVars, SellInv, ItemInv, BidInv, HandInv, SaleInv, SoldToABid,
              ApartInv, AloneHandInv, AloneAt, OnceInv, AuctionIsHonoured, Placed,
              SalesOfItem, TakesBids
<1> QED
  BY <1>1, <1>2, <1>3, <1>4, <1>5, <1>6 DEF SellNext

LEMMA SellInvAlways == SellSpec => []SellInv
<1>1. SellInit => SellInv
  BY InitSellInv
<1>2. SellInv /\ [SellNext]_sellVars => SellInv'
  BY NextKeepsInv
<1> QED
  BY <1>1, <1>2, PTL DEF SellSpec

\* The tables and what goroutines remember of them have their types.
THEOREM SellListingsTypeCorrect == SellSpec => []SellTypeOK
<1>1. SellInv => SellTypeOK
  <2> SUFFICES ASSUME SellInv PROVE SellTypeOK
    OBVIOUS
  <2>1. \A h \in Hands : Busy(h) => hand[h].item \in Items
    BY DEF SellInv, HandInv
  <2>2. ASSUME NEW h \in Hands, Busy(h) PROVE hand[h].bid \in used \cup {NoBid}
    BY <2>2 DEF SellInv, HandInv
  <2> QED
    BY <2>1, <2>2
       DEF SellInv, ItemInv, BidInv, SaleInv, Sale, SellTypeOK
<1> QED
  BY <1>1, SellInvAlways, PTL

\* Every sale is to a bid on record for the item, even if calls overlap: no
\* bid is ever removed or given to another item.
THEOREM SoldToABidAlways == SellSpec => []SoldToABid
<1>1. SellInv => SoldToABid
  BY DEF SellInv, SaleInv
<1> QED
  BY <1>1, SellInvAlways, PTL

\* An item that no two calls were at is sold at most once, and stays sold.
THEOREM SoldOnceForGoodAlways == SellSpec => []SoldOnceForGood
<1>1. SellInv => SoldOnceForGood
  <2> SUFFICES ASSUME SellInv, NEW i \in Items \ mixed
               PROVE  /\ Cardinality(SalesOfItem(i)) <= 1
                      /\ (SalesOfItem(i) # {}) <=> (items[i].status = "sold")
    BY DEF SoldOnceForGood
  <2>1. \A c, d \in SalesOfItem(i) : c = d
    BY DEF SellInv, OnceInv, SalesOfItem
  <2>2. CASE SalesOfItem(i) = {}
    <3>1. Cardinality(SalesOfItem(i)) <= 1
      BY <2>2, FS_EmptySet
    <3>2. ~ \E c \in confirmed : c.item = i
      BY <2>2 DEF SalesOfItem
    <3>3. items[i].status # "sold"
      BY <3>2 DEF SellInv, OnceInv
    <3> QED BY <2>2, <3>1, <3>3
  <2>3. CASE SalesOfItem(i) # {}
    <3>1. PICK c \in SalesOfItem(i) : TRUE
      BY <2>3
    <3>2. SalesOfItem(i) = {c}
      BY <2>1, <3>1
    <3>3. Cardinality(SalesOfItem(i)) = 1
      BY <3>2, FS_Singleton
    <3>4. items[i].status = "sold"
      BY <3>1 DEF SellInv, OnceInv, SalesOfItem
    <3> QED
      BY <2>3, <3>3, <3>4
  <2> QED
    BY <2>2, <2>3
<1> QED
  BY <1>1, SellInvAlways, PTL

\* An auction that no two calls were at is withdrawn only without bids, and
\* goes to a bid that no other exceeds.
THEOREM AuctionIsHonouredAlways == SellSpec => []AuctionIsHonoured
<1>1. SellInv => AuctionIsHonoured
  BY DEF SellInv
<1> QED
  BY <1>1, SellInvAlways, PTL

HIDE SellListingsAssumption DEF Busy, Bidding

-----------------------------------------------------------------------------
(* Approvals: a verdict stands.                                            *)

Verdicts == {"approved", "rejected", "signed"}

\* The verdicts a request of some kind can get.
VerdictsFor(kind) == IF kind = "approval" THEN {"approved", "rejected"}
                     ELSE IF kind = "envelope" THEN {"signed"} ELSE {}

RequestRows == ApprovalRow \cup EnvelopeRow \cup {NoRequestRow}

Deciding(d) == decider[d] # Undecided

OpenRequest(r) == requests[r].status \in {"pending", "sent"}

RequestInv == requests \in [Requests -> RequestRows]

\* A busy goroutine is about to write a verdict that fits its request.
DeciderInv ==
    /\ decider \in [Deciders -> [pc : {"idle", "write"},
                                 request : Requests \cup {NoRequest},
                                 verdict : Verdicts \cup {"none"}]]
    /\ \A d \in Deciders : Deciding(d) =>
          /\ decider[d].pc = "write"
          /\ decider[d].request \in Requests
          /\ decider[d].verdict \in VerdictsFor(requests[decider[d].request].kind)

\* Two goroutines at one request make it contested; a goroutine that is alone
\* still finds the request open and without a verdict.
AloneInv ==
    /\ contested \subseteq Requests
    /\ \A d, e \in Deciders :
          d # e /\ Deciding(d) /\ Deciding(e) /\ decider[d].request = decider[e].request
             => decider[d].request \in contested
    /\ \A d \in Deciders : Deciding(d) /\ decider[d].request \notin contested =>
          /\ OpenRequest(decider[d].request)
          /\ \A v \in verdicts : v.request # decider[d].request

\* A request with a verdict has been decided, as reported unless contested.
VerdictInv ==
    /\ verdicts \subseteq [request : Requests, verdict : Verdicts]
    /\ \A v \in verdicts :
          /\ v.verdict \in VerdictsFor(requests[v.request].kind)
          /\ requests[v.request].status \in VerdictsFor(requests[v.request].kind)
          /\ v.request \notin contested => requests[v.request].status = v.verdict

ApprovalInv == RequestInv /\ DeciderInv /\ AloneInv /\ VerdictInv

-----------------------------------------------------------------------------

LEMMA ApprovalInitInv == ApprovalInit => ApprovalInv
BY ApprovalsAssumption
   DEF ApprovalInit, ApprovalInv, RequestInv, DeciderInv, AloneInv, VerdictInv,
       RequestRows, Deciding, Undecided, NoRequestRow

\* Making a request touches none that exists.
LEMMA CreateKeepsInv ==
    ASSUME ApprovalInv, NEW r \in Requests,
           NEW row \in {[kind |-> "approval", status |-> "pending"],
                        [kind |-> "envelope", status |-> "sent"]},
           CreateRow(r, row)
    PROVE  ApprovalInv'
<1>1. /\ requests[r] = NoRequestRow
      /\ requests' = [requests EXCEPT ![r] = row]
      /\ UNCHANGED <<decider, verdicts, contested>>
  BY DEF CreateRow
<1>2. \A d \in Deciders : Deciding(d) => decider[d].request # r
  BY <1>1 DEF ApprovalInv, DeciderInv, VerdictsFor, NoRequestRow
<1>3. \A v \in verdicts : v.request # r
  BY <1>1 DEF ApprovalInv, VerdictInv, VerdictsFor, NoRequestRow
<1>4. row \in RequestRows
  BY DEF RequestRows, ApprovalRow, EnvelopeRow
<1>5. \A q \in Requests : q # r => requests'[q] = requests[q]
  BY <1>1 DEF ApprovalInv, RequestInv
<1>6. RequestInv'
  BY <1>1, <1>4 DEF ApprovalInv, RequestInv
<1>7. DeciderInv'
  BY <1>1, <1>2, <1>5 DEF ApprovalInv, DeciderInv, Deciding
<1>8. AloneInv'
  BY <1>1, <1>2, <1>5 DEF ApprovalInv, AloneInv, DeciderInv, Deciding, OpenRequest
<1>9. VerdictInv'
  BY <1>1, <1>3, <1>5 DEF ApprovalInv, VerdictInv
<1> QED
  BY <1>6, <1>7, <1>8, <1>9 DEF ApprovalInv

\* Reading a request that is open, for a verdict that fits it.
LEMMA BeginKeepsInv ==
    ASSUME ApprovalInv, NEW d \in Deciders, NEW r \in Requests,
           NEW verdict \in VerdictsFor(requests[r].kind), OpenRequest(r),
           Begin(d, r, verdict)
    PROVE  ApprovalInv'
<1>1. /\ ~Deciding(d)
      /\ decider' = [decider EXCEPT ![d] = [pc |-> "write", request |-> r,
                                            verdict |-> verdict]]
      /\ contested' = contested \cup ({decider[e].request : e \in Deciders} \cap {r})
      /\ UNCHANGED <<requests, verdicts>>
  BY DEF Begin, Deciding
<1>2. verdict \in Verdicts
  BY DEF VerdictsFor, Verdicts
<1>3. \A v \in verdicts : v.request # r
  BY DEF ApprovalInv, VerdictInv, VerdictsFor, OpenRequest
<1>4. /\ Deciding(d)' /\ decider'[d].request = r /\ decider'[d].pc = "write"
      /\ decider'[d].verdict = verdict
      /\ \A e \in Deciders : e # d => decider'[e] = decider[e]
  BY <1>1, ApprovalsAssumption DEF ApprovalInv, DeciderInv, Deciding, Undecided
<1>5. RequestInv'
  BY <1>1 DEF ApprovalInv, RequestInv
<1>6. DeciderInv'
  BY <1>1, <1>2, <1>4 DEF ApprovalInv, DeciderInv, Deciding
<1>7. AloneInv'
  <2>1. (contested \subseteq Requests)'
    BY <1>1 DEF ApprovalInv, AloneInv
  <2>2. ASSUME NEW e \in Deciders, NEW f \in Deciders, e # f,
               Deciding(e)', Deciding(f)', decider'[e].request = decider'[f].request
        PROVE  decider'[e].request \in contested'
    BY <1>1, <1>4, <2>2 DEF ApprovalInv, AloneInv, Deciding
  <2>3. ASSUME NEW e \in Deciders, Deciding(e)', decider'[e].request \notin contested'
        PROVE  /\ OpenRequest(decider[e].request)'
               /\ \A v \in verdicts' : v.request # decider'[e].request
    BY <1>1, <1>3, <1>4, <2>3 DEF ApprovalInv, AloneInv, Deciding, OpenRequest
  <2> QED
    BY <2>1, <2>2, <2>3 DEF AloneInv, Deciding, OpenRequest
<1>8. VerdictInv'
  BY <1>1 DEF ApprovalInv, VerdictInv
<1> QED
  BY <1>5, <1>6, <1>7, <1>8 DEF ApprovalInv

\* The end of a call, with or without its update, with or without its report.
LEMMA FinishKeepsInv ==
    ASSUME ApprovalInv, NEW d \in Deciders, decider[d].pc = "write",
           \/ requests' = [requests EXCEPT
                             ![decider[d].request].status = decider[d].verdict]
           \/ requests' = requests,
           \/ verdicts' = verdicts
           \/ /\ verdicts' = verdicts \cup {[request |-> decider[d].request,
                                             verdict |-> decider[d].verdict]}
              /\ requests'[decider[d].request].status = decider[d].verdict,
           decider' = [decider EXCEPT ![d] = Undecided],
           contested' = contested
    PROVE  ApprovalInv'
<1> DEFINE r == decider[d].request
           w == decider[d].verdict
<1>1. /\ Deciding(d) /\ r \in Requests /\ w \in Verdicts
      /\ w \in VerdictsFor(requests[r].kind)
  BY DEF ApprovalInv, DeciderInv, Deciding, Undecided, VerdictsFor, Verdicts
<1>2. /\ requests' \in [Requests -> RequestRows]
      /\ \A q \in Requests : requests'[q].kind = requests[q].kind
      /\ \A q \in Requests : q # r => requests'[q] = requests[q]
      /\ requests'[r].status = w \/ requests'[r] = requests[r]
  BY <1>1 DEF ApprovalInv, RequestInv, RequestRows, ApprovalRow, EnvelopeRow, NoRequestRow,
              VerdictsFor
<1>3. /\ ~Deciding(d)'
      /\ \A e \in Deciders : e # d => decider'[e] = decider[e]
  BY DEF ApprovalInv, DeciderInv, Deciding
<1>4. \A e \in Deciders : Deciding(e)' => e # d /\ Deciding(e)
  BY <1>3 DEF Deciding
<1>5. \A e \in Deciders : e # d /\ Deciding(e) /\ decider[e].request \notin contested =>
                             decider[e].request # r
  BY <1>1 DEF ApprovalInv, AloneInv
<1>6. r \notin contested => \A v \in verdicts : v.request # r
  BY <1>1 DEF ApprovalInv, AloneInv
<1>7. RequestInv'
  BY <1>2 DEF RequestInv
<1>8. DeciderInv'
  <2>1. decider' \in [Deciders -> [pc : {"idle", "write"},
                                   request : Requests \cup {NoRequest},
                                   verdict : Verdicts \cup {"none"}]]
    BY DEF ApprovalInv, DeciderInv, Undecided
  <2> QED
    BY <1>2, <1>3, <1>4, <2>1 DEF ApprovalInv, DeciderInv
<1>9. AloneInv'
  BY <1>2, <1>3, <1>4, <1>5 DEF ApprovalInv, AloneInv, DeciderInv, OpenRequest
<1>10. VerdictInv'
  <2>1. verdicts' \subseteq [request : Requests, verdict : Verdicts]
    BY <1>1 DEF ApprovalInv, VerdictInv
  <2>2. ASSUME NEW v \in verdicts
        PROVE  /\ v.verdict \in VerdictsFor(requests'[v.request].kind)
               /\ requests'[v.request].status \in VerdictsFor(requests'[v.request].kind)
               /\ v.request \notin contested' => requests'[v.request].status = v.verdict
    BY <1>1, <1>2, <1>6 DEF ApprovalInv, VerdictInv
  <2>3. ASSUME verdicts' # verdicts
        PROVE  requests'[r].status = w
    BY <2>3
  <2> QED
    BY <1>1, <1>2, <2>1, <2>2, <2>3 DEF VerdictInv
<1> QED
  BY <1>7, <1>8, <1>9, <1>10 DEF ApprovalInv

LEMMA NextApprovalInv == ApprovalInv /\ [ApprovalNext]_approvalVars => ApprovalInv'
<1> SUFFICES ASSUME ApprovalInv, [ApprovalNext]_approvalVars
             PROVE  ApprovalInv'
  OBVIOUS
<1>1. CASE handleRequestApproval
  BY <1>1, CreateKeepsInv DEF handleRequestApproval, RequestApproval
<1>2. CASE handleSendForSignature
  BY <1>2, CreateKeepsInv DEF handleSendForSignature, CreateEnvelope
<1>3. ASSUME NEW d \in Deciders, handleApprove(d) \/ handleReject(d)
      PROVE  ApprovalInv'
  <2>1. PICK r \in Requests : Approve(d, r) \/ Reject(d, r)
    BY <1>3 DEF handleApprove, handleReject
  <2>2. requests[r].status = "pending"
    BY <2>1 DEF Approve, Reject, Pending
  <2>3. requests[r].kind = "approval" /\ OpenRequest(r)
    BY <2>2 DEF ApprovalInv, RequestInv, RequestRows, ApprovalRow, EnvelopeRow, NoRequestRow,
                OpenRequest
  <2> QED
    BY <2>1, <2>3, BeginKeepsInv DEF Approve, Reject, VerdictsFor
<1>4. ASSUME NEW d \in Deciders, NEW r \in Requests, SimulateSigning(d, r)
      PROVE  ApprovalInv'
  <2>1. requests[r].status = "sent"
    BY <1>4 DEF SimulateSigning, Sent
  <2>2. requests[r].kind = "envelope" /\ OpenRequest(r)
    BY <2>1 DEF ApprovalInv, RequestInv, RequestRows, ApprovalRow, EnvelopeRow, NoRequestRow,
                OpenRequest
  <2> QED
    BY <1>4, <2>2, BeginKeepsInv DEF SimulateSigning, VerdictsFor
<1>5. ASSUME NEW d \in Deciders, Decide(d)
      PROVE  ApprovalInv'
  <2>1. /\ decider[d].pc = "write"
        /\ requests' = [requests EXCEPT
                          ![decider[d].request].status = decider[d].verdict]
        /\ verdicts' = verdicts \cup {[request |-> decider[d].request,
                                       verdict |-> decider[d].verdict]}
        /\ decider' = [decider EXCEPT ![d] = Undecided]
        /\ contested' = contested
    BY <1>5 DEF Decide, UpdateStatus
  <2>2. decider[d].request \in Requests
    BY <2>1 DEF ApprovalInv, DeciderInv, Deciding, Undecided
  <2>3. requests'[decider[d].request].status = decider[d].verdict
    BY <2>1, <2>2 DEF ApprovalInv, RequestInv, RequestRows, ApprovalRow, EnvelopeRow,
                      NoRequestRow
  <2> QED
    BY <2>1, <2>3, FinishKeepsInv
<1>6. ASSUME NEW d \in Deciders, DeciderFails(d)
      PROVE  ApprovalInv'
  BY <1>6, FinishKeepsInv DEF DeciderFails, UpdateStatus
<1>7. CASE UNCHANGED approvalVars
  BY <1>7 DEF approvalVars, ApprovalInv, RequestInv, DeciderInv, AloneInv, VerdictInv,
              Deciding, OpenRequest
<1> QED
  BY <1>1, <1>2, <1>3, <1>4, <1>5, <1>6, <1>7 DEF ApprovalNext

LEMMA ApprovalInvAlways == ApprovalSpec => []ApprovalInv
BY ApprovalInitInv, NextApprovalInv, PTL DEF ApprovalSpec

-----------------------------------------------------------------------------

\* The tables of approvals and envelopes, the calls on them and the history
\* keep their types (internal/approvals, internal/esignature).
THEOREM ApprovalsTypeCorrect == ApprovalSpec => []ApprovalTypeOK
<1>1. ApprovalInv => ApprovalTypeOK
  BY DEF ApprovalInv, RequestInv, DeciderInv, AloneInv, VerdictInv, ApprovalTypeOK,
         RequestRows, Deciding, Verdicts
<1> QED
  BY <1>1, ApprovalInvAlways, PTL

\* A verdict that was reported is what the table says, unless two decisions
\* overlapped, and nothing decided is listed as pending or loses its signature
\* (Approve, Reject, SimulateSigning and their updates).
THEOREM VerdictStandsAlways == ApprovalSpec => []VerdictStands
<1>1. ApprovalInv => VerdictStands
  <2> SUFFICES ASSUME ApprovalInv, NEW v \in verdicts
               PROVE  /\ v.request \notin contested =>
                            requests[v.request].status = v.verdict
                      /\ v.request \notin ListPending
                      /\ v.verdict = "signed" =>
                            /\ requests[v.request].status = "signed"
                            /\ requests[v.request] # NoRequestRow
    BY DEF VerdictStands, handlePendingApprovals, handleSignatureStatus,
           handleSignedDocument
  <2>1. /\ v.verdict \in VerdictsFor(requests[v.request].kind)
        /\ requests[v.request].status \in VerdictsFor(requests[v.request].kind)
        /\ v.request \notin contested => requests[v.request].status = v.verdict
    BY DEF ApprovalInv, VerdictInv
  <2> QED
    BY <2>1 DEF VerdictsFor, ListPending, NoRequestRow
<1> QED
  BY <1>1, ApprovalInvAlways, PTL

-----------------------------------------------------------------------------
(* Claims: a breach is paid once, and no more than the contract allows.    *)

\* A credit of so many cents is within the cap of the contract's spend.
WithinCap(t, cents) == 10000 * (cents - 1) < t.spend * t.credit * t.cap

\* A goroutine is about to file the claim for breach b.
Filing(k, b) == clerk[k].pc = "file" /\ clerk[k].breach = b

\* Every recorded breach has a contract that covers it, and its credit is
\* within that contract's cap; a filed one has been paid in full.
BreachInv ==
    /\ slas \in [Slas -> SlaRow \cup {NoSla}]
    /\ breaches \in [Breaches -> BreachRow \cup {NoBreachRow}]
    /\ \A b \in Recorded :
          /\ \E s \in Covering(breaches[b].service) :
                WithinCap(slas[s].terms, breaches[b].due)
          /\ breaches[b].filed => breaches[b].payout = breaches[b].due

\* A busy goroutine holds a recorded breach and the credit due for it.  Of two
\* at one breach it is known, and one that is alone still finds it unfiled.
ClerkInv ==
    /\ clerk \in [Clerks -> [pc : {"idle", "file"}, breach : Breaches \cup {NoBreach},
                             due : Nat]]
    /\ rushed \subseteq Breaches
    /\ \A k \in Clerks : clerk[k] # Available =>
          /\ clerk[k].pc = "file"
          /\ clerk[k].breach \in Recorded
          /\ clerk[k].due = breaches[clerk[k].breach].due
    /\ \A b \in Breaches \ rushed :
          /\ \A j, k \in Clerks : Filing(j, b) /\ Filing(k, b) => j = k
          /\ \A k \in Clerks : Filing(k, b) => ~breaches[b].filed

\* Every payment is of a filed breach and of the credit due for it, and one
\* that no two calls were at has at most one.
PaymentInv ==
    /\ \A p \in paid : /\ p.breach \in Recorded
                       /\ breaches[p.breach].filed
                       /\ p.amount = breaches[p.breach].due
    /\ \A p, q \in paid : p.breach = q.breach /\ p.breach \notin rushed => p = q

ClaimInv == BreachInv /\ ClerkInv /\ PaymentInv

-----------------------------------------------------------------------------

\* Rounding to the nearest whole adds less than one.
LEMMA Rounded ==
    ASSUME NEW n \in Nat, NEW d \in Nat, d > 0
    PROVE  RoundedRatio(n, d) \in Nat /\ d * (RoundedRatio(n, d) - 1) < n
<1>1. PICK m : m = 2 * n + d
  OBVIOUS
<1>2. PICK e : e = 2 * d
  OBVIOUS
<1>3. m \in Nat /\ e \in Nat /\ e > 0
  BY <1>1, <1>2
<1>4. PICK q : q = m \div e
  OBVIOUS
<1>5. q \in Nat /\ e * q <= m
  BY <1>3, <1>4
<1>6. 2 * (d * q) <= 2 * n + d
  BY <1>1, <1>2, <1>5
<1>7. d * q \in Nat /\ d * (q - 1) = d * q - d
  BY <1>5
<1>8. d * (q - 1) < n
  BY <1>6, <1>7
<1> QED BY <1>1, <1>2, <1>4, <1>5, <1>8 DEF RoundedRatio

\* The credit of an outage is within the cap, however long it lasts.
LEMMA CreditWithinCap ==
    ASSUME NEW t \in SlaTerms, NEW minutes \in Durations
    PROVE  CalculateCredit(t, minutes) \in Nat /\ WithinCap(t, CalculateCredit(t, minutes))
<1>1. /\ t.spend \in Nat /\ t.credit \in Nat /\ t.cap \in Nat /\ minutes \in Nat
      /\ TotalMonthlyMins \in Nat /\ TotalMonthlyMins = 43200
  BY ClaimsAssumption DEF TotalMonthlyMins
<1>2. PICK p : p = t.spend * t.credit
  OBVIOUS
<1>3. PICK k : k = p * t.cap
  OBVIOUS
<1>4. p \in Nat /\ k \in Nat
  BY <1>1, <1>2, <1>3
<1>5. CASE 100 * minutes > t.cap * TotalMonthlyMins
  <2>1. CalculateCredit(t, minutes) = RoundedRatio(k, 10000)
    BY <1>2, <1>3, <1>5 DEF CalculateCredit
  <2> QED BY <1>2, <1>3, <1>4, <2>1, Rounded DEF WithinCap
<1>6. CASE ~(100 * minutes > t.cap * TotalMonthlyMins)
  <2>1. PICK m : m = p * minutes
    OBVIOUS
  <2>2. m \in Nat
    BY <1>1, <1>4, <2>1
  <2>3. 100 * TotalMonthlyMins = 4320000
    BY <1>1
  <2>4. CalculateCredit(t, minutes) = RoundedRatio(m, 4320000)
    BY <1>2, <1>6, <2>1, <2>3 DEF CalculateCredit
  <2>5. PICK c : c = RoundedRatio(m, 4320000)
    OBVIOUS
  <2>6. c \in Nat /\ 4320000 * (c - 1) < m
    BY <2>2, <2>5, Rounded
  <2>7. 100 * minutes <= t.cap * 43200
    BY <1>1, <1>6
  <2>8. p * (100 * minutes) <= p * (t.cap * 43200)
    BY <1>1, <1>4, <2>7
  <2>9. p * (100 * minutes) = 100 * m /\ p * (t.cap * 43200) = 43200 * k
    BY <1>1, <1>3, <1>4, <2>1
  <2>10. 10000 * (c - 1) < k
    BY <1>4, <2>2, <2>6, <2>8, <2>9
  <2> QED BY <1>2, <1>3, <2>4, <2>5, <2>6, <2>10 DEF WithinCap
<1> QED BY <1>5, <1>6

LEMMA ClaimInitInv == ClaimInit => ClaimInv
BY ClaimsAssumption
   DEF ClaimInit, ClaimInv, BreachInv, ClerkInv, PaymentInv, Recorded, Filing, Available

\* Contracts are only added: what covers a breach goes on covering it.
LEMMA SlasKept ==
    ASSUME ClaimInv, [ClaimNext]_claimVars
    PROVE  /\ slas' \in [Slas -> SlaRow \cup {NoSla}]
           /\ \A s \in Existing : s \in Existing' /\ slas'[s] = slas[s]
<1>1. slas \in [Slas -> SlaRow \cup {NoSla}]
  BY DEF ClaimInv, BreachInv
<1>2. CASE handleAddSLA
  <2>1. PICK s \in Slas, terms \in SlaTerms : AddSLA(s, terms)
    BY <1>2 DEF handleAddSLA
  <2> QED BY <1>1, <2>1 DEF AddSLA, Existing, SlaRow
<1>3. CASE UNCHANGED slas
  BY <1>1, <1>3 DEF Existing
<1> QED
  BY <1>2, <1>3 DEF ClaimNext, claimVars, handleRecordBreach, RecordBreach, AddBreach,
     FileClaim, handleFileClaim, ClerkFails

LEMMA CoveringKept ==
    ASSUME ClaimInv, [ClaimNext]_claimVars, NEW service
    PROVE  \A s \in Covering(service) : s \in Covering(service)' /\ slas'[s] = slas[s]
BY SlasKept DEF Covering

\* The row of a breach that is filed.
LEMMA FiledRow ==
    ASSUME NEW b \in Breaches, NEW payout \in Nat, breaches[b] \in BreachRow,
           breaches \in [Breaches -> BreachRow \cup {NoBreachRow}],
           FileBreach(b, payout)
    PROVE  /\ breaches' \in [Breaches -> BreachRow \cup {NoBreachRow}]
           /\ \A c \in Breaches : c # b => breaches'[c] = breaches[c]
           /\ breaches'[b] \in BreachRow
           /\ breaches'[b].filed /\ breaches'[b].payout = payout
           /\ breaches'[b].due = breaches[b].due
           /\ breaches'[b].service = breaches[b].service
<1>1. PICK row : row = [breaches[b] EXCEPT !.filed = TRUE, !.payout = payout]
  OBVIOUS
<1>2. breaches' = [breaches EXCEPT ![b] = row]
  BY <1>1 DEF FileBreach
<1>3. /\ row \in BreachRow /\ row.filed /\ row.payout = payout
      /\ row.due = breaches[b].due /\ row.service = breaches[b].service
  BY <1>1 DEF BreachRow
<1> QED BY <1>2, <1>3

LEMMA NoBreachRowIsNone == NoBreachRow \notin BreachRow
BY DEF NoBreachRow, BreachRow

\* Breaches are recorded and filed, and otherwise stay as they are.
LEMMA NextBreachInv ==
    ASSUME ClaimInv, [ClaimNext]_claimVars
    PROVE  /\ BreachInv'
           /\ \A b \in Recorded : /\ b \in Recorded'
                                  /\ breaches'[b].due = breaches[b].due
                                  /\ breaches[b].filed => breaches'[b].filed
<1>1. /\ breaches \in [Breaches -> BreachRow \cup {NoBreachRow}]
      /\ \A b \in Recorded :
          /\ \E s \in Covering(breaches[b].service) :
                WithinCap(slas[s].terms, breaches[b].due)
          /\ breaches[b].filed => breaches[b].payout = breaches[b].due
  BY DEF ClaimInv, BreachInv
<1>2. \A b \in Recorded : breaches[b] \in BreachRow
  BY <1>1 DEF Recorded
<1>3. ASSUME NEW service, NEW cents, \E s \in Covering(service) : WithinCap(slas[s].terms, cents)
      PROVE  \E s \in Covering(service)' : WithinCap(slas'[s].terms, cents)
  BY <1>3, CoveringKept
<1>4. CASE UNCHANGED breaches
  <2>1. Recorded' = Recorded
    BY <1>4 DEF Recorded
  <2> QED BY <1>1, <1>3, <1>4, <2>1, SlasKept DEF BreachInv
<1>5. CASE handleRecordBreach
  <2>1. PICK b \in Breaches, service \in {t.service : t \in SlaTerms}, month \in Months,
             minutes \in Durations : RecordBreach(b, service, month, minutes)
    BY <1>5 DEF handleRecordBreach
  <2>2. PICK s \in Covering(service) :
           AddBreach(b, [service |-> service, month |-> month, minutes |-> minutes,
                         due |-> CalculateCredit(slas[s].terms, minutes),
                         filed |-> FALSE, payout |-> 0])
    BY <2>1 DEF RecordBreach
  <2>3. PICK row : row = [service |-> service, month |-> month, minutes |-> minutes,
                          due |-> CalculateCredit(slas[s].terms, minutes),
                          filed |-> FALSE, payout |-> 0]
    OBVIOUS
  <2>4. slas[s].terms \in SlaTerms
    BY DEF ClaimInv, BreachInv, Covering, Existing, SlaRow
  <2>5. row \in BreachRow /\ ~row.filed /\ row.service = service
        /\ WithinCap(slas[s].terms, row.due)
    BY <2>3, <2>4, CreditWithinCap DEF BreachRow
  <2>6. breaches[b] = NoBreachRow /\ breaches' = [breaches EXCEPT ![b] = row]
    BY <2>2, <2>3 DEF AddBreach
  <2>7. Recorded' = Recorded \cup {b} /\ b \notin Recorded
    BY <1>1, <2>5, <2>6, NoBreachRowIsNone DEF Recorded
  <2>8. breaches'[b] = row /\ \A c \in Recorded : breaches'[c] = breaches[c]
    BY <1>1, <2>6, <2>7 DEF Recorded
  <2>9. breaches' \in [Breaches -> BreachRow \cup {NoBreachRow}]
    BY <1>1, <2>5, <2>6
  <2>10. \E r \in Covering(row.service)' : WithinCap(slas'[r].terms, row.due)
    BY <1>3, <2>5
  <2> QED BY <1>1, <1>3, <2>5, <2>7, <2>8, <2>9, <2>10, SlasKept DEF BreachInv
<1>6. ASSUME NEW k \in Clerks, clerk[k].pc = "file", FileBreach(clerk[k].breach, clerk[k].due)
      PROVE  /\ BreachInv'
             /\ \A b \in Recorded : /\ b \in Recorded'
                                    /\ breaches'[b].due = breaches[b].due
                                    /\ breaches[b].filed => breaches'[b].filed
  <2>1. PICK b, due : b = clerk[k].breach /\ due = clerk[k].due
    OBVIOUS
  <2>2. clerk[k] # Available
    BY <1>6 DEF Available
  <2>3. b \in Recorded /\ b \in Breaches /\ due = breaches[b].due /\ due \in Nat
    BY <2>1, <2>2 DEF ClaimInv, ClerkInv, Recorded
  <2>4. FileBreach(b, due)
    BY <1>6, <2>1
  <2>5. /\ breaches' \in [Breaches -> BreachRow \cup {NoBreachRow}]
        /\ \A c \in Breaches : c # b => breaches'[c] = breaches[c]
        /\ breaches'[b] \in BreachRow
        /\ breaches'[b].filed /\ breaches'[b].payout = due
        /\ breaches'[b].due = breaches[b].due
        /\ breaches'[b].service = breaches[b].service
    BY <1>1, <1>2, <2>3, <2>4, FiledRow
  <2>6. Recorded' = Recorded
    BY <2>3, <2>5, NoBreachRowIsNone DEF Recorded
  <2>7. \A c \in Recorded : /\ breaches'[c].due = breaches[c].due
                            /\ breaches'[c].service = breaches[c].service
                            /\ c = b \/ breaches'[c] = breaches[c]
    BY <2>5 DEF Recorded
  <2>8. ASSUME NEW c \in Recorded
        PROVE  /\ (\E s \in Covering(breaches[c].service) :
                      WithinCap(slas[s].terms, breaches[c].due))'
               /\ breaches'[c].filed => breaches'[c].payout = breaches'[c].due
    <3>1. PICK service, cents : service = breaches[c].service /\ cents = breaches[c].due
      OBVIOUS
    <3>2. \E s \in Covering(service) : WithinCap(slas[s].terms, cents)
      BY <1>1, <3>1
    <3>3. \E s \in Covering(service)' : WithinCap(slas'[s].terms, cents)
      BY <1>3, <3>2
    <3>4. service = breaches'[c].service /\ cents = breaches'[c].due
      BY <2>7, <3>1
    <3>5. breaches'[c].filed => breaches'[c].payout = breaches'[c].due
      BY <1>1, <2>3, <2>5, <2>7
    <3> QED BY <3>3, <3>4, <3>5
  <2>9. BreachInv'
    BY <2>5, <2>6, <2>8, SlasKept DEF BreachInv
  <2>10. \A c \in Recorded : breaches[c].filed => breaches'[c].filed
    BY <2>5, <2>7
  <2> QED BY <2>6, <2>7, <2>9, <2>10
<1> QED
  BY <1>4, <1>5, <1>6 DEF ClaimNext, claimVars, handleAddSLA, AddSLA,
     FileClaim, handleFileClaim, ClerkFails


\* A goroutine takes up a claim or ends it.
LEMMA NextClerkInv ==
    ASSUME ClaimInv, [ClaimNext]_claimVars
    PROVE  ClerkInv'
<1>1. /\ clerk \in [Clerks -> [pc : {"idle", "file"}, breach : Breaches \cup {NoBreach},
                              due : Nat]]
      /\ rushed \subseteq Breaches
  BY DEF ClaimInv, ClerkInv
<1>2. \A b \in Recorded : b \in Recorded' /\ breaches'[b].due = breaches[b].due
  BY NextBreachInv
<1>3. Available \in [pc : {"idle", "file"}, breach : Breaches \cup {NoBreach}, due : Nat]
      /\ Available.breach = NoBreach /\ Available.pc = "idle" /\ NoBreach \notin Breaches
  BY ClaimsAssumption DEF Available
<1>4. CASE UNCHANGED <<clerk, rushed>> /\ \A b \in Recorded : breaches'[b] = breaches[b]
  <2>1. \A b \in Breaches \ rushed, k \in Clerks :
           Filing(k, b) => b \in Recorded
    BY <1>1, <1>3 DEF ClaimInv, ClerkInv, Filing
  <2> QED BY <1>1, <1>2, <1>4, <2>1 DEF ClaimInv, ClerkInv, Filing
<1>5. ASSUME NEW k \in Clerks, NEW b \in Breaches, FileClaim(k, b)
      PROVE  ClerkInv'
  <2>1. b \in Recorded /\ ~breaches[b].filed /\ breaches' = breaches
        /\ clerk[k] = Available
    BY <1>5 DEF FileClaim, Claimable, Recorded
  <2>2. breaches[b].due \in Nat
    BY <2>1 DEF ClaimInv, BreachInv, Recorded, BreachRow
  <2>3. PICK next : next = [pc |-> "file", breach |-> b, due |-> breaches[b].due]
    OBVIOUS
  <2>4. /\ next \in [pc : {"idle", "file"}, breach : Breaches \cup {NoBreach}, due : Nat]
        /\ next.pc = "file" /\ next.breach = b /\ next.due = breaches[b].due
    BY <2>2, <2>3
  <2>5. clerk' = [clerk EXCEPT ![k] = next]
    BY <1>5, <2>3 DEF FileClaim
  <2>6. rushed' = rushed \cup ({clerk[j].breach : j \in Clerks} \cap {b})
    BY <1>5 DEF FileClaim
  <2>7. clerk' \in [Clerks -> [pc : {"idle", "file"}, breach : Breaches \cup {NoBreach},
                               due : Nat]]
        /\ rushed' \subseteq Breaches
    BY <1>1, <2>4, <2>5, <2>6
  <2>8. \A j \in Clerks : j # k => clerk'[j] = clerk[j]
    BY <1>1, <2>5
  <2>9. clerk'[k] = next
    BY <1>1, <2>5
  <2>10. ASSUME NEW j \in Clerks, clerk'[j] # Available
         PROVE  /\ clerk'[j].pc = "file"
                /\ clerk'[j].breach \in Recorded'
                /\ clerk'[j].due = breaches'[clerk'[j].breach].due
    <3>1. CASE j = k
      BY <1>2, <2>1, <2>4, <2>9, <3>1
    <3>2. CASE j # k
      BY <1>2, <2>1, <2>8, <2>10, <3>2 DEF ClaimInv, ClerkInv
    <3> QED BY <3>1, <3>2
  <2>11. ASSUME NEW c \in Breaches \ rushed', NEW i \in Clerks, NEW j \in Clerks,
                Filing(i, c)', Filing(j, c)'
         PROVE  i = j /\ ~breaches'[c].filed
    <3>1. CASE c = b
      <4>1. \A l \in Clerks : clerk[l].breach # b
        BY <2>6, <2>11, <3>1
      <4>2. i = k /\ j = k
        BY <2>8, <2>11, <3>1, <4>1 DEF Filing
      <4> QED BY <2>1, <3>1, <4>2
    <3>2. CASE c # b
      <4>1. i # k /\ j # k
        BY <2>4, <2>9, <2>11, <3>2 DEF Filing
      <4>2. Filing(i, c) /\ Filing(j, c) /\ c \in Breaches \ rushed
        BY <2>6, <2>8, <2>11, <4>1 DEF Filing
      <4> QED BY <2>1, <4>2 DEF ClaimInv, ClerkInv
    <3> QED BY <3>1, <3>2
  <2> QED BY <2>7, <2>10, <2>11 DEF ClerkInv
<1>6. ASSUME NEW k \in Clerks, clerk[k].pc = "file",
             \/ FileBreach(clerk[k].breach, clerk[k].due)
             \/ UNCHANGED breaches,
             clerk' = [clerk EXCEPT ![k] = Available], rushed' = rushed
      PROVE  ClerkInv'
  <2>1. clerk[k] # Available
    BY <1>3, <1>6
  <2>2. clerk[k].breach \in Recorded /\ clerk[k].breach \in Breaches
        /\ Filing(k, clerk[k].breach)
    BY <1>6, <2>1 DEF ClaimInv, ClerkInv, Recorded, Filing
  <2>3. \A c \in Breaches : c # clerk[k].breach => breaches'[c] = breaches[c]
    BY <1>6, <2>2 DEF FileBreach, ClaimInv, BreachInv
  <2>4. clerk' \in [Clerks -> [pc : {"idle", "file"}, breach : Breaches \cup {NoBreach},
                               due : Nat]]
        /\ clerk'[k] = Available
        /\ \A j \in Clerks : j # k => clerk'[j] = clerk[j]
    BY <1>1, <1>3, <1>6
  <2>5. ASSUME NEW j \in Clerks, clerk'[j] # Available
        PROVE  /\ clerk'[j].pc = "file"
               /\ clerk'[j].breach \in Recorded'
               /\ clerk'[j].due = breaches'[clerk'[j].breach].due
    BY <1>2, <2>4, <2>5 DEF ClaimInv, ClerkInv
  <2>6. ASSUME NEW c \in Breaches \ rushed, NEW i \in Clerks, NEW j \in Clerks,
               Filing(i, c)', Filing(j, c)'
        PROVE  i = j /\ ~breaches'[c].filed
    <3>1. i # k /\ j # k
      BY <1>3, <2>4, <2>6 DEF Filing
    <3>2. Filing(i, c) /\ Filing(j, c)
      BY <2>4, <2>6, <3>1 DEF Filing
    <3>3. i = j /\ ~breaches[c].filed
      BY <3>2 DEF ClaimInv, ClerkInv
    <3>4. c # clerk[k].breach
      BY <2>2, <3>1, <3>2 DEF ClaimInv, ClerkInv
    <3> QED BY <2>3, <3>3, <3>4
  <2> QED BY <1>1, <1>6, <2>4, <2>5, <2>6 DEF ClerkInv
<1>7. ASSUME NEW b \in Breaches, NEW row, AddBreach(b, row)
      PROVE  UNCHANGED <<clerk, rushed>> /\ \A c \in Recorded : breaches'[c] = breaches[c]
  BY <1>7 DEF AddBreach, Recorded, ClaimInv, BreachInv
<1> QED
  BY <1>4, <1>5, <1>6, <1>7 DEF ClaimNext, claimVars, handleAddSLA, AddSLA, handleRecordBreach,
     RecordBreach, handleFileClaim, ClerkFails

\* A payment is made for a breach just filed, and is the first unless two
\* claims overlapped.
LEMMA NextPaymentInv ==
    ASSUME ClaimInv, [ClaimNext]_claimVars
    PROVE  PaymentInv'
<1>1. /\ \A p \in paid : /\ p.breach \in Recorded
                         /\ breaches[p.breach].filed
                         /\ p.amount = breaches[p.breach].due
      /\ \A p, q \in paid : p.breach = q.breach /\ p.breach \notin rushed => p = q
  BY DEF ClaimInv, PaymentInv
<1>2. \A b \in Recorded : /\ b \in Recorded'
                          /\ breaches'[b].due = breaches[b].due
                          /\ breaches[b].filed => breaches'[b].filed
  BY NextBreachInv
<1>3. CASE paid' = paid /\ rushed \subseteq rushed'
  BY <1>1, <1>2, <1>3 DEF PaymentInv
<1>4. ASSUME NEW k \in Clerks, handleFileClaim(k)
      PROVE  PaymentInv'
  <2>1. PICK b : b = clerk[k].breach
    OBVIOUS
  <2>2. clerk[k] # Available /\ Filing(k, b)
    BY <1>4, <2>1 DEF handleFileClaim, Available, Filing
  <2>3. b \in Breaches /\ b \in Recorded /\ clerk[k].due = breaches[b].due /\ clerk[k].due \in Nat
    BY <2>1, <2>2 DEF ClaimInv, ClerkInv, Recorded
  <2>4. PICK pay : pay = [breach |-> b, amount |-> clerk[k].due, nr |-> Cardinality(paid) + 1]
    OBVIOUS
  <2>5. pay.breach = b /\ pay.amount = breaches[b].due
    BY <2>3, <2>4
  <2>6. paid' = paid \cup {pay} /\ rushed' = rushed /\ FileBreach(b, clerk[k].due)
    BY <1>4, <2>1, <2>4 DEF handleFileClaim
  <2>7. breaches'[b].filed
    <3>1. breaches[b] \in BreachRow /\ breaches \in [Breaches -> BreachRow \cup {NoBreachRow}]
      BY <2>3 DEF ClaimInv, BreachInv, Recorded
    <3> QED BY <2>3, <2>6, <3>1, FiledRow
  <2>8. b \notin rushed => \A p \in paid : p.breach # b
    BY <1>1, <2>2, <2>3 DEF ClaimInv, ClerkInv
  <2>9. \A p \in paid' : p \in paid \/ p = pay
    BY <2>6
  <2>10. ASSUME NEW p \in paid'
         PROVE  /\ p.breach \in Recorded'
                /\ breaches'[p.breach].filed
                /\ p.amount = breaches'[p.breach].due
    BY <1>1, <1>2, <2>3, <2>5, <2>7, <2>9
  <2>11. \A p, q \in paid' : p.breach = q.breach /\ p.breach \notin rushed' => p = q
    BY <1>1, <2>5, <2>6, <2>8, <2>9
  <2> QED BY <2>10, <2>11 DEF PaymentInv
<1> QED
  BY <1>3, <1>4 DEF ClaimNext, claimVars, handleAddSLA, AddSLA, handleRecordBreach,
     RecordBreach, AddBreach, FileClaim, ClerkFails

LEMMA NextClaimInv == ClaimInv /\ [ClaimNext]_claimVars => ClaimInv'
BY NextBreachInv, NextClerkInv, NextPaymentInv DEF ClaimInv

(***************************************************************************)
(* The tables of agreements and breaches keep their types, and the credit  *)
(* due for an outage is a whole number of cents, whatever the contract     *)
(* says (AddSLA, RecordBreach, FileClaim, sla/engine.go).                  *)
(***************************************************************************)
THEOREM ClaimsTypeCorrect == ClaimSpec => []ClaimTypeOK
<1>1. ClaimInv => ClaimTypeOK
  <2> SUFFICES ASSUME ClaimInv PROVE ClaimTypeOK
    OBVIOUS
  <2>1. /\ slas \in [Slas -> SlaRow \cup {NoSla}]
        /\ \A b \in Breaches : breaches[b] = NoBreachRow \/ breaches[b] \in BreachRow
    BY DEF ClaimInv, BreachInv
  <2>2. /\ \A k \in Clerks : clerk[k] = Available \/ clerk[k].breach \in Recorded
        /\ rushed \subseteq Breaches
    BY DEF ClaimInv, ClerkInv
  <2>3. \A p \in paid : p.breach \in Breaches
    BY DEF ClaimInv, PaymentInv, Recorded
  <2> QED BY <2>1, <2>2, <2>3 DEF ClaimTypeOK
<1> QED BY <1>1, ClaimInitInv, NextClaimInv, PTL DEF ClaimSpec

(***************************************************************************)
(* A breach is paid once unless two claims for it overlapped, and every    *)
(* payment is of a breach on record as filed, of the credit due for it and *)
(* within the cap of its contract (FileClaim and calculateCredit,          *)
(* sla/engine.go).                                                         *)
(***************************************************************************)
THEOREM PaidOnceAlways == ClaimSpec => []PaidOnce
<1>1. ClaimInv => PaidOnce
  <2> SUFFICES ASSUME ClaimInv PROVE PaidOnce
    OBVIOUS
  <2>1. ASSUME NEW b \in Breaches \ rushed PROVE Cardinality(PaymentsFor(b)) <= 1
    <3>1. \A p, q \in PaymentsFor(b) : p = q
      BY <2>1 DEF ClaimInv, PaymentInv, PaymentsFor
    <3> QED BY <3>1, AtMostOne
  <2>2. ASSUME NEW p \in paid
        PROVE  /\ breaches[p.breach].filed
               /\ p.amount = breaches[p.breach].payout
               /\ \E s \in Covering(breaches[p.breach].service) :
                     WithinCap(slas[s].terms, p.amount)
    BY DEF ClaimInv, BreachInv, PaymentInv
  <2> QED BY <2>1, <2>2 DEF PaidOnce, WithinCap
<1> QED BY <1>1, ClaimInitInv, NextClaimInv, PTL DEF ClaimSpec

-----------------------------------------------------------------------------
(* The report.                                                             *)

\* Only so many contracts and breaches have been recorded.
RecordedInv == IsFiniteSet(Existing) /\ IsFiniteSet(Recorded)

LEMMA NextRecordedInv ==
    ASSUME ClaimInv, RecordedInv, [ClaimNext]_claimVars PROVE RecordedInv'
<1>1. CASE handleAddSLA
  <2>1. PICK s \in Slas, terms \in SlaTerms : AddSLA(s, terms)
    BY <1>1 DEF handleAddSLA
  <2>2. Existing' \subseteq Existing \cup {s}
    BY <2>1 DEF AddSLA, Existing, ClaimInv, BreachInv
  <2>3. Recorded' = Recorded
    BY <2>1 DEF AddSLA, Recorded
  <2> QED BY <2>2, <2>3, FS_AddElement, FS_Subset DEF RecordedInv
<1>2. ASSUME NEW b \in Breaches, NEW row, AddBreach(b, row) PROVE RecordedInv'
  <2>1. Recorded' \subseteq Recorded \cup {b}
    BY <1>2 DEF AddBreach, Recorded, ClaimInv, BreachInv
  <2>2. Existing' = Existing
    BY <1>2 DEF AddBreach, Existing
  <2> QED BY <2>1, <2>2, FS_AddElement, FS_Subset DEF RecordedInv
<1>3. ASSUME NEW k \in Clerks, clerk[k] # Available, handleFileClaim(k) \/ ClerkFails(k)
      PROVE  RecordedInv'
  <2>1. clerk[k].breach \in Recorded
    BY <1>3 DEF ClaimInv, ClerkInv
  <2>2. Recorded' \subseteq Recorded /\ Existing' = Existing
    BY <1>3, <2>1 DEF handleFileClaim, ClerkFails, FileBreach, Recorded, Existing, ClaimInv, BreachInv
  <2> QED BY <2>2, FS_Subset DEF RecordedInv
<1>4. ASSUME NEW k \in Clerks, handleFileClaim(k) \/ ClerkFails(k) PROVE clerk[k] # Available
  BY <1>4 DEF handleFileClaim, ClerkFails, Available
<1>5. (UNCHANGED claimVars \/ \E k \in Clerks, b \in Breaches : FileClaim(k, b)) => RecordedInv'
  BY DEF claimVars, FileClaim, RecordedInv, Recorded, Existing
<1> QED
  BY <1>1, <1>2, <1>3, <1>4, <1>5 DEF ClaimNext, handleRecordBreach, RecordBreach

Due == [b \in Recorded |-> breaches[b].due]

LEMMA RecordedRow ==
    ASSUME ClaimInv, NEW b \in Recorded
    PROVE  /\ breaches[b] \in BreachRow /\ breaches[b].due \in Nat
           /\ breaches[b].filed => breaches[b].payout = breaches[b].due
           /\ \E s \in Existing : slas[s].terms.service = breaches[b].service
BY DEF ClaimInv, BreachInv, Recorded, BreachRow, Covering

\* A sum of credits, as the report has it.
LEMMA CreditsSum ==
    ASSUME ClaimInv, RecordedInv, NEW bs \in SUBSET Recorded
    PROVE  /\ MapThenSumSet(LAMBDA b : breaches[b].due, bs) = SumOver(Due, bs)
           /\ SumOver(Due, bs) \in Nat
<1>1. PICK credit, due : credit = [b \in bs |-> breaches[b].due] /\ due = Due
  OBVIOUS
<1>2. IsFiniteSet(bs)
  BY FS_Subset DEF RecordedInv
<1>3. \A b \in bs : credit[b] \in Nat /\ credit[b] = due[b]
  BY <1>1, RecordedRow DEF Due
<1>4. SumOver(credit, bs) = SumOver(due, bs)
  BY <1>2, <1>3, SumSame
<1>5. \A sum : SumsUp(sum, credit, bs) <=>
         sum = [T \in SUBSET bs |->
                   IF T = {} THEN 0
                   ELSE breaches[CHOOSE b \in T : TRUE].due + sum[T \ {CHOOSE b \in T : TRUE}]]
  BY <1>1 DEF SumsUp, Foremost
<1>6. MapThenSumSet(LAMBDA b : breaches[b].due, bs) = SumOver(credit, bs)
  BY ZenonT(60), <1>5 DEF MapThenSumSet, MapThenFoldSet, SumOver
<1>7. SumOver(credit, bs) \in Nat
  BY <1>2, <1>3, SumOfPart
<1> QED BY <1>1, <1>4, <1>6, <1>7

\* What the report counts for the contracts: no less than what there is for
\* the breaches of the month, and exactly that if no service has two.
LEMMA ReportSums ==
    ASSUME ClaimInv, RecordedInv, NEW month, NEW mine, mine = {b \in Recorded : breaches[b].month = month}
    PROVE  /\ GetReport(month).total \in Nat
           /\ SumOver(Due, mine) <= GetReport(month).total
           /\ OneSlaPerService => GetReport(month).total = SumOver(Due, mine)
<1>1. PICK part : part = [s \in Existing |-> ListBreaches(slas[s].terms.service, month)]
  OBVIOUS
<1>2. PICK whole : whole = [s \in Existing |-> CreditsOf(s, month)]
  OBVIOUS
<1>3. PICK due : due = Due
  OBVIOUS
<1>4. IsFiniteSet(Existing) /\ IsFiniteSet(mine) /\ mine \in SUBSET Recorded
  BY FS_Subset DEF RecordedInv
<1>5. \A b \in mine : due[b] \in Nat
  BY <1>3, RecordedRow DEF Due
<1>6. \A s \in Existing : part[s] \in SUBSET mine
  BY <1>1 DEF ListBreaches
<1>7. \A s \in Existing : whole[s] = SumOver(due, part[s])
  <2>1. ASSUME NEW s \in Existing PROVE whole[s] = SumOver(due, part[s])
    <3>1. part[s] \in SUBSET Recorded
      BY <1>4, <1>6
    <3>2. MapThenSumSet(LAMBDA b : breaches[b].due, part[s]) = SumOver(Due, part[s])
      BY <3>1, CreditsSum
    <3>3. part[s] = ListBreaches(slas[s].terms.service, month)
      BY <1>1
    <3>4. CreditsOf(s, month) = MapThenSumSet(LAMBDA b : breaches[b].due, part[s])
      BY <3>3 DEF CreditsOf
    <3> QED BY <1>2, <1>3, <3>2, <3>4
  <2> QED BY <2>1
<1>8. UNION {part[s] : s \in Existing} = mine
  <2>1. ASSUME NEW b \in mine PROVE \E s \in Existing : b \in part[s]
    BY <1>1, RecordedRow DEF ListBreaches
  <2> QED BY <1>6, <2>1
<1>9. \A sum : SumsUp(sum, whole, Existing) <=>
         sum = [T \in SUBSET Existing |->
                   IF T = {} THEN 0
                   ELSE CreditsOf(CHOOSE s \in T : TRUE, month) + sum[T \ {CHOOSE s \in T : TRUE}]]
  BY <1>2 DEF SumsUp, Foremost
<1>10. MapThenSumSet(LAMBDA s : CreditsOf(s, month), Existing) = SumOver(whole, Existing)
  BY ZenonT(60), <1>9 DEF MapThenSumSet, MapThenFoldSet, SumOver
<1>11. GetReport(month).total = SumOver(whole, Existing)
  BY <1>10 DEF GetReport, SLAResult
<1>12. /\ SumOver(whole, Existing) \in Nat
       /\ SumOver(due, UNION {part[s] : s \in Existing}) <= SumOver(whole, Existing)
       /\ (\A s, r \in Existing : s # r => part[s] \cap part[r] = {}) =>
             SumOver(due, UNION {part[s] : s \in Existing}) = SumOver(whole, Existing)
  <2>1. PICK I : I = Existing
    OBVIOUS
  <2>2. IsFiniteSet(I) /\ IsFiniteSet(mine) /\ \A b \in mine : due[b] \in Nat
    BY <1>4, <1>5, <2>1
  <2>3. \A s \in I : part[s] \in SUBSET mine /\ whole[s] = SumOver(due, part[s])
    BY <1>6, <1>7, <2>1
  <2>4. /\ SumOver(whole, I) \in Nat
        /\ SumOver(due, UNION {part[s] : s \in I}) <= SumOver(whole, I)
        /\ (\A s, r \in I : s # r => part[s] \cap part[r] = {}) =>
              SumOver(due, UNION {part[s] : s \in I}) = SumOver(whole, I)
    BY ONLY <2>2, <2>3, SumOfParts
  <2> QED BY <2>1, <2>4
<1>13. OneSlaPerService => \A s, r \in Existing : s # r => part[s] \cap part[r] = {}
  BY <1>1 DEF OneSlaPerService, ListBreaches
<1> QED BY <1>3, <1>8, <1>11, <1>12, <1>13

LEMMA ReportCounts ==
    ASSUME ClaimInv, RecordedInv, NEW month,
           NEW filed, filed = {b \in Recorded : breaches[b].month = month /\ breaches[b].filed}
    PROVE  /\ GetReport(month).filed \in Nat
           /\ Cardinality(filed) <= GetReport(month).filed
           /\ OneSlaPerService => GetReport(month).filed = Cardinality(filed)
<1>1. PICK part : part = [s \in Existing |-> {b \in ListBreaches(slas[s].terms.service, month) :
                                                 breaches[b].filed}]
  OBVIOUS
<1>2. PICK whole : whole = [s \in Existing |-> FiledOf(s, month)]
  OBVIOUS
<1>3. PICK one : one = [b \in filed |-> 1]
  OBVIOUS
<1>4. IsFiniteSet(Existing) /\ IsFiniteSet(filed) /\ filed \in SUBSET Recorded
  BY FS_Subset DEF RecordedInv
<1>5. \A b \in filed : one[b] \in Nat /\ one[b] = 1
  BY <1>3
<1>6. \A s \in Existing : part[s] \in SUBSET filed
  BY <1>1 DEF ListBreaches
<1>7. \A s \in Existing : whole[s] = SumOver(one, part[s])
  <2>1. ASSUME NEW s \in Existing PROVE whole[s] = SumOver(one, part[s])
    <3>1. PICK some \in SUBSET filed : some = part[s]
      BY <1>6
    <3>2. Cardinality(some) = SumOver(one, some)
      BY <1>4, <1>5, CountIsSum
    <3>3. FiledOf(s, month) = Cardinality(some)
      BY <1>1, <3>1 DEF FiledOf
    <3> QED BY <1>2, <3>1, <3>2, <3>3
  <2> QED BY <2>1
<1>8. UNION {part[s] : s \in Existing} = filed
  <2>1. ASSUME NEW b \in filed PROVE \E s \in Existing : b \in part[s]
    BY <1>1, RecordedRow DEF ListBreaches
  <2> QED BY <1>6, <2>1
<1>9. \A sum : SumsUp(sum, whole, Existing) <=>
         sum = [T \in SUBSET Existing |->
                   IF T = {} THEN 0
                   ELSE FiledOf(CHOOSE s \in T : TRUE, month) + sum[T \ {CHOOSE s \in T : TRUE}]]
  BY <1>2 DEF SumsUp, Foremost
<1>10. MapThenSumSet(LAMBDA s : FiledOf(s, month), Existing) = SumOver(whole, Existing)
  BY ZenonT(60), <1>9 DEF MapThenSumSet, MapThenFoldSet, SumOver
<1>11. GetReport(month).filed = SumOver(whole, Existing)
  BY <1>10 DEF GetReport, SLAResult
<1>12. /\ SumOver(whole, Existing) \in Nat
       /\ SumOver(one, UNION {part[s] : s \in Existing}) <= SumOver(whole, Existing)
       /\ (\A s, r \in Existing : s # r => part[s] \cap part[r] = {}) =>
             SumOver(one, UNION {part[s] : s \in Existing}) = SumOver(whole, Existing)
  <2>1. PICK I : I = Existing
    OBVIOUS
  <2>2. IsFiniteSet(I) /\ IsFiniteSet(filed) /\ \A b \in filed : one[b] \in Nat
    BY <1>4, <1>5, <2>1
  <2>3. \A s \in I : part[s] \in SUBSET filed /\ whole[s] = SumOver(one, part[s])
    BY <1>6, <1>7, <2>1
  <2>4. /\ SumOver(whole, I) \in Nat
        /\ SumOver(one, UNION {part[s] : s \in I}) <= SumOver(whole, I)
        /\ (\A s, r \in I : s # r => part[s] \cap part[r] = {}) =>
              SumOver(one, UNION {part[s] : s \in I}) = SumOver(whole, I)
    BY ONLY <2>2, <2>3, SumOfParts
  <2> QED BY <2>1, <2>4
<1>13. OneSlaPerService => \A s, r \in Existing : s # r => part[s] \cap part[r] = {}
  BY <1>1 DEF OneSlaPerService, ListBreaches
<1>14. Cardinality(filed) = SumOver(one, filed)
  BY <1>4, <1>5, CountIsSum
<1> QED BY <1>8, <1>11, <1>12, <1>13, <1>14

\* The monthly report accounts for every payout, whatever the contracts and
\* the breaches; and it is exact while no service has two contracts
\* (GetReport, sla/engine.go).
THEOREM ReportCoversPayoutsAlways == ClaimSpec => []ReportCoversPayouts
<1>1. ASSUME ClaimInv, RecordedInv, NEW month \in Months
      PROVE  LET mine == {b \in Recorded : breaches[b].month = month}
                 filed == {b \in mine : breaches[b].filed}
                 payout == MapThenSumSet(LAMBDA b : breaches[b].payout, filed)
                 report == GetReport(month)
             IN  /\ payout <= report.total /\ Cardinality(filed) <= report.filed
                 /\ OneSlaPerService =>
                       /\ report.filed = Cardinality(filed)
                       /\ mine = filed => report.total = payout
  <2> DEFINE mine == {b \in Recorded : breaches[b].month = month}
             filed == {b \in mine : breaches[b].filed}
             report == GetReport(month)
  <2>1. PICK payout : payout = [b \in filed |-> breaches[b].payout]
    OBVIOUS
  <2>2. PICK due : due = Due
    OBVIOUS
  <2>3. IsFiniteSet(mine) /\ filed \in SUBSET mine /\ IsFiniteSet(filed)
    BY <1>1, FS_Subset DEF RecordedInv
  <2>4. /\ \A b \in mine : due[b] \in Nat
        /\ \A b \in filed : payout[b] \in Int /\ payout[b] = due[b]
    BY <1>1, <2>1, <2>2, RecordedRow DEF Due
  <2>5. SumOver(payout, filed) = SumOver(due, filed)
    BY <2>3, <2>4, SumSame
  <2>6. /\ SumOver(due, filed) \in Nat /\ SumOver(due, filed) <= SumOver(due, mine)
    BY <2>3, <2>4, SumOfPart
  <2>7. \A sum : SumsUp(sum, payout, filed) <=>
           sum = [T \in SUBSET filed |->
                     IF T = {} THEN 0
                     ELSE breaches[CHOOSE b \in T : TRUE].payout + sum[T \ {CHOOSE b \in T : TRUE}]]
    BY <2>1 DEF SumsUp, Foremost
  <2>8. MapThenSumSet(LAMBDA b : breaches[b].payout, filed) = SumOver(payout, filed)
    <3> HIDE DEF mine, filed, report
    <3> QED BY ZenonT(60), <2>7 DEF MapThenSumSet, MapThenFoldSet, SumOver
  <2>9. PICK sum : sum = SumOver(payout, filed)
    OBVIOUS
  <2>10. MapThenSumSet(LAMBDA b : breaches[b].payout, filed) = sum
    BY <2>8, <2>9
  <2>11. /\ report.total \in Nat /\ SumOver(due, mine) <= report.total
         /\ OneSlaPerService => report.total = SumOver(due, mine)
    BY <1>1, <2>2, ReportSums
  <2>16. filed = {b \in Recorded : breaches[b].month = month /\ breaches[b].filed}
    OBVIOUS
  <2>13. /\ Cardinality(filed) <= report.filed
         /\ OneSlaPerService => report.filed = Cardinality(filed)
    BY <1>1, <2>16, ReportCounts
  <2>14. SumOver(due, mine) \in Nat
    BY <2>3, <2>4, SumOfPart
  <2>15. sum <= report.total /\ (OneSlaPerService /\ mine = filed => report.total = sum)
    BY <2>5, <2>6, <2>9, <2>11, <2>14
  <2> QED BY <2>10, <2>13, <2>15
<1>2. ClaimInv /\ RecordedInv => ReportCoversPayouts
  BY ONLY <1>1 DEF ReportCoversPayouts
<1>3. ClaimInit => RecordedInv
  BY FS_EmptySet DEF ClaimInit, RecordedInv, Existing, Recorded
<1>4. ClaimInv /\ RecordedInv /\ [ClaimNext]_claimVars => ClaimInv' /\ RecordedInv'
  BY NextClaimInv, NextRecordedInv
<1> QED BY <1>2, <1>3, <1>4, ClaimInitInv, PTL DEF ClaimSpec

-----------------------------------------------------------------------------
(* Renewals: a contract is renewed once.                                   *)

RenewalStages == {"claim", "draft", "revert", "save", "conclude"}

\* A row of the table; its price is a whole number of cents.
PricedRow == [price : ListPrices, due : Nat, last : Nat,
              status : {"active", "negotiating", "renewed"}]

\* A goroutine in the middle of trigger_renewal, with the row it read.
Renewing == [pc : RenewalStages, contract : Contracts, row : PricedRow, final : ListPrices]

CalendarInv ==
    /\ contracts \in [Contracts -> PricedRow \cup {NoRenewalRow}]
    /\ host \in [Hosts -> Renewing \cup {NotHosting}]
    /\ renewalDeals \subseteq Renewal
    /\ IsFiniteSet(renewalDeals)
    /\ clock \in Instants
    /\ triggers \in 0..MaxTriggers
    /\ disputed \subseteq Contracts
    /\ IsFiniteSet({c \in Contracts : contracts[c] # NoRenewalRow})

\* The goroutine at contract c is the only one.
OneHostAt(c) ==
    \A f, g \in Hosts : host[f].contract = c /\ host[g].contract = c => f = g

\* What the table says of contract c while goroutine g renews it.
HostAt(g, c) ==
    /\ host[g].pc = "claim" => contracts[c].status = "active"
    /\ host[g].pc # "claim" => contracts[c].status = "negotiating"
    /\ host[g].pc # "conclude" => RenewalsOf(c) = {}
    /\ \A d \in RenewalsOf(c) : d.to = host[g].final

\* A contract that no two renewals were at has at most one deal, none before
\* it is marked, and its deal's price once it is renewed.
RenewalAt(c) ==
    /\ OneHostAt(c)
    /\ \A g \in Hosts : host[g].contract = c => HostAt(g, c)
    /\ \A d, e \in RenewalsOf(c) : d = e
    /\ contracts[c].status \in {"absent", "active"} => RenewalsOf(c) = {}
    /\ contracts[c].status = "renewed" =>
          \A d \in RenewalsOf(c) : contracts[c].price = d.to

RenewedInv == \A c \in Contracts \ disputed : RenewalAt(c)

RenewalInv == CalendarInv /\ RenewedInv

-----------------------------------------------------------------------------

\* What a run comes to is a whole number of cents.
LEMMA FinalOfferInCents ==
    ASSUME NEW t \in Terms
    PROVE  FinalOffer(t) \in ListPrices
<1>1. FinalOffer(t) \in Nat
  BY ResultBounds
<1>2. PICK x : /\ FinalOffer(t) = x * Cent
               /\ x = (PercentOf(t.listPrice, 100 - Discount(t, LastRound(t)))
                         + Cent \div 2) \div Cent
  BY DEF FinalOffer, Offer, RoundToCent
<1>3. LastRound(t) \in 1..RoundLimit(t)
  BY LastRoundExists
<1>4. Discount(t, LastRound(t)) \in Nat /\ Discount(t, LastRound(t)) <= 100
  BY <1>3, DiscountBounds
<1>5. PercentOf(t.listPrice, 100 - Discount(t, LastRound(t))) \in Nat
  <2>1. 100 - Discount(t, LastRound(t)) \in Nat /\ t.listPrice \in Nat
    BY <1>4 DEF Terms, ListPrices
  <2>2. PICK list, pct : list = t.listPrice /\ pct = 100 - Discount(t, LastRound(t))
    OBVIOUS
  <2>3. list \in Nat /\ pct \in Nat /\ pct <= pct
    BY <2>1, <2>2
  <2>4. PercentOf(list, pct) \in Nat
    BY ONLY <2>3, PercentMonotonic
  <2> QED BY <2>2, <2>4
<1>6. x \in Int
  BY <1>2, <1>5 DEF Cent
<1>7. (x * 100) % 100 = 0
  BY <1>6
<1> QED BY <1>1, <1>2, <1>7 DEF ListPrices, Cent

\* The terms of a renewal are terms of a run.
LEMMA RenewalRuns ==
    ASSUME NEW row \in PricedRow, NEW list \in ListPrices
    PROVE  FinalOffer(RenewalTerms(row, list)) \in ListPrices
<1>1. RenewalTerms(row, list) \in Terms
  BY DEF RenewalTerms, Terms, Strategies, PricedRow, ListPrices
<1> QED BY <1>1, FinalOfferInCents

LEMMA RenewalInitInv == RenewalInit => RenewalInv
<1> SUFFICES ASSUME RenewalInit PROVE RenewalInv
  OBVIOUS
<1>1. {c \in Contracts : contracts[c] # NoRenewalRow} = {}
  BY DEF RenewalInit
<1>2. CalendarInv
  <2>1. /\ contracts \in [Contracts -> PricedRow \cup {NoRenewalRow}]
        /\ host \in [Hosts -> Renewing \cup {NotHosting}]
        /\ renewalDeals = {} /\ disputed = {} /\ clock \in Instants /\ triggers = 0
    BY DEF RenewalInit
  <2>2. triggers \in 0..MaxTriggers
    BY <2>1, RenewalsAssumption
  <2> QED BY <1>1, <2>1, <2>2, FS_EmptySet DEF CalendarInv
<1>3. RenewedInv
  BY RenewalsAssumption
  DEF RenewalInit, RenewedInv, RenewalAt, OneHostAt, HostAt, RenewalsOf, NotHosting, NoRenewalRow
<1> QED BY <1>2, <1>3 DEF RenewalInv

\* A goroutine that is not resting holds a contract.
LEMMA HostBusy ==
    ASSUME CalendarInv, NEW g \in Hosts
    PROVE  /\ host[g].contract \in Contracts <=> host[g] # NotHosting
           /\ host[g] # NotHosting <=> host[g] \in Renewing
           /\ host[g].pc \in RenewalStages <=> host[g] # NotHosting
<1>1. NotHosting.contract \notin Contracts /\ NotHosting.pc \notin RenewalStages
  BY RenewalsAssumption DEF NotHosting, RenewalStages
<1>2. host[g] \in Renewing \cup {NotHosting}
  BY DEF CalendarInv
<1> QED BY <1>1, <1>2 DEF Renewing

\* What a goroutine holds and writes.
LEMMA HostRow ==
    ASSUME CalendarInv, NEW g \in Hosts, host[g] # NotHosting
    PROVE  /\ host[g].contract \in Contracts /\ host[g].row \in PricedRow
           /\ host[g].final \in ListPrices /\ host[g].pc \in RenewalStages
           /\ \A status \in {"active", "negotiating", "renewed"} :
                 /\ [host[g].row EXCEPT !.status = status] \in PricedRow
                 /\ [host[g].row EXCEPT !.status = status].status = status
           /\ RenewedRow(host[g].row, host[g].final) \in PricedRow
           /\ RenewedRow(host[g].row, host[g].final).status = "renewed"
           /\ RenewedRow(host[g].row, host[g].final).price = host[g].final
<1>1. host[g] \in Renewing
  BY HostBusy
<1>2. PICK row, final : row = host[g].row /\ final = host[g].final
  OBVIOUS
<1>3. row \in PricedRow /\ final \in ListPrices /\ final \in Nat
  BY <1>1, <1>2 DEF Renewing, ListPrices
<1>4. \A status \in {"active", "negotiating", "renewed"} :
         /\ [row EXCEPT !.status = status] \in PricedRow
         /\ [row EXCEPT !.status = status].status = status
  BY <1>3 DEF PricedRow
<1>5. /\ RenewedRow(row, final) \in PricedRow
      /\ RenewedRow(row, final).status = "renewed"
      /\ RenewedRow(row, final).price = final
  BY <1>3 DEF PricedRow, RenewedRow
<1> QED BY <1>1, <1>2, <1>4, <1>5 DEF Renewing

\* The table with the row a goroutine writes back.
LEMMA RowWritten ==
    ASSUME CalendarInv, NEW g \in Hosts, host[g] # NotHosting,
           NEW row \in PricedRow, UpdateContract(g, row)
    PROVE  /\ contracts' \in [Contracts -> PricedRow \cup {NoRenewalRow}]
           /\ contracts'[host[g].contract] = row
           /\ \A c \in Contracts \ {host[g].contract} : contracts'[c] = contracts[c]
BY HostRow DEF UpdateContract, CalendarInv

\* What a goroutine is doing in the next state.
LEMMA HostMoved ==
    ASSUME CalendarInv, NEW g \in Hosts, host[g] # NotHosting, NEW to \in RenewalStages, Goto(g, to)
    PROVE  /\ host' \in [Hosts -> Renewing \cup {NotHosting}]
           /\ host'[g].contract = host[g].contract /\ host'[g].row = host[g].row
           /\ host'[g].final = host[g].final /\ host'[g].pc = to
           /\ \A f \in Hosts \ {g} : host'[f] = host[f]
<1>1. PICK next : next = [host[g] EXCEPT !.pc = to]
  OBVIOUS
<1>2. host[g] \in Renewing /\ host \in [Hosts -> Renewing \cup {NotHosting}]
  BY HostBusy DEF CalendarInv
<1>3. /\ next \in Renewing /\ next.contract = host[g].contract
      /\ next.row = host[g].row /\ next.final = host[g].final /\ next.pc = to
  BY <1>1, <1>2 DEF Renewing
<1>4. host' = [host EXCEPT ![g] = next]
  BY <1>1 DEF Goto
<1> QED BY <1>2, <1>3, <1>4

LEMMA HostReleased ==
    ASSUME CalendarInv, NEW g \in Hosts, Release(g)
    PROVE  /\ host' \in [Hosts -> Renewing \cup {NotHosting}]
           /\ host'[g] = NotHosting
           /\ \A f \in Hosts \ {g} : host'[f] = host[f]
BY DEF Release, CalendarInv

LEMMA HostDrafted ==
    ASSUME CalendarInv, NEW g \in Hosts, host[g] # NotHosting, NEW final \in ListPrices,
           host' = [host EXCEPT ![g].pc = "save", ![g].final = final]
    PROVE  /\ host' \in [Hosts -> Renewing \cup {NotHosting}]
           /\ host'[g].contract = host[g].contract /\ host'[g].pc = "save"
           /\ \A f \in Hosts \ {g} : host'[f] = host[f]
<1>1. PICK next : next = [host[g] EXCEPT !.pc = "save", !.final = final]
  OBVIOUS
<1>2. host[g] \in Renewing /\ host \in [Hosts -> Renewing \cup {NotHosting}]
  BY HostBusy DEF CalendarInv
<1>3. /\ next \in Renewing /\ next.contract = host[g].contract /\ next.pc = "save"
  BY <1>1, <1>2 DEF Renewing, RenewalStages
<1>4. host' = [host EXCEPT ![g] = next]
  BY <1>1, <1>2
<1> QED BY <1>2, <1>3, <1>4

\* The contracts on record stay finitely many: a step adds one at most.
LEMMA RecordedFinite ==
    ASSUME CalendarInv, NEW d \in Contracts,
           \A c \in Contracts \ {d} : contracts'[c] = contracts[c]
    PROVE  IsFiniteSet({c \in Contracts : contracts[c] # NoRenewalRow})'
<1>1. PICK S : S = {c \in Contracts : contracts[c] # NoRenewalRow}
  OBVIOUS
<1>2. IsFiniteSet(S \cup {d})
  BY <1>1, FS_AddElement DEF CalendarInv
<1>3. {c \in Contracts : contracts'[c] # NoRenewalRow} \subseteq S \cup {d}
  BY <1>1
<1> QED BY <1>2, <1>3, FS_Subset

LEMMA NextCalendarInv == CalendarInv /\ [RenewalNext]_renewalVars => CalendarInv'
<1> SUFFICES ASSUME CalendarInv, [RenewalNext]_renewalVars PROVE CalendarInv'
  OBVIOUS
<1>1. /\ contracts \in [Contracts -> PricedRow \cup {NoRenewalRow}]
      /\ host \in [Hosts -> Renewing \cup {NotHosting}]
      /\ renewalDeals \subseteq Renewal /\ IsFiniteSet(renewalDeals)
      /\ clock \in Instants /\ triggers \in 0..MaxTriggers /\ disputed \subseteq Contracts
      /\ IsFiniteSet({c \in Contracts : contracts[c] # NoRenewalRow})
  BY DEF CalendarInv
<1>2. CASE UNCHANGED renewalVars
  BY <1>1, <1>2 DEF renewalVars, CalendarInv
<1>3. CASE handleAddContract
  <2>1. PICK c \in Contracts, terms \in ContractTerms :
           CreateContract(c, [price |-> terms.price, due |-> terms.due,
                              last |-> 0, status |-> "active"])
    BY <1>3 DEF handleAddContract
  <2>2. PICK row : row = [price |-> terms.price, due |-> terms.due,
                          last |-> 0, status |-> "active"]
    OBVIOUS
  <2>3. row \in PricedRow
    BY <2>2, RenewalsAssumption DEF PricedRow
  <2>4. contracts' = [contracts EXCEPT ![c] = row]
        /\ UNCHANGED <<renewalDeals, clock, host, triggers, disputed>>
    BY <2>1, <2>2 DEF CreateContract
  <2>5. contracts' \in [Contracts -> PricedRow \cup {NoRenewalRow}]
        /\ \A d \in Contracts \ {c} : contracts'[d] = contracts[d]
    BY <1>1, <2>3, <2>4
  <2> QED BY <1>1, <2>4, <2>5, RecordedFinite DEF CalendarInv
<1>4. CASE Wait
  BY <1>1, <1>4 DEF Wait, CalendarInv
<1>5. CASE RenewalCrash
  BY <1>1, <1>5 DEF RenewalCrash, CalendarInv
<1>6. ASSUME NEW g \in Hosts, handleTriggerRenewal(g)
      PROVE  CalendarInv'
  <2>1. PICK c \in Contracts : TriggerNegotiation(g, c)
    BY <1>6 DEF handleTriggerRenewal
  <2>2. PICK next : next = [pc |-> "claim", contract |-> c, row |-> contracts[c], final |-> 0]
    OBVIOUS
  <2>3. contracts[c] \in PricedRow
    BY <1>1, <2>1 DEF TriggerNegotiation, Renewable, NoRenewalRow
  <2>4. next \in Renewing
    BY <2>2, <2>3 DEF Renewing, RenewalStages, ListPrices, Cent
  <2>5. host' = [host EXCEPT ![g] = next]
    BY <2>1, <2>2 DEF TriggerNegotiation
  <2>6. host' \in [Hosts -> Renewing \cup {NotHosting}]
    BY <1>1, <2>4, <2>5
  <2>7. triggers' \in 0..MaxTriggers
    BY <1>1, <2>1, RenewalsAssumption DEF TriggerNegotiation
  <2>8. disputed' \subseteq Contracts
    BY <1>1, <2>1 DEF TriggerNegotiation
  <2> QED BY <1>1, <2>1, <2>6, <2>7, <2>8 DEF TriggerNegotiation, CalendarInv
<1>7. ASSUME NEW g \in Hosts, Claim(g) \/ Draft(g) \/ Revert(g) \/ SaveRenewal(g) \/ Conclude(g)
      PROVE  CalendarInv'
  <2>1. host[g].pc \in RenewalStages
    BY <1>7 DEF Claim, Draft, Revert, SaveRenewal, Conclude, RenewalStages
  <2>2. host[g] # NotHosting
    BY <2>1, HostBusy
  <2>3. UNCHANGED <<clock, triggers, disputed>>
    BY <1>7 DEF Claim, Draft, Revert, SaveRenewal, Conclude
  <2>4. host' \in [Hosts -> Renewing \cup {NotHosting}]
    <3>1. CASE Draft(g)
      <4>1. ASSUME NEW list \in Quotes \cup {host[g].row.price},
                   host' = [host EXCEPT ![g].pc = "save",
                               ![g].final = FinalOffer(RenewalTerms(host[g].row, list))]
            PROVE  host' \in [Hosts -> Renewing \cup {NotHosting}]
        <5>1. host[g].row \in PricedRow /\ list \in ListPrices
          BY <2>2, HostRow, RenewalsAssumption DEF PricedRow
        <5>2. FinalOffer(RenewalTerms(host[g].row, list)) \in ListPrices
          BY <5>1, RenewalRuns
        <5> QED BY <2>2, <4>1, <5>2, HostDrafted
      <4>2. CASE Goto(g, "revert")
        BY <2>2, <4>2, HostMoved DEF RenewalStages
      <4> QED BY <3>1, <4>1, <4>2 DEF Draft
    <3>2. CASE \E to \in RenewalStages : Goto(g, to)
      BY <2>2, <3>2, HostMoved
    <3>3. CASE Release(g)
      BY <3>3, HostReleased
    <3> QED BY <1>7, <3>1, <3>2, <3>3 DEF Claim, Revert, SaveRenewal, Conclude, RenewalStages
  <2>5. /\ contracts' \in [Contracts -> PricedRow \cup {NoRenewalRow}]
        /\ IsFiniteSet({c \in Contracts : contracts[c] # NoRenewalRow})'
    <3>1. CASE UNCHANGED contracts
      BY <1>1, <3>1
    <3>2. ASSUME NEW row \in PricedRow, UpdateContract(g, row)
          PROVE  /\ contracts' \in [Contracts -> PricedRow \cup {NoRenewalRow}]
                 /\ IsFiniteSet({c \in Contracts : contracts[c] # NoRenewalRow})'
      BY <2>2, <3>2, RowWritten, HostRow, RecordedFinite
    <3>3. /\ [host[g].row EXCEPT !.status = "negotiating"] \in PricedRow
          /\ [host[g].row EXCEPT !.status = "active"] \in PricedRow
          /\ RenewedRow(host[g].row, host[g].final) \in PricedRow
      BY <2>2, HostRow
    <3>4. \/ UNCHANGED contracts
          \/ UpdateContract(g, [host[g].row EXCEPT !.status = "negotiating"])
          \/ UpdateContract(g, [host[g].row EXCEPT !.status = "active"])
          \/ UpdateContract(g, RenewedRow(host[g].row, host[g].final))
      BY <1>7 DEF Claim, Draft, Revert, SaveRenewal, Conclude
    <3> QED BY <3>1, <3>2, <3>3, <3>4
  <2>6. renewalDeals' \subseteq Renewal /\ IsFiniteSet(renewalDeals')
    <3>1. CASE UNCHANGED renewalDeals
      BY <1>1, <3>1
    <3>2. CASE SaveRenewal(g) /\ ~UNCHANGED renewalDeals
      <4>1. PICK d : d = [contract |-> host[g].contract, from |-> host[g].row.price,
                          to |-> host[g].final, nr |-> Cardinality(renewalDeals) + 1]
        OBVIOUS
      <4>2. renewalDeals' = renewalDeals \cup {d}
        BY <3>2, <4>1 DEF SaveRenewal
      <4>3. d \in Renewal
        <5>1. Cardinality(renewalDeals) + 1 \in Nat
          BY <1>1, FS_CardinalityType
        <5>2. /\ host[g].contract \in Contracts /\ host[g].row.price \in Nat
              /\ host[g].final \in Nat
          BY <2>2, HostRow DEF PricedRow, ListPrices
        <5> QED BY <4>1, <5>1, <5>2 DEF Renewal
      <4> QED BY <1>1, <4>2, <4>3, FS_AddElement
    <3> QED BY <1>7, <3>1, <3>2 DEF Claim, Draft, Revert, Conclude
  <2> QED BY <1>1, <2>3, <2>4, <2>5, <2>6 DEF CalendarInv
<1> QED BY <1>2, <1>3, <1>4, <1>5, <1>6, <1>7 DEF RenewalNext

\* A step about another contract changes nothing at contract c.
LEMMA RenewalAtKept ==
    ASSUME CalendarInv, NEW c \in Contracts, RenewalAt(c),
           contracts'[c] = contracts[c],
           RenewalsOf(c)' = RenewalsOf(c),
           \A g \in Hosts : \/ host'[g] = host[g]
                            \/ host'[g].contract # c
    PROVE  RenewalAt(c)'
<1>1. OneHostAt(c)'
  BY DEF OneHostAt, RenewalAt
<1>2. ASSUME NEW g \in Hosts, host'[g].contract = c PROVE HostAt(g, c)'
  BY <1>2 DEF RenewalAt, HostAt
<1> QED BY <1>1, <1>2 DEF RenewalAt

\* The one goroutine at contract c takes a step.
LEMMA RenewalAtMoved ==
    ASSUME CalendarInv, NEW c \in Contracts, RenewalAt(c), NEW g \in Hosts,
           host[g].contract = c, host'[g].contract = c,
           \A f \in Hosts \ {g} : host'[f] = host[f],
           HostAt(g, c)', host'[g].pc \in RenewalStages,
           \A d, e \in RenewalsOf(c)' : d = e
    PROVE  RenewalAt(c)'
<1>1. OneHostAt(c)'
  BY DEF OneHostAt, RenewalAt
<1>2. \A f \in Hosts : host'[f].contract = c => f = g
  BY <1>1 DEF OneHostAt
<1> QED BY <1>1, <1>2 DEF RenewalAt, HostAt

\* The one goroutine at contract c gives it up.
LEMMA RenewalAtReleased ==
    ASSUME CalendarInv, NEW c \in Contracts, RenewalAt(c), NEW g \in Hosts,
           host[g].contract = c, Release(g),
           \A d, e \in RenewalsOf(c)' : d = e,
           (contracts[c].status \in {"absent", "active"} => RenewalsOf(c) = {})',
           (contracts[c].status = "renewed" =>
               \A d \in RenewalsOf(c) : contracts[c].price = d.to)'
    PROVE  RenewalAt(c)'
<1>1. host'[g] = NotHosting /\ \A f \in Hosts \ {g} : host'[f] = host[f]
  BY HostReleased
<1>2. NotHosting.contract # c
  BY RenewalsAssumption DEF NotHosting
<1>3. \A f \in Hosts : host'[f].contract # c
  BY <1>1, <1>2 DEF RenewalAt, OneHostAt
<1> QED BY <1>3 DEF RenewalAt, OneHostAt

\* Every step of the goroutine at contract c.
LEMMA CallAtContract ==
    ASSUME CalendarInv, NEW c \in Contracts, RenewalAt(c),
           NEW g \in Hosts, host[g].contract = c,
           Claim(g) \/ Draft(g) \/ Revert(g) \/ SaveRenewal(g) \/ Conclude(g)
    PROVE  RenewalAt(c)'
<1>1. host[g] # NotHosting
  BY HostBusy
<1>2. HostAt(g, c) /\ \A d, e \in RenewalsOf(c) : d = e
  BY DEF RenewalAt
<1>3. /\ \A status \in {"active", "negotiating", "renewed"} :
            /\ [host[g].row EXCEPT !.status = status] \in PricedRow
            /\ [host[g].row EXCEPT !.status = status].status = status
      /\ RenewedRow(host[g].row, host[g].final) \in PricedRow
      /\ RenewedRow(host[g].row, host[g].final).status = "renewed"
      /\ RenewedRow(host[g].row, host[g].final).price = host[g].final
  BY <1>1, HostRow
<1>4. \A d, e \in RenewalsOf(c)' : d = e
  <2>1. CASE UNCHANGED renewalDeals
    BY <1>2, <2>1 DEF RenewalsOf
  <2>2. CASE SaveRenewal(g)
    <3>1. RenewalsOf(c) = {}
      BY <1>2, <2>2 DEF HostAt, SaveRenewal
    <3>2. PICK d : d = [contract |-> host[g].contract, from |-> host[g].row.price,
                        to |-> host[g].final, nr |-> Cardinality(renewalDeals) + 1]
      OBVIOUS
    <3>3. renewalDeals' \subseteq renewalDeals \cup {d}
      BY <2>2, <3>2 DEF SaveRenewal
    <3> QED BY <3>1, <3>3 DEF RenewalsOf
  <2> QED BY <2>1, <2>2 DEF Claim, Draft, Revert, Conclude
<1>5. CASE Claim(g)
  <2>0. RenewalsOf(c)' = RenewalsOf(c) /\ RenewalsOf(c) = {}
    BY <1>2, <1>5 DEF Claim, RenewalsOf, HostAt
  <2>1. CASE Release(g)
    BY <1>4, <2>0, <2>1, RenewalAtReleased
  <2>2. CASE /\ UpdateContract(g, [host[g].row EXCEPT !.status = "negotiating"])
             /\ Goto(g, "draft")
    <3>1. contracts'[c].status = "negotiating"
      BY <1>1, <1>3, <2>2, RowWritten
    <3>2. host'[g].contract = c /\ host'[g].pc = "draft"
          /\ \A f \in Hosts \ {g} : host'[f] = host[f]
      BY <1>1, <2>2, HostMoved DEF RenewalStages
    <3>3. HostAt(g, c)'
      BY <2>0, <3>1, <3>2 DEF HostAt
    <3> QED BY <1>4, <3>2, <3>3, RenewalAtMoved DEF RenewalStages
  <2> QED BY <1>5, <2>1, <2>2 DEF Claim
<1>6. CASE Draft(g)
  <2>0. /\ RenewalsOf(c)' = RenewalsOf(c) /\ RenewalsOf(c) = {}
        /\ contracts' = contracts /\ contracts[c].status = "negotiating"
    BY <1>2, <1>6 DEF Draft, RenewalsOf, HostAt
  <2>1. /\ host'[g].contract = c /\ host'[g].pc \in {"save", "revert"}
        /\ \A f \in Hosts \ {g} : host'[f] = host[f]
    <3>1. CASE Goto(g, "revert")
      BY <1>1, <3>1, HostMoved DEF RenewalStages
    <3>2. ASSUME NEW list \in Quotes \cup {host[g].row.price},
                 host' = [host EXCEPT ![g].pc = "save",
                             ![g].final = FinalOffer(RenewalTerms(host[g].row, list))]
          PROVE  /\ host'[g].contract = c /\ host'[g].pc = "save"
                 /\ \A f \in Hosts \ {g} : host'[f] = host[f]
      <4>1. host[g].row \in PricedRow /\ list \in ListPrices
        BY <1>1, HostRow, RenewalsAssumption DEF PricedRow
      <4>2. FinalOffer(RenewalTerms(host[g].row, list)) \in ListPrices
        BY <4>1, RenewalRuns
      <4> QED BY <1>1, <3>2, <4>2, HostDrafted
    <3> QED BY <1>6, <3>1, <3>2 DEF Draft
  <2>2. HostAt(g, c)'
    BY <2>0, <2>1 DEF HostAt
  <2> QED BY <1>4, <2>1, <2>2, RenewalAtMoved DEF RenewalStages
<1>7. CASE Revert(g)
  <2>1. RenewalsOf(c)' = RenewalsOf(c) /\ RenewalsOf(c) = {}
    BY <1>2, <1>7 DEF Revert, RenewalsOf, HostAt
  <2> QED BY <1>4, <1>7, <2>1, RenewalAtReleased DEF Revert
<1>8. CASE SaveRenewal(g)
  <2>1. /\ contracts' = contracts /\ contracts[c].status = "negotiating"
        /\ RenewalsOf(c) = {}
    BY <1>2, <1>8 DEF SaveRenewal, HostAt
  <2>2. /\ host'[g].contract = c /\ host'[g].pc = "conclude"
        /\ host'[g].final = host[g].final
        /\ \A f \in Hosts \ {g} : host'[f] = host[f]
    BY <1>1, <1>8, HostMoved DEF SaveRenewal, RenewalStages
  <2>3. PICK d : d = [contract |-> host[g].contract, from |-> host[g].row.price,
                      to |-> host[g].final, nr |-> Cardinality(renewalDeals) + 1]
    OBVIOUS
  <2>4. d.to = host[g].final /\ renewalDeals' \subseteq renewalDeals \cup {d}
    BY <1>8, <2>3 DEF SaveRenewal
  <2>5. \A e \in RenewalsOf(c)' : e.to = host'[g].final
    BY <2>1, <2>2, <2>4 DEF RenewalsOf
  <2>6. HostAt(g, c)'
    BY <2>1, <2>2, <2>5 DEF HostAt
  <2> QED BY <1>4, <2>2, <2>6, RenewalAtMoved DEF RenewalStages
<1>9. CASE Conclude(g)
  <2>1. RenewalsOf(c)' = RenewalsOf(c) /\ contracts[c].status = "negotiating"
        /\ \A d \in RenewalsOf(c) : d.to = host[g].final
    BY <1>2, <1>9 DEF Conclude, RenewalsOf, HostAt
  <2>2. \/ contracts'[c].status = "negotiating"
        \/ contracts'[c].status = "renewed" /\ contracts'[c].price = host[g].final
    BY <1>1, <1>3, <1>9, <2>1, RowWritten DEF Conclude
  <2> QED BY <1>4, <1>9, <2>1, <2>2, RenewalAtReleased DEF Conclude
<1> QED BY <1>5, <1>6, <1>7, <1>8, <1>9

LEMMA NextRenewedInv ==
    ASSUME RenewalInv, [RenewalNext]_renewalVars
    PROVE  RenewedInv'
<1> SUFFICES ASSUME NEW c \in Contracts \ disputed' PROVE RenewalAt(c)'
  BY DEF RenewedInv
<1>1. CalendarInv /\ disputed \subseteq disputed'
  BY DEF RenewalInv, RenewalNext, renewalVars, handleAddContract, CreateContract, Wait,
     handleTriggerRenewal, TriggerNegotiation, Claim, Draft, Revert, SaveRenewal, Conclude,
     RenewalCrash
<1>2. RenewalAt(c)
  BY <1>1 DEF RenewalInv, RenewedInv
<1>3. CASE UNCHANGED <<contracts, renewalDeals, host>>
  BY <1>1, <1>2, <1>3, RenewalAtKept DEF RenewalsOf
<1>4. CASE handleAddContract
  <2>1. PICK d \in Contracts : \E row :
           /\ contracts[d] = NoRenewalRow /\ row.status = "active"
           /\ contracts' = [contracts EXCEPT ![d] = row]
           /\ UNCHANGED <<renewalDeals, host>>
    BY <1>4 DEF handleAddContract, CreateContract
  <2>0. PICK row :
           /\ contracts[d] = NoRenewalRow /\ row.status = "active"
           /\ contracts' = [contracts EXCEPT ![d] = row]
           /\ UNCHANGED <<renewalDeals, host>>
    BY <2>1
  <2>2. RenewalsOf(c)' = RenewalsOf(c)
    BY <2>0 DEF RenewalsOf
  <2>3. CASE d # c
    <3>1. contracts'[c] = contracts[c]
      BY <1>1, <2>1, <2>3 DEF CalendarInv
    <3> QED BY <1>1, <1>2, <2>1, <2>2, <3>1, RenewalAtKept
  <2>4. CASE d = c
    <3>1. contracts[c].status = "absent"
      BY <2>1, <2>4 DEF NoRenewalRow
    <3>2. \A g \in Hosts : host[g].contract # c
      BY <1>2, <3>1 DEF RenewalAt, HostAt
    <3>3. contracts'[c].status = "active" /\ RenewalsOf(c)' = {} /\ host' = host
      BY <1>1, <1>2, <2>1, <2>2, <2>4, <3>1 DEF RenewalAt, CalendarInv
    <3> QED BY <3>2, <3>3 DEF RenewalAt, OneHostAt
  <2> QED BY <2>3, <2>4
<1>5. CASE RenewalCrash
  <2>1. /\ contracts' = contracts /\ RenewalsOf(c)' = RenewalsOf(c)
        /\ \A g \in Hosts : host'[g].contract # c
    BY <1>5, RenewalsAssumption DEF RenewalCrash, RenewalsOf, NotHosting
  <2> QED BY <1>1, <1>2, <2>1, RenewalAtKept
<1>6. ASSUME NEW g \in Hosts, NEW d \in Contracts, TriggerNegotiation(g, d)
      PROVE  RenewalAt(c)'
  <2>1. PICK next : next = [pc |-> "claim", contract |-> d, row |-> contracts[d], final |-> 0]
    OBVIOUS
  <2>2. /\ host' = [host EXCEPT ![g] = next] /\ next.contract = d /\ next.pc = "claim"
        /\ host[g] = NotHosting /\ contracts[d].status = "active"
        /\ contracts' = contracts /\ renewalDeals' = renewalDeals
        /\ disputed' = disputed \cup ({host[f].contract : f \in Hosts} \cap {d})
    BY <1>6, <2>1 DEF TriggerNegotiation, Renewable
  <2>3. host'[g] = next /\ \A f \in Hosts \ {g} : host'[f] = host[f]
    BY <1>1, <2>2 DEF CalendarInv
  <2>4. RenewalsOf(c)' = RenewalsOf(c)
    BY <2>2 DEF RenewalsOf
  <2>5. CASE d # c
    BY <1>1, <1>2, <2>2, <2>3, <2>4, <2>5, RenewalAtKept
  <2>6. CASE d = c
    <3>1. \A f \in Hosts : host[f].contract # c
      BY <2>2, <2>6
    <3>2. \A f \in Hosts : host'[f].contract = c => f = g
      BY <2>3, <3>1
    <3>3. RenewalsOf(c)' = {} /\ contracts'[c].status = "active"
      BY <1>2, <2>2, <2>4, <2>6 DEF RenewalAt
    <3>4. HostAt(g, c)'
      BY <2>2, <2>3, <3>3 DEF HostAt
    <3> QED BY <3>2, <3>3, <3>4 DEF RenewalAt, OneHostAt
  <2> QED BY <2>5, <2>6
<1>7. ASSUME NEW g \in Hosts, Claim(g) \/ Draft(g) \/ Revert(g) \/ SaveRenewal(g) \/ Conclude(g)
      PROVE  RenewalAt(c)'
  <2>1. host[g].pc \in RenewalStages
    BY <1>7 DEF Claim, Draft, Revert, SaveRenewal, Conclude, RenewalStages
  <2>2. host[g] # NotHosting /\ host[g].contract \in Contracts
    BY <1>1, <2>1, HostBusy
  <2>3. CASE host[g].contract = c
    BY <1>1, <1>2, <1>7, <2>3, CallAtContract
  <2>4. CASE host[g].contract # c
    <3>1. contracts'[c] = contracts[c]
      BY <1>1, <1>7, <2>4 DEF Claim, Draft, Revert, SaveRenewal, Conclude, UpdateContract, CalendarInv
    <3>2. RenewalsOf(c)' = RenewalsOf(c)
      BY <1>7, <2>4 DEF Claim, Draft, Revert, SaveRenewal, Conclude, RenewalsOf
    <3>3. \A f \in Hosts \ {g} : host'[f] = host[f]
      BY <1>1, <1>7 DEF Claim, Draft, Revert, SaveRenewal, Conclude, Goto, Release, CalendarInv
    <3>4. host'[g].contract # c
      <4>1. CASE Release(g)
        BY <1>1, <4>1, HostReleased, RenewalsAssumption DEF NotHosting
      <4>2. CASE \E to \in RenewalStages : Goto(g, to)
        BY <1>1, <2>2, <2>4, <4>2, HostMoved
      <4>3. ASSUME NEW list, host' = [host EXCEPT ![g].pc = "save",
                                        ![g].final = FinalOffer(RenewalTerms(host[g].row, list))]
            PROVE  host'[g].contract = host[g].contract
        <5>1. PICK final : final = FinalOffer(RenewalTerms(host[g].row, list))
          OBVIOUS
        <5>2. host[g] \in Renewing /\ host \in [Hosts -> Renewing \cup {NotHosting}]
          BY <1>1, <2>2, HostBusy DEF CalendarInv
        <5>3. [host[g] EXCEPT !.pc = "save", !.final = final].contract = host[g].contract
          BY <5>2 DEF Renewing
        <5>4. host'[g] = [host[g] EXCEPT !.pc = "save", !.final = final]
          BY <4>3, <5>1, <5>2
        <5> QED BY <5>3, <5>4
      <4> QED
        BY <1>7, <2>4, <4>1, <4>2, <4>3 DEF Claim, Draft, Revert, SaveRenewal, Conclude, RenewalStages
    <3> QED BY <1>1, <1>2, <3>1, <3>2, <3>3, <3>4, RenewalAtKept
  <2> QED BY <2>3, <2>4
<1> QED
  BY <1>3, <1>4, <1>5, <1>6, <1>7 DEF RenewalNext, renewalVars, Wait, handleTriggerRenewal

LEMMA NextRenewalInv == RenewalInv /\ [RenewalNext]_renewalVars => RenewalInv'
BY NextCalendarInv, NextRenewedInv DEF RenewalInv

(***************************************************************************)
(* The table of contracts, the renewals and the calls keep their types:    *)
(* every price is a whole number of cents, those a renewal has negotiated  *)
(* included (TriggerNegotiation, calendar/engine.go).                      *)
(***************************************************************************)
THEOREM RenewalsTypeCorrect == RenewalSpec => []RenewalTypeOK
<1>1. CalendarInv => RenewalTypeOK
  <2> SUFFICES ASSUME CalendarInv PROVE RenewalTypeOK
    OBVIOUS
  <2>1. PricedRow \subseteq ContractRow
    BY DEF PricedRow, ContractRow, ListPrices
  <2>2. contracts \in [Contracts -> ContractRow \cup {NoRenewalRow}]
    BY <2>1 DEF CalendarInv
  <2>3. \A g \in Hosts : \/ host[g] = NotHosting
                         \/ /\ host[g].contract \in Contracts
                            /\ host[g].row \in ContractRow
    BY <2>1, HostRow
  <2> QED BY <2>2, <2>3 DEF CalendarInv, RenewalTypeOK
<1> QED BY <1>1, RenewalInitInv, NextRenewalInv, PTL DEF RenewalSpec, RenewalInv

(***************************************************************************)
(* A contract that no two renewals were at is renewed once, at the price   *)
(* its deal says, and an active one has no deal, wherever a renewal was    *)
(* interrupted and whichever of its writes failed (TriggerNegotiation,     *)
(* calendar/engine.go).                                                    *)
(***************************************************************************)
THEOREM RenewedOnceAlways == RenewalSpec => []RenewedOnce
<1>1. RenewalInv => RenewedOnce
  <2> SUFFICES ASSUME RenewalInv, NEW c \in Contracts \ disputed
               PROVE  /\ Cardinality(RenewalsOf(c)) <= 1
                      /\ contracts[c].status = "active" => RenewalsOf(c) = {}
                      /\ contracts[c].status = "renewed" =>
                            \A d \in RenewalsOf(c) : contracts[c].price = d.to
    BY DEF RenewedOnce
  <2>1. RenewalAt(c)
    BY DEF RenewalInv, RenewedInv
  <2>2. Cardinality(RenewalsOf(c)) <= 1
    BY <2>1, AtMostOne DEF RenewalAt
  <2> QED BY <2>1, <2>2 DEF RenewalAt
<1> QED BY <1>1, RenewalInitInv, NextRenewalInv, PTL DEF RenewalSpec

-----------------------------------------------------------------------------

\* What is due within 60 days has at most 59 of them left; the two counts of
\* days differ by one at most, in either direction.
LEMMA DaysAgree ==
    ASSUME CalendarInv, NEW c \in ExpiringSoon(60)
    PROVE  /\ DaysLeft(c) \in 0..59 /\ DaysUntil(c) \in Nat
           /\ DaysLeft(c) >= 30 => DaysUntil(c) >= 30
           /\ DaysLeft(c) < 7 => DaysUntil(c) < 14
<1>1. contracts[c].status = "active" /\ c \in Contracts
  BY DEF ExpiringSoon
<1>2. contracts[c] \in PricedRow
  BY <1>1 DEF CalendarInv, NoRenewalRow
<1>3. PICK due : due = contracts[c].due
  OBVIOUS
<1>4. due \in Nat /\ clock \in Nat
  BY <1>2, <1>3, RenewalsAssumption DEF PricedRow, CalendarInv
<1>5. PICK day, today : day = due \div 2 /\ today = clock \div 2
  OBVIOUS
<1>6. /\ day \in Nat /\ 2 * day <= due /\ due <= 2 * day + 1
      /\ today \in Nat /\ 2 * today <= clock /\ clock <= 2 * today + 1
  BY <1>4, <1>5
<1>7. today <= day /\ day < today + 60
  BY <1>3, <1>5 DEF ExpiringSoon, DayOf
<1>8. DaysLeft(c) = IF 2 * day <= clock THEN 0 ELSE (2 * day - clock) \div 2
  BY <1>3, <1>5 DEF DaysLeft, DayOf
<1>9. DaysUntil(c) = IF due <= clock THEN 0 ELSE (due - clock + 1) \div 2
  BY <1>3 DEF DaysUntil
<1>10. PICK left, until : left = DaysLeft(c) /\ until = DaysUntil(c)
  OBVIOUS
<1>11. left \in Nat /\ left <= 59 /\ until \in Nat
  BY <1>4, <1>6, <1>7, <1>8, <1>9, <1>10
<1>12. left >= 30 => until >= 30
  BY <1>4, <1>6, <1>8, <1>9, <1>10
<1>13. left < 7 => until < 14
  BY <1>4, <1>6, <1>8, <1>9, <1>10
<1> QED BY <1>10, <1>11, <1>12, <1>13

(***************************************************************************)
(* The two reports of what is due agree for any contracts at any time: the *)
(* buckets of the reminders share out what the calendar lists, what is     *)
(* urgent in one is critical or soon in the other, and what is critical is *)
(* urgent (calendar/engine.go, reminders/engine.go).                       *)
(***************************************************************************)
THEOREM RemindersAgreeAlways == RenewalSpec => []RemindersAgree
<1>1. CalendarInv => RemindersAgree
  <2> SUFFICES ASSUME CalendarInv PROVE RemindersAgree
    OBVIOUS
  <2>1. PICK due : due = ExpiringSoon(60)
    OBVIOUS
  <2>2. PICK r : r = Reminders
    OBVIOUS
  <2>3. /\ r.critical = {c \in due : DaysLeft(c) < 7}
        /\ r.soon = {c \in due : DaysLeft(c) \in 7..29}
        /\ r.upcoming = {c \in due : DaysLeft(c) \in 30..59}
    BY <2>1, <2>2 DEF Reminders
  <2>4. \A c \in due : /\ DaysLeft(c) \in 0..59 /\ DaysUntil(c) \in Nat
                       /\ DaysLeft(c) >= 30 => DaysUntil(c) >= 30
                       /\ DaysLeft(c) < 7 => DaysUntil(c) < 14
    BY <2>1, DaysAgree
  <2>5. r.critical \cup r.soon \cup r.upcoming = due
    BY <2>3, <2>4
  <2>6. ListContracts("active", 60) = due
    <3>1. \A c \in Contracts :
             contracts[c] # NoRenewalRow /\ "active" \in {"", contracts[c].status}
                <=> contracts[c].status = "active"
      BY DEF NoRenewalRow
    <3> QED BY <2>1, <3>1 DEF ListContracts, ExpiringSoon
  <2>7. IsFiniteSet(due)
    <3>1. due \subseteq {c \in Contracts : contracts[c] # NoRenewalRow}
      BY <2>1 DEF ExpiringSoon, NoRenewalRow
    <3> QED BY <3>1, FS_Subset DEF CalendarInv
  <2>8. handleCheckRenewalReminders.total = handleListContracts("active", 60).count
    <3>1. IsFiniteSet(r.critical) /\ IsFiniteSet(r.soon) /\ IsFiniteSet(r.upcoming)
      BY <2>3, <2>7, FS_Subset
    <3>2. r.critical \cap r.soon = {} /\ (r.critical \cup r.soon) \cap r.upcoming = {}
      BY <2>3, <2>4
    <3>3. Cardinality(r.critical) + Cardinality(r.soon) + Cardinality(r.upcoming)
             = Cardinality(due)
      BY <2>5, <3>1, <3>2, DisjointParts
    <3> QED BY <2>2, <2>6, <3>3 DEF handleCheckRenewalReminders, handleListContracts
  <2>9. handleCheckRenewals(60).alerts = {a \in CheckRenewals(60) : a.urgency = "high"}
    BY DEF handleCheckRenewals
  <2>10. ASSUME NEW a \in CheckRenewals(60), a.urgency = "high"
         PROVE  a.contract \notin r.upcoming
    <3>1. PICK c \in due : a = [contract |-> c, days |-> DaysUntil(c), urgency |-> Urgency(c),
                                action |-> ActionNeeded(c)]
      BY <2>1 DEF CheckRenewals
    <3>2. a.contract = c /\ Urgency(c) = "high"
      BY <2>10, <3>1
    <3>3. DaysUntil(c) < 30
      BY <3>2 DEF Urgency
    <3>4. ~(DaysLeft(c) >= 30)
      <4>1. DaysLeft(c) >= 30 => DaysUntil(c) >= 30
        BY <2>4
      <4>2. DaysUntil(c) \in Nat /\ DaysLeft(c) \in Nat
        BY <2>4
      <4> QED BY <3>3, <4>1, <4>2
    <3> QED BY <2>3, <3>2, <3>4
  <2>11. ASSUME NEW c \in r.critical
         PROVE  \E a \in CheckRenewals(60) :
                   a.urgency = "high" /\ a.contract = c /\ a.action = "urgent"
    <3>1. c \in due /\ DaysUntil(c) < 14 /\ DaysUntil(c) \in Nat
      BY <2>3, <2>4
    <3>a. PICK days : days = DaysUntil(c)
      OBVIOUS
    <3>b. days < 14 /\ days < 30
      BY <3>1, <3>a
    <3>2. Urgency(c) = "high" /\ ActionNeeded(c) = "urgent"
      BY <3>a, <3>b DEF Urgency, ActionNeeded
    <3>3. PICK a : a = [contract |-> c, days |-> DaysUntil(c), urgency |-> Urgency(c),
                        action |-> ActionNeeded(c)]
      OBVIOUS
    <3>4. a \in CheckRenewals(60)
      BY <2>1, <3>1, <3>3 DEF CheckRenewals
    <3> QED BY <3>2, <3>3, <3>4
  <2> QED BY <2>2, <2>5, <2>6, <2>8, <2>9, <2>10, <2>11 DEF RemindersAgree
<1> QED BY <1>1, RenewalInitInv, NextRenewalInv, PTL DEF RenewalSpec, RenewalInv

-----------------------------------------------------------------------------
(* The strategy market: every vote counts, and every import.               *)

Vote == [nr : Nat, id : Nat, stars : Stars]

StarsGiven == [r \in accepted |-> r.stars]

\* The row of a strategy has the votes for it.
Rated(id) ==
    /\ published[id].count = Cardinality(RatingsOf(id))
    /\ published[id].total = SumOver(StarsGiven, RatingsOf(id))

Tx == [pc : {"fetched", "updated"}, id : Nat, stars : Stars, total : Int, count : Nat]

\* A transaction has read the row as it still is, and has added its vote or
\* not yet.
TxRuns(tx) ==
    /\ tx \in Tx /\ tx.id \in DOMAIN published
    /\ tx.pc = "fetched" => /\ tx.total = published[tx.id].total
                            /\ tx.count = published[tx.id].count
    /\ tx.pc = "updated" => /\ tx.total = published[tx.id].total + tx.stars
                            /\ tx.count = published[tx.id].count + 1

VotesInv ==
    /\ published \in Seq(MarketRow) /\ Len(published) <= MaxPublished
    /\ accepted \subseteq Vote /\ IsFiniteSet(accepted)
    /\ \A r \in accepted : r.nr <= Cardinality(accepted) /\ r.id \in DOMAIN published
    /\ \A id \in DOMAIN published : Rated(id)
    /\ DOMAIN rater = Raters
    /\ \A g \in Raters : rater[g] = NoTx \/ TxRuns(rater[g])

ImportRow == [nr : Nat, id : Shared, reply : Nat]

\* The usage of a shared strategy is the number of its imports; what a call
\* has read is no more, and so its reply is not either.
SharingInv ==
    /\ shared \in [Shared -> Nat \cup {NotShared}]
    /\ imported \subseteq ImportRow /\ IsFiniteSet(imported)
    /\ \A r \in imported : /\ r.nr <= Cardinality(imported) /\ r.id \in ListShared
                           /\ r.reply \in 1..shared[r.id]
    /\ \A s \in ListShared : shared[s] = Cardinality(ImportsOf(s))
    /\ DOMAIN importer = Raters
    /\ \A g \in Raters : importer[g] # NotImporting =>
          /\ importer[g].pc = "read" /\ importer[g].id \in ListShared
          /\ importer[g].usage \in Nat /\ importer[g].usage <= shared[importer[g].id]

StratInv == VotesInv /\ SharingInv

LEMMA StrategyInitInv == StrategyInit => StratInv
<1> SUFFICES ASSUME StrategyInit PROVE StratInv
  OBVIOUS
<1>1. IsFiniteSet({}) /\ published = <<>> /\ DOMAIN published = {} /\ Len(published) = 0
  BY FS_EmptySet DEF StrategyInit
<1>2. VotesInv
  BY <1>1, StrategyMarketAssumption DEF StrategyInit, VotesInv
<1>3. ListShared = {}
  BY DEF StrategyInit, ListShared
<1>4. SharingInv
  BY <1>1, <1>3 DEF StrategyInit, SharingInv
<1> QED BY <1>2, <1>4 DEF StratInv

\* One member more counts one more.
LEMMA OneMore ==
    ASSUME NEW S, IsFiniteSet(S), NEW x, x \notin S
    PROVE  /\ IsFiniteSet(S \cup {x}) /\ Cardinality(S) \in Nat
           /\ Cardinality(S \cup {x}) = Cardinality(S) + 1
BY FS_AddElement, FS_CardinalityType

\* The votes counted stay what they are while another strategy is rated.
LEMMA SameVotes ==
    ASSUME VotesInv, accepted \subseteq accepted', NEW id
    PROVE  SumOver(StarsGiven', RatingsOf(id)) = SumOver(StarsGiven, RatingsOf(id))
<1>1. PICK given, later, votes : given = StarsGiven /\ later = StarsGiven' /\ votes = RatingsOf(id)
  OBVIOUS
<1>2. IsFiniteSet(votes)
  BY <1>1, FS_Subset DEF VotesInv, RatingsOf
<1>3. \A r \in votes : given[r] \in Int /\ given[r] = later[r]
  BY <1>1, StrategyMarketAssumption DEF VotesInv, RatingsOf, StarsGiven, Vote
<1>4. SumOver(given, votes) = SumOver(later, votes)
  BY <1>2, <1>3, SumSame
<1> QED BY <1>1, <1>4

\* A transaction goes on, or ends, without writing the table.
LEMMA RaterMoves ==
    ASSUME VotesInv, NEW g \in Raters, NEW tx, rater' = [rater EXCEPT ![g] = tx],
           UNCHANGED <<published, accepted>>, tx = NoTx \/ TxRuns(tx)
    PROVE  VotesInv'
<1>1. DOMAIN rater' = Raters /\ rater'[g] = tx /\ \A h \in Raters \ {g} : rater'[h] = rater[h]
  BY DEF VotesInv
<1>2. \A t : TxRuns(t)' <=> TxRuns(t)
  BY DEF TxRuns
<1>3. \A h \in Raters : rater'[h] = NoTx \/ TxRuns(rater'[h])
  BY <1>1 DEF VotesInv
<1>4. \A h \in Raters : rater'[h] = NoTx \/ TxRuns(rater[h])'
  BY <1>2, <1>3
<1>5. \A id \in DOMAIN published' : Rated(id)'
  BY DEF VotesInv, Rated, RatingsOf, StarsGiven
<1> QED BY <1>1, <1>4, <1>5 DEF VotesInv

LEMMA PublishInv ==
    ASSUME VotesInv, NEW category \in Categories, PublishStrategy(category)
    PROVE  VotesInv'
<1>1. PICK n \in Nat : n = Len(published) /\ DOMAIN published = 1..n
  BY DEF VotesInv
<1>2. PICK row : row = [category |-> category, total |-> 0, count |-> 0]
  OBVIOUS
<1>3. row \in MarketRow /\ row.total = 0 /\ row.count = 0
  BY <1>2 DEF MarketRow
<1>4. published' = Append(published, row) /\ UNCHANGED <<rater, accepted>>
  BY <1>2 DEF PublishStrategy
<1>5. PICK table \in Seq(MarketRow) : table = published
  BY DEF VotesInv
<1>6. /\ published' \in Seq(MarketRow) /\ Len(published') = n + 1
      /\ DOMAIN published' = 1..(n + 1) /\ published'[n + 1] = row
      /\ \A id \in 1..n : published'[id] = published[id]
  BY <1>1, <1>3, <1>4, <1>5
<1>7. Len(published') <= MaxPublished
  BY <1>1, <1>6, StrategyMarketAssumption DEF PublishStrategy
<1>8. \A g \in Raters : rater[g] = NoTx
  BY DEF PublishStrategy, Reads, VotesInv, TxRuns, Tx
<1>9. \A id \in 1..n : Rated(id)'
  BY ZenonT(40), <1>1, <1>4, <1>6 DEF VotesInv, Rated, RatingsOf, StarsGiven
<1>10. Rated(n + 1)'
  <2>1. RatingsOf(n + 1)' = {}
    BY <1>1, <1>4 DEF RatingsOf, VotesInv
  <2> QED BY <1>3, <1>6, <2>1, SumEmpty, FS_EmptySet DEF Rated
<1>11. \A id \in DOMAIN published' : Rated(id)'
  <2>1. ASSUME NEW id \in DOMAIN published' PROVE Rated(id)'
    BY <1>6, <1>9, <1>10, <2>1
  <2> QED BY <2>1
<1>12. \A r \in accepted : r.id \in DOMAIN published'
  BY <1>1, <1>6 DEF VotesInv
<1> QED BY <1>4, <1>6, <1>7, <1>8, <1>11, <1>12 DEF VotesInv

LEMMA CommitInv ==
    ASSUME VotesInv, NEW g \in Raters, CommitRating(g) PROVE VotesInv'
<1>1. PICK tx \in Tx : /\ tx = rater[g] /\ TxRuns(tx) /\ tx.pc = "updated"
  BY DEF CommitRating, VotesInv, TxRuns, NoTx
<1>2. PICK id \in Nat : id = tx.id /\ id \in DOMAIN published
  BY <1>1 DEF TxRuns, Tx
<1>3. PICK old \in MarketRow : old = published[id]
  BY <1>2, OneOf DEF VotesInv
<1>4. PICK row : row = [old EXCEPT !.total = tx.total, !.count = tx.count]
  OBVIOUS
<1>5. /\ row \in MarketRow /\ row.total = old.total + tx.stars /\ row.count = old.count + 1
      /\ tx.stars \in Int
  BY <1>1, <1>2, <1>3, <1>4, StrategyMarketAssumption DEF TxRuns, Tx, MarketRow
<1>6. published' = [published EXCEPT ![id].total = tx.total, ![id].count = tx.count]
  BY <1>1, <1>2 DEF CommitRating
<1>7. PICK table \in Seq(MarketRow) : table = published
  BY DEF VotesInv
<1>8. published' = [table EXCEPT ![id] = row]
  BY <1>2, <1>3, <1>4, <1>6, <1>7
<1>9. /\ published' \in Seq(MarketRow) /\ Len(published') = Len(published)
      /\ DOMAIN published' = DOMAIN published /\ published'[id] = row
      /\ \A other \in DOMAIN published \ {id} : published'[other] = published[other]
  BY <1>2, <1>5, <1>7, <1>8
<1>10. PICK vote : vote = [nr |-> Cardinality(accepted) + 1, id |-> id, stars |-> tx.stars]
  OBVIOUS
<1>11. Cardinality(accepted) \in Nat
  BY FS_CardinalityType DEF VotesInv
<1>12. /\ vote \in Vote /\ vote.id = id /\ vote.stars = tx.stars
       /\ vote.nr = Cardinality(accepted) + 1
  BY <1>1, <1>10, <1>11 DEF Vote, Tx
<1>13. vote \notin accepted
  BY <1>11, <1>12 DEF VotesInv, Vote
<1>14. accepted' = accepted \cup {vote} /\ rater' = [rater EXCEPT ![g] = NoTx]
  BY <1>1, <1>2, <1>10 DEF CommitRating, Rollback
<1>15. IsFiniteSet(accepted') /\ Cardinality(accepted') = Cardinality(accepted) + 1
  BY <1>13, <1>14, OneMore DEF VotesInv
<1>16. \A r \in accepted' : r.nr <= Cardinality(accepted') /\ r.id \in DOMAIN published'
  BY <1>2, <1>9, <1>11, <1>12, <1>14, <1>15 DEF VotesInv, Vote
<1>17. accepted' \subseteq Vote
  BY <1>12, <1>14 DEF VotesInv
<1>18. RatingsOf(id)' = RatingsOf(id) \cup {vote} /\ vote \notin RatingsOf(id)
  BY <1>12, <1>13, <1>14 DEF RatingsOf
<1>19. IsFiniteSet(RatingsOf(id))
  BY FS_Subset DEF RatingsOf, VotesInv
<1>20. Rated(id)'
  <2>1. Rated(id)
    BY <1>2 DEF VotesInv
  <2>2. Cardinality(RatingsOf(id)') = Cardinality(RatingsOf(id)) + 1
    BY <1>18, <1>19, OneMore
  <2>3. PICK later, votes : later = StarsGiven' /\ votes = RatingsOf(id)
    OBVIOUS
  <2>4. \A r \in votes \cup {vote} : later[r] \in Int
    BY <1>14, <1>17, <2>3, StrategyMarketAssumption DEF StarsGiven, RatingsOf, Vote
  <2>5. later[vote] = tx.stars
    BY <1>12, <1>14, <2>3 DEF StarsGiven
  <2>6. SumOver(later, votes \cup {vote}) = SumOver(later, votes) + later[vote]
    <3>1. IsFiniteSet(votes) /\ vote \notin votes
      BY <1>18, <1>19, <2>3
    <3> QED BY <2>4, <3>1, SumMore
  <2>7. SumOver(StarsGiven', RatingsOf(id)) = SumOver(StarsGiven, RatingsOf(id))
    BY <1>14, SameVotes
  <2>8. SumOver(StarsGiven', RatingsOf(id)') = SumOver(StarsGiven, RatingsOf(id)) + tx.stars
    BY <1>18, <2>3, <2>5, <2>6, <2>7
  <2> QED BY <1>3, <1>5, <1>9, <2>1, <2>2, <2>8 DEF Rated
<1>21. ASSUME NEW other \in DOMAIN published', other # id PROVE Rated(other)'
  <2>1. Rated(other) /\ published'[other] = published[other]
    BY <1>9, <1>21 DEF VotesInv
  <2>2. RatingsOf(other)' = RatingsOf(other)
    BY <1>12, <1>14, <1>21 DEF RatingsOf
  <2>3. SumOver(StarsGiven', RatingsOf(other)) = SumOver(StarsGiven, RatingsOf(other))
    BY <1>14, SameVotes
  <2> QED BY <2>1, <2>2, <2>3 DEF Rated
<1>22. \A h \in Raters \ {g} : rater[h] = NoTx
  BY DEF CommitRating, CanCommit, Reads, VotesInv, TxRuns, Tx
<1>23. DOMAIN rater' = Raters /\ \A h \in Raters : rater'[h] = NoTx
  BY <1>14, <1>22 DEF VotesInv
<1>24. \A other \in DOMAIN published' : Rated(other)'
  BY <1>20, <1>21
<1>25. Len(published') <= MaxPublished
  BY <1>9 DEF VotesInv
<1> QED BY <1>9, <1>15, <1>16, <1>17, <1>23, <1>24, <1>25 DEF VotesInv

LEMMA NextVotesInv == VotesInv /\ [StrategyNext]_stratVars => VotesInv'
<1> SUFFICES ASSUME VotesInv, [StrategyNext]_stratVars PROVE VotesInv'
  OBVIOUS
<1>1. CASE UNCHANGED <<published, accepted, rater>>
  BY <1>1 DEF VotesInv, Rated, RatingsOf, StarsGiven, TxRuns
<1>2. ASSUME NEW g \in Raters, NEW id \in 1..MaxPublished, NEW stars \in Stars,
             handleRateStrategy(g, id, stars)
      PROVE  VotesInv'
  <2>1. id \in DOMAIN published /\ id \in Nat
    BY <1>2, StrategyMarketAssumption DEF handleRateStrategy, Import
  <2>2. PICK row \in MarketRow : row = published[id]
    BY <2>1, OneOf DEF VotesInv
  <2>3. PICK tx : tx = [pc |-> "fetched", id |-> id, stars |-> stars,
                        total |-> row.total, count |-> row.count]
    OBVIOUS
  <2>4. tx \in Tx /\ TxRuns(tx)
    BY <2>1, <2>2, <2>3 DEF MarketRow, Tx, TxRuns
  <2>5. rater' = [rater EXCEPT ![g] = tx] /\ UNCHANGED <<published, accepted>>
    BY <1>2, <2>2, <2>3 DEF handleRateStrategy, Fetch
  <2> QED BY <2>4, <2>5, RaterMoves
<1>3. ASSUME NEW g \in Raters, UpdateRating(g) PROVE VotesInv'
  <2>1. UNCHANGED <<published, accepted>>
    BY <1>3 DEF UpdateRating
  <2>2. CASE Rollback(g)
    <3>1. rater' = [rater EXCEPT ![g] = NoTx]
      BY <2>2 DEF Rollback
    <3> QED BY <2>1, <3>1, RaterMoves
  <2>3. CASE ~ Rollback(g)
    <3>1. PICK tx \in Tx : tx = rater[g] /\ TxRuns(tx) /\ tx.pc = "fetched"
      BY <1>3 DEF UpdateRating, VotesInv, TxRuns, NoTx, Tx
    <3>2. PICK next : next = [tx EXCEPT !.pc = "updated", !.total = tx.total + tx.stars,
                                        !.count = tx.count + 1]
      OBVIOUS
    <3>3. tx.stars \in Int
      BY StrategyMarketAssumption DEF Tx
    <3>4. /\ next \in Tx /\ next.pc = "updated" /\ next.id = tx.id /\ next.stars = tx.stars
          /\ next.total = tx.total + tx.stars /\ next.count = tx.count + 1
      <4>1. tx.total + tx.stars \in Int /\ tx.count + 1 \in Nat
        BY <3>3 DEF Tx
      <4>2. next = [pc |-> "updated", id |-> tx.id, stars |-> tx.stars,
                    total |-> tx.total + tx.stars, count |-> tx.count + 1]
        BY <3>2 DEF Tx
      <4>3. next \in Tx
        BY <4>1, <4>2 DEF Tx
      <4> QED BY <4>2, <4>3
    <3>5. rater' = [rater EXCEPT ![g].pc = "updated", ![g].total = @ + rater[g].stars,
                                 ![g].count = @ + 1]
      BY <1>3, <2>3 DEF UpdateRating
    <3>6. rater' = [rater EXCEPT ![g] = next]
      BY <3>1, <3>2, <3>5 DEF VotesInv, Tx
    <3>7. TxRuns(next)
      BY <3>1, <3>4 DEF TxRuns
    <3> QED BY <2>1, <3>6, <3>7, RaterMoves
  <2> QED BY <2>2, <2>3
<1>4. ASSUME NEW g \in Raters, RatingFails(g) PROVE VotesInv'
  BY <1>4, RaterMoves DEF RatingFails, Rollback
<1>5. ASSUME NEW g \in Raters, NEW s \in Shared,
             ShareStrategy(s) \/ handleImportStrategy(g, s) \/ ImportStrategy(g)
      PROVE  UNCHANGED <<published, accepted, rater>>
  BY <1>5 DEF ShareStrategy, handleImportStrategy, ImportStrategy
<1>6. ASSUME NEW s \in Shared, ShareStrategy(s) PROVE UNCHANGED <<published, accepted, rater>>
  BY <1>6 DEF ShareStrategy
<1>7. ASSUME NEW g \in Raters, ImportStrategy(g) PROVE UNCHANGED <<published, accepted, rater>>
  BY <1>7 DEF ImportStrategy
<1>8. UNCHANGED stratVars => UNCHANGED <<published, accepted, rater>>
  BY DEF stratVars
<1> QED
  BY <1>1, <1>2, <1>3, <1>4, <1>5, <1>6, <1>7, <1>8, PublishInv, CommitInv
     DEF StrategyNext, handlePublishStrategy, RateStrategy

\* A call begins to import, or ends without doing so.
LEMMA ImporterMoves ==
    ASSUME SharingInv, NEW g \in Raters, NEW task, importer' = [importer EXCEPT ![g] = task],
           UNCHANGED <<shared, imported>>,
           task # NotImporting =>
              /\ task.pc = "read" /\ task.id \in ListShared
              /\ task.usage \in Nat /\ task.usage <= shared[task.id]
    PROVE  SharingInv'
<1>1. /\ DOMAIN importer' = Raters /\ importer'[g] = task
      /\ \A h \in Raters \ {g} : importer'[h] = importer[h]
  BY DEF SharingInv
<1>2. ASSUME NEW h \in Raters, importer'[h] # NotImporting
      PROVE  /\ importer'[h].pc = "read" /\ importer'[h].id \in ListShared'
             /\ importer'[h].usage \in Nat /\ importer'[h].usage <= shared'[importer'[h].id]
  <2>1. ListShared' = ListShared /\ shared' = shared
    BY DEF ListShared
  <2>2. CASE h = g
    BY <1>1, <1>2, <2>1, <2>2
  <2>3. CASE h # g
    <3>1. importer'[h] = importer[h]
      BY <1>1, <2>3
    <3> QED BY <1>2, <2>1, <3>1 DEF SharingInv
  <2> QED BY <2>2, <2>3
<1> QED BY <1>1, <1>2 DEF SharingInv, ListShared, ImportsOf

LEMMA ShareInv ==
    ASSUME SharingInv, NEW s \in Shared, ShareStrategy(s) PROVE SharingInv'
<1>1. /\ shared' = [shared EXCEPT ![s] = 0] /\ UNCHANGED <<importer, imported>>
      /\ s \notin ListShared /\ 0 # NotShared
  BY DEF ShareStrategy, ListShared, NotShared
<1>2. /\ shared' \in [Shared -> Nat \cup {NotShared}] /\ shared'[s] = 0
      /\ ListShared' = ListShared \cup {s}
      /\ \A t \in ListShared : shared'[t] = shared[t]
  BY <1>1 DEF SharingInv, ListShared
<1>3. ImportsOf(s)' = {} /\ \A t \in Shared : ImportsOf(t)' = ImportsOf(t)
  BY <1>1 DEF SharingInv, ImportsOf
<1>4. \A t \in ListShared' : shared'[t] = Cardinality(ImportsOf(t)')
  <2>1. ASSUME NEW t \in ListShared' PROVE shared'[t] = Cardinality(ImportsOf(t)')
    <3>1. CASE t = s
      BY <1>2, <1>3, <3>1, FS_EmptySet
    <3>2. CASE t # s
      <4>1. t \in ListShared /\ t \in Shared
        BY <1>2, <3>2 DEF ListShared
      <4> QED BY <1>2, <1>3, <4>1 DEF SharingInv
    <3> QED BY <3>1, <3>2
  <2> QED BY <2>1
<1>5. \A r \in imported' : /\ r.nr <= Cardinality(imported') /\ r.id \in ListShared'
                           /\ r.reply \in 1..shared'[r.id]
  BY <1>1, <1>2 DEF SharingInv
<1>6. \A g \in Raters : importer'[g] # NotImporting =>
         /\ importer'[g].pc = "read" /\ importer'[g].id \in ListShared'
         /\ importer'[g].usage \in Nat /\ importer'[g].usage <= shared'[importer'[g].id]
  BY <1>1, <1>2 DEF SharingInv
<1> QED BY <1>1, <1>2, <1>4, <1>5, <1>6 DEF SharingInv

LEMMA ImportInv ==
    ASSUME SharingInv, NEW g \in Raters, ImportStrategy(g), shared' # shared
    PROVE  SharingInv'
<1>1. importer[g] # NotImporting
  BY DEF ImportStrategy, NotImporting
<1>2. PICK s \in ListShared, n \in Nat : s = importer[g].id /\ n = importer[g].usage /\ n <= shared[s]
  BY <1>1 DEF SharingInv
<1>3. s \in Shared /\ shared[s] \in Nat
  BY <1>2 DEF SharingInv, ListShared
<1>4. PICK row : row = [nr |-> Cardinality(imported) + 1, id |-> s, reply |-> n + 1]
  OBVIOUS
<1>5. Cardinality(imported) \in Nat /\ Cardinality(ImportsOf(s)) \in Nat /\ IsFiniteSet(ImportsOf(s))
  BY FS_CardinalityType, FS_Subset DEF SharingInv, ImportsOf
<1>6. /\ row \in ImportRow /\ row.id = s /\ row.reply = n + 1
      /\ row.nr = Cardinality(imported) + 1
  BY <1>3, <1>4, <1>5 DEF ImportRow
<1>7. shared' = [shared EXCEPT ![s] = shared[s] + 1] /\ imported' = imported \cup {row}
  BY <1>2, <1>4 DEF ImportStrategy, IncrementUsage
<1>8. row \notin imported
  BY <1>5, <1>6 DEF SharingInv, ImportRow
<1>9. IsFiniteSet(imported') /\ Cardinality(imported') = Cardinality(imported) + 1
  BY <1>7, <1>8, OneMore DEF SharingInv
<1>10. /\ shared' \in [Shared -> Nat \cup {NotShared}] /\ shared'[s] = shared[s] + 1
       /\ \A t \in Shared \ {s} : shared'[t] = shared[t]
  BY <1>3, <1>7 DEF SharingInv
<1>11. ListShared' = ListShared
  BY <1>2, <1>3, <1>10 DEF ListShared, NotShared
<1>12. \A t \in ListShared : t \in Shared /\ shared[t] \in Nat /\ shared'[t] \in Nat
                               /\ shared[t] <= shared'[t]
  BY <1>3, <1>10 DEF ListShared, SharingInv
<1>13. ASSUME NEW r \in imported'
       PROVE  /\ r.nr <= Cardinality(imported') /\ r.id \in ListShared'
              /\ r.reply \in 1..shared'[r.id]
  <2>1. CASE r = row
    BY <1>2, <1>3, <1>5, <1>6, <1>9, <1>10, <1>11, <2>1
  <2>2. CASE r # row
    <3>1. r \in ImportRow /\ r.nr <= Cardinality(imported) /\ r.id \in ListShared
          /\ r.reply \in 1..shared[r.id]
      BY <1>7, <2>2 DEF SharingInv
    <3>2. r.nr \in Nat /\ r.reply \in Nat
      BY <3>1 DEF ImportRow
    <3> QED BY <1>5, <1>9, <1>11, <1>12, <3>1, <3>2
  <2> QED BY <2>1, <2>2
<1>14. ASSUME NEW t \in ListShared' PROVE shared'[t] = Cardinality(ImportsOf(t)')
  <2>1. CASE t = s
    <3>1. ImportsOf(s)' = ImportsOf(s) \cup {row} /\ row \notin ImportsOf(s)
      BY <1>6, <1>7, <1>8 DEF ImportsOf
    <3>2. Cardinality(ImportsOf(s)') = Cardinality(ImportsOf(s)) + 1
      BY <1>5, <3>1, OneMore
    <3>3. shared[s] = Cardinality(ImportsOf(s))
      BY <1>2 DEF SharingInv
    <3> QED BY <1>10, <2>1, <3>2, <3>3
  <2>2. CASE t # s
    <3>1. ImportsOf(t)' = ImportsOf(t)
      BY <1>6, <1>7, <2>2 DEF ImportsOf
    <3>2. t \in ListShared /\ shared'[t] = shared[t]
      BY <1>10, <1>11, <1>12, <2>2
    <3> QED BY <3>1, <3>2 DEF SharingInv
  <2> QED BY <2>1, <2>2
<1>15. /\ DOMAIN importer' = Raters /\ importer'[g] = NotImporting
       /\ \A h \in Raters \ {g} : importer'[h] = importer[h]
  BY DEF ImportStrategy, SharingInv
<1>16. ASSUME NEW h \in Raters, importer'[h] # NotImporting
       PROVE  /\ importer'[h].pc = "read" /\ importer'[h].id \in ListShared'
              /\ importer'[h].usage \in Nat /\ importer'[h].usage <= shared'[importer'[h].id]
  <2>1. importer'[h] = importer[h]
    BY <1>15, <1>16
  <2>2. /\ importer[h].pc = "read" /\ importer[h].id \in ListShared
        /\ importer[h].usage \in Nat /\ importer[h].usage <= shared[importer[h].id]
    BY <1>16, <2>1 DEF SharingInv
  <2> QED BY <1>11, <1>12, <2>1, <2>2
<1>17. imported' \subseteq ImportRow
  BY <1>6, <1>7 DEF SharingInv
<1> QED BY <1>9, <1>10, <1>13, <1>14, <1>15, <1>16, <1>17 DEF SharingInv

LEMMA NextSharingInv == SharingInv /\ [StrategyNext]_stratVars => SharingInv'
<1> SUFFICES ASSUME SharingInv, [StrategyNext]_stratVars PROVE SharingInv'
  OBVIOUS
<1>1. CASE UNCHANGED <<shared, importer, imported>>
  BY <1>1 DEF SharingInv, ListShared, ImportsOf
<1>2. ASSUME NEW g \in Raters, NEW s \in Shared, handleImportStrategy(g, s) PROVE SharingInv'
  <2>1. s \in ListShared /\ shared[s] \in Nat
    BY <1>2 DEF handleImportStrategy, ListShared, SharingInv
  <2>2. PICK task : task = [pc |-> "read", id |-> s, usage |-> shared[s]]
    OBVIOUS
  <2>3. /\ task.pc = "read" /\ task.id \in ListShared
        /\ task.usage \in Nat /\ task.usage <= shared[task.id]
    BY <2>1, <2>2
  <2>4. importer' = [importer EXCEPT ![g] = task] /\ UNCHANGED <<shared, imported>>
    BY <1>2, <2>2 DEF handleImportStrategy
  <2> QED BY <2>3, <2>4, ImporterMoves
<1>3. ASSUME NEW g \in Raters, ImportStrategy(g) PROVE SharingInv'
  <2>1. CASE shared' # shared
    BY <1>3, <2>1, ImportInv
  <2>2. CASE shared' = shared
    <3>1. UNCHANGED <<shared, imported>>
      <4>1. importer[g] # NotImporting
        BY <1>3 DEF ImportStrategy, NotImporting
      <4>2. PICK s \in ListShared : s = importer[g].id
        BY <4>1 DEF SharingInv
      <4>3. s \in Shared /\ shared[s] \in Nat
        BY <4>2 DEF SharingInv, ListShared
      <4>4. IncrementUsage(g) => shared'[s] = shared[s] + 1
        BY <4>2, <4>3 DEF IncrementUsage, SharingInv
      <4>5. ~ IncrementUsage(g)
        BY <2>2, <4>3, <4>4
      <4> QED BY <1>3, <4>5 DEF ImportStrategy
    <3>2. importer' = [importer EXCEPT ![g] = NotImporting]
      BY <1>3 DEF ImportStrategy
    <3> QED BY <3>1, <3>2, ImporterMoves
  <2> QED BY <2>1, <2>2
<1>4. ASSUME NEW g \in Raters,
             \/ UpdateRating(g) \/ CommitRating(g) \/ RatingFails(g)
             \/ \E id \in 1..MaxPublished, stars \in Stars : handleRateStrategy(g, id, stars)
      PROVE  UNCHANGED <<shared, importer, imported>>
  BY <1>4 DEF UpdateRating, CommitRating, RatingFails, handleRateStrategy
<1>5. handlePublishStrategy => UNCHANGED <<shared, importer, imported>>
  BY DEF handlePublishStrategy, PublishStrategy
<1>6. UNCHANGED stratVars => UNCHANGED <<shared, importer, imported>>
  BY DEF stratVars
<1> QED
  BY <1>1, <1>2, <1>3, <1>4, <1>5, <1>6, ShareInv DEF StrategyNext, RateStrategy

LEMMA NextStratInv == StratInv /\ [StrategyNext]_stratVars => StratInv'
BY NextVotesInv, NextSharingInv DEF StratInv

\* The rows, transactions and imports of the strategy market have their types.
THEOREM StrategiesTypeCorrect == StrategySpec => []StrategyTypeOK
<1>1. StratInv => StrategyTypeOK
  <2> SUFFICES ASSUME StratInv PROVE StrategyTypeOK
    OBVIOUS
  <2>1. \A g \in Raters : /\ rater[g].pc \in {"idle", "fetched", "unlocked", "updated"}
                          /\ rater[g] # NoTx => rater[g].id \in DOMAIN published
    BY DEF StratInv, VotesInv, TxRuns, Tx, NoTx
  <2>2. \A g \in Raters : /\ importer[g].pc \in {"idle", "read"}
                          /\ importer[g] # NotImporting => importer[g].id \in ListShared
    BY DEF StratInv, SharingInv, NotImporting
  <2> QED BY <2>1, <2>2 DEF StrategyTypeOK, StratInv, VotesInv, SharingInv
<1> QED BY <1>1, StrategyInitInv, NextStratInv, PTL DEF StrategySpec

\* The rating of a strategy is made of all the ratings accepted for it, and
\* its usage counts all its imports, for any number of goroutines and of
\* ratings (RateStrategy, strategymarket/engine.go; ImportStrategy,
\* sharedstrategies/engine.go).
THEOREM EveryVoteCountsAlways == StrategySpec => []EveryVoteCounts
<1>1. StratInv => EveryVoteCounts
  <2> SUFFICES ASSUME StratInv PROVE EveryVoteCounts
    OBVIOUS
  <2>1. ASSUME NEW id \in DOMAIN published
        PROVE  /\ published[id].count = Cardinality(RatingsOf(id))
               /\ published[id].total = MapThenSumSet(LAMBDA r : r.stars, RatingsOf(id))
    <3>1. Rated(id)
      BY DEF StratInv, VotesInv
    <3>2. PICK given, votes, stars : /\ given = StarsGiven /\ votes = RatingsOf(id)
                                     /\ stars = [r \in votes |-> r.stars]
      OBVIOUS
    <3>3. IsFiniteSet(votes)
      BY <3>2, FS_Subset DEF StratInv, VotesInv, RatingsOf
    <3>4. \A r \in votes : stars[r] \in Int /\ given[r] = stars[r]
      BY <3>2, StrategyMarketAssumption DEF StratInv, VotesInv, RatingsOf, StarsGiven, Vote
    <3>5. SumOver(stars, votes) = SumOver(given, votes)
      BY <3>3, <3>4, SumSame
    <3>6. \A sum : SumsUp(sum, stars, votes) <=>
             sum = [T \in SUBSET votes |->
                       IF T = {} THEN 0
                       ELSE (CHOOSE r \in T : TRUE).stars + sum[T \ {CHOOSE r \in T : TRUE}]]
      BY ZenonT(60), <3>2 DEF SumsUp, Foremost
    <3>7. MapThenSumSet(LAMBDA r : r.stars, votes) = SumOver(stars, votes)
      BY ZenonT(60), <3>6 DEF MapThenSumSet, MapThenFoldSet, SumOver
    <3> QED BY <3>1, <3>2, <3>5, <3>7 DEF Rated
  <2>2. ASSUME NEW s \in ListShared
        PROVE  /\ shared[s] = Cardinality(ImportsOf(s))
               /\ \A r \in ImportsOf(s) : r.reply \in 1..shared[s]
    BY DEF StratInv, SharingInv, ImportsOf
  <2>3. \A category \in Categories \cup {""} : \A i \in BrowseStrategies(category) :
           Import(i) = {published[i]}
    BY DEF BrowseStrategies, Import
  <2> QED BY <2>1, <2>2, <2>3 DEF EveryVoteCounts
<1> QED BY <1>1, StrategyInitInv, NextStratInv, PTL DEF StrategySpec

-----------------------------------------------------------------------------
(* Buying groups: the more buy together, the lower the price.              *)

\* What each member wants.
Wanted == [m \in DOMAIN members |-> members[m].quantity]

\* What is computed for an offer.
Computed(o) ==
    /\ o.row \in GroupPrices /\ o.read \in SUBSET DOMAIN members
    /\ o.demand = SumOver(Wanted, o.read)
    /\ o.discount = DiscountOf(o.row[2], o.demand, Cardinality(o.read))
    /\ o.price = OfferPrice(o.row[1], o.discount)

GroupInv ==
    /\ groups \in [Groups -> {NoGroup, "forming"}]
    /\ members \in Seq([group : Groups, quantity : Quantities])
    /\ Len(members) <= MaxMembers
    /\ price \in GroupPrices
    /\ \A m \in DOMAIN members : groups[members[m].group] = "forming"
    /\ DOMAIN buyer = Buyers
    /\ \A b \in Buyers :
          /\ buyer[b].pc \in {"idle", "join", "offer"}
          /\ buyer[b].pc = "join" =>
                /\ buyer[b].group \in Groups /\ buyer[b].quantity \in Quantities
                /\ groups[buyer[b].group] = "forming"
          /\ buyer[b].pc = "offer" => buyer[b].read \in SUBSET DOMAIN members
    /\ \A o \in computed : Computed(o)

LEMMA TimesMonotonic ==
    ASSUME NEW n \in Nat, NEW a \in Nat, NEW b \in Nat, a <= b
    PROVE  n * a \in Nat /\ n * b \in Nat /\ n * a <= n * b
<1>1. PICK c \in Nat : b = a + c
  OBVIOUS
<1>2. n * b = n * a + n * c
  BY <1>1
<1>3. n * a \in Nat /\ n * c \in Nat
  OBVIOUS
<1> QED BY <1>2, <1>3

LEMMA SmallerOf ==
    ASSUME NEW n \in Int, NEW k \in Int
    PROVE  Min({n, k}) = IF n <= k THEN n ELSE k
<1>1. \E x \in {n, k} : \A y \in {n, k} : x <= y
  OBVIOUS
<1> QED BY <1>1 DEF Min

\* More members who want more get a discount that is none smaller.
LEMMA DiscountGrows ==
    ASSUME NEW typical \in Nat, NEW d \in Nat, NEW e \in Nat, d <= e,
           NEW m \in Nat, NEW n \in Nat, m <= n
    PROVE  /\ DiscountOf(typical, d, m) \in Nat
           /\ DiscountOf(typical, e, n) \in Nat /\ DiscountOf(typical, e, n) <= 10000
           /\ DiscountOf(typical, d, m) <= DiscountOf(typical, e, n)
<1>1. /\ QtyMultiplier(d) \in Nat /\ QtyMultiplier(e) \in Nat
      /\ QtyMultiplier(d) <= QtyMultiplier(e)
  BY DEF QtyMultiplier
<1>2. /\ MemberMultiplier(m) \in Nat /\ MemberMultiplier(n) \in Nat
      /\ MemberMultiplier(m) <= MemberMultiplier(n)
  BY DEF MemberMultiplier
<1>3. PICK p \in Nat, q \in Nat : p = typical * QtyMultiplier(d) /\ q = typical * QtyMultiplier(e)
  BY <1>1
<1>4. p <= q
  BY <1>1, <1>3, TimesMonotonic
<1>5. PICK r \in Nat, s \in Nat : r = p * MemberMultiplier(m) /\ s = q * MemberMultiplier(n)
  BY <1>2
<1>6. r <= s
  <2>1. p * MemberMultiplier(m) <= p * MemberMultiplier(n)
    BY <1>2, TimesMonotonic
  <2>2. MemberMultiplier(n) * p <= MemberMultiplier(n) * q
    BY <1>2, <1>4, TimesMonotonic
  <2>3. MemberMultiplier(n) * p = p * MemberMultiplier(n) /\ MemberMultiplier(n) * q = s
    BY <1>2, <1>5
  <2>4. p * MemberMultiplier(n) \in Nat
    BY <1>2
  <2> QED BY <1>5, <2>1, <2>2, <2>3, <2>4
<1>7. PICK x \in Int, y \in Int : /\ x = IF r <= 10000 THEN r ELSE 10000
                                  /\ y = IF s <= 10000 THEN s ELSE 10000
  OBVIOUS
<1>8. Min({r, 10000}) = x
  BY <1>7, SmallerOf
<1>9. Min({s, 10000}) = y
  BY <1>7, SmallerOf
<1>10. DiscountOf(typical, d, m) = x
  BY <1>3, <1>5, <1>8 DEF DiscountOf
<1>11. DiscountOf(typical, e, n) = y
  BY <1>3, <1>5, <1>9 DEF DiscountOf
<1>12. x \in Nat /\ y \in Nat /\ y <= 10000 /\ x <= y
  BY ONLY r \in Nat, s \in Nat, <1>6, <1>7
<1> QED BY <1>10, <1>11, <1>12

\* A larger discount makes no higher price; one half is the most it takes off.
LEMMA PriceFalls ==
    ASSUME NEW list \in Nat, NEW d \in Nat, NEW e \in Nat, d <= e, e <= 10000
    PROVE  /\ OfferPrice(list, d) \in Int
           /\ 2 * OfferPrice(list, d) >= list - 1 /\ OfferPrice(list, d) <= list
           /\ OfferPrice(list, e) <= OfferPrice(list, d)
<1>1. PICK x \in Nat, y \in Nat : x = list * (20000 - d) /\ y = list * (20000 - e)
  OBVIOUS
<1>2. y <= x
  BY <1>1, TimesMonotonic
<1>3. x <= list * 20000 /\ list * 10000 <= x
  BY <1>1, TimesMonotonic
<1>4. OfferPrice(list, d) = (x + 10000) \div 20000 /\ OfferPrice(list, e) = (y + 10000) \div 20000
  BY <1>1 DEF OfferPrice
<1>5. PICK p \in Int, q \in Int : p = (x + 10000) \div 20000 /\ q = (y + 10000) \div 20000
  OBVIOUS
<1>6. 20000 * p <= x + 10000 /\ x + 10000 < 20000 * p + 20000
  BY <1>5
<1>7. 20000 * q <= y + 10000 /\ y + 10000 < 20000 * q + 20000
  BY <1>5
<1>8. OfferPrice(list, d) = p /\ OfferPrice(list, e) = q
  BY <1>4, <1>5
<1>9. 2 * p >= list - 1 /\ p <= list
  BY ONLY list \in Nat, x \in Nat, p \in Int, <1>3, <1>6
<1>10. q <= p
  BY <1>2, <1>6, <1>7
<1> QED BY <1>8, <1>9, <1>10

\* So more members who want more pay no more, and at least half of the list price.
LEMMA MoreIsCheaper ==
    ASSUME NEW list \in Nat, NEW typical \in Nat, NEW d \in Nat, NEW e \in Nat, d <= e,
           NEW m \in Nat, NEW n \in Nat, m <= n
    PROVE  /\ 2 * OfferPrice(list, DiscountOf(typical, d, m)) >= list - 1
           /\ OfferPrice(list, DiscountOf(typical, d, m)) <= list
           /\ OfferPrice(list, DiscountOf(typical, e, n))
                 <= OfferPrice(list, DiscountOf(typical, d, m))
<1>1. PICK a, c : a = DiscountOf(typical, d, m) /\ c = DiscountOf(typical, e, n)
  OBVIOUS
<1>2. a \in Nat /\ c \in Nat /\ c <= 10000 /\ a <= c
  BY <1>1, DiscountGrows
<1>3. /\ 2 * OfferPrice(list, a) >= list - 1 /\ OfferPrice(list, a) <= list
      /\ OfferPrice(list, c) <= OfferPrice(list, a)
  BY <1>2, PriceFalls
<1> QED BY <1>1, <1>3

LEMMA GroupInitInv == GroupInit => GroupInv
BY BuyingGroupsAssumption DEF GroupInit, GroupInv, NotBuying

LEMMA MemberRow ==
    ASSUME GroupInv, NEW m \in DOMAIN members
    PROVE  members[m].group \in Groups /\ members[m].quantity \in Quantities
<1>1. PICK R : R = [group : Groups, quantity : Quantities]
  OBVIOUS
<1>2. PICK s \in Seq(R) : s = members
  BY <1>1 DEF GroupInv
<1>3. s[m] \in R
  BY <1>2, OneOf
<1> QED BY <1>1, <1>2, <1>3

\* Sets of members are finite, and what they want is a number.
LEMMA WantedNumbers ==
    ASSUME GroupInv, NEW read \in SUBSET DOMAIN members
    PROVE  IsFiniteSet(read) /\ \A m \in read : Wanted[m] \in Nat
<1>1. DOMAIN members = 1..Len(members) /\ Len(members) \in Nat
  BY DEF GroupInv
<1>2. IsFiniteSet(read)
  <2>1. PICK n \in Nat : n = Len(members)
    BY <1>1
  <2>2. IsFiniteSet(1..n)
    BY FS_Interval
  <2>3. read \subseteq 1..n
    BY <1>1, <2>1
  <2> QED BY <2>2, <2>3, FS_Subset
<1>3. ASSUME NEW m \in read PROVE Wanted[m] \in Nat
  <2>1. members[m].quantity \in Quantities
    BY MemberRow
  <2>2. Wanted[m] = members[m].quantity
    BY DEF Wanted
  <2> QED BY <2>1, <2>2, BuyingGroupsAssumption
<1> QED BY <1>2, <1>3

\* An offer stays as it was computed while members join.
LEMMA ComputedKept ==
    ASSUME GroupInv, DOMAIN members \subseteq DOMAIN members',
           \A m \in DOMAIN members : members'[m] = members[m],
           NEW o, Computed(o)
    PROVE  Computed(o)'
<1>1. PICK wanted, later : wanted = Wanted /\ later = Wanted'
  OBVIOUS
<1>2. IsFiniteSet(o.read) /\ \A m \in o.read : wanted[m] \in Nat
  BY <1>1, WantedNumbers DEF Computed
<1>3. \A m \in o.read : wanted[m] = later[m]
  BY <1>1 DEF Wanted, Computed
<1>4. SumOver(wanted, o.read) = SumOver(later, o.read)
  BY <1>2, <1>3, SumSame
<1>5. SumOver(Wanted', o.read) = SumOver(Wanted, o.read)
  BY <1>1, <1>4
<1> QED BY <1>5 DEF Computed

LEMMA JoinGroupInv ==
    ASSUME GroupInv, NEW b \in Buyers, JoinGroup(b) PROVE GroupInv'
<1>1. PICK n \in Nat : n = Len(members) /\ DOMAIN members = 1..n
  BY DEF GroupInv
<1>2. PICK m : m = [group |-> buyer[b].group, quantity |-> buyer[b].quantity]
  OBVIOUS
<1>3. m \in [group : Groups, quantity : Quantities] /\ groups[m.group] = "forming"
  BY <1>2 DEF JoinGroup, GroupInv
<1>4. members' = Append(members, m) /\ UNCHANGED <<groups, price, computed>>
  BY <1>2 DEF JoinGroup
<1>5. /\ members' \in Seq([group : Groups, quantity : Quantities])
      /\ Len(members') = n + 1 /\ DOMAIN members' = 1..(n + 1)
      /\ members'[n + 1] = m /\ \A k \in 1..n : members'[k] = members[k]
  BY <1>1, <1>3, <1>4 DEF GroupInv
<1>6. Len(members') <= MaxMembers
  BY <1>1, <1>5, BuyingGroupsAssumption DEF JoinGroup
<1>7. \A k \in DOMAIN members' : groups'[members'[k].group] = "forming"
  BY <1>1, <1>3, <1>4, <1>5 DEF GroupInv
<1>8. buyer' = [buyer EXCEPT ![b] = NotBuying] /\ NotBuying.pc = "idle"
  BY DEF JoinGroup, NotBuying
<1>9. \A o \in computed' : Computed(o)'
  <2>1. ASSUME NEW o \in computed' PROVE Computed(o)'
    <3>1. Computed(o) /\ DOMAIN members \subseteq DOMAIN members'
      BY <1>1, <1>4, <1>5 DEF GroupInv
    <3> QED BY <1>1, <1>5, <3>1, ComputedKept
  <2> QED BY <2>1
<1>10. ASSUME NEW c \in Buyers
       PROVE  /\ buyer'[c].pc \in {"idle", "join", "offer"}
              /\ buyer'[c].pc = "join" =>
                    /\ buyer'[c].group \in Groups /\ buyer'[c].quantity \in Quantities
                    /\ groups'[buyer'[c].group] = "forming"
              /\ buyer'[c].pc = "offer" => buyer'[c].read \in SUBSET DOMAIN members'
  <2>1. CASE c = b
    BY <1>8, <2>1 DEF GroupInv
  <2>2. CASE c # b
    <3>1. buyer'[c] = buyer[c]
      BY <1>8, <2>2 DEF GroupInv
    <3>2. DOMAIN members \subseteq DOMAIN members'
      BY <1>1, <1>5
    <3> QED BY <1>4, <3>1, <3>2 DEF GroupInv
  <2> QED BY <2>1, <2>2
<1>11. DOMAIN buyer' = Buyers /\ groups' \in [Groups -> {NoGroup, "forming"}]
  BY <1>4, <1>8 DEF GroupInv
<1>12. price' \in GroupPrices
  BY <1>4 DEF GroupInv
<1> QED BY <1>5, <1>6, <1>7, <1>9, <1>10, <1>11, <1>12 DEF GroupInv

LEMMA ComputeOfferInv ==
    ASSUME GroupInv, NEW b \in Buyers, ComputeOffer(b) PROVE GroupInv'
<1>1. PICK read \in SUBSET DOMAIN members : read = buyer[b].read
  BY DEF ComputeOffer, GroupInv
<1>2. PICK wanted : wanted = Wanted
  OBVIOUS
<1>3. \A sum : SumsUp(sum, wanted, read) <=>
         sum = [T \in SUBSET read |->
                   IF T = {} THEN 0
                   ELSE members[CHOOSE m \in T : TRUE].quantity
                          + sum[T \ {CHOOSE m \in T : TRUE}]]
  BY <1>2 DEF SumsUp, Foremost, Wanted
<1>4. MapThenSumSet(LAMBDA m : members[m].quantity, read) = SumOver(wanted, read)
  BY ZenonT(60), <1>3 DEF MapThenSumSet, MapThenFoldSet, SumOver
<1>5. PICK demand : demand = SumOver(wanted, read)
  OBVIOUS
<1>6. MapThenSumSet(LAMBDA m : members[m].quantity, read) = demand
  BY <1>4, <1>5
<1>7. PICK d : d = DiscountOf(price[2], demand, Cardinality(read))
  OBVIOUS
<1>8. PICK o : o = [read |-> read, row |-> price, demand |-> demand,
                    discount |-> d, price |-> OfferPrice(price[1], d)]
  OBVIOUS
<1>9. computed' = computed \cup {o}
  BY <1>1, <1>6, <1>7, <1>8 DEF ComputeOffer
<1>10. UNCHANGED <<groups, members, price>>
  BY DEF ComputeOffer
<1>11. Computed(o)
  BY <1>2, <1>5, <1>7, <1>8 DEF Computed, GroupInv
<1>12. \A p \in computed' : Computed(p)'
  BY <1>9, <1>10, <1>11 DEF GroupInv, Computed, Wanted
<1>13. /\ DOMAIN buyer' = Buyers /\ buyer'[b] = NotBuying /\ NotBuying.pc = "idle"
       /\ \A c \in Buyers \ {b} : buyer'[c] = buyer[c]
  BY DEF ComputeOffer, GroupInv, NotBuying
<1>14. ASSUME NEW c \in Buyers
       PROVE  /\ buyer'[c].pc \in {"idle", "join", "offer"}
              /\ buyer'[c].pc = "join" =>
                    /\ buyer'[c].group \in Groups /\ buyer'[c].quantity \in Quantities
                    /\ groups'[buyer'[c].group] = "forming"
              /\ buyer'[c].pc = "offer" => buyer'[c].read \in SUBSET DOMAIN members'
  <2>1. CASE c = b
    BY <1>13, <2>1
  <2>2. CASE c # b
    BY <1>10, <1>13, <2>2 DEF GroupInv
  <2> QED BY <2>1, <2>2
<1> QED BY <1>10, <1>12, <1>13, <1>14 DEF GroupInv

\* A call goes on without changing what there is, at most the price.
LEMMA BuyerMoves ==
    ASSUME GroupInv, NEW b \in Buyers, NEW task, buyer' = [buyer EXCEPT ![b] = task],
           UNCHANGED <<groups, members, price, computed>>,
           \/ /\ task.pc = "join" /\ task.group \in Groups /\ task.quantity \in Quantities
              /\ groups[task.group] = "forming"
           \/ task.pc = "offer" /\ task.read \in SUBSET DOMAIN members
    PROVE  GroupInv'
<1>1. /\ DOMAIN buyer' = Buyers /\ buyer'[b] = task
      /\ \A c \in Buyers \ {b} : buyer'[c] = buyer[c]
  BY DEF GroupInv
<1>2. ASSUME NEW c \in Buyers
      PROVE  /\ buyer'[c].pc \in {"idle", "join", "offer"}
             /\ buyer'[c].pc = "join" =>
                   /\ buyer'[c].group \in Groups /\ buyer'[c].quantity \in Quantities
                   /\ groups'[buyer'[c].group] = "forming"
             /\ buyer'[c].pc = "offer" => buyer'[c].read \in SUBSET DOMAIN members'
  <2>1. CASE c = b
    BY <1>1, <2>1
  <2>2. CASE c # b
    BY <1>1, <2>2 DEF GroupInv
  <2> QED BY <2>1, <2>2
<1>3. \A o \in computed' : Computed(o)'
  BY DEF GroupInv, Computed, Wanted
<1> QED BY <1>1, <1>2, <1>3 DEF GroupInv

LEMMA GroupStepInv == GroupInv /\ [GroupNext]_groupVars => GroupInv'
<1> SUFFICES ASSUME GroupInv, [GroupNext]_groupVars PROVE GroupInv'
  OBVIOUS
<1>1. CASE UNCHANGED groupVars
  BY <1>1 DEF groupVars, GroupInv, Computed, Wanted
<1>2. ASSUME NEW g \in Groups, CreateGroup(g) PROVE GroupInv'
  <2>1. UNCHANGED <<members, price, buyer, computed>>
    BY <1>2 DEF CreateGroup
  <2>2. \A h \in Groups : groups[h] = "forming" => groups'[h] = "forming"
    BY <1>2 DEF CreateGroup, GroupInv
  <2>3. groups' \in [Groups -> {NoGroup, "forming"}]
    BY <1>2 DEF CreateGroup, GroupInv
  <2>4. \A m \in DOMAIN members : members[m].group \in Groups
    BY MemberRow
  <2>5. \A o \in computed' : Computed(o)'
    BY <2>1 DEF GroupInv, Computed, Wanted
  <2> QED BY <2>1, <2>2, <2>3, <2>4, <2>5 DEF GroupInv
<1>3. CASE Reprice
  <2>1. price' \in GroupPrices /\ UNCHANGED <<groups, members, buyer, computed>>
    BY <1>3 DEF Reprice
  <2>2. \A o \in computed' : Computed(o)'
    BY <2>1 DEF GroupInv, Computed, Wanted
  <2> QED BY <2>1, <2>2 DEF GroupInv
<1>4. ASSUME NEW b \in Buyers, NEW g \in Groups, NEW n \in Quantities, CheckStatus(b, g, n)
      PROVE  GroupInv'
  <2>1. PICK task : task = [pc |-> "join", group |-> g, quantity |-> n]
    OBVIOUS
  <2>2. buyer' = [buyer EXCEPT ![b] = task] /\ UNCHANGED <<groups, members, price, computed>>
    BY <1>4, <2>1 DEF CheckStatus
  <2>3. /\ task.pc = "join" /\ task.group \in Groups /\ task.quantity \in Quantities
        /\ groups[task.group] = "forming"
    BY <1>4, <2>1 DEF CheckStatus
  <2> QED BY <2>2, <2>3, BuyerMoves
<1>5. ASSUME NEW b \in Buyers, NEW g \in Groups, ReadMembers(b, g) PROVE GroupInv'
  <2>1. PICK read : read = GetMembers(g)
    OBVIOUS
  <2>2. PICK task : task = [pc |-> "offer", group |-> g, read |-> read]
    OBVIOUS
  <2>3. buyer' = [buyer EXCEPT ![b] = task] /\ UNCHANGED <<groups, members, price, computed>>
    BY <1>5, <2>1, <2>2 DEF ReadMembers
  <2>4. task.pc = "offer" /\ task.read \in SUBSET DOMAIN members
    BY <2>1, <2>2 DEF GetMembers
  <2> QED BY <2>3, <2>4, BuyerMoves
<1> QED
  BY <1>1, <1>2, <1>3, <1>4, <1>5, JoinGroupInv, ComputeOfferInv
     DEF GroupNext, handleCreateGroup, handleJoinGroup, handleComputeOffer

\* Members are only of groups that are forming, and calls are at one of their
\* steps.
THEOREM GroupsTypeCorrect == GroupSpec => []GroupTypeOK
<1>1. GroupInv => GroupTypeOK
  <2> SUFFICES ASSUME GroupInv PROVE GroupTypeOK
    OBVIOUS
  <2>1. \A m \in DOMAIN members : members[m].quantity \in Quantities
    BY MemberRow
  <2> QED BY <2>1 DEF GroupInv, GroupTypeOK, handleGroupStatus, GetGroup
<1> QED BY <1>1, GroupInitInv, GroupStepInv, PTL DEF GroupSpec

\* Of two offers at one list price the one for more of the members is never
\* the dearer, for any number of members and whatever they want; and none
\* takes off more than half (ComputeOffer, group/engine.go).
THEOREM TogetherIsCheaperAlways == GroupSpec => []TogetherIsCheaper
<1>1. GroupInv => TogetherIsCheaper
  <2> SUFFICES ASSUME GroupInv PROVE TogetherIsCheaper
    OBVIOUS
  <2>1. PICK wanted : wanted = Wanted
    OBVIOUS
  <2>2. ASSUME NEW o \in computed, NEW p \in computed, o.row = p.row, o.read \subseteq p.read
        PROVE  /\ 2 * o.price >= o.row[1] - 1 /\ o.price <= o.row[1]
               /\ p.price <= o.price
    <3>1. Computed(o) /\ Computed(p)
      BY DEF GroupInv
    <3>2. PICK list \in Nat, typical \in Nat : list = o.row[1] /\ typical = o.row[2]
      BY <3>1, BuyingGroupsAssumption DEF Computed
    <3>3. IsFiniteSet(p.read) /\ \A m \in p.read : wanted[m] \in Nat
      BY <2>1, <3>1, WantedNumbers DEF Computed
    <3>4. IsFiniteSet(o.read) /\ Cardinality(o.read) <= Cardinality(p.read)
      BY <2>2, <3>3, FS_Subset
    <3>5. /\ SumOver(wanted, o.read) \in Nat
          /\ SumOver(wanted, o.read) <= SumOver(wanted, p.read)
      BY <2>2, <3>3, SumOfPart
    <3>6. SumOver(wanted, p.read) \in Nat
      BY <3>3, SumOfPart
    <3>7. o.demand \in Nat /\ p.demand \in Nat /\ o.demand <= p.demand
      BY <2>1, <3>1, <3>5, <3>6 DEF Computed
    <3>8. Cardinality(o.read) \in Nat /\ Cardinality(p.read) \in Nat
      BY <3>3, <3>4, FS_CardinalityType
    <3>9. /\ o.discount = DiscountOf(typical, o.demand, Cardinality(o.read))
          /\ p.discount = DiscountOf(typical, p.demand, Cardinality(p.read))
          /\ o.price = OfferPrice(list, o.discount) /\ p.price = OfferPrice(list, p.discount)
      BY <2>2, <3>1, <3>2 DEF Computed
    <3>10. PICK d \in Nat, e \in Nat, m \in Nat, n \in Nat :
              /\ d = o.demand /\ e = p.demand
              /\ m = Cardinality(o.read) /\ n = Cardinality(p.read)
      BY <3>7, <3>8
    <3>11. d <= e /\ m <= n
      BY <3>4, <3>7, <3>10
    <3>12. /\ 2 * OfferPrice(list, DiscountOf(typical, d, m)) >= list - 1
           /\ OfferPrice(list, DiscountOf(typical, d, m)) <= list
           /\ OfferPrice(list, DiscountOf(typical, e, n))
                 <= OfferPrice(list, DiscountOf(typical, d, m))
      BY <3>11, MoreIsCheaper
    <3>13. /\ o.price = OfferPrice(list, DiscountOf(typical, d, m))
           /\ p.price = OfferPrice(list, DiscountOf(typical, e, n))
      BY <3>9, <3>10
    <3> QED BY <3>2, <3>12, <3>13
  <2> QED BY <2>2 DEF TogetherIsCheaper
<1> QED BY <1>1, GroupInitInv, GroupStepInv, PTL DEF GroupSpec

-----------------------------------------------------------------------------
(* Health: the score on record is the score of the signals on record.      *)

HealthStages == {"insert", "read", "write", "look"}

HealthCall == [pc : HealthStages, firm : Firms, recording : BOOLEAN, weight : Int,
               score : Int, alone : BOOLEAN]

\* The score on record is that of the signals on record.
Current(v) == \/ scores[v].score = CalculateScore(GetSignals(v))
              \/ scores[v] = NoScore /\ GetSignals(v) = {}

\* A call about v has still to compute or to store its score.
Scoring(a, v) == analyst[a].firm = v /\ analyst[a].pc \in {"read", "write"}

HealthTables ==
    /\ signals \subseteq SignalRow /\ IsFiniteSet(signals)
    /\ scores \in [Firms -> ScoreRow \cup {NoScore}]
    /\ outdated \subseteq Firms
    /\ \A v \in Firms : scores[v] # NoScore =>
                           scores[v].category = Categorize(scores[v].score)

\* A call that is alone is the only one about its vendor, so what it has
\* computed is still the score; a vendor whose score is not current is
\* outdated unless a call is about to put that right.
HealthInv ==
    /\ HealthTables
    /\ analyst \in [Analysts -> HealthCall \cup {AtDesk}]
    /\ \A a \in Analysts, task \in HealthCall : analyst[a] = task =>
          /\ task.alone => \A b \in Analysts \ {a} : analyst[b].firm # task.firm
          /\ task.pc = "write" => task.score \in 1..100
          /\ task.pc = "write" /\ task.alone =>
                task.score = CalculateScore(GetSignals(task.firm))
    /\ \A v \in Firms \ outdated : Current(v) \/ \E a \in Analysts : Scoring(a, v)

LEMMA WithinBounds == ASSUME NEW n \in Int PROVE Bounded(n) \in 1..100
<1>1. PICK m : m = Min({n, 100})
  OBVIOUS
<1>2. m \in {n, 100} /\ m <= 100
  <2>1. \E x \in {n, 100} : \A y \in {n, 100} : x <= y
    OBVIOUS
  <2> QED BY <1>1, <2>1 DEF Min
<1>3. \E x \in {1, m} : \A y \in {1, m} : x >= y
  BY <1>2
<1>4. Max({1, m}) \in {1, m} /\ Max({1, m}) >= 1
  BY <1>3 DEF Max
<1> QED BY <1>1, <1>2, <1>4 DEF Bounded

\* The score of any signals is a whole number from 1 to 100.
LEMMA ScoreInRange ==
    ASSUME NEW rows \in SUBSET SignalRow, IsFiniteSet(rows)
    PROVE  CalculateScore(rows) \in 1..100
<1>1. PICK weight : weight = [s \in rows |-> s.weight]
  OBVIOUS
<1>2. \A s \in rows : weight[s] \in Int
  BY <1>1 DEF SignalRow
<1>3. \A sum : SumsUp(sum, weight, rows) <=>
         sum = [T \in SUBSET rows |->
                   IF T = {} THEN 0
                   ELSE (CHOOSE s \in T : TRUE).weight + sum[T \ {CHOOSE s \in T : TRUE}]]
  BY <1>1 DEF SumsUp, Foremost
<1>6. MapThenSumSet(LAMBDA s : s.weight, rows) = SumOver(weight, rows)
  BY ZenonT(60), <1>3 DEF MapThenSumSet, MapThenFoldSet, SumOver
<1>4. CalculateScore(rows) = Bounded(50 + SumOver(weight, rows))
  BY <1>6 DEF CalculateScore
<1>5. SumOver(weight, rows) \in Int
  BY <1>2, SumInt
<1> QED BY <1>4, <1>5, WithinBounds

LEMMA HealthInitInv == HealthInit => HealthInv
<1> SUFFICES ASSUME HealthInit PROVE HealthInv
  OBVIOUS
<1>1. HealthTables
  BY FS_EmptySet DEF HealthInit, HealthTables
<1>2. \A a \in Analysts, task \in HealthCall : analyst[a] # task
  BY DEF HealthInit, AtDesk, HealthCall, HealthStages
<1>3. \A v \in Firms : Current(v)
  BY DEF HealthInit, Current, GetSignals
<1> QED BY <1>1, <1>2, <1>3 DEF HealthInv, HealthInit

\* A call that has a vendor is not at its desk.
LEMMA AtWork ==
    ASSUME HealthInv, NEW a \in Analysts
    PROVE  /\ AtDesk.firm = NoFirm /\ AtDesk.pc = "idle" /\ AtDesk \notin HealthCall
           /\ NoFirm \notin Firms
           /\ analyst[a] # AtDesk => analyst[a] \in HealthCall /\ analyst[a].firm \in Firms
           /\ analyst[a].firm \in Firms => analyst[a] # AtDesk
           /\ analyst[a].pc # "idle" => analyst[a] # AtDesk
BY HealthAssumption DEF HealthInv, AtDesk, HealthCall, HealthStages

\* A call begins: those on the same vendor are not alone any more.
LEMMA BeginInv ==
    ASSUME HealthInv, NEW a \in Analysts, NEW v \in Firms, NEW task \in HealthCall,
           task.firm = v, task.pc \in {"insert", "look"}, BeginAt(a, v, task)
    PROVE  HealthInv'
<1>1. PICK begun : begun = [task EXCEPT !.alone = AtWorkOn(v) = {}]
  OBVIOUS
<1>2. /\ begun \in HealthCall /\ begun.firm = v /\ begun.pc = task.pc
      /\ begun.alone => \A b \in Analysts : analyst[b].firm # v
  BY <1>1 DEF HealthCall, AtWorkOn
<1>3. UNCHANGED <<signals, scores, outdated>> /\ analyst[a] = AtDesk
  BY DEF BeginAt
<1>4. analyst'[a] = begun
  BY <1>1 DEF BeginAt
<1>5. ASSUME NEW b \in Analysts \ {a}
      PROVE  analyst'[b] = [analyst[b] EXCEPT !.alone =
                               analyst[b].alone /\ analyst[b].firm # v]
  BY DEF BeginAt, AtWorkOn
<1>6. ASSUME NEW b \in Analysts \ {a}, analyst[b] = AtDesk PROVE analyst'[b] = AtDesk
  <2>1. analyst[b].firm # v /\ analyst[b].alone = TRUE
    BY <1>6, HealthAssumption DEF AtDesk
  <2>2. (analyst[b].alone /\ analyst[b].firm # v) = TRUE
    BY <2>1
  <2>3. analyst'[b] = [AtDesk EXCEPT !.alone = TRUE]
    BY <1>5, <1>6, <2>2
  <2> QED BY <2>3 DEF AtDesk
<1>7. ASSUME NEW b \in Analysts \ {a}, NEW was \in HealthCall, analyst[b] = was
      PROVE  /\ analyst'[b] \in HealthCall
             /\ analyst'[b].pc = was.pc /\ analyst'[b].firm = was.firm
             /\ analyst'[b].score = was.score
             /\ analyst'[b].alone => was.alone /\ was.firm # v
  <2>1. analyst'[b] = [was EXCEPT !.alone = was.alone /\ was.firm # v]
    BY <1>5, <1>7
  <2>2. (was.alone /\ was.firm # v) \in BOOLEAN
    OBVIOUS
  <2> QED BY <2>1, <2>2 DEF HealthCall
<1>8. analyst' \in [Analysts -> HealthCall \cup {AtDesk}]
  <2>1. analyst' = [b \in Analysts |-> analyst'[b]]
    BY DEF BeginAt
  <2> QED BY <1>2, <1>4, <1>6, <1>7, <2>1 DEF HealthInv
<1>9. \A b \in Analysts \ {a} : analyst'[b].firm = analyst[b].firm /\ analyst'[b].pc = analyst[b].pc
  BY <1>6, <1>7 DEF HealthInv
<1>10. HealthTables'
  BY <1>3 DEF HealthInv, HealthTables
<1>11. \A w : GetSignals(w)' = GetSignals(w)
  BY <1>3 DEF GetSignals
<1>12. ASSUME NEW b \in Analysts, NEW now \in HealthCall, analyst'[b] = now
       PROVE  /\ now.alone => \A c \in Analysts \ {b} : analyst'[c].firm # now.firm
              /\ now.pc = "write" => now.score \in 1..100
              /\ now.pc = "write" /\ now.alone =>
                    now.score = CalculateScore(GetSignals(now.firm))'
  <2>1. CASE b = a
    BY <1>2, <1>4, <1>9, <1>12, <2>1
  <2>2. CASE b # a
    <3>1. analyst[b] # AtDesk
      BY <1>6, <1>12, <2>2, AtWork
    <3>2. PICK was \in HealthCall : analyst[b] = was
      BY <2>2, <3>1 DEF HealthInv
    <3>3. /\ now.pc = was.pc /\ now.firm = was.firm /\ now.score = was.score
          /\ now.alone => was.alone /\ was.firm # v
      BY <1>7, <1>12, <2>2, <3>2
    <3>4. CalculateScore(GetSignals(now.firm))' = CalculateScore(GetSignals(now.firm))
      BY <1>11
    <3>5. now.alone => \A c \in Analysts \ {b} : analyst'[c].firm # now.firm
      BY <1>2, <1>4, <1>9, <2>2, <3>2, <3>3 DEF HealthInv
    <3> QED BY <3>2, <3>3, <3>4, <3>5 DEF HealthInv
  <2> QED BY <2>1, <2>2
<1>13. ASSUME NEW w \in Firms \ outdated'
       PROVE  Current(w)' \/ \E b \in Analysts : Scoring(b, w)'
  <2>1. Current(w)' <=> Current(w)
    BY <1>3, <1>11 DEF Current
  <2>2. ASSUME NEW b \in Analysts, Scoring(b, w) PROVE Scoring(b, w)'
    <3>1. b # a
      BY <1>3, <2>2, AtWork DEF Scoring
    <3> QED BY <1>9, <2>2, <3>1 DEF Scoring
  <2> QED BY <1>3, <2>1, <2>2 DEF HealthInv
<1> QED BY <1>8, <1>10, <1>12, <1>13 DEF HealthInv

\* A call at v takes a step, and v is all it touches.
LEMMA CallInv ==
    ASSUME HealthInv, NEW a \in Analysts, NEW task \in HealthCall, analyst[a] = task,
           NEW next \in HealthCall \cup {AtDesk}, analyst' = [analyst EXCEPT ![a] = next],
           next # AtDesk => next.firm = task.firm /\ next.alone = task.alone,
           HealthTables',
           \A w \in Firms \ {task.firm} :
              /\ GetSignals(w)' = GetSignals(w) /\ scores'[w] = scores[w]
              /\ w \in outdated' <=> w \in outdated,
           next.pc = "write" =>
              /\ next.score \in 1..100
              /\ task.alone => next.score = CalculateScore(GetSignals(task.firm))',
           task.firm \notin outdated' =>
              \/ Current(task.firm)' \/ next.pc \in {"read", "write"}
              \/ \E b \in Analysts \ {a} : Scoring(b, task.firm)
    PROVE  HealthInv'
<1>1. /\ analyst'[a] = next /\ task.firm \in Firms
      /\ \A b \in Analysts \ {a} : analyst'[b] = analyst[b]
      /\ analyst' \in [Analysts -> HealthCall \cup {AtDesk}]
  BY DEF HealthInv, HealthCall
<1>2. ASSUME NEW b \in Analysts, NEW now \in HealthCall, analyst'[b] = now
      PROVE  /\ now.alone => \A c \in Analysts \ {b} : analyst'[c].firm # now.firm
             /\ now.pc = "write" => now.score \in 1..100
             /\ now.pc = "write" /\ now.alone =>
                   now.score = CalculateScore(GetSignals(now.firm))'
  <2>1. CASE b = a
    <3>1. next = now /\ now.firm = task.firm /\ now.alone = task.alone
      BY <1>1, <1>2, <2>1, AtWork
    <3>2. now.alone => \A c \in Analysts \ {b} : analyst'[c].firm # now.firm
      <4>1. task.alone => \A c \in Analysts \ {a} : analyst[c].firm # task.firm
        BY DEF HealthInv
      <4>2. \A c \in Analysts \ {b} : analyst'[c] = analyst[c]
        BY <1>1, <2>1
      <4> QED BY <2>1, <3>1, <4>1, <4>2
    <3>3. GetSignals(now.firm)' = GetSignals(task.firm)'
      BY <3>1 DEF GetSignals
    <3> QED BY <3>1, <3>2, <3>3
  <2>2. CASE b # a
    <3>1. analyst[b] = now /\ now.firm \in Firms
      BY <1>1, <1>2, <2>2 DEF HealthCall
    <3>2. /\ now.alone => \A c \in Analysts \ {b} : analyst[c].firm # now.firm
          /\ now.pc = "write" => now.score \in 1..100
          /\ now.pc = "write" /\ now.alone =>
                now.score = CalculateScore(GetSignals(now.firm))
      BY <3>1 DEF HealthInv
    <3>3. now.alone => now.firm # task.firm
      BY <2>2, <3>2
    <3>4. now.alone => GetSignals(now.firm)' = GetSignals(now.firm)
      BY <3>1, <3>3
    <3>5. next = AtDesk \/ next.firm = task.firm
      OBVIOUS
    <3>6. next.firm = NoFirm \/ next.firm = task.firm
      BY <3>5 DEF AtDesk
    <3>7. now.firm # NoFirm
      BY <3>1, HealthAssumption
    <3>8. now.alone => \A c \in Analysts \ {b} : analyst'[c].firm # now.firm
      BY <1>1, <3>2, <3>3, <3>6, <3>7
    <3> QED BY <3>2, <3>4, <3>8
  <2> QED BY <2>1, <2>2
<1>3. ASSUME NEW w \in Firms \ outdated'
      PROVE  Current(w)' \/ \E b \in Analysts : Scoring(b, w)'
  <2>1. \A b \in Analysts \ {a} : Scoring(b, w) => Scoring(b, w)'
    BY <1>1 DEF Scoring
  <2>2. CASE w = task.firm
    <3>1. next.pc \in {"read", "write"} => Scoring(a, w)'
      BY <1>1, <2>2 DEF Scoring, AtDesk
    <3> QED BY <1>3, <2>1, <2>2, <3>1
  <2>3. CASE w # task.firm
    <3>1. ~ Scoring(a, w)
      BY <2>3 DEF Scoring
    <3>2. Current(w) => Current(w)'
      BY <2>3 DEF Current
    <3> QED BY <1>3, <2>1, <2>3, <3>1, <3>2 DEF HealthInv
  <2> QED BY <2>2, <2>3
<1> QED BY <1>1, <1>2, <1>3 DEF HealthInv

LEMMA AddSignalInv ==
    ASSUME HealthInv, NEW a \in Analysts, AddSignal(a) PROVE HealthInv'
<1>1. PICK task \in HealthCall : analyst[a] = task /\ task.pc = "insert" /\ task.firm \in Firms
  BY AtWork DEF AddSignal
<1>2. PICK next : next = [task EXCEPT !.pc = "read"]
  OBVIOUS
<1>3. /\ next \in HealthCall /\ next.pc = "read"
      /\ next.firm = task.firm /\ next.alone = task.alone
  BY <1>2 DEF HealthCall, HealthStages
<1>4. analyst' = [analyst EXCEPT ![a] = next]
  BY <1>1, <1>2 DEF AddSignal, MoveTo, HealthInv
<1>5. PICK row : row = [nr |-> Cardinality(signals) + 1, firm |-> task.firm,
                        weight |-> task.weight]
  OBVIOUS
<1>6. row \in SignalRow /\ row.firm = task.firm
  <2>1. Cardinality(signals) \in Nat /\ Cardinality(signals) < MaxSignals
    BY FS_CardinalityType DEF AddSignal, HealthInv, HealthTables
  <2> QED BY <1>1, <1>5, <2>1, HealthAssumption DEF SignalRow, HealthCall
<1>7. signals' = signals \cup {row} /\ UNCHANGED <<scores, outdated>>
  BY <1>1, <1>5 DEF AddSignal
<1>8. HealthTables'
  BY <1>6, <1>7, FS_AddElement DEF HealthInv, HealthTables
<1>9. \A w \in Firms \ {task.firm} : GetSignals(w)' = GetSignals(w)
  BY <1>6, <1>7 DEF GetSignals
<1> QED BY <1>1, <1>3, <1>4, <1>7, <1>8, <1>9, CallInv

LEMMA ReadSignalsInv ==
    ASSUME HealthInv, NEW a \in Analysts, ReadSignals(a) PROVE HealthInv'
<1>1. PICK task \in HealthCall : analyst[a] = task /\ task.pc = "read" /\ task.firm \in Firms
  BY AtWork DEF ReadSignals
<1>2. UNCHANGED <<signals, scores, outdated>>
  BY DEF ReadSignals
<1>3. PICK n : n = CalculateScore(GetSignals(task.firm))
  OBVIOUS
<1>4. n \in 1..100
  <2>1. GetSignals(task.firm) \in SUBSET SignalRow /\ IsFiniteSet(GetSignals(task.firm))
    BY FS_Subset DEF HealthInv, HealthTables, GetSignals
  <2> QED BY <1>3, <2>1, ScoreInRange
<1>5. PICK next : next = [task EXCEPT !.pc = "write", !.score = n]
  OBVIOUS
<1>6. /\ next \in HealthCall /\ next.pc = "write" /\ next.score = n
      /\ next.firm = task.firm /\ next.alone = task.alone
  <2>1. /\ DOMAIN next = DOMAIN task /\ next.pc = "write" /\ next.score = n
        /\ next.firm = task.firm /\ next.alone = task.alone
        /\ next.recording = task.recording /\ next.weight = task.weight
    BY <1>5 DEF HealthCall
  <2>2. next = [pc |-> "write", firm |-> task.firm, recording |-> task.recording,
                weight |-> task.weight, score |-> n, alone |-> task.alone]
    BY <1>5 DEF HealthCall
  <2>3. n \in Int
    BY <1>4
  <2>4. next \in HealthCall
    BY <2>2, <2>3 DEF HealthCall, HealthStages
  <2> QED BY <2>1, <2>4
<1>7. analyst' = [analyst EXCEPT ![a].pc = "write", ![a].score = n]
  BY <1>1, <1>3 DEF ReadSignals
<1>8. analyst' = [analyst EXCEPT ![a] = next]
  BY <1>1, <1>5, <1>7 DEF HealthInv
<1>9. HealthTables'
  BY <1>2 DEF HealthInv, HealthTables
<1>10. \A w \in Firms : GetSignals(w)' = GetSignals(w)
  BY <1>2 DEF GetSignals
<1>11. CalculateScore(GetSignals(task.firm))' = n
  BY <1>1, <1>3, <1>10
<1> QED BY <1>1, <1>2, <1>4, <1>6, <1>8, <1>9, <1>10, <1>11, CallInv

LEMMA UpsertHealthInv ==
    ASSUME HealthInv, NEW a \in Analysts, UpsertHealth(a) PROVE HealthInv'
<1>1. PICK task \in HealthCall : analyst[a] = task /\ task.pc = "write" /\ task.firm \in Firms
  BY AtWork DEF UpsertHealth
<1>2. task.score \in 1..100 /\ (task.alone => task.score = CalculateScore(GetSignals(task.firm)))
  BY <1>1 DEF HealthInv
<1>3. PICK row : row = [score |-> task.score, category |-> Categorize(task.score)]
  OBVIOUS
<1>4. row \in ScoreRow /\ row.score = task.score /\ row.category = Categorize(row.score)
  BY <1>2, <1>3 DEF ScoreRow, Categorize
<1>5. /\ scores' = [scores EXCEPT ![task.firm] = row] /\ signals' = signals
      /\ outdated' = IF task.alone THEN outdated \ {task.firm}
                                   ELSE outdated \cup {task.firm}
  BY <1>1, <1>3 DEF UpsertHealth
<1>6. \E next \in HealthCall \cup {AtDesk} :
         /\ analyst' = [analyst EXCEPT ![a] = next] /\ next.pc # "write"
         /\ next # AtDesk => next.firm = task.firm /\ next.alone = task.alone
  <2>1. CASE task.recording
    <3>1. PICK next : next = [task EXCEPT !.pc = "look"]
      OBVIOUS
    <3>2. /\ next \in HealthCall /\ next.pc = "look"
          /\ next.firm = task.firm /\ next.alone = task.alone
      BY <3>1 DEF HealthCall, HealthStages
    <3>3. analyst' = [analyst EXCEPT ![a] = next]
      BY <1>1, <2>1, <3>1 DEF UpsertHealth, MoveTo, HealthInv
    <3> QED BY <3>2, <3>3
  <2>2. CASE ~ task.recording
    <3>1. analyst' = [analyst EXCEPT ![a] = AtDesk]
      BY <1>1, <2>2 DEF UpsertHealth, Leave
    <3>2. AtDesk.pc # "write"
      BY DEF AtDesk
    <3> QED BY <3>1, <3>2
  <2> QED BY <2>1, <2>2
<1>7. PICK next \in HealthCall \cup {AtDesk} :
         /\ analyst' = [analyst EXCEPT ![a] = next] /\ next.pc # "write"
         /\ next # AtDesk => next.firm = task.firm /\ next.alone = task.alone
  BY <1>6
<1>8. /\ scores'[task.firm] = row
      /\ \A w \in Firms \ {task.firm} : scores'[w] = scores[w]
      /\ scores' \in [Firms -> ScoreRow \cup {NoScore}]
  BY <1>1, <1>4, <1>5 DEF HealthInv, HealthTables
<1>9. HealthTables'
  <2>1. \A w \in Firms : scores'[w] # NoScore =>
                            scores'[w].category = Categorize(scores'[w].score)
    BY <1>4, <1>8 DEF HealthInv, HealthTables
  <2>2. outdated' \subseteq Firms
    BY <1>1, <1>5 DEF HealthInv, HealthTables
  <2> QED BY <1>5, <1>8, <2>1, <2>2 DEF HealthInv, HealthTables
<1>10. \A w \in Firms : GetSignals(w)' = GetSignals(w)
  BY <1>5 DEF GetSignals
<1>11. task.firm \notin outdated' => Current(task.firm)'
  <2>1. task.firm \notin outdated' => task.alone
    BY <1>1, <1>5
  <2>2. CalculateScore(GetSignals(task.firm))' = CalculateScore(GetSignals(task.firm))
    BY <1>1, <1>10
  <2> QED BY <1>2, <1>4, <1>8, <2>1, <2>2 DEF Current
<1>12. \A w \in Firms \ {task.firm} : w \in outdated' <=> w \in outdated
  BY <1>5
<1> QED BY <1>1, <1>7, <1>8, <1>9, <1>10, <1>11, <1>12, CallInv

LEMMA GetLeverageInv ==
    ASSUME HealthInv, NEW a \in Analysts, GetLeverage(a) PROVE HealthInv'
<1>1. PICK task \in HealthCall : analyst[a] = task /\ task.pc = "look" /\ task.firm \in Firms
  BY AtWork DEF GetLeverage
<1>2. UNCHANGED <<signals, scores, outdated>>
  BY DEF GetLeverage
<1>3. \E next \in HealthCall \cup {AtDesk} :
         /\ analyst' = [analyst EXCEPT ![a] = next] /\ next.pc # "write"
         /\ next # AtDesk => next.firm = task.firm /\ next.alone = task.alone
  <2>1. CASE scores[task.firm] = NoScore
    <3>1. PICK next : next = [task EXCEPT !.pc = "read"]
      OBVIOUS
    <3>2. /\ next \in HealthCall /\ next.pc = "read"
          /\ next.firm = task.firm /\ next.alone = task.alone
      BY <3>1 DEF HealthCall, HealthStages
    <3>3. analyst' = [analyst EXCEPT ![a] = next]
      BY <1>1, <2>1, <3>1 DEF GetLeverage, MoveTo, HealthInv
    <3> QED BY <3>2, <3>3
  <2>2. CASE scores[task.firm] # NoScore
    <3>1. analyst' = [analyst EXCEPT ![a] = AtDesk]
      BY <1>1, <2>2 DEF GetLeverage, Leave
    <3>2. AtDesk.pc # "write"
      BY DEF AtDesk
    <3> QED BY <3>1, <3>2
  <2> QED BY <2>1, <2>2
<1>4. PICK next \in HealthCall \cup {AtDesk} :
         /\ analyst' = [analyst EXCEPT ![a] = next] /\ next.pc # "write"
         /\ next # AtDesk => next.firm = task.firm /\ next.alone = task.alone
  BY <1>3
<1>5. HealthTables'
  BY <1>2 DEF HealthInv, HealthTables
<1>6. \A w \in Firms : GetSignals(w)' = GetSignals(w)
  BY <1>2 DEF GetSignals
<1>7. task.firm \notin outdated' =>
         Current(task.firm)' \/ \E b \in Analysts \ {a} : Scoring(b, task.firm)
  <2>1. ~ Scoring(a, task.firm)
    BY <1>1 DEF Scoring
  <2>2. Current(task.firm) => Current(task.firm)'
    BY <1>1, <1>2, <1>6 DEF Current
  <2> QED BY <1>1, <1>2, <2>1, <2>2 DEF HealthInv
<1> QED BY <1>1, <1>2, <1>4, <1>5, <1>6, <1>7, CallInv

LEMMA AnalystFailsInv ==
    ASSUME HealthInv, NEW a \in Analysts, AnalystFails(a) PROVE HealthInv'
<1>1. PICK task \in HealthCall : analyst[a] = task /\ task.firm \in Firms
  BY AtWork DEF AnalystFails
<1>2. /\ signals' = signals /\ scores' = scores /\ analyst' = [analyst EXCEPT ![a] = AtDesk]
      /\ outdated' = IF task.pc \in {"read", "write"} THEN outdated \cup {task.firm}
                                                      ELSE outdated
  BY <1>1 DEF AnalystFails, Leave
<1>3. HealthTables'
  BY <1>1, <1>2 DEF HealthInv, HealthTables
<1>4. \A w \in Firms : GetSignals(w)' = GetSignals(w)
  BY <1>2 DEF GetSignals
<1>5. task.firm \notin outdated' =>
         Current(task.firm)' \/ \E b \in Analysts \ {a} : Scoring(b, task.firm)
  <2>1. task.firm \notin outdated' => ~ Scoring(a, task.firm) /\ task.firm \notin outdated
    BY <1>1, <1>2 DEF Scoring
  <2>2. Current(task.firm) => Current(task.firm)'
    BY <1>1, <1>2, <1>4 DEF Current
  <2> QED BY <1>1, <2>1, <2>2 DEF HealthInv
<1>6. AtDesk.pc # "write"
  BY DEF AtDesk
<1>7. \A w \in Firms \ {task.firm} : w \in outdated' <=> w \in outdated
  BY <1>2
<1> QED BY <1>1, <1>2, <1>3, <1>4, <1>5, <1>6, <1>7, CallInv

LEMMA HealthStepInv == HealthInv /\ [HealthNext]_healthVars => HealthInv'
<1> SUFFICES ASSUME HealthInv, [HealthNext]_healthVars PROVE HealthInv'
  OBVIOUS
<1>1. CASE UNCHANGED healthVars
  BY <1>1 DEF healthVars, HealthInv, HealthTables, Current, Scoring, GetSignals
<1>2. ASSUME NEW a \in Analysts, handleRecordSignal(a) PROVE HealthInv'
  <2>1. PICK v \in Firms, type \in SignalTypes, weight \in Weights :
           BeginAt(a, v, [AtDesk EXCEPT !.pc = "insert", !.firm = v, !.recording = TRUE,
                                        !.weight = WeightOf(type, weight)])
    BY <1>2 DEF handleRecordSignal
  <2>2. PICK n : n = WeightOf(type, weight)
    OBVIOUS
  <2>3. n \in Int
    <3>1. weight \in Int
      BY HealthAssumption
    <3>2. \A t \in DOMAIN SignalTypeWeights : SignalTypeWeights[t] \in Int
      BY DEF SignalTypeWeights
    <3> QED BY <2>2, <3>1, <3>2 DEF WeightOf
  <2>4. PICK task : task = [AtDesk EXCEPT !.pc = "insert", !.firm = v, !.recording = TRUE,
                                          !.weight = n]
    OBVIOUS
  <2>5. task = [pc |-> "insert", firm |-> v, recording |-> TRUE, weight |-> n,
                score |-> 0, alone |-> TRUE]
    BY <2>4 DEF AtDesk
  <2>7. task \in HealthCall /\ task.firm = v /\ task.pc = "insert"
    BY <2>3, <2>5 DEF HealthCall, HealthStages
  <2>6. BeginAt(a, v, task)
    BY <2>1, <2>2, <2>4
  <2> QED BY <2>6, <2>7, BeginInv
<1>3. ASSUME NEW a \in Analysts, handleVendorHealth(a) PROVE HealthInv'
  <2>1. PICK v \in Firms : BeginAt(a, v, [AtDesk EXCEPT !.pc = "look", !.firm = v])
    BY <1>3 DEF handleVendorHealth
  <2>2. PICK task : task = [AtDesk EXCEPT !.pc = "look", !.firm = v]
    OBVIOUS
  <2>3. task = [pc |-> "look", firm |-> v, recording |-> FALSE, weight |-> 0,
                score |-> 0, alone |-> TRUE]
    BY <2>2 DEF AtDesk
  <2>4. task \in HealthCall /\ task.firm = v /\ task.pc = "look"
    BY <2>3 DEF HealthCall, HealthStages
  <2>5. BeginAt(a, v, task)
    BY <2>1, <2>2
  <2> QED BY <2>4, <2>5, BeginInv
<1> QED
  BY <1>1, <1>2, <1>3, AddSignalInv, ReadSignalsInv, UpsertHealthInv, GetLeverageInv,
     AnalystFailsInv DEF HealthNext

LEMMA HealthImplies == HealthInv => HealthTypeOK /\ ScoreIsCurrent
<1> SUFFICES ASSUME HealthInv PROVE HealthTypeOK /\ ScoreIsCurrent
  OBVIOUS
<1>1. HealthTypeOK
  <2>1. ASSUME NEW a \in Analysts
        PROVE  \/ analyst[a] = AtDesk
               \/ /\ analyst[a].pc \in {"insert", "read", "write", "look"}
                  /\ analyst[a].firm \in Firms
                  /\ analyst[a].pc = "write" => analyst[a].score \in 1 .. 100
    BY DEF HealthInv, HealthCall, HealthStages
  <2> QED BY <2>1 DEF HealthTypeOK, HealthInv, HealthTables
<1>2. ASSUME NEW v \in Firms, AtWorkOn(v) = {}, v \notin outdated
      PROVE  \/ scores[v].score = CalculateScore(GetSignals(v))
             \/ scores[v] = NoScore /\ GetSignals(v) = {}
  BY <1>2 DEF HealthInv, Current, Scoring, AtWorkOn
<1>3. ASSUME NEW v \in Firms, scores[v] # NoScore
      PROVE  <<scores[v].category, Leverage(scores[v].score)>> \in
                {<<"struggling", "high">>, <<"stable", "medium">>, <<"growing", "low">>}
  <2>1. scores[v] \in ScoreRow /\ scores[v].category = Categorize(scores[v].score)
    BY <1>3 DEF HealthInv, HealthTables
  <2>2. scores[v].score \in Int
    BY <2>1 DEF ScoreRow
  <2> QED BY <2>1, <2>2 DEF Categorize, Leverage
<1> QED BY <1>1, <1>2, <1>3 DEF ScoreIsCurrent

\* The tables of the health desk and its calls have their types.
THEOREM HealthTypeCorrect == HealthSpec => []HealthTypeOK
<1> QED BY HealthInitInv, HealthStepInv, HealthImplies, PTL DEF HealthSpec

\* The score on record is the score of all the signals on record, for any
\* number of signals, unless the last call to write it had company or failed
\* halfway; and its category and the leverage derived from it always agree.
THEOREM ScoreIsCurrentAlways == HealthSpec => []ScoreIsCurrent
<1> QED BY HealthInitInv, HealthStepInv, HealthImplies, PTL DEF HealthSpec
-----------------------------------------------------------------------------
(* Keys, addresses and settings of the operator.                           *)

KeyRow == [status : {"active", "revoked"}, root : Nat]

\* The active keys among those that descend from one.
Active(ks, root) == {j \in 1 .. Len(ks) : ks[j].root = root /\ ks[j].status = "active"}

\* Keys in use, and of each family one that is active.
KeyInv ==
    /\ keys \in Seq(KeyRow) /\ Len(keys) <= MaxKeys
    /\ \A i \in 1 .. Len(keys) : keys[i].root \in 1 .. i
    /\ \A i \in 1 .. Len(keys) : \E j : Active(keys, keys[i].root) = {j}
    /\ seen \in [Operators -> 1 .. Len(keys) \cup {NoKey}]

AddressInv ==
    /\ allowed \subseteq Addresses
    /\ answers \in [{"added", "removed"} -> [Addresses -> Nat]]
    /\ AllowedAsAnswered

\* Entries of an export: no two for one key.
Consistent(entries) ==
    /\ entries \subseteq Entries
    /\ \A e, f \in entries : e.key = f.key => e = f

UnderWay == [todo : Seq(Entries), all : Seq(Entries),
           at : {"none", "writing", "ok", "error"}, others : SUBSET Settings]

\* How many entries an import has written.
Written(imp) == Len(imp.all) - Len(imp.todo)

\* What an import has left to write are the last of its entries, and those
\* before them have been written since it began.
Importing(imp, stored) ==
    /\ Len(imp.todo) <= Len(imp.all)
    /\ \A i \in 1 .. Len(imp.todo) : imp.todo[i] = imp.all[Written(imp) + i]
    /\ \A i, j \in 1 .. Len(imp.all) :
          imp.all[i].key = imp.all[j].key => imp.all[i] = imp.all[j]
    /\ \A i \in 1 .. Written(imp) :
          imp.all[i].key \in imp.others \/ stored[imp.all[i].key] = imp.all[i].value
    /\ imp.at = "ok" => imp.todo = <<>>

ConfigInv ==
    /\ config \in [Settings -> Values \cup {0}]
    /\ DOMAIN export = Operators
    /\ \A o \in Operators : Consistent(export[o])
    /\ importing \in [Operators -> UnderWay]
    /\ \A o \in Operators : importing[o].at \in {"writing", "ok"} => Importing(importing[o], config)

OperatorInv == KeyInv /\ AddressInv /\ ConfigInv

LEMMA NoKeys == keys = <<>> /\ seen = [o \in Operators |-> NoKey] => KeyInv
BY OperatorAssumption DEF KeyInv, KeyRow

LEMMA NoAnswers ==
    allowed = {} /\ answers = [a \in {"added", "removed"} |-> [x \in Addresses |-> 0]]
       => AddressInv
BY DEF AddressInv, AllowedAsAnswered

LEMMA NoImportIsOne == NoImport \in UnderWay /\ NoImport.at = "none"
BY DEF NoImport, UnderWay

LEMMA OperatorInitInv == OperatorInit => OperatorInv
<1> SUFFICES ASSUME OperatorInit PROVE OperatorInv
  OBVIOUS
<1>1. KeyInv /\ AddressInv
  BY NoKeys, NoAnswers DEF OperatorInit
<1>2. ConfigInv
  BY NoImportIsOne DEF OperatorInit, ConfigInv, Consistent
<1> QED BY <1>1, <1>2 DEF OperatorInv

\* A key that is added starts a family; one that replaces another takes its
\* place in its family.
LEMMA KeyStep == KeyInv /\ KeyNext => KeyInv'
<1> SUFFICES ASSUME KeyInv, KeyNext PROVE KeyInv'
  OBVIOUS
<1>0. \A i \in 1 .. Len(keys) : keys[i] \in KeyRow
  BY DEF KeyInv
<1>1. CASE AddKey
  <2> DEFINE n == Len(keys) + 1
             row == [status |-> "active", root |-> n]
  <2>1. n \in Nat /\ n <= MaxKeys /\ row \in KeyRow
    BY <1>1, OperatorAssumption DEF AddKey, KeyInv, KeyRow
  <2>2. /\ keys' = Append(keys, row) /\ keys' \in Seq(KeyRow)
        /\ Len(keys') = n /\ keys'[n] = row
        /\ \A i \in 1 .. Len(keys) : keys'[i] = keys[i]
    BY <1>1, <2>1 DEF AddKey, KeyInv
  <2> HIDE DEF row
  <2>3. /\ keys'[n].root = n /\ keys'[n].status = "active"
        /\ \A i \in 1 .. Len(keys) : keys'[i].root = keys[i].root
        /\ \A i \in 1 .. n : i \in 1 .. Len(keys) \/ i = n
        /\ 1 .. Len(keys) \subseteq 1 .. n
    BY <2>1, <2>2 DEF row, KeyInv
  <2>a. \A i \in 1 .. Len(keys) : keys[i].root \in 1 .. i
    BY DEF KeyInv
  <2>b. \A i \in 1 .. n : keys'[i].root \in 1 .. i
    BY <2>1, <2>3, <2>a
  <2>4. Active(keys', n) = {n}
    <3>1. \A j \in 1 .. Len(keys) : keys[j].root # n
      BY <2>1, <2>a DEF KeyInv
    <3> QED BY <2>1, <2>2, <2>3, <3>1 DEF Active
  <2>5. ASSUME NEW i \in 1 .. Len(keys)
        PROVE  Active(keys', keys[i].root) = Active(keys, keys[i].root)
    <3>1. keys[i].root # n
      BY <2>1, <2>a DEF KeyInv
    <3> QED BY <2>1, <2>2, <2>3, <3>1 DEF Active
  <2>6. ASSUME NEW i \in 1 .. n PROVE \E j : Active(keys', keys'[i].root) = {j}
    <3>1. CASE i = n
      <4>1. keys'[i].root = n
        BY <2>3, <3>1
      <4> QED BY <2>4, <4>1
    <3>2. CASE i \in 1 .. Len(keys)
      <4>1. PICK j : Active(keys, keys[i].root) = {j}
        BY <3>2 DEF KeyInv
      <4>2. keys'[i].root = keys[i].root
        BY <2>3, <3>2
      <4>3. Active(keys', keys[i].root) = {j}
        BY <3>2, <4>1, <2>5
      <4> QED BY <4>2, <4>3
    <3> QED BY <3>1, <3>2, <2>3
  <2>7. seen' \in [Operators -> 1 .. n \cup {NoKey}]
    <3>1. 1 .. Len(keys) \subseteq 1 .. n
      BY <2>1 DEF KeyInv
    <3> QED BY <1>1, <3>1 DEF AddKey, KeyInv
  <2> QED BY <2>1, <2>2, <2>b, <2>6, <2>7 DEF KeyInv
<1>2. ASSUME NEW o \in Operators, KeyHealth(o) PROVE KeyInv'
  <2>1. UNCHANGED keys
    BY <1>2 DEF KeyHealth
  <2>2. seen' \in [Operators -> 1 .. Len(keys) \cup {NoKey}]
    BY <1>2 DEF KeyHealth, KeyInv
  <2> QED BY <2>1, <2>2 DEF KeyInv, Active
<1>3. ASSUME NEW o \in Operators, RotateKey(o) PROVE KeyInv'
  <2> DEFINE old == seen[o]
  <2>0. old \in 1 .. Len(keys) /\ seen' = [seen EXCEPT ![o] = NoKey]
    BY <1>3 DEF RotateKey, KeyInv
  <2>1. CASE keys[old].status # "active"
    <3>1. UNCHANGED keys
      BY <1>3, <2>1 DEF RotateKey
    <3>2. seen' \in [Operators -> 1 .. Len(keys) \cup {NoKey}]
      BY <2>0 DEF KeyInv
    <3> QED BY <3>1, <3>2 DEF KeyInv, Active
  <2>2. CASE keys[old].status = "active"
    <3> DEFINE n == Len(keys) + 1
               row == [status |-> "active", root |-> keys[old].root]
               revoked == [keys EXCEPT ![old].status = "revoked"]
    <3>1. n \in Nat /\ n <= MaxKeys /\ row \in KeyRow
      BY <1>0, <1>3, <2>0, OperatorAssumption DEF RotateKey, KeyInv, KeyRow
    <3>2. revoked \in Seq(KeyRow) /\ Len(revoked) = Len(keys)
      BY <1>0, <2>0 DEF KeyInv, KeyRow
    <3>3. /\ revoked[old].status = "revoked" /\ revoked[old].root = keys[old].root
          /\ \A i \in 1 .. Len(keys) : i # old => revoked[i] = keys[i]
      BY <1>0, <2>0 DEF KeyInv, KeyRow
    <3> HIDE DEF row, revoked
    <3>4. /\ keys' = Append(revoked, row) /\ keys' \in Seq(KeyRow)
          /\ Len(keys') = n /\ keys'[n] = row
          /\ \A i \in 1 .. Len(keys) : keys'[i] = revoked[i]
      <4>1. keys' = Append(revoked, row)
        BY <1>3, <2>2 DEF RotateKey, row, revoked
      <4>2. \A ks \in Seq(KeyRow), r \in KeyRow :
               /\ Append(ks, r) \in Seq(KeyRow) /\ Len(Append(ks, r)) = Len(ks) + 1
               /\ Append(ks, r)[Len(ks) + 1] = r
               /\ \A i \in 1 .. Len(ks) : Append(ks, r)[i] = ks[i]
        OBVIOUS
      <4>3. row \in KeyRow
        BY <3>1
      <4> QED BY <3>2, <4>1, <4>2, <4>3
    <3>5. \A i \in 1 .. Len(keys) : keys'[i].root = keys[i].root
      BY <3>3, <3>4
    <3>6. /\ \A i \in 1 .. Len(keys) :
               keys'[i].status = "active" <=> i # old /\ keys[i].status = "active"
          /\ keys'[n].status = "active" /\ keys'[n].root = keys[old].root
      BY <3>3, <3>4 DEF row
    <3>7. \A i \in 1 .. n : keys'[i].root \in 1 .. i
      BY <3>1, <3>5, <3>6, <2>0 DEF KeyInv
    <3>8. Active(keys, keys[old].root) = {old}
      <4>1. old \in Active(keys, keys[old].root)
        BY <2>0, <2>2 DEF Active
      <4>2. PICK j : Active(keys, keys[old].root) = {j}
        BY <2>0 DEF KeyInv
      <4> QED BY <4>1, <4>2
    <3>9. Active(keys', keys[old].root) = {n}
      <4>1. \A j \in 1 .. Len(keys) :
               keys[j].root = keys[old].root /\ keys[j].status = "active" => j = old
        BY <3>8 DEF Active
      <4>2. \A j \in 1 .. n : j \in 1 .. Len(keys) \/ j = n
        BY <3>1
      <4>3. keys'[old].root = keys[old].root
        BY <2>0, <3>5
      <4> QED BY <3>1, <3>4, <3>5, <3>6, <4>1, <4>2, <4>3 DEF Active
    <3>10. ASSUME NEW r, r # keys[old].root PROVE Active(keys', r) = Active(keys, r)
      <4>1. \A j \in 1 .. n : j \in 1 .. Len(keys) \/ j = n
        BY <3>1
      <4>2. 1 .. Len(keys) \subseteq 1 .. n
        BY <3>1
      <4> QED BY <3>4, <3>5, <3>6, <3>10, <4>1, <4>2 DEF Active
    <3>11. ASSUME NEW i \in 1 .. n PROVE \E j : Active(keys', keys'[i].root) = {j}
      <4>1. CASE keys'[i].root = keys[old].root
        <5>1. PICK r : r = keys'[i].root
          OBVIOUS
        <5>2. keys[old].root = keys'[old].root
          BY <2>0, <3>5
        <5> QED BY <4>1, <3>9, <5>2 DEF Active
      <4>2. CASE keys'[i].root # keys[old].root
        <5>1. i \in 1 .. Len(keys) /\ keys'[i].root = keys[i].root
          BY <3>1, <3>5, <3>6, <4>2
        <5>2. PICK j : Active(keys, keys[i].root) = {j}
          BY <5>1 DEF KeyInv
        <5>3. Active(keys', keys[i].root) = {j}
          <6>1. PICK r : r = keys[i].root
            OBVIOUS
          <6>2. r # keys[old].root
            BY <4>2, <5>1, <6>1
          <6>3. Active(keys', r) = Active(keys, r)
            BY <3>10, <6>2
          <6> QED BY <5>2, <6>1, <6>3
        <5> QED BY <5>1, <5>3, <3>5 DEF Active
      <4> QED BY <4>1, <4>2
    <3>12. seen' \in [Operators -> 1 .. n \cup {NoKey}]
      <4>1. 1 .. Len(keys) \subseteq 1 .. n
        BY <3>1
      <4> QED BY <2>0, <4>1 DEF KeyInv
    <3> QED BY <3>1, <3>4, <3>7, <3>11, <3>12 DEF KeyInv
  <2> QED BY <2>1, <2>2
<1> QED BY <1>1, <1>2, <1>3 DEF KeyNext

LEMMA OneIsActive == KeyInv => OneActiveKey
<1> SUFFICES ASSUME KeyInv, NEW i \in 1 .. Len(keys)
             PROVE  Cardinality(Active(keys, keys[i].root)) = 1
  BY DEF OneActiveKey, Active
<1>1. PICK j : Active(keys, keys[i].root) = {j}
  BY DEF KeyInv
<1> QED BY <1>1, FS_Singleton

LEMMA AddressStep == AddressInv /\ AddressNext => AddressInv'
<1> SUFFICES ASSUME AddressInv, NEW ip \in Addresses, AddIP(ip) \/ RemoveIP(ip)
             PROVE  AddressInv'
  BY DEF AddressNext
<1> QED BY DEF AddressInv, AllowedAsAnswered, AddIP, RemoveIP, Answered

LEMMA WrittenWithin ==
    ASSUME NEW imp \in UnderWay
    PROVE  1 .. Written(imp) \subseteq 1 .. Len(imp.all)
<1>1. imp.all \in Seq(Entries) /\ imp.todo \in Seq(Entries)
  BY DEF UnderWay
<1>2. \A m, n \in Nat : 1 .. m - n \subseteq 1 .. m
  OBVIOUS
<1>3. Len(imp.all) \in Nat /\ Len(imp.todo) \in Nat
  BY <1>1
<1> QED BY <1>2, <1>3 DEF Written

LEMMA SeesWrite ==
    ASSUME NEW imp \in UnderWay, NEW k \in Settings, NEW new,
           new = [imp EXCEPT !.others = @ \cup {k}]
    PROVE  /\ new \in UnderWay /\ new.todo = imp.todo /\ new.all = imp.all
           /\ new.at = imp.at /\ new.others = imp.others \cup {k}
BY DEF UnderWay

LEMMA WritesNext ==
    ASSUME NEW imp \in UnderWay, NEW new, Tail(imp.todo) \in Seq(Entries),
           new = [imp EXCEPT !.todo = Tail(@)]
    PROVE  /\ new \in UnderWay /\ new.todo = Tail(imp.todo) /\ new.all = imp.all
           /\ new.at = imp.at /\ new.others = imp.others
BY DEF UnderWay

\* Writing an entry: the importer's own is the next of its entries, all others
\* see it.
LEMMA WriteKeeps ==
    ASSUME ConfigInv, NEW e \in Entries, NEW o, Write(e, o),
           o \in Operators => /\ importing[o].at = "writing" /\ importing[o].todo # <<>>
                              /\ e = Head(importing[o].todo)
    PROVE  /\ config' \in [Settings -> Values \cup {0}]
           /\ importing' \in [Operators -> UnderWay]
           /\ \A q \in Operators :
                 importing'[q].at \in {"writing", "ok"} => Importing(importing'[q], config')
<1>0. e.key \in Settings /\ e.value \in Values
  BY DEF Entries
<1>1. /\ config' \in [Settings -> Values \cup {0}]
      /\ config'[e.key] = e.value
      /\ \A k \in Settings : k # e.key => config'[k] = config[k]
  BY <1>0 DEF Write, ConfigInv
<1>2. ASSUME NEW q \in Operators, q # o
      PROVE  /\ importing'[q] \in UnderWay
             /\ importing'[q].at \in {"writing", "ok"} => Importing(importing'[q], config')
  <2> DEFINE imp == importing[q]
             new == importing'[q]
  <2>1. new = [imp EXCEPT !.others = @ \cup {e.key}] /\ imp \in UnderWay
    BY <1>2 DEF Write, ConfigInv
  <2>2. /\ new \in UnderWay /\ new.todo = imp.todo /\ new.all = imp.all /\ new.at = imp.at
        /\ new.others = imp.others \cup {e.key}
    BY <1>0, <2>1, SeesWrite
  <2>3. CASE new.at \in {"writing", "ok"}
    <3>1. Importing(imp, config) /\ Written(imp) = Len(imp.all) - Len(imp.todo)
      BY <2>2, <2>3 DEF ConfigInv, Written
    <3>2. \A i \in 1 .. Written(imp) : imp.all[i] \in Entries
      <4>1. imp.all \in Seq(Entries) /\ imp.todo \in Seq(Entries)
        BY <2>1 DEF UnderWay
      <4>2. 1 .. Written(imp) \subseteq 1 .. Len(imp.all)
        BY <2>1, WrittenWithin
      <4> QED BY <4>1, <4>2
    <3>3. \A i \in 1 .. Written(imp) :
             new.all[i].key \in new.others \/ config'[new.all[i].key] = new.all[i].value
      <4>1. ASSUME NEW i \in 1 .. Written(imp)
            PROVE  new.all[i].key \in new.others \/ config'[new.all[i].key] = new.all[i].value
        <5>1. imp.all[i].key \in Settings
          BY <3>2 DEF Entries
        <5>2. imp.all[i].key \in imp.others \/ config[imp.all[i].key] = imp.all[i].value
          BY <3>1 DEF Importing
        <5> QED BY <1>1, <2>2, <5>1, <5>2
      <4> QED BY <4>1
    <3>4. Importing(new, config')
      <4>1. Written(new) = Written(imp)
        BY <2>2 DEF Written
      <4>2. \A i \in 1 .. Len(new.todo) : new.todo[i] = new.all[Written(new) + i]
        BY <2>2, <3>1, <4>1 DEF Importing
      <4>3. \A i, j \in 1 .. Len(new.all) :
               new.all[i].key = new.all[j].key => new.all[i] = new.all[j]
        BY <2>2, <3>1 DEF Importing
      <4>4. Len(new.todo) <= Len(new.all) /\ (new.at = "ok" => new.todo = <<>>)
        BY <2>2, <3>1 DEF Importing
      <4>5. \A i \in 1 .. Written(new) :
             new.all[i].key \in new.others \/ config'[new.all[i].key] = new.all[i].value
        BY <3>3, <4>1
      <4> QED BY ONLY <4>2, <4>3, <4>4, <4>5 DEF Importing
    <3> QED BY <2>2, <3>4
  <2> QED BY <2>2, <2>3
<1>3. ASSUME o \in Operators
      PROVE  /\ importing'[o] \in UnderWay
             /\ Importing(importing'[o], config')
  <2> DEFINE imp == importing[o]
             new == importing'[o]
  <2>1. /\ new = [imp EXCEPT !.todo = Tail(@)] /\ imp \in UnderWay
        /\ imp.at = "writing" /\ imp.todo # <<>> /\ e = Head(imp.todo)
        /\ Importing(imp, config)
    BY <1>3 DEF Write, ConfigInv
  <2>2. imp.todo \in Seq(Entries) /\ imp.all \in Seq(Entries)
    BY <2>1 DEF UnderWay
  <2>3. /\ Tail(imp.todo) \in Seq(Entries) /\ Len(Tail(imp.todo)) = Len(imp.todo) - 1
        /\ Len(imp.todo) \in Nat \ {0} /\ Len(imp.all) \in Nat
        /\ \A i \in 1 .. Len(imp.todo) - 1 : Tail(imp.todo)[i] = imp.todo[i + 1]
        /\ e = imp.todo[1]
    BY <2>1, <2>2
  <2>4. /\ new \in UnderWay /\ new.todo = Tail(imp.todo) /\ new.all = imp.all
        /\ new.at = "writing" /\ new.others = imp.others
    BY <2>1, <2>3, WritesNext
  <2> DEFINE n == Written(imp)
  <2>5. n \in Nat /\ Written(new) = n + 1 /\ n + 1 <= Len(imp.all)
    <3>1. Len(imp.todo) <= Len(imp.all)
      BY <2>1 DEF Importing
    <3>2. Len(new.todo) = Len(imp.todo) - 1 /\ Len(new.all) = Len(imp.all)
      BY <2>3, <2>4
    <3> QED BY <2>3, <3>1, <3>2 DEF Written
  <2>6. e = imp.all[n + 1]
    BY <2>1, <2>3 DEF Importing
  <2>7. \A i \in 1 .. Len(new.todo) : new.todo[i] = new.all[Written(new) + i]
    <3>1. ASSUME NEW i \in 1 .. Len(imp.todo) - 1
          PROVE  Tail(imp.todo)[i] = imp.all[(n + 1) + i]
      <4>1. imp.todo[i + 1] = imp.all[n + (i + 1)]
        <5>1. i + 1 \in 1 .. Len(imp.todo)
          BY <2>3
        <5>2. \A k \in 1 .. Len(imp.todo) : imp.todo[k] = imp.all[Written(imp) + k]
          BY <2>1 DEF Importing
        <5> QED BY <5>1, <5>2
      <4>2. n + (i + 1) = (n + 1) + i
        BY <2>5
      <4> QED BY <2>3, <4>1, <4>2
    <3> QED BY <2>3, <2>4, <2>5, <3>1
  <2>8. ASSUME NEW i \in 1 .. n + 1
        PROVE  imp.all[i].key \in imp.others \/ config'[imp.all[i].key] = imp.all[i].value
    <3>1. i \in 1 .. Len(imp.all) /\ n + 1 \in 1 .. Len(imp.all)
      BY <2>3, <2>5
    <3>2. imp.all[i] \in Entries
      BY <2>2, <3>1
    <3>3. CASE imp.all[i].key = e.key
      <4>1. imp.all[i] = e
        BY <2>1, <2>6, <3>1, <3>3 DEF Importing
      <4> QED BY <1>1, <4>1
    <3>4. CASE imp.all[i].key # e.key
      <4>1. i \in 1 .. n
        BY <2>5, <2>6, <3>4
      <4>2. imp.all[i].key \in Settings
        BY <3>2 DEF Entries
      <4> QED BY <1>1, <2>1, <3>4, <4>1, <4>2 DEF Importing
    <3> QED BY <3>3, <3>4
  <2>9. \A i, j \in 1 .. Len(imp.all) :
           imp.all[i].key = imp.all[j].key => imp.all[i] = imp.all[j]
    BY <2>1 DEF Importing
  <2>10. Len(new.todo) <= Len(new.all)
    BY <2>1, <2>3, <2>4 DEF Importing
  <2> HIDE DEF n
  <2>11. \A i \in 1 .. Written(new) :
            new.all[i].key \in new.others \/ config'[new.all[i].key] = new.all[i].value
    BY <2>4, <2>5, <2>8
  <2>12. new.at # "ok"
    BY <2>4
  <2>13. Importing(new, config')
    BY ONLY <2>4, <2>7, <2>9, <2>10, <2>11, <2>12 DEF Importing
  <2> QED BY <2>4, <2>13
<1>4. importing' \in [Operators -> UnderWay]
  <2>1. \A q \in Operators : importing'[q] \in UnderWay
    BY <1>2, <1>3
  <2>2. importing' = [q \in Operators |-> importing'[q]]
    BY DEF Write
  <2> QED BY <2>1, <2>2
<1> QED BY <1>1, <1>2, <1>3, <1>4

LEMMA ConfigStep == ConfigInv /\ ConfigNext => ConfigInv'
<1> SUFFICES ASSUME ConfigInv, ConfigNext PROVE ConfigInv'
  OBVIOUS
<1>1. ASSUME NEW e \in Entries, SetConfig(e) PROVE ConfigInv'
  <2>1. Write(e, NoKey) /\ NoKey \notin Operators /\ UNCHANGED export
    BY <1>1, OperatorAssumption DEF SetConfig
  <2>2. /\ config' \in [Settings -> Values \cup {0}]
        /\ importing' \in [Operators -> UnderWay]
        /\ \A q \in Operators :
              importing'[q].at \in {"writing", "ok"} => Importing(importing'[q], config')
    BY <2>1, WriteKeeps
  <2> QED BY <2>1, <2>2 DEF ConfigInv
<1>2. ASSUME NEW o \in Operators, ImportEntry(o) PROVE ConfigInv'
  <2>1. /\ importing[o].at = "writing" /\ importing[o].todo # <<>> /\ UNCHANGED export
        /\ importing[o] \in UnderWay
    BY <1>2 DEF ImportEntry, ConfigInv
  <2>2. CASE Write(Head(importing[o].todo), o)
    <3>1. Head(importing[o].todo) \in Entries
      <4>1. importing[o].todo \in Seq(Entries)
        BY <2>1 DEF UnderWay
      <4> QED BY <2>1, <4>1
    <3>2. PICK e \in Entries : e = Head(importing[o].todo)
      BY <3>1
    <3>3. Write(e, o)
      BY <2>2, <3>2
    <3>4. /\ config' \in [Settings -> Values \cup {0}]
          /\ importing' \in [Operators -> UnderWay]
          /\ \A q \in Operators :
                importing'[q].at \in {"writing", "ok"} => Importing(importing'[q], config')
      BY <2>1, <3>2, <3>3, WriteKeeps
    <3> QED BY <2>1, <3>4 DEF ConfigInv
  <2>3. CASE importing' = [importing EXCEPT ![o].at = "error"] /\ UNCHANGED config
    <3>1. [importing[o] EXCEPT !.at = "error"] \in UnderWay
      BY <2>1 DEF UnderWay
    <3>2. [importing[o] EXCEPT !.at = "error"].at = "error"
      BY <2>1 DEF UnderWay
    <3> HIDE DEF UnderWay
    <3>3. /\ importing' \in [Operators -> UnderWay]
          /\ importing'[o].at = "error"
          /\ \A q \in Operators : q # o => importing'[q] = importing[q]
      BY <2>3, <3>1, <3>2 DEF ConfigInv
    <3> QED BY <2>1, <2>3, <3>3 DEF ConfigInv
  <2> QED BY <1>2, <2>2, <2>3 DEF ImportEntry
<1>3. ASSUME NEW o \in Operators, ExportConfig(o) PROVE ConfigInv'
  <2> DEFINE entries == {e \in Entries : config[e.key] = e.value}
  <2>1. Consistent(entries)
    BY DEF Consistent, Entries
  <2> HIDE DEF entries
  <2>2. /\ export' = [export EXCEPT ![o] = entries]
        /\ UNCHANGED <<config, importing>>
    BY <1>3 DEF ExportConfig, entries
  <2> QED BY <2>1, <2>2 DEF ConfigInv
<1>4. ASSUME NEW o \in Operators, BeginImport(o) PROVE ConfigInv'
  <2>1. PICK s \in [1 .. Cardinality(export[o]) -> export[o]] :
           /\ importing' = [importing EXCEPT ![o] =
                [todo |-> s, all |-> s, at |-> "writing", others |-> {}]]
    BY <1>4 DEF BeginImport
  <2>2. Consistent(export[o]) /\ UNCHANGED <<config, export>>
    BY <1>4 DEF BeginImport, ConfigInv
  <2>3. IsFiniteSet(export[o])
    <3>1. PICK f : f = [e \in export[o] |-> e.key]
      OBVIOUS
    <3>2. f \in Injection(export[o], Settings)
      BY <2>2, <3>1 DEF Consistent, Entries, Injection, IsInjective
    <3> QED BY <3>2, FS_Injection, OperatorAssumption
  <2>4. s \in Seq(Entries) /\ \A i, j \in 1 .. Len(s) : s[i].key = s[j].key => s[i] = s[j]
    <3>1. PICK n \in Nat : n = Cardinality(export[o])
      BY <2>3, FS_CardinalityType
    <3>2. s \in [1 .. n -> export[o]] /\ export[o] \subseteq Entries
      BY <3>1, <2>2 DEF Consistent
    <3>3. s \in Seq(Entries) /\ Len(s) = n
      BY <3>1, <3>2
    <3> QED BY <2>2, <3>2, <3>3 DEF Consistent
  <2> DEFINE new == [todo |-> s, all |-> s, at |-> "writing", others |-> {}]
  <2>5. new \in UnderWay
    BY <2>4 DEF UnderWay
  <2>6. Importing(new, config)
    <3>1. Written(new) = 0 /\ Len(s) \in Nat
      BY <2>4 DEF Written
    <3>2. new.todo = s /\ new.all = s /\ new.at = "writing"
      OBVIOUS
    <3>3. \A i \in 1 .. Len(s) : s[i] = s[0 + i]
      OBVIOUS
    <3> HIDE DEF new
    <3> QED BY <2>4, <3>1, <3>2, <3>3 DEF Importing
  <2> HIDE DEF new
  <2>7. importing' = [importing EXCEPT ![o] = new]
    BY <2>1 DEF new
  <2> QED BY <2>2, <2>5, <2>6, <2>7 DEF ConfigInv
<1>5. ASSUME NEW o \in Operators, EndImport(o) PROVE ConfigInv'
  <2>1. /\ importing[o].at = "writing" /\ importing[o].todo = <<>>
        /\ importing' = [importing EXCEPT ![o].at = "ok"] /\ UNCHANGED <<config, export>>
        /\ importing[o] \in UnderWay /\ Importing(importing[o], config)
    BY <1>5 DEF EndImport, ConfigInv
  <2> DEFINE imp == importing[o]
  <2>2. PICK new : new = [imp EXCEPT !.at = "ok"]
    OBVIOUS
  <2>3. /\ new \in UnderWay /\ new.todo = imp.todo /\ new.all = imp.all
        /\ new.at = "ok" /\ new.others = imp.others
    BY <2>1, <2>2 DEF UnderWay
  <2>4. Importing(new, config)
    BY <2>1, <2>3 DEF Importing, Written
  <2>5. /\ importing' \in [Operators -> UnderWay] /\ importing'[o] = new
        /\ \A q \in Operators : q # o => importing'[q] = importing[q]
    BY <2>1, <2>2, <2>3 DEF ConfigInv
  <2> QED BY <2>1, <2>4, <2>5 DEF ConfigInv
<1> QED BY <1>1, <1>2, <1>3, <1>4, <1>5 DEF ConfigNext

\* A process that has started again has no keys, no addresses and no imports
\* under way, and the configuration it had.
LEMMA RestartStep == OperatorInv /\ Restart => OperatorInv'
<1> SUFFICES ASSUME OperatorInv, Restart PROVE OperatorInv'
  OBVIOUS
<1>1. (keys = <<>> /\ seen = [o \in Operators |-> NoKey] => KeyInv)'
  BY NoKeys, PTL
<1>2. (allowed = {} /\ answers = [a \in {"added", "removed"} |-> [x \in Addresses |-> 0]]
         => AddressInv)'
  BY NoAnswers, PTL
<1>3. KeyInv' /\ AddressInv'
  BY <1>1, <1>2 DEF Restart
<1>4. ConfigInv'
  <2>1. /\ importing' \in [Operators -> UnderWay]
        /\ \A o \in Operators : importing'[o].at \in {"writing", "ok"} =>
                                   importing'[o] = importing[o]
    BY NoImportIsOne DEF Restart, OperatorInv, ConfigInv
  <2>2. UNCHANGED <<config, export>>
    BY DEF Restart
  <2> QED BY <2>1, <2>2 DEF OperatorInv, ConfigInv
<1> QED BY <1>3, <1>4 DEF OperatorInv

LEMMA OperatorStep == OperatorInv /\ [OperatorNext]_operatorVars => OperatorInv'
<1> SUFFICES ASSUME OperatorInv, [OperatorNext]_operatorVars PROVE OperatorInv'
  OBVIOUS
<1>1. ASSUME UNCHANGED keyVars PROVE KeyInv'
  BY <1>1 DEF keyVars, KeyInv, OperatorInv
<1>2. ASSUME UNCHANGED addressVars PROVE AddressInv'
  BY <1>2 DEF addressVars, AddressInv, AllowedAsAnswered, OperatorInv
<1>3. ASSUME UNCHANGED configVars PROVE ConfigInv'
  BY <1>3 DEF configVars, ConfigInv, OperatorInv
<1>4. CASE KeyNext
  <2>1. UNCHANGED <<addressVars, configVars>>
    BY <1>4 DEF KeyNext, AddKey, KeyHealth, RotateKey
  <2> QED BY <1>2, <1>3, <1>4, <2>1, KeyStep DEF OperatorInv
<1>5. CASE AddressNext
  <2>1. UNCHANGED <<keyVars, configVars>>
    BY <1>5 DEF AddressNext, AddIP, RemoveIP
  <2> QED BY <1>1, <1>3, <1>5, <2>1, AddressStep DEF OperatorInv
<1>6. CASE ConfigNext
  <2>1. UNCHANGED <<keyVars, addressVars>>
    BY <1>6 DEF ConfigNext, ExportConfig, BeginImport, ImportEntry, EndImport, SetConfig
  <2> QED BY <1>1, <1>2, <1>6, <2>1, ConfigStep DEF OperatorInv
<1>7. CASE Restart
  BY <1>7, RestartStep
<1>8. CASE UNCHANGED operatorVars
  BY <1>1, <1>2, <1>3, <1>8 DEF operatorVars, OperatorInv, keyVars, addressVars, configVars
<1> QED BY <1>4, <1>5, <1>6, <1>7, <1>8 DEF OperatorNext

LEMMA OperatorHonest ==
    OperatorInv => OperatorTypeOK /\ OneActiveKey /\ AllowedAsAnswered /\ ImportedAsAnswered
<1> SUFFICES ASSUME OperatorInv
             PROVE  OperatorTypeOK /\ OneActiveKey /\ AllowedAsAnswered /\ ImportedAsAnswered
  OBVIOUS
<1>1. OneActiveKey /\ AllowedAsAnswered
  BY OneIsActive DEF OperatorInv, AddressInv
<1>2. ImportedAsAnswered
  <2> SUFFICES ASSUME NEW o \in Operators, importing[o].at = "ok",
                      NEW i \in DOMAIN importing[o].all
               PROVE  \/ importing[o].all[i].key \in importing[o].others
                      \/ config[importing[o].all[i].key] = importing[o].all[i].value
    BY DEF ImportedAsAnswered
  <2>1. importing[o] \in UnderWay /\ Importing(importing[o], config)
    BY DEF OperatorInv, ConfigInv
  <2>2. importing[o].all \in Seq(Entries) /\ importing[o].todo = <<>>
    BY <2>1 DEF UnderWay, Importing
  <2>3. i \in 1 .. Len(importing[o].all) /\ Written(importing[o]) = Len(importing[o].all)
    BY <2>2 DEF Written
  <2> QED BY <2>1, <2>3 DEF Importing
<1>3. OperatorTypeOK
  <2>1. \A i \in 1 .. Len(keys) : /\ keys[i].status \in {"active", "revoked"}
                                  /\ keys[i].root \in 1 .. i
    <3>1. \A i \in 1 .. Len(keys) : keys[i] \in KeyRow /\ keys[i].root \in 1 .. i
      BY DEF OperatorInv, KeyInv
    <3> QED BY <3>1 DEF KeyRow
  <2>2. \A o \in Operators : seen[o] \in 1 .. MaxKeys \cup {NoKey}
    <3>1. Len(keys) \in Nat /\ Len(keys) <= MaxKeys
      BY DEF OperatorInv, KeyInv
    <3>2. 1 .. Len(keys) \subseteq 1 .. MaxKeys
      BY <3>1, OperatorAssumption
    <3> QED BY <3>2 DEF OperatorInv, KeyInv
  <2>3. \A o \in Operators : /\ importing[o].at \in {"none", "writing", "ok", "error"}
                             /\ export[o] \subseteq Entries
                             /\ importing[o].others \subseteq Settings
    <3>1. \A o \in Operators : importing[o] \in UnderWay /\ Consistent(export[o])
      BY DEF OperatorInv, ConfigInv
    <3> QED BY <3>1 DEF UnderWay, Consistent
  <2> QED BY <2>1, <2>2, <2>3
          DEF OperatorTypeOK, OperatorInv, KeyInv, AddressInv, ConfigInv
<1> QED BY <1>1, <1>2, <1>3

\* Of the keys that descend from one key exactly one is active, whoever rotates
\* them and however often; an address is allowed exactly when one more addition
\* than removal of it has been answered; and the settings an import answered for
\* are on record, but for those others have written since it began
\* (apikeyrotation/engine.go, ipwhitelist/engine.go, serverconfig/store.go).
THEOREM OperatorHonestAlways ==
    OperatorSpec => [](OperatorTypeOK /\ OneActiveKey /\ AllowedAsAnswered /\ ImportedAsAnswered)
BY OperatorInitInv, OperatorStep, OperatorHonest, PTL DEF OperatorSpec

-----------------------------------------------------------------------------
(* Runs of the command line.                                               *)

LineOrNone == Lines \cup {NewRun.line}
TaskOrNone == {"none"} \cup {c.task : c \in Commands}

Stages == {"new", "parse", "send", "sent", "answered", "exited"}
Statuses == {0, 200, 400, 404, 500}
Codes == 0 .. 2
FaultSets == SUBSET Faults

RunRow == [line : LineOrNone, at : Stages, task : TaskOrNone,
           status : Statuses, code : Codes,
           faults : FaultSets]

\* The tasks the server does what is asked for.
ServedTasks == {"query_price", "negotiate"}

\* The server answers with a status, 200 only to a task it serves; a run that
\* is given no answer, or that loses it, does not exit with 0.
RunAt(r) ==
    /\ r.status = 200 => r.task \in ServedTasks
    /\ r.status # 0 => r.at \in {"answered", "exited"}
    /\ r.at = "answered" => r.status # 0
    /\ r.at = "exited" /\ r.code = 0 => r.status = 200

Served == {r \in Runs : run[r].at \in {"answered", "exited"}}
Won == {r \in Runs : run[r].task = "negotiate" /\ run[r].status = 200}

CliInv ==
    /\ run \in [Runs -> RunRow]
    /\ \A r \in Runs : RunAt(run[r])
    /\ mandates \in Nat /\ sessions \in Nat
    /\ Cardinality(Won) <= mandates /\ mandates <= Cardinality(Served)
    /\ sessions <= Cardinality(Served)

\* The run r exits, with 0 only if the server did what it was asked for.
Exits(r) == \E code \in Codes, why \in FaultSets :
               Exit(r, code, why) /\ (code = 0 => run[r].status = 200)

\* The server answers r, with 200 to a negotiation only with a mandate.
Replies(r) == \E status \in Statuses \ {0}, why \in FaultSets, m \in {0, 1}, s \in {0, 1} :
                 /\ Reply(r, status, why)
                 /\ mandates' = mandates + m /\ sessions' = sessions + s
                 /\ status = 200 /\ run[r].task = "negotiate" => m = 1
                 /\ status = 200 => run[r].task \in ServedTasks

LEMMA CliInitInv == CliInit => CliInv
<1> SUFFICES ASSUME CliInit PROVE CliInv
  OBVIOUS
<1>1. NewRun \in RunRow /\ RunAt(NewRun) /\ NewRun.at = "new" /\ NewRun.status = 0
  <2>1. NewRun.line \in LineOrNone /\ NewRun.task \in TaskOrNone
    BY DEF LineOrNone, TaskOrNone, NewRun
  <2>2. NewRun.at \in Stages /\ NewRun.status \in Statuses /\ NewRun.code \in Codes
    BY DEF NewRun, Stages, Statuses, Codes
  <2> QED BY <2>1, <2>2 DEF NewRun, RunRow, RunAt, FaultSets
<1>2. run = [r \in Runs |-> NewRun] /\ mandates = 0 /\ sessions = 0
  BY DEF CliInit
<1>3. Won = {} /\ Served = {}
  BY <1>1, <1>2 DEF Won, Served
<1> QED BY <1>1, <1>2, <1>3, FS_EmptySet DEF CliInv

LEMMA OneMoreAtMost ==
    ASSUME NEW S, NEW x, IsFiniteSet(S)
    PROVE  /\ IsFiniteSet(S \cup {x}) /\ Cardinality(S) \in Nat
           /\ Cardinality(S \cup {x}) \in Nat
           /\ Cardinality(S \cup {x}) <= Cardinality(S) + 1
           /\ x \notin S => Cardinality(S \cup {x}) = Cardinality(S) + 1
<1>1. Cardinality(S) \in Nat
  BY FS_CardinalityType
<1>2. /\ IsFiniteSet(S \cup {x})
      /\ Cardinality(S \cup {x}) = IF x \in S THEN Cardinality(S) ELSE Cardinality(S) + 1
  BY FS_AddElement
<1> QED BY <1>1, <1>2

\* The steps of one run.
LEMMA RowLaunched ==
    ASSUME NEW row \in RunRow, NEW line \in LineOrNone, NEW new,
           new = [row EXCEPT !.at = "parse", !.line = line]
    PROVE  new \in RunRow /\ new.at = "parse" /\ new.status = row.status
<1>1. "parse" \in Stages
  BY DEF Stages
<1> QED BY <1>1 DEF RunRow

LEMMA RowParsed ==
    ASSUME NEW row \in RunRow, NEW task \in TaskOrNone, NEW new,
           new = [row EXCEPT !.at = "send", !.task = task]
    PROVE  new \in RunRow /\ new.at = "send" /\ new.status = row.status
<1>1. "send" \in Stages
  BY DEF Stages
<1> QED BY <1>1 DEF RunRow

LEMMA RowSent ==
    ASSUME NEW row \in RunRow, NEW new, new = [row EXCEPT !.at = "sent"]
    PROVE  new \in RunRow /\ new.at = "sent" /\ new.status = row.status
<1>1. "sent" \in Stages
  BY DEF Stages
<1> QED BY <1>1 DEF RunRow

LEMMA RunMoves ==
    ASSUME CliInv, NEW r \in Runs, NEW new \in RunRow, Put(r, new), RunAt(new),
           run[r].at \in {"answered", "exited"} => new.at \in {"answered", "exited"},
           run[r].at \in {"answered", "exited"} =>
              new.status = run[r].status /\ new.task = run[r].task,
           NEW m \in {0, 1}, NEW s \in {0, 1}, mandates' = mandates + m,
           sessions' = sessions + s,
           m = 1 \/ s = 1 => /\ run[r].at \notin {"answered", "exited"}
                             /\ new.at \in {"answered", "exited"},
           new.status = 200 /\ new.task = "negotiate" /\ run[r].status # 200 => m = 1
    PROVE  CliInv'
<1>1. /\ run' \in [Runs -> RunRow] /\ run'[r] = new
      /\ \A q \in Runs : q # r => run'[q] = run[q]
  BY DEF Put, CliInv
<1>2. /\ IsFiniteSet(Won) /\ IsFiniteSet(Served)
      /\ Cardinality(Won) \in Nat /\ Cardinality(Served) \in Nat
  <2>1. Won \in SUBSET Runs /\ Served \in SUBSET Runs
    BY DEF Won, Served
  <2> QED BY <2>1, CliAssumption, FS_Subset, FS_CardinalityType
<1>3. RunAt(run[r]) /\ mandates \in Nat /\ sessions \in Nat
  BY DEF CliInv
<1>4. /\ Won' \subseteq Won \cup {r}
      /\ Won' # Won \cup {r} => Won' = Won
      /\ m = 0 => Won' \subseteq Won
  BY <1>1, <1>3 DEF Won, RunAt
<1>5. /\ Served \subseteq Served' /\ Served' \subseteq Served \cup {r}
      /\ m = 1 \/ s = 1 => r \notin Served /\ r \in Served'
  BY <1>1 DEF Served
<1>6. Cardinality(Won') <= Cardinality(Won) + m
  <2>1. IsFiniteSet(Won \cup {r}) /\ Cardinality(Won \cup {r}) <= Cardinality(Won) + 1
    BY ONLY <1>2, OneMoreAtMost
  <2>2. /\ Cardinality(Won') <= Cardinality(Won \cup {r})
        /\ Cardinality(Won') \in Nat
    BY <1>4, <2>1, FS_Subset, FS_CardinalityType
  <2>3. m = 0 => Cardinality(Won') <= Cardinality(Won)
    BY <1>2, <1>4, FS_Subset
  <2>4. Cardinality(Won \cup {r}) \in Nat
    BY ONLY <1>2, OneMoreAtMost
  <2> QED BY <1>2, <2>1, <2>2, <2>3, <2>4
<1>7. /\ Cardinality(Served) + m <= Cardinality(Served')
      /\ Cardinality(Served) + s <= Cardinality(Served')
  <2>1. CASE r \notin Served /\ r \in Served'
    <3>1. Served' = Served \cup {r}
      BY <1>5, <2>1
    <3>2. Cardinality(Served') = Cardinality(Served) + 1
      BY <1>2, <2>1, <3>1, OneMoreAtMost
    <3> QED BY <1>2, <3>2
  <2>2. CASE ~(r \notin Served /\ r \in Served')
    <3>1. Served' = Served /\ m = 0 /\ s = 0
      BY <1>5, <2>2
    <3> QED BY <1>2, <3>1
  <2> QED BY <2>1, <2>2
<1>8. \A q \in Runs : RunAt(run'[q])
  BY <1>1 DEF CliInv
<1>9. /\ mandates' \in Nat /\ sessions' \in Nat
      /\ Cardinality(Won') <= mandates' /\ mandates' <= Cardinality(Served')
      /\ sessions' <= Cardinality(Served')
  <2>1. IsFiniteSet(Won') /\ IsFiniteSet(Served')
    BY <1>2, <1>4, <1>5, FS_AddElement, FS_Subset
  <2>2. Cardinality(Won') \in Nat /\ Cardinality(Served') \in Nat
    BY <2>1, FS_CardinalityType
  <2> QED BY <1>2, <1>3, <1>6, <1>7, <2>2 DEF CliInv
<1> QED BY <1>1, <1>8, <1>9 DEF CliInv

\* A run ends with a fault, or after its answer.
LEMMA ExitStep ==
    ASSUME CliInv, NEW r \in Runs, Exits(r)
    PROVE  CliInv'
<1>1. PICK code \in Codes, why \in FaultSets :
         Exit(r, code, why) /\ (code = 0 => run[r].status = 200)
  BY DEF Exits
<1>2. run[r] \in RunRow /\ RunAt(run[r]) /\ mandates \in Nat /\ sessions \in Nat
  BY DEF CliInv
<1>3. PICK faults : faults = run[r].faults \cup why
  OBVIOUS
<1>4. PICK new : new = [run[r] EXCEPT !.at = "exited", !.code = code, !.faults = faults]
  OBVIOUS
<1>5. faults \in FaultSets
  BY <1>2, <1>3 DEF RunRow, FaultSets
<1>6. /\ new \in RunRow /\ new.at = "exited" /\ new.code = code
      /\ new.status = run[r].status /\ new.task = run[r].task
  <2>1. PICK row \in RunRow : row = run[r]
    BY <1>2
  <2>2. new = [row EXCEPT !.at = "exited", !.code = code,
                          !.faults = faults]
    BY ONLY <1>4, <2>1, Zenon
  <2>3. "exited" \in Stages
    BY DEF Stages
  <2>4. /\ new \in RunRow /\ new.at = "exited" /\ new.code = code
        /\ new.status = row.status /\ new.task = row.task
    BY ONLY <1>5, <2>2, <2>3 DEF RunRow
  <2> QED BY <2>1, <2>4
<1>7. Put(r, new) /\ UNCHANGED <<mandates, sessions>>
  BY <1>1, <1>3, <1>4, Zenon DEF Exit
<1>8. RunAt(new)
  BY <1>1, <1>2, <1>6 DEF RunAt
<1>9. mandates' = mandates + 0 /\ sessions' = sessions + 0
  BY <1>2, <1>7
<1> QED BY <1>6, <1>7, <1>8, <1>9, RunMoves

\* A run goes on before it was served.
LEMMA GoesOn ==
    ASSUME CliInv, NEW r \in Runs, NEW new \in RunRow, Put(r, new),
           UNCHANGED <<mandates, sessions>>,
           run[r].at \notin {"answered", "exited"}, new.at \notin {"answered", "exited"},
           new.status = 0
    PROVE  CliInv'
<1>1. RunAt(new)
  BY DEF RunAt
<1>2. mandates' = mandates + 0 /\ sessions' = sessions + 0
  BY DEF CliInv
<1> QED BY <1>1, <1>2, RunMoves

\* The server answers.
LEMMA ReplyStep ==
    ASSUME CliInv, NEW r \in Runs, run[r].at = "sent", Replies(r)
    PROVE  CliInv'
<1>1. PICK status \in Statuses \ {0}, why \in FaultSets, m \in {0, 1}, s \in {0, 1} :
         /\ Reply(r, status, why)
         /\ mandates' = mandates + m /\ sessions' = sessions + s
         /\ status = 200 /\ run[r].task = "negotiate" => m = 1
         /\ status = 200 => run[r].task \in ServedTasks
  BY DEF Replies
<1>2. run[r] \in RunRow /\ RunAt(run[r])
  BY DEF CliInv
<1>3. PICK faults : faults = run[r].faults \cup why
  OBVIOUS
<1>4. PICK new : new = [run[r] EXCEPT !.at = "answered", !.status = status,
                                      !.faults = faults]
  OBVIOUS
<1>5. faults \in FaultSets /\ status \in Statuses /\ status # 0
  BY <1>2, <1>3 DEF RunRow, FaultSets
<1>6. /\ new \in RunRow /\ new.at = "answered" /\ new.status = status
      /\ new.task = run[r].task
  <2>1. PICK row \in RunRow : row = run[r]
    BY <1>2
  <2>2. new = [row EXCEPT !.at = "answered", !.status = status,
                          !.faults = faults]
    BY ONLY <1>4, <2>1, Zenon
  <2>3. "answered" \in Stages
    BY DEF Stages
  <2>4. /\ new \in RunRow /\ new.at = "answered" /\ new.status = status
        /\ new.task = row.task
    BY ONLY <1>5, <2>2, <2>3 DEF RunRow
  <2> QED BY <2>1, <2>4
<1>7. Put(r, new)
  BY <1>1, <1>3, <1>4, Zenon DEF Reply
<1>8. RunAt(new)
  BY <1>1, <1>5, <1>6 DEF RunAt
<1> QED BY <1>1, <1>6, <1>7, <1>8, RunMoves

LEMMA CliStep == CliInv /\ [CliNext]_cliVars => CliInv'
<1> SUFFICES ASSUME CliInv, [CliNext]_cliVars PROVE CliInv'
  OBVIOUS
<1>0. \A r \in Runs : run[r] \in RunRow /\ RunAt(run[r])
  BY DEF CliInv
<1>b. /\ {} \in FaultSets /\ {"line"} \in FaultSets
      /\ {"server"} \in FaultSets /\ {"network"} \in FaultSets
  BY DEF Faults, FaultSets
<1>c. 0 \in Codes /\ 1 \in Codes /\ 2 \in Codes /\ 1 # 0 /\ 2 # 0
  BY DEF Codes
<1>d. ASSUME NEW r \in Runs, NEW why \in FaultSets,
             Exit(r, 1, why) \/ Exit(r, 2, why)
      PROVE  CliInv'
  <2>1. Exits(r)
    BY <1>c, <1>d DEF Exits
  <2> QED BY <2>1, ExitStep
<1>e. /\ 200 \in Statuses \ {0} /\ 400 \in Statuses \ {0} /\ 404 \in Statuses \ {0}
      /\ 500 \in Statuses \ {0} /\ 400 # 200 /\ 404 # 200 /\ 500 # 200
      /\ 0 \in {0, 1} /\ 1 \in {0, 1} /\ mandates + 0 = mandates /\ sessions + 0 = sessions
  BY DEF Statuses, CliInv
<1>f. ASSUME NEW r \in Runs, run[r].at = "sent", NEW why \in FaultSets,
             NEW status \in {200, 400, 404, 500}, Reply(r, status, why),
             status # 200 \/ run[r].task \in ServedTasks,
             sessions' \in {sessions, sessions + 1},
             \/ mandates' = mandates + 1
             \/ mandates' = mandates /\ (status # 200 \/ run[r].task # "negotiate")
      PROVE  CliInv'
  <2>1. status \in Statuses \ {0}
    BY <1>e
  <2>2. PICK s \in {0, 1} : sessions' = sessions + s
    BY <1>e, <1>f
  <2>3. PICK m \in {0, 1} : /\ mandates' = mandates + m
                            /\ status = 200 /\ run[r].task = "negotiate" => m = 1
    BY <1>e, <1>f
  <2>4. Replies(r)
    BY <1>f, <2>1, <2>2, <2>3 DEF Replies
  <2> QED BY <1>f, <2>4, ReplyStep
<1>1. ASSUME NEW r \in Runs, NEW line \in Lines, Launch(r, line) PROVE CliInv'
  <2>1. PICK new : new = [run[r] EXCEPT !.at = "parse", !.line = line]
    OBVIOUS
  <2>2. line \in LineOrNone /\ run[r] \in RunRow
    BY <1>0 DEF LineOrNone
  <2>3. new \in RunRow /\ new.at = "parse" /\ new.status = run[r].status
    BY ONLY <2>1, <2>2, RowLaunched, Zenon
  <2>4. run[r].at = "new" /\ Put(r, new) /\ UNCHANGED <<mandates, sessions>>
    BY <1>1, <2>1, Zenon DEF Launch
  <2>5. run[r].status = 0
    BY <1>0, <2>4 DEF RunAt
  <2> QED BY <2>3, <2>4, <2>5, GoesOn
<1>2. ASSUME NEW r \in Runs, ParseLine(r) PROVE CliInv'
  <2>1. run[r].at = "parse" /\ run[r].status = 0
    BY <1>0, <1>2 DEF ParseLine, RunAt
  <2>2. \/ Exit(r, 1, {"line"})
        \/ Exit(r, 2, {"line"})
        \/ \E c \in Commands : /\ Put(r, [run[r] EXCEPT !.at = "send", !.task = c.task])
                               /\ UNCHANGED <<mandates, sessions>>
    BY <1>2 DEF ParseLine, CommandOf
  <2>3. ASSUME NEW c \in Commands, Put(r, [run[r] EXCEPT !.at = "send", !.task = c.task]),
               UNCHANGED <<mandates, sessions>>
        PROVE  CliInv'
    <3>1. PICK task : task = c.task
      OBVIOUS
    <3>2. PICK new : new = [run[r] EXCEPT !.at = "send", !.task = task]
      OBVIOUS
    <3>3. task \in TaskOrNone /\ run[r] \in RunRow
      BY <1>0, <3>1 DEF TaskOrNone
    <3>4. new \in RunRow /\ new.at = "send" /\ new.status = run[r].status
      BY ONLY <3>2, <3>3, RowParsed, Zenon
    <3>5. Put(r, new)
      BY <2>3, <3>1, <3>2, Zenon
    <3> QED BY <2>1, <2>3, <3>4, <3>5, GoesOn
  <2>4. Exit(r, 1, {"line"}) \/ Exit(r, 2, {"line"}) => CliInv'
    BY <1>b, <1>d, Zenon
  <2> QED BY <2>2, <2>3, <2>4, Zenon
<1>3. ASSUME NEW r \in Runs, Send(r) PROVE CliInv'
  <2>1. run[r].at = "send" /\ run[r].status = 0
    BY <1>0, <1>3 DEF Send, RunAt
  <2>2. PICK new : new = [run[r] EXCEPT !.at = "sent"]
    OBVIOUS
  <2>3. run[r] \in RunRow
    BY <1>0
  <2>4. new \in RunRow /\ new.at = "sent" /\ new.status = run[r].status
    BY ONLY <2>2, <2>3, RowSent, Zenon
  <2>5. \/ Exit(r, 1, {"network"})
        \/ Put(r, new) /\ UNCHANGED <<mandates, sessions>>
    BY <1>3, <2>2, Zenon DEF Send
  <2>6. Exit(r, 1, {"network"}) => CliInv'
    BY <1>b, <1>d, Zenon
  <2> QED BY <2>1, <2>4, <2>5, <2>6, GoesOn
<1>4. ASSUME NEW r \in Runs, ServeQuery(r) PROVE CliInv'
  <2>1. /\ run[r].at = "sent" /\ run[r].task # "negotiate" /\ mandates' = mandates
        /\ run[r].task \in ServedTasks
    BY <1>4 DEF ServeQuery, ServedTasks
  <2>2. \/ Reply(r, 404, {"line"}) /\ sessions' \in {sessions, sessions + 1}
        \/ Reply(r, 200, {}) /\ sessions' \in {sessions, sessions + 1}
    BY <1>4 DEF ServeQuery
  <2> QED BY <2>1, <2>2, <1>b, <1>f
<1>5. ASSUME NEW r \in Runs, ServeNegotiate(r) PROVE CliInv'
  <2>1. run[r].at = "sent" /\ run[r].task \in ServedTasks
    BY <1>5 DEF ServeNegotiate, ServedTasks
  <2>2. \/ Reply(r, 500, {"server"}) /\ mandates' = mandates
        \/ Reply(r, 400, {"line"}) /\ mandates' = mandates + 1
        \/ Reply(r, 200, {}) /\ mandates' = mandates + 1
    BY <1>5 DEF ServeNegotiate
  <2>3. sessions' \in {sessions, sessions + 1}
    BY <1>5 DEF ServeNegotiate
  <2> QED BY <2>1, <2>2, <2>3, <1>b, <1>f
<1>6. ASSUME NEW r \in Runs, ServeUnknown(r) PROVE CliInv'
  <2>1. /\ run[r].at = "sent" /\ Reply(r, 400, {})
        /\ mandates' = mandates /\ sessions' \in {sessions, sessions + 1}
    BY <1>6 DEF ServeUnknown
  <2> QED BY <2>1, <1>b, <1>f
<1>7. ASSUME NEW r \in Runs, Receive(r) PROVE CliInv'
  <2>1. run[r].at = "answered" /\ RunAt(run[r]) /\ run[r] \in RunRow
    BY <1>0, <1>7 DEF Receive
  <2>2. \/ run[r].status >= 400 /\ Exit(r, 1, {})
        \/ ~(run[r].status >= 400) /\ Exit(r, 0, {})
        \/ Exit(r, 1, {"network"})
    BY <1>7, Zenon DEF Receive
  <2>3. ~(run[r].status >= 400) => run[r].status = 200
    BY <2>1 DEF RunAt, RunRow, Statuses
  <2>4. Exit(r, 1, {}) => CliInv'
    BY <1>b, <1>d, Zenon
  <2>5. Exit(r, 0, {}) /\ run[r].status = 200 => CliInv'
    <3> SUFFICES ASSUME Exit(r, 0, {}), run[r].status = 200 PROVE CliInv'
      OBVIOUS
    <3>1. Exits(r)
      BY <1>b, <1>c DEF Exits
    <3> QED BY <3>1, ExitStep
  <2>6. Exit(r, 1, {"network"}) => CliInv'
    BY <1>b, <1>d, Zenon
  <2> QED BY <2>2, <2>3, <2>4, <2>5, <2>6
<1>8. ASSUME NEW r \in Runs, Disconnect(r) PROVE CliInv'
  <2>1. Exit(r, 1, {"network"})
    BY <1>8, Zenon DEF Disconnect
  <2> QED BY <2>1, <1>b, <1>d, Zenon
<1>9. CASE UNCHANGED cliVars
  BY <1>9 DEF cliVars, CliInv, Won, Served
<1> QED BY <1>1, <1>2, <1>3, <1>4, <1>5, <1>6, <1>7, <1>8, <1>9 DEF CliNext

LEMMA CliHonest == CliInv => CliTypeOK /\ ExitIsHonest
<1> SUFFICES ASSUME CliInv PROVE CliTypeOK /\ ExitIsHonest
  OBVIOUS
<1> DEFINE Zero == {r \in Runs : /\ run[r].task = "negotiate"
                                 /\ run[r].at = "exited" /\ run[r].code = 0}
<1>1. \A r \in Runs : RunAt(run[r]) /\ run[r] \in RunRow
  BY DEF CliInv
<1>2. Won \in SUBSET Runs /\ Served \in SUBSET Runs /\ Zero \in SUBSET Won
  BY <1>1 DEF Won, Served, RunAt
<1>3. IsFiniteSet(Won) /\ IsFiniteSet(Served) /\ IsFiniteSet(Zero)
  BY <1>2, CliAssumption, FS_Subset
<1>4. Cardinality(Zero) <= Cardinality(Won) /\ Cardinality(Served) <= Cardinality(Runs)
  BY <1>2, <1>3, CliAssumption, FS_Subset
<1>5. /\ Cardinality(Zero) \in Nat /\ Cardinality(Won) \in Nat
      /\ Cardinality(Served) \in Nat /\ Cardinality(Runs) \in Nat
  BY <1>3, CliAssumption, FS_CardinalityType
<1>6. ExitIsHonest
  <2>1. mandates >= Cardinality(Zero)
    BY <1>4, <1>5 DEF CliInv
  <2> QED BY <1>1, <2>1 DEF ExitIsHonest, RunAt
<1>7. mandates \in 0 .. Cardinality(Runs) /\ sessions \in 0 .. Cardinality(Runs)
  BY <1>4, <1>5 DEF CliInv
<1>8. \A r \in Runs : /\ run[r].at \in {"new", "parse", "send", "sent", "answered", "exited"}
                      /\ run[r].code \in 0 .. 2
                      /\ run[r].status \in {0, 200, 400, 404, 500}
                      /\ run[r].line \in Lines \cup {NewRun.line}
                      /\ run[r].faults \subseteq Faults
  BY <1>1 DEF RunRow, FaultSets, LineOrNone, Stages, Statuses, Codes
<1> QED BY <1>6, <1>7, <1>8 DEF CliTypeOK

\* A run of the command line exits with 0 only when the server has answered it
\* with success, and each such run of negotiate stands for a mandate of its own,
\* for any lines and any number of runs, whatever breaks on the way (main,
\* runNegotiate and postJSON, cmd/cli/main.go; HandleNegotiate, a2a/handler.go).
THEOREM CliHonestAlways == CliSpec => [](CliTypeOK /\ ExitIsHonest)
BY CliInitInv, CliStep, CliHonest, PTL DEF CliSpec

\* A run that exits with 0 asked for a price or for a negotiation.
OtherCommandsFail ==
    \A r \in Runs : run[r].at = "exited" /\ run[r].code = 0 => run[r].task \in ServedTasks

\* Every other command of the client ends with an error, for any lines and any
\* number of runs: the run that refutes EveryCommandServed shows one, this says
\* that none of them is ever served (HandleTask, a2a/handler.go).
THEOREM OtherCommandsFailAlways == CliSpec => []OtherCommandsFail
<1>1. CliInv => OtherCommandsFail
  BY DEF CliInv, OtherCommandsFail, RunAt
<1> QED BY <1>1, CliInitInv, CliStep, PTL DEF CliSpec

-----------------------------------------------------------------------------
(* Learning: what a table of outcomes adds up to.                          *)

DealsIn(tab, v) == SumOver([t \in Tactics |-> tab[v][t].deals], Tactics)
DealsWith(tab, t) == SumOver([v \in Sellers |-> tab[v][t].deals], Sellers)

Pairs == Sellers \X Tactics
Outcomes(tab) == [p \in Pairs |-> tab[p[1]][p[2]].deals]
Whole(tab) == SumOver(Outcomes(tab), Pairs)

LEMMA DealsAreNumbers ==
    ASSUME NEW tab \in Table, NEW v \in Sellers, NEW t \in Tactics
    PROVE  tab[v][t] \in Group /\ tab[v][t].deals \in Nat /\ tab[v][t].discounts \in Nat
<1>1. tab[v][t] \in Group
  BY DEF Table
<1> QED BY <1>1 DEF Group

LEMMA DealsOfIsSum ==
    ASSUME learned \in Table, NEW v \in Sellers
    PROVE  DealsOf(v) = DealsIn(learned, v) /\ DealsIn(learned, v) \in Nat
<1>1. PICK deals : deals = [t \in Tactics |-> learned[v][t].deals]
  OBVIOUS
<1>2. \A t \in Tactics : deals[t] \in Nat
  BY <1>1, DealsAreNumbers
<1>3. \A sum : SumsUp(sum, deals, Tactics) <=>
          sum = [T \in SUBSET Tactics |->
                   IF T = {} THEN 0
                   ELSE learned[v][CHOOSE t \in T : TRUE].deals + sum[T \ {CHOOSE t \in T : TRUE}]]
  BY <1>1 DEF SumsUp, Foremost
<1>4. DealsOf(v) = SumOver(deals, Tactics)
  BY ZenonT(60), <1>3 DEF DealsOf, MapThenSumSet, MapThenFoldSet, SumOver
<1>5. SumOver(deals, Tactics) \in Nat
  BY <1>2, LearningAssumption, SumOfPart
<1> QED BY <1>1, <1>4, <1>5 DEF DealsIn

LEMMA DealsByIsSum ==
    ASSUME learned \in Table, NEW t \in Tactics
    PROVE  DealsBy(t) = DealsWith(learned, t) /\ DealsWith(learned, t) \in Nat
<1>1. PICK deals : deals = [v \in Sellers |-> learned[v][t].deals]
  OBVIOUS
<1>2. \A v \in Sellers : deals[v] \in Nat
  BY <1>1, DealsAreNumbers
<1>3. \A sum : SumsUp(sum, deals, Sellers) <=>
          sum = [T \in SUBSET Sellers |->
                   IF T = {} THEN 0
                   ELSE learned[CHOOSE v \in T : TRUE][t].deals + sum[T \ {CHOOSE v \in T : TRUE}]]
  BY <1>1 DEF SumsUp, Foremost
<1>4. DealsBy(t) = SumOver(deals, Sellers)
  BY ZenonT(60), <1>3 DEF DealsBy, MapThenSumSet, MapThenFoldSet, SumOver
<1>5. SumOver(deals, Sellers) \in Nat
  BY <1>2, LearningAssumption, SumOfPart
<1> QED BY <1>1, <1>4, <1>5 DEF DealsWith

\* All outcomes are those of each vendor, or of each strategy, together.
LEMMA PairsAreFinite == IsFiniteSet(Pairs) /\ IsFiniteSet(Sellers) /\ IsFiniteSet(Tactics)
BY LearningAssumption, FS_Product DEF Pairs

\* The sum over the pairs of one vendor, one strategy at a time.
LEMMA OneSeller ==
    ASSUME NEW tab \in Table, NEW v \in Sellers, NEW mine, mine = {v} \X Tactics
    PROVE  mine \subseteq Pairs /\ DealsIn(tab, v) = SumOver(Outcomes(tab), mine)
<1>1. PICK f, g : f = Outcomes(tab) /\ g = [t \in Tactics |-> tab[v][t].deals]
  OBVIOUS
<1>2. PICK part : part = [t \in Tactics |-> {<<v, t>>}]
  OBVIOUS
<1>3. mine \subseteq Pairs
  BY DEF Pairs
<1>4. \A p \in mine : f[p] \in Int
  BY <1>1, <1>3, DealsAreNumbers DEF Outcomes, Pairs
<1>5. \A t \in Tactics : part[t] \in SUBSET mine
  BY <1>2
<1>6. \A t \in Tactics : g[t] = SumOver(f, part[t])
  <2>1. ASSUME NEW t \in Tactics PROVE g[t] = SumOver(f, part[t])
    <3>1. PICK p : p = <<v, t>>
      OBVIOUS
    <3>2. f[p] = g[t] /\ f[p] \in Int
      BY <1>1, <1>4, <3>1 DEF Outcomes, Pairs
    <3>3. SumOver(f, {p}) = f[p]
      BY <3>2, SumOne
    <3> QED BY <1>2, <3>1, <3>2, <3>3
  <2> QED BY <2>1
<1>7. \A s, t \in Tactics : s # t => part[s] \cap part[t] = {}
  BY <1>2
<1>8. \A p \in mine : \E t \in Tactics : p \in part[t]
  BY <1>2
<1>9. IsFiniteSet(mine)
  BY <1>3, PairsAreFinite, FS_Subset
<1>10. SumOver(g, Tactics) = SumOver(f, mine)
  BY ONLY <1>4, <1>5, <1>6, <1>7, <1>8, <1>9, PairsAreFinite, SumOfPartition
<1> QED BY <1>1, <1>3, <1>10 DEF DealsIn

LEMMA OneTactic ==
    ASSUME NEW tab \in Table, NEW t \in Tactics, NEW mine, mine = Sellers \X {t}
    PROVE  mine \subseteq Pairs /\ DealsWith(tab, t) = SumOver(Outcomes(tab), mine)
<1>1. PICK f, g : f = Outcomes(tab) /\ g = [v \in Sellers |-> tab[v][t].deals]
  OBVIOUS
<1>2. PICK part : part = [v \in Sellers |-> {<<v, t>>}]
  OBVIOUS
<1>3. mine \subseteq Pairs
  BY DEF Pairs
<1>4. \A p \in mine : f[p] \in Int
  BY <1>1, <1>3, DealsAreNumbers DEF Outcomes, Pairs
<1>5. \A v \in Sellers : part[v] \in SUBSET mine
  BY <1>2
<1>6. \A v \in Sellers : g[v] = SumOver(f, part[v])
  <2>1. ASSUME NEW v \in Sellers PROVE g[v] = SumOver(f, part[v])
    <3>1. PICK p : p = <<v, t>>
      OBVIOUS
    <3>2. f[p] = g[v] /\ f[p] \in Int
      BY <1>1, <1>4, <3>1 DEF Outcomes, Pairs
    <3>3. SumOver(f, {p}) = f[p]
      BY <3>2, SumOne
    <3> QED BY <1>2, <3>1, <3>2, <3>3
  <2> QED BY <2>1
<1>7. \A v, w \in Sellers : v # w => part[v] \cap part[w] = {}
  BY <1>2
<1>8. \A p \in mine : \E v \in Sellers : p \in part[v]
  BY <1>2
<1>9. IsFiniteSet(mine)
  BY <1>3, PairsAreFinite, FS_Subset
<1>10. SumOver(g, Sellers) = SumOver(f, mine)
  BY ONLY <1>4, <1>5, <1>6, <1>7, <1>8, <1>9, PairsAreFinite, SumOfPartition
<1> QED BY <1>1, <1>3, <1>10 DEF DealsWith

LEMMA CountedTwoWays ==
    ASSUME NEW tab \in Table
    PROVE  /\ Whole(tab) \in Nat
           /\ SumOver([v \in Sellers |-> DealsIn(tab, v)], Sellers) = Whole(tab)
           /\ SumOver([t \in Tactics |-> DealsWith(tab, t)], Tactics) = Whole(tab)
<1>1. PICK f : f = Outcomes(tab)
  OBVIOUS
<1>2. \A p \in Pairs : f[p] \in Int /\ f[p] \in Nat
  BY <1>1, DealsAreNumbers DEF Outcomes, Pairs
<1>3. SumOver(f, Pairs) \in Nat
  BY <1>2, PairsAreFinite, SumOfPart
<1>4. SumOver([v \in Sellers |-> DealsIn(tab, v)], Sellers) = SumOver(f, Pairs)
  <2>1. PICK g, part : /\ g = [v \in Sellers |-> DealsIn(tab, v)]
                       /\ part = [v \in Sellers |-> {v} \X Tactics]
    OBVIOUS
  <2>2. \A v \in Sellers : part[v] \in SUBSET Pairs /\ g[v] = SumOver(f, part[v])
    BY <1>1, <2>1, OneSeller
  <2>3. \A v, w \in Sellers : v # w => part[v] \cap part[w] = {}
    BY <2>1
  <2>4. \A p \in Pairs : \E v \in Sellers : p \in part[v]
    BY <2>1 DEF Pairs
  <2>5. SumOver(g, Sellers) = SumOver(f, Pairs)
    BY ONLY <1>2, <2>2, <2>3, <2>4, PairsAreFinite, SumOfPartition
  <2> QED BY <2>1, <2>5
<1>5. SumOver([t \in Tactics |-> DealsWith(tab, t)], Tactics) = SumOver(f, Pairs)
  <2>1. PICK g, part : /\ g = [t \in Tactics |-> DealsWith(tab, t)]
                       /\ part = [t \in Tactics |-> Sellers \X {t}]
    OBVIOUS
  <2>2. \A t \in Tactics : part[t] \in SUBSET Pairs /\ g[t] = SumOver(f, part[t])
    BY <1>1, <2>1, OneTactic
  <2>3. \A s, t \in Tactics : s # t => part[s] \cap part[t] = {}
    BY <2>1
  <2>4. \A p \in Pairs : \E t \in Tactics : p \in part[t]
    BY <2>1 DEF Pairs
  <2>5. SumOver(g, Tactics) = SumOver(f, Pairs)
    BY ONLY <1>2, <2>2, <2>3, <2>4, PairsAreFinite, SumOfPartition
  <2> QED BY <2>1, <2>5
<1> QED BY <1>1, <1>3, <1>4, <1>5 DEF Whole

\* One deal more.
LEMMA OneOutcome ==
    ASSUME NEW tab \in Table, NEW new \in Table, NEW v \in Sellers, NEW t \in Tactics,
           \A w \in Sellers : w # v => new[w] = tab[w],
           \A s \in Tactics : s # t => new[v][s] = tab[v][s],
           new[v][t].deals = tab[v][t].deals + 1
    PROVE  /\ \A w \in Sellers : w # v => DealsIn(new, w) = DealsIn(tab, w)
           /\ \A s \in Tactics : new[v][s].deals >= tab[v][s].deals
           /\ DealsIn(new, v) = DealsIn(tab, v) + 1
           /\ Whole(new) = Whole(tab) + 1
<1>1. \A s \in Tactics : new[v][s].deals >= tab[v][s].deals
  BY DealsAreNumbers
<1>2. DealsIn(new, v) = DealsIn(tab, v) + 1
  <2>1. PICK f, g : /\ f = [s \in Tactics |-> tab[v][s].deals]
                    /\ g = [s \in Tactics |-> new[v][s].deals]
    OBVIOUS
  <2>2. \A s \in Tactics : f[s] \in Int /\ g[s] \in Int
    BY <2>1, DealsAreNumbers
  <2>3. /\ \A s \in Tactics \ {t} : f[s] = g[s]
        /\ g[t] = f[t] + 1
    BY <2>1
  <2>4. SumOver(g, Tactics) = SumOver(f, Tactics) + (g[t] - f[t])
    BY ONLY <2>2, <2>3, PairsAreFinite, SumsChange
  <2>5. g[t] - f[t] = 1
    BY <2>2, <2>3
  <2> QED BY <2>1, <2>4, <2>5 DEF DealsIn
<1>3. Whole(new) = Whole(tab) + 1
  <2>1. PICK f, g, p : f = Outcomes(tab) /\ g = Outcomes(new) /\ p = <<v, t>>
    OBVIOUS
  <2>2. \A q \in Pairs : f[q] \in Int /\ g[q] \in Int
    BY <2>1, DealsAreNumbers DEF Outcomes, Pairs
  <2>3. /\ \A q \in Pairs \ {p} : f[q] = g[q]
        /\ g[p] = f[p] + 1 /\ p \in Pairs
    BY <2>1 DEF Outcomes, Pairs
  <2>4. SumOver(g, Pairs) = SumOver(f, Pairs) + (g[p] - f[p])
    BY ONLY <2>2, <2>3, PairsAreFinite, SumsChange
  <2>5. g[p] - f[p] = 1
    BY <2>2, <2>3
  <2> QED BY <2>1, <2>4, <2>5 DEF Whole
<1>4. \A w \in Sellers : w # v => DealsIn(new, w) = DealsIn(tab, w)
  BY DEF DealsIn
<1> QED BY <1>1, <1>2, <1>3, <1>4

-----------------------------------------------------------------------------
(* Learning: the insights and the advice.                                  *)

Insight == [pc : {"idle", "tactics", "sellers", "answer"}, total : Nat,
            tactics : [Tactics -> Nat], sellers : [Sellers -> Nat], since : Nat]

\* A later count sees no less, and the same as long as nothing was recorded.
InsightAt(i, whole, now) ==
    LET byTactic == SumOver(i.tactics, Tactics)
        bySeller == SumOver(i.sellers, Sellers)
    IN  /\ i.pc # "idle" => i.since <= now /\ i.total <= whole
        /\ i.pc = "tactics" /\ i.since = now => i.total = whole
        /\ i.pc = "sellers" => /\ i.total <= byTactic /\ byTactic <= whole
                               /\ i.since = now => i.total = whole
        /\ i.pc = "answer" => /\ i.total <= byTactic /\ byTactic <= bySeller
                              /\ i.since = now => i.total = bySeller

\* What was advised of a vendor with the outcomes there are.
AdviceOn(a, tab) ==
    a.seller \in Sellers =>
        /\ a.deals <= DealsIn(tab, a.seller)
        /\ a.confidence = "high" => tab[a.seller][a.tactic].deals >= 10
        /\ a.confidence = "medium" => tab[a.seller][a.tactic].deals >= 3
        /\ a.deals = DealsIn(tab, a.seller) /\ a.deals > 0 =>
              \A t \in Tactics : tab[a.seller][t].deals > 0 =>
                 ~HigherAverage(tab[a.seller][t], tab[a.seller][a.tactic])

AdviceRow == [seller : Sellers \cup {NoSeller}, tactic : Tactics,
              confidence : {"high", "medium", "low"}, deals : Nat]

LearningInv ==
    /\ learned \in Table /\ lessons \in 0 .. MaxLessons
    /\ scholar \in [Scholars -> Insight]
    /\ \A h \in Scholars : InsightAt(scholar[h], Whole(learned), lessons)
    /\ advice \in AdviceRow /\ AdviceOn(advice, learned)

LEMMA LearningInitInv == LearningInit => LearningInv
<1> SUFFICES ASSUME LearningInit PROVE LearningInv
  OBVIOUS
<1>1. learned \in Table /\ lessons \in 0 .. MaxLessons
  BY LearningAssumption DEF LearningInit
<1>2. NoInsight \in Insight /\ NoInsight.pc = "idle"
  BY DEF NoInsight, Insight
<1>3. \A h \in Scholars : scholar[h] = NoInsight
  BY DEF LearningInit
<1>4. scholar \in [Scholars -> Insight]
  BY <1>2 DEF LearningInit
<1>5. \A h \in Scholars : InsightAt(scholar[h], Whole(learned), lessons)
  BY <1>2, <1>3 DEF InsightAt
<1>6. NoAdvice \in AdviceRow /\ NoAdvice.seller \notin Sellers
  BY LearningAssumption DEF NoAdvice, AdviceRow
<1>7. advice \in AdviceRow /\ AdviceOn(advice, learned)
  BY <1>6 DEF LearningInit, AdviceOn
<1> QED BY <1>1, <1>4, <1>5, <1>7 DEF LearningInv

LEMMA RecordStep ==
    ASSUME LearningInv, NEW v \in Sellers, NEW t \in Tactics, NEW discount \in Percents,
           RecordOutcome(v, t, discount)
    PROVE  LearningInv'
<1>1. discount \in Nat /\ learned \in Table /\ lessons \in Nat /\ lessons < MaxLessons
  BY LearningAssumption DEF LearningInv, RecordOutcome
<1>2. learned' = [learned EXCEPT ![v][t] =
                      [deals |-> @.deals + 1, discounts |-> @.discounts + discount]]
  BY DEF RecordOutcome
<1>3. PICK old, new : old = learned /\ new = learned'
  OBVIOUS
<1>4. /\ new \in Table
      /\ \A w \in Sellers : w # v => new[w] = old[w] /\ DealsIn(new, w) = DealsIn(old, w)
      /\ \A s \in Tactics : new[v][s].deals >= old[v][s].deals
      /\ DealsIn(new, v) = DealsIn(old, v) + 1
      /\ Whole(new) = Whole(old) + 1
  <2>1. old \in Table
    BY <1>1, <1>3
  <2>2. PICK row : row = [deals |-> old[v][t].deals + 1,
                          discounts |-> old[v][t].discounts + discount]
    OBVIOUS
  <2>3. row \in Group /\ row.deals = old[v][t].deals + 1
    BY <1>1, <2>1, <2>2, DealsAreNumbers DEF Group
  <2>4. new = [old EXCEPT ![v][t] = row]
    BY <1>2, <1>3, <2>2, Zenon
  <2>5. /\ new \in Table
        /\ \A w \in Sellers : w # v => new[w] = old[w] /\ DealsIn(new, w) = DealsIn(old, w)
        /\ \A u \in Tactics : new[v][u].deals >= old[v][u].deals
        /\ DealsIn(new, v) = DealsIn(old, v) + 1
        /\ Whole(new) = Whole(old) + 1
    <3>1. new \in Table
      BY <2>1, <2>3, <2>4 DEF Table
    <3>2. /\ \A w \in Sellers : w # v => new[w] = old[w]
          /\ \A u \in Tactics : u # t => new[v][u] = old[v][u]
          /\ new[v][t] = row
      BY <2>1, <2>4 DEF Table
    <3>3. new[v][t].deals = old[v][t].deals + 1
      BY <2>3, <3>2
    <3> QED BY ONLY <2>1, <3>1, <3>2, <3>3, OneOutcome
  <2> QED BY <2>5
<1>5. scholar' = scholar /\ advice' = advice /\ lessons' = lessons + 1
  BY DEF RecordOutcome
<1>6. ASSUME NEW h \in Scholars PROVE InsightAt(scholar[h], Whole(new), lessons + 1)
  <2>1. PICK i : i = scholar[h]
    OBVIOUS
  <2>2. i \in Insight /\ InsightAt(i, Whole(old), lessons)
    BY <1>3, <2>1 DEF LearningInv
  <2>3. PICK m, n : m = Whole(old) /\ n = Whole(new)
    OBVIOUS
  <2>4. m \in Nat /\ n = m + 1
    BY <1>1, <1>3, <1>4, <2>3, CountedTwoWays
  <2>5. i.since \in Nat /\ i.total \in Nat
    BY <2>2 DEF Insight
  <2>6. PICK b, c : b = SumOver(i.tactics, Tactics) /\ c = SumOver(i.sellers, Sellers)
    OBVIOUS
  <2>7. b \in Nat /\ c \in Nat
    <3>1. PICK f, g : f = i.tactics /\ g = i.sellers
      OBVIOUS
    <3>2. (\A s \in Tactics : f[s] \in Nat) /\ (\A w \in Sellers : g[w] \in Nat)
      BY <2>2, <3>1 DEF Insight
    <3>3. SumOver(f, Tactics) \in Nat /\ SumOver(g, Sellers) \in Nat
      BY <3>2, PairsAreFinite, SumOfPart
    <3> QED BY <2>6, <3>1, <3>3
  <2>8. InsightAt(i, m, lessons)
    BY <2>2, <2>3
  <2>9. InsightAt(i, n, lessons + 1)
    BY ONLY <1>1, <2>4, <2>5, <2>6, <2>7, <2>8 DEF InsightAt
  <2> QED BY <2>1, <2>3, <2>9
<1>7. AdviceOn(advice, new)
  <2> SUFFICES ASSUME advice.seller \in Sellers
               PROVE  /\ advice.deals <= DealsIn(new, advice.seller)
                      /\ advice.confidence = "high" => new[advice.seller][advice.tactic].deals >= 10
                      /\ advice.confidence = "medium" => new[advice.seller][advice.tactic].deals >= 3
                      /\ advice.deals = DealsIn(new, advice.seller) /\ advice.deals > 0 =>
                            \A s \in Tactics : new[advice.seller][s].deals > 0 =>
                               ~HigherAverage(new[advice.seller][s], new[advice.seller][advice.tactic])
    BY DEF AdviceOn
  <2>1. PICK w, best, n : w = advice.seller /\ best = advice.tactic /\ n = advice.deals
    OBVIOUS
  <2>2. w \in Sellers /\ best \in Tactics /\ n \in Nat
    BY <2>1 DEF LearningInv, AdviceRow
  <2>3. /\ n <= DealsIn(old, w)
        /\ advice.confidence = "high" => old[w][best].deals >= 10
        /\ advice.confidence = "medium" => old[w][best].deals >= 3
        /\ n = DealsIn(old, w) /\ n > 0 =>
              \A s \in Tactics : old[w][s].deals > 0 => ~HigherAverage(old[w][s], old[w][best])
    BY <1>3, <2>1 DEF LearningInv, AdviceOn
  <2>4. CASE w # v
    <3>1. new[w] = old[w] /\ DealsIn(new, w) = DealsIn(old, w)
      BY <1>4, <2>2, <2>4
    <3> QED BY <2>1, <2>3, <3>1
  <2>5. CASE w = v
    <3>1. DealsIn(old, w) \in Nat /\ DealsIn(new, w) = DealsIn(old, w) + 1
      BY <1>1, <1>3, <1>4, <2>2, <2>5, DealsOfIsSum
    <3>2. /\ old[w][best].deals \in Nat /\ new[w][best].deals \in Nat
          /\ new[w][best].deals >= old[w][best].deals
      BY <1>1, <1>3, <1>4, <2>2, <2>5, DealsAreNumbers
    <3>3. n <= DealsIn(new, w) /\ n # DealsIn(new, w)
      BY <2>2, <2>3, <3>1
    <3>4. /\ advice.confidence = "high" => new[w][best].deals >= 10
          /\ advice.confidence = "medium" => new[w][best].deals >= 3
      BY <2>3, <3>2
    <3> QED BY <2>1, <3>3, <3>4
  <2> QED BY <2>4, <2>5
<1>8. lessons' \in 0 .. MaxLessons
  BY <1>1, <1>5, LearningAssumption
<1> QED BY <1>3, <1>4, <1>5, <1>6, <1>7, <1>8 DEF LearningInv

LEMMA RecommendStep ==
    ASSUME LearningInv, NEW v \in Sellers, handleStrategyRecommend(v)
    PROVE  LearningInv'
<1>1. UNCHANGED <<learned, lessons, scholar>> /\ learned \in Table
  BY DEF handleStrategyRecommend, LearningInv
<1>2. DealsOf(v) = DealsIn(learned, v) /\ DealsIn(learned, v) \in Nat
  BY <1>1, DealsOfIsSum
<1>3. CASE UsedWith(v) = {}
  <2>1. advice' = [NoAdvice EXCEPT !.seller = v]
    BY <1>3 DEF handleStrategyRecommend
  <2>2. PICK a : a = [NoAdvice EXCEPT !.seller = v]
    OBVIOUS
  <2>3. a = [seller |-> v, tactic |-> "balanced", confidence |-> "low", deals |-> 0]
    BY <2>2 DEF NoAdvice
  <2>4. a \in AdviceRow /\ AdviceOn(a, learned)
    BY <1>2, <2>3, LearningAssumption DEF AdviceRow, AdviceOn
  <2> QED BY <1>1, <2>1, <2>2, <2>4 DEF LearningInv
<1>4. CASE UsedWith(v) # {}
  <2>1. PICK best \in UsedWith(v) :
           /\ \A t \in UsedWith(v) : ~HigherAverage(learned[v][t], learned[v][best])
           /\ advice' = Recommendation(v, best)
    BY <1>4 DEF handleStrategyRecommend
  <2>2. PICK a : a = Recommendation(v, best)
    OBVIOUS
  <2>3. PICK n : n = learned[v][best].deals
    OBVIOUS
  <2>4. best \in Tactics /\ n \in Nat
    BY <1>1, <2>1, <2>3, DealsAreNumbers DEF UsedWith
  <2>5. /\ a.seller = v /\ a.tactic = best /\ a.deals = DealsIn(learned, v)
        /\ a.confidence = Confidence(n)
        /\ a = [seller |-> v, tactic |-> best, confidence |-> a.confidence,
                deals |-> a.deals]
    BY <1>2, <2>2, <2>3 DEF Recommendation
  <2>6. /\ a.confidence \in {"high", "medium", "low"}
        /\ a.confidence = "high" => n >= 10
        /\ a.confidence = "medium" => n >= 3
    BY <2>4, <2>5 DEF Confidence
  <2>7. a \in AdviceRow
    BY <1>2, <2>4, <2>5, <2>6 DEF AdviceRow
  <2>8. \A t \in Tactics : learned[v][t].deals > 0 =>
           ~HigherAverage(learned[v][t], learned[v][best])
    BY <2>1 DEF UsedWith
  <2>9. AdviceOn(a, learned)
    BY <1>2, <2>3, <2>5, <2>6, <2>8 DEF AdviceOn
  <2> QED BY <1>1, <2>1, <2>2, <2>7, <2>9 DEF LearningInv
<1> QED BY <1>3, <1>4

\* What the statements of an answer count.
LEMMA StatementsCount ==
    ASSUME learned \in Table
    PROVE  /\ MapThenSumSet(DealsOf, Sellers) = Whole(learned)
           /\ SumOver([t \in Tactics |-> DealsBy(t)], Tactics) = Whole(learned)
           /\ SumOver([v \in Sellers |-> DealsOf(v)], Sellers) = Whole(learned)
           /\ [t \in Tactics |-> DealsBy(t)] \in [Tactics -> Nat]
           /\ [v \in Sellers |-> DealsOf(v)] \in [Sellers -> Nat]
<1>1. PICK deals : deals = [v \in Sellers |-> DealsOf(v)]
  OBVIOUS
<1>2. [v \in Sellers |-> DealsOf(v)] = [v \in Sellers |-> DealsIn(learned, v)]
  BY DealsOfIsSum
<1>3. [t \in Tactics |-> DealsBy(t)] = [t \in Tactics |-> DealsWith(learned, t)]
  BY DealsByIsSum
<1>4. \A sum : SumsUp(sum, deals, Sellers) <=>
          sum = [T \in SUBSET Sellers |->
                   IF T = {} THEN 0
                   ELSE DealsOf(CHOOSE v \in T : TRUE) + sum[T \ {CHOOSE v \in T : TRUE}]]
  BY <1>1 DEF SumsUp, Foremost
<1>5. MapThenSumSet(DealsOf, Sellers) = SumOver(deals, Sellers)
  BY ZenonT(60), <1>4 DEF MapThenSumSet, MapThenFoldSet, SumOver
<1>6. /\ [t \in Tactics |-> DealsBy(t)] \in [Tactics -> Nat]
      /\ [v \in Sellers |-> DealsOf(v)] \in [Sellers -> Nat]
  BY DealsOfIsSum, DealsByIsSum
<1> QED BY <1>1, <1>2, <1>3, <1>5, <1>6, CountedTwoWays

LEMMA InsightSums ==
    ASSUME NEW i \in Insight
    PROVE  SumOver(i.tactics, Tactics) \in Nat /\ SumOver(i.sellers, Sellers) \in Nat
<1>1. PICK f, g : f = i.tactics /\ g = i.sellers
  OBVIOUS
<1>2. (\A s \in Tactics : f[s] \in Nat) /\ (\A w \in Sellers : g[w] \in Nat)
  BY <1>1 DEF Insight
<1>3. SumOver(f, Tactics) \in Nat /\ SumOver(g, Sellers) \in Nat
  BY <1>2, PairsAreFinite, SumOfPart
<1> QED BY <1>1, <1>3

\* The insight of one goroutine moves on.
LEMMA InsightMoves ==
    ASSUME LearningInv, NEW h \in Scholars, NEW i \in Insight,
           scholar' = [scholar EXCEPT ![h] = i],
           InsightAt(i, Whole(learned), lessons), UNCHANGED <<learned, lessons, advice>>
    PROVE  LearningInv'
<1>1. /\ scholar' \in [Scholars -> Insight] /\ scholar'[h] = i
      /\ \A g \in Scholars : g # h => scholar'[g] = scholar[g]
  BY DEF LearningInv
<1>2. \A g \in Scholars : InsightAt(scholar'[g], Whole(learned), lessons)
  BY <1>1 DEF LearningInv
<1> QED BY <1>1, <1>2 DEF LearningInv

LEMMA CountAllStep ==
    ASSUME LearningInv, NEW h \in Scholars, CountAll(h) PROVE LearningInv'
<1>1. learned \in Table /\ lessons \in Nat /\ UNCHANGED <<learned, lessons, advice>>
  BY DEF LearningInv, CountAll
<1>2. PICK n : n = MapThenSumSet(DealsOf, Sellers)
  OBVIOUS
<1>3. n = Whole(learned) /\ n \in Nat
  BY <1>1, <1>2, StatementsCount, CountedTwoWays
<1>4. PICK i : i = [NoInsight EXCEPT !.pc = "tactics", !.since = lessons, !.total = n]
  OBVIOUS
<1>5. scholar' = [scholar EXCEPT ![h] = i]
  BY <1>2, <1>4, Zenon DEF CountAll
<1>6. i \in Insight /\ i.pc = "tactics" /\ i.since = lessons /\ i.total = n
  BY <1>1, <1>3, <1>4 DEF NoInsight, Insight
<1>7. InsightAt(i, Whole(learned), lessons)
  BY <1>1, <1>3, <1>6 DEF InsightAt
<1> QED BY <1>1, <1>5, <1>6, <1>7, InsightMoves

LEMMA CountTacticsStep ==
    ASSUME LearningInv, NEW h \in Scholars, CountTactics(h) PROVE LearningInv'
<1>1. learned \in Table /\ lessons \in Nat /\ UNCHANGED <<learned, lessons, advice>>
  BY DEF LearningInv, CountTactics
<1>2. PICK f : f = [t \in Tactics |-> DealsBy(t)]
  OBVIOUS
<1>3. f \in [Tactics -> Nat] /\ SumOver(f, Tactics) = Whole(learned) /\ Whole(learned) \in Nat
  BY <1>1, <1>2, StatementsCount, CountedTwoWays
<1>4. PICK old \in Insight : old = scholar[h]
  BY DEF LearningInv
<1>5. PICK i : i = [old EXCEPT !.pc = "sellers", !.tactics = f]
  OBVIOUS
<1>6. scholar' = [scholar EXCEPT ![h] = i]
  <2>1. scholar' = [scholar EXCEPT ![h].pc = "sellers", ![h].tactics = f]
    BY <1>2 DEF CountTactics
  <2>2. scholar \in [Scholars -> Insight]
    BY DEF LearningInv
  <2> QED BY <1>4, <1>5, <2>1, <2>2
<1>7. /\ i \in Insight /\ i.pc = "sellers" /\ i.since = old.since /\ i.total = old.total
      /\ i.tactics = f
  BY ONLY <1>3, <1>4, <1>5 DEF Insight
<1>8. /\ old.total <= Whole(learned) /\ old.since <= lessons
      /\ old.since = lessons => old.total = Whole(learned)
  BY <1>4 DEF LearningInv, InsightAt, CountTactics
<1>9. InsightAt(i, Whole(learned), lessons)
  BY <1>3, <1>7, <1>8 DEF InsightAt
<1> QED BY <1>1, <1>6, <1>7, <1>9, InsightMoves

LEMMA CountSellersStep ==
    ASSUME LearningInv, NEW h \in Scholars, CountSellers(h) PROVE LearningInv'
<1>1. learned \in Table /\ lessons \in Nat /\ UNCHANGED <<learned, lessons, advice>>
  BY DEF LearningInv, CountSellers
<1>2. PICK f : f = [v \in Sellers |-> DealsOf(v)]
  OBVIOUS
<1>3. f \in [Sellers -> Nat] /\ SumOver(f, Sellers) = Whole(learned) /\ Whole(learned) \in Nat
  BY <1>1, <1>2, StatementsCount, CountedTwoWays
<1>4. PICK old \in Insight : old = scholar[h]
  BY DEF LearningInv
<1>5. PICK i : i = [old EXCEPT !.pc = "answer", !.sellers = f]
  OBVIOUS
<1>6. scholar' = [scholar EXCEPT ![h] = i]
  <2>1. scholar' = [scholar EXCEPT ![h].pc = "answer", ![h].sellers = f]
    BY <1>2 DEF CountSellers
  <2>2. scholar \in [Scholars -> Insight]
    BY DEF LearningInv
  <2> QED BY <1>4, <1>5, <2>1, <2>2
<1>7. /\ i \in Insight /\ i.pc = "answer" /\ i.since = old.since /\ i.total = old.total
      /\ i.tactics = old.tactics /\ i.sellers = f
  BY ONLY <1>3, <1>4, <1>5 DEF Insight
<1>8. /\ old.total <= Whole(learned) /\ old.since <= lessons
      /\ old.total <= SumOver(old.tactics, Tactics)
      /\ SumOver(old.tactics, Tactics) <= Whole(learned)
      /\ old.since = lessons => old.total = Whole(learned)
  BY <1>4 DEF LearningInv, InsightAt, CountSellers
<1>9. InsightAt(i, Whole(learned), lessons)
  BY <1>3, <1>7, <1>8 DEF InsightAt
<1> QED BY <1>1, <1>6, <1>7, <1>9, InsightMoves

LEMMA LearningStep == LearningInv /\ [LearningNext]_learningVars => LearningInv'
<1> SUFFICES ASSUME LearningInv, [LearningNext]_learningVars PROVE LearningInv'
  OBVIOUS
<1>1. ASSUME NEW h \in Scholars, handleLearningInsights(h) PROVE LearningInv'
  <2>1. NoInsight \in Insight /\ NoInsight.pc = "idle"
    BY DEF NoInsight, Insight
  <2>2. InsightAt(NoInsight, Whole(learned), lessons)
    BY <2>1 DEF InsightAt
  <2>3. PICK i : i = NoInsight
    OBVIOUS
  <2>4. scholar' = [scholar EXCEPT ![h] = i] /\ UNCHANGED <<learned, lessons, advice>>
    BY <1>1, <2>3 DEF handleLearningInsights
  <2> QED BY <2>1, <2>2, <2>3, <2>4, InsightMoves
<1>2. CASE UNCHANGED learningVars
  BY <1>2 DEF learningVars, LearningInv
<1> QED BY <1>1, <1>2, RecordStep, RecommendStep, CountAllStep, CountTacticsStep,
           CountSellersStep DEF LearningNext

LEMMA LearningHonest == LearningInv => LearningTypeOK /\ AdviceIsDrawnFromDeals
<1> SUFFICES ASSUME LearningInv PROVE LearningTypeOK /\ AdviceIsDrawnFromDeals
  OBVIOUS
<1>1. LearningTypeOK
  BY DEF LearningInv, LearningTypeOK, AdviceRow, Insight
<1>2. ASSUME advice.seller \in Sellers
      PROVE  LET v == advice.seller
                 best == advice.tactic
             IN  /\ advice.deals <= DealsOf(v)
                 /\ advice.confidence = "high" => learned[v][best].deals >= 10
                 /\ advice.confidence = "medium" => learned[v][best].deals >= 3
                 /\ advice.deals = DealsOf(v) /\ advice.deals > 0 =>
                       \A t \in UsedWith(v) : ~HigherAverage(learned[v][t], learned[v][best])
  <2>1. PICK v : v = advice.seller
    OBVIOUS
  <2>2. DealsOf(v) = DealsIn(learned, v)
    BY <1>2, <2>1, DealsOfIsSum DEF LearningInv
  <2> QED BY <1>2, <2>1, <2>2 DEF LearningInv, AdviceOn, UsedWith
<1>3. ASSUME NEW h \in Scholars, scholar[h].pc = "answer"
      PROVE  LET byTactic == MapThenSumSet(LAMBDA t : scholar[h].tactics[t], Tactics)
                 bySeller == MapThenSumSet(LAMBDA v : scholar[h].sellers[v], Sellers)
             IN  /\ scholar[h].total <= byTactic /\ byTactic <= bySeller
                 /\ scholar[h].since = lessons => scholar[h].total = bySeller
  <2>1. PICK f, g : f = scholar[h].tactics /\ g = scholar[h].sellers
    OBVIOUS
  <2>2. \A sum : SumsUp(sum, f, Tactics) <=>
          sum = [T \in SUBSET Tactics |->
                   IF T = {} THEN 0
                   ELSE scholar[h].tactics[CHOOSE t \in T : TRUE]
                          + sum[T \ {CHOOSE t \in T : TRUE}]]
    BY <2>1 DEF SumsUp, Foremost
  <2>3. MapThenSumSet(LAMBDA t : scholar[h].tactics[t], Tactics) = SumOver(f, Tactics)
    BY ZenonT(60), <2>2 DEF MapThenSumSet, MapThenFoldSet, SumOver
  <2>4. \A sum : SumsUp(sum, g, Sellers) <=>
          sum = [T \in SUBSET Sellers |->
                   IF T = {} THEN 0
                   ELSE scholar[h].sellers[CHOOSE v \in T : TRUE]
                          + sum[T \ {CHOOSE v \in T : TRUE}]]
    BY <2>1 DEF SumsUp, Foremost
  <2>5. MapThenSumSet(LAMBDA v : scholar[h].sellers[v], Sellers) = SumOver(g, Sellers)
    BY ZenonT(60), <2>4 DEF MapThenSumSet, MapThenFoldSet, SumOver
  <2>6. InsightAt(scholar[h], Whole(learned), lessons)
    BY DEF LearningInv
  <2> QED BY <1>3, <2>1, <2>3, <2>5, <2>6 DEF InsightAt
<1> QED BY <1>1, <1>2, <1>3 DEF AdviceIsDrawnFromDeals

\* The three counts of one answer never fall and agree when nothing was recorded
\* between them; a recommendation is as sure as the deals with its strategy make
\* it, and none has saved more until the vendor's next deal, for any vendors,
\* strategies and outcomes (GetRecommendation and GetGlobalInsights,
\* learning/engine.go).
THEOREM AdviceIsDrawnFromDealsAlways ==
    LearningSpec => [](LearningTypeOK /\ AdviceIsDrawnFromDeals)
BY LearningInitInv, LearningStep, LearningHonest, PTL DEF LearningSpec
=============================================================================
