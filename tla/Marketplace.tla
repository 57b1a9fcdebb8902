---------------------------- MODULE Marketplace ----------------------------
(***************************************************************************)
(* The resale of unused seats (internal/marketplace): listings, offers and *)
(* transactions in three tables, written by the tools list_unused_seats,   *)
(* offer_seats and accept_offer.  No call opens a database transaction, so *)
(* concurrent calls interleave at every store call, and a sale, which is   *)
(* three writes, can stop after any of them.                               *)
(*                                                                         *)
(* Of a listing and an offer only the status is ever rewritten, so what a  *)
(* call remembers of the rows it has read is which rows they were.         *)
(***************************************************************************)
EXTENDS Integers, FiniteSets

CONSTANTS
    Listings, Offers,      \* ids, each handed out at most once
    SaleTerms,             \* seats and ask price of a new listing
    OfferTerms,            \* seats and maximum price of a new offer
    Agents,                \* goroutines that serve calls
    MaxFailures,           \* bound on the calls on a listing that go wrong
    NoListing, NoOffer

ASSUME MarketplaceAssumption ==
    /\ SaleTerms \subseteq [seats : Nat \ {0}, ask : Nat]
    /\ OfferTerms \subseteq [seats : Int, max : Nat]
    /\ MaxFailures \in Nat
    /\ NoListing \notin Listings /\ NoOffer \notin Offers

VARIABLES
    listings,        \* table mp_listings
    offers,          \* table mp_offers
    transactions,    \* table mp_transactions
    drawn,           \* offer ids handed out so far
    selling,         \* what each goroutine is doing
    failures,        \* history: calls on each listing that went wrong
    contended        \* history: listings with two calls in progress at once

marketVars ==
    <<listings, offers, transactions, drawn, selling, failures, contended>>

Absent == [status |-> "absent"]

Resting == [pc |-> "idle", listing |-> NoListing, offer |-> NoOffer]

Listing == [terms : SaleTerms, status : {"active", "completed"}]
OfferRow == [listing : Listings, terms : OfferTerms, status : {"pending", "accepted"}]
Transaction == [number : Nat \ {0}, listing : Listings, offer : Offers,
                seats : Int, price : Nat]

MarketInit ==
    /\ listings = [l \in Listings |-> Absent]
    /\ offers = [o \in Offers |-> Absent]
    /\ transactions = {}
    /\ drawn = {}
    /\ selling = [a \in Agents |-> Resting]
    /\ failures = [l \in Listings |-> 0]
    /\ contended = {}

-----------------------------------------------------------------------------
(* The steps of a call.                                                    *)

Continue(a, pc) == selling' = [selling EXCEPT ![a].pc = pc]

Rest(a) == selling' = [selling EXCEPT ![a] = Resting]

Enter(a, l, o, pc) ==
    /\ selling[a] = Resting
    /\ selling' = [selling EXCEPT ![a] = [pc |-> pc, listing |-> l, offer |-> o]]
    /\ contended' = contended \cup
         ({selling[b].listing : b \in Agents \ {a}} \cap {l})

ListSeats(l, terms) ==
    /\ listings[l] = Absent
    /\ listings' = [listings EXCEPT ![l] = [terms |-> terms, status |-> "active"]]
    /\ UNCHANGED <<offers, transactions, drawn, selling, failures, contended>>

\* MakeOffer takes an offer on an active listing only.
Open(l) == listings[l].status = "active"

(***************************************************************************)
(* MakeOffer: the listing is read and checked, then the offer is inserted. *)
(* An offer of at least the ask price is accepted by the same call, which  *)
(* does not look at the listing again.  The terms are an argument of the   *)
(* call, chosen here where they are first written; the check of the seats  *)
(* is against a column that never changes.                                 *)
(***************************************************************************)
MakeOffer(a, l, o) ==
    /\ o \notin drawn
    /\ Open(l)
    /\ Enter(a, l, o, "offer")
    /\ drawn' = drawn \cup {o}
    /\ UNCHANGED <<listings, offers, transactions, failures>>

AddOffer(a, terms) ==
    LET l == selling[a].listing IN
    /\ selling[a].pc = "offer"
    /\ terms.seats <= listings[l].terms.seats
    /\ offers' = [offers EXCEPT ![selling[a].offer] =
                     [listing |-> l, terms |-> terms, status |-> "pending"]]
    /\ IF listings[l].terms.ask <= terms.max
       THEN Continue(a, "transaction") ELSE Rest(a)
    /\ UNCHANGED <<listings, transactions, drawn, failures, contended>>

\* Mutated: AcceptOffer does not check the listing.
SellableAlways(l) == listings[l] # Absent

\* AcceptOffer's own check of the listing.
Sellable(l) == listings[l].status \notin {"absent", "completed"}

AcceptOffer(a, l) ==
    /\ Sellable(l)
    /\ Enter(a, l, NoOffer, "lookup")
    /\ UNCHANGED <<listings, offers, transactions, drawn, failures>>

\* GetOffers, and the checks of the offer: one of this listing, and pending.
FindOffer(a, o) ==
    /\ selling[a].pc = "lookup"
    /\ offers[o].status = "pending"
    /\ offers[o].listing = selling[a].listing
    /\ selling' = [selling EXCEPT ![a].pc = "transaction", ![a].offer = o]
    /\ UNCHANGED <<listings, offers, transactions, drawn, failures, contended>>

\* Mutated: the price is the buyer's maximum.
PriceUncapped(l, o) == offers[o].terms.max

\* The buyer pays no more than the maximum offered, and no more than asked.
Price(l, o) ==
    IF offers[o].terms.max > listings[l].terms.ask
    THEN listings[l].terms.ask ELSE offers[o].terms.max

\* Mutated: the error of the insert is ignored.
CreateTransactionOrNot(a) ==
    /\ selling[a].pc = "transaction"
    /\ Continue(a, "accept")
    /\ UNCHANGED <<listings, offers, transactions, drawn, failures, contended>>

CreateTransaction(a) ==
    LET l == selling[a].listing
        o == selling[a].offer
    IN
    /\ selling[a].pc = "transaction"
    /\ transactions' = transactions \cup
         {[number |-> Cardinality(transactions) + 1, listing |-> l, offer |-> o,
           seats |-> offers[o].terms.seats, price |-> Price(l, o)]}
    /\ Continue(a, "accept")
    /\ UNCHANGED <<listings, offers, drawn, failures, contended>>

UpdateOfferStatus(a) ==
    /\ selling[a].pc = "accept"
    /\ offers' = [offers EXCEPT ![selling[a].offer].status = "accepted"]
    /\ Continue(a, "complete")
    /\ UNCHANGED <<listings, transactions, drawn, failures, contended>>

\* Mutated: the listing is not updated.
UpdateListingStatusForgotten(a) ==
    /\ selling[a].pc = "complete"
    /\ Rest(a)
    /\ UNCHANGED <<listings, offers, transactions, drawn, failures, contended>>

UpdateListingStatus(a) ==
    /\ selling[a].pc = "complete"
    /\ listings' = [listings EXCEPT ![selling[a].listing].status = "completed"]
    /\ Rest(a)
    /\ UNCHANGED <<offers, transactions, drawn, failures, contended>>

\* The offer asked for does not pass: nothing has been written.
RefuseOffer(a) ==
    /\ selling[a].pc = "lookup"
    /\ Rest(a)
    /\ UNCHANGED <<listings, offers, transactions, drawn, failures, contended>>

\* A store call fails, and the call ends with what it has written so far.
CallFails(a) ==
    /\ selling[a] # Resting
    /\ failures[selling[a].listing] < MaxFailures
    /\ failures' = [failures EXCEPT ![selling[a].listing] = @ + 1]
    /\ Rest(a)
    /\ UNCHANGED <<listings, offers, transactions, drawn, contended>>

\* The process is killed, and every call in progress is lost.
MarketCrash ==
    LET hit == {selling[a].listing : a \in Agents} \cap Listings IN
    /\ hit # {}
    /\ \A l \in hit : failures[l] < MaxFailures
    /\ failures' = [l \in Listings |-> failures[l] + IF l \in hit THEN 1 ELSE 0]
    /\ selling' = [a \in Agents |-> Resting]
    /\ UNCHANGED <<listings, offers, transactions, drawn, contended>>

MarketNext ==
    \/ \E l \in Listings, terms \in SaleTerms : ListSeats(l, terms)
    \/ \E a \in Agents :
          \/ \E l \in Listings, o \in Offers : MakeOffer(a, l, o)
          \/ \E terms \in OfferTerms : AddOffer(a, terms)
          \/ \E l \in Listings : AcceptOffer(a, l)
          \/ \E o \in Offers : FindOffer(a, o)
          \/ RefuseOffer(a)
          \/ CreateTransaction(a)
          \/ UpdateOfferStatus(a)
          \/ UpdateListingStatus(a)
          \/ CallFails(a)
    \/ MarketCrash

MarketSpec == MarketInit /\ [][MarketNext]_marketVars

-----------------------------------------------------------------------------

MarketTypeOK ==
    /\ listings \in [Listings -> Listing \cup {Absent}]
    /\ offers \in [Offers -> OfferRow \cup {Absent}]
    /\ transactions \subseteq Transaction
    /\ drawn \subseteq Offers
    /\ \A a \in Agents : \/ selling[a] = Resting
                         \/ /\ selling[a].listing \in Listings
                            /\ selling[a].offer \in Offers \cup {NoOffer}
    /\ failures \in [Listings -> 0..MaxFailures]
    /\ contended \subseteq Listings

SalesOf(l) == {t \in transactions : t.listing = l}

(***************************************************************************)
(* Seats are sold once: while no two calls on a listing overlapped, every  *)
(* transaction beyond the first is the retry of a call that went wrong     *)
(* half way (the status that blocks a second sale is written last,         *)
(* engine.go:131 and 207).                                                 *)
(***************************************************************************)
ExtraSalesAreRetries ==
    \A l \in Listings \ contended : Cardinality(SalesOf(l)) <= 1 + failures[l]

(***************************************************************************)
(* A status is never ahead of the money: an accepted offer has its         *)
(* transaction and a completed listing has an accepted offer, wherever a   *)
(* sale was interrupted and whatever ran beside it.                        *)
(***************************************************************************)
StatusIsBacked ==
    /\ \A o \in Offers : offers[o].status = "accepted" =>
          \E t \in transactions : t.offer = o /\ t.listing = offers[o].listing
    /\ \A l \in Listings : listings[l].status = "completed" =>
          \E o \in Offers : /\ offers[o].status = "accepted"
                            /\ offers[o].listing = l

(***************************************************************************)
(* A transaction is a bargain both sides stated: an offer made on this     *)
(* listing, for the seats of the offer and no more than were listed, at a  *)
(* price neither above the offer nor above the ask price.                  *)
(***************************************************************************)
SaleIsAgreed ==
    \A t \in transactions :
        /\ offers[t.offer].listing = t.listing
        /\ t.seats = offers[t.offer].terms.seats
        /\ t.seats <= listings[t.listing].terms.seats
        /\ t.price <= offers[t.offer].terms.max
        /\ t.price <= listings[t.listing].terms.ask

(***************************************************************************)
(* A listing that was only used by calls that ended well, one at a time,   *)
(* is completed exactly when its seats were sold, and of the offers made   *)
(* on it exactly the one that was sold is accepted.                        *)
(***************************************************************************)
CompletedExactlyWhenSold ==
    \A l \in Listings \ contended :
        failures[l] = 0 /\ (\A a \in Agents : selling[a].listing # l) =>
            /\ (listings[l].status = "completed") <=> (SalesOf(l) # {})
            /\ \A o \in Offers : offers[o].status # "absent" =>
                  (offers[o].listing = l =>
                     ((offers[o].status = "accepted")
                        <=> (\E t \in SalesOf(l) : t.offer = o)))
=============================================================================
