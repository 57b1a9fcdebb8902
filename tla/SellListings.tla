---------------------------- MODULE SellListings ----------------------------
(***************************************************************************)
(* The sell side (internal/sell): items listed with a strategy ("fixed",   *)
(* "haggling", "auction"), the bids on them, and the calls PlaceBid,       *)
(* AcceptBid and CheckExpired, each a few store calls without a database   *)
(* transaction.  CheckExpired is part of the engine though no tool calls   *)
(* it.  RejectBid and the haggling branch of PlaceBid only read, and write *)
(* nothing.                                                                *)
(*                                                                         *)
(* The row of a listing keeps a status but not the bid it was sold to:     *)
(* that is known only from the replies, kept here as a history variable.   *)
(***************************************************************************)
EXTENDS Integers, FiniteSets

CONSTANTS
    Items, Bids,           \* ids, each handed out at most once
    ItemTerms,             \* strategy and desired price of a new listing
    Amounts,
    Hands,                 \* goroutines that serve calls
    NoItem, NoBid

ASSUME SellListingsAssumption ==
    /\ ItemTerms \subseteq [strategy : {"fixed", "haggling", "auction"},
                            desired : Nat]
    /\ Amounts \subseteq Nat
    /\ NoItem \notin Items /\ NoBid \notin Bids

VARIABLES
    items,           \* table listings
    bids,            \* table bids
    lapsed,          \* items whose expires_at has passed
    hand,            \* what each goroutine is doing
    used,            \* bid ids handed out so far
    confirmed,       \* history: sales reported to a caller, or to the log
    mixed            \* history: items with two calls in progress at once

sellVars == <<items, bids, lapsed, hand, used, confirmed, mixed>>

NoRow == [status |-> "absent"]

Free == [pc |-> "idle", item |-> NoItem, bid |-> NoBid]

ItemRow == [terms : ItemTerms,
            status : {"active", "negotiating", "sold", "withdrawn"}]
BidRow == [item : Items, amount : Amounts]

SellInit ==
    /\ items = [i \in Items |-> NoRow]
    /\ bids = [b \in Bids |-> NoRow]
    /\ lapsed = {}
    /\ hand = [h \in Hands |-> Free]
    /\ used = {}
    /\ confirmed = {}
    /\ mixed = {}

-----------------------------------------------------------------------------

Proceed(h, pc) == hand' = [hand EXCEPT ![h].pc = pc]

Finish(h) == hand' = [hand EXCEPT ![h] = Free]

Take(h, i, b, pc) ==
    /\ hand[h] = Free
    /\ hand' = [hand EXCEPT ![h] = [pc |-> pc, item |-> i, bid |-> b]]
    /\ mixed' = mixed \cup ({hand[g].item : g \in Hands \ {h}} \cap {i})

SetStatus(i, status) == items' = [items EXCEPT ![i].status = status]

\* GetBids.
Placed(i) == {b \in Bids : bids[b] # NoRow /\ bids[b].item = i}

ListItem(i, terms) ==
    /\ items[i] = NoRow
    /\ items' = [items EXCEPT ![i] = [terms |-> terms, status |-> "active"]]
    /\ UNCHANGED <<bids, lapsed, hand, used, confirmed, mixed>>

Expire(i) ==
    /\ items[i] # NoRow
    /\ lapsed' = lapsed \cup {i}
    /\ UNCHANGED <<items, bids, hand, used, confirmed, mixed>>

TakesBids(i) == items[i].status \in {"active", "negotiating"}

(***************************************************************************)
(* PlaceBid: read and check; an active listing becomes "negotiating"; then *)
(* the bid is inserted, and a "fixed" listing is sold to a bid of at least *)
(* the desired price.                                                      *)
(***************************************************************************)
PlaceBid(h, i, b) ==
    /\ b \notin used
    /\ used' = used \cup {b}
    /\ TakesBids(i)
    /\ Take(h, i, b, IF items[i].status = "active" THEN "negotiate" ELSE "bid")
    /\ UNCHANGED <<items, bids, lapsed, confirmed>>

Negotiate(h) ==
    /\ hand[h].pc = "negotiate"
    /\ SetStatus(hand[h].item, "negotiating")
    /\ Proceed(h, "bid")
    /\ UNCHANGED <<bids, lapsed, used, confirmed, mixed>>

AutoSells(i, amount) ==
    items[i].terms.strategy = "fixed" /\ amount >= items[i].terms.desired

AddBid(h, amount) ==
    /\ hand[h].pc = "bid"
    /\ bids' = [bids EXCEPT ![hand[h].bid] =
                   [item |-> hand[h].item, amount |-> amount]]
    /\ IF AutoSells(hand[h].item, amount) THEN Proceed(h, "sell") ELSE Finish(h)
    /\ UNCHANGED <<items, lapsed, used, confirmed, mixed>>

\* Mutated: AcceptBid does not look at the status.
AcceptableAlways(i) == items[i] # NoRow

\* AcceptBid refuses a sold listing only.
Acceptable(i) == items[i].status \notin {"absent", "sold"}

AcceptBid(h, i) ==
    /\ Acceptable(i)
    /\ Take(h, i, NoBid, "find")
    /\ UNCHANGED <<items, bids, lapsed, used, confirmed>>

\* Mutated: any bid will do.
FindBidAnywhere(h) ==
    /\ hand[h].pc = "find"
    /\ \E b \in used : hand' = [hand EXCEPT ![h].pc = "sell", ![h].bid = b]
    /\ UNCHANGED <<items, bids, lapsed, used, confirmed, mixed>>

\* GetBids: the bid is one of this listing, or the call is refused.
FindBid(h) ==
    /\ hand[h].pc = "find"
    /\ \/ \E b \in Placed(hand[h].item) :
             hand' = [hand EXCEPT ![h].pc = "sell", ![h].bid = b]
       \/ Finish(h)
    /\ UNCHANGED <<items, bids, lapsed, used, confirmed, mixed>>

\* The status is written, and the sale reported (or logged, by CheckExpired).
Sell(h) ==
    /\ hand[h].pc \in {"sell", "award"}
    /\ SetStatus(hand[h].item, "sold")
    /\ confirmed' = confirmed \cup
         {[item |-> hand[h].item, bid |-> hand[h].bid,
           awarded |-> hand[h].pc = "award",
           number |-> Cardinality(confirmed) + 1]}
    /\ Finish(h)
    /\ UNCHANGED <<bids, lapsed, used, mixed>>

(***************************************************************************)
(* CheckExpired reads the listing, then its bids: an auction with a bid is *)
(* sold to the highest one, the earliest of equals; anything else is       *)
(* withdrawn.                                                              *)
(***************************************************************************)
CheckExpired(h, i) ==
    /\ i \in lapsed /\ TakesBids(i)
    /\ Take(h, i, NoBid, "close")
    /\ UNCHANGED <<items, bids, lapsed, used, confirmed>>

\* Mutated: the lowest bid wins the auction.
LowestBids(i) ==
    {b \in Placed(i) : \A c \in Placed(i) : bids[c].amount >= bids[b].amount}

\* GetBestBid; which of equal bids came first is not kept.
BestBids(i) ==
    {b \in Placed(i) : \A c \in Placed(i) : bids[c].amount <= bids[b].amount}

Close(h) ==
    LET i == hand[h].item IN
    /\ hand[h].pc = "close"
    /\ IF items[i].terms.strategy = "auction" /\ Placed(i) # {}
       THEN \E b \in BestBids(i) :
               hand' = [hand EXCEPT ![h].pc = "award", ![h].bid = b]
       ELSE Proceed(h, "withdraw")
    /\ UNCHANGED <<items, bids, lapsed, used, confirmed, mixed>>

Withdraw(h) ==
    /\ hand[h].pc = "withdraw"
    /\ SetStatus(hand[h].item, "withdrawn")
    /\ Finish(h)
    /\ UNCHANGED <<bids, lapsed, used, confirmed, mixed>>

\* A store call fails, and the call ends with what it has written so far.
HandFails(h) ==
    /\ hand[h] # Free
    /\ Finish(h)
    /\ UNCHANGED <<items, bids, lapsed, used, confirmed, mixed>>

SellCrash ==
    /\ \E h \in Hands : hand[h] # Free
    /\ hand' = [h \in Hands |-> Free]
    /\ UNCHANGED <<items, bids, lapsed, used, confirmed, mixed>>

SellNext ==
    \/ \E i \in Items : \/ \E terms \in ItemTerms : ListItem(i, terms)
                        \/ Expire(i)
    \/ \E h \in Hands :
          \/ \E i \in Items : \/ \E b \in Bids : PlaceBid(h, i, b)
                              \/ AcceptBid(h, i)
                              \/ CheckExpired(h, i)
          \/ \E amount \in Amounts : AddBid(h, amount)
          \/ Negotiate(h) \/ FindBid(h) \/ Sell(h) \/ Close(h) \/ Withdraw(h)
          \/ HandFails(h)
    \/ SellCrash

SellSpec == SellInit /\ [][SellNext]_sellVars

-----------------------------------------------------------------------------

SellTypeOK ==
    /\ items \in [Items -> ItemRow \cup {NoRow}]
    /\ bids \in [Bids -> BidRow \cup {NoRow}]
    /\ lapsed \subseteq Items
    /\ \A h \in Hands : \/ hand[h] = Free
                        \/ /\ hand[h].item \in Items
                           /\ hand[h].bid \in used \cup {NoBid}
    /\ used \subseteq Bids
    /\ confirmed \subseteq [item : Items, bid : Bids, awarded : BOOLEAN,
                      number : Nat \ {0}]
    /\ mixed \subseteq Items

SalesOfItem(i) == {c \in confirmed : c.item = i}

(***************************************************************************)
(* One buyer: however often AcceptBid is retried after a failure, and      *)
(* whether the item was sold by its owner, by its desired price or by the  *)
(* end of the auction, only one sale of an item is ever confirmed, and the *)
(* item stays sold, unless two calls on it overlapped (then a bid still in *)
(* progress may set it back to "negotiating").                             *)
(***************************************************************************)
SoldOnceForGood ==
    \A i \in Items \ mixed :
        /\ Cardinality(SalesOfItem(i)) <= 1
        /\ (SalesOfItem(i) # {}) <=> (items[i].status = "sold")

(***************************************************************************)
(* Every sale is to a bid that is on record for that item, and a sold item *)
(* has such a sale, even if calls overlapped.                              *)
(***************************************************************************)
SoldToABid ==
    /\ \A c \in confirmed : c.bid \in Placed(c.item)
    /\ \A i \in Items : items[i].status = "sold" => SalesOfItem(i) # {}

(***************************************************************************)
(* An auction that no two calls were at once busy with is withdrawn only   *)
(* if nobody has bid, and when it ends with bids it goes to one that no    *)
(* other bid, then or later, exceeds.                                      *)
(***************************************************************************)
AuctionIsHonoured ==
    \A i \in Items \ mixed :
        items[i] # NoRow /\ items[i].terms.strategy = "auction" =>
            /\ items[i].status = "withdrawn" => Placed(i) = {}
            /\ \A c \in SalesOfItem(i) : c.awarded =>
                  \A b \in Placed(i) : bids[b].amount <= bids[c.bid].amount
=============================================================================
