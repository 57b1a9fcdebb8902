---------------------------- MODULE BuyingGroups ----------------------------
(***************************************************************************)
(* Buying groups (internal/group): a group is formed for a vendor and a    *)
(* SKU, users join it with a quantity, and an offer is computed for what   *)
(* they want together.                                                     *)
(*                                                                         *)
(* Each call reads with several statements, between which other calls      *)
(* run: a join reads the status and then inserts the member, an offer      *)
(* reads the group, the members and the list price, one after the other.   *)
(* Nothing removes a member or changes the status of a group: it stays     *)
(* "forming", past its expiry too, and a user who joins twice counts       *)
(* twice.  Prices are in cents and typical discounts in percent; the       *)
(* multipliers are in tenths and twentieths, their product with the        *)
(* percentage in parts of 20000.                                           *)
(***************************************************************************)
EXTENDS Integers, Sequences, FiniteSets, FiniteSetsExt

CONSTANTS
    Groups,
    Quantities,
    GroupPrices,     \* <<list price, typical discount in percent>>
    Buyers,          \* goroutines that serve calls
    MaxMembers,      \* bound: memberships
    MaxOffers        \* bound: offers kept

ASSUME BuyingGroupsAssumption ==
    /\ Quantities \subseteq Nat \ {0} /\ MaxMembers \in Nat /\ MaxOffers \in Nat
    /\ GroupPrices \subseteq Nat \X Nat    \* as in the data; an import takes any

VARIABLES
    groups,          \* table buying_groups, the column status
    members,         \* table group_members, in the order of joining
    price,           \* table pricing_snapshot: the row of the groups' SKU
    buyer,           \* what each goroutine is doing
    computed         \* history: the offers computed

groupVars == <<groups, members, price, buyer, computed>>

NoGroup == "absent"
NotBuying == [pc |-> "idle"]

GroupInit ==
    /\ groups = [g \in Groups |-> NoGroup]
    /\ members = <<>>
    /\ price \in GroupPrices
    /\ buyer = [b \in Buyers |-> NotBuying]
    /\ computed = {}

\* The list price changes under the groups (an import of prices).
Reprice ==
    /\ price' \in GroupPrices \ {price}
    /\ UNCHANGED <<groups, members, buyer, computed>>

CreateGroup(g) ==
    /\ groups[g] = NoGroup
    /\ groups' = [groups EXCEPT ![g] = "forming"]
    /\ UNCHANGED <<members, price, buyer, computed>>

handleCreateGroup == \E g \in Groups : CreateGroup(g)

GetGroup(g) == groups[g]
GetMembers(g) == {m \in DOMAIN members : members[m].group = g}

\* JoinGroup reads the status; the tool raises a quantity below one to one.
CheckStatus(b, g, quantity) ==
    /\ buyer[b] = NotBuying
    /\ groups[g] = "forming"
    /\ buyer' = [buyer EXCEPT ![b] = [pc |-> "join", group |-> g,
                                      quantity |-> quantity]]
    /\ UNCHANGED <<groups, members, price, computed>>

JoinGroup(b) ==
    /\ buyer[b].pc = "join" /\ Len(members) < MaxMembers
    /\ members' = Append(members, [group |-> buyer[b].group,
                                   quantity |-> buyer[b].quantity])
    /\ buyer' = [buyer EXCEPT ![b] = NotBuying]
    /\ UNCHANGED <<groups, price, computed>>

handleJoinGroup(b) ==
    \/ \E g \in Groups, quantity \in Quantities : CheckStatus(b, g, quantity)
    \/ JoinGroup(b)

\* Mutated: the tier of 50 ends at 199, and there is none above it.
QtyMultiplierTop(demand) ==
    CASE demand \in 50 .. 199 -> 14
      [] demand \in 10 .. 49 -> 12
      [] OTHER -> 10

QtyMultiplier(demand) ==
    CASE demand >= 200 -> 16
      [] demand \in 50 .. 199 -> 14
      [] demand \in 10 .. 49 -> 12
      [] OTHER -> 10

MemberMultiplier(count) ==
    CASE count >= 10 -> 28
      [] count \in 5 .. 9 -> 25
      [] count \in 2 .. 4 -> 22
      [] OTHER -> 20

\* The discount in parts of 20000, at most one half.
DiscountOf(typical, demand, count) ==
    Min({typical * QtyMultiplier(demand) * MemberMultiplier(count), 10000})

\* The price after a discount, rounded to a cent.
OfferPrice(list, d) == (list * (20000 - d) + 10000) \div 20000

\* ComputeOffer reads the group and its members, and fails without any.
ReadMembers(b, g) ==
    /\ buyer[b] = NotBuying
    /\ GetGroup(g) # NoGroup /\ GetMembers(g) # {}
    /\ buyer' = [buyer EXCEPT ![b] = [pc |-> "offer", group |-> g,
                                      read |-> GetMembers(g)]]
    /\ UNCHANGED <<groups, members, price, computed>>

\* It reads the price and computes the offer.  Members do not change, so the
\* quantities read are those there are.
ComputeOffer(b) ==
    /\ buyer[b].pc = "offer" /\ Cardinality(computed) < MaxOffers
    /\ LET read == buyer[b].read
           demand == MapThenSumSet(LAMBDA m : members[m].quantity, read)
           d == DiscountOf(price[2], demand, Cardinality(read))
       IN  computed' = computed \cup {[read |-> read, row |-> price, demand |-> demand,
                                   discount |-> d, price |-> OfferPrice(price[1], d)]}
    /\ buyer' = [buyer EXCEPT ![b] = NotBuying]
    /\ UNCHANGED <<groups, members, price>>

handleComputeOffer(b) == (\E g \in Groups : ReadMembers(b, g)) \/ ComputeOffer(b)

\* group_status: the row of a group and its members, read one after the other.
handleGroupStatus(g) == [status |-> GetGroup(g), members |-> GetMembers(g)]

GroupNext ==
    \/ handleCreateGroup \/ Reprice
    \/ \E b \in Buyers : handleJoinGroup(b) \/ handleComputeOffer(b)

GroupSpec == GroupInit /\ [][GroupNext]_groupVars

-----------------------------------------------------------------------------

GroupTypeOK ==
    /\ groups \in [Groups -> {NoGroup, "forming"}]
    /\ Len(members) <= MaxMembers
    /\ \A m \in DOMAIN members :
          /\ members[m].quantity \in Quantities
          /\ handleGroupStatus(members[m].group).status = "forming"
    /\ \A b \in Buyers : buyer[b].pc \in {"idle", "join", "offer"}

(***************************************************************************)
(* Buying together pays: of two offers at the same list price, the one     *)
(* computed for more of the members is never the dearer one, and no offer  *)
(* takes off more than half, whatever joins and prices change while offers *)
(* are computed.                                                           *)
(***************************************************************************)
TogetherIsCheaper ==
    \A o \in computed :
        /\ 2 * o.price >= o.row[1] - 1 /\ o.price <= o.row[1]
        /\ \A p \in computed :
              o.row = p.row /\ o.read \subseteq p.read => p.price <= o.price
=============================================================================
