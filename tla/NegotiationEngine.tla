------------------------- MODULE NegotiationEngine -------------------------
(***************************************************************************)
(* The negotiation arithmetic of internal/negotiation: the three built-in  *)
(* strategy profiles, the offer made in a round, and the result of         *)
(* RunNegotiation in closed form.  NegotiationLoop is the same function    *)
(* written as the loop of the code; it is shown to compute this result.    *)
(*                                                                         *)
(* Money is counted in hundredths of a cent and a list price is a whole    *)
(* number of cents, so a percentage of it is exact and rounding an offer   *)
(* to cents is visible.  Discounts are whole percentages.                  *)
(***************************************************************************)
EXTENDS Integers, Sequences

Cent == 100

ListPrices == {price \in Nat : price % Cent = 0}

Strategies == {"aggressive", "balanced", "conservative"}

InitialDiscountPct ==
    [aggressive |-> 30, balanced |-> 20, conservative |-> 10]
ConcessionPerRound ==
    [aggressive |-> 3, balanced |-> 4, conservative |-> 5]
WalkAwayThresholdPct ==
    [aggressive |-> 45, balanced |-> 35, conservative |-> 20]
MaxRounds ==
    [aggressive |-> 5, balanced |-> 4, conservative |-> 3]

\* math.Round(x*100)/100 of a price that is never negative.
RoundToCent(x) == ((x + Cent \div 2) \div Cent) * Cent

PercentOf(price, pct) == (price * pct) \div 100

\* What CreateSession puts in current_offer: the first discount, not rounded.
InitialOffer(strategy, listPrice) ==
    listPrice - PercentOf(listPrice, InitialDiscountPct[strategy])

(***************************************************************************)
(* The terms of one run: the session row it read and the two arguments of  *)
(* RunNegotiation.  A threshold or a budget of 0 is "none".                *)
(***************************************************************************)
Terms == [strategy : Strategies, listPrice : ListPrices,
          budget : Nat, threshold : Nat, maxRounds : Nat]

\* Mutated: a requested limit above the strategy's own is not clamped.
RoundLimitUnclamped(t) ==
    IF t.maxRounds > 0 THEN t.maxRounds ELSE MaxRounds[t.strategy]

RoundLimit(t) ==
    IF t.maxRounds \in 1..MaxRounds[t.strategy]
    THEN t.maxRounds ELSE MaxRounds[t.strategy]

Discount(t, round) ==
    InitialDiscountPct[t.strategy]
        + (round - 1) * ConcessionPerRound[t.strategy]

Offer(t, round) ==
    RoundToCent(PercentOf(t.listPrice, 100 - Discount(t, round)))

WalksAway(t, round) == Discount(t, round) > WalkAwayThresholdPct[t.strategy]

AutoApproves(t, round) == t.threshold > 0 /\ Offer(t, round) <= t.threshold

WithinBudget(t, round) == t.budget > 0 /\ Offer(t, round) <= t.budget

\* The conditions that end the loop; WalksAway is not among them because no
\* round reaches it (SellerNeverRefuses of NegotiationLoop).
Ends(t, round) ==
    \/ AutoApproves(t, round)
    \/ round = RoundLimit(t)
    \/ WithinBudget(t, round)

LastRound(t) ==
    CHOOSE n \in 1..RoundLimit(t) :
        Ends(t, n) /\ \A m \in 1..(n - 1) : ~Ends(t, m)

RoundRows == [number : Nat, offer : Nat, discount : Nat,
              counterparty : {"buyer", "seller"}]

RoundRow(number, offer, discount, counterparty) ==
    [number |-> number, offer |-> offer, discount |-> discount,
     counterparty |-> counterparty]

\* Mutated: rounds are numbered from 0.
BuyerRoundsFromZero(t, n) ==
    [m \in 1..n |-> RoundRow(m - 1, Offer(t, m), Discount(t, m), "buyer")]

BuyerRounds(t, n) ==
    [m \in 1..n |-> RoundRow(m, Offer(t, m), Discount(t, m), "buyer")]

(***************************************************************************)
(* RunNegotiation: the buyer's offers up to the round that ends the loop,  *)
(* and the seller's acceptance.  An offer at or below the auto-approve     *)
(* threshold is recorded as the acceptance itself, any other final offer   *)
(* is recorded twice, the acceptance under the next round number.          *)
(***************************************************************************)
Rounds(t) ==
    LET n == LastRound(t) IN
    IF AutoApproves(t, n)
    THEN Append(BuyerRounds(t, n - 1),
                RoundRow(n, Offer(t, n), Discount(t, n), "seller"))
    ELSE Append(BuyerRounds(t, n),
                RoundRow(n + 1, Offer(t, n), Discount(t, n), "seller"))

\* Mutated: the session keeps the offer of the first round.
FinalOfferStale(t) == Offer(t, 1)

FinalOffer(t) == Offer(t, LastRound(t))

RoundsComplete(t) ==
    IF AutoApproves(t, LastRound(t)) THEN LastRound(t) ELSE LastRound(t) + 1

\* result.TotalDiscount, rounded to a hundredth of a percent.
TotalDiscount(t) ==
    IF t.listPrice = 0 THEN 0
    ELSE (20000 * (t.listPrice - FinalOffer(t)) + t.listPrice)
             \div (2 * t.listPrice)
=============================================================================
