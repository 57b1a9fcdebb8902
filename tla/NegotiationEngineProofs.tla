----------------------- MODULE NegotiationEngineProofs -----------------------
(***************************************************************************)
(* Lemmas about the negotiation arithmetic, for every strategy, list price *)
(* (a whole number of cents), budget, threshold and round limit.           *)
(***************************************************************************)
EXTENDS NegotiationEngine, TLAPS

\* The strategies' numbers, out of the records that hold them.
LEMMA Profiles ==
  ASSUME NEW s \in Strategies
  PROVE  \/ /\ s = "aggressive" /\ InitialDiscountPct[s] = 30
            /\ ConcessionPerRound[s] = 3 /\ WalkAwayThresholdPct[s] = 45
            /\ MaxRounds[s] = 5
         \/ /\ s = "balanced" /\ InitialDiscountPct[s] = 20
            /\ ConcessionPerRound[s] = 4 /\ WalkAwayThresholdPct[s] = 35
            /\ MaxRounds[s] = 4
         \/ /\ s = "conservative" /\ InitialDiscountPct[s] = 10
            /\ ConcessionPerRound[s] = 5 /\ WalkAwayThresholdPct[s] = 20
            /\ MaxRounds[s] = 3
  BY DEF Strategies, InitialDiscountPct, ConcessionPerRound,
         WalkAwayThresholdPct, MaxRounds

LEMMA LimitBounds ==
  ASSUME NEW t \in Terms
  PROVE  /\ RoundLimit(t) \in Nat \ {0}
         /\ RoundLimit(t) <= MaxRounds[t.strategy]
<1>1. t.strategy \in Strategies /\ t.maxRounds \in Nat
  BY DEF Terms
<1> QED BY <1>1, Profiles DEF RoundLimit

(***************************************************************************)
(* No round of any run goes beyond the strategy's walk-away threshold; the *)
(* discounts are percentages and grow from round to round.                 *)
(***************************************************************************)
LEMMA DiscountBounds ==
  ASSUME NEW t \in Terms, NEW n \in 1..RoundLimit(t)
  PROVE  /\ Discount(t, n) \in Nat
         /\ Discount(t, n) <= 100
         /\ ~WalksAway(t, n)
         /\ \A m \in 1..n : Discount(t, m) <= Discount(t, n)
<1>1. t.strategy \in Strategies
  BY DEF Terms
<1>2. n \in Nat /\ 1 <= n /\ n <= MaxRounds[t.strategy]
  BY <1>1, LimitBounds, Profiles
<1> QED BY <1>1, <1>2, Profiles DEF Discount, WalksAway

LEMMA RoundToCentMonotonic ==
  ASSUME NEW x \in Nat, NEW y \in Nat, x <= y
  PROVE  /\ RoundToCent(x) \in Nat
         /\ RoundToCent(x) <= RoundToCent(y)
  BY DEF RoundToCent, Cent

LEMMA PercentMonotonic ==
  ASSUME NEW price \in Nat, NEW a \in Nat, NEW b \in Nat, a <= b
  PROVE  /\ PercentOf(price, a) \in Nat
         /\ PercentOf(price, a) <= PercentOf(price, b)
<1>1. price * a \in Nat /\ price * b \in Nat /\ price * a <= price * b
  OBVIOUS
<1> QED BY <1>1 DEF PercentOf

LEMMA InitialOfferBounds ==
  ASSUME NEW s \in Strategies, NEW p \in ListPrices
  PROVE  InitialOffer(s, p) \in Nat /\ InitialDiscountPct[s] \in Nat
<1> DEFINE d == InitialDiscountPct[s]
<1>1. p \in Nat
  BY DEF ListPrices
<1>2. d \in Nat /\ d <= 100
  BY Profiles
<1> HIDE DEF d
<1>3. PercentOf(p, d) \in Nat /\ PercentOf(p, d) <= PercentOf(p, 100)
  BY <1>1, <1>2, PercentMonotonic
<1>4. PercentOf(p, 100) = p
  BY <1>1 DEF PercentOf
<1> QED BY <1>1, <1>2, <1>3, <1>4 DEF InitialOffer, d

(***************************************************************************)
(* Every offer is an amount of money between nothing and the list price,   *)
(* and none is higher than the ones before it.                             *)
(***************************************************************************)
LEMMA OfferBounds ==
  ASSUME NEW t \in Terms, NEW n \in 1..RoundLimit(t)
  PROVE  /\ Offer(t, n) \in Nat
         /\ Offer(t, n) <= t.listPrice
         /\ \A m \in 1..n : Offer(t, n) <= Offer(t, m)
<1> DEFINE p == t.listPrice
<1> DEFINE pct(m) == 100 - Discount(t, m)
<1>1. p \in Nat /\ p % 100 = 0
  BY DEF Terms, ListPrices, Cent
<1>2. ASSUME NEW m \in 1..n
      PROVE  /\ pct(n) \in Nat /\ pct(m) \in Nat /\ pct(m) <= 100
             /\ pct(n) <= pct(m)
  <2>1. RoundLimit(t) \in Nat /\ m \in 1..RoundLimit(t)
    BY LimitBounds
  <2> QED BY <2>1, DiscountBounds
<1>3. n \in 1..n
  BY LimitBounds
<1>4. ASSUME NEW m \in 1..n PROVE Offer(t, n) <= Offer(t, m)
  <2>1. /\ PercentOf(p, pct(n)) \in Nat /\ PercentOf(p, pct(m)) \in Nat
        /\ PercentOf(p, pct(n)) <= PercentOf(p, pct(m))
    BY <1>1, <1>2, PercentMonotonic
  <2> HIDE DEF p, pct
  <2>2. RoundToCent(PercentOf(p, pct(n))) <= RoundToCent(PercentOf(p, pct(m)))
    BY <2>1, RoundToCentMonotonic
  <2> QED BY <2>2 DEF Offer, p, pct
<1>5. Offer(t, n) \in Nat /\ Offer(t, n) <= p
  <2>1. /\ PercentOf(p, pct(n)) \in Nat /\ PercentOf(p, 100) \in Nat
        /\ PercentOf(p, pct(n)) <= PercentOf(p, 100)
    <3>1. pct(n) \in Nat /\ pct(n) <= 100
      BY <1>2, <1>3
    <3> HIDE DEF p, pct
    <3>2. PercentOf(p, 100) \in Nat
      BY <1>1, PercentMonotonic
    <3>3. /\ PercentOf(p, pct(n)) \in Nat
          /\ PercentOf(p, pct(n)) <= PercentOf(p, 100)
      BY <1>1, <3>1, PercentMonotonic
    <3> QED BY <3>2, <3>3
  <2> HIDE DEF p, pct
  <2>2. /\ RoundToCent(PercentOf(p, pct(n))) \in Nat
        /\ RoundToCent(PercentOf(p, pct(n))) <= RoundToCent(PercentOf(p, 100))
    BY <2>1, RoundToCentMonotonic
  <2>3. PercentOf(p, 100) = p
    BY <1>1 DEF PercentOf
  <2>4. RoundToCent(p) = p
    BY <1>1 DEF RoundToCent, Cent
  <2> QED BY <2>2, <2>3, <2>4 DEF Offer, p, pct
<1> QED BY <1>4, <1>5

(***************************************************************************)
(* LastRound names the round that ends the loop: there is one, the limit   *)
(* at the latest, and only one.                                            *)
(***************************************************************************)
LEMMA LastRoundExists ==
  ASSUME NEW t \in Terms
  PROVE  /\ LastRound(t) \in 1..RoundLimit(t)
         /\ Ends(t, LastRound(t))
<1> DEFINE First(n) == Ends(t, n) /\ \A m \in 1..(n - 1) : ~Ends(t, m)
<1>1. RoundLimit(t) \in 1..5
  <2>1. t.strategy \in Strategies
    BY DEF Terms
  <2> QED BY <2>1, LimitBounds, Profiles
<1>2. Ends(t, RoundLimit(t))
  BY DEF Ends
<1> HIDE DEF First
<1>3. \E n \in 1..RoundLimit(t) : First(n)
  <2>1. CASE Ends(t, 1)
    <3>1. First(1)
      BY <2>1 DEF First
    <3> QED BY <1>1, <3>1
  <2>2. CASE ~Ends(t, 1) /\ Ends(t, 2)
    <3>1. First(2) /\ RoundLimit(t) # 1
      BY <1>2, <2>2 DEF First
    <3> QED BY <1>1, <3>1
  <2>3. CASE ~Ends(t, 1) /\ ~Ends(t, 2) /\ Ends(t, 3)
    <3>1. First(3) /\ RoundLimit(t) \notin {1, 2}
      BY <1>2, <2>3 DEF First
    <3> QED BY <1>1, <3>1
  <2>4. CASE ~Ends(t, 1) /\ ~Ends(t, 2) /\ ~Ends(t, 3) /\ Ends(t, 4)
    <3>1. First(4) /\ RoundLimit(t) \notin {1, 2, 3}
      BY <1>2, <2>4 DEF First
    <3> QED BY <1>1, <3>1
  <2>5. CASE ~Ends(t, 1) /\ ~Ends(t, 2) /\ ~Ends(t, 3) /\ ~Ends(t, 4)
    <3>1. RoundLimit(t) = 5
      BY <1>1, <1>2, <2>5
    <3>2. First(5)
      BY <1>2, <2>5, <3>1 DEF First
    <3> QED BY <3>1, <3>2
  <2> QED BY <2>1, <2>2, <2>3, <2>4, <2>5
<1> QED BY <1>3 DEF LastRound, First

LEMMA LastRoundUnique ==
  ASSUME NEW t \in Terms, NEW n \in 1..RoundLimit(t),
         Ends(t, n), \A m \in 1..(n - 1) : ~Ends(t, m)
  PROVE  LastRound(t) = n
<1>1. RoundLimit(t) \in Nat
  BY LimitBounds
<1>2. /\ LastRound(t) \in 1..RoundLimit(t)
      /\ Ends(t, LastRound(t))
      /\ \A m \in 1..(LastRound(t) - 1) : ~Ends(t, m)
  BY DEF LastRound
<1>3. ~(LastRound(t) < n)
  BY <1>1, <1>2
<1>4. ~(n < LastRound(t))
  BY <1>1, <1>2
<1> QED BY <1>1, <1>2, <1>3, <1>4

LEMMA ResultBounds ==
  ASSUME NEW t \in Terms
  PROVE  /\ FinalOffer(t) \in Nat
         /\ FinalOffer(t) <= t.listPrice
         /\ RoundsComplete(t) \in Nat \ {0}
<1>1. LastRound(t) \in 1..RoundLimit(t) /\ RoundLimit(t) \in Nat
  BY LastRoundExists, LimitBounds
<1> QED BY <1>1, OfferBounds DEF FinalOffer, RoundsComplete

\* The discount a vendor is remembered for is never negative.
LEMMA TotalDiscountBounds ==
  ASSUME NEW t \in Terms
  PROVE  TotalDiscount(t) \in Nat
<1>1. /\ t.listPrice \in Nat /\ FinalOffer(t) \in Nat
      /\ FinalOffer(t) <= t.listPrice
  BY ResultBounds DEF Terms, ListPrices
<1> QED BY <1>1 DEF TotalDiscount

\* What appending a row to a sequence of k rows gives.
LEMMA Appended ==
  ASSUME NEW R, NEW s \in Seq(R), NEW x \in R, NEW k \in Nat, Len(s) = k
  PROVE  /\ Append(s, x) \in Seq(R)
         /\ Len(Append(s, x)) = k + 1
         /\ Append(s, x)[k + 1] = x
         /\ \A i \in 1..k : Append(s, x)[i] = s[i]
  OBVIOUS

(***************************************************************************)
(* The rounds of a run: numbered from 1 without a gap, and none asks for   *)
(* less than the price the run ends with.                                  *)
(***************************************************************************)
LEMMA RoundsShape ==
  ASSUME NEW t \in Terms
  PROVE  /\ Rounds(t) \in Seq(RoundRows)
         /\ Len(Rounds(t)) = RoundsComplete(t)
         /\ \A i \in 1..Len(Rounds(t)) :
               Rounds(t)[i].number = i /\ FinalOffer(t) <= Rounds(t)[i].offer
<1> DEFINE n == LastRound(t)
<1>1. n \in Nat \ {0} /\ n \in 1..RoundLimit(t) /\ RoundLimit(t) \in Nat
  BY LastRoundExists, LimitBounds
<1>2. ASSUME NEW m \in 1..n
      PROVE  /\ Offer(t, m) \in Nat /\ Discount(t, m) \in Nat
             /\ Offer(t, n) <= Offer(t, m)
  <2>1. m \in 1..RoundLimit(t)
    BY <1>1
  <2> QED BY <1>1, <2>1, OfferBounds, DiscountBounds
<1>3. n \in 1..n /\ Offer(t, n) \in Nat /\ Discount(t, n) \in Nat
  BY <1>1, <1>2
<1> HIDE DEF n
<1>4. ASSUME NEW k \in Nat, k <= n
      PROVE  /\ BuyerRounds(t, k) \in Seq(RoundRows)
             /\ Len(BuyerRounds(t, k)) = k
             /\ \A i \in 1..k : BuyerRounds(t, k)[i]
                   = RoundRow(i, Offer(t, i), Discount(t, i), "buyer")
  <2>1. \A i \in 1..k :
           RoundRow(i, Offer(t, i), Discount(t, i), "buyer") \in RoundRows
    BY <1>1, <1>2, <1>4 DEF RoundRow, RoundRows
  <2> QED BY <1>4, <2>1 DEF BuyerRounds
<1>5. ASSUME NEW k \in Nat, k <= n, n <= k + 1,
             RoundsComplete(t) = k + 1,
             Rounds(t) = Append(BuyerRounds(t, k),
                 RoundRow(k + 1, Offer(t, n), Discount(t, n), "seller"))
      PROVE  /\ Rounds(t) \in Seq(RoundRows)
             /\ Len(Rounds(t)) = RoundsComplete(t)
             /\ \A i \in 1..Len(Rounds(t)) : /\ Rounds(t)[i].number = i
                                             /\ Offer(t, n) <= Rounds(t)[i].offer
  <2> DEFINE last == RoundRow(k + 1, Offer(t, n), Discount(t, n), "seller")
  <2>1. /\ last \in RoundRows /\ last.number = k + 1 /\ last.offer = Offer(t, n)
        /\ BuyerRounds(t, k) \in Seq(RoundRows) /\ Len(BuyerRounds(t, k)) = k
    BY <1>3, <1>4, <1>5 DEF RoundRow, RoundRows
  <2> HIDE DEF last
  <2>2. /\ Rounds(t) \in Seq(RoundRows) /\ Len(Rounds(t)) = k + 1
        /\ Rounds(t)[k + 1] = last
        /\ \A i \in 1..k : Rounds(t)[i] = BuyerRounds(t, k)[i]
    BY <1>5, <2>1, Appended DEF last
  <2>3. ASSUME NEW i \in 1..k
        PROVE  Rounds(t)[i].number = i /\ Offer(t, n) <= Rounds(t)[i].offer
    <3>1. Rounds(t)[i] = RoundRow(i, Offer(t, i), Discount(t, i), "buyer")
      BY <1>4, <1>5, <2>2
    <3>2. i \in 1..n
      BY <1>1, <1>5
    <3> QED BY <1>2, <3>1, <3>2 DEF RoundRow
  <2>4. Rounds(t)[k + 1].number = k + 1 /\ Offer(t, n) <= Rounds(t)[k + 1].offer
    BY <1>3, <2>1, <2>2
  <2>5. \A i \in 1..(k + 1) : i \in 1..k \/ i = k + 1
    OBVIOUS
  <2> QED BY <1>5, <2>2, <2>3, <2>4, <2>5
<1>6. CASE AutoApproves(t, n)
  <2>1. RoundsComplete(t) = (n - 1) + 1
    BY <1>1, <1>6 DEF RoundsComplete, n
  <2>2. Rounds(t) = Append(BuyerRounds(t, n - 1),
           RoundRow((n - 1) + 1, Offer(t, n), Discount(t, n), "seller"))
    <3>1. (n - 1) + 1 = n
      BY <1>1
    <3> QED BY <1>6, <3>1 DEF Rounds, n
  <2>3. n - 1 \in Nat /\ n - 1 <= n /\ n <= (n - 1) + 1
    BY <1>1
  <2> QED BY <1>5, <2>1, <2>2, <2>3 DEF FinalOffer, n
<1>7. CASE ~AutoApproves(t, n)
  <2>1. RoundsComplete(t) = n + 1
    BY <1>7 DEF RoundsComplete, n
  <2>2. Rounds(t) = Append(BuyerRounds(t, n),
           RoundRow(n + 1, Offer(t, n), Discount(t, n), "seller"))
    BY <1>7 DEF Rounds, n
  <2>3. n \in Nat /\ n <= n /\ n <= n + 1
    BY <1>1
  <2> QED BY <1>5, <2>1, <2>2, <2>3 DEF FinalOffer, n
<1> QED BY <1>6, <1>7
=============================================================================
