------------------------ MODULE NegotiationLoopProofs ------------------------
(***************************************************************************)
(* Proofs that the round loop keeps its types, never reaches the seller's  *)
(* walk-away branch and computes the closed form, for every strategy, list *)
(* price, budget, auto-approve threshold and requested round limit.        *)
(***************************************************************************)
EXTENDS NegotiationLoop, NegotiationEngineProofs, SequenceTheorems

LEMMA NoBuyerRounds ==
  ASSUME NEW t PROVE BuyerRounds(t, 0) = <<>>
  BY DEF BuyerRounds

LEMMA OneMoreBuyerRound ==
  ASSUME NEW t \in Terms, NEW n \in Nat \ {0}
  PROVE  BuyerRounds(t, n) = Append(BuyerRounds(t, n - 1),
             RoundRow(n, Offer(t, n), Discount(t, n), "buyer"))
<1> DEFINE row(m) == RoundRow(m, Offer(t, m), Discount(t, m), "buyer")
           R == {row(m) : m \in Nat}
<1> HIDE DEF row
<1>1. /\ [m \in 1..n |-> row(m)] \in Seq(R)
      /\ [m \in 1..(n - 1) |-> row(m)] \in Seq(R)
  OBVIOUS
<1>2. [m \in 1..n |-> row(m)] = Append([m \in 1..(n - 1) |-> row(m)], row(n))
  BY <1>1
<1> QED BY <1>2 DEF BuyerRounds, row

(***************************************************************************)
(* What holds between two iterations: the rounds recorded are the offers   *)
(* of the rounds played, none of which ended the loop; after the last one  *)
(* the result is the closed form.                                          *)
(***************************************************************************)
LoopInv ==
    /\ TypeOK
    /\ \A m \in 1..(round - 1) : ~Ends(terms, m)
    /\ session.status = "active" => rounds = BuyerRounds(terms, round - 1)
    /\ ComputesResult

LEMMA InitLoopInv == Init => LoopInv
<1> SUFFICES ASSUME Init PROVE LoopInv
  OBVIOUS
<1>1. round = 1
  BY Zenon DEF Init
<1>2. rounds = <<>>
  BY Zenon DEF Init
<1>3. /\ terms \in Inputs
      /\ currentOffer = InitialOffer(terms.strategy, terms.listPrice)
      /\ currentDiscount = InitialDiscountPct[terms.strategy]
      /\ session = [status |-> "active", outcome |-> "",
                    offer |-> InitialOffer(terms.strategy, terms.listPrice),
                    roundsComplete |-> 0]
  BY Zenon DEF Init
<1>4. terms \in Terms
  BY <1>3, InputsAssumption
<1>5. InitialOffer(terms.strategy, terms.listPrice) \in Nat
      /\ InitialDiscountPct[terms.strategy] \in Nat
  BY <1>4, InitialOfferBounds DEF Terms
<1>6. 1 \in 1..RoundLimit(terms)
  BY <1>4, LimitBounds
<1>7. rounds = BuyerRounds(terms, round - 1)
  <2>1. round - 1 = 0
    BY <1>1
  <2> QED BY <1>2, <2>1, NoBuyerRounds, Zenon
<1>8. rounds \in Seq(RoundRows)
  BY <1>2, EmptySeq, Zenon
<1>9. currentOffer \in Nat /\ currentDiscount \in Nat
  BY <1>5, <1>3
<1>10. session \in Session /\ session.status = "active"
  BY <1>5, <1>3 DEF Session
<1>11. \A m \in 1..(round - 1) : ~Ends(terms, m)
  BY <1>1
<1>12. terms \in Inputs /\ round \in 1..RoundLimit(terms)
  BY <1>1, <1>3, <1>6
<1> QED BY <1>7, <1>8, <1>9, <1>10, <1>11, <1>12
        DEF LoopInv, TypeOK, ComputesResult

\* An iteration that concludes leaves the closed form behind.
LEMMA NextLoopInv == LoopInv /\ [Next]_vars => LoopInv'
<1> SUFFICES ASSUME LoopInv, [Next]_vars PROVE LoopInv'
  OBVIOUS
<1>1. CASE UNCHANGED vars
  BY <1>1 DEF vars, LoopInv, TypeOK, ComputesResult
<1>2. CASE Next
  <2> DEFINE n == round
  <2>1. /\ terms \in Terms /\ terms \in Inputs /\ terms' = terms
        /\ session.status = "active"
        /\ rounds = BuyerRounds(terms, n - 1) /\ rounds \in Seq(RoundRows)
        /\ n \in 1..RoundLimit(terms) /\ RoundLimit(terms) \in Nat
        /\ n \in Nat \ {0}
        /\ \A m \in 1..(n - 1) : ~Ends(terms, m)
    BY <1>2, InputsAssumption, LimitBounds
    DEF LoopInv, TypeOK, Next, AutoAccept, SellerAccepts, NextRound, BuyerOffers,
        Looping
  <2>2. Offer(terms, n) \in Nat /\ Discount(terms, n) \in Nat
    BY <2>1, OfferBounds, DiscountBounds
  <2>3. /\ currentOffer' = Offer(terms, n)
        /\ currentDiscount' = Discount(terms, n)
    BY <1>2 DEF Next, AutoAccept, SellerAccepts, NextRound, BuyerOffers
  <2> DEFINE row(k, who) == RoundRow(k, Offer(terms, n), Discount(terms, n), who)
  <2>4. ASSUME NEW k \in Nat, NEW who \in {"buyer", "seller"}
        PROVE  row(k, who) \in RoundRows
    BY <2>2 DEF RoundRow, RoundRows
  <2>5. BuyerRounds(terms, n) = Append(rounds, row(n, "buyer"))
    BY <2>1, OneMoreBuyerRound
  <2>6. CASE AutoAccept
    <3>1. /\ AutoApproves(terms, n) /\ Ends(terms, n) /\ round' = round
          /\ rounds' = Append(rounds, row(n, "seller"))
          /\ session' = [status |-> "completed", outcome |-> "accepted",
                         offer |-> Offer(terms, n), roundsComplete |-> n]
      BY <2>6 DEF AutoAccept, Accept, Ends
    <3>2. LastRound(terms) = n
      BY <2>1, <3>1, LastRoundUnique
    <3>3. /\ rounds' = Rounds(terms) /\ FinalOffer(terms) = Offer(terms, n)
          /\ RoundsComplete(terms) = n
      BY <2>1, <3>1, <3>2 DEF Rounds, FinalOffer, RoundsComplete
    <3>4. rounds' \in Seq(RoundRows)
      BY <2>1, <2>4, <3>1
    <3> QED BY <2>1, <2>2, <2>3, <3>1, <3>3, <3>4
            DEF LoopInv, TypeOK, Session, ComputesResult
  <2>7. CASE SellerAccepts
    <3>1. /\ ~AutoApproves(terms, n) /\ Ends(terms, n) /\ round' = round
          /\ rounds' = rounds \o <<row(n, "buyer"), row(n + 1, "seller")>>
          /\ session' = [status |-> "completed", outcome |-> "accepted",
                         offer |-> Offer(terms, n), roundsComplete |-> n + 1]
      BY <2>7 DEF SellerAccepts, BuyerOffers, CounterOffer, Accept, Ends
    <3>2. LastRound(terms) = n
      BY <2>1, <3>1, LastRoundUnique
    <3>3. rounds' = Append(Append(rounds, row(n, "buyer")), row(n + 1, "seller"))
      <4>1. row(n, "buyer") \in RoundRows /\ row(n + 1, "seller") \in RoundRows
        BY <2>1, <2>4
      <4> HIDE DEF row
      <4> QED BY <2>1, <3>1, <4>1
    <3>4. /\ rounds' = Rounds(terms) /\ FinalOffer(terms) = Offer(terms, n)
          /\ RoundsComplete(terms) = n + 1
      BY <2>5, <3>1, <3>2, <3>3 DEF Rounds, FinalOffer, RoundsComplete
    <3>5. rounds' \in Seq(RoundRows)
      BY <2>1, <2>4, <3>3
    <3>6. session' \in Session /\ session'.status = "completed"
      BY <2>1, <2>2, <3>1 DEF Session
    <3>7. TypeOK'
      BY <2>1, <2>2, <2>3, <3>1, <3>5, <3>6 DEF TypeOK
    <3>8. ComputesResult'
      BY <2>1, <3>1, <3>4 DEF ComputesResult
    <3> QED BY <2>1, <3>1, <3>6, <3>7, <3>8 DEF LoopInv
  <2>8. CASE NextRound
    <3>1. /\ ~Ends(terms, n) /\ n # RoundLimit(terms) /\ round' = n + 1
          /\ rounds' = Append(rounds, row(n, "buyer")) /\ session' = session
      BY <2>8 DEF NextRound, BuyerOffers, CounterOffer, Ends
    <3>2. rounds' = BuyerRounds(terms, round' - 1)
      <4>1. (n + 1) - 1 = n
        BY <2>1
      <4> QED BY <2>5, <3>1, <4>1
    <3>3. round' \in 1..RoundLimit(terms)
      BY <2>1, <3>1
    <3>4. \A m \in 1..(round' - 1) : ~Ends(terms, m)
      BY <2>1, <3>1
    <3>5. rounds' \in Seq(RoundRows)
      BY <2>1, <2>4, <3>1
    <3> QED BY <2>1, <2>2, <2>3, <3>1, <3>2, <3>3, <3>4, <3>5
            DEF LoopInv, TypeOK, ComputesResult
  <2> QED BY <1>2, <2>6, <2>7, <2>8 DEF Next
<1> QED BY <1>1, <1>2

LEMMA LoopInvariant == Spec => []LoopInv
  BY InitLoopInv, NextLoopInv, PTL DEF Spec

(***************************************************************************)
(* The loop variable stays within the strategy's rounds, and money and     *)
(* discounts stay natural numbers.                                         *)
(***************************************************************************)
THEOREM TypeCorrect == Spec => []TypeOK
<1>1. LoopInv => TypeOK
  BY DEF LoopInv
<1> QED BY <1>1, LoopInvariant, PTL

(***************************************************************************)
(* The walk-away branch of engine.go is dead code, whatever the arguments. *)
(***************************************************************************)
THEOREM NeverWalksAway == Spec => []SellerNeverRefuses
<1>1. LoopInv => SellerNeverRefuses
  BY InputsAssumption, DiscountBounds
  DEF LoopInv, TypeOK, SellerNeverRefuses, Looping
<1> QED BY <1>1, LoopInvariant, PTL

(***************************************************************************)
(* The loop computes the closed form that the modules about the store use. *)
(***************************************************************************)
THEOREM ComputesClosedForm == Spec => []ComputesResult
<1>1. LoopInv => ComputesResult
  BY DEF LoopInv
<1> QED BY <1>1, LoopInvariant, PTL

(***************************************************************************)
(* What the loop does instead of BuyerConcedes: from one recorded round to *)
(* any later one the offer never rises and the discount never falls.       *)
(***************************************************************************)
OffersNeverRise ==
    \A i, j \in 1..Len(rounds) :
        i <= j => /\ rounds[j].offer <= rounds[i].offer
                  /\ rounds[i].discount <= rounds[j].discount

\* The round of the loop whose offer the i-th row records.
PlayedIn(t, i) == IF i <= LastRound(t) THEN i ELSE LastRound(t)

LEMMA LaterRoundsAskMore ==
  ASSUME NEW t \in Terms, NEW n \in 1..RoundLimit(t), NEW m \in 1..n
  PROVE  /\ Offer(t, n) <= Offer(t, m)
         /\ Discount(t, m) <= Discount(t, n)
         /\ Offer(t, m) \in Nat /\ Discount(t, m) \in Nat
<1>1. m \in 1..RoundLimit(t)
  BY LimitBounds
<1> QED BY <1>1, OfferBounds, DiscountBounds

LEMMA BuyerRows ==
  ASSUME NEW t \in Terms, NEW n \in Nat, n <= RoundLimit(t)
  PROVE  /\ BuyerRounds(t, n) \in Seq(RoundRows)
         /\ Len(BuyerRounds(t, n)) = n
         /\ \A i \in 1..n : BuyerRounds(t, n)[i]
               = RoundRow(i, Offer(t, i), Discount(t, i), "buyer")
<1>1. ASSUME NEW i \in 1..n
      PROVE  RoundRow(i, Offer(t, i), Discount(t, i), "buyer") \in RoundRows
  <2>1. i \in 1..RoundLimit(t) /\ i \in Nat
    BY LimitBounds
  <2> QED BY <2>1, OfferBounds, DiscountBounds DEF RoundRow, RoundRows
<1> QED BY <1>1 DEF BuyerRounds

LEMMA RowsPlayed ==
  ASSUME NEW t \in Terms, NEW i \in 1..Len(Rounds(t))
  PROVE  /\ PlayedIn(t, i) \in 1..LastRound(t)
         /\ Rounds(t)[i].offer = Offer(t, PlayedIn(t, i))
         /\ Rounds(t)[i].discount = Discount(t, PlayedIn(t, i))
<1>1. PICK n \in 1..RoundLimit(t) : n = LastRound(t)
  BY LastRoundExists
<1>2. n \in Nat \ {0} /\ n <= RoundLimit(t) /\ RoundLimit(t) \in Nat
  BY <1>1, LimitBounds
<1>3. ASSUME NEW k \in Nat, k <= n, n <= k + 1,
             Rounds(t) = Append(BuyerRounds(t, k),
                 RoundRow(k + 1, Offer(t, n), Discount(t, n), "seller"))
      PROVE  /\ PlayedIn(t, i) \in 1..n
             /\ Rounds(t)[i].offer = Offer(t, PlayedIn(t, i))
             /\ Rounds(t)[i].discount = Discount(t, PlayedIn(t, i))
  <2> DEFINE last == RoundRow(k + 1, Offer(t, n), Discount(t, n), "seller")
  <2>1. /\ last \in RoundRows
        /\ last.offer = Offer(t, n) /\ last.discount = Discount(t, n)
    <3>1. Offer(t, n) \in Nat /\ Discount(t, n) \in Nat
      BY <1>2, OfferBounds, DiscountBounds
    <3> QED BY <1>3, <3>1 DEF RoundRow, RoundRows
  <2>2. /\ BuyerRounds(t, k) \in Seq(RoundRows) /\ Len(BuyerRounds(t, k)) = k
        /\ \A j \in 1..k : BuyerRounds(t, k)[j]
              = RoundRow(j, Offer(t, j), Discount(t, j), "buyer")
    <3>1. k <= RoundLimit(t)
      BY <1>2, <1>3
    <3> QED BY <1>3, <3>1, BuyerRows
  <2>3. Rounds(t) = Append(BuyerRounds(t, k), last)
    BY <1>3
  <2> HIDE DEF last
  <2>4. /\ Len(Rounds(t)) = k + 1 /\ Rounds(t)[k + 1] = last
        /\ \A j \in 1..k : Rounds(t)[j] = BuyerRounds(t, k)[j]
    BY <1>3, <2>1, <2>2, <2>3, Appended
  <2>5. CASE i = k + 1
    <3>1. PlayedIn(t, i) = n
      BY <1>1, <1>2, <1>3, <2>5 DEF PlayedIn
    <3>2. Rounds(t)[i] = last
      BY <2>4, <2>5
    <3> QED BY <1>2, <2>1, <3>1, <3>2
  <2>6. CASE i # k + 1
    <3>1. i \in 1..k
      BY <1>3, <2>4, <2>6
    <3>2. PlayedIn(t, i) = i /\ i \in 1..n
      BY <1>1, <1>2, <1>3, <3>1 DEF PlayedIn
    <3>3. Rounds(t)[i] = RoundRow(i, Offer(t, i), Discount(t, i), "buyer")
      BY <2>2, <2>4, <3>1
    <3> QED BY <3>2, <3>3 DEF RoundRow
  <2> QED BY <2>5, <2>6
<1>4. CASE AutoApproves(t, n)
  <2>1. Rounds(t) = Append(BuyerRounds(t, n - 1),
           RoundRow((n - 1) + 1, Offer(t, n), Discount(t, n), "seller"))
    <3>1. (n - 1) + 1 = n
      BY <1>2
    <3> QED BY <1>1, <1>4, <3>1 DEF Rounds
  <2>2. n - 1 \in Nat /\ n - 1 <= n /\ n <= (n - 1) + 1
    BY <1>2
  <2> QED BY <1>1, <1>3, <2>1, <2>2
<1>5. CASE ~AutoApproves(t, n)
  <2>1. Rounds(t) = Append(BuyerRounds(t, n),
           RoundRow(n + 1, Offer(t, n), Discount(t, n), "seller"))
    BY <1>1, <1>5 DEF Rounds
  <2>2. n \in Nat /\ n <= n /\ n <= n + 1
    BY <1>2
  <2> QED BY <1>1, <1>3, <2>1, <2>2
<1> QED BY <1>4, <1>5

(***************************************************************************)
(* The buyer never concedes, whatever the strategy, the list price, the    *)
(* budget, the threshold and the limit.  The run that refutes              *)
(* BuyerConcedes shows one session in which the code and the description   *)
(* of the strategies differ; this says that no session does what the       *)
(* description says.                                                       *)
(***************************************************************************)
THEOREM BuyerNeverConcedes == Spec => []OffersNeverRise
<1>1. ASSUME LoopInv PROVE OffersNeverRise
  <2>1. PICK t \in Terms : t = terms
    BY <1>1, InputsAssumption DEF LoopInv, TypeOK
  <2>2. /\ round \in 1..RoundLimit(t)
        /\ session.status \in {"active", "completed"}
    BY <1>1, <2>1 DEF LoopInv, TypeOK, Session
  <2>3. SUFFICES ASSUME NEW i \in 1..Len(rounds), NEW j \in 1..Len(rounds),
                        i <= j
                 PROVE  /\ rounds[j].offer <= rounds[i].offer
                        /\ rounds[i].discount <= rounds[j].discount
    BY DEF OffersNeverRise
  <2>4. i \in Nat \ {0} /\ j \in Nat \ {0}
    <3>1. Len(rounds) \in Nat
      BY <1>1, LenProperties DEF LoopInv, TypeOK
    <3> QED BY <3>1
  <2>5. CASE session.status = "active"
    <3>1. PICK n \in Nat : n = round - 1 /\ n <= RoundLimit(t)
      BY <2>1, <2>2, LimitBounds
    <3>2. rounds = BuyerRounds(t, n)
      BY <1>1, <2>1, <2>5, <3>1 DEF LoopInv
    <3>3. /\ j \in 1..n /\ i \in 1..n
          /\ rounds[i] = RoundRow(i, Offer(t, i), Discount(t, i), "buyer")
          /\ rounds[j] = RoundRow(j, Offer(t, j), Discount(t, j), "buyer")
      BY <3>1, <3>2, BuyerRows
    <3>4. j \in 1..RoundLimit(t) /\ i \in 1..j
      BY <2>3, <2>4, <3>1, <3>3, LimitBounds
    <3> QED BY <3>3, <3>4, LaterRoundsAskMore DEF RoundRow
  <2>6. CASE session.status = "completed"
    <3>1. rounds = Rounds(t)
      BY <1>1, <2>1, <2>6 DEF LoopInv, ComputesResult
    <3>2. PICK n \in 1..RoundLimit(t) : n = LastRound(t)
      BY LastRoundExists
    <3>3. PICK p \in 1..n : /\ p = PlayedIn(t, i)
                            /\ rounds[i].offer = Offer(t, p)
                            /\ rounds[i].discount = Discount(t, p)
      BY <3>1, <3>2, RowsPlayed
    <3>4. PICK q \in 1..n : /\ q = PlayedIn(t, j)
                            /\ rounds[j].offer = Offer(t, q)
                            /\ rounds[j].discount = Discount(t, q)
      BY <3>1, <3>2, RowsPlayed
    <3>5. p \in 1..q /\ q \in 1..RoundLimit(t)
      BY <2>3, <2>4, <3>2, <3>3, <3>4, LimitBounds DEF PlayedIn
    <3> QED BY <3>3, <3>4, <3>5, LaterRoundsAskMore
  <2> QED BY <2>2, <2>5, <2>6
<1> QED BY <1>1, LoopInvariant, PTL
=============================================================================
