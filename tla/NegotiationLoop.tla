--------------------------- MODULE NegotiationLoop ---------------------------
(***************************************************************************)
(* RunNegotiation as the code writes it: one action per iteration of the   *)
(* round loop, the working variables currentOffer and currentDiscount, and *)
(* the session fields the loop assigns.  The checks of the call itself     *)
(* (session active, strategy known) come before the loop.                  *)
(***************************************************************************)
EXTENDS NegotiationEngine

CONSTANT Inputs      \* the terms a run may be called with

ASSUME InputsAssumption == Inputs \subseteq Terms

VARIABLES
    terms,           \* the session and arguments of this run
    round,           \* the loop variable
    rounds,          \* the rounds appended so far
    currentOffer,
    currentDiscount,
    session          \* status, outcome, offer and rounds_complete

vars == <<terms, round, rounds, currentOffer, currentDiscount, session>>

Session == [status : {"active", "completed"},
            outcome : {"", "accepted"},
            offer : Nat, roundsComplete : Nat]

Init ==
    /\ terms \in Inputs
    /\ round = 1
    /\ rounds = <<>>
    /\ currentOffer = InitialOffer(terms.strategy, terms.listPrice)
    /\ currentDiscount = InitialDiscountPct[terms.strategy]
    /\ session = [status |-> "active", outcome |-> "",
                  offer |-> InitialOffer(terms.strategy, terms.listPrice),
                  roundsComplete |-> 0]

\* Mutated: the acceptance is not counted as a round.
AcceptUncounted(offer, n) ==
    session' = [status |-> "completed", outcome |-> "accepted",
                offer |-> offer, roundsComplete |-> n - 1]

Accept(offer, n) ==
    session' = [status |-> "completed", outcome |-> "accepted",
                offer |-> offer, roundsComplete |-> n]

(***************************************************************************)
(* The loop's first branch, the seller's refusal beyond the walk-away      *)
(* threshold, is not an action: SellerNeverRefuses below says that its     *)
(* condition is false whenever an iteration starts.  So is the "rejected"  *)
(* outcome after the loop, which needs a loop that runs out of rounds.     *)
(***************************************************************************)
\* Mutated: the last round is not played.
LoopingShort == session.status = "active" /\ round < RoundLimit(terms)

Looping == session.status = "active" /\ round <= RoundLimit(terms)

AutoAccept ==
    /\ Looping
    /\ AutoApproves(terms, round)
    /\ rounds' = Append(rounds, RoundRow(round, Offer(terms, round),
                                         Discount(terms, round), "seller"))
    /\ currentOffer' = Offer(terms, round)
    /\ currentDiscount' = Discount(terms, round)
    /\ Accept(Offer(terms, round), round)
    /\ UNCHANGED <<terms, round>>

CounterOffer ==
    RoundRow(round, Offer(terms, round), Discount(terms, round), "buyer")

BuyerOffers ==
    /\ Looping
    /\ ~AutoApproves(terms, round)
    /\ currentOffer' = Offer(terms, round)
    /\ currentDiscount' = Discount(terms, round)
    /\ UNCHANGED terms

SellerAccepts ==
    /\ BuyerOffers
    /\ round = RoundLimit(terms) \/ WithinBudget(terms, round)
    /\ rounds' = rounds \o
         <<CounterOffer, RoundRow(round + 1, Offer(terms, round),
                                  Discount(terms, round), "seller")>>
    /\ Accept(Offer(terms, round), round + 1)
    /\ UNCHANGED round

\* Mutated: the last round does not end the loop.
NextRoundPastLast ==
    /\ BuyerOffers
    /\ ~WithinBudget(terms, round)
    /\ rounds' = Append(rounds, CounterOffer)
    /\ round' = round + 1
    /\ UNCHANGED session

NextRound ==
    /\ BuyerOffers
    /\ round # RoundLimit(terms)
    /\ ~WithinBudget(terms, round)
    /\ rounds' = Append(rounds, CounterOffer)
    /\ round' = round + 1
    /\ UNCHANGED session

Next == AutoAccept \/ SellerAccepts \/ NextRound

Spec == Init /\ [][Next]_vars /\ WF_vars(Next)

-----------------------------------------------------------------------------

TypeOK ==
    /\ terms \in Inputs
    /\ round \in 1..RoundLimit(terms)
    /\ rounds \in Seq(RoundRows)
    /\ currentOffer \in Nat
    /\ currentDiscount \in Nat
    /\ session \in Session

(***************************************************************************)
(* The walk-away branch (engine.go:163) is dead: whatever the strategy and *)
(* the round limit, an iteration never starts beyond the threshold, so no  *)
(* session is ever walked away from and every run ends in a deal.          *)
(***************************************************************************)
SellerNeverRefuses == Looping => ~WalksAway(terms, round)

(***************************************************************************)
(* The loop returns the closed form the store-level modules use: the same  *)
(* rounds, and a session whose offer and rounds_complete are those of the  *)
(* last round recorded.                                                    *)
(***************************************************************************)
ComputesResult ==
    session.status = "completed" =>
        /\ rounds = Rounds(terms)
        /\ session.offer = FinalOffer(terms)
        /\ session.roundsComplete = RoundsComplete(terms)

(***************************************************************************)
(* A run ends, and ends with the session completed: the caller is never    *)
(* left with an active session after RunNegotiation returned.              *)
(***************************************************************************)
AlwaysConcludes == <>(session.status = "completed")

(***************************************************************************)
(* The strategy descriptions say the buyer starts at a discount and then   *)
(* concedes ("Start at 30% below asking, concede slowly over 4-5 rounds",  *)
(* strategies.go:21): an offer is never worse for the seller than the one  *)
(* before it.                                                              *)
(***************************************************************************)
BuyerConcedes ==
    \A i \in 2..Len(rounds) : rounds[i].offer >= rounds[i - 1].offer
=============================================================================
