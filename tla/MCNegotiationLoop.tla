------------------------- MODULE MCNegotiationLoop -------------------------
(***************************************************************************)
(* NegotiationLoop over every strategy, list prices whose discounts do and *)
(* do not fall on a cent, budgets and thresholds below, inside and above   *)
(* the range of offers, and round limits from "none" to more than any      *)
(* strategy has.                                                           *)
(***************************************************************************)
EXTENDS NegotiationLoop

Prices == {0, 100, 500, 10100, 10000000}

Limits(price) == {0} \cup {(price * pct) \div 100 : pct \in {58, 70, 80, 82, 95}}

MCInputs ==
    UNION {[strategy : Strategies, listPrice : {p}, budget : Limits(p),
            threshold : Limits(p), maxRounds : {0, 1, 2, 9}] : p \in Prices}
=============================================================================
