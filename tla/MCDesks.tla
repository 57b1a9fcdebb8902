------------------------------ MODULE MCDesks -------------------------------
(***************************************************************************)
(* The parts of the server that share no state with each other, one desk   *)
(* each: a behaviour is about one of the desks in Desks, its initial state *)
(* says which, and all the others stay as they were.                       *)
(*                                                                         *)
(* seats       one listing, two goroutines, two offers: one accepted by    *)
(*             the call that makes it, one left to accept_offer, and one   *)
(*             for no seats at all                                         *)
(* items       one item of each strategy in turn, two goroutines, and bids *)
(*             below, at and above the desired price                       *)
(* renewals    a contract due in the afternoon of day 100, looked at from  *)
(*             60 days before to the day after, on both sides of the       *)
(*             instants where a bucket or an urgency begins, and on the    *)
(*             morning and in the afternoon of that day; a list price      *)
(*             above and one below the present price, for one round and    *)
(*             for four                                                    *)
(* claims      two agreements for two services, or both for one; an outage *)
(*             within the cap and one beyond it                            *)
(* approvals   two requests, two who decide                                *)
(* strategies  two raters, two ratings each, imports of shared strategies  *)
(* groups      five members reach the third tier of the group's size and,  *)
(*             with 10 or 60 units each, all tiers of its demand; typical  *)
(*             discounts of 8 and 25 percent stay below and reach the cap  *)
(* server      two processes one after the other, two calls under way,     *)
(*             files in each of the three layouts                          *)
(* commands    two runs of the examples in the README                      *)
(* keys        two operators, three keys                                   *)
(* addresses   one address, added and removed twice                        *)
(* config      two operators, two settings                                 *)
(* health      two analysts, two signals about one vendor, of types with   *)
(*             and without a weight, and scores at and within both limits  *)
(* badges      a newcomer whose three deals save a thousand, and a user    *)
(*             two deals short of a streak of five and of fifty deals      *)
(* learning    two vendors, one of them with a past of nine deals by one   *)
(*             strategy and two by another                                 *)
(***************************************************************************)
EXTENDS Marketplace, SellListings, Renewals, Claims, Approvals, StrategyMarket,
        BuyingGroups, ServerLife, CommandLine, Operator, HealthScores,
        Badges, Learning

CONSTANTS Desks,
          l1, o1, o2, a1, a2, i1, b1, b2, h1, h2,
          c1, g1, g2, s1, s2, f1, f2, k1, k2, r1, r2, d1, d2,
          x1, x2, sh1, cat, gr1, y1, y2,
          v1, v2, p1, p2, t1, w1, w2, z1, z2, q1, q2, n1, e1, e2, u1, u2

VARIABLE desk        \* what this behaviour is about

MCSaleTerms == {[seats |-> 2, ask |-> 10]}
MCOfferTerms == {[seats |-> 1, max |-> 8], [seats |-> 2, max |-> 12],
                 [seats |-> 0, max |-> 10]}
MCItemTerms == [strategy : {"fixed", "haggling", "auction"}, desired : {10}]
MCAmounts == {9, 10, 12}

MCContractTerms == {[price |-> 10000, due |-> 201]}
MCQuotes == {9000, 20000}
MCInstants == {81, 82, 140, 141, 142, 143, 174, 175, 186, 187, 200, 201, 202}

MCSlaTerms == {[service |-> 1, spend |-> 100000, credit |-> 10, cap |-> 25],
               [service |-> 2, spend |-> 43200, credit |-> 50, cap |-> 10]}
MCDurations == {45, 20000}

MCGroupPrices == {<<10000, 8>>, <<10000, 25>>}

MCRow(v, s, list) ==
    [vendor |-> v, sku |-> s, description |-> t1, list |-> list, min |-> list - 5,
     max |-> list, typical |-> 20, unit |-> "seat", category |-> "tools",
     price |-> list, date |-> "2025-01-01"]
MCFiles == {[layout |-> Documented, rows |-> <<MCRow(v1, p1, 20), MCRow(v2, p1, 30)>>],
            [layout |-> Documented,
             rows |-> <<MCRow(v1, p1, 21), MCRow(v1, p2, 40), MCRow(v2, p1, 31)>>],
            [layout |-> Shipped, rows |-> <<MCRow(v1, p1, 20)>>],
            [layout |-> Dated, rows |-> <<MCRow(v1, p1, 20)>>]}
MCImports == {<<[vendor |-> v2, sku |-> p1, list |-> 33],
                [vendor |-> v1, sku |-> p2, list |-> 0],
                [vendor |-> v1, sku |-> p1, list |-> 23]>>}

MCWeights == {-60, 0, 40}

MCEarlier == [anonymous |-> NoStreakRow,
              veteran |-> [current |-> 3, longest |-> 4, savings |-> 900, deals |-> 48]]

MCPast == {[v \in {v1, v2} |-> [t \in {"balanced", "aggressive"} |->
               IF v = v1 THEN [deals |-> 0, discounts |-> 0]
               ELSE IF t = "balanced" THEN [deals |-> 9, discounts |-> 90]
               ELSE [deals |-> 2, discounts |-> 18]]]}

MCLines == {[name |-> <<"query">>, args |-> <<"Slack">>],
            [name |-> <<"query">>, args |-> <<"seats", "Unheard">>],
            [name |-> <<"negotiate">>, args |-> <<"Slack", "Pro", "strategy", "budget">>],
            [name |-> <<"discover">>, args |-> <<>>],
            [name |-> <<"health">>, args |-> <<"Slack">>],
            [name |-> <<"sla", "add">>, args |-> <<"Acme", "CRM", "uptime", "credit">>],
            [name |-> <<"sla", "report">>, args |-> <<"uptime">>],
            [name |-> <<"strategies">>, args |-> <<>>],
            [name |-> <<"strategy">>, args |-> <<>>]}

\* One permutation for all the desks: it exchanges the two members of every
\* pair at once, so that the group TLC closes it to has two elements.
MCPairs == {<<o1, o2>>, <<a1, a2>>, <<b1, b2>>, <<h1, h2>>, <<g1, g2>>, <<s1, s2>>,
            <<f1, f2>>, <<k1, k2>>, <<r1, r2>>, <<d1, d2>>, <<x1, x2>>, <<y1, y2>>,
            <<w1, w2>>, <<z1, z2>>, <<q1, q2>>,
            <<u1, u2>>}
MCPaired == {p[1] : p \in MCPairs} \cup {p[2] : p \in MCPairs}
MCSymmetry == {[m \in MCPaired |-> CHOOSE n \in MCPaired : <<m, n>> \in MCPairs
                                                        \/ <<n, m>> \in MCPairs]}

MCInit == /\ MarketInit /\ SellInit /\ RenewalInit /\ ClaimInit /\ ApprovalInit
          /\ StrategyInit /\ GroupInit /\ LifeInit /\ CliInit /\ OperatorInit
          /\ HealthInit /\ BadgeInit /\ LearningInit
          /\ desk \in Desks
          \* what the behaviour is not about starts in one state only
          /\ desk # "groups" => price[2] = 8
          /\ desk # "renewals" => clock = 81

OnlyAt(d, vars) == desk # d => UNCHANGED vars

MCNext ==
    /\ UNCHANGED desk
    /\ CASE desk = "seats" -> MarketNext
         [] desk = "items" -> SellNext
         [] desk = "renewals" -> RenewalNext
         [] desk = "claims" -> ClaimNext
         [] desk = "approvals" -> ApprovalNext
         [] desk = "strategies" -> StrategyNext
         [] desk = "groups" -> GroupNext
         [] desk = "server" -> LifeNext
         [] desk = "commands" -> CliNext
         [] desk = "keys" -> KeyNext \/ Restart
         [] desk = "addresses" -> AddressNext \/ Restart
         [] desk = "config" -> ConfigNext \/ Restart
         [] desk = "health" -> HealthNext
         [] desk = "badges" -> BadgeNext
         [] desk = "learning" -> LearningNext
    /\ OnlyAt("seats", marketVars) /\ OnlyAt("items", sellVars)
    /\ OnlyAt("renewals", renewalVars) /\ OnlyAt("claims", claimVars)
    /\ OnlyAt("approvals", approvalVars) /\ OnlyAt("strategies", stratVars)
    /\ OnlyAt("groups", groupVars) /\ OnlyAt("server", lifeVars)
    /\ OnlyAt("commands", cliVars) /\ OnlyAt("health", healthVars)
    /\ OnlyAt("badges", badgeVars) /\ OnlyAt("learning", learningVars)
    /\ desk \in {"keys", "addresses", "config"} \/ UNCHANGED operatorVars

mcVars == <<desk, marketVars, sellVars, renewalVars, claimVars, approvalVars, stratVars,
            groupVars, lifeVars, cliVars, operatorVars, healthVars,
            badgeVars, learningVars>>

MCSpec == MCInit /\ [][MCNext]_mcVars

\* The types of all the tables: the statuses a row may have, the rows a call
\* may hold on to and where a call may stand.
MCTypeOK == /\ MarketTypeOK /\ SellTypeOK /\ RenewalTypeOK /\ ClaimTypeOK
            /\ ApprovalTypeOK /\ StrategyTypeOK /\ GroupTypeOK /\ LifeTypeOK
            /\ CliTypeOK /\ OperatorTypeOK /\ HealthTypeOK
            /\ BadgeTypeOK /\ LearningTypeOK

\* What was answered is so: the answers of a server that is started, shut down
\* and started again, the exit codes of the command line, what operators were
\* told about keys, addresses and imported settings, the badges users were
\* given and the advice they got.
RepliesAreHonest ==
    /\ AnswersAreTrue /\ ExitIsHonest
    /\ OneActiveKey /\ AllowedAsAnswered /\ ImportedAsAnswered
    /\ BadgesAreEarned /\ AdviceIsDrawnFromDeals
=============================================================================
