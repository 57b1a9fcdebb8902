---------------------------- MODULE MCA2AServer ----------------------------
(***************************************************************************)
(* The server towards its peers: requests about mandates, webhooks and     *)
(* notices.  They share no state; the initial state says which of them a   *)
(* behaviour is about, and the others stay as they were.                   *)
(*                                                                         *)
(* requests    two mandates, two goroutines racing for them, and one       *)
(*             client, whose key is generated and forgotten by every       *)
(*             restart.  Two requests per window of two ticks and a clock  *)
(*             that passes two windows let a burst straddle a boundary and *)
(*             a mandate fall due while it is being settled                *)
(* webhooks    two subscriptions, one of which always answers, two events  *)
(* notices     two notices sent at the same time, two addresses            *)
(***************************************************************************)
EXTENDS A2AServer, Webhooks, Notices

CONSTANTS m1, m2, c1, r1, r2, h1, h2, e1, e2, star, q1, u1, u2, n1, n2

VARIABLE desk        \* what this behaviour is about

MCLifetime == [pending |-> 3, active |-> 1]

\* Mandates and the goroutines of requests only: what the liveness property
\* is about, and its fairness, is not touched by them.
MCSymmetry == Permutations({m1, m2}) \cup Permutations({r1, r2})

MCInit == /\ A2AInit /\ HookInit /\ NoticeInit
          /\ desk \in {"requests", "webhooks", "notices"}
          \* what the behaviour is not about starts in one state only
          /\ desk # "notices" => ~Enabled(slack)

\* All dispatches returned and all subscriptions ended, or all notices sent:
\* nothing is left to do, which is no deadlock.  Requests always go on.
Quiet == desk # "requests" /\ UNCHANGED <<a2aVars, hookVars, noticeVars>>

MCNext ==
    /\ UNCHANGED desk
    /\ \/ desk = "requests" /\ A2ANext /\ UNCHANGED <<hookVars, noticeVars>>
       \/ desk = "webhooks" /\ HookNext /\ UNCHANGED <<a2aVars, noticeVars>>
       \/ desk = "notices" /\ NoticeNext /\ UNCHANGED <<a2aVars, hookVars>>
       \/ Quiet

mcVars == <<desk, a2aVars, hookVars, noticeVars>>

MCSpec == MCInit /\ [][MCNext]_mcVars /\ HookFairness

\* The types of all the tables, the bounds of the retries and of the limiter's
\* counts, and where a call may stand.
MCTypeOK == A2ATypeOK /\ HookTypeOK /\ NoticeTypeOK

\* What is reported as delivered was delivered: the events of webhooks and
\* the log of notices.
DeliveryIsHonest == EachTargetServed /\ NoticesAreHonest
=============================================================================
