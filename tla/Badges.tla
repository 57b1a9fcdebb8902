------------------------------- MODULE Badges -------------------------------
(***************************************************************************)
(* Streaks and badges (internal/gamification): what run_negotiation does   *)
(* for a user after a deal.  The user's row is read and written back whole, *)
(* read once more, and every badge it qualifies for that the user does not *)
(* have yet is inserted, one statement each.  Calls for the same user may  *)
(* overlap, so that updates of the row are lost.                           *)
(*                                                                         *)
(* No learning engine is ever attached to the badge check, so two of the   *)
(* six badges are out of reach.  The dates of badges and the texts of the  *)
(* answers are left out; savings are whole amounts.                        *)
(***************************************************************************)
EXTENDS Integers, Sequences, FiniteSets

CONSTANTS
    Fans,            \* users who have deals recorded
    Players,         \* goroutines that serve calls
    Gains,           \* savings of a deal, never below zero
    Earlier,         \* the row each user starts with
    NoFan,
    MaxGames         \* bound: calls in a behaviour

StreakRow == [current : Nat, longest : Nat, savings : Nat, deals : Nat]
NoStreakRow == [current |-> 0, longest |-> 0, savings |-> 0, deals |-> 0]

ASSUME BadgesAssumption ==
    /\ IsFiniteSet(Fans) /\ IsFiniteSet(Players)
    /\ NoFan \notin Fans /\ Gains \subseteq Nat /\ MaxGames \in Nat
    /\ Earlier \in [Fans -> StreakRow]
    /\ \A u \in Fans : Earlier[u].current <= Earlier[u].longest

VARIABLES
    userStreaks,     \* table user_streaks
    userBadges,      \* table user_badges
    player,          \* what each goroutine is doing
    games,           \* calls so far
    credited,        \* history: the row of each user if no update were lost
    slighted         \* history: users one of whose badge checks failed

badgeVars == <<userStreaks, userBadges, player, games, credited, slighted>>

\* seen: the row as it was read; due: the badges still to be inserted.
AtRest == [pc |-> "idle", fan |-> NoFan, gain |-> 0, seen |-> NoStreakRow,
           due |-> {}]

BadgeIds == <<"first_deal", "streak_5", "thousand_club", "perfectionist",
              "power_negotiator", "saas_master">>

AllBadges == {BadgeIds[i] : i \in 1..6}

\* The Check functions of allBadgeDefs, without a learning engine: the badges
\* that a row qualifies for.
Conditions(row) ==
    {b \in AllBadges : \/ b = "first_deal" /\ row.deals >= 1
                       \/ b = "streak_5" /\ row.current >= 5
                       \/ b = "thousand_club" /\ row.savings >= 1000
                       \/ b = "power_negotiator" /\ row.deals >= 50}

\* A user who comes with a row has the badges of the deals it stands for.
BadgeInit ==
    /\ userStreaks = Earlier
    /\ userBadges = {b \in Fans \X AllBadges :
           b[2] \in Conditions([Earlier[b[1]] EXCEPT !.current = Earlier[b[1]].longest])}
    /\ player = [p \in Players |-> AtRest]
    /\ games = 0
    /\ credited = Earlier
    /\ slighted = {}

\* GetBadges: those of all the badges that the user has.
GetBadges(u) == {b \in AllBadges : <<u, b>> \in userBadges}

\* The users one answer of the store may name; ties are open.
GetLeaderboard(limit) ==
    LET ranked == {u \in Fans : userStreaks[u] # NoStreakRow}
    IN  {board \in SUBSET ranked :
            /\ Cardinality(board) <= limit
            /\ board = ranked \/ Cardinality(board) = limit
            /\ \A u \in board, o \in ranked \ board :
                  userStreaks[u].savings >= userStreaks[o].savings}

handleSavingsLeaderboard(limit) ==
    GetLeaderboard(IF limit <= 0 THEN 10 ELSE limit)

\* One more deal; the streak restarts after a gap of more than 48 hours.
WithDeal(row, savings, gap) ==
    LET current == IF gap THEN 1 ELSE row.current + 1
    IN  [current |-> current,
         longest |-> IF current > row.longest THEN current ELSE row.longest,
         savings |-> row.savings + savings, deals |-> row.deals + 1]

-----------------------------------------------------------------------------

PlaysAt(p, pc) == player[p].pc = pc

GoIdle(p) == player' = [player EXCEPT ![p] = AtRest]

RecordNegotiation(p) ==
    /\ PlaysAt(p, "idle") /\ games < MaxGames
    /\ \E u \in Fans, gain \in Gains :
          /\ player' = [player EXCEPT ![p] =
                            [AtRest EXCEPT !.pc = "read", !.fan = u, !.gain = gain]]
          /\ credited' = [credited EXCEPT ![u] = WithDeal(@, gain, FALSE)]
    /\ games' = games + 1
    /\ UNCHANGED <<userStreaks, userBadges, slighted>>

GetStreak(p) ==
    /\ PlaysAt(p, "read")
    /\ player' = [player EXCEPT ![p].pc = "write",
                                ![p].seen = userStreaks[player[p].fan]]
    /\ UNCHANGED <<userStreaks, userBadges, games, credited, slighted>>

WriteStreak(p) ==
    /\ PlaysAt(p, "write")
    /\ \E gap \in BOOLEAN :
          userStreaks' = [userStreaks EXCEPT ![player[p].fan] =
                              WithDeal(player[p].seen, player[p].gain, gap)]
    /\ player' = [player EXCEPT ![p].pc = "again", ![p].seen = NoStreakRow]
    /\ UNCHANGED <<userBadges, games, credited, slighted>>

GetStreakAgain(p) ==
    /\ PlaysAt(p, "again")
    /\ player' = [player EXCEPT ![p].pc = "earned",
                                ![p].seen = userStreaks[player[p].fan]]
    /\ UNCHANGED <<userStreaks, userBadges, games, credited, slighted>>

\* What is due depends on the row that was read and the badges the user has.
GetUserBadges(p) ==
    /\ PlaysAt(p, "earned")
    /\ player' = [player EXCEPT ![p].pc = "award",
                      ![p].due = Conditions(player[p].seen) \ GetBadges(player[p].fan)]
    /\ UNCHANGED <<userStreaks, userBadges, games, credited, slighted>>

\* The badge that comes first in BadgeIds.
NextBadge(due) ==
    BadgeIds[CHOOSE i \in 1..6 :
                BadgeIds[i] \in due /\ \A j \in 1 .. i - 1 : BadgeIds[j] \notin due]

\* INSERT OR IGNORE of the next badge; one that fails is passed over.
AwardBadge(p) ==
    LET next == NextBadge(player[p].due)
    IN  /\ PlaysAt(p, "award") /\ player[p].due # {}
        /\ \/ /\ userBadges' = userBadges \cup {<<player[p].fan, next>>}
              /\ UNCHANGED slighted
           \/ /\ slighted' = slighted \cup {player[p].fan}
              /\ UNCHANGED userBadges
        /\ player' = [player EXCEPT ![p].due = @ \ {next}]
        /\ UNCHANGED <<userStreaks, games, credited>>

BadgesDone(p) ==
    /\ PlaysAt(p, "award") /\ player[p].due = {}
    /\ GoIdle(p)
    /\ UNCHANGED <<userStreaks, userBadges, games, credited, slighted>>

\* A statement fails, which is only logged.
RecordingFails(p) ==
    /\ player[p].pc \in {"read", "write", "earned"}
    /\ slighted' = IF PlaysAt(p, "earned") THEN slighted \cup {player[p].fan}
                   ELSE slighted
    /\ GoIdle(p)
    /\ UNCHANGED <<userStreaks, userBadges, games, credited>>

\* The error of the second read is dropped, and the badge check dereferences
\* the nil row: the process is gone, and every call with it.
CheckPanics(p) ==
    /\ PlaysAt(p, "again")
    /\ player' = [q \in Players |-> AtRest]
    /\ slighted' = slighted \cup ({player[q].fan : q \in Players} \ {NoFan})
    /\ UNCHANGED <<userStreaks, userBadges, games, credited>>

BadgeNext ==
    \E p \in Players :
       \/ RecordNegotiation(p) \/ GetStreak(p) \/ WriteStreak(p)
       \/ GetStreakAgain(p) \/ GetUserBadges(p) \/ AwardBadge(p) \/ BadgesDone(p)
       \/ RecordingFails(p) \/ CheckPanics(p)

BadgeSpec == BadgeInit /\ [][BadgeNext]_badgeVars

-----------------------------------------------------------------------------

BadgeTypeOK ==
    /\ userStreaks \in [Fans -> StreakRow] /\ credited \in [Fans -> StreakRow]
    /\ userBadges \subseteq Fans \X AllBadges
    /\ \A p \in Players :
          \/ player[p] = AtRest
          \/ /\ player[p].pc \in {"read", "write", "again", "earned", "award"}
             /\ player[p].fan \in Fans /\ player[p].gain \in Gains
             /\ player[p].due # {} => PlaysAt(p, "award")
    /\ games \in 0 .. MaxGames
    /\ slighted \subseteq Fans

\* No call for user u is under way and none of its badge checks has failed.
Settled(u) == (\A p \in Players : player[p].fan # u) /\ u \notin slighted

(***************************************************************************)
(* Badges are deserved and none is forgotten.  A badge was earned by deals *)
(* that really were recorded for the user, however many updates were lost; *)
(* a user whose calls have all gone through has every badge of the row     *)
(* that is left, whichever of several calls wrote it; and when no deal was *)
(* lost, whoever leads the board has the badges for savings of all others. *)
(***************************************************************************)
BadgesAreEarned ==
    /\ \A u \in Fans :
          /\ \A b \in GetBadges(u) : \/ b \in Conditions(credited[u])
                                     \/ b = "streak_5" /\ Earlier[u].longest >= 5
          /\ Settled(u) => Conditions(userStreaks[u]) \subseteq GetBadges(u)
    /\ (\A u \in Fans : Settled(u) /\ userStreaks[u].deals = credited[u].deals) =>
          \A board \in handleSavingsLeaderboard(1), o \in Fans, leader \in Fans :
             leader \in board /\ "thousand_club" \in GetBadges(o)
                => "thousand_club" \in GetBadges(leader)
=============================================================================
