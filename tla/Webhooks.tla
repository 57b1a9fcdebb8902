------------------------------ MODULE Webhooks ------------------------------
(***************************************************************************)
(* Delivery of events to webhook subscribers (internal/webhooks).  A call  *)
(* of Dispatch reads the subscriptions of its event once and then posts    *)
(* the event to one of them after the other.  A post that fails is tried   *)
(* again after a pause, as often as there are pauses; a subscriber that    *)
(* keeps failing costs the others time but nothing else.                   *)
(*                                                                         *)
(* An answer may be lost, so a post counted as failed may have arrived.    *)
(* The subscribers in Up always receive a post and answer it with 2xx.     *)
(* The body of an event is its dispatch; its signature is left out.        *)
(***************************************************************************)
EXTENDS Integers, FiniteSets, TLC

CONSTANTS
    Hooks,           \* ids of subscriptions
    Up,              \* those whose receiver always answers
    Events,          \* event types
    Star,            \* the type that subscribes to all of them
    Dispatches,      \* calls of Dispatch, one event each
    Backoffs,        \* pauses between the tries of one delivery
    NoHookId

ASSUME WebhooksAssumption ==
    Up \subseteq Hooks /\ Backoffs \in Nat /\ NoHookId \notin Hooks

VARIABLES
    hooks,           \* table webhook_subscriptions
    dispatch,        \* what each call of Dispatch is doing
    cancelled,       \* the calls whose context is done
    received         \* history: how often an event reached a receiver

hookVars == <<hooks, dispatch, cancelled, received>>

NoHook == [status |-> "absent"]
HookRow == [events : (SUBSET (Events \cup {Star})) \ {{}},
            status : {"active", "disabled"}]

\* targets are the subscriptions read, left those not dealt with yet, to the
\* one dealt with now, and failed those that were given up.
Unsent == [pc |-> "idle", targets |-> {}, left |-> {}, to |-> NoHookId,
           attempt |-> 0, failed |-> {}]

HookInit ==
    /\ hooks = [h \in Hooks |-> NoHook]
    /\ dispatch = [d \in Dispatches |-> Unsent]
    /\ cancelled = {}
    /\ received = [d \in Dispatches |-> [h \in Hooks |-> 0]]

CreateHook(h, events) ==
    /\ hooks[h] = NoHook
    /\ hooks' = [hooks EXCEPT ![h] = [events |-> events, status |-> "active"]]

\* Register refuses an empty list of events.
Register(h, events) ==
    /\ events # {}
    /\ CreateHook(h, events)
    /\ UNCHANGED <<dispatch, cancelled, received>>

Disable(h) ==
    /\ hooks[h] # NoHook
    /\ hooks' = [hooks EXCEPT ![h].status = "disabled"]

Unregister(h) ==
    /\ Disable(h)
    /\ UNCHANGED <<dispatch, cancelled, received>>

ListHooks == {h \in Hooks : hooks[h].status = "active"}

\* GetByEvent: the active subscriptions of the event, in order of their
\* second of registration, which here is no order at all.
GetByEvent(event) ==
    {h \in ListHooks : hooks[h].events \cap {event, Star} # {}}

\* Dispatch up to its loop: without subscribers there is nothing to do.
Dispatch(d, event) ==
    LET targets == GetByEvent(event) IN
    /\ dispatch[d].pc = "idle"
    /\ dispatch' = [dispatch EXCEPT ![d] =
          [Unsent EXCEPT !.pc = IF targets = {} THEN "done" ELSE "next",
                         !.targets = targets, !.left = targets]]
    /\ UNCHANGED <<hooks, cancelled, received>>

\* Turn to the next subscription, or return.
NextTarget(d) ==
    /\ dispatch[d].pc = "next"
    /\ \/ \E h \in dispatch[d].left :
             dispatch' = [dispatch EXCEPT ![d].pc = "try", ![d].to = h,
                                          ![d].attempt = 0, ![d].left = @ \ {h}]
       \/ dispatch[d].left = {} /\ dispatch' = [dispatch EXCEPT ![d].pc = "done"]
    /\ UNCHANGED <<hooks, cancelled, received>>

\* Mutated: the first delivery that fails ends the dispatch.
GiveUpAll(d) == dispatch' = [dispatch EXCEPT ![d].pc = "done",
                                             ![d].failed = @ \cup {dispatch[d].to}]

GiveUp(d) == dispatch' = [dispatch EXCEPT ![d].pc = "next",
                                          ![d].failed = @ \cup {dispatch[d].to}]

\* Mutated: the pauses are not counted.
RetryForever(d) == dispatch' = [dispatch EXCEPT ![d].pc = "wait"]

\* Mutated: one try more than there are pauses before it.
RetryOnceMore(d) ==
    \/ /\ dispatch[d].attempt <= Backoffs
       /\ dispatch' = [dispatch EXCEPT ![d].pc = "wait", ![d].attempt = @ + 1]
    \/ dispatch[d].attempt > Backoffs /\ GiveUp(d)

\* What a failed try leads to: a pause, or the end of this delivery.
Retry(d) ==
    \/ /\ dispatch[d].attempt < Backoffs
       /\ dispatch' = [dispatch EXCEPT ![d].pc = "wait", ![d].attempt = @ + 1]
    \/ dispatch[d].attempt = Backoffs /\ GiveUp(d)

Arrives(d) == received' = [received EXCEPT ![d][dispatch[d].to] = @ + 1]

\* deliver: one post.  With its context done it does not leave the client.
Deliver(d) ==
    /\ dispatch[d].pc = "try"
    /\ \/ /\ d \notin cancelled                              \* answered 2xx
          /\ Arrives(d)
          /\ dispatch' = [dispatch EXCEPT ![d].pc = "next"]
       \/ /\ d \notin cancelled /\ dispatch[d].to \notin Up    \* not, or not so
          /\ Arrives(d)
          /\ Retry(d)
       \/ /\ d \in cancelled \/ dispatch[d].to \notin Up      \* never sent
          /\ Retry(d)
          /\ UNCHANGED received
    /\ UNCHANGED <<hooks, cancelled>>

\* The pause of deliverWithRetry: its timer fires, or the context ends it.
AwaitBackoff(d) ==
    /\ dispatch[d].pc = "wait"
    /\ \/ dispatch' = [dispatch EXCEPT ![d].pc = "try"]
       \/ d \in cancelled /\ GiveUp(d)
    /\ UNCHANGED <<hooks, cancelled, received>>

deliverWithRetry(d) == Deliver(d) \/ AwaitBackoff(d)

\* The caller's context is done.
CancelDispatch(d) ==
    /\ dispatch[d].pc \notin {"idle", "done"} /\ d \notin cancelled
    /\ cancelled' = cancelled \cup {d}
    /\ UNCHANGED <<hooks, dispatch, received>>

HookNext ==
    \/ \E h \in Hooks : \/ \E events \in SUBSET (Events \cup {Star}) :
                              Register(h, events)
                        \/ Unregister(h)
    \/ \E d \in Dispatches : \/ \E event \in Events : Dispatch(d, event)
                             \/ NextTarget(d)
                             \/ deliverWithRetry(d)
                             \/ CancelDispatch(d)

\* A call that is running keeps running: a post ends by the client's timeout
\* at the latest, and a timer fires.
HookFairness == \A d \in Dispatches :
                   /\ WF_hookVars(NextTarget(d))
                   /\ WF_hookVars(deliverWithRetry(d))

HookSpec == HookInit /\ [][HookNext]_hookVars /\ HookFairness

-----------------------------------------------------------------------------

HookTypeOK ==
    /\ hooks \in [Hooks -> HookRow \cup {NoHook}]
    /\ cancelled \subseteq Dispatches
    /\ received \in [Dispatches -> [Hooks -> Nat]]
    /\ \A d \in Dispatches :
          LET call == dispatch[d] IN
          /\ call.pc \in {"idle", "next", "try", "wait", "done"}
          /\ call.attempt \in 0 .. Backoffs
          /\ call.left \cup call.failed \subseteq call.targets
          /\ call.pc \in {"try", "wait"} => call.to \in call.targets \ call.left

\* Dispatch returns the error of the last delivery that failed.
Succeeded(d) == dispatch[d].pc = "done" /\ dispatch[d].failed = {}

(***************************************************************************)
(* What the caller of Dispatch may rely on.  No subscriber gets more posts *)
(* than there are tries, and none that was not read gets any.  A success   *)
(* means that everyone read was reached.  And whatever the others do, a    *)
(* subscriber that answers gets the event exactly once, unless the call    *)
(* was cancelled, and then at most once.                                   *)
(***************************************************************************)
EachTargetServed ==
    \A d \in Dispatches, h \in Hooks :
        /\ received[d][h] <= IF h \in dispatch[d].targets THEN Backoffs + 1 ELSE 0
        /\ Succeeded(d) /\ h \in dispatch[d].targets => received[d][h] > 0
        /\ h \in Up => received[d][h] <= 1
        /\ dispatch[d].pc = "done" /\ d \notin cancelled
              /\ h \in Up \cap dispatch[d].targets => received[d][h] = 1

(***************************************************************************)
(* Every dispatch returns, however many of its subscribers never answer.   *)
(***************************************************************************)
DispatchReturns ==
    \A d \in Dispatches :
        dispatch[d].pc # "idle" ~> dispatch[d].pc = "done"
=============================================================================
