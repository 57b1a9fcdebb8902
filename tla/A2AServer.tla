----------------------------- MODULE A2AServer -----------------------------
(***************************************************************************)
(* The A2A HTTP server (internal/a2a): every request passes the API key    *)
(* check and the rate limiter (router.go, auth.go, ratelimit.go), then its *)
(* task works on the mandates table with one statement (mandate.go), and   *)
(* only then the reply is written.  Requests run concurrently; a crash     *)
(* loses the requests in progress, the limiter's windows and the keys made *)
(* since the key file was read, and keeps the table.                       *)
(*                                                                         *)
(* A client is what the limiter counts by: the API key, or the remote      *)
(* address when the server runs without keys.                              *)
(***************************************************************************)
EXTENDS Integers, FiniteSets, Sequences

CONSTANTS
    Mandates,        \* ids uuid.New may return, each at most once
    Clients,
    Authenticated,   \* is there an API key store?
    FileKeys,        \* the keys in its file
    Requests,        \* goroutines of the HTTP server
    Rate, Window,    \* the limiter's parameters
    Lifetime,        \* of a mandate by its first status: 24 hours, 1 hour
    MaxTime,         \* bound on the clock
    MaxAdmitted,     \* bound on the requests admitted from a client
    NoMandate

ASSUME A2AServerAssumption ==
    /\ Authenticated \in BOOLEAN
    /\ FileKeys \subseteq Clients
    /\ Rate \in Nat \ {0}
    /\ Window \in Nat \ {0}
    /\ Lifetime \in [{"pending", "active"} -> Nat \ {0}]
    /\ MaxTime \in Nat /\ MaxAdmitted \in Nat
    /\ NoMandate \notin Mandates

VARIABLES
    now,
    keys,            \* keys in memory
    visitors,        \* the limiter's window of each client; count 0 is "none"
    status,          \* table mandates: the status column, "absent" for no row
    expires,         \* and the expires_at column
    request,         \* what each goroutine is doing
    told,            \* history: mandates whose verdict was acknowledged
    granted          \* history: when each client's requests were admitted,
                     \* since the process started

a2aVars ==
    <<now, keys, visitors, status, expires, request, told, granted>>

Statuses == {"absent", "pending", "active", "settled", "cancelled"}

NoWindow == [count |-> 0, resetAt |-> 0]

Waiting == [pc |-> "idle", mandate |-> NoMandate, verdict |-> "none"]
Handling == [pc |-> "handle", mandate |-> NoMandate, verdict |-> "none"]
Replying == [pc : {"reply"}, mandate : Mandates,
             verdict : {"settled", "cancelled"}]

A2AInit ==
    /\ now = 0
    /\ keys = FileKeys
    /\ visitors = [c \in Clients |-> NoWindow]
    /\ status = [m \in Mandates |-> "absent"]
    /\ expires = [m \in Mandates |-> 0]
    /\ request = [r \in Requests |-> Waiting]
    /\ told = {}
    /\ granted = [c \in Clients |-> <<>>]

Tick ==
    /\ now < MaxTime
    /\ now' = now + 1
    /\ UNCHANGED <<keys, visitors, status, expires, request, told, granted>>

\* negotiate_generate_api_key; nothing writes the new key to the file.
GenerateKey(c) ==
    /\ Authenticated
    /\ keys' = keys \cup {c}
    /\ UNCHANGED <<now, visitors, status, expires, request, told, granted>>

-----------------------------------------------------------------------------
(* The middleware.                                                         *)

\* Mutated: the limit is checked after counting.
AllowsOneMore(v) == v.count <= Rate

\* Is there room in a window that has not expired?
Allows(v) == v.count < Rate

Lapsed(v) == v.count = 0 \/ now > v.resetAt

(***************************************************************************)
(* withMiddleware: an unknown key or an exhausted window is answered at    *)
(* once and changes nothing.                                               *)
(***************************************************************************)
Admit(r, c) ==
    /\ request[r] = Waiting
    /\ Len(granted[c]) < MaxAdmitted
    /\ Authenticated => c \in keys
    /\ \/ /\ Lapsed(visitors[c])
          /\ visitors' = [visitors EXCEPT
                ![c] = [count |-> 1, resetAt |-> now + Window]]
       \/ /\ ~Lapsed(visitors[c]) /\ Allows(visitors[c])
          /\ visitors' = [visitors EXCEPT ![c].count = @ + 1]
    /\ request' = [request EXCEPT ![r] = Handling]
    /\ granted' = [granted EXCEPT ![c] = Append(@, now)]
    /\ UNCHANGED <<now, keys, status, expires, told>>

-----------------------------------------------------------------------------
(* The handlers.                                                           *)

Finish(r) == request' = [request EXCEPT ![r] = Waiting]

Answer(r, m, verdict) ==
    request' = [request EXCEPT ![r] =
                   [pc |-> "reply", mandate |-> m, verdict |-> verdict]]

\* mandate_create makes a pending mandate, POST /a2a/negotiate an active one.
CreateMandate(r, m, initial) ==
    /\ request[r].pc = "handle"
    /\ status[m] = "absent"
    /\ status' = [status EXCEPT ![m] = initial]
    /\ expires' = [expires EXCEPT ![m] = now + Lifetime[initial]]
    /\ Finish(r)
    /\ UNCHANGED <<now, keys, visitors, told, granted>>

\* Mutated: the status is not in the WHERE clause.
SettleableAlways(m) == status[m] # "absent"

Settleable(m) == status[m] \in {"active", "pending"}

SettleMandate(r, m) ==
    /\ request[r].pc = "handle"
    /\ Settleable(m)
    /\ status' = [status EXCEPT ![m] = "settled"]
    /\ Answer(r, m, "settled")
    /\ UNCHANGED <<now, keys, visitors, expires, told, granted>>

\* Mutated: a cancelled mandate may be cancelled again.
CancellableTwice(m) == status[m] \notin {"absent", "settled"}

Cancellable(m) == status[m] \notin {"absent", "settled", "cancelled"}

CancelMandate(r, m) ==
    /\ request[r].pc = "handle"
    /\ Cancellable(m)
    /\ status' = [status EXCEPT ![m] = "cancelled"]
    /\ Answer(r, m, "cancelled")
    /\ UNCHANGED <<now, keys, visitors, expires, told, granted>>

\* No row was affected, a store call failed, or the task was another one.
Decline(r) ==
    /\ request[r].pc = "handle"
    /\ Finish(r)
    /\ UNCHANGED <<now, keys, visitors, status, expires, told, granted>>

\* The verdict reaches the client ...
Acknowledge(r) ==
    /\ request[r].pc = "reply"
    /\ told' = told \cup {request[r].mandate}
    /\ Finish(r)
    /\ UNCHANGED <<now, keys, visitors, status, expires, granted>>

\* ... or the connection is gone.
LoseReply(r) ==
    /\ request[r].pc = "reply"
    /\ Finish(r)
    /\ UNCHANGED <<now, keys, visitors, status, expires, told, granted>>

Overdue == {m \in Mandates : /\ status[m] \in {"pending", "active"}
                             /\ expires[m] <= now}

\* An operation of the store that no task calls.
ExpireMandates ==
    /\ Overdue # {}
    /\ status' = [m \in Mandates |-> IF m \in Overdue THEN "cancelled"
                                     ELSE status[m]]
    /\ UNCHANGED <<now, keys, visitors, expires, request, told, granted>>

Restart ==
    /\ request' = [r \in Requests |-> Waiting]
    /\ keys' = FileKeys
    /\ visitors' = [c \in Clients |-> NoWindow]
    /\ granted' = [c \in Clients |-> <<>>]
    /\ UNCHANGED <<now, status, expires, told>>

A2ANext ==
    \/ Tick
    \/ \E c \in Clients : GenerateKey(c)
    \/ \E r \in Requests :
          \/ \E c \in Clients : Admit(r, c)
          \/ \E m \in Mandates :
                \/ CreateMandate(r, m, "pending") \/ CreateMandate(r, m, "active")
                \/ SettleMandate(r, m) \/ CancelMandate(r, m)
          \/ Decline(r) \/ Acknowledge(r) \/ LoseReply(r)
    \/ ExpireMandates
    \/ Restart

A2ASpec == A2AInit /\ [][A2ANext]_a2aVars

-----------------------------------------------------------------------------

A2ATypeOK ==
    /\ now \in 0..MaxTime
    /\ keys \subseteq Clients
    /\ visitors \in [Clients -> [count : 0..Rate, resetAt : Nat]]
    /\ status \in [Mandates -> Statuses]
    /\ expires \in [Mandates -> Nat]
    /\ request \in [Requests -> {Waiting, Handling} \cup Replying]
    /\ told \subseteq Mandates
    /\ granted \in [Clients -> Seq(Nat)]

\* The requests of a client admitted from one moment to another, inclusive.
Admitted(c, from, to) ==
    Cardinality({i \in 1..Len(granted[c]) : granted[c][i] \in from..to})

(***************************************************************************)
(* The fixed window bounds a burst: however a client's requests fall on    *)
(* the windows, a stretch of the length of a window sees fewer than twice  *)
(* the rate, since it misses the request that opened the first of the two  *)
(* windows it touches (until the process is restarted, which forgets the   *)
(* windows).                                                               *)
(***************************************************************************)
BurstIsBounded ==
    \A c \in Clients, t \in 0..MaxTime : Admitted(c, t, t + Window) < 2 * Rate

(***************************************************************************)
(* The verdict a goroutine is about to report is still the one in the      *)
(* table, and it is the only goroutine with that mandate to report: of the *)
(* requests racing for a mandate exactly one is told it won, and a retry   *)
(* of an unacknowledged one is refused.                                    *)
(***************************************************************************)
OneWinner ==
    \A r \in Requests : request[r].pc = "reply" =>
        /\ status[request[r].mandate] = request[r].verdict
        /\ request[r].mandate \notin told
        /\ \A q \in Requests \ {r} : request[q].mandate # request[r].mandate

(***************************************************************************)
(* The server implements the abstract life cycle of a mandate: requests,   *)
(* limits, lost replies and restarts are invisible in it.                  *)
(***************************************************************************)
decisionBar ==
    [m \in Mandates |->
        IF status[m] = "absent" THEN "none"
        ELSE IF status[m] \in {"pending", "active"} THEN "open"
        ELSE status[m]]

Lifecycle == INSTANCE MandateLifecycle WITH decision <- decisionBar

DecidedOnce == Lifecycle!Spec
=============================================================================
