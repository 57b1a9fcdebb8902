---------------------------- MODULE CommandLine -----------------------------
(***************************************************************************)
(* The command line client (cmd/cli) and the two HTTP handlers it talks to *)
(* (HandleTask and HandleNegotiate of internal/a2a/handler.go).            *)
(*                                                                         *)
(* Each run is a process of its own: it parses its line, sends one request *)
(* and exits.  The server may be down, its answer may be lost, and a user  *)
(* or a script may run the line again.                                     *)
(*                                                                         *)
(* A line is the words of the command and its arguments: a flag with its   *)
(* value is an element of FlagNames, anything else is a word.              *)
(***************************************************************************)
EXTENDS Naturals, FiniteSets, Sequences

CONSTANTS Runs,          \* processes of the client
          Lines,         \* the command lines: records with a name and args
          Priced         \* vendors of the price list

ASSUME CliAssumption == IsFiniteSet(Runs)

VARIABLES
    run,         \* each process: its line, where it stands, its exit code
    mandates,    \* mandates the server has created
    sessions     \* sessions on record

cliVars == <<run, mandates, sessions>>

FlagNames == {"seats", "term", "strategy", "budget", "industry", "uptime", "credit",
              "max-credit", "spend", "date", "duration", "month", "sku", "min-members",
              "expires", "user", "qty", "max-price", "max-seats", "vendor", "status",
              "expiring"}

(***************************************************************************)
(* The commands: their words, the flags they define, how many words they   *)
(* need and the task they post; negotiate has an endpoint of its own.      *)
(***************************************************************************)

Command(name, flags, need, task) ==
    [name |-> name, flags |-> flags, need |-> need, task |-> task]

PriceCommands ==
    {Command(<<"query">>, {"seats", "term"}, 1, "query_price"),
     Command(<<"negotiate">>, {"strategy", "budget", "seats"}, 2, "negotiate")}

VendorCommands ==
    {Command(<<"discover">>, {"industry"}, 0, "negotiate_discover_opportunities"),
     Command(<<"health">>, {}, 1, "negotiate_vendor_health")}

SlaCommands ==
    {Command(<<"sla", "add">>, {"uptime", "credit", "max-credit", "spend"}, 2,
             "negotiate_add_sla"),
     Command(<<"sla", "breach">>, {"date", "duration"}, 2, "negotiate_record_breach"),
     Command(<<"sla", "report">>, {"month"}, 0, "negotiate_sla_report")}

GroupCommands ==
    {Command(<<"group", "create">>, {"sku", "min-members", "expires"}, 1,
             "negotiate_create_group"),
     Command(<<"group", "join">>, {"user", "qty", "max-price"}, 1, "negotiate_join_group")}

MarketCommands ==
    {Command(<<"marketplace", "list">>, {}, 0, "negotiate_marketplace_overview"),
     Command(<<"marketplace", "search">>, {"sku", "max-seats"}, 1, "negotiate_search_used")}

PaperCommands ==
    {Command(<<"contracts", "list">>, {"vendor", "status", "expiring"}, 0,
             "negotiate_list_contracts"),
     Command(<<"quote">>, {"vendor", "sku"}, 1, "negotiate_analyze_quote"),
     Command(<<"strategies">>, {}, 0, "negotiate_strategies")}

\* The switch of main and of the commands with subcommands.
Commands == PriceCommands \cup VendorCommands \cup SlaCommands \cup GroupCommands
            \cup MarketCommands \cup PaperCommands

CommandOf(line) == {c \in Commands : c.name = line.name}

\* FlagSet.Parse stops at the first word: the flags before it are set, those
\* after it are two words each, their name and their value.
FirstWord(args) ==
    CHOOSE n \in 1..Len(args) + 1 :
        /\ \A i \in 1..n - 1 : args[i] \in FlagNames
        /\ n <= Len(args) => args[n] \notin FlagNames

FlagsSet(args) == {args[i] : i \in 1..FirstWord(args) - 1}

WordsLeft(args) ==
    LET rest == FirstWord(args)..Len(args)
    IN  Cardinality(rest) + Cardinality({i \in rest : args[i] \in FlagNames})

\* The vendor a request names: the first word.
VendorOf(args) == IF FirstWord(args) > Len(args) THEN "" ELSE args[FirstWord(args)]

-----------------------------------------------------------------------------

\* What went wrong: with the line, at the server, on the way.
Faults == {"line", "server", "network"}

NewRun == [line |-> [name |-> <<>>, args |-> <<>>], at |-> "new", task |-> "none",
           status |-> 0, code |-> 0, faults |-> {}]

CliTypeOK ==
    /\ \A r \in Runs :
          /\ run[r].at \in {"new", "parse", "send", "sent", "answered", "exited"}
          /\ run[r].code \in 0..2
          /\ run[r].status \in {0, 200, 400, 404, 500}
          /\ run[r].line \in Lines \cup {NewRun.line}
          /\ run[r].faults \subseteq Faults
    /\ mandates \in 0..Cardinality(Runs) /\ sessions \in 0..Cardinality(Runs)

CliInit == run = [r \in Runs |-> NewRun] /\ mandates = 0 /\ sessions = 0

Put(r, new) == run' = [run EXCEPT ![r] = new]

Exit(r, code, why) ==
    /\ Put(r, [run[r] EXCEPT !.at = "exited", !.code = code, !.faults = @ \cup why])
    /\ UNCHANGED <<mandates, sessions>>

Launch(r, line) ==
    /\ run[r].at = "new"
    /\ Put(r, [run[r] EXCEPT !.at = "parse", !.line = line])
    /\ UNCHANGED <<mandates, sessions>>

\* An unknown command and a missing word end the run; so does, in the flag
\* package, a flag the command does not define.
ParseLine(r) ==
    LET args == run[r].line.args
        cmds == CommandOf(run[r].line)
    IN  /\ run[r].at = "parse"
        /\ \/ cmds = {} /\ Exit(r, 1, {"line"})
           \/ \E c \in cmds :
                 \/ ~(FlagsSet(args) \subseteq c.flags) /\ Exit(r, 2, {"line"})
                 \/ /\ FlagsSet(args) \subseteq c.flags
                    /\ IF WordsLeft(args) < c.need THEN Exit(r, 1, {"line"})
                       ELSE /\ Put(r, [run[r] EXCEPT !.at = "send", !.task = c.task])
                            /\ UNCHANGED <<mandates, sessions>>

\* postJSON: the connection may be refused.
Send(r) ==
    /\ run[r].at = "send"
    /\ \/ Put(r, [run[r] EXCEPT !.at = "sent"]) /\ UNCHANGED <<mandates, sessions>>
       \/ Exit(r, 1, {"network"})

Reply(r, status, why) ==
    Put(r, [run[r] EXCEPT !.at = "answered", !.status = status, !.faults = @ \cup why])

\* HandleTask with query_price: a quote is answered whether or not its session
\* could be saved.
ServeQuery(r) ==
    /\ run[r].at = "sent" /\ run[r].task = "query_price"
    /\ IF VendorOf(run[r].line.args) \notin Priced
       THEN Reply(r, 404, {"line"}) /\ UNCHANGED sessions
       ELSE /\ Reply(r, 200, {})
            /\ sessions' \in {sessions, sessions + 1}
    /\ UNCHANGED mandates

\* HandleNegotiate: the mandate first, then the session, which needs a known
\* vendor; errors of saving the session or its rounds are logged only.
ServeNegotiate(r) ==
    /\ run[r].at = "sent" /\ run[r].task = "negotiate"
    /\ \/ Reply(r, 500, {"server"}) /\ UNCHANGED <<mandates, sessions>>
       \/ /\ mandates' = mandates + 1
          /\ IF VendorOf(run[r].line.args) \notin Priced
             THEN Reply(r, 400, {"line"}) /\ UNCHANGED sessions
             ELSE Reply(r, 200, {}) /\ sessions' \in {sessions, sessions + 1}

\* HandleTask knows four tasks; the client posts one of them.
ServeUnknown(r) ==
    /\ run[r].at = "sent" /\ run[r].task \notin {"query_price", "negotiate"}
    /\ Reply(r, 400, {})
    /\ UNCHANGED <<mandates, sessions>>

\* The answer arrives, or the connection breaks: before or after the server
\* has done what was asked.
Receive(r) ==
    /\ run[r].at = "answered"
    /\ \/ Exit(r, IF run[r].status >= 400 THEN 1 ELSE 0, {})
       \/ Exit(r, 1, {"network"})

Disconnect(r) == run[r].at = "sent" /\ Exit(r, 1, {"network"})

CliNext == \E r \in Runs :
    \/ \E line \in Lines : Launch(r, line)
    \/ ParseLine(r) \/ Send(r) \/ ServeQuery(r) \/ ServeNegotiate(r) \/ ServeUnknown(r)
    \/ Receive(r) \/ Disconnect(r)

CliSpec == CliInit /\ [][CliNext]_cliVars

-----------------------------------------------------------------------------

\* A run that exits with 0 was served to the end: each success of negotiate
\* stands for a mandate of its own, also where answers are lost and lines are
\* run again, and no command reports a success that the server refused.
ExitIsHonest ==
    /\ \A r \in Runs : run[r].at = "exited" /\ run[r].code = 0 => run[r].status = 200
    /\ mandates >= Cardinality({r \in Runs : /\ run[r].task = "negotiate"
                                             /\ run[r].at = "exited" /\ run[r].code = 0})

\* A command that is known, well formed and meets a server that answers is
\* served (the examples of "Test with the CLI" in the README).
EveryCommandServed ==
    \A r \in Runs : run[r].at = "exited" /\ run[r].code # 0 => run[r].faults # {}
=============================================================================
