------------------------------ MODULE Operator ------------------------------
(***************************************************************************)
(* The operator's settings: API keys to rotate (internal/apikeyrotation)   *)
(* and the list of allowed addresses (internal/ipwhitelist), both kept in  *)
(* memory behind a mutex and gone with the process, and the configuration  *)
(* table (internal/serverconfig), which survives it.                       *)
(*                                                                         *)
(* Several operators work at once: each holds on to a key it has seen in   *)
(* key_health, and to an export of the configuration it will import.       *)
(* ImportConfig writes one entry after the other, each a statement that    *)
(* may fail, and gives up at the first failure without undoing the others. *)
(***************************************************************************)
EXTENDS Naturals, FiniteSets, Sequences

CONSTANTS Operators,     \* those who work on the settings
          Addresses,     \* addresses
          Settings,      \* keys of the configuration
          Values,        \* their values; 0 is none
          NoKey,         \* no key seen
          MaxKeys,       \* bound: keys in memory
          MaxChanges,    \* bound: changes of the configuration begun
          MaxRestarts    \* bound: restarts of the process

ASSUME OperatorAssumption ==
    NoKey \notin Operators /\ IsFiniteSet(Settings) /\ MaxKeys \in Nat

VARIABLES
    keys,        \* the keys in memory: status and the key they descend from
    seen,        \* the key each operator has seen
    allowed,     \* the allowed addresses
    answers,     \* history: addresses answered "added" and "removed"
    config,      \* the table server_config
    export,      \* the entries each operator has exported
    importing,   \* each operator's import: entries to write, answer, entries
                 \* others wrote meanwhile
    changes, restarts

operatorVars == <<keys, seen, allowed, answers, config, export, importing, changes,
                  restarts>>

NoImport == [todo |-> <<>>, all |-> <<>>, at |-> "none", others |-> {}]

Entries == [key : Settings, value : Values]

OperatorTypeOK ==
    /\ \A i \in 1..Len(keys) : /\ keys[i].status \in {"active", "revoked"}
                               /\ keys[i].root \in 1..i
    /\ Len(keys) <= MaxKeys
    /\ \A o \in Operators : seen[o] \in 1..MaxKeys \cup {NoKey}
    /\ allowed \subseteq Addresses
    /\ answers \in [{"added", "removed"} -> [Addresses -> Nat]]
    /\ config \in [Settings -> Values \cup {0}]
    /\ \A o \in Operators :
          /\ importing[o].at \in {"none", "writing", "ok", "error"}
          /\ export[o] \subseteq Entries
          /\ importing[o].others \subseteq Settings

OperatorInit ==
    /\ keys = <<>> /\ seen = [o \in Operators |-> NoKey]
    /\ allowed = {} /\ answers = [a \in {"added", "removed"} |-> [x \in Addresses |-> 0]]
    /\ config = [k \in Settings |-> 0] /\ export = [o \in Operators |-> {}]
    /\ importing = [o \in Operators |-> NoImport]
    /\ changes = 0 /\ restarts = 0

keyVars == <<keys, seen>>
addressVars == <<allowed, answers>>
configVars == <<config, export, importing, changes>>

-----------------------------------------------------------------------------
(***************************************************************************)
(* Keys.                                                                   *)
(***************************************************************************)

AddKey ==
    /\ Len(keys) < MaxKeys
    /\ keys' = Append(keys, [status |-> "active", root |-> Len(keys) + 1])
    /\ UNCHANGED <<seen, addressVars, configVars, restarts>>

\* handleKeyHealth: a copy of the list; the operator picks an active key.
KeyHealth(o) ==
    /\ \E i \in 1..Len(keys) : keys[i].status = "active" /\ seen' = [seen EXCEPT ![o] = i]
    /\ UNCHANGED <<keys, addressVars, configVars, restarts>>

\* handleRotateKey with a key seen before: only an active one is replaced.
RotateKey(o) ==
    /\ seen[o] # NoKey /\ Len(keys) < MaxKeys
    /\ seen' = [seen EXCEPT ![o] = NoKey]
    /\ IF keys[seen[o]].status = "active"
       THEN keys' = Append([keys EXCEPT ![seen[o]].status = "revoked"],
                           [status |-> "active", root |-> keys[seen[o]].root])
       ELSE UNCHANGED keys
    /\ UNCHANGED <<addressVars, configVars, restarts>>

-----------------------------------------------------------------------------
(***************************************************************************)
(* Addresses.                                                              *)
(***************************************************************************)

Answered(a, ip) == answers' = [answers EXCEPT ![a][ip] = @ + 1]

\* handleAddIP and handleRemoveIP: an address that is there already, or not
\* there, is an error and changes nothing.
AddIP(ip) ==
    /\ ip \notin allowed /\ answers["added"][ip] < 2
    /\ allowed' = allowed \cup {ip} /\ Answered("added", ip)
    /\ UNCHANGED <<keyVars, configVars, restarts>>

RemoveIP(ip) ==
    /\ ip \in allowed
    /\ allowed' = allowed \ {ip} /\ Answered("removed", ip)
    /\ UNCHANGED <<keyVars, configVars, restarts>>

-----------------------------------------------------------------------------
(***************************************************************************)
(* Configuration.                                                          *)
(***************************************************************************)

\* INSERT OR REPLACE of one entry, by an operator who is importing or not; the
\* imports of others see their entry overwritten.
Write(e, importer) ==
    /\ config' = [config EXCEPT ![e.key] = e.value]
    /\ importing' = [o \in Operators |->
          IF o = importer THEN [importing[o] EXCEPT !.todo = Tail(@)]
                          ELSE [importing[o] EXCEPT !.others = @ \cup {e.key}]]

\* handleSetConfig.
SetConfig(e) ==
    /\ changes < MaxChanges /\ changes' = changes + 1
    /\ Write(e, NoKey)
    /\ UNCHANGED <<keyVars, addressVars, export, restarts>>

\* handleExportConfig: all entries, in one statement.
ExportConfig(o) ==
    /\ export' = [export EXCEPT ![o] =
          {e \in Entries : config[e.key] = e.value}]
    /\ UNCHANGED <<keyVars, addressVars, config, importing, changes, restarts>>

\* handleImportConfig of an export, in the order of its keys.
BeginImport(o) ==
    /\ importing[o].at # "writing" /\ export[o] # {} /\ changes < MaxChanges
    /\ changes' = changes + 1
    /\ \E s \in [1..Cardinality(export[o]) -> export[o]] :
          /\ {s[i] : i \in DOMAIN s} = export[o]
          /\ importing' = [importing EXCEPT ![o] =
                [todo |-> s, all |-> s, at |-> "writing", others |-> {}]]
    /\ UNCHANGED <<keyVars, addressVars, config, export, restarts>>

ImportEntry(o) ==
    /\ importing[o].at = "writing" /\ importing[o].todo # <<>>
    /\ \/ Write(Head(importing[o].todo), o)
       \/ importing' = [importing EXCEPT ![o].at = "error"] /\ UNCHANGED config
    /\ UNCHANGED <<keyVars, addressVars, export, changes, restarts>>

EndImport(o) ==
    /\ importing[o].at = "writing" /\ importing[o].todo = <<>>
    /\ importing' = [importing EXCEPT ![o].at = "ok"]
    /\ UNCHANGED <<keyVars, addressVars, config, export, changes, restarts>>

-----------------------------------------------------------------------------

\* A restart empties what is kept in memory and ends the imports under way; to
\* rotate a key seen before it is an error, and exports are still at hand.
Restart ==
    /\ restarts < MaxRestarts /\ restarts' = restarts + 1
    /\ keys' = <<>> /\ allowed' = {}
    /\ answers' = [a \in {"added", "removed"} |-> [x \in Addresses |-> 0]]
    /\ importing' = [o \in Operators |->
          IF importing[o].at = "writing" THEN NoImport ELSE importing[o]]
    /\ seen' = [o \in Operators |-> NoKey]
    /\ UNCHANGED <<config, export, changes>>

KeyNext == AddKey \/ \E o \in Operators : KeyHealth(o) \/ RotateKey(o)

AddressNext == \E ip \in Addresses : AddIP(ip) \/ RemoveIP(ip)

ConfigNext == \/ \E o \in Operators : ExportConfig(o) \/ BeginImport(o)
                                      \/ ImportEntry(o) \/ EndImport(o)
              \/ \E e \in Entries : SetConfig(e)

OperatorNext == KeyNext \/ AddressNext \/ ConfigNext \/ Restart

OperatorSpec == OperatorInit /\ [][OperatorNext]_operatorVars

-----------------------------------------------------------------------------

\* Of each key that was added exactly one descendant is active, however many
\* operators rotate the key they have seen.
OneActiveKey ==
    \A i \in 1..Len(keys) :
        Cardinality({j \in 1..Len(keys) : /\ keys[j].root = keys[i].root
                                          /\ keys[j].status = "active"}) = 1

\* An address is allowed exactly when one more addition than removal of it has
\* been answered.
AllowedAsAnswered ==
    \A ip \in Addresses :
        answers["added"][ip] = answers["removed"][ip] + (IF ip \in allowed THEN 1 ELSE 0)

\* After an import that was answered the configuration is what was imported,
\* but for the entries that others have written since it began.
ImportedAsAnswered ==
    \A o \in Operators :
        importing[o].at = "ok" =>
            \A i \in DOMAIN importing[o].all :
                LET e == importing[o].all[i]
                IN  e.key \in importing[o].others \/ config[e.key] = e.value
=============================================================================
