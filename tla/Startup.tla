------------------------------ MODULE Startup ------------------------------
(***************************************************************************)
(* Processes of the server from main() to listen(), on one database:       *)
(* InitService inserts the default users and then their variables, each in *)
(* a transaction; AppConfigService loads its variables; TraceService reads *)
(* its switches among them; the feature providers start; the server        *)
(* listens.  A rejection on the way is only logged: the process stays up   *)
(* and serves nobody ("stuck").                                            *)
(*                                                                         *)
(* The database outlives the processes.  Requests are only those that      *)
(* matter to the next start.                                               *)
(***************************************************************************)
EXTENDS Naturals, Sequences

CONSTANTS
    Processes,
    Others,        \* names of users made by an administrator
    Catalogue,     \* APP_CONFIG_VARIABLES: a sequence of variables
    Switches,      \* the variables of the Trace enum
    Environments,  \* the .env files a start may find
    MaxStarts,     \* bounds the starts
    MaxEdits       \* bounds the changes of the users and resets of the schema

Vars == {Catalogue[k] : k \in DOMAIN Catalogue}
YesNo == {"yes", "no"}

\* TESTING, TRACE_DISABLED, OVERRIDE_APP_CONFIG_FROM_DB; given are the variables with a
\* value in .env or a default in their descriptor.
Environment == [testing : YesNo, traceDisabled : YesNo, override : YesNo, given : SUBSET Vars]

\* Before main() has read .env.
NoEnvironment == [testing |-> "no", traceDisabled |-> "no", override |-> "no", given |-> {}]

ASSUME EnvironmentAssumption == Environments \subseteq Environment
ASSUME SwitchesAssumption == Switches \subseteq Vars
ASSUME CatalogueAssumption == Catalogue \in Seq(STRING)
ASSUME BoundsAssumption == MaxStarts \in Nat /\ MaxEdits \in Nat

\* initDbContent
Default == {"god", "admin", "user"}
OwnerOf == [TestStringForAdmin |-> "admin", TestStringForUser |-> "user",
            TestNumberForUser |-> "user", TestArrayForUser |-> "user",
            TestObjectForUser |-> "user", TestStringForGod |-> "god"]
Seed == DOMAIN OwnerOf

ASSUME OthersAssumption == Others \cap Default = {}

VARIABLES
    users,      \* app_user: the transaction that inserted the user of each name, or 0
    variables,  \* user_cfg: pairs of a seed and the transaction that inserted its owner
    stored,     \* app_cfg: the application variables with a text
    serial,     \* transactions that inserted users
    phase,      \* how far each process is
    env,        \* what it read from .env
    created,    \* the transaction in which it inserted the default users, or 0
    cache,      \* the application variables it has loaded
    starts,     \* starts so far
    edits,      \* changes so far
    clean       \* history: a start with a complete .env, alone, and no failure since

database == <<users, variables, stored, serial>>
memory == <<phase, env, created, cache>>
vars == <<database, memory, starts, edits, clean>>

Phase == {"down", "creating", "count", "users", "variables", "config", "trace",
          "providers", "listen", "listening", "stuck"}
Names == Default \cup Others
Empty == \A n \in Names : users[n] = 0
Up(p) == phase[p] # "down"

-----------------------------------------------------------------------------
(* The steps of a start *)

GoTo(p, next) == phase' = [phase EXCEPT ![p] = next]

Complete(e) == e.testing = "no" /\ Vars \subseteq e.given

Start(p, e) ==
    /\ phase[p] = "down"
    /\ starts < MaxStarts
    /\ starts' = starts + 1
    /\ GoTo(p, "creating")
    /\ env' = [env EXCEPT ![p] = e]
    /\ clean' = [q \in Processes |->
                    IF q = p /\ Complete(e) /\ ~(\E o \in Processes : Up(o)) THEN "yes" ELSE "no"]
    /\ UNCHANGED <<database, created, cache, edits>>

\* NestFactory.create (external), then initApplication, which does nothing in a test.
Create(p) ==
    /\ phase[p] = "creating"
    /\ GoTo(p, IF env[p].testing = "yes" THEN "listen" ELSE "count")
    /\ UNCHANGED <<database, env, created, cache, starts, edits, clean>>

\* Mutant: the default users are inserted at every start.
CountUsersAlways(p) ==
    /\ phase[p] = "count"
    /\ GoTo(p, "users")
    /\ UNCHANGED <<database, env, created, cache, starts, edits, clean>>

CountUsers(p) ==
    /\ phase[p] = "count"
    /\ GoTo(p, IF Empty THEN "users" ELSE "config")
    /\ UNCHANGED <<database, env, created, cache, starts, edits, clean>>

\* The first transaction, committed as transaction n.
InsertUsers(n) ==
    /\ serial' = n
    /\ users' = [name \in Names |-> IF name \in Default THEN n ELSE users[name]]

\* Three inserts; a name that is taken rolls them back.
SeedUsers(p) ==
    /\ phase[p] = "users"
    /\ IF \A name \in Default : users[name] = 0
       THEN InsertUsers(serial + 1) /\ created' = [created EXCEPT ![p] = serial + 1] /\ GoTo(p, "variables")
       ELSE GoTo(p, "stuck") /\ UNCHANGED <<users, serial, created>>
    /\ UNCHANGED <<variables, stored, env, cache, starts, edits, clean>>

\* Mutant: the inserts are not awaited, and one transaction is lost with its failure.
SeedVariablesUnawaited(p) ==
    /\ phase[p] = "variables"
    /\ \E done \in SUBSET Seed : variables' = variables \cup {<<s, created[p]>> : s \in done}
    /\ GoTo(p, "config")
    /\ UNCHANGED <<users, stored, serial, env, created, cache, starts, edits, clean>>

\* Six inserts for the users made before; one who has gone rolls them back.
SeedVariables(p) ==
    /\ phase[p] = "variables"
    /\ IF \A name \in Default : users[name] = created[p]
       THEN variables' = variables \cup {<<s, created[p]>> : s \in Seed} /\ GoTo(p, "config")
       ELSE GoTo(p, "stuck") /\ UNCHANGED variables
    /\ UNCHANGED <<users, stored, serial, env, created, cache, starts, edits, clean>>

\* Mutant: .env is not looked at.
HasValueStored(e, v) == e.override = "yes" /\ v \in stored

HasValue(e, v) == v \in e.given \/ (e.override = "yes" /\ v \in stored)

\* initVariables fills the cache in the order of the catalogue and throws at the first
\* variable without a value.
Loaded(e) ==
    {Catalogue[k] : k \in {i \in DOMAIN Catalogue : \A j \in 1 .. i : HasValue(e, Catalogue[j])}}

\* AppConfigService.init logs its exception and returns, also when its query has failed.
LoadConfig(p) ==
    /\ phase[p] = "config"
    /\ cache' = [cache EXCEPT ![p] = Loaded(env[p])]
    /\ GoTo(p, "trace")
    /\ UNCHANGED <<database, env, created, starts, edits, clean>>

\* Mutant: a switch that cannot be read is taken for off.
InitTraceLenient(p) ==
    /\ phase[p] = "trace"
    /\ GoTo(p, "providers")
    /\ UNCHANGED <<database, env, created, cache, starts, edits, clean>>

\* dumpTraceSettings reads every switch; getBoolean throws for one not in the cache.
InitTrace(p) ==
    /\ phase[p] = "trace"
    /\ GoTo(p, IF env[p].traceDisabled = "yes" \/ Switches \subseteq cache[p]
               THEN "providers" ELSE "stuck")
    /\ UNCHANGED <<database, env, created, cache, starts, edits, clean>>

\* The providers' init, in turn, and AppInited, which has no listener.
InitProviders(p) ==
    /\ phase[p] = "providers"
    /\ GoTo(p, "listen")
    /\ UNCHANGED <<database, env, created, cache, starts, edits, clean>>

\* The port is free, or listen() rejects.
Listen(p) ==
    /\ phase[p] = "listen"
    /\ GoTo(p, IF \E q \in Processes : phase[q] = "listening" THEN "stuck" ELSE "listening")
    /\ UNCHANGED <<database, env, created, cache, starts, edits, clean>>

-----------------------------------------------------------------------------
(* Failures *)

\* A query of initDbContent fails before the commit, or its answer is lost after it.
QueryFails(p) ==
    /\ phase[p] \in {"count", "users", "variables"}
    /\ GoTo(p, "stuck")
    /\ clean' = [clean EXCEPT ![p] = "no"]
    /\ \/ UNCHANGED <<users, variables, serial>>
       \/ /\ phase[p] = "users"
          /\ \A name \in Default : users[name] = 0
          /\ InsertUsers(serial + 1)
          /\ UNCHANGED variables
       \/ /\ phase[p] = "variables"
          /\ \A name \in Default : users[name] = created[p]
          /\ variables' = variables \cup {<<s, created[p]>> : s \in Seed}
          /\ UNCHANGED <<users, serial>>
    /\ UNCHANGED <<stored, env, created, cache, starts, edits>>

\* The query of AppConfigService.init fails.
ConfigQueryFails(p) ==
    /\ phase[p] = "config"
    /\ GoTo(p, "trace")
    /\ clean' = [clean EXCEPT ![p] = "no"]
    /\ UNCHANGED <<database, env, created, cache, starts, edits>>

\* The process ends: killed, or by NestFactory itself when it cannot create the application.
Crash(p) ==
    /\ Up(p)
    /\ GoTo(p, "down")
    /\ env' = [env EXCEPT ![p] = NoEnvironment]
    /\ created' = [created EXCEPT ![p] = 0]
    /\ cache' = [cache EXCEPT ![p] = {}]
    /\ clean' = [clean EXCEPT ![p] = "no"]
    /\ UNCHANGED <<database, starts, edits>>

-----------------------------------------------------------------------------
(* What happens to the database between starts *)

Edits == edits < MaxEdits /\ edits' = edits + 1

\* Mutant: the foreign key does not cascade.
CascadeNothing == variables' = variables

\* onDelete: 'cascade'
Cascade == variables' = {v \in variables : users'[OwnerOf[v[1]]] = v[2]}

\* Requests of an administrator to a process that listens.
AddUser(p, n) ==
    /\ phase[p] = "listening" /\ Edits
    /\ users[n] = 0
    /\ serial' = serial + 1
    /\ users' = [users EXCEPT ![n] = serial + 1]
    /\ UNCHANGED <<variables, stored, memory, starts, clean>>

DeleteUser(p, n) ==
    /\ phase[p] = "listening" /\ Edits
    /\ users[n] # 0
    /\ users' = [users EXCEPT ![n] = 0]
    /\ Cascade
    /\ UNCHANGED <<stored, serial, memory, starts, clean>>

DeleteAllUsers(p) ==
    /\ phase[p] = "listening" /\ Edits
    /\ users' = [n \in Names |-> 0]
    /\ Cascade
    /\ UNCHANGED <<stored, serial, memory, starts, clean>>

SetVariable(p, v) ==
    /\ phase[p] = "listening"
    /\ v \in cache[p]
    /\ stored' = stored \cup {v}
    /\ UNCHANGED <<users, variables, serial, memory, starts, edits, clean>>

\* main createdbschema: the schema is dropped and created again by a process of its own,
\* which ends; the processes that are up are not asked.
CreateSchema ==
    /\ Edits
    /\ users' = [n \in Names |-> 0]
    /\ variables' = {}
    /\ stored' = {}
    /\ clean' = [p \in Processes |-> "no"]
    /\ UNCHANGED <<serial, memory, starts>>

-----------------------------------------------------------------------------
Init ==
    /\ users = [n \in Names |-> 0]
    /\ variables = {} /\ stored = {} /\ serial = 0
    /\ phase = [p \in Processes |-> "down"]
    /\ env = [p \in Processes |-> NoEnvironment]
    /\ created = [p \in Processes |-> 0]
    /\ cache = [p \in Processes |-> {}]
    /\ starts = 0 /\ edits = 0
    /\ clean = [p \in Processes |-> "no"]

Proceed(p) ==
    \/ Create(p) \/ CountUsers(p) \/ SeedUsers(p) \/ SeedVariables(p)
    \/ LoadConfig(p) \/ InitTrace(p) \/ InitProviders(p) \/ Listen(p)

Serve(p) ==
    \/ \E n \in Others : AddUser(p, n)
    \/ \E n \in Names : DeleteUser(p, n)
    \/ DeleteAllUsers(p)
    \/ \E v \in Vars : SetVariable(p, v)

Next ==
    \/ \E p \in Processes :
          \/ \E e \in Environments : Start(p, e)
          \/ Proceed(p) \/ QueryFails(p) \/ ConfigQueryFails(p) \/ Crash(p) \/ Serve(p)
    \/ CreateSchema

(***************************************************************************)
(* The event loop runs every continuation and the database answers or      *)
(* fails every query.  Nobody need start a process, or crash it.           *)
(***************************************************************************)
Spec == Init /\ [][Next]_vars /\ \A p \in Processes : WF_vars(Proceed(p))

-----------------------------------------------------------------------------
(* Properties *)

\* The tables and the processes keep their shape; every variable has its owner.
TypeOK ==
    /\ users \in [Names -> Nat]
    /\ variables \subseteq Seed \X Nat
    /\ \A v \in variables : users[OwnerOf[v[1]]] = v[2]
    /\ stored \subseteq Vars
    /\ serial \in Nat
    /\ \A n \in Names : users[n] <= serial
    /\ phase \in [Processes -> Phase]
    /\ env \in [Processes -> Environment]
    /\ created \in [Processes -> Nat]
    /\ cache \in [Processes -> SUBSET Vars]
    /\ starts \in 0 .. MaxStarts /\ edits \in 0 .. MaxEdits
    /\ clean \in [Processes -> YesNo]

\* Whatever earlier processes left in the database when they crashed or failed, a start
\* that is alone, has a complete .env and meets no failure does not get stuck.
CleanNeverStuck == \A p \in Processes : clean[p] = "yes" => phase[p] # "stuck"

\* ... and it comes to listen.
CleanStartListens ==
    \A p \in Processes : clean[p] = "yes" ~> phase[p] = "listening" \/ clean[p] = "no"

\* A process that got past its two transactions left each default user it inserted, and
\* that has not been deleted since, with all his variables, although users may have been
\* deleted and inserted again by another process between the two.
SeededUsersHaveVariables ==
    \A p \in Processes, s \in Seed :
        /\ created[p] # 0
        /\ phase[p] \in {"config", "trace", "providers", "listen", "listening"}
        /\ users[OwnerOf[s]] = created[p]
        => <<s, created[p]>> \in variables

\* A process that listens and traces never meets a switch it has not loaded, although a
\* failure to load the variables is only logged.
SwitchesAreKnown ==
    \A p \in Processes :
        phase[p] = "listening" /\ env[p].testing = "no" /\ env[p].traceDisabled = "no"
            => Switches \subseteq cache[p]

\* When a clean start comes to listen there is a user to log in as, all variables are
\* loaded, and the default users were inserted only if there was nobody.
CleanStartIsUsable ==
    [][\A p \in Processes : clean[p] = "yes" =>
          /\ phase'[p] = "listening" /\ phase[p] # "listening" => ~Empty /\ cache[p] = Vars
          /\ created'[p] # created[p] /\ created'[p] # 0 => Empty]_vars
=============================================================================
