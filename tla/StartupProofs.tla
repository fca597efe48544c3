--------------------------- MODULE StartupProofs ---------------------------
(***************************************************************************)
(* Proofs about Startup: the tables keep their shape and every variable    *)
(* its owner; a clean start does not get stuck and ends usable; the users  *)
(* a start has seeded have their variables; and no switch is unknown to a  *)
(* process that listens.                                                   *)
(***************************************************************************)
EXTENDS Startup, TLAPS

-----------------------------------------------------------------------------
(* Types *)

Shape ==
    /\ users \in [Names -> Nat]
    /\ variables \subseteq Seed \X Nat
    /\ stored \subseteq Vars
    /\ serial \in Nat
    /\ phase \in [Processes -> Phase]
    /\ env \in [Processes -> Environment]
    /\ created \in [Processes -> Nat]
    /\ cache \in [Processes -> SUBSET Vars]
    /\ starts \in 0 .. MaxStarts /\ edits \in 0 .. MaxEdits
    /\ clean \in [Processes -> YesNo]

\* Transactions are numbered; nobody is owned by a later one than the last.
Numbered ==
    /\ \A n \in Names : users[n] <= serial
    /\ \A p \in Processes : created[p] <= serial

\* No variable outlives its owner, and none belongs to a missing row.
Owned == \A v \in variables : v[2] # 0 /\ users[OwnerOf[v[1]]] = v[2]

\* A process has inserted users only where it goes on to their variables.
Inserting(p) ==
    /\ phase[p] \in {"down", "creating", "count", "users"} => created[p] = 0
    /\ phase[p] = "variables" => created[p] # 0

Tables == Shape /\ Numbered /\ Owned /\ \A p \in Processes : Inserting(p)

\* Seeds belong to default users, and others do not have their names.
LEMMA OwnerType == \A s \in Seed : OwnerOf[s] \in Default /\ OwnerOf[s] \in Names
BY DEF Seed, OwnerOf, Default, Names

LEMMA DefaultNames == Default \subseteq Names /\ "god" \in Default
BY DEF Default, Names

LEMMA NoEnvironmentType == NoEnvironment \in Environment
BY DEF NoEnvironment, Environment, YesNo

\* The cache holds variables of the catalogue, and all of them if each has a value.
LEMMA LoadedType ==
    ASSUME NEW e \in Environment
    PROVE  /\ Loaded(e) \subseteq Vars
           /\ Complete(e) => Loaded(e) = Vars
<1>1. \A k \in DOMAIN Catalogue : Catalogue[k] \in Vars /\ \A j \in 1 .. k : j \in DOMAIN Catalogue
  BY CatalogueAssumption DEF Vars
<1>2. Loaded(e) \subseteq Vars
  BY DEF Loaded, Vars
<1>3. ASSUME Complete(e), NEW k \in DOMAIN Catalogue
      PROVE  Catalogue[k] \in Loaded(e)
  BY <1>1, <1>3 DEF Complete, HasValue, Loaded
<1> QED
  BY <1>2, <1>3 DEF Vars

LEMMA InitTables == Init => Tables
BY NoEnvironmentType, BoundsAssumption
DEF Init, Tables, Shape, Numbered, Owned, Inserting, Phase, YesNo

\* The steps that change only how far a process is, and what it has read.
LEMMA ReadingTables ==
    ASSUME Tables, NEW p \in Processes,
           \/ \E e \in Environments : Start(p, e)
           \/ Create(p) \/ CountUsers(p) \/ LoadConfig(p) \/ InitTrace(p) \/ InitProviders(p)
           \/ Listen(p) \/ ConfigQueryFails(p) \/ Crash(p)
    PROVE  Tables'
<1>1. Shape'
  <2>1. ASSUME NEW e \in Environments, Start(p, e)
        PROVE  Shape'
    BY <2>1, BoundsAssumption, EnvironmentAssumption
    DEF Tables, Shape, Start, GoTo, Phase, YesNo, database
  <2>2. CASE LoadConfig(p)
    <3>1. Loaded(env[p]) \subseteq Vars
      BY LoadedType DEF Tables, Shape
    <3> QED
      BY <2>2, <3>1 DEF Tables, Shape, LoadConfig, GoTo, Phase, database
  <2>3. CASE Crash(p)
    BY <2>3, NoEnvironmentType DEF Tables, Shape, Crash, GoTo, Phase, YesNo, database
  <2>4. CASE ConfigQueryFails(p)
    BY <2>4 DEF Tables, Shape, ConfigQueryFails, GoTo, Phase, YesNo, database
  <2>5. CASE Create(p) \/ CountUsers(p) \/ InitTrace(p) \/ InitProviders(p) \/ Listen(p)
    BY <2>5
    DEF Tables, Shape, Create, CountUsers, InitTrace, InitProviders, Listen, GoTo, Phase, database
  <2> QED
    BY <2>1, <2>2, <2>3, <2>4, <2>5
<1>2. UNCHANGED database
  BY DEF Start, Create, CountUsers, LoadConfig, InitTrace, InitProviders, Listen,
         ConfigQueryFails, Crash
<1>3. ASSUME NEW q \in Processes
      PROVE  Inserting(q)' /\ created'[q] <= serial
  <2>1. CASE Crash(p)
    BY <2>1 DEF Tables, Shape, Numbered, Inserting, Crash, GoTo
  <2>2. CASE ~Crash(p)
    <3>1. created' = created
      BY <2>2 DEF Start, Create, CountUsers, LoadConfig, InitTrace, InitProviders, Listen,
                  ConfigQueryFails
    <3> QED
      BY <2>2, <3>1
      DEF Tables, Shape, Numbered, Inserting, Start, Create, CountUsers, LoadConfig, InitTrace,
          InitProviders, Listen, ConfigQueryFails, GoTo
  <2> QED
    BY <2>1, <2>2
<1> QED
  BY <1>1, <1>2, <1>3 DEF Tables, Numbered, Owned, database

\* The first transaction keeps what the tables say: the users it inserts own nothing yet.
LEMMA InsertTables ==
    ASSUME Tables, \A name \in Default : users[name] = 0, InsertUsers(serial + 1),
           UNCHANGED variables
    PROVE  /\ users' \in [Names -> Nat] /\ serial' \in Nat
           /\ \A n \in Names : users'[n] <= serial'
           /\ Owned'
<1>1. variables = {}
  BY OwnerType DEF Tables, Owned, Shape
<1> QED
  BY <1>1 DEF Tables, Shape, Numbered, Owned, InsertUsers

\* ... and the second: the owners are the rows the first has inserted.
LEMMA SeedTables ==
    ASSUME Tables, NEW p \in Processes, phase[p] = "variables",
           \A name \in Default : users[name] = created[p],
           variables' = variables \cup {<<s, created[p]>> : s \in Seed}, UNCHANGED users
    PROVE  variables' \subseteq Seed \X Nat /\ Owned'
<1>1. created[p] \in Nat /\ created[p] # 0
  BY DEF Tables, Shape, Inserting
<1>2. \A v \in {<<s, created[p]>> : s \in Seed} :
         v \in Seed \X Nat /\ v[2] # 0 /\ users[OwnerOf[v[1]]] = v[2]
  BY <1>1, OwnerType
<1> QED
  BY <1>2 DEF Tables, Shape, Owned

LEMMA SeedUsersTables ==
    ASSUME Tables, NEW p \in Processes, SeedUsers(p)
    PROVE  Tables'
<1>1. CASE \A name \in Default : users[name] = 0
  <2>1. /\ users' \in [Names -> Nat] /\ serial' \in Nat
        /\ \A n \in Names : users'[n] <= serial'
        /\ Owned'
    BY <1>1, InsertTables DEF SeedUsers
  <2>2. serial' = serial + 1 /\ created' = [created EXCEPT ![p] = serial + 1]
        /\ phase' = [phase EXCEPT ![p] = "variables"]
    BY <1>1 DEF SeedUsers, InsertUsers, GoTo
  <2>3. Shape'
    BY <2>1, <2>2 DEF SeedUsers, Tables, Shape, Phase
  <2>4. \A q \in Processes : created'[q] <= serial' /\ Inserting(q)'
    BY <2>2 DEF Tables, Shape, Numbered, Inserting
  <2> QED
    BY <2>1, <2>3, <2>4 DEF Tables, Numbered
<1>2. CASE ~(\A name \in Default : users[name] = 0)
  BY <1>2 DEF SeedUsers, GoTo, Tables, Shape, Numbered, Owned, Inserting, Phase
<1> QED
  BY <1>1, <1>2

LEMMA SeedVariablesTables ==
    ASSUME Tables, NEW p \in Processes, SeedVariables(p)
    PROVE  Tables'
<1>1. variables' \subseteq Seed \X Nat /\ Owned'
  <2>1. CASE \A name \in Default : users[name] = created[p]
    BY <2>1, SeedTables DEF SeedVariables
  <2>2. CASE ~(\A name \in Default : users[name] = created[p])
    BY <2>2 DEF SeedVariables, Tables, Shape, Owned
  <2> QED
    BY <2>1, <2>2
<1> QED
  BY <1>1 DEF SeedVariables, GoTo, Tables, Shape, Numbered, Inserting, Phase

LEMMA QueryFailsTables ==
    ASSUME Tables, NEW p \in Processes, QueryFails(p)
    PROVE  Tables'
<1>1. /\ users' \in [Names -> Nat] /\ serial' \in Nat /\ serial <= serial'
      /\ \A n \in Names : users'[n] <= serial'
      /\ variables' \subseteq Seed \X Nat
      /\ Owned'
  <2>1. CASE UNCHANGED <<users, variables, serial>>
    BY <2>1 DEF Tables, Shape, Numbered, Owned
  <2>2. CASE (\A name \in Default : users[name] = 0) /\ InsertUsers(serial + 1) /\ UNCHANGED variables
    BY <2>2, InsertTables DEF Tables, Shape, InsertUsers
  <2>3. CASE /\ phase[p] = "variables" /\ \A name \in Default : users[name] = created[p]
             /\ variables' = variables \cup {<<s, created[p]>> : s \in Seed}
             /\ UNCHANGED <<users, serial>>
    BY <2>3, SeedTables DEF Tables, Shape, Numbered
  <2> QED
    BY <2>1, <2>2, <2>3 DEF QueryFails
<1> QED
  BY <1>1 DEF QueryFails, GoTo, Tables, Shape, Numbered, Inserting, Phase, YesNo

\* The foreign key leaves variables with their owners.
LEMMA CascadeOwned ==
    ASSUME Tables, Cascade
    PROVE  variables' \subseteq Seed \X Nat /\ Owned'
BY DEF Tables, Shape, Owned, Cascade

LEMMA EditsType == Tables /\ Edits => edits' \in 0 .. MaxEdits
BY BoundsAssumption DEF Edits, Tables, Shape

LEMMA ServeTables ==
    ASSUME Tables, NEW p \in Processes, Serve(p)
    PROVE  Tables'
<1>1. UNCHANGED memory
  BY DEF Serve, AddUser, DeleteUser, DeleteAllUsers, SetVariable
<1>2. ASSUME NEW n \in Others, AddUser(p, n)
      PROVE  Tables'
  <2>1. n \in Names /\ n \notin Default
    BY <1>2, OthersAssumption DEF Names
  <2>2. Owned'
    BY <1>2, <2>1, OwnerType DEF AddUser, Tables, Shape, Owned
  <2>3. edits' \in 0 .. MaxEdits
    BY <1>2, EditsType DEF AddUser
  <2> QED
    BY <1>1, <1>2, <2>1, <2>2, <2>3 DEF AddUser, Tables, Shape, Numbered, Inserting, memory
<1>3. ASSUME (\E n \in Names : DeleteUser(p, n)) \/ DeleteAllUsers(p)
      PROVE  Tables'
  <2>1. variables' \subseteq Seed \X Nat /\ Owned' /\ edits' \in 0 .. MaxEdits
    BY <1>3, CascadeOwned, EditsType DEF DeleteUser, DeleteAllUsers
  <2>2. users' \in [Names -> Nat] /\ (\A n \in Names : users'[n] <= serial) /\ serial' = serial
    BY <1>3 DEF DeleteUser, DeleteAllUsers, Tables, Shape, Numbered
  <2>3. UNCHANGED <<stored, starts, clean>>
    BY <1>3 DEF DeleteUser, DeleteAllUsers
  <2> QED
    BY <1>1, <2>1, <2>2, <2>3 DEF Tables, Shape, Numbered, Inserting, memory
<1>4. ASSUME NEW v \in Vars, SetVariable(p, v)
      PROVE  Tables'
  BY <1>1, <1>4 DEF SetVariable, Tables, Shape, Numbered, Owned, Inserting, memory
<1> QED
  BY <1>2, <1>3, <1>4 DEF Serve

LEMMA CreateSchemaTables == Tables /\ CreateSchema => Tables'
<1> SUFFICES ASSUME Tables, CreateSchema
             PROVE  Tables'
  OBVIOUS
<1>1. edits' \in 0 .. MaxEdits
  BY EditsType DEF CreateSchema
<1> QED
  BY <1>1 DEF CreateSchema, Tables, Shape, Numbered, Owned, Inserting, memory, YesNo

LEMMA StepTables == Tables /\ [Next]_vars => Tables'
<1> SUFFICES ASSUME Tables, [Next]_vars
             PROVE  Tables'
  OBVIOUS
<1>1. CASE UNCHANGED vars
  BY <1>1 DEF vars, database, memory, Tables, Shape, Numbered, Owned, Inserting
<1> QED
  BY <1>1, ReadingTables, SeedUsersTables, SeedVariablesTables, QueryFailsTables, ServeTables,
     CreateSchemaTables
  DEF Next, Proceed

\* The tables and the processes keep their shape, and every variable its owner.
THEOREM TypeCorrect == Spec => []TypeOK
<1>1. Tables => TypeOK
  BY DEF Tables, Shape, Numbered, Owned, TypeOK
<1> QED
  BY <1>1, InitTables, StepTables, PTL DEF Spec

-----------------------------------------------------------------------------
(* Switches *)

\* A process that traces gets past TraceService only with every switch loaded.
Traced(p) ==
    /\ phase[p] \in {"providers", "listen", "listening"}
    /\ env[p].testing = "no" /\ env[p].traceDisabled = "no"
    => Switches \subseteq cache[p]

LEMMA StepTraced ==
    ASSUME Tables, \A p \in Processes : Traced(p), [Next]_vars, NEW p \in Processes
    PROVE  Traced(p)'
<1>1. CASE UNCHANGED vars
  BY <1>1 DEF vars, memory, Traced
<1>2. ASSUME NEW q \in Processes, NEW e \in Environments, Start(q, e)
      PROVE  Traced(p)'
  BY <1>2 DEF Start, GoTo, Traced, Tables, Shape
<1>3. ASSUME NEW q \in Processes, Proceed(q)
      PROVE  Traced(p)'
  BY <1>3
  DEF Proceed, Create, CountUsers, SeedUsers, SeedVariables, LoadConfig, InitTrace, InitProviders,
      Listen, GoTo, Traced, Tables, Shape
<1>4. ASSUME NEW q \in Processes, QueryFails(q) \/ ConfigQueryFails(q) \/ Crash(q)
      PROVE  Traced(p)'
  BY <1>4 DEF QueryFails, ConfigQueryFails, Crash, GoTo, Traced, Tables, Shape
<1>5. ASSUME CreateSchema \/ \E q \in Processes : Serve(q)
      PROVE  Traced(p)'
  BY <1>5 DEF CreateSchema, Serve, AddUser, DeleteUser, DeleteAllUsers, SetVariable, memory, Traced
<1> QED
  BY <1>1, <1>2, <1>3, <1>4, <1>5 DEF Next

\* A process that listens and traces never meets a switch it has not loaded.
THEOREM SwitchesTheorem == Spec => []SwitchesAreKnown
<1>1. Init => \A p \in Processes : Traced(p)
  BY DEF Init, Traced
<1>2. Tables /\ (\A p \in Processes : Traced(p)) /\ [Next]_vars => (\A p \in Processes : Traced(p))'
  BY StepTraced
<1>3. (\A p \in Processes : Traced(p)) => SwitchesAreKnown
  BY DEF Traced, SwitchesAreKnown
<1> QED
  BY <1>1, <1>2, <1>3, InitTables, StepTables, PTL DEF Spec

-----------------------------------------------------------------------------
(* Seeds *)

\* A row that a start has inserted and that is still there has kept its variables.
Seeded(p, s) ==
    /\ created[p] # 0
    /\ phase[p] \in {"config", "trace", "providers", "listen", "listening"}
    /\ users[OwnerOf[s]] = created[p]
    => <<s, created[p]>> \in variables

AllSeeded == \A p \in Processes, s \in Seed : Seeded(p, s)

\* Rows inserted later belong to another transaction.
LEMMA InsertSeeded ==
    ASSUME Tables, AllSeeded, InsertUsers(serial + 1), NEW q \in Processes, NEW s \in Seed
    PROVE  users'[OwnerOf[s]] # created[q]
<1>1. users'[OwnerOf[s]] = serial + 1
  BY OwnerType DEF InsertUsers
<1> QED
  BY <1>1 DEF Tables, Shape, Numbered

LEMMA StepSeeded ==
    ASSUME Tables, AllSeeded, [Next]_vars, NEW p \in Processes, NEW s \in Seed
    PROVE  Seeded(p, s)'
<1>1. CASE UNCHANGED vars
  BY <1>1 DEF vars, database, memory, AllSeeded, Seeded
<1>2. ASSUME NEW q \in Processes,
             \/ \E e \in Environments : Start(q, e)
             \/ Create(q) \/ CountUsers(q) \/ LoadConfig(q) \/ InitTrace(q) \/ InitProviders(q)
             \/ Listen(q) \/ ConfigQueryFails(q)
      PROVE  Seeded(p, s)'
  <2>1. UNCHANGED database /\ created' = created
    BY <1>2 DEF Start, Create, CountUsers, LoadConfig, InitTrace, InitProviders, Listen,
                ConfigQueryFails
  <2>2. \/ phase'[p] = phase[p]
        \/ phase[p] \in {"config", "trace", "providers", "listen"}
        \/ created[p] = 0
    BY <1>2
    DEF Start, Create, CountUsers, LoadConfig, InitTrace, InitProviders, Listen,
        ConfigQueryFails, GoTo, Tables, Shape, Inserting
  <2> QED
    BY <2>1, <2>2 DEF database, AllSeeded, Seeded
<1>3. ASSUME NEW q \in Processes, Crash(q)
      PROVE  Seeded(p, s)'
  BY <1>3 DEF Crash, GoTo, database, AllSeeded, Seeded, Tables, Shape
<1>4. ASSUME NEW q \in Processes, SeedUsers(q)
      PROVE  Seeded(p, s)'
  <2>1. CASE q = p
    BY <1>4, <2>1 DEF SeedUsers, GoTo, Tables, Shape, Seeded
  <2>2. CASE q # p /\ InsertUsers(serial + 1)
    <3>1. created'[p] = created[p]
      BY <1>4, <2>2 DEF SeedUsers, Tables, Shape
    <3> QED
      BY <2>2, <3>1, InsertSeeded DEF Seeded
  <2>3. CASE q # p /\ UNCHANGED <<users, created>>
    BY <1>4, <2>3 DEF SeedUsers, GoTo, Tables, Shape, AllSeeded, Seeded
  <2> QED
    BY <1>4, <2>1, <2>2, <2>3 DEF SeedUsers
<1>5. ASSUME NEW q \in Processes, SeedVariables(q)
      PROVE  Seeded(p, s)'
  <2>1. UNCHANGED <<users, created>> /\ variables \subseteq variables'
    BY <1>5 DEF SeedVariables
  <2>2. CASE q = p
    BY <1>5, <2>1, <2>2 DEF SeedVariables, GoTo, Tables, Shape, Seeded
  <2>3. CASE q # p
    BY <1>5, <2>1, <2>3 DEF SeedVariables, GoTo, Tables, Shape, AllSeeded, Seeded
  <2> QED
    BY <2>2, <2>3
<1>6. ASSUME NEW q \in Processes, QueryFails(q)
      PROVE  Seeded(p, s)'
  <2>1. created' = created /\ (phase'[p] = phase[p] \/ phase'[p] = "stuck")
    BY <1>6 DEF QueryFails, GoTo, Tables, Shape
  <2>2. CASE users' = users /\ variables \subseteq variables'
    BY <2>1, <2>2 DEF AllSeeded, Seeded
  <2>3. CASE InsertUsers(serial + 1)
    BY <2>1, <2>3, InsertSeeded DEF Seeded
  <2> QED
    BY <1>6, <2>2, <2>3 DEF QueryFails
<1>7. ASSUME NEW q \in Processes, Serve(q)
      PROVE  Seeded(p, s)'
  <2>1. UNCHANGED <<phase, created>>
    BY <1>7 DEF Serve, AddUser, DeleteUser, DeleteAllUsers, SetVariable, memory
  <2>2. ASSUME NEW n \in Others, AddUser(q, n)
        PROVE  users'[OwnerOf[s]] = users[OwnerOf[s]] /\ variables' = variables
    BY <2>2, OwnerType, OthersAssumption DEF AddUser, Tables, Shape
  <2>3. ASSUME Cascade, users'[OwnerOf[s]] \in {users[OwnerOf[s]], 0}
        PROVE  Seeded(p, s)'
    BY <2>1, <2>3 DEF Cascade, AllSeeded, Seeded
  <2>4. ASSUME (\E n \in Names : DeleteUser(q, n)) \/ DeleteAllUsers(q)
        PROVE  Cascade /\ users'[OwnerOf[s]] \in {users[OwnerOf[s]], 0}
    BY <2>4, OwnerType DEF DeleteUser, DeleteAllUsers, Tables, Shape
  <2>5. ASSUME NEW v \in Vars, SetVariable(q, v)
        PROVE  UNCHANGED <<users, variables>>
    BY <2>5 DEF SetVariable
  <2> QED
    BY <1>7, <2>1, <2>2, <2>3, <2>4, <2>5 DEF Serve, AllSeeded, Seeded
<1>8. CASE CreateSchema
  BY <1>8, OwnerType DEF CreateSchema, memory, Seeded
<1> QED
  BY <1>1, <1>2, <1>3, <1>4, <1>5, <1>6, <1>7, <1>8 DEF Next, Proceed

\* The default users a start has inserted have their variables.
THEOREM SeedsTheorem == Spec => []SeededUsersHaveVariables
<1>1. Init => AllSeeded
  BY DEF Init, AllSeeded, Seeded
<1>2. Tables /\ AllSeeded /\ [Next]_vars => AllSeeded'
  BY StepSeeded DEF AllSeeded
<1>3. AllSeeded => SeededUsersHaveVariables
  BY DEF AllSeeded, Seeded, SeededUsersHaveVariables
<1> QED
  BY <1>1, <1>2, <1>3, InitTables, StepTables, PTL DEF Spec

-----------------------------------------------------------------------------
(* Clean starts *)

\* A clean start is alone until it listens, so what it has read of the database still
\* holds when it writes.
Clean(p) ==
    clean[p] = "yes" =>
        /\ Up(p) /\ phase[p] # "stuck"
        /\ \A q \in Processes \ {p} : ~Up(q)
        /\ Complete(env[p])
        /\ phase[p] = "users" => Empty
        /\ phase[p] = "variables" => \A name \in Default : users[name] = created[p]
        /\ phase[p] \in {"variables", "config", "trace", "providers", "listen"} => ~Empty
        /\ phase[p] \in {"trace", "providers", "listen"} => cache[p] = Vars

\* While a clean start is alone another process can only start, and then it is clean no
\* longer.
LEMMA OthersClean ==
    ASSUME Tables, NEW p \in Processes, Clean(p), NEW q \in Processes \ {p},
           \/ \E e \in Environments : Start(q, e)
           \/ Proceed(q) \/ QueryFails(q) \/ ConfigQueryFails(q) \/ Crash(q) \/ Serve(q)
    PROVE  clean'[p] = "no"
<1>1. CASE \E e \in Environments : Start(q, e)
  BY <1>1 DEF Start
<1>2. CASE clean[p] = "no"
  <2>1. clean'[p] = clean[p] \/ clean'[p] = "no"
    BY <1>1
    DEF Proceed, Create, CountUsers, SeedUsers, SeedVariables, LoadConfig, InitTrace,
        InitProviders, Listen, QueryFails, ConfigQueryFails, Crash, Serve, AddUser, DeleteUser,
        DeleteAllUsers, SetVariable, Tables, Shape
  <2> QED
    BY <1>2, <2>1
<1>3. CASE clean[p] = "yes" /\ ~\E e \in Environments : Start(q, e)
  <2>1. phase[q] = "down"
    BY <1>3 DEF Clean, Up
  <2> QED
    BY <1>3, <2>1
    DEF Proceed, Create, CountUsers, SeedUsers, SeedVariables, LoadConfig, InitTrace,
        InitProviders, Listen, QueryFails, ConfigQueryFails, Crash, Up, Serve, AddUser, DeleteUser,
        DeleteAllUsers, SetVariable
<1> QED
  BY <1>1, <1>2, <1>3 DEF Tables, Shape, YesNo

\* Its own steps, in turn.
LEMMA ProceedClean ==
    ASSUME Tables, NEW p \in Processes, Clean(p), clean[p] = "yes", Proceed(p)
    PROVE  Clean(p)'
<1> USE DEF Clean, Up, GoTo, Tables, Shape
<1>0. \A q \in Processes \ {p} : phase'[q] = phase[q]
  BY DEF Proceed, Create, CountUsers, SeedUsers, SeedVariables, LoadConfig, InitTrace,
         InitProviders, Listen
<1>1. CASE Create(p)
  BY <1>0, <1>1 DEF Create, Complete
<1>2. CASE CountUsers(p)
  BY <1>0, <1>2 DEF CountUsers, database, Empty
<1>3. CASE SeedUsers(p)
  <2>1. \A name \in Default : users[name] = 0
    BY <1>3, DefaultNames DEF SeedUsers, Empty
  <2>2. InsertUsers(serial + 1) /\ created' = [created EXCEPT ![p] = serial + 1]
        /\ phase' = [phase EXCEPT ![p] = "variables"] /\ UNCHANGED <<env, cache, clean>>
    BY <1>3, <2>1 DEF SeedUsers
  <2>3. \A name \in Default : users'[name] = serial + 1
    BY <2>2, DefaultNames DEF InsertUsers
  <2>4. ~Empty'
    BY <2>3, DefaultNames DEF Empty
  <2> QED
    BY <1>0, <2>2, <2>3, <2>4
<1>4. CASE SeedVariables(p)
  BY <1>0, <1>4 DEF SeedVariables, Empty
<1>5. CASE LoadConfig(p)
  <2>1. Loaded(env[p]) = Vars
    BY LoadedType
  <2> QED
    BY <1>0, <1>5, <2>1 DEF LoadConfig, database, Empty
<1>6. CASE InitTrace(p)
  BY <1>0, <1>6, SwitchesAssumption DEF InitTrace, database, Empty
<1>7. CASE InitProviders(p)
  BY <1>0, <1>7 DEF InitProviders, database, Empty
<1>8. CASE Listen(p)
  BY <1>0, <1>8 DEF Listen, database, Empty
<1> QED
  BY <1>1, <1>2, <1>3, <1>4, <1>5, <1>6, <1>7, <1>8 DEF Proceed

LEMMA StartClean ==
    ASSUME Tables, NEW p \in Processes, NEW e \in Environments, Start(p, e)
    PROVE  Clean(p)'
BY DEF Start, GoTo, Clean, Up, Tables, Shape

\* Requests are served by a clean start only when it listens.
LEMMA ServeClean ==
    ASSUME Tables, NEW p \in Processes, Clean(p), Serve(p)
    PROVE  Clean(p)'
<1>1. phase[p] = "listening" /\ UNCHANGED <<phase, env, clean>>
  BY DEF Serve, AddUser, DeleteUser, DeleteAllUsers, SetVariable, memory
<1> QED
  BY <1>1 DEF Clean, Up

LEMMA StepClean ==
    ASSUME Tables, NEW p \in Processes, Clean(p), [Next]_vars
    PROVE  Clean(p)'
<1>1. CASE UNCHANGED vars
  BY <1>1 DEF vars, database, memory, Clean, Up, Empty
<1>2. ASSUME NEW q \in Processes \ {p},
             \/ \E e \in Environments : Start(q, e)
             \/ Proceed(q) \/ QueryFails(q) \/ ConfigQueryFails(q) \/ Crash(q) \/ Serve(q)
      PROVE  Clean(p)'
  BY <1>2, OthersClean DEF Clean
<1>3. CASE Proceed(p)
  <2>1. CASE clean[p] = "yes"
    BY <1>3, <2>1, ProceedClean
  <2>2. CASE clean[p] # "yes"
    BY <1>3, <2>2
    DEF Proceed, Create, CountUsers, SeedUsers, SeedVariables, LoadConfig, InitTrace,
        InitProviders, Listen, Clean
  <2> QED
    BY <2>1, <2>2
<1>4. CASE QueryFails(p) \/ ConfigQueryFails(p) \/ Crash(p) \/ CreateSchema
  BY <1>4 DEF QueryFails, ConfigQueryFails, Crash, CreateSchema, Clean, Tables, Shape
<1> QED
  BY <1>1, <1>2, <1>3, <1>4, StartClean, ServeClean DEF Next

CleanInv == Tables /\ \A p \in Processes : Clean(p)

LEMMA InitClean == Init => CleanInv
BY InitTables DEF Init, CleanInv, Clean

LEMMA StepCleanInv == CleanInv /\ [Next]_vars => CleanInv'
BY StepTables, StepClean DEF CleanInv

\* A clean start does not get stuck, whatever earlier processes left in the database.
THEOREM CleanTheorem == Spec => []CleanNeverStuck
<1>1. CleanInv => CleanNeverStuck
  BY DEF CleanInv, Clean, CleanNeverStuck
<1> QED
  BY <1>1, InitClean, StepCleanInv, PTL DEF Spec

LEMMA StepUsable ==
    ASSUME CleanInv, Next, NEW p \in Processes, clean[p] = "yes"
    PROVE  /\ phase'[p] = "listening" /\ phase[p] # "listening" => ~Empty /\ cache[p] = Vars
           /\ created'[p] # created[p] /\ created'[p] # 0 => Empty
<1> USE DEF CleanInv, Clean, Tables, Shape
<1>1. ASSUME NEW q \in Processes,
             \/ \E e \in Environments : Start(q, e)
             \/ QueryFails(q) \/ ConfigQueryFails(q) \/ Crash(q) \/ Serve(q) \/ CreateSchema
      PROVE  /\ phase'[p] = phase[p] \/ phase'[p] # "listening"
             /\ created'[p] = created[p] \/ created'[p] = 0
  BY <1>1
  DEF Start, QueryFails, ConfigQueryFails, Crash, Serve, AddUser, DeleteUser, DeleteAllUsers,
      SetVariable, CreateSchema, memory, GoTo
<1>2. ASSUME NEW q \in Processes, Proceed(q)
      PROVE  /\ phase'[p] = "listening" /\ phase[p] # "listening" => q = p /\ phase[p] = "listen"
             /\ created'[p] # created[p] => q = p /\ phase[p] = "users"
  BY <1>2
  DEF Proceed, Create, CountUsers, SeedUsers, SeedVariables, LoadConfig, InitTrace, InitProviders,
      Listen, GoTo, Complete
<1>3. (phase[p] = "listen" => ~Empty /\ cache[p] = Vars) /\ (phase[p] = "users" => Empty)
  OBVIOUS
<1> QED
  BY <1>1, <1>2, <1>3 DEF Next

\* A clean start comes to listen with users and variables, and inserts users only where
\* there was nobody.
THEOREM UsableTheorem == Spec => CleanStartIsUsable
<1>1. CleanInv /\ [Next]_vars =>
        [\A p \in Processes : clean[p] = "yes" =>
            /\ phase'[p] = "listening" /\ phase[p] # "listening" => ~Empty /\ cache[p] = Vars
            /\ created'[p] # created[p] /\ created'[p] # 0 => Empty]_vars
  BY StepUsable
<1> QED
  BY <1>1, InitClean, StepCleanInv, PTL DEF Spec, CleanStartIsUsable
=============================================================================
