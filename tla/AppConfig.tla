----------------------------- MODULE AppConfig -----------------------------
(***************************************************************************)
(* AppConfigService: the cache of application variables over the app_cfg   *)
(* table, changed by PUT /appconfig/:configId (setVariable) and reloaded   *)
(* by POST /appconfig (init, which the controller does not await).         *)
(*                                                                         *)
(* Every request has an EntityManager of its own, so nothing orders the    *)
(* database work of two requests: a set reads the row, flushes a change    *)
(* and writes the cache in three steps, a reload reads the table and fills *)
(* the cache in two, and the steps of different requests interleave.       *)
(*                                                                         *)
(* A value is its text.  A set stores String(value) and caches the value   *)
(* it was given; a reload caches what valueFromString makes of the text.   *)
(***************************************************************************)
EXTENDS Naturals

CONSTANTS
    Vars,        \* configuration ids that have a descriptor
    Order,       \* position of each descriptor in APP_CONFIG_VARIABLES
    Booleans,    \* the variables of type Boolean; the others are Strings
    Changed,     \* the variables the clients of this instance change
    Tables,      \* contents the table can start with
    LostAnswers, \* a database connection can fail between COMMIT and its answer
    Text,        \* values
    EnvValue,    \* what .env or the descriptor's default gives, or Missing
    Override,    \* OVERRIDE_APP_CONFIG_FROM_DB
    Missing,     \* no row, no cache entry, no value
    SetSlots,    \* bounds the set requests in flight
    LoadSlots    \* bounds the reload requests in flight, and names them apart from sets

ASSUME VarsAssumption ==
    Order \in [Vars -> Nat] /\ Booleans \subseteq Vars /\ Changed \subseteq Vars
ASSUME TextAssumption == {"", "true", "false"} \subseteq Text
ASSUME MissingAssumption == Missing \notin Text
ASSUME EnvAssumption == EnvValue \in [Vars -> Text \cup {Missing}]
ASSUME TablesAssumption == Tables \subseteq [Vars -> Text \cup {Missing}]
ASSUME LostAnswersAssumption == LostAnswers \in BOOLEAN
ASSUME OverrideAssumption == Override \in {"true", "false", "unset"}
ASSUME SlotsAssumption == SetSlots \cap LoadSlots = {}

VARIABLES
    up,        \* the process is running and initialised
    db,        \* value column of app_cfg, by configId
    cache,     \* the cache Map
    told,      \* value of the last DataChanged message for each variable
    sets,      \* setVariable calls in flight
    loads,     \* init calls in flight
    suspect    \* history: variables whose writers were raced or cut off since a lone one

vars == <<up, db, cache, told, sets, loads, suspect>>

MaybeText == Text \cup {Missing}

(***************************************************************************)
(* A set in flight.  "attached": the cache entry found at the start is     *)
(* still the one in the Map.  "alone" is history: no other request on the  *)
(* variable has overlapped it.                                             *)
(***************************************************************************)
SetCall == [id : SetSlots, var : Vars, text : Text, seen : MaybeText,
            step : {"reading", "flushing", "done"}, attached : BOOLEAN, alone : BOOLEAN]

\* A reload in flight; "raced" is history: variables a set has overlapped it on.
LoadCall == [id : LoadSlots, rows : [Vars -> MaybeText],
             step : {"reading", "done"}, raced : SUBSET Vars]

SetsOn(v) == {p \in sets : p.var = v}
FreeSets == SetSlots \ {p.id : p \in sets}
FreeLoads == LoadSlots \ {l.id : l \in loads}

-----------------------------------------------------------------------------
(* initVariables *)

\* What a stored text becomes: any Boolean text but 'true' is false.
ValueFromString(v, text) ==
    IF v \in Booleans /\ text # "true" THEN "false" ELSE text

\* Mutant: .env wins over the table.
EffectiveEnvFirst(v, rows) ==
    IF EnvValue[v] # Missing \/ rows[v] = Missing THEN EnvValue[v]
    ELSE ValueFromString(v, rows[v])

\* An empty text is falsy and overrides nothing.
Effective(v, rows) ==
    IF Override = "true" /\ rows[v] \notin {Missing, ""}
    THEN ValueFromString(v, rows[v])
    ELSE EnvValue[v]

(***************************************************************************)
(* The loop over the descriptors throws at the first one without a value,  *)
(* and before the first when the override switch itself is not set; init   *)
(* logs the error and keeps what was filled.                               *)
(***************************************************************************)
Loaded(rows) ==
    {v \in Vars : /\ Override # "unset"
                  /\ \A w \in Vars : Order[w] <= Order[v] => Effective(w, rows) # Missing}

\* Mutant: the cache is cleared before it is filled.
FilledAfresh(old, rows) ==
    [v \in Vars |-> IF v \in Loaded(rows) THEN Effective(v, rows) ELSE Missing]

Filled(old, rows) ==
    [v \in Vars |-> IF v \in Loaded(rows) THEN Effective(v, rows) ELSE old[v]]

-----------------------------------------------------------------------------
(* The process *)

NoCache == [v \in Vars |-> Missing]

\* Startup awaits init() before it listens; a failed query leaves the cache empty.
Boot ==
    /\ ~up
    /\ up' = TRUE
    /\ cache' \in {Filled(NoCache, db), NoCache}
    /\ UNCHANGED <<db, told, sets, loads, suspect>>

Crash ==
    /\ up
    /\ up' = FALSE
    /\ cache' = NoCache
    /\ told' = NoCache
    /\ sets' = {}
    /\ loads' = {}
    /\ suspect' = {}
    /\ UNCHANGED db

-----------------------------------------------------------------------------
(* setVariable / applyValue *)

\* getVariable finds the entry and the type tag matches; findOne is issued.
SetStart(v, text) ==
    /\ up
    /\ cache[v] # Missing
    /\ \E r \in FreeSets :
          sets' = {IF p.var = v THEN [p EXCEPT !.alone = FALSE] ELSE p : p \in sets} \cup
                  {[id |-> r, var |-> v, text |-> text, seen |-> Missing, step |-> "reading",
                    attached |-> TRUE, alone |-> SetsOn(v) = {} /\ loads = {}]}
    /\ loads' = {[l EXCEPT !.raced = @ \cup {v}] : l \in loads}
    /\ UNCHANGED <<up, db, cache, told, suspect>>

\* Mutant: the call goes on twice.
SetReadTwice(p) ==
    /\ p.step = "reading"
    /\ sets' = sets \cup {[p EXCEPT !.step = "flushing", !.seen = db[p.var]]}
    /\ UNCHANGED <<up, db, cache, told, loads, suspect>>

\* The database evaluates findOne; the continuation assigns and calls flush.
SetRead(p) ==
    /\ p.step = "reading"
    /\ sets' = (sets \ {p}) \cup {[p EXCEPT !.step = "flushing", !.seen = db[p.var]]}
    /\ UNCHANGED <<up, db, cache, told, loads, suspect>>

(***************************************************************************)
(* MikroORM (external).  flush() issues an UPDATE only for a property that *)
(* differs from the value the entity was loaded with.  create() makes an   *)
(* entity but does not persist() it, so without a row nothing is written.  *)
(***************************************************************************)
\* Mutant: the change is compared with the cached value, not with the row.
FlushedAgainstCache(p) ==
    IF p.seen = Missing \/ p.text = cache[p.var] THEN db ELSE [db EXCEPT ![p.var] = p.text]

Dirty(p) == p.seen \notin {Missing, p.text}

Flushed(p) == IF Dirty(p) THEN [db EXCEPT ![p.var] = p.text] ELSE db

SetCommit(p) ==
    /\ p.step = "flushing"
    /\ db' = Flushed(p)
    /\ sets' = (sets \ {p}) \cup {[p EXCEPT !.step = "done"]}
    /\ UNCHANGED <<up, cache, told, loads, suspect>>

\* History: how a call that has ended leaves its variable.
SuspectUnlessAlone(p) == IF p.alone THEN suspect ELSE suspect \cup {p.var}

\* Mutant: a failed call has already changed the cached entry.
FailAfterCaching(p) ==
    /\ p.step \in {"reading", "flushing"}
    /\ sets' = sets \ {p}
    /\ cache' = IF p.attached THEN [cache EXCEPT ![p.var] = p.text] ELSE cache
    /\ suspect' = SuspectUnlessAlone(p)
    /\ UNCHANGED <<up, db, told, loads>>

\* Mutant: the change is broadcast although the call failed.
FailButTell(p) ==
    /\ p.step \in {"reading", "flushing"}
    /\ sets' = sets \ {p}
    /\ told' = [told EXCEPT ![p.var] = p.text]
    /\ suspect' = SuspectUnlessAlone(p)
    /\ UNCHANGED <<up, db, cache, loads>>

\* The query or the flush fails, the call rejects and the cache stays as it was.
SetFail(p) ==
    /\ p.step \in {"reading", "flushing"}
    /\ sets' = sets \ {p}
    /\ suspect' = SuspectUnlessAlone(p)
    /\ UNCHANGED <<up, db, cache, told, loads>>

\* Mutant: a flush whose answer was lost is tried again.
SetAnswerLostRetried(p) ==
    /\ LostAnswers
    /\ p.step = "flushing"
    /\ db' = Flushed(p)
    /\ suspect' = suspect \cup {p.var}
    /\ UNCHANGED <<up, cache, told, sets, loads>>

\* The flush is committed but its answer is lost with the database connection.
SetAnswerLost(p) ==
    /\ LostAnswers
    /\ p.step = "flushing"
    /\ db' = Flushed(p)
    /\ sets' = sets \ {p}
    /\ suspect' = suspect \cup {p.var}
    /\ UNCHANGED <<up, cache, told, loads>>

\* flush() has resolved: the entry found at the start is assigned and broadcast.
SetFinish(p) ==
    /\ p.step = "done"
    /\ told' = [told EXCEPT ![p.var] = p.text]
    /\ cache' = IF p.attached THEN [cache EXCEPT ![p.var] = p.text] ELSE cache
    /\ sets' = sets \ {p}
    /\ suspect' = IF p.alone THEN suspect \ {p.var} ELSE suspect \cup {p.var}
    /\ UNCHANGED <<up, db, loads>>

-----------------------------------------------------------------------------
(* init, called again by POST /appconfig *)

LoadStart ==
    /\ up
    /\ \E r \in FreeLoads :
          loads' = loads \cup {[id |-> r, rows |-> NoCache, step |-> "reading",
                                raced |-> {p.var : p \in sets}]}
    /\ sets' = {[p EXCEPT !.alone = FALSE] : p \in sets}
    /\ UNCHANGED <<up, db, cache, told, suspect>>

LoadRead(l) ==
    /\ l.step = "reading"
    /\ loads' = (loads \ {l}) \cup {[l EXCEPT !.step = "done", !.rows = db]}
    /\ UNCHANGED <<up, db, cache, told, sets, suspect>>

LoadFail(l) ==
    /\ l.step = "reading"
    /\ loads' = loads \ {l}
    /\ UNCHANGED <<up, db, cache, told, sets, suspect>>

\* New entries replace the old ones; a set in flight keeps the entry it found.
LoadFinish(l) ==
    /\ l.step = "done"
    /\ cache' = Filled(cache, l.rows)
    /\ sets' = {IF p.var \in Loaded(l.rows) THEN [p EXCEPT !.attached = FALSE] ELSE p : p \in sets}
    /\ loads' = loads \ {l}
    /\ suspect' = suspect \cup l.raced
    /\ UNCHANGED <<up, db, told>>

-----------------------------------------------------------------------------
Init ==
    /\ up = FALSE
    /\ db \in Tables
    /\ cache = NoCache
    /\ told = NoCache
    /\ sets = {}
    /\ loads = {}
    /\ suspect = {}

SetStep ==
    \/ \E v \in Changed, text \in Text : SetStart(v, text)
    \/ \E p \in sets : SetRead(p) \/ SetCommit(p) \/ SetFail(p) \/ SetAnswerLost(p) \/ SetFinish(p)

LoadStep == LoadStart \/ \E l \in loads : LoadRead(l) \/ LoadFail(l) \/ LoadFinish(l)

Next == Boot \/ Crash \/ SetStep \/ LoadStep

Spec == Init /\ [][Next]_vars

-----------------------------------------------------------------------------
(* Properties *)

\* The cache, the table and the calls in flight have the shape the service assumes; a
\* call occupies its slot alone.
TypeOK ==
    /\ up \in BOOLEAN
    /\ db \in [Vars -> MaybeText]
    /\ cache \in [Vars -> MaybeText]
    /\ told \in [Vars -> MaybeText]
    /\ sets \in SUBSET SetCall
    /\ loads \in SUBSET LoadCall
    /\ \A p, q \in sets : p.id = q.id => p = q
    /\ \A l, m \in loads : l.id = m.id => l = m
    /\ suspect \in SUBSET Vars

\* The cached value of v is the stored one, or what a reload would make of it.  A
\* variable without a row, or with an empty text, is not overridden from the table.
Agree(v) ==
    (Override = "true" /\ cache[v] # Missing /\ db[v] \notin {Missing, ""})
        => cache[v] \in {db[v], ValueFromString(v, db[v])}

\* What the subscribers were last told of v, if anything, is what is stored.
SubscribersAgree(v) == db[v] # Missing => told[v] \in {Missing, db[v]}

Settled(v) == SetsOn(v) = {}

\* Cache, subscribers and table differ only through a race or a lost answer: a variable
\* no call is changing, and whose calls since the last lone set were neither raced nor
\* cut off, is cached and was told as it is stored, across failed calls, crashes,
\* restarts and reloads.
CoherentUnlessRaced ==
    \A v \in Vars \ suspect : Settled(v) => Agree(v) /\ SubscribersAgree(v)

\* A set that nobody raced, on a variable that has a row, is stored when its caller
\* gets the answer, also when the cache had drifted away from the row before.
AcknowledgedIsStored ==
    \A p \in sets : p.step = "done" /\ p.alone /\ p.seen # Missing => db[p.var] = p.text

\* The administrator's reload repairs what races left: a variable it fills, and that no
\* set overlapped it on, is cached as it is stored.
UnracedReloadRepairs ==
    [][\A l \in loads : LoadFinish(l) =>
        \A v \in Loaded(l.rows) \ l.raced : Agree(v)']_vars

\* A variable readers could get stays available until the process stops: a reload that
\* throws half way leaves the entries it did not reach.
KnownStaysKnown ==
    [][up' => \A v \in Vars : cache[v] # Missing => cache'[v] # Missing]_vars

(***************************************************************************)
(* The store the table is to the requests: one owner, whose variables a    *)
(* set changes and a reload gets.  A set takes effect when its flush       *)
(* commits, or when it reads the row if it will have nothing to write.     *)
(***************************************************************************)
TookEffect(p) == p.step = "done" \/ (p.step = "flushing" /\ ~Dirty(p))

StoreSet(p) ==
    [kind |-> "set", user |-> "application", var |-> p.var, text |-> p.text,
     step |-> IF TookEffect(p) THEN "done" ELSE "invoked"]

StoreGet(l) ==
    [kind |-> "get", user |-> "application",
     step |-> IF l.step = "done" THEN "done" ELSE "invoked", result |-> l.rows]

Operation(r) ==
    CASE \E p \in sets : p.id = r  -> StoreSet(CHOOSE p \in sets : p.id = r)
      [] \E l \in loads : l.id = r -> StoreGet(CHOOSE l \in loads : l.id = r)
      [] OTHER                     -> [kind |-> "idle"]

Store == INSTANCE ConfigStore
         WITH Users <- {"application"}, Slots <- SetSlots \cup LoadSlots,
              value <- [u \in {"application"} |-> db],
              op <- [r \in SetSlots \cup LoadSlots |-> Operation(r)]

\* However sets and reloads overlap, fail, lose their answer or are cut off by a crash,
\* each acts on the table at one moment: what races leave incoherent is the cache alone.
ImplementsStore == Store!Spec
=============================================================================
