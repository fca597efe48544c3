----------------------------- MODULE UserConfig -----------------------------
(***************************************************************************)
(* UserConfigService: variables that belong to a user, in table user_cfg.  *)
(* A get (GET /userconfig, the initial data of feature USER_CONFIG) is one *)
(* query.  A set (PUT /userconfig/:configId) is a sequence of queries of   *)
(* the request's own EntityManager: load the user's variables, load them   *)
(* again if the one to set is missing, find its row, flush.                *)
(*                                                                         *)
(* The `cache` Map of the service is read and never written, so that the   *)
(* Maps that calls build from a query are theirs alone and no state is     *)
(* kept between calls but the table.                                       *)
(***************************************************************************)
CONSTANTS
    Users,        \* owners; the tokens of deleted ones are still accepted
    Vars,         \* configuration ids
    Text,         \* values; a value is its text
    Missing,      \* no row
    Slots,        \* bounds the calls in flight
    Tables,       \* what a user's rows can be at the start
    LostAnswers   \* a database connection can fail between COMMIT and its answer

MaybeText == Text \cup {Missing}
Rows == [Vars -> MaybeText]
NoRows == [v \in Vars |-> Missing]

ASSUME MissingAssumption == Missing \notin Text
ASSUME TablesAssumption == Tables \subseteq Rows
ASSUME LostAnswersAssumption == LostAnswers \in BOOLEAN

VARIABLES
    users,   \* the users that exist
    db,      \* value column of user_cfg, by owner and configId
    call     \* getAll and setVariable calls in flight

vars == <<users, db, call>>

(***************************************************************************)
(* "alone" is history: no other set of the variable has overlapped.        *)
(***************************************************************************)
Idle == [kind |-> "idle"]
GetCall == [kind : {"get"}, user : Users, step : {"loading", "done"}, rows : Rows]
SetCall == [kind : {"set"}, user : Users, var : Vars, text : Text, seen : MaybeText,
            step : {"loading", "reloading", "reading", "flushing", "done"},
            alone : BOOLEAN]

At(r, kind, step) == call[r].kind = kind /\ call[r].step = step
Sets(r, u, v) == call[r].kind = "set" /\ call[r].user = u /\ call[r].var = v

GoTo(r, step) == call' = [call EXCEPT ![r].step = step]
End(r) == call' = [call EXCEPT ![r] = Idle]

-----------------------------------------------------------------------------
(* getAll *)

GetStart(r, u) ==
    /\ call[r] = Idle
    /\ call' = [call EXCEPT ![r] =
           [kind |-> "get", user |-> u, step |-> "loading", rows |-> NoRows]]
    /\ UNCHANGED <<users, db>>

GetRead(r) ==
    /\ At(r, "get", "loading")
    /\ call' = [call EXCEPT ![r].step = "done", ![r].rows = db[call[r].user]]
    /\ UNCHANGED <<users, db>>

GetReturn(r) ==
    /\ At(r, "get", "done")
    /\ End(r)
    /\ UNCHANGED <<users, db>>

-----------------------------------------------------------------------------
(* setVariable / applyValue *)

SetStart(r, u, v, text) ==
    /\ call[r] = Idle
    /\ call' = [q \in Slots |->
           IF q = r
           THEN [kind |-> "set", user |-> u, var |-> v, text |-> text, seen |-> Missing,
                 step |-> "loading", alone |-> \A o \in Slots : ~Sets(o, u, v)]
           ELSE IF Sets(q, u, v) THEN [call[q] EXCEPT !.alone = FALSE] ELSE call[q]]
    /\ UNCHANGED <<users, db>>

Row(r) == db[call[r].user][call[r].var]

\* getVariable: a missing variable is loaded a second time, to be put into that Map.
SetLoad(r) ==
    /\ At(r, "set", "loading")
    /\ GoTo(r, IF Row(r) = Missing THEN "reloading" ELSE "reading")
    /\ UNCHANGED <<users, db>>

SetReload(r) ==
    /\ At(r, "set", "reloading")
    /\ GoTo(r, "reading")
    /\ UNCHANGED <<users, db>>

\* Mutant: findOne with a condition on the owner only.
SetReadRows(r) ==
    /\ At(r, "set", "reading")
    /\ call' = [call EXCEPT ![r].step = "flushing", ![r].seen = db[call[r].user]]
    /\ UNCHANGED <<users, db>>

\* Mutant: flush is not awaited.
SetReadUnawaited(r) ==
    /\ At(r, "set", "reading")
    /\ call' = [call EXCEPT ![r].step = "done", ![r].seen = Row(r)]
    /\ UNCHANGED <<users, db>>

\* applyValue: findOne queries the row and refreshes the entity loaded before.
SetRead(r) ==
    /\ At(r, "set", "reading")
    /\ call' = [call EXCEPT ![r].step = "flushing", ![r].seen = Row(r)]
    /\ UNCHANGED <<users, db>>

(***************************************************************************)
(* MikroORM (external), as in AppConfig: an UPDATE of the row by its key,  *)
(* if its value differs from the one read; nothing for an entity that was  *)
(* created and not persisted.  The row may have gone with its owner.       *)
(***************************************************************************)
Dirty(c) == c.seen \notin {Missing, c.text}

\* Mutant: the value is assigned after flush.
FlushedBefore(c) == db

\* Mutant: an UPDATE that inserts.
FlushedUpsert(c) == IF Dirty(c) THEN [db EXCEPT ![c.user][c.var] = c.text] ELSE db

Flushed(c) ==
    IF Dirty(c) /\ db[c.user][c.var] # Missing
    THEN [db EXCEPT ![c.user][c.var] = c.text]
    ELSE db

SetCommit(r) ==
    /\ At(r, "set", "flushing")
    /\ db' = Flushed(call[r])
    /\ GoTo(r, "done")
    /\ UNCHANGED users

\* The change is broadcast to its owner and returned.
SetReturn(r) ==
    /\ At(r, "set", "done")
    /\ End(r)
    /\ UNCHANGED <<users, db>>

\* The flush is committed but its answer is lost with the database connection.
SetAnswerLost(r) ==
    /\ LostAnswers
    /\ At(r, "set", "flushing")
    /\ db' = Flushed(call[r])
    /\ End(r)
    /\ UNCHANGED users

\* A query fails, or checkVariable rejects a missing variable: the call rejects.
CallFail(r) ==
    /\ call[r] # Idle
    /\ call[r].step # "done"
    /\ End(r)
    /\ UNCHANGED <<users, db>>

-----------------------------------------------------------------------------
(* Environment *)

\* An administrator deletes a user; the foreign key removes his variables.
DeleteUser(u) ==
    /\ u \in users
    /\ users' = users \ {u}
    /\ db' = [db EXCEPT ![u] = NoRows]
    /\ UNCHANGED call

\* The process ends and is started again: only the table is left.
Crash ==
    /\ call' = [r \in Slots |-> Idle]
    /\ UNCHANGED <<users, db>>

-----------------------------------------------------------------------------
Init ==
    /\ users = Users
    /\ db \in [Users -> Tables]
    /\ call = [r \in Slots |-> Idle]

CallStep(r) ==
    \/ \E u \in Users :
          GetStart(r, u) \/ \E v \in Vars, text \in Text : SetStart(r, u, v, text)
    \/ GetRead(r) \/ GetReturn(r)
    \/ SetLoad(r) \/ SetReload(r) \/ SetRead(r) \/ SetCommit(r) \/ SetReturn(r)
    \/ SetAnswerLost(r) \/ CallFail(r)

Next ==
    \/ \E r \in Slots : CallStep(r)
    \/ \E u \in Users : DeleteUser(u)
    \/ Crash

Spec == Init /\ [][Next]_vars

-----------------------------------------------------------------------------
(* Properties *)

\* The table and the calls in flight have the shape the service assumes.
TypeOK ==
    /\ users \subseteq Users
    /\ db \in [Users -> Rows]
    /\ call \in [Slots -> {Idle} \cup GetCall \cup SetCall]

\* A set that no other set of the variable overlapped, on a variable that had a row
\* when it was read, is stored when its caller is answered, unless the owner is gone.
LoneSetIsStored ==
    \A r \in Slots :
        At(r, "set", "done") /\ call[r].alone /\ call[r].seen # Missing /\ call[r].user \in users
            => Row(r) = call[r].text

\* The variables of a deleted user do not come back, although a set of his that was
\* in flight goes on and others may follow: his tokens stay valid.
DeletedOwnsNothing == \A u \in Users \ users : db[u] = NoRows

(***************************************************************************)
(* The store the service implements.  A set takes effect when its flush    *)
(* commits, or when it reads the row if it will have nothing to write.     *)
(***************************************************************************)
Effective(c) == c.step = "done" \/ (c.step = "flushing" /\ ~Dirty(c))

Abstract(c) ==
    CASE c.kind = "idle" -> [kind |-> "idle"]
      [] c.kind = "get"  -> [kind |-> "get", user |-> c.user,
                             step |-> IF c.step = "done" THEN "done" ELSE "invoked",
                             result |-> c.rows]
      [] c.kind = "set"  -> [kind |-> "set", user |-> c.user, var |-> c.var,
                             text |-> c.text,
                             step |-> IF Effective(c) THEN "done" ELSE "invoked"]

Store == INSTANCE ConfigStore
         WITH value <- db, op <- [r \in Slots |-> Abstract(call[r])]

\* Gets and sets of a user's variables are atomic, however their queries interleave
\* with other calls, failures, restarts and the deletion of the user.
ImplementsStore == Store!Spec

(***************************************************************************)
(* A statement of a test that the code does not keep.                      *)
(***************************************************************************)

\* "[1] create new variable for user1": the first set of a variable stores it.
NewVariableIsStored ==
    \A r \in Slots :
        At(r, "set", "done") /\ call[r].alone /\ call[r].user \in users
            => Row(r) = call[r].text
=============================================================================
