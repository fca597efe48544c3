----------------------------- MODULE OwnedRows -----------------------------
(***************************************************************************)
(* UserAdmin composed with a table of rows that belong to users (Person,   *)
(* an OwnedByUserEntity) and the controller that gives each user his own   *)
(* rows (OrmCrudForCurrentUserController).                                 *)
(*                                                                         *)
(* The owner is a condition of the query (filter `owner`), not a check     *)
(* before it: each request is one query, and one step.  The foreign key    *)
(* removes the rows of a deleted user.                                     *)
(***************************************************************************)
EXTENDS UserAdmin

CONSTANTS
    Rows,        \* ids of rows
    TestRows     \* those the test data is made of

ASSUME RowsAssumption == TestRows \subseteq Rows

VARIABLES
    owner,       \* the owner of each row, or Absent
    rowAnswer    \* the answer of the last step, if it was a request on rows

rowVars == <<owner, rowAnswer>>
allVars == <<vars, rowVars>>

RowOperation == {"insert", "update", "delete", "deleteAll", "createTestData", "deleteTestData"}

RowAnswers == {NoAnswer} \cup [op : RowOperation, by : Ids, status : {"ok", "application", "error"}]

\* Every operation of PersonController requires the role Admin.
AdmitsRow(c) == Free(c) /\ token[c] # Absent /\ "admin" \in token[c].roles

\* @CrudOperationControl of PersonController, which the operation guard puts into the
\* request.
CrudOperations == {"getAll", "get", "insert", "update", "delete", "deleteAll"}

\* checkEnabledFeature, asked by the operations of the controller base.
Enabled(op) == op \in CrudOperations

Mine(c) == {r \in Rows : owner[r] = token[c].id}

\* Mutant: the options with the owner filter are not passed on to the query, as
\* UserRepository.nativeUpdate does not.
SelectedUnfiltered(c, rows) == {r \in rows : owner[r] # Absent}

\* optionsForCurrentUser, and the query with the filter of OwnedByUserEntity.
Selected(c, rows) == rows \cap Mine(c)

\* Names of rows are unique: a row written may be refused for its name.
Failure(op) == IF op \in {"insert", "update", "createTestData"} THEN {"error", "application"} ELSE {"error"}

\* A query over the rows, its answer perhaps lost after the commit, or failed.
Write(c, op, rows, newOwner) ==
    /\ AdmitsRow(c)
    /\ \/ /\ owner' = [r \in Rows |-> IF r \in rows THEN newOwner ELSE owner[r]]
          /\ \E s \in {"ok"} \cup Lost : rowAnswer' = Answer(op, token[c].id, s)
       \/ owner' = owner /\ \E s \in Failure(op) : rowAnswer' = Answer(op, token[c].id, s)
    /\ answer' = NoAnswer
    /\ UNCHANGED <<call, users, last, token, edits, granted, renamed>>

\* The foreign key: nothing is written.
Violates(c, op) ==
    /\ AdmitsRow(c)
    /\ rowAnswer' = Answer(op, token[c].id, "application")
    /\ answer' = NoAnswer
    /\ UNCHANGED <<owner, call, users, last, token, edits, granted, renamed>>

\* The caller is made the owner by reference; the token may outlive him.
InsertRow(c, r) ==
    /\ AdmitsRow(c) /\ Enabled("insert")
    /\ owner[r] = Absent
    /\ IF token[c].id \in Present THEN Write(c, "insert", {r}, token[c].id)
       ELSE Violates(c, "insert")

\* Mutant: a body without an owner is written as it is.
UpdateRowAsSent(c, r, to) == Write(c, "update", Selected(c, {r}), to)

\* The body may name another owner; Keep leaves him.
UpdateRow(c, r, to) ==
    /\ AdmitsRow(c) /\ Enabled("update")
    /\ IF to # Keep /\ to \notin Present /\ Selected(c, {r}) # {} THEN Violates(c, "update")
       ELSE Write(c, "update", Selected(c, {r}), IF to = Keep THEN token[c].id ELSE to)

DeleteRow(c, r) == Enabled("delete") /\ Write(c, "delete", Selected(c, {r}), Absent)

DeleteAllRows(c) == Enabled("deleteAll") /\ Write(c, "deleteAll", Selected(c, Rows), Absent)

\* POST /person/createTestData: one transaction, for the caller.
CreateTestData(c) ==
    /\ AdmitsRow(c)
    /\ IF token[c].id \in Present /\ \A r \in TestRows : owner[r] = Absent
       THEN Write(c, "createTestData", TestRows, token[c].id)
       ELSE Violates(c, "createTestData")

\* DELETE /person/deleteTestData empties the table, whoever calls.
DeleteTestData(c) == Write(c, "deleteTestData", Rows, Absent)

RowRequest(c) ==
    \/ \E r \in Rows : InsertRow(c, r) \/ DeleteRow(c, r)
                         \/ \E to \in Ids \cup {Keep} : UpdateRow(c, r, to)
    \/ DeleteAllRows(c)
    \/ CreateTestData(c) \/ DeleteTestData(c)

\* Mutant: the foreign key does not cascade.
CascadeNothing == owner' = owner

\* onDelete: 'cascade'
Cascade == owner' = [r \in Rows |-> IF owner[r] \in Present' THEN owner[r] ELSE Absent]

OwnedInit == Init /\ owner = [r \in Rows |-> Absent] /\ rowAnswer = NoAnswer

OwnedNext ==
    \/ Next /\ Cascade /\ rowAnswer' = NoAnswer
    \/ \E c \in Clients : RowRequest(c)

(***************************************************************************)
(* The database answers or fails every query, and the event loop runs      *)
(* every continuation.  Clients and the clock owe nothing.                 *)
(***************************************************************************)
Proceed(c) == Finish(c) /\ Cascade /\ rowAnswer' = NoAnswer

OwnedSpec == OwnedInit /\ [][OwnedNext]_allVars /\ \A c \in Clients : WF_allVars(Proceed(c))

-----------------------------------------------------------------------------
(* Properties *)

\* Users, calls, rows and the answers on them keep their shape.
OwnedTypeOK ==
    /\ TypeOK
    /\ owner \in [Rows -> Ids \cup {Absent}]
    /\ rowAnswer \in RowAnswers

\* No row is left without its owner: not by the deletion of one or of all users, and
\* not by an insert or a transfer made with a token that has outlived its user.
OwnersExist == \A r \in Rows : owner[r] \in Present \cup {Absent}

\* A row is taken from its owner only by himself, with his own deletion, or when the
\* test data is deleted.
OwnersAlone ==
    [][\A r \in Rows : owner[r] # Absent /\ owner'[r] # owner[r] =>
          \/ owner[r] \notin Present'
          \/ rowAnswer'.op = "deleteTestData"
          \/ rowAnswer'.op # "none" /\ rowAnswer'.by = owner[r]]_allVars

\* Every request is answered, also when the row it works on has gone between its
\* queries or a query fails.
EveryRequestAnswered == \A c \in Clients : ~Free(c) ~> Free(c)
=============================================================================
