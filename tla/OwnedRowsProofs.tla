-------------------------- MODULE OwnedRowsProofs --------------------------
(***************************************************************************)
(* Proofs about OwnedRows: rows and owners keep their shape, no row is     *)
(* without its owner and none is taken from him by another; and what       *)
(* UserAdminProofs proves of users and tokens still holds beside requests  *)
(* on rows.                                                                *)
(***************************************************************************)
EXTENDS OwnedRows, UserAdminProofs

-----------------------------------------------------------------------------
(* Requests on rows and users *)

userVars == <<call, users, last, token, edits, granted, renamed>>

\* A request on rows works on neither users nor tokens.
LEMMA RowRequestQuiet ==
    ASSUME NEW c \in Clients, RowRequest(c)
    PROVE  UNCHANGED userVars /\ answer' = NoAnswer
BY DEF RowRequest, InsertRow, DeleteRow, UpdateRow, DeleteAllRows, CreateTestData, DeleteTestData,
       Write, Violates, userVars

LEMMA RowRequestUsers ==
    ASSUME TypeOK, Safety, UNCHANGED userVars, answer' = NoAnswer
    PROVE  TypeOK' /\ Safety'
<1>1. TypeOK'
  BY NoAnswerType DEF TypeOK, Present, userVars
<1>2. Safety'
  BY DEF Safety, TokensGranted, TokensDescribeRows, NamesGranted, Checked, Worth, userVars
<1> QED
  BY <1>1, <1>2

\* A step is one of UserAdmin with what the foreign key does, a request on rows, or none.
LEMMA StepUsers == TypeOK /\ Safety /\ [OwnedNext]_allVars => TypeOK' /\ Safety'
<1> SUFFICES ASSUME TypeOK, Safety, [OwnedNext]_allVars
             PROVE  TypeOK' /\ Safety'
  OBVIOUS
<1>1. CASE Next \/ UNCHANGED vars
  <2>1. TypeOK'
    BY <1>1, StepType
  <2> QED
    BY <1>1, <2>1, StepSafety
<1>2. ASSUME NEW c \in Clients, RowRequest(c)
      PROVE  TypeOK' /\ Safety'
  BY <1>2, RowRequestQuiet, RowRequestUsers
<1> QED
  BY <1>1, <1>2 DEF OwnedNext, allVars

\* What UserAdminProofs shows of tokens and passwords holds of the composition.
THEOREM OwnedUsers == OwnedSpec => [](TypeOK /\ TokensDescribeRows /\ CheckedAccountIsChanged)
<1>1. OwnedInit => TypeOK /\ Safety
  BY InitType, InitSafety DEF OwnedInit
<1>2. (TypeOK /\ Safety) /\ [OwnedNext]_allVars => (TypeOK /\ Safety)'
  BY StepUsers
<1>3. TypeOK /\ Safety => TypeOK /\ TokensDescribeRows /\ CheckedAccountIsChanged
  BY DEF Safety, TokensGranted, Checked, CheckedAccountIsChanged
<1> QED
  BY <1>1, <1>2, <1>3, PTL DEF OwnedSpec

-----------------------------------------------------------------------------
(* Rows *)

RowsOK ==
    /\ owner \in [Rows -> Ids \cup {Absent}]
    /\ rowAnswer \in RowAnswers

\* Who a request may give rows to: the caller or the user named by the body, and only
\* while he is in the table; the rows it selects are the caller's or free.
Writes(c, op, rows, newOwner) ==
    /\ AdmitsRow(c) /\ op \in RowOperation
    /\ rows \subseteq Rows
    /\ rows # {} => newOwner \in Present \cup {Absent}
    /\ \A r \in rows : owner[r] = Absent \/ owner[r] = token[c].id \/ op = "deleteTestData"
    /\ Write(c, op, rows, newOwner)

\* Each request on rows writes, or is refused for a key.
LEMMA RowRequestWrites ==
    ASSUME TypeOK, RowsOK, OwnersExist, NEW c \in Clients, RowRequest(c)
    PROVE  \/ \E op \in RowOperation : AdmitsRow(c) /\ Violates(c, op)
           \/ \E op, rows, newOwner : Writes(c, op, rows, newOwner)
<1>1. ASSUME NEW r \in Rows, InsertRow(c, r)
      PROVE  \/ \E op \in RowOperation : AdmitsRow(c) /\ Violates(c, op)
             \/ Writes(c, "insert", {r}, token[c].id)
  BY <1>1 DEF InsertRow, Writes, RowOperation
<1>2. ASSUME NEW r \in Rows, DeleteRow(c, r)
      PROVE  Writes(c, "delete", Selected(c, {r}), Absent)
  BY <1>2 DEF DeleteRow, Writes, RowOperation, Selected, Mine, Write
<1>3. ASSUME NEW r \in Rows, NEW to \in Ids \cup {Keep}, UpdateRow(c, r, to)
      PROVE  \/ \E op \in RowOperation : AdmitsRow(c) /\ Violates(c, op)
             \/ \E newOwner : Writes(c, "update", Selected(c, {r}), newOwner)
  <2> DEFINE newOwner == IF to = Keep THEN token[c].id ELSE to
  <2>1. CASE Violates(c, "update")
    BY <1>3, <2>1 DEF UpdateRow, RowOperation
  <2>2. CASE Write(c, "update", Selected(c, {r}), newOwner)
             /\ (to = Keep \/ to \in Present \/ Selected(c, {r}) = {})
    <3>1. Selected(c, {r}) # {} => newOwner \in Present \cup {Absent}
      BY <2>2 DEF Selected, Mine, OwnersExist
    <3>2. Writes(c, "update", Selected(c, {r}), newOwner)
      BY <2>2, <3>1 DEF Writes, RowOperation, Selected, Mine, Write
    <3> QED
      BY <3>2
  <2> QED
    BY <1>3, <2>1, <2>2 DEF UpdateRow
<1>4. CASE DeleteAllRows(c)
  <2>1. Writes(c, "deleteAll", Selected(c, Rows), Absent)
    BY <1>4 DEF DeleteAllRows, Writes, RowOperation, Selected, Mine, Write
  <2> QED
    BY <2>1
<1>5. CASE CreateTestData(c)
  <2>1. \/ Violates(c, "createTestData") /\ AdmitsRow(c)
        \/ Writes(c, "createTestData", TestRows, token[c].id)
    BY <1>5, RowsAssumption DEF CreateTestData, Writes, RowOperation
  <2> QED
    BY <2>1 DEF RowOperation
<1>6. CASE DeleteTestData(c)
  <2>1. Writes(c, "deleteTestData", Rows, Absent)
    BY <1>6 DEF DeleteTestData, Writes, RowOperation, Write
  <2> QED
    BY <2>1
<1> QED
  BY <1>1, <1>2, <1>3, <1>4, <1>5, <1>6 DEF RowRequest

\* The answer to a request on rows names its caller.
LEMMA RowAnswerType ==
    ASSUME TypeOK, NEW c \in Clients, AdmitsRow(c), NEW op \in RowOperation,
           NEW status \in {"ok", "application", "error"}
    PROVE  /\ Answer(op, token[c].id, status) \in RowAnswers
           /\ Answer(op, token[c].id, status).op = op
           /\ Answer(op, token[c].id, status).by = token[c].id
           /\ Answer(op, token[c].id, status).op # "none"
<1>1. token[c].id \in Ids
  BY DEF AdmitsRow, TypeOK, Token
<1> QED
  BY <1>1 DEF Answer, RowAnswers, RowOperation

LEMMA WriteAnswer ==
    ASSUME TypeOK, RowsOK, NEW c \in Clients, NEW op, NEW rows, NEW newOwner,
           Writes(c, op, rows, newOwner)
    PROVE  /\ rowAnswer' \in RowAnswers
           /\ rowAnswer'.op = op /\ rowAnswer'.by = token[c].id /\ rowAnswer'.op # "none"
           /\ \/ owner' = owner
              \/ owner' = [r \in Rows |-> IF r \in rows THEN newOwner ELSE owner[r]]
<1>1. \E status \in {"ok", "application", "error"} : rowAnswer' = Answer(op, token[c].id, status)
  BY LostAssumption DEF Writes, Write, Failure
<1>2. AdmitsRow(c) /\ op \in RowOperation
  BY DEF Writes
<1>3. \/ owner' = owner
      \/ owner' = [r \in Rows |-> IF r \in rows THEN newOwner ELSE owner[r]]
  BY DEF Writes, Write
<1> QED
  BY <1>1, <1>2, <1>3, RowAnswerType

LEMMA ViolatesAnswer ==
    ASSUME TypeOK, RowsOK, NEW c \in Clients, NEW op \in RowOperation, AdmitsRow(c), Violates(c, op)
    PROVE  rowAnswer' \in RowAnswers /\ UNCHANGED owner
BY RowAnswerType DEF Violates

LEMMA StepRows ==
    ASSUME TypeOK, RowsOK, OwnersExist, TypeOK', [OwnedNext]_allVars
    PROVE  RowsOK' /\ OwnersExist'
<1>1. CASE Next /\ Cascade /\ rowAnswer' = NoAnswer
  BY <1>1 DEF Cascade, RowsOK, OwnersExist, RowAnswers, Present
<1>2. ASSUME NEW c \in Clients, RowRequest(c)
      PROVE  RowsOK' /\ OwnersExist'
  <2>1. Present' = Present
    BY <1>2, RowRequestQuiet DEF Present, userVars
  <2>2. ASSUME NEW op \in RowOperation, AdmitsRow(c), Violates(c, op)
        PROVE  RowsOK' /\ OwnersExist'
    BY <2>1, <2>2, ViolatesAnswer DEF RowsOK, OwnersExist
  <2>3. ASSUME NEW op, NEW rows, NEW newOwner, Writes(c, op, rows, newOwner)
        PROVE  RowsOK' /\ OwnersExist'
    <3>1. rowAnswer' \in RowAnswers
      BY <2>3, WriteAnswer
    <3>2. rows # {} => newOwner \in Present \cup {Absent}
      BY <2>3 DEF Writes
    <3>3. owner' \in [Rows -> Ids \cup {Absent}] /\ OwnersExist'
      BY <2>1, <2>3, <3>2, WriteAnswer DEF RowsOK, OwnersExist, Present
    <3> QED
      BY <3>1, <3>3 DEF RowsOK
  <2> QED
    BY <1>2, <2>2, <2>3, RowRequestWrites
<1>3. CASE UNCHANGED allVars
  BY <1>3 DEF allVars, rowVars, vars, RowsOK, OwnersExist, Present
<1> QED
  BY <1>1, <1>2, <1>3 DEF OwnedNext

OwnedInv == TypeOK /\ Safety /\ RowsOK /\ OwnersExist

LEMMA InitOwned == OwnedInit => OwnedInv
BY InitType, InitSafety, RowsAssumption DEF OwnedInit, OwnedInv, RowsOK, OwnersExist, RowAnswers

LEMMA StepOwned == OwnedInv /\ [OwnedNext]_allVars => OwnedInv'
<1> SUFFICES ASSUME OwnedInv, [OwnedNext]_allVars
             PROVE  OwnedInv'
  OBVIOUS
<1>1. TypeOK' /\ Safety'
  BY StepUsers DEF OwnedInv
<1> QED
  BY <1>1, StepRows DEF OwnedInv

\* Users, calls, rows and the answers on them keep their shape.
THEOREM OwnedTypeCorrect == OwnedSpec => []OwnedTypeOK
<1>1. OwnedInv => OwnedTypeOK
  BY DEF OwnedInv, OwnedTypeOK, RowsOK
<1> QED
  BY <1>1, InitOwned, StepOwned, PTL DEF OwnedSpec

\* No row is left without its owner.
THEOREM OwnersExistTheorem == OwnedSpec => []OwnersExist
<1>1. OwnedInv => OwnersExist
  BY DEF OwnedInv
<1> QED
  BY <1>1, InitOwned, StepOwned, PTL DEF OwnedSpec

LEMMA StepAlone ==
    ASSUME OwnedInv, OwnedNext, NEW r \in Rows, owner[r] # Absent, owner'[r] # owner[r]
    PROVE  \/ owner[r] \notin Present'
           \/ rowAnswer'.op = "deleteTestData"
           \/ rowAnswer'.op # "none" /\ rowAnswer'.by = owner[r]
<1>1. CASE Cascade
  BY <1>1 DEF Cascade
<1>2. ASSUME NEW c \in Clients, RowRequest(c)
      PROVE  \/ rowAnswer'.op = "deleteTestData"
             \/ rowAnswer'.op # "none" /\ rowAnswer'.by = owner[r]
  <2>1. PICK op, rows, newOwner : Writes(c, op, rows, newOwner)
    BY <1>2, RowRequestWrites, ViolatesAnswer DEF OwnedInv
  <2>2. rowAnswer'.op = op /\ rowAnswer'.by = token[c].id /\ rowAnswer'.op # "none"
    BY <2>1, WriteAnswer DEF OwnedInv
  <2>3. r \in rows
    BY <2>1, WriteAnswer DEF OwnedInv
  <2>4. owner[r] = token[c].id \/ op = "deleteTestData"
    BY <2>1, <2>3 DEF Writes
  <2> QED
    BY <2>2, <2>4
<1> QED
  BY <1>1, <1>2 DEF OwnedNext

\* A row is taken from its owner only by himself, with his own deletion, or when the test
\* data is deleted.
THEOREM OwnersAloneTheorem == OwnedSpec => OwnersAlone
<1>1. OwnedInv /\ [OwnedNext]_allVars =>
        [\A r \in Rows : owner[r] # Absent /\ owner'[r] # owner[r] =>
              \/ owner[r] \notin Present'
              \/ rowAnswer'.op = "deleteTestData"
              \/ rowAnswer'.op # "none" /\ rowAnswer'.by = owner[r]]_allVars
  BY StepAlone
<1> QED
  BY <1>1, InitOwned, StepOwned, PTL DEF OwnedSpec, OwnersAlone
=============================================================================
