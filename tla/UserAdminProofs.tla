-------------------------- MODULE UserAdminProofs --------------------------
(***************************************************************************)
(* Proofs about UserAdmin: its type invariant with the unique names, what  *)
(* a token says, whose password a change of password changes, what a       *)
(* refusal leaves alone, and who changes users.                            *)
(***************************************************************************)
EXTENDS UserAdmin, TLAPS

-----------------------------------------------------------------------------
(* Tables, tokens and calls *)

\* Names are unique in a table, and its ids have been assigned.
Unique(table) ==
    \A i, j \in Ids : table[i] # Absent /\ table[j] # Absent /\ table[i].name = table[j].name => i = j

Assigned(table, n) == \A i \in Ids : table[i] # Absent => i \in 1 .. n

\* The conjuncts of TypeOK about the table.
TableOK(table, n) ==
    /\ table \in [Ids -> Row \cup {Absent}]
    /\ n \in 0 .. MaxId
    /\ Assigned(table, n)
    /\ Unique(table)

\* The conjuncts of TypeOK about tokens and calls.
CallType == {Idle} \cup LoginCall \cup DeleteCall \cup PasswordCall

ClientsOK ==
    /\ token \in [Clients -> Token \cup {Absent}]
    /\ call \in [Clients -> CallType]

CountsOK == edits \in 0 .. MaxEdits /\ granted \subseteq Token /\ renamed \in BOOLEAN

LEMMA TypeParts == TypeOK <=> TableOK(users, last) /\ ClientsOK /\ answer \in Answers /\ CountsOK
BY DEF TypeOK, TableOK, Assigned, Unique, Present, ClientsOK, CountsOK, CallType

\* The operation of a call tells the fields it has.
LEMMA CallTells ==
    ASSUME ClientsOK, NEW c \in Clients
    PROVE  /\ call[c].op = "login" => call[c] \in LoginCall
           /\ call[c].op = "delete" => call[c] \in DeleteCall
           /\ call[c].op = "password" => call[c] \in PasswordCall
           /\ call[c].op = "none" => call[c] = Idle
           /\ call[c].op \in {"none", "login", "delete", "password"}
BY DEF ClientsOK, CallType, Idle, LoginCall, DeleteCall, PasswordCall

\* What a row is worth is a token.
LEMMA TokenOfRow ==
    ASSUME NEW i \in Ids, NEW row \in Row
    PROVE  TokenOf(i, row) \in Token
BY RightsAssumption DEF TokenOf, Token, Row

LEMMA WorthTokens ==
    ASSUME NEW table \in [Ids -> Row \cup {Absent}]
    PROVE  Worth(table) \subseteq Token
BY TokenOfRow DEF Worth

\* Signing keeps what a token says.
LEMMA SignedSame == \A t \in Token : Signed(t) = t
BY DEF Signed, Token

-----------------------------------------------------------------------------
(* Changes of the table *)

LEMMA InsertedOK ==
    ASSUME TableOK(users, last), NEW row \in Row, NameFree(row.name, {}), last < MaxId
    PROVE  TableOK(Inserted(row), last + 1)
<1>1. last + 1 \in Ids /\ users[last + 1] = Absent
  BY IdAssumption DEF TableOK, Assigned, Ids
<1>2. Assigned(Inserted(row), last + 1)
  BY IdAssumption, <1>1 DEF TableOK, Assigned, Ids, Inserted
<1>3. Unique(Inserted(row))
  BY <1>1 DEF TableOK, Unique, Inserted, NameFree, Named, Present
<1> QED
  BY IdAssumption, <1>1, <1>2, <1>3 DEF TableOK, Inserted, Ids

\* An update leaves a row, named as before or as the patch says.
LEMMA PatchedRow ==
    ASSUME NEW row \in Row, NEW patch \in Patches
    PROVE  /\ Patched(row, patch) \in Row
           /\ Patched(row, patch).name = IF patch.name = Keep THEN row.name ELSE patch.name
BY PatchAssumption, KeepAssumption DEF Patched, Row, Stored, Hash

LEMMA UpdatedOK ==
    ASSUME TableOK(users, last), NEW i \in Ids, users[i] # Absent, NEW patch \in Patches,
           patch.name = Keep \/ NameFree(patch.name, {i})
    PROVE  TableOK(Updated(i, patch), last)
<1>1. users[i] \in Row
  BY DEF TableOK
<1>2. Patched(users[i], patch) \in Row /\ Patched(users[i], patch) # Absent
  BY <1>1, PatchedRow, AbsentAssumption
<1>3. Updated(i, patch) = [users EXCEPT ![i] = Patched(users[i], patch)]
  BY DEF Updated
<1>4. Unique(Updated(i, patch))
  <2> SUFFICES ASSUME NEW j \in Ids, NEW k \in Ids, j # k,
                      Updated(i, patch)[j] # Absent, Updated(i, patch)[k] # Absent,
                      Updated(i, patch)[j].name = Updated(i, patch)[k].name
               PROVE  FALSE
    BY DEF Unique
  <2>1. \A o \in Ids \ {i} : users[o] # Absent => users[o].name # Patched(users[i], patch).name
    BY <1>1, PatchedRow DEF TableOK, Unique, NameFree, Named, Present
  <2> QED
    BY <1>3, <2>1 DEF TableOK, Unique
<1> QED
  BY <1>1, <1>2, <1>3, <1>4 DEF TableOK, Assigned

LEMMA RemovedOK ==
    ASSUME TableOK(users, last), NEW i \in Ids
    PROVE  TableOK([users EXCEPT ![i] = Absent], last)
BY DEF TableOK, Assigned, Unique

LEMMA EmptiedOK == TableOK(users, last) => TableOK([i \in Ids |-> Absent], last)
BY DEF TableOK, Assigned, Unique

\* Another password is another row of the same name and rights.
LEMMA RowWithPassword ==
    ASSUME NEW row \in Row, NEW p \in Passwords
    PROVE  /\ [row EXCEPT !.pwd = Plain(p)] \in Row
           /\ [row EXCEPT !.pwd = Plain(p)].name = row.name
           /\ [row EXCEPT !.pwd = Plain(p)].rights = row.rights
BY DEF Row, Stored, Plain

\* A flush changes nothing but a password: the same users are present, with the same
\* names and rights.
SameButPasswords(table) ==
    \A i \in Ids :
        \/ table[i] = users[i]
        \/ /\ users[i] \in Row /\ table[i] \in Row
           /\ table[i] = [users[i] EXCEPT !.pwd = table[i].pwd]
           /\ table[i].name = users[i].name /\ table[i].rights = users[i].rights

LEMMA FlushedSame ==
    ASSUME TableOK(users, last), NEW r \in PasswordCall
    PROVE  Flushed(r) \in [Ids -> Row \cup {Absent}] /\ SameButPasswords(Flushed(r))
<1>1. r.by \in Ids /\ r.new \in Passwords
  BY DEF PasswordCall
<1>2. CASE users[r.by] = Absent \/ Flushed(r) = users
  BY <1>2 DEF Flushed, TableOK, SameButPasswords
<1>3. CASE users[r.by] # Absent /\ Flushed(r) # users
  <2>1. users[r.by] \in Row
    BY <1>1, <1>3 DEF TableOK
  <2>2. Flushed(r) = [users EXCEPT ![r.by] = [users[r.by] EXCEPT !.pwd = Plain(r.new)]]
    BY <1>3 DEF Flushed
  <2>3. [users[r.by] EXCEPT !.pwd = Plain(r.new)].pwd = Plain(r.new)
    BY <2>1 DEF Row
  <2> QED
    BY <1>1, <2>1, <2>2, <2>3, RowWithPassword DEF TableOK, SameButPasswords
<1> QED
  BY <1>2, <1>3

LEMMA SameOK ==
    ASSUME TableOK(users, last), NEW table \in [Ids -> Row \cup {Absent}], SameButPasswords(table)
    PROVE  TableOK(table, last) /\ Worth(table) = Worth(users)
<1>1. \A i \in Ids : /\ table[i] = Absent <=> users[i] = Absent
                     /\ users[i] # Absent => /\ table[i].name = users[i].name
                                             /\ table[i].rights = users[i].rights
  BY AbsentAssumption DEF SameButPasswords
<1>2. TableOK(table, last)
  BY <1>1 DEF TableOK, Assigned, Unique
<1>3. \A i \in Ids : users[i] # Absent => TokenOf(i, table[i]) = TokenOf(i, users[i])
  BY <1>1 DEF TokenOf
<1> QED
  BY <1>1, <1>2, <1>3 DEF Worth

-----------------------------------------------------------------------------
(* Types *)

\* A row that is sent has its password hashed.
LEMMA HashedRow ==
    ASSUME NEW row \in Sent
    PROVE  Hashed(row) \in Row /\ Hashed(row).name = row.name
BY DEF Sent, Row, Stored, Hashed, Hash

LEMMA AnswerType ==
    ASSUME NEW op \in Operation, NEW by \in Ids \cup {Absent}, NEW status \in Status
    PROVE  Answer(op, by, status) \in Answers
BY DEF Answer, Answers

LEMMA NoAnswerType == NoAnswer \in Answers
BY DEF Answers

\* The id a client is answered with.
LEMMA TokenId ==
    ASSUME ClientsOK, NEW c \in Clients
    PROVE  (IF token[c] = Absent THEN Absent ELSE token[c].id) \in Ids \cup {Absent}
BY DEF ClientsOK, Token

LEMMA EndType ==
    ASSUME ClientsOK, NEW c \in Clients, call[c].op \in {"login", "delete", "password"},
           NEW status \in Status, End(c, status)
    PROVE  call' \in [Clients -> CallType] /\ answer' \in Answers
<1>1. call' \in [Clients -> CallType]
  BY DEF End, ClientsOK, CallType
<1>2. (IF call[c].op = "login" THEN call[c].seen.id ELSE call[c].by) \in Ids
  BY CallTells DEF LoginCall, DeleteCall, PasswordCall, Token
<1>3. call[c].op \in Operation
  BY DEF Operation
<1> QED
  BY <1>1, <1>2, <1>3, AnswerType DEF End

LEMMA BeginType ==
    ASSUME ClientsOK, NEW c \in Clients, NEW request \in CallType, Begin(c, request)
    PROVE  call' \in [Clients -> CallType] /\ answer' \in Answers
BY NoAnswerType DEF Begin, ClientsOK

LEMMA ReplyType ==
    ASSUME TypeOK, NEW c \in Clients, NEW op \in Operation, NEW status \in Status,
           Reply(c, op, status)
    PROVE  TypeOK'
<1>1. answer' \in Answers
  BY TypeParts, TokenId, AnswerType DEF Reply
<1> QED
  BY <1>1 DEF Reply, Quiet, TypeOK, Present

\* A step that answers or changes calls and leaves the table keeps the types.
LEMMA QuietType ==
    ASSUME TypeOK, Quiet, call' \in [Clients -> CallType], answer' \in Answers
    PROVE  TypeOK'
BY DEF TypeOK, Quiet, CallType, Present

\* What an edit writes besides the table.
LEMMA EditType ==
    ASSUME TypeOK, NEW table \in [Ids -> Row \cup {Absent}], Edit(table)
    PROVE  /\ granted' \subseteq Token /\ renamed' \in BOOLEAN
           /\ token' \in [Clients -> Token \cup {Absent}]
<1>1. Worth(table) \subseteq Token
  BY WorthTokens
<1> QED
  BY <1>1 DEF TypeOK, Edit

LEMMA AsksType == TypeOK /\ Asks => edits' \in 0 .. MaxEdits
BY IdAssumption DEF TypeOK, Asks

LEMMA EditReplyType ==
    ASSUME TypeOK, NEW c \in Clients, token[c] # Absent, NEW op \in Operation, NEW table,
           NEW n, TableOK(table, n), NEW status \in Status, EditReply(c, op, table, status),
           last' = n
    PROVE  TypeOK'
<1>1. token[c].id \in Ids
  BY DEF TypeOK, Token
<1>2. answer' \in Answers
  BY <1>1, AnswerType, LostAssumption DEF EditReply, Status
<1>3. /\ granted' \subseteq Token /\ renamed' \in BOOLEAN
      /\ token' \in [Clients -> Token \cup {Absent}]
  BY EditType DEF EditReply, TableOK
<1>4. users' = table /\ call' = call /\ edits' \in 0 .. MaxEdits
  BY AsksType DEF EditReply, Edit
<1>5. TableOK(users', last')
  BY <1>4
<1> QED
  BY <1>2, <1>3, <1>4, <1>5 DEF TypeOK, TableOK, Assigned, Unique, Present

LEMMA InitType == Init => TypeOK
<1> SUFFICES ASSUME Init
             PROVE  TypeOK
  OBVIOUS
<1>1. TableOK(users, last)
  BY InitUsersAssumption, IdAssumption DEF Init, TableOK, Assigned, Unique
<1>2. granted \subseteq Token
  BY WorthTokens, InitUsersAssumption DEF Init
<1>3. ClientsOK /\ answer \in Answers
  BY NoAnswerType DEF Init, ClientsOK, CallType
<1>4. edits \in 0 .. MaxEdits
  BY IdAssumption DEF Init
<1>5. renamed \in BOOLEAN
  BY DEF Init
<1> QED
  BY <1>1, <1>2, <1>3, <1>4, <1>5, TypeParts DEF CountsOK

\* Login answers at once, or keeps the token it has read.
LEMMA LoginType ==
    ASSUME TypeOK, NEW c \in Clients, NEW n \in Names, NEW p \in Passwords, Login(c, n, p)
    PROVE  TypeOK'
<1>1. ASSUME NEW status \in Status, Reply(c, "login", status)
      PROVE  TypeOK'
  BY <1>1, ReplyType DEF Operation
<1>2. ASSUME NEW i \in Named(n), Begin(c, [op |-> "login", seen |-> TokenOf(i, users[i])]), Quiet
      PROVE  TypeOK'
  <2>1. i \in Ids /\ users[i] \in Row
    BY <1>2 DEF TypeOK, Named, Present
  <2>2. [op |-> "login", seen |-> TokenOf(i, users[i])] \in CallType
    BY <2>1, TokenOfRow DEF CallType, LoginCall
  <2> QED
    BY <1>2, <2>2, TypeParts, BeginType, QuietType
<1>3. \A row : Validated(row, p) \in Status
  BY DEF Validated, Status
<1> QED
  BY <1>1, <1>2, <1>3 DEF Login, Status

LEMMA PasswordCheckType ==
    ASSUME TypeOK, NEW c \in Clients, NEW current \in Passwords, NEW new \in Passwords,
           PasswordCheck(c, current, new)
    PROVE  TypeOK'
<1>1. ASSUME Reply(c, "password", "application")
      PROVE  TypeOK'
  BY <1>1, ReplyType DEF Operation, Status
<1>2. ASSUME NEW i \in Named(token[c].name), Quiet,
             Begin(c, [op |-> "password", by |-> token[c].id, new |-> new, checked |-> i,
                       seen |-> users[token[c].id]])
      PROVE  TypeOK'
  <2>1. i \in Ids /\ token[c].id \in Ids /\ users[token[c].id] \in Row \cup {Absent}
    BY <1>2 DEF PasswordCheck, Admits, TypeOK, Named, Present, Token
  <2>2. [op |-> "password", by |-> token[c].id, new |-> new, checked |-> i,
         seen |-> users[token[c].id]] \in CallType
    BY <2>1 DEF CallType, PasswordCall
  <2> QED
    BY <1>2, <2>2, TypeParts, BeginType, QuietType
<1> QED
  BY <1>1, <1>2 DEF PasswordCheck

LEMMA DeleteType ==
    ASSUME TypeOK, NEW c \in Clients, Delete(c)
    PROVE  TypeOK'
<1>1. call[c] \in DeleteCall /\ call[c].op = "delete" /\ call[c].id \in Ids
  BY TypeParts, CallTells DEF Delete, DeleteCall
<1>2. CASE users[call[c].id] = Absent
  BY <1>1, <1>2, TypeParts, EndType, QuietType DEF Delete, Status
<1>3. ASSUME NEW status \in Status, End(c, status), users[call[c].id] # Absent,
             Edit([users EXCEPT ![call[c].id] = Absent]), UNCHANGED <<last, edits>>
      PROVE  TypeOK'
  <2> DEFINE table == [users EXCEPT ![call[c].id] = Absent]
  <2>1. TableOK(table, last) /\ users' = table /\ last' = last
    BY <1>1, <1>3, TypeParts, RemovedOK DEF Edit
  <2>2. TableOK(users', last')
    BY <2>1
  <2>3. call' \in [Clients -> CallType] /\ answer' \in Answers
    BY <1>1, <1>3, TypeParts, EndType
  <2>4. granted' \subseteq Token /\ renamed' \in BOOLEAN /\ token' \in [Clients -> Token \cup {Absent}]
    BY <1>3, <2>1, EditType DEF TableOK
  <2> QED
    BY <1>3, <2>2, <2>3, <2>4 DEF TypeOK, TableOK, Assigned, Unique, Present, CallType
<1> QED
  BY <1>1, <1>2, <1>3, LostAssumption DEF Delete, Status, BroadcastToUser

LEMMA PasswordFlushType ==
    ASSUME TypeOK, NEW c \in Clients, PasswordFlush(c)
    PROVE  TypeOK'
<1>1. call[c] \in PasswordCall /\ call[c].op = "password"
  BY TypeParts, CallTells DEF PasswordFlush
<1>2. PICK status \in Status : End(c, status)
  BY LostAssumption DEF PasswordFlush, Status
<1>3. call' \in [Clients -> CallType] /\ answer' \in Answers
  BY <1>1, <1>2, TypeParts, EndType
<1>4. TableOK(users, last) /\ TableOK(Flushed(call[c]), last)
  BY <1>1, TypeParts, FlushedSame, SameOK
<1>5. TableOK(users', last')
  BY <1>4 DEF PasswordFlush
<1> QED
  BY <1>3, <1>5 DEF PasswordFlush, TypeOK, TableOK, Assigned, Unique, Present, CallType

LEMMA StepType == TypeOK /\ [Next]_vars => TypeOK'
<1> SUFFICES ASSUME TypeOK, [Next]_vars
             PROVE  TypeOK'
  OBVIOUS
<1>1. ASSUME NEW c \in Clients, Request(c)
      PROVE  TypeOK'
  <2>1. ASSUME NEW op \in Operation, Rejected(c, op)
        PROVE  TypeOK'
    BY <2>1, ReplyType DEF Rejected, Status
  <2>2. ASSUME NEW n \in Names, NEW p \in Passwords, Login(c, n, p)
        PROVE  TypeOK'
    BY <2>2, LoginType
  <2>3. CASE Renew(c)
    <3>1. token[c] \in Token /\ token[c].id \in Ids
      BY <2>3 DEF Renew, Admits, TypeOK, Token
    <3>2. answer' \in Answers
      BY <2>3, <3>1, AnswerType DEF Renew, Operation, Status
    <3>3. token' = [token EXCEPT ![c] = token[c]]
      BY <2>3, <3>1, SignedSame DEF Renew
    <3> QED
      BY <2>3, <3>1, <3>2, <3>3 DEF Renew, TypeOK, Present
  <2>4. ASSUME NEW row \in Sent, Insert(c, row)
        PROVE  TypeOK'
    <3>1. CASE NameFree(row.name, {})
      <4>1. token[c] # Absent /\ last < MaxId /\ last' = last + 1
            /\ EditReply(c, "insert", Inserted(Hashed(row)), "ok")
        BY <2>4, <3>1 DEF Insert, Admits
      <4>2. TableOK(Inserted(Hashed(row)), last + 1)
        BY <3>1, <4>1, HashedRow, TypeParts, InsertedOK
      <4> QED
        BY <4>1, <4>2, EditReplyType DEF Operation, Status
    <3>2. CASE ~NameFree(row.name, {})
      BY <2>4, <3>2, ReplyType DEF Insert, Operation, Status
    <3> QED
      BY <3>1, <3>2
  <2>5. ASSUME NEW i \in Ids, DeleteRead(c, i)
        PROVE  TypeOK'
    <3>1. token[c].id \in Ids /\ users[i] \in Row \cup {Absent}
      BY <2>5 DEF DeleteRead, Admits, TypeOK, Token
    <3>2. [op |-> "delete", by |-> token[c].id, id |-> i, seen |-> users[i]] \in CallType
      BY <3>1 DEF CallType, DeleteCall
    <3>3. call' \in [Clients -> CallType] /\ answer' \in Answers
      BY <2>5, <3>2, TypeParts, BeginType DEF DeleteRead
    <3> QED
      BY <2>5, <3>3, AsksType DEF DeleteRead, TypeOK, Present, CallType
  <2>6. ASSUME NEW i \in Ids, NEW patch \in Patches, Update(c, i, patch)
        PROVE  TypeOK'
    <3>1. CASE users[i] # Absent /\ (patch.name = Keep \/ NameFree(patch.name, {i}))
      <4>1. token[c] # Absent /\ EditReply(c, "update", Updated(i, patch), "error") /\ last' = last
        BY <2>6, <3>1 DEF Update, Admits, BroadcastToUser
      <4>2. TableOK(Updated(i, patch), last)
        BY <3>1, TypeParts, UpdatedOK
      <4> QED
        BY <4>1, <4>2, EditReplyType DEF Operation, Status
    <3>2. CASE users[i] = Absent \/ (patch.name # Keep /\ ~NameFree(patch.name, {i}))
      BY <2>6, <3>2, ReplyType DEF Update, Operation, Status
    <3> QED
      BY <3>1, <3>2
  <2>7. CASE DeleteAll(c)
    <3>1. token[c] # Absent /\ EditReply(c, "deleteAll", [i \in Ids |-> Absent], "ok") /\ last' = last
      BY <2>7 DEF DeleteAll, Admits
    <3>2. TableOK([i \in Ids |-> Absent], last)
      BY TypeParts, EmptiedOK
    <3> QED
      BY <3>1, <3>2, EditReplyType DEF Operation, Status
  <2>8. ASSUME NEW current \in Passwords, NEW new \in Passwords, PasswordCheck(c, current, new)
        PROVE  TypeOK'
    BY <2>8, PasswordCheckType
  <2> QED
    BY <1>1, <2>1, <2>2, <2>3, <2>4, <2>5, <2>6, <2>7, <2>8 DEF Request
<1>2. ASSUME NEW c \in Clients, Finish(c)
      PROVE  TypeOK'
  <2>1. CASE LoginReturn(c)
    <3>1. call[c].op = "login" /\ call[c].seen \in Token
      BY <2>1, TypeParts, CallTells DEF LoginReturn, LoginCall
    <3>2. call' \in [Clients -> CallType] /\ answer' \in Answers
      BY <2>1, <3>1, TypeParts, EndType DEF LoginReturn, Status
    <3>3. token' \in [Clients -> Token \cup {Absent}]
      BY <2>1, <3>1, SignedSame DEF LoginReturn, TypeOK
    <3> QED
      BY <2>1, <3>2, <3>3 DEF LoginReturn, TypeOK, Present, CallType
  <2> QED
    BY <1>2, <2>1, DeleteType, PasswordFlushType DEF Finish
<1>3. ASSUME NEW c \in Clients, QueryFails(c)
      PROVE  TypeOK'
  <2>1. CASE call[c].op \in {"delete", "password"} /\ End(c, "error") /\ Quiet
    BY <2>1, TypeParts, EndType, QuietType DEF Status
  <2> QED
    BY <1>3, <2>1, ReplyType DEF QueryFails, Status
<1>4. ASSUME NEW c \in Clients, Expire(c)
      PROVE  TypeOK'
  BY <1>4, NoAnswerType DEF Expire, TypeOK, Present
<1>5. CASE UNCHANGED vars
  BY <1>5 DEF vars, TypeOK, Present
<1> QED
  BY <1>1, <1>2, <1>3, <1>4, <1>5 DEF Next

\* Users, tokens and calls keep their shape, and names stay unique, whatever overlaps.
THEOREM TypeCorrect == Spec => []TypeOK
<1>1. Init => TypeOK
  BY InitType
<1>2. TypeOK /\ [Next]_vars => TypeOK'
  BY StepType
<1> QED
  BY <1>1, <1>2, PTL DEF Spec

-----------------------------------------------------------------------------
(* What a step does *)

Administration == {"insert", "update", "delete", "deleteAll"}

\* A table in which no user has come back: ids are not used again.
Grows(table, n) ==
    /\ last <= n
    /\ \A i \in Ids : table[i] # Absent => users[i] # Absent \/ last < i

\* An edit that has been committed, and the answer to it.
Committed(table, n) ==
    /\ TableOK(table, n) /\ Grows(table, n)
    /\ Edit(table) /\ last' = n
    /\ answer'.op \in Administration /\ answer'.status \in {"ok", "error"}

LEMMA EditReplyCommits ==
    ASSUME TypeOK, NEW c \in Clients, NEW op \in Administration, NEW table, NEW n,
           NEW status \in {"ok", "error"}, EditReply(c, op, table, status), last' = n,
           TableOK(table, n), Grows(table, n)
    PROVE  Committed(table, n)
BY LostAssumption DEF EditReply, Committed, Answer

\* A step leaves the table alone, or is a committed edit, or a flush of a password.
LEMMA TableStep ==
    ASSUME TypeOK, [Next]_vars
    PROVE  \/ UNCHANGED <<users, last, granted, renamed>>
           \/ \E table, n : Committed(table, n)
           \/ \E c \in Clients : PasswordFlush(c)
<1>1. ASSUME NEW c \in Clients, NEW row \in Sent, Insert(c, row), NameFree(row.name, {})
      PROVE  \E table, n : Committed(table, n)
  <2>1. last < MaxId /\ last' = last + 1 /\ EditReply(c, "insert", Inserted(Hashed(row)), "ok")
    BY <1>1 DEF Insert
  <2>2. TableOK(Inserted(Hashed(row)), last + 1)
    BY <1>1, <2>1, HashedRow, TypeParts, InsertedOK
  <2>3. Grows(Inserted(Hashed(row)), last + 1)
    BY IdAssumption DEF TypeOK, Grows, Inserted, Ids
  <2> QED
    BY <2>1, <2>2, <2>3, EditReplyCommits DEF Administration
<1>2. ASSUME NEW c \in Clients, NEW i \in Ids, NEW patch \in Patches, Update(c, i, patch),
             users[i] # Absent, patch.name = Keep \/ NameFree(patch.name, {i})
      PROVE  \E table, n : Committed(table, n)
  <2>1. last' = last /\ EditReply(c, "update", Updated(i, patch), "error")
    BY <1>2 DEF Update, BroadcastToUser
  <2>2. TableOK(Updated(i, patch), last)
    BY <1>2, TypeParts, UpdatedOK
  <2>3. Grows(Updated(i, patch), last)
    BY <1>2, IdAssumption DEF TypeOK, Grows, Updated
  <2> QED
    BY <2>1, <2>2, <2>3, EditReplyCommits DEF Administration
<1>3. ASSUME NEW c \in Clients, DeleteAll(c)
      PROVE  \E table, n : Committed(table, n)
  <2>1. last' = last /\ EditReply(c, "deleteAll", [i \in Ids |-> Absent], "ok")
    BY <1>3 DEF DeleteAll
  <2>2. TableOK([i \in Ids |-> Absent], last)
    BY TypeParts, EmptiedOK
  <2>3. Grows([i \in Ids |-> Absent], last)
    BY IdAssumption DEF TypeOK, Grows
  <2> QED
    BY <2>1, <2>2, <2>3, EditReplyCommits DEF Administration
<1>4. ASSUME NEW c \in Clients, Delete(c), users[call[c].id] # Absent
      PROVE  \E table, n : Committed(table, n)
  <2> DEFINE table == [users EXCEPT ![call[c].id] = Absent]
  <2>1. call[c].id \in Ids /\ call[c].op = "delete"
    BY <1>4, TypeParts, CallTells DEF Delete, DeleteCall
  <2>2. TableOK(table, last)
    BY <2>1, TypeParts, RemovedOK
  <2>3. Grows(table, last)
    BY <2>1, IdAssumption DEF TypeOK, Grows
  <2>4. Edit(table) /\ last' = last
    BY <1>4 DEF Delete
  <2>5. answer'.op = "delete" /\ answer'.status \in {"ok", "error"}
    BY <1>4, <2>1, LostAssumption DEF Delete, End, Answer, BroadcastToUser
  <2> QED
    BY <2>2, <2>3, <2>4, <2>5 DEF Committed, Administration
<1>5. ASSUME NEW c \in Clients, Request(c)
      PROVE  UNCHANGED <<users, last, granted, renamed>> \/ \E table, n : Committed(table, n)
  <2>1. ASSUME NEW op \in Operation, Rejected(c, op)
        PROVE  UNCHANGED <<users, last, granted, renamed>>
    BY <2>1 DEF Rejected, Reply, Quiet
  <2>2. ASSUME NEW n \in Names, NEW p \in Passwords, Login(c, n, p)
        PROVE  UNCHANGED <<users, last, granted, renamed>>
    BY <2>2 DEF Login, Reply, Quiet
  <2>3. ASSUME NEW row \in Sent, Insert(c, row), ~NameFree(row.name, {})
        PROVE  UNCHANGED <<users, last, granted, renamed>>
    BY <2>3 DEF Insert, Reply, Quiet
  <2>4. ASSUME NEW i \in Ids, NEW patch \in Patches, Update(c, i, patch),
               users[i] = Absent \/ (patch.name # Keep /\ ~NameFree(patch.name, {i}))
        PROVE  UNCHANGED <<users, last, granted, renamed>>
    BY <2>4 DEF Update, Reply, Quiet
  <2>5. ASSUME NEW current \in Passwords, NEW new \in Passwords, PasswordCheck(c, current, new)
        PROVE  UNCHANGED <<users, last, granted, renamed>>
    BY <2>5 DEF PasswordCheck, Reply, Quiet
  <2> QED
    BY <1>1, <1>2, <1>3, <1>5, <2>1, <2>2, <2>3, <2>4, <2>5 DEF Request, Renew, DeleteRead
<1>6. ASSUME NEW c \in Clients, Finish(c)
      PROVE  \/ UNCHANGED <<users, last, granted, renamed>>
             \/ \E table, n : Committed(table, n)
             \/ PasswordFlush(c)
  BY <1>4, <1>6 DEF Finish, LoginReturn, Delete, Quiet
<1>7. ASSUME NEW c \in Clients, QueryFails(c) \/ Expire(c)
      PROVE  UNCHANGED <<users, last, granted, renamed>>
  BY <1>7 DEF QueryFails, Expire, Reply, Quiet
<1> QED
  BY <1>5, <1>6, <1>7 DEF Next, vars

\* A client's token stays, goes, or is the one its login has read.
LEMMA TokenStep ==
    ASSUME TypeOK, [Next]_vars, NEW d \in Clients
    PROVE  \/ token'[d] \in {token[d], Absent}
           \/ call[d].op = "login" /\ token'[d] = call[d].seen
<1>1. ASSUME NEW c \in Clients, Request(c)
      PROVE  token'[d] = token[d]
  <2>1. CASE Renew(c)
    <3>1. Signed(token[c]) = token[c]
      BY <2>1, SignedSame DEF Renew, Admits, TypeOK
    <3> QED
      BY <2>1, <3>1 DEF Renew, TypeOK
  <2>2. ASSUME NEW n \in Names, NEW p \in Passwords, Login(c, n, p)
        PROVE  token'[d] = token[d]
    BY <2>2 DEF Login, Reply, Quiet
  <2>3. ASSUME NEW current \in Passwords, NEW new \in Passwords, PasswordCheck(c, current, new)
        PROVE  token'[d] = token[d]
    BY <2>3 DEF PasswordCheck, Reply, Quiet
  <2>4. ASSUME NEW row \in Sent, Insert(c, row)
        PROVE  token'[d] = token[d]
    BY <2>4 DEF Insert, Reply, Quiet, EditReply, Edit
  <2>5. ASSUME NEW i \in Ids, NEW patch \in Patches, Update(c, i, patch)
        PROVE  token'[d] = token[d]
    BY <2>5 DEF Update, Reply, Quiet, EditReply, Edit
  <2> QED
    BY <1>1, <2>1, <2>2, <2>3, <2>4, <2>5
    DEF Request, Rejected, Reply, Quiet, DeleteRead, DeleteAll, EditReply, Edit
<1>2. ASSUME NEW c \in Clients, LoginReturn(c)
      PROVE  token'[d] = token[d] \/ (call[d].op = "login" /\ token'[d] = call[d].seen)
  <2>1. call[c].op = "login" /\ Signed(call[c].seen) = call[c].seen
    BY <1>2, TypeParts, CallTells, SignedSame DEF LoginReturn, LoginCall
  <2> QED
    BY <1>2, <2>1 DEF LoginReturn, TypeOK
<1>3. ASSUME NEW c \in Clients, Delete(c) \/ PasswordFlush(c) \/ QueryFails(c)
      PROVE  token'[d] = token[d]
  BY <1>3 DEF Delete, PasswordFlush, QueryFails, Reply, Quiet, Edit
<1>4. ASSUME NEW c \in Clients, Expire(c)
      PROVE  token'[d] \in {token[d], Absent}
  BY <1>4 DEF Expire, TypeOK
<1> QED
  BY <1>1, <1>2, <1>3, <1>4 DEF Next, Finish, vars

\* A request that takes several steps starts from what its first query has read.
Started(c, request) ==
    \/ request.op = "login" /\ request.seen \in Worth(users)
    \/ request.op = "delete"
    \/ /\ request.op = "password"
       /\ token[c] # Absent
       /\ request.by = token[c].id
       /\ request.checked \in Named(token[c].name)

\* It replaces the call of one client, and the table is left alone.
Begins(d) == Started(d, call'[d]) /\ UNCHANGED <<users, last, renamed>>

LEMMA BeginStarts ==
    ASSUME TypeOK, NEW c \in Clients, NEW request, Begin(c, request), Started(c, request),
           UNCHANGED <<users, last, renamed>>, NEW d \in Clients
    PROVE  call'[d] = call[d] \/ Begins(d)
<1>1. CASE d = c
  <2>1. call'[d] = request
    BY <1>1 DEF Begin, TypeOK
  <2> QED
    BY <1>1, <2>1 DEF Begins
<1>2. CASE d # c
  BY <1>2 DEF Begin, TypeOK
<1> QED
  BY <1>1, <1>2

\* A client's call stays, ends or starts.
LEMMA CallStep ==
    ASSUME TypeOK, [Next]_vars, NEW d \in Clients
    PROVE  call'[d] = call[d] \/ call'[d] = Idle \/ Begins(d)
<1>1. ASSUME NEW c \in Clients, NEW n \in Names, NEW p \in Passwords, Login(c, n, p)
      PROVE  call'[d] = call[d] \/ Begins(d)
  <2>1. ASSUME NEW i \in Named(n), Validated(users[i], p) = "ok", Quiet,
               Begin(c, [op |-> "login", seen |-> TokenOf(i, users[i])])
        PROVE  call'[d] = call[d] \/ Begins(d)
    <3>1. i \in Ids /\ users[i] # Absent /\ users[i].rights.active = "yes"
      BY <2>1, RightsAssumption DEF Named, Present, Validated, TypeOK, Row
    <3>2. TokenOf(i, users[i]) \in Worth(users)
      BY <3>1 DEF Worth
    <3>3. Started(c, [op |-> "login", seen |-> TokenOf(i, users[i])])
      BY <3>2 DEF Started
    <3> QED
      BY <2>1, <3>3, BeginStarts DEF Quiet
  <2>2. CASE Named(n) # {}
    <3>1. PICK i \in Named(n) :
             LET outcome == Validated(users[i], p) IN
             IF outcome = "ok"
             THEN Begin(c, [op |-> "login", seen |-> TokenOf(i, users[i])]) /\ Quiet
             ELSE Reply(c, "login", outcome)
      BY <1>1, <2>2 DEF Login
    <3>2. CASE Validated(users[i], p) = "ok"
      BY <3>1, <3>2, <2>1
    <3>3. CASE Validated(users[i], p) # "ok"
      BY <3>1, <3>3 DEF Reply
    <3> QED
      BY <3>2, <3>3
  <2>3. CASE Named(n) = {}
    BY <1>1, <2>3 DEF Login, Reply
  <2> QED
    BY <2>2, <2>3
<1>2. ASSUME NEW c \in Clients, NEW i \in Ids, DeleteRead(c, i)
      PROVE  call'[d] = call[d] \/ Begins(d)
  <2>1. Started(c, [op |-> "delete", by |-> token[c].id, id |-> i, seen |-> users[i]])
    BY DEF Started
  <2> QED
    BY <1>2, <2>1, BeginStarts DEF DeleteRead
<1>3. ASSUME NEW c \in Clients, NEW current \in Passwords, NEW new \in Passwords,
             PasswordCheck(c, current, new)
      PROVE  call'[d] = call[d] \/ Begins(d)
  <2>1. ASSUME NEW i \in Named(token[c].name), Quiet,
               Begin(c, [op |-> "password", by |-> token[c].id, new |-> new, checked |-> i,
                         seen |-> users[token[c].id]])
        PROVE  call'[d] = call[d] \/ Begins(d)
    <3>1. Started(c, [op |-> "password", by |-> token[c].id, new |-> new, checked |-> i,
                      seen |-> users[token[c].id]])
      BY <1>3, <2>1 DEF Started, PasswordCheck, Admits
    <3> QED
      BY <2>1, <3>1, BeginStarts DEF Quiet
  <2>2. CASE UNCHANGED call
    BY <2>2
  <2>3. UNCHANGED call \/ \E i \in Named(token[c].name) :
             Quiet /\ Begin(c, [op |-> "password", by |-> token[c].id, new |-> new, checked |-> i,
                               seen |-> users[token[c].id]])
    BY <1>3 DEF PasswordCheck, Reply
  <2> QED
    BY <2>1, <2>2, <2>3
<1>4. ASSUME NEW c \in Clients, Request(c)
      PROVE  call'[d] = call[d] \/ Begins(d)
  BY <1>1, <1>2, <1>3, <1>4
  DEF Request, Rejected, Reply, Renew, Insert, Update, DeleteAll, EditReply
<1>5. ASSUME NEW c \in Clients, Finish(c) \/ QueryFails(c) \/ Expire(c)
      PROVE  call'[d] = call[d] \/ call'[d] = Idle
  BY <1>5 DEF Finish, LoginReturn, Delete, PasswordFlush, QueryFails, Expire, End, Reply, TypeOK
<1> QED
  BY <1>4, <1>5 DEF Next, vars

-----------------------------------------------------------------------------
(* Tokens *)

\* The history holds what active rows are worth, and with them every token a client
\* holds or is being given.
TokensGranted ==
    /\ Worth(users) \subseteq granted
    /\ TokensDescribeRows
    /\ \A c \in Clients : call[c].op = "login" => call[c].seen \in granted

LEMMA InitTokens == Init => TokensGranted
BY DEF Init, TokensGranted, TokensDescribeRows, Idle

LEMMA FlushKeepsUsers ==
    ASSUME TypeOK, NEW c \in Clients, PasswordFlush(c)
    PROVE  /\ SameButPasswords(users') /\ users' \in [Ids -> Row \cup {Absent}]
           /\ Worth(users') = Worth(users)
           /\ UNCHANGED <<last, granted, renamed>>
<1>1. call[c] \in PasswordCall
  BY TypeParts, CallTells DEF PasswordFlush
<1>2. CASE users' = users
  BY <1>2 DEF PasswordFlush, SameButPasswords, TypeOK, Worth
<1>3. CASE users' = Flushed(call[c])
  <2>1. Flushed(call[c]) \in [Ids -> Row \cup {Absent}] /\ SameButPasswords(Flushed(call[c]))
    BY <1>1, TypeParts, FlushedSame
  <2>2. Worth(Flushed(call[c])) = Worth(users)
    BY <2>1, TypeParts, SameOK
  <2>3. /\ SameButPasswords(users') /\ users' \in [Ids -> Row \cup {Absent}]
        /\ Worth(users') = Worth(users)
    BY ONLY <1>3, <2>1, <2>2
  <2> QED
    BY <2>3 DEF PasswordFlush
<1> QED
  BY <1>2, <1>3 DEF PasswordFlush

LEMMA StepTokens == TypeOK /\ TokensGranted /\ [Next]_vars => TokensGranted'
<1> SUFFICES ASSUME TypeOK, TokensGranted, [Next]_vars
             PROVE  TokensGranted'
  OBVIOUS
<1>1. granted \subseteq granted' /\ Worth(users') \subseteq granted'
  <2>1. CASE UNCHANGED <<users, last, granted, renamed>>
    BY <2>1 DEF TokensGranted
  <2>2. ASSUME NEW table, NEW n, Committed(table, n)
        PROVE  granted \subseteq granted' /\ Worth(users') \subseteq granted'
    BY <2>2 DEF Committed, Edit
  <2>3. ASSUME NEW c \in Clients, PasswordFlush(c)
        PROVE  granted \subseteq granted' /\ Worth(users') \subseteq granted'
    BY <2>3, FlushKeepsUsers DEF TokensGranted
  <2> QED
    BY <2>1, <2>2, <2>3, TableStep
<1>2. ASSUME NEW d \in Clients, token'[d] # Absent
      PROVE  token'[d] \in granted'
  BY <1>1, <1>2, TokenStep DEF TokensGranted, TokensDescribeRows
<1>3. ASSUME NEW d \in Clients, call'[d].op = "login"
      PROVE  call'[d].seen \in granted'
  BY <1>1, <1>3, CallStep DEF TokensGranted, Begins, Started, Idle
<1> QED
  BY <1>1, <1>2, <1>3 DEF TokensGranted, TokensDescribeRows

\* A token says what an active row of the table once said, through logins, renewals and
\* changes of the row.
THEOREM TokensTheorem == Spec => []TokensDescribeRows
<1>1. Init => TypeOK /\ TokensGranted
  BY InitType, InitTokens
<1>2. (TypeOK /\ TokensGranted) /\ [Next]_vars => (TypeOK /\ TokensGranted)'
  BY StepType, StepTokens
<1>3. TypeOK /\ TokensGranted => TokensDescribeRows
  BY DEF TokensGranted
<1> QED
  BY <1>1, <1>2, <1>3, PTL DEF Spec

-----------------------------------------------------------------------------
(* Names *)

\* Ids of tokens have been assigned; while nobody has been renamed, a row that is still
\* there has the name of every token it was worth.
NamesGranted ==
    /\ \A t \in granted : t.id <= last
    /\ ~renamed => \A t \in granted : users[t.id] # Absent => users[t.id].name = t.name

\* The account a change of password has checked is the one it will change; who has gone
\* by then does not come back.
Checked(c) ==
    call[c].op = "password" =>
        /\ call[c].by <= last
        /\ ~renamed /\ users[call[c].by] # Absent => call[c].checked = call[c].by

Safety == TokensGranted /\ NamesGranted /\ \A c \in Clients : Checked(c)

\* The tokens of a table name its rows.
LEMMA WorthNames ==
    ASSUME NEW table, NEW n, TableOK(table, n), NEW t \in Worth(table)
    PROVE  t.id \in Ids /\ t.id <= n /\ table[t.id] # Absent /\ table[t.id].name = t.name
BY IdAssumption DEF Worth, TokenOf, TableOK, Assigned, Ids

LEMMA InitSafety == Init => Safety
<1> SUFFICES ASSUME Init
             PROVE  Safety
  OBVIOUS
<1>1. TableOK(users, last)
  BY InitType, TypeParts
<1>2. NamesGranted
  BY <1>1, WorthNames DEF Init, NamesGranted
<1> QED
  BY <1>2, InitTokens DEF Safety, Init, Checked, Idle

\* A step keeps names unless it renames, and brings nobody back.
LEMMA UsersStep ==
    ASSUME TypeOK, [Next]_vars
    PROVE  /\ last <= last'
           /\ renamed => renamed'
           /\ \A i \in Ids : i <= last /\ users'[i] # Absent =>
                 users[i] # Absent /\ (~renamed' => users'[i].name = users[i].name)
           /\ granted' = granted \/ granted' = granted \cup Worth(users')
<1>1. CASE UNCHANGED <<users, last, granted, renamed>>
  BY <1>1 DEF TypeOK
<1>2. ASSUME NEW table, NEW n, Committed(table, n)
      PROVE  /\ last <= last'
             /\ renamed => renamed'
             /\ \A i \in Ids : i <= last /\ users'[i] # Absent =>
                   users[i] # Absent /\ (~renamed' => users'[i].name = users[i].name)
             /\ granted' = granted \cup Worth(users')
  <2>1. users' = table /\ last' = n /\ last <= n
    BY <1>2 DEF Committed, Edit, Grows
  <2>2. ASSUME NEW i \in Ids, i <= last, table[i] # Absent
        PROVE  users[i] # Absent
    BY <1>2, <2>2, IdAssumption DEF Committed, Grows, TypeOK, Ids
  <2>3. ASSUME NEW i \in Ids, i <= last, table[i] # Absent, ~renamed'
        PROVE  table[i].name = users[i].name
    BY <1>2, <2>2, <2>3 DEF Committed, Edit
  <2>4. (renamed => renamed') /\ granted' = granted \cup Worth(table)
    BY <1>2 DEF Committed, Edit
  <2> QED
    BY <2>1, <2>2, <2>3, <2>4
<1>3. ASSUME NEW c \in Clients, PasswordFlush(c)
      PROVE  /\ UNCHANGED <<last, granted, renamed>>
             /\ \A i \in Ids : users'[i] # Absent =>
                   users[i] # Absent /\ users'[i].name = users[i].name
  BY <1>3, FlushKeepsUsers, AbsentAssumption DEF SameButPasswords
<1> QED
  BY <1>1, <1>2, <1>3, TableStep DEF TypeOK

LEMMA StepNames == TypeOK /\ TypeOK' /\ NamesGranted /\ [Next]_vars => NamesGranted'
<1> SUFFICES ASSUME TypeOK, TypeOK', NamesGranted, [Next]_vars
             PROVE  NamesGranted'
  OBVIOUS
<1>1. ASSUME NEW t \in granted
      PROVE  /\ t.id <= last'
             /\ ~renamed' /\ users'[t.id] # Absent => users'[t.id].name = t.name
  <2>1. t.id \in Ids /\ t.id <= last /\ last <= last'
    BY UsersStep DEF TypeOK, Token, NamesGranted
  <2>2. t.id <= last'
    BY <2>1, IdAssumption DEF TypeOK, Ids
  <2>3. ASSUME ~renamed', users'[t.id] # Absent
        PROVE  users'[t.id].name = t.name
    BY <2>1, <2>3, UsersStep DEF NamesGranted
  <2> QED
    BY <2>2, <2>3
<1>2. TableOK(users', last')
  BY DEF TypeOK, TableOK, Assigned, Unique, Present
<1>3. ASSUME NEW t \in Worth(users')
      PROVE  t.id <= last' /\ users'[t.id].name = t.name
  BY <1>2, <1>3, WorthNames
<1> QED
  BY <1>1, <1>3, UsersStep DEF NamesGranted

LEMMA StepChecked ==
    ASSUME TypeOK, Safety, [Next]_vars, NEW d \in Clients
    PROVE  Checked(d)'
<1>1. CASE call'[d] = call[d] /\ call[d].op = "password"
  <2>1. call[d].by \in Ids /\ call[d].by <= last
    BY <1>1, TypeParts, CallTells DEF Safety, Checked, PasswordCall
  <2>2. call[d].by <= last'
    BY <2>1, UsersStep, StepType, IdAssumption DEF TypeOK, Ids
  <2>3. ASSUME ~renamed', users'[call[d].by] # Absent
        PROVE  call[d].checked = call[d].by
    BY <1>1, <2>1, <2>3, UsersStep DEF Safety, Checked
  <2> QED
    BY <1>1, <2>2, <2>3 DEF Checked
<1>2. CASE call'[d].op # "password"
  BY <1>2 DEF Checked
<1>3. CASE Begins(d) /\ call'[d].op = "password"
  <2>1. /\ token[d] \in granted /\ call'[d].by = token[d].id
        /\ call'[d].checked \in Named(token[d].name)
    BY <1>3 DEF Begins, Started, Safety, TokensGranted, TokensDescribeRows
  <2>2. token[d].id \in Ids /\ token[d].id <= last
    BY <2>1 DEF Safety, NamesGranted, TypeOK, Token
  <2>3. ASSUME ~renamed, users[token[d].id] # Absent
        PROVE  call'[d].checked = token[d].id
    BY <2>1, <2>2, <2>3 DEF Safety, NamesGranted, Named, Present, TypeOK
  <2> QED
    BY <1>3, <2>1, <2>2, <2>3 DEF Begins, Checked
<1> QED
  BY <1>1, <1>2, <1>3, CallStep DEF Idle

LEMMA StepSafety == TypeOK /\ TypeOK' /\ Safety /\ [Next]_vars => Safety'
BY StepTokens, StepNames, StepChecked DEF Safety

\* The account whose password was checked is the one that is changed, unless a user has
\* been renamed.
THEOREM CheckedTheorem == Spec => []CheckedAccountIsChanged
<1>1. Init => TypeOK /\ Safety
  BY InitType, InitSafety
<1>2. (TypeOK /\ Safety) /\ [Next]_vars => (TypeOK /\ Safety)'
  BY StepType, StepSafety
<1>3. TypeOK /\ Safety => CheckedAccountIsChanged
  BY DEF Safety, Checked, CheckedAccountIsChanged
<1> QED
  BY <1>1, <1>2, <1>3, PTL DEF Spec

-----------------------------------------------------------------------------
(* Answers *)

LEMMA StepRefusals ==
    TypeOK /\ [Next]_vars =>
        (answer'.op # "none" /\ answer'.status \in Refusal => users' = users) \/ UNCHANGED vars
<1> SUFFICES ASSUME TypeOK, [Next]_vars, answer'.status \in Refusal
             PROVE  users' = users \/ UNCHANGED vars
  OBVIOUS
<1>1. ASSUME NEW table, NEW n, Committed(table, n)
      PROVE  FALSE
  BY <1>1 DEF Committed, Refusal
<1>2. ASSUME NEW c \in Clients, PasswordFlush(c)
      PROVE  FALSE
  BY <1>2, LostAssumption DEF PasswordFlush, End, Answer, Refusal
<1> QED
  BY <1>1, <1>2, TableStep

\* A request that is refused has changed nothing.
THEOREM RefusalsTheorem == Spec => RefusalsChangeNothing
<1>1. TypeOK /\ [Next]_vars =>
        [answer'.op # "none" /\ answer'.status \in Refusal => users' = users]_vars
  BY StepRefusals DEF vars
<1> QED
  BY <1>1, TypeCorrect, PTL DEF Spec, RefusalsChangeNothing

LEMMA StepEdits ==
    ASSUME TypeOK, [Next]_vars, answer'.op \notin Administration, NEW i \in Ids
    PROVE  \/ users'[i] = users[i]
           \/ users[i] # Absent /\ users'[i] = [users[i] EXCEPT !.pwd = users'[i].pwd]
<1>1. ASSUME NEW table, NEW n, Committed(table, n)
      PROVE  FALSE
  BY <1>1 DEF Committed
<1>2. ASSUME NEW c \in Clients, PasswordFlush(c)
      PROVE  \/ users'[i] = users[i]
             \/ users[i] # Absent /\ users'[i] = [users[i] EXCEPT !.pwd = users'[i].pwd]
  BY <1>2, FlushKeepsUsers, AbsentAssumption DEF SameButPasswords
<1> QED
  BY <1>1, <1>2, TableStep

\* Only administrators' changes alter which users exist, their names and rights.
THEOREM OnlyAdministratorsTheorem == Spec => OnlyAdministratorsEdit
<1>1. TypeOK /\ [Next]_vars =>
        [answer'.op \notin {"insert", "update", "delete", "deleteAll"} => \A i \in Ids :
            \/ users'[i] = users[i]
            \/ users[i] # Absent /\ users'[i] = [users[i] EXCEPT !.pwd = users'[i].pwd]]_vars
  BY StepEdits DEF vars, Administration
<1> QED
  BY <1>1, TypeCorrect, PTL DEF Spec, OnlyAdministratorsEdit
=============================================================================
