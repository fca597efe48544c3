----------------------------- MODULE UserAdmin -----------------------------
(***************************************************************************)
(* The user table and the HTTP requests that work on it: login and renewal *)
(* of tokens (AuthController), administration (UserController over the     *)
(* CRUD layer) and change of password (ProfileAccountController).          *)
(*                                                                         *)
(* A request is answered in the step of its only query, unless something   *)
(* happens between its queries or after the last: login compares passwords *)
(* before it signs a token, delete reads the row it deletes, and a change  *)
(* of password checks one row and then writes one.                         *)
(***************************************************************************)
EXTENDS Naturals

CONSTANTS
    Clients,     \* each holds a token and makes one request at a time
    Names,       \* names of users
    Passwords,   \* passwords; "" is sent when a field is left empty
    Rights,      \* roles and active flag of a row
    InitUsers,   \* the table at first
    MaxId,       \* bounds the ids the table can assign
    Patches,     \* bodies of an update
    MaxEdits,    \* bounds the changes administrators make
    Lost,        \* {"error"} if the answer to a committed change may be lost, or {}
    Absent,      \* no row, no token
    Keep         \* a column an update leaves out

Role == {"admin", "user"}
Ids == 1 .. MaxId

(***************************************************************************)
(* bcrypt (external): the stored form is the hash of a password, or the    *)
(* password itself where it was stored as it came; comparing a password    *)
(* with the latter fails.                                                  *)
(***************************************************************************)
Stored == {"hash", "plain"} \X Passwords
Hash(p) == <<"hash", p>>
Plain(p) == <<"plain", p>>
Matches(p, stored) == stored = Hash(p)

Row == [name : Names, pwd : Stored, rights : Rights]

ASSUME RightsAssumption ==
    \A r \in Rights : r.roles \subseteq Role /\ r.active \in {"yes", "no"}
ASSUME IdAssumption == MaxId \in Nat /\ MaxEdits \in Nat
ASSUME KeepAssumption == Keep \notin Names /\ Keep \notin Passwords /\ Keep \notin Rights
ASSUME PatchAssumption ==
    Patches \subseteq [name : Names \cup {Keep}, pwd : Passwords \cup {Keep},
                       rights : Rights \cup {Keep}]
ASSUME LostAssumption == Lost \subseteq {"error"}
ASSUME AbsentAssumption == Absent \notin Row
ASSUME InitUsersAssumption ==
    /\ InitUsers \in [Ids -> Row \cup {Absent}]
    /\ \A i, j \in Ids : InitUsers[j] # Absent /\ i < j => InitUsers[i] # Absent
    /\ \A i, j \in Ids : InitUsers[i] # Absent /\ InitUsers[j] # Absent
                            /\ InitUsers[i].name = InitUsers[j].name => i = j

\* The content of a token: Auth as login read it.
Token == [id : Ids, name : Names, roles : SUBSET Role]

ASSUME NoTokenAssumption == Absent \notin Token

VARIABLES
    users,    \* app_user, by id
    last,     \* the last id assigned (auto-increment)
    token,    \* the token each client holds
    call,     \* the request each client has in flight, if it takes several steps
    answer,   \* the answer given in the last step, if it gave one
    edits,    \* changes made by administrators
    granted,  \* history: tokens that active rows have been worth
    renamed   \* history: a row has been given another name

vars == <<users, last, token, call, answer, edits, granted, renamed>>

Present == {i \in Ids : users[i] # Absent}
Named(n) == {i \in Present : users[i].name = n}

\* authFromUser, createJwtForLogin
TokenOf(i, row) == [id |-> i, name |-> row.name, roles |-> row.rights.roles]

Worth(table) ==
    {TokenOf(i, table[i]) : i \in {j \in Ids : table[j] # Absent /\ table[j].rights.active = "yes"}}

-----------------------------------------------------------------------------
(* Requests and answers *)

Idle == [op |-> "none"]

\* What a request keeps between its queries, or from its query to its answer.
LoginCall == [op : {"login"}, seen : Token]
DeleteCall == [op : {"delete"}, by : Ids, id : Ids, seen : Row \cup {Absent}]
PasswordCall == [op : {"password"}, by : Ids, new : Passwords, checked : Ids,
                 seen : Row \cup {Absent}]

(***************************************************************************)
(* GlobalExceptionFilter: 401 and 403 of guards, switches and a failed     *)
(* login; 520 ("application") for a unique or foreign key violation, a     *)
(* disabled user and a failed account test; 500 ("error") for the rest.    *)
(***************************************************************************)
Status == {"ok", "unauthorized", "forbidden", "application", "error"}
Refusal == {"unauthorized", "forbidden", "application"}

Operation == {"login", "renew", "insert", "update", "delete", "deleteAll", "password"}
NoAnswer == [op |-> "none"]
Answer(op, by, status) == [op |-> op, by |-> by, status |-> status]
Answers == {NoAnswer} \cup [op : Operation, by : Ids \cup {Absent}, status : Status]

Free(c) == call[c] = Idle
Begin(c, request) == call' = [call EXCEPT ![c] = request] /\ answer' = NoAnswer
End(c, status) ==
    /\ call' = [call EXCEPT ![c] = Idle]
    /\ answer' = Answer(call[c].op, IF call[c].op = "login" THEN call[c].seen.id ELSE call[c].by,
                        status)

Quiet == UNCHANGED <<users, last, token, edits, granted, renamed>>

\* A request answered in one step that changes nothing.
Reply(c, op, status) ==
    /\ Free(c)
    /\ answer' = Answer(op, IF token[c] = Absent THEN Absent ELSE token[c].id, status)
    /\ UNCHANGED call
    /\ Quiet

\* UserController is @Roles(Role.Admin); the other requests need a token only.
NeedsAdmin(op) == op \in {"insert", "update", "delete", "deleteAll"}

\* RolesGuard looks at the roles in the token; the table is not read.
HasRole(c, op) == NeedsAdmin(op) => "admin" \in token[c].roles

\* JwtAuthGuard, then RolesGuard.
Admits(c, op) == Free(c) /\ token[c] # Absent /\ HasRole(c, op)

Rejected(c, op) ==
    \/ op # "login" /\ token[c] = Absent /\ Reply(c, op, "unauthorized")
    \/ token[c] # Absent /\ ~HasRole(c, op) /\ Reply(c, op, "forbidden")

\* The first query of a request fails, or a later one does; renewal makes none.
QueryFails(c) ==
    \/ \E op \in Operation \ {"renew"} :
          (op = "login" \/ Admits(c, op)) /\ Reply(c, op, "error")
    \/ call[c].op \in {"delete", "password"} /\ End(c, "error") /\ Quiet

-----------------------------------------------------------------------------
(* Login and tokens *)

\* AuthService.validateUser with a password, on the row of that name.
Validated(row, password) ==
    IF password # "" /\ ~Matches(password, row.pwd) THEN "unauthorized"
    ELSE IF row.rights.active = "no" THEN "application"
    ELSE "ok"

\* Passport refuses an empty password before the strategy is asked.
Login(c, n, password) ==
    /\ Free(c)
    /\ password # ""
    /\ IF Named(n) = {} THEN Reply(c, "login", "unauthorized")
       ELSE \E i \in Named(n) :
               LET outcome == Validated(users[i], password) IN
               IF outcome = "ok"
               THEN Begin(c, [op |-> "login", seen |-> TokenOf(i, users[i])]) /\ Quiet
               ELSE Reply(c, "login", outcome)

\* Mutant: every token is signed for the role "user".
SignedForUsers(info) == [info EXCEPT !.roles = @ \cup {"user"}]

\* createJwtForLogin keeps the roles it knows.
Signed(info) == [info EXCEPT !.roles = @ \cap Role]

LoginReturn(c) ==
    /\ call[c].op = "login"
    /\ token' = [token EXCEPT ![c] = Signed(call[c].seen)]
    /\ End(c, "ok")
    /\ UNCHANGED <<users, last, edits, granted, renamed>>

\* POST /auth/renew signs what the token says, whatever has become of the user.
Renew(c) ==
    /\ Admits(c, "renew")
    /\ token' = [token EXCEPT ![c] = Signed(@)]
    /\ answer' = Answer("renew", token[c].id, "ok")
    /\ UNCHANGED <<users, last, call, edits, granted, renamed>>

\* The token expires, or the client drops it.
Expire(c) ==
    /\ Free(c)
    /\ token[c] # Absent
    /\ token' = [token EXCEPT ![c] = Absent]
    /\ answer' = NoAnswer
    /\ UNCHANGED <<users, last, call, edits, granted, renamed>>

-----------------------------------------------------------------------------
(* Administration: UserController, OrmCrudController, UserRepository *)

\* An administrator asks for a change.
Asks == edits < MaxEdits /\ edits' = edits + 1

\* What is committed of it.
Edit(table) ==
    /\ users' = table
    /\ renamed' = (renamed \/ \E i \in Ids : /\ users[i] # Absent
                                             /\ table[i] # Absent
                                             /\ users[i].name # table[i].name)
    /\ granted' = granted \cup Worth(table)
    /\ UNCHANGED token

\* The change is committed; its answer may be lost with the database connection.
EditReply(c, op, table, status) ==
    /\ Asks
    /\ Edit(table)
    /\ \E s \in {status} \cup Lost : answer' = Answer(op, token[c].id, s)
    /\ UNCHANGED call

\* The unique constraint on names.
NameFree(n, but) == Named(n) \subseteq but

\* UserRepository.insert
Hashed(row) == [row EXCEPT !.pwd = Hash(@)]

\* CrudEntityRepository.insert: the next id, whatever id was sent.
Inserted(row) == [users EXCEPT ![last + 1] = row]

\* Mutant: the rows are not unique by name.
InsertAnyName(c, row) ==
    /\ Admits(c, "insert")
    /\ last < MaxId
    /\ last' = last + 1
    /\ EditReply(c, "insert", Inserted(Hashed(row)), "ok")

\* POST /user hashes the password and inserts the row.
Insert(c, row) ==
    /\ Admits(c, "insert")
    /\ IF NameFree(row.name, {})
       THEN /\ last < MaxId
            /\ last' = last + 1
            /\ EditReply(c, "insert", Inserted(Hashed(row)), "ok")
       ELSE Reply(c, "insert", "application")

\* UserRepository.nativeUpdate: an empty password is taken out, another one hashed.
Patched(row, patch) ==
    [name   |-> IF patch.name = Keep THEN row.name ELSE patch.name,
     pwd    |-> IF patch.pwd \in {Keep, ""} THEN row.pwd ELSE Hash(patch.pwd),
     rights |-> IF patch.rights = Keep THEN row.rights ELSE patch.rights]

(***************************************************************************)
(* broadcast({user}, LogoutOnUserChange) after the commit: its target has  *)
(* no feature, and the lookup of the feature's bit throws.                 *)
(***************************************************************************)
BroadcastToUser == "error"

\* crudUpdate: a query on the id.
Updated(i, patch) == [users EXCEPT ![i] = Patched(@, patch)]

(***************************************************************************)
(* PUT /user/:id.  nativeUpdate returns the number of rows, which the      *)
(* controller takes for the entity: 0 is answered as it is, and anything   *)
(* else is broadcast to the user named `undefined`.                        *)
(***************************************************************************)
Update(c, i, patch) ==
    /\ Admits(c, "update")
    /\ IF users[i] = Absent THEN Reply(c, "update", "ok")
       ELSE IF patch.name # Keep /\ ~NameFree(patch.name, {i}) THEN Reply(c, "update", "application")
       ELSE /\ EditReply(c, "update", Updated(i, patch), BroadcastToUser)
            /\ UNCHANGED last

\* DELETE /user/:id reads the row, deletes it, and broadcasts to the name it read.
DeleteRead(c, i) ==
    /\ Admits(c, "delete")
    /\ Begin(c, [op |-> "delete", by |-> token[c].id, id |-> i, seen |-> users[i]])
    /\ Asks
    /\ UNCHANGED <<users, last, token, granted, renamed>>

Delete(c) ==
    /\ call[c].op = "delete"
    /\ IF users[call[c].id] = Absent THEN End(c, "ok") /\ Quiet
       ELSE /\ Edit([users EXCEPT ![call[c].id] = Absent])
            /\ \E s \in {IF call[c].seen = Absent THEN "ok" ELSE BroadcastToUser} \cup Lost : End(c, s)
            /\ UNCHANGED <<last, edits>>

\* DELETE /user: the handler calls the repository itself, past the operation switches.
DeleteAll(c) ==
    /\ Admits(c, "deleteAll")
    /\ EditReply(c, "deleteAll", [i \in Ids |-> Absent], "ok")
    /\ UNCHANGED last

-----------------------------------------------------------------------------
(* PUT /profile/account/password *)

\* Mutant: the password is stored before the account is tested.
PasswordCheckLate(c, current, new) ==
    /\ Admits(c, "password")
    /\ new # ""
    /\ users[token[c].id] # Absent
    /\ users' = [users EXCEPT ![token[c].id].pwd = Plain(new)]
    /\ \E i \in Present : answer' = Answer("password", token[c].id,
                                IF Validated(users[i], current) = "ok" THEN "ok" ELSE "application")
    /\ UNCHANGED <<last, token, call, edits, granted, renamed>>

(***************************************************************************)
(* validateUser takes the row by the name in the token; an empty current   *)
(* password is not compared.  Its query has loaded every row into the      *)
(* identity map of the request.                                            *)
(***************************************************************************)
PasswordCheck(c, current, new) ==
    /\ Admits(c, "password")
    /\ new # ""
    /\ IF Named(token[c].name) = {} THEN Reply(c, "password", "application")
       ELSE \E i \in Named(token[c].name) :
               IF Validated(users[i], current) # "ok" THEN Reply(c, "password", "application")
               ELSE /\ Begin(c, [op |-> "password", by |-> token[c].id, new |-> new, checked |-> i,
                                 seen |-> users[token[c].id]])
                    /\ Quiet

\* The entity update(me.id) works on: the one in the identity map, or a query.
Entity(r) == IF r.seen # Absent THEN r.seen ELSE users[r.by]

\* Mutant: flush writes every column of the entity.
FlushedRow(r) == [users EXCEPT ![r.by] = [Entity(r) EXCEPT !.pwd = Plain(r.new)]]

\* MikroORM (external): flush updates the columns that differ from what was loaded,
\* by key; the row may be gone.
Flushed(r) ==
    IF Entity(r).pwd # Plain(r.new) /\ users[r.by] # Absent
    THEN [users EXCEPT ![r.by].pwd = Plain(r.new)]
    ELSE users

\* Mutant: the promise of an update of a missing row is never settled.
PasswordFlushPresent(c) ==
    /\ call[c].op = "password"
    /\ Entity(call[c]) # Absent
    /\ users' = Flushed(call[c])
    /\ \E s \in {"ok"} \cup Lost : End(c, s)
    /\ UNCHANGED <<last, token, edits, granted, renamed>>

\* CrudEntityRepository.update: assign() throws if there is no such entity; the
\* password is stored as it came, for only insert and nativeUpdate hash it.
PasswordFlush(c) ==
    /\ call[c].op = "password"
    /\ IF Entity(call[c]) = Absent THEN End(c, "error") /\ UNCHANGED users
       ELSE users' = Flushed(call[c]) /\ \E s \in {"ok"} \cup Lost : End(c, s)
    /\ UNCHANGED <<last, token, edits, granted, renamed>>

-----------------------------------------------------------------------------
Init ==
    /\ users = InitUsers
    /\ \E n \in 0 .. MaxId : last = n /\ {i \in Ids : InitUsers[i] # Absent} = 1 .. n
    /\ token = [c \in Clients |-> Absent]
    /\ call = [c \in Clients |-> Idle]
    /\ answer = NoAnswer
    /\ edits = 0
    /\ granted = Worth(InitUsers)
    /\ renamed = FALSE

Sent == [name : Names, pwd : Passwords \ {""}, rights : Rights]

\* Steps that answer a call in flight.
Finish(c) == LoginReturn(c) \/ Delete(c) \/ PasswordFlush(c)

Request(c) ==
    \/ \E op \in Operation : Rejected(c, op)
    \/ \E n \in Names, p \in Passwords : Login(c, n, p)
    \/ Renew(c)
    \/ \E row \in Sent : Insert(c, row)
    \/ \E i \in Ids : DeleteRead(c, i) \/ \E patch \in Patches : Update(c, i, patch)
    \/ DeleteAll(c)
    \/ \E current, new \in Passwords : PasswordCheck(c, current, new)

Next == \E c \in Clients : Request(c) \/ Finish(c) \/ QueryFails(c) \/ Expire(c)

Spec == Init /\ [][Next]_vars

-----------------------------------------------------------------------------
(* Properties *)

\* The table, the tokens and the calls in flight have the shape the handlers assume;
\* ids are assigned in order and names are unique.
TypeOK ==
    /\ users \in [Ids -> Row \cup {Absent}]
    /\ last \in 0 .. MaxId
    /\ Present \subseteq 1 .. last
    /\ token \in [Clients -> Token \cup {Absent}]
    /\ call \in [Clients -> {Idle} \cup LoginCall \cup DeleteCall \cup PasswordCall]
    /\ answer \in Answers
    /\ edits \in 0 .. MaxEdits
    /\ granted \subseteq Token
    /\ renamed \in BOOLEAN
    /\ \A i, j \in Present : users[i].name = users[j].name => i = j

\* A request that is refused (401, 403, 520) has changed nothing.  Only a 500 leaves
\* its client in doubt.
RefusalsChangeNothing == [][answer'.op # "none" /\ answer'.status \in Refusal => users' = users]_vars

\* A token says what an active row of the table once said, through any chain of
\* logins and renewals and however the row was changed while the login was answered.
TokensDescribeRows == \A c \in Clients : token[c] # Absent => token[c] \in granted

\* Only administrators' changes alter which users exist, their names and rights: the
\* flush of a change of password, which works on a row loaded before, neither undoes
\* a change made since nor brings a deleted user back.
OnlyAdministratorsEdit ==
    [][answer'.op \notin {"insert", "update", "delete", "deleteAll"} => \A i \in Ids :
          \/ users'[i] = users[i]
          \/ users[i] # Absent /\ users'[i] = [users[i] EXCEPT !.pwd = users'[i].pwd]]_vars

\* The account whose password was checked is the one that is changed, although the
\* first is found by name and the second by id, unless a user has been renamed.
CheckedAccountIsChanged ==
    \A c \in Clients :
        call[c].op = "password" /\ users[call[c].by] # Absent /\ ~renamed
            => call[c].checked = call[c].by

(***************************************************************************)
(* A statement of a test that the code does not keep.                      *)
(***************************************************************************)

\* "[7] update test user", "[9] delete test user": a change that is committed is
\* answered with 200.
CommittedChangeIsConfirmed ==
    [][users' # users /\ answer'.op \in {"update", "delete"} => answer'.status = "ok"]_vars
=============================================================================
