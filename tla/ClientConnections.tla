------------------------- MODULE ClientConnections -------------------------
(***************************************************************************)
(* The WebSocket side of the server: AppGateway's message handlers, the    *)
(* ClientConnectionService they call, the WsConnectionGuard in front of    *)
(* them, and the socket.io rooms they maintain.                            *)
(*                                                                         *)
(* The process is a single Node.js event loop, so the code between two     *)
(* awaits is one step.  The only await that matters to this state is the   *)
(* user lookup in validateAuthAndApplyToConnection: Auth starts it,        *)
(* ReadUser is the moment the database evaluates the query, and            *)
(* ValidateReturn is the continuation.  Anything can happen in between,    *)
(* and two lookups can return in either order.                             *)
(*                                                                         *)
(* socket.io never reuses a socket id, so a socket lives once: "fresh",    *)
(* then "open" (it has an entry in the `connections` Map), then "gone".    *)
(* auth, roles, token and features are the fields of its ClientConnection  *)
(* object; a pending continuation keeps that object alive and still        *)
(* writes to it after the entry was deleted from the Map.                  *)
(***************************************************************************)
EXTENDS Features, Naturals

CONSTANTS
    Sockets,        \* socket ids
    Requests,       \* slots for Auth handlers in flight; bounds their number
    Subscribable,   \* features the clients of this instance ask for
    UserRows,       \* contents a row of the user table can have
    MaxUserEdits    \* bounds the changes made to the user table

UserRow == [state : {"active", "inactive", "deleted"}, roles : SUBSET Role]

ASSUME SubscribableAssumption == Subscribable \subseteq Feature
ASSUME UserRowsAssumption == UserRows \subseteq UserRow
ASSUME MaxUserEditsAssumption == MaxUserEdits \in Nat

VARIABLES
    phase,           \* life cycle of each socket id
    auth,            \* conn.auth
    roles,           \* conn.roles
    token,           \* conn.tokenInfo
    features,        \* conn.activeFeatures
    activeFeatures,  \* the service-wide collector _activeFeatures
    rooms,           \* socket.io: the rooms each socket is in
    announced,       \* content of the last notifyData* call for a connection
    pending,         \* Auth handlers in flight
    userTable,       \* the user table, as validateUser reads it
    userEdits        \* number of changes made to it

connVars == <<phase, auth, roles, token, features>>
vars == <<connVars, activeFeatures, rooms, announced, pending, userTable, userEdits>>

-----------------------------------------------------------------------------
(* Data *)

Auth == [name : MaybeUser, roles : SUBSET Role]
NoAuth == [name |-> NoUser, roles |-> {}]

(***************************************************************************)
(* tokenInfo.  "lapsed" is the token whose expiration has passed while     *)
(* its `valid` flag is still true: nobody has looked since.                *)
(***************************************************************************)
TokenInfo == [state : {"none", "invalid", "valid", "lapsed"}, user : MaybeUser]
NoToken == [state |-> "none", user |-> NoUser]

(***************************************************************************)
(* An Auth handler in flight.  "reading" waits for the database; later the *)
(* record holds what validateUser produced: an Auth, null or a throw.      *)
(***************************************************************************)
Lookup == [id : Requests, socket : Sockets, user : Users,
           step : {"reading", "found", "missing", "failed"}, roles : SUBSET Role]

FreeSlots == Requests \ {p.id : p \in pending}

Open == {s \in Sockets : phase[s] = "open"}

(***************************************************************************)
(* convertSensitiveData: what the client monitor is told of a connection.  *)
(* Of tokenInfo it is told the `valid` flag, not whether the clock has     *)
(* passed the expiration.                                                  *)
(***************************************************************************)
TokenDto == [state : {"none", "invalid", "valid"}, user : MaybeUser]

Dto == [auth : Auth, roles : SUBSET Role, features : SUBSET Feature, token : TokenDto]

TokenSent(t) == [t EXCEPT !.state = IF @ = "lapsed" THEN "valid" ELSE @]

Converted(s) ==
    [auth |-> auth[s], roles |-> roles[s], features |-> features[s],
     token |-> TokenSent(token[s])]

\* Mutant: the notification is built before the fields are written.
AnnounceBefore(s) == announced' = [announced EXCEPT ![s] = {Converted(s)}]

Announce(s) == announced' = [announced EXCEPT ![s] = {Converted(s)'}]

AnnounceRemoved(s) == announced' = [announced EXCEPT ![s] = {}]

-----------------------------------------------------------------------------
(* The collector of active features *)

(***************************************************************************)
(* `this.activeFeatures` read as an rvalue: the class declares the setter  *)
(* but its getter is commented out, so the read yields undefined, which    *)
(* the bit operators take for 0.                                           *)
(***************************************************************************)
ReadActiveFeatures == {}

\* `this.activeFeatures |= conn.activeFeatures`
MergeActiveFeatures(s) == activeFeatures' = ReadActiveFeatures \cup features'[s]

\* The union of the features of a set of connections.
Interest(S) == UNION {features[s] : s \in S}

\* Mutants: the collector is not reset first; it is computed before the change.
CalculateAccumulating == activeFeatures' = activeFeatures \cup Interest(Open)'
CalculateTooEarly == activeFeatures' = Interest(Open)

CalculateActiveFeatures == activeFeatures' = Interest(Open)'

WithFeature(bits, f) == bits \cup {f}

\* Mutant: `features & featureValue`, the complement forgotten.
WithoutFeatureMask(bits, f) == bits \cap {f}

WithoutFeature(bits, f) == bits \ {f}

-----------------------------------------------------------------------------
(* socket.io (external): a socket that was disconnected has left its rooms *)
(* and its join() is a no-op from then on.                                 *)


Join(s, room) ==
    rooms' = [rooms EXCEPT ![s] = IF phase[s] = "open" THEN @ \cup {room} ELSE @]

Leave(s, room) == rooms' = [rooms EXCEPT ![s] = @ \ {room}]

LeaveAll(s) == rooms' = [rooms EXCEPT ![s] = {}]

-----------------------------------------------------------------------------
(* Connection and disconnection *)

\* ClientConnectionService.add
AddConnection(s) ==
    /\ phase' = [phase EXCEPT ![s] = "open"]
    /\ features' = [features EXCEPT ![s] = {}]
    /\ roles' = [roles EXCEPT ![s] = {}]
    /\ UNCHANGED <<auth, token>>
    /\ Announce(s)

\* handleConnection
Connect(s) ==
    /\ phase[s] = "fresh"
    /\ AddConnection(s)
    /\ UNCHANGED <<activeFeatures, rooms, pending, userTable, userEdits>>

Disconnect(s) ==
    /\ phase[s] = "open"
    /\ phase' = [phase EXCEPT ![s] = "gone"]
    /\ UNCHANGED <<auth, roles, token, features>>
    /\ LeaveAll(s)
    /\ CalculateActiveFeatures
    /\ AnnounceRemoved(s)
    /\ UNCHANGED <<pending, userTable, userEdits>>

-----------------------------------------------------------------------------
(* handleAuth / validateAuthAndApplyToConnection *)

\* jwtService.verify accepts the token; the user lookup is started.
AuthStart(s, u) ==
    /\ phase[s] = "open"
    /\ token' = [token EXCEPT ![s] = [state |-> "valid", user |-> u]]
    /\ \E r \in FreeSlots :
          pending' = pending \cup
            {[id |-> r, socket |-> s, user |-> u, step |-> "reading", roles |-> {}]}
    /\ UNCHANGED <<phase, auth, roles, features, activeFeatures, rooms, announced,
                   userTable, userEdits>>

\* The catch branch; the roles of an earlier authentication are kept.
RejectToken(s, u) ==
    /\ token' = [token EXCEPT ![s] = [state |-> "invalid", user |-> u]]
    /\ auth' = [auth EXCEPT ![s] = NoAuth]
    /\ UNCHANGED <<phase, roles, features>>
    /\ Announce(s)

\* jwtService.verify throws (expired or malformed token): there is no await.
AuthBadToken(s, u) ==
    /\ phase[s] = "open"
    /\ RejectToken(s, u)
    /\ UNCHANGED <<activeFeatures, rooms, pending, userTable, userEdits>>

\* What AuthService.validateUser(u) produces without a password.
ValidateUser(u) ==
    CASE userTable[u].state = "active"   -> "found"
      [] userTable[u].state = "inactive" -> "failed"  \* UserDisabledException
      [] userTable[u].state = "deleted"  -> "missing" \* null

Answered(p, outcome) ==
    [p EXCEPT !.step = outcome,
              !.roles = IF outcome = "found" THEN userTable[p.user].roles ELSE {}]

\* Mutant: the query is answered and stays open.
ReadUserTwice(p) ==
    /\ p.step = "reading"
    /\ \E outcome \in {ValidateUser(p.user), "failed"} :
          pending' = pending \cup {Answered(p, outcome)}
    /\ UNCHANGED <<connVars, activeFeatures, rooms, announced, userTable, userEdits>>

\* The database answers the query of lookup p, or the query itself fails.
ReadUser(p) ==
    /\ p.step = "reading"
    /\ \E outcome \in {ValidateUser(p.user), "failed"} :
          pending' = (pending \ {p}) \cup {Answered(p, outcome)}
    /\ UNCHANGED <<connVars, activeFeatures, rooms, announced, userTable, userEdits>>

\* Mutant: the role bits are computed at the first authentication only.
SetRolesOnce(s, rs) == roles' = [roles EXCEPT ![s] = IF @ = {} THEN rs ELSE @]

SetRoles(s, rs) == roles' = [roles EXCEPT ![s] = rs]

\* Mutant: after the await the user is taken from the connection's current token.
JoinTokenRoom(p) == Join(p.socket, UserRoom(token[p.socket].user))

JoinUserRoom(p) == Join(p.socket, UserRoom(p.user))

ReturnFound(p) ==
    /\ p.step = "found"
    /\ auth' = [auth EXCEPT ![p.socket] = [name |-> p.user, roles |-> p.roles]]
    /\ SetRoles(p.socket, p.roles)
    /\ UNCHANGED <<phase, token, features>>
    /\ Announce(p.socket)
    /\ JoinUserRoom(p)

ReturnMissing(p) ==
    /\ p.step = "missing"
    /\ auth' = [auth EXCEPT ![p.socket] = NoAuth]
    /\ UNCHANGED <<phase, roles, token, features>>
    /\ Announce(p.socket)
    /\ UNCHANGED rooms

ReturnFailed(p) ==
    /\ p.step = "failed"
    /\ RejectToken(p.socket, p.user)
    /\ UNCHANGED rooms

\* Mutant: the continuation gives up when the socket has closed.
ValidateReturnIfOpen(p) ==
    /\ phase[p.socket] = "open"
    /\ ReturnFound(p) \/ ReturnMissing(p) \/ ReturnFailed(p)
    /\ pending' = pending \ {p}
    /\ UNCHANGED <<activeFeatures, userTable, userEdits>>

\* The continuation after `await validateUser`, up to the answer to the client.
ValidateReturn(p) ==
    /\ ReturnFound(p) \/ ReturnMissing(p) \/ ReturnFailed(p)
    /\ pending' = pending \ {p}
    /\ UNCHANGED <<activeFeatures, userTable, userEdits>>

-----------------------------------------------------------------------------
(* WsConnectionGuard and the handlers it protects *)

GuardAdmits(s) == phase[s] = "open" /\ token[s].state = "valid"

\* Any guarded message on a lapsed token: the guard clears `valid` and throws.
GuardFindsLapsed(s) ==
    /\ phase[s] = "open"
    /\ token[s].state = "lapsed"
    /\ token' = [token EXCEPT ![s].state = "invalid"]
    /\ UNCHANGED <<phase, auth, roles, features, activeFeatures, rooms, announced,
                   pending, userTable, userEdits>>

(***************************************************************************)
(* handleLogout calls ClientConnectionService.logout only: no room is left *)
(* (AppGateway.logout, which would leave one, has no caller).  Whatever    *)
(* was subscribed before, APP_CONFIG is what remains.                      *)
(***************************************************************************)
Logout(s) ==
    /\ GuardAdmits(s)
    /\ auth' = [auth EXCEPT ![s] = NoAuth]
    /\ token' = [token EXCEPT ![s] = NoToken]
    /\ features' = [features EXCEPT ![s] = {"APP_CONFIG"}]
    /\ roles' = [roles EXCEPT ![s] = {}]
    /\ UNCHANGED phase
    /\ CalculateActiveFeatures
    /\ Announce(s)
    /\ UNCHANGED <<rooms, pending, userTable, userEdits>>

-----------------------------------------------------------------------------
(* Feature subscription; @UseRequestContext leaves AddFeature unguarded    *)
(* and RemoveFeature is @NoAuth                                            *)

\* checkFeatureInitialDataAuthorization does not throw.
FeatureAdmitted(s, f) ==
    \/ f = "APP_CONFIG"
    \/ auth[s] = NoAuth      \* returns false, and the caller ignores it
    \/ InitialDataRoles(f) \cap (auth[s].roles \cup {"all"}) # {}

\* Mutant: the user is taken from the token, which may not have been looked up yet.
JoinFeatureRoomOfToken(s, f) == Join(s, FeatureRoom(f, token[s].user))

JoinFeatureRoom(s, f) == Join(s, FeatureRoom(f, auth[s].name))

AddFeature(s, f) ==
    /\ phase[s] = "open"
    /\ FeatureAdmitted(s, f)
    /\ JoinFeatureRoom(s, f)
    /\ features' = [features EXCEPT ![s] = WithFeature(@, f)]
    /\ UNCHANGED <<phase, auth, roles, token>>
    /\ MergeActiveFeatures(s)
    /\ Announce(s)
    /\ UNCHANGED <<pending, userTable, userEdits>>

\* ClientConnectionService.removeFeature
DropFeature(s, f) ==
    /\ features' = [features EXCEPT ![s] = WithoutFeature(@, f)]
    /\ UNCHANGED <<phase, auth, roles, token>>
    /\ CalculateActiveFeatures
    /\ Announce(s)

\* handleRemoveFeature: the room left is computed from whoever is authenticated now.
RemoveFeature(s, f) ==
    /\ phase[s] = "open"
    /\ Leave(s, FeatureRoom(f, auth[s].name))
    /\ DropFeature(s, f)
    /\ UNCHANGED <<pending, userTable, userEdits>>

-----------------------------------------------------------------------------
(* Environment *)

\* The wall clock passes the expiration of the token.
TokenLapses(s) ==
    /\ phase[s] = "open"      \* nobody looks at the token of a deleted connection
    /\ token[s].state = "valid"
    /\ token' = [token EXCEPT ![s].state = "lapsed"]
    /\ UNCHANGED <<phase, auth, roles, features, activeFeatures, rooms, announced,
                   pending, userTable, userEdits>>

\* An administrator changes, disables or deletes a user.
EditUser(u, row) ==
    /\ userEdits < MaxUserEdits
    /\ userTable[u] # row
    /\ userTable' = [userTable EXCEPT ![u] = row]
    /\ userEdits' = userEdits + 1
    /\ UNCHANGED <<connVars, activeFeatures, rooms, announced, pending>>

-----------------------------------------------------------------------------
Init ==
    /\ phase = [s \in Sockets |-> "fresh"]
    /\ auth = [s \in Sockets |-> NoAuth]
    /\ roles = [s \in Sockets |-> {}]
    /\ token = [s \in Sockets |-> NoToken]
    /\ features = [s \in Sockets |-> {}]
    /\ activeFeatures = {}
    /\ rooms = [s \in Sockets |-> {}]
    /\ announced = [s \in Sockets |-> {}]
    /\ pending = {}
    /\ userTable \in [Users -> UserRows]
    /\ userEdits = 0

SocketStep(s) ==
    \/ Connect(s) \/ Disconnect(s)
    \/ \E u \in Users : AuthStart(s, u) \/ AuthBadToken(s, u)
    \/ GuardFindsLapsed(s) \/ Logout(s)
    \/ \E f \in Subscribable : AddFeature(s, f) \/ RemoveFeature(s, f)
    \/ TokenLapses(s)

LookupStep == \E p \in pending : ReadUser(p) \/ ValidateReturn(p)

Next ==
    \/ \E s \in Sockets : SocketStep(s)
    \/ LookupStep
    \/ \E u \in Users, row \in UserRows : EditUser(u, row)

(***************************************************************************)
(* The database answers every query or fails it, and the event loop runs   *)
(* every continuation.  Clients and administrators owe nothing.            *)
(***************************************************************************)
Fairness ==
    \A r \in Requests :
        WF_vars(\E p \in pending : p.id = r /\ (ReadUser(p) \/ ValidateReturn(p)))

Spec == Init /\ [][Next]_vars /\ Fairness

-----------------------------------------------------------------------------
(* Properties *)

\* The collector, the rooms and the lookups in flight have the shape the handlers
\* assume; a lookup occupies its slot alone.
TypeOK ==
    /\ phase \in [Sockets -> {"fresh", "open", "gone"}]
    /\ auth \in [Sockets -> Auth]
    /\ roles \in [Sockets -> SUBSET Role]
    /\ token \in [Sockets -> TokenInfo]
    /\ features \in [Sockets -> SUBSET Feature]
    /\ activeFeatures \in SUBSET Feature
    /\ rooms \in [Sockets -> SUBSET Room]
    /\ announced \in [Sockets -> SUBSET Dto]
    /\ pending \in SUBSET Lookup
    /\ \A p, q \in pending : p.id = q.id => p = q
    /\ userTable \in [Users -> UserRow]
    /\ userEdits \in Nat

\* conn.roles, the bits the guard tests, are those of the user the connection is
\* authenticated as, whatever lookups, logouts and re-authentications overlapped.
RolesFollowAuth ==
    \A s \in Sockets : auth[s] # NoAuth => roles[s] = auth[s].roles

\* A connection that is authenticated as a user receives that user's messages: it is
\* in the room "@user" handleAuth joins, and neither a logout nor an unsubscription
\* in between has taken it out.
AuthenticatedInUserRoom ==
    \A s \in Open : auth[s] # NoAuth => UserRoom(auth[s].name) \in rooms[s]

\* The variables of a user, which are broadcast to the room "USER_CONFIG@user", reach
\* only connections this process has authenticated as that user, which are in the room
\* "@user": not one that holds a token of the user nobody has looked up yet, or one that
\* was refused.  A logout leaves neither room, and whoever logs in next is in both.
VariablesReachTheirOwner ==
    \A s \in Sockets, u \in Users :
        FeatureRoom("USER_CONFIG", u) \in rooms[s] => UserRoom(u) \in rooms[s]


\* The collector never shows a feature nobody is subscribed to: after the last
\* subscriber leaves, logs out or unsubscribes, no broadcast is prepared for it.
CollectorNoPhantom == activeFeatures \subseteq Interest(Open)

\* A connection with the bit of a global feature is in the one room a broadcast of it
\* addresses, through any logouts, authentications and unsubscriptions.  APP_CONFIG is
\* exempt: logout() sets its bit without joining the room.  Of USER_CONFIG no such thing
\* holds: the bit may be set with the room of another user or of nobody.
SubscribedInItsRoom ==
    \A s \in Open : \A f \in (features[s] \cap Global) \ {"APP_CONFIG"} :
        FeatureRoom(f, NoUser) \in rooms[s]

\* The guard has cleared the flag of a token that was told as valid.
ClearedSince(told, now) == told.state = "valid" /\ now = [told EXCEPT !.state = "invalid"]

\* What the client monitor was last told of an open connection is what it is: every
\* change of user, roles or features is announced in the step that makes it.  Of the
\* token this holds when no lookup of the connection is in flight (an Auth replaces it
\* before its lookup and announces after), unless the guard has cleared its flag since,
\* which it announces to nobody.
AnnouncedIsCurrent ==
    \A s \in Open : \E d \in announced[s] :
        /\ announced[s] = {d}
        /\ d.auth = auth[s] /\ d.roles = roles[s] /\ d.features = features[s]
        /\ \/ \E p \in pending : p.socket = s
           \/ d.token = TokenSent(token[s])
           \/ ClearedSince(d.token, token[s])

\* Every step that takes a subscription away (disconnection, logout, RemoveFeature)
\* leaves the collector exact, which repairs what addFeature's merge lost.
LossMakesCollectorExact ==
    [][(\E s \in Open : phase'[s] # "open" \/ ~(features[s] \subseteq features'[s]))
        => activeFeatures' = Interest(Open)']_vars

\* Every Auth message with a verifiable token is answered, also when the user is gone,
\* the query fails, or the socket closes meanwhile: no handler stays in flight, so each
\* slot is free again and again.
AuthAnswered ==
    \A r \in Requests : []<>(\A p \in pending : p.id # r)

(***************************************************************************)
(* A statement the code's comments make and the code does not keep.        *)
(***************************************************************************)

\* "User has been logged out": a connection whose token logout has cleared, and that
\* has sent no other, is not authenticated.
LogoutEndsAuthentication ==
    \A s \in Open : token[s].state = "none" => auth[s] = NoAuth
=============================================================================
