----------------------- MODULE ClientConnectionsProofs -----------------------
(***************************************************************************)
(* Invariance proofs for ClientConnections, for any number of sockets,     *)
(* users, handlers in flight and user edits.                               *)
(***************************************************************************)
EXTENDS ClientConnections, TLAPS

-----------------------------------------------------------------------------
(* Facts about the operators the handlers share. *)

LEMMA InterestType ==
    ASSUME NEW F \in [Sockets -> SUBSET Feature], NEW S \in SUBSET Sockets
    PROVE  UNION {F[s] : s \in S} \in SUBSET Feature
  OBVIOUS

LEMMA RoomTypes ==
    ASSUME NEW u \in MaybeUser
    PROVE  /\ UserRoom(u) \in Room
           /\ \A f \in Feature : FeatureRoom(f, u) \in Room
           /\ \A f \in Feature, v \in MaybeUser : FeatureRoom(f, v) # UserRoom(u)
  BY DEF UserRoom, FeatureRoom, Room, MaybeUser, NoFeature, Feature

\* The rooms of global features are told apart by the feature, and from those of users.
LEMMA RoomsApart ==
    /\ \A f \in Global : \A u : FeatureRoom(f, u) = FeatureRoom(f, NoUser)
    /\ \A f \in Global, g \in Feature : \A u : g # f => FeatureRoom(g, u) # FeatureRoom(f, NoUser)
    /\ \A u, v : FeatureRoom("USER_CONFIG", u) = FeatureRoom("USER_CONFIG", v) => u = v
    /\ \A f \in Feature : \A u, v : FeatureRoom(f, u) # UserRoom(v)
  BY DEF FeatureRoom, UserRoom, Global, UserSpecific, Feature, NoFeature

LEMMA SentType ==
    ASSUME NEW t \in TokenInfo
    PROVE  TokenSent(t) \in TokenDto
  BY DEF TokenInfo, TokenDto, TokenSent

\* What is announced of a connection is a Dto.
LEMMA AnnounceType ==
    ASSUME NEW s \in Sockets, announced \in [Sockets -> SUBSET Dto],
           auth' \in [Sockets -> Auth], roles' \in [Sockets -> SUBSET Role],
           features' \in [Sockets -> SUBSET Feature], token' \in [Sockets -> TokenInfo],
           Announce(s)
    PROVE  announced' \in [Sockets -> SUBSET Dto]
<1>1. Converted(s)' \in Dto
  BY SentType DEF Converted, Dto
<1> QED  BY <1>1 DEF Announce

-----------------------------------------------------------------------------
(* Type correctness. *)

\* One lemma per kind of step keeps the provers' contexts small.
LEMMA SocketStepType ==
    ASSUME TypeOK, NEW s \in Sockets, SocketStep(s)
    PROVE  TypeOK'
<1> USE DEF TypeOK, connVars
<1>a. NoAuth \in Auth /\ NoToken \in TokenInfo
  BY DEF NoAuth, Auth, NoToken, TokenInfo, MaybeUser
<1>b. auth[s].name \in MaybeUser
  BY DEF Auth
<1>1. CASE Connect(s)
  <2>1. /\ auth' \in [Sockets -> Auth] /\ roles' \in [Sockets -> SUBSET Role]
        /\ features' \in [Sockets -> SUBSET Feature] /\ token' \in [Sockets -> TokenInfo]
        /\ Announce(s)
    BY <1>1 DEF Connect, AddConnection
  <2> QED  BY <1>1, <2>1, AnnounceType DEF Connect, AddConnection
<1>2. CASE Disconnect(s)
  <2>1. Interest(Open)' \in SUBSET Feature
    BY <1>2, InterestType DEF Disconnect, Interest, Open
  <2> QED  BY <1>2, <2>1 DEF Disconnect, LeaveAll, CalculateActiveFeatures, AnnounceRemoved
<1>3. ASSUME NEW u \in Users, AuthStart(s, u)
      PROVE  TypeOK'
  <2>1. PICK r \in FreeSlots : pending' = pending \cup
            {[id |-> r, socket |-> s, user |-> u, step |-> "reading", roles |-> {}]}
    BY <1>3 DEF AuthStart
  <2>2. pending' \in SUBSET Lookup
    BY <2>1 DEF Lookup, FreeSlots
  <2>3. \A p, q \in pending' : p.id = q.id => p = q
    <3> DEFINE new == [id |-> r, socket |-> s, user |-> u, step |-> "reading", roles |-> {}]
    <3>1. \A p \in pending : p.id # r
      BY ONLY r \in FreeSlots, Zenon DEF FreeSlots
    <3>2. pending' = pending \cup {new} /\ new.id = r
      BY <2>1
    <3> HIDE DEF new
    <3> QED  BY <3>1, <3>2
  <2>4. token' \in [Sockets -> TokenInfo]
    BY <1>3 DEF AuthStart, TokenInfo, MaybeUser
  <2> QED  BY <1>3, <2>2, <2>3, <2>4 DEF AuthStart
<1>4. ASSUME NEW u \in Users, AuthBadToken(s, u)
      PROVE  TypeOK'
  <2>1. /\ auth' \in [Sockets -> Auth] /\ token' \in [Sockets -> TokenInfo]
        /\ roles' = roles /\ features' = features /\ Announce(s)
    BY <1>4, <1>a DEF AuthBadToken, RejectToken, TokenInfo, MaybeUser
  <2> QED  BY <1>4, <2>1, AnnounceType DEF AuthBadToken, RejectToken
<1>5. CASE GuardFindsLapsed(s)
  BY <1>5 DEF GuardFindsLapsed, TokenInfo
<1>6. CASE Logout(s)
  <2>1. features' \in [Sockets -> SUBSET Feature]
    BY <1>6 DEF Logout, Feature
  <2>2. Interest(Open)' \in SUBSET Feature
    BY <2>1, InterestType DEF Interest, Open
  <2>3. /\ auth' \in [Sockets -> Auth] /\ roles' \in [Sockets -> SUBSET Role]
        /\ token' \in [Sockets -> TokenInfo] /\ Announce(s)
    BY <1>6, <1>a DEF Logout
  <2> QED  BY <1>6, <2>1, <2>2, <2>3, AnnounceType DEF Logout, CalculateActiveFeatures
<1>7. ASSUME NEW f \in Subscribable, AddFeature(s, f)
      PROVE  TypeOK'
  <2>1. features' \in [Sockets -> SUBSET Feature]
    BY <1>7, SubscribableAssumption DEF AddFeature, WithFeature
  <2>2. rooms' \in [Sockets -> SUBSET Room]
    BY <1>7, <1>b, RoomTypes, SubscribableAssumption DEF AddFeature, JoinFeatureRoom, Join
  <2>3. UNCHANGED <<auth, roles, token>> /\ Announce(s)
    BY <1>7 DEF AddFeature
  <2> QED
    BY <1>7, <2>1, <2>2, <2>3, AnnounceType DEF AddFeature, MergeActiveFeatures, ReadActiveFeatures
<1>8. ASSUME NEW f \in Subscribable, RemoveFeature(s, f)
      PROVE  TypeOK'
  <2>1. features' \in [Sockets -> SUBSET Feature]
    BY <1>8 DEF RemoveFeature, DropFeature, WithoutFeature
  <2>2. Interest(Open)' \in SUBSET Feature
    BY <2>1, InterestType DEF Interest, Open
  <2>3. UNCHANGED <<auth, roles, token>> /\ Announce(s)
    BY <1>8 DEF RemoveFeature, DropFeature
  <2> QED
    BY <1>8, <2>1, <2>2, <2>3, AnnounceType
    DEF RemoveFeature, DropFeature, Leave, CalculateActiveFeatures
<1>9. CASE TokenLapses(s)
  BY <1>9 DEF TokenLapses, TokenInfo
<1> QED
  BY <1>1, <1>2, <1>3, <1>4, <1>5, <1>6, <1>7, <1>8, <1>9 DEF SocketStep

LEMMA LookupStepType ==
    ASSUME TypeOK, NEW p \in pending, ReadUser(p) \/ ValidateReturn(p)
    PROVE  TypeOK'
<1> USE DEF TypeOK, connVars
<1>a. p \in Lookup
  OBVIOUS
<1>1. CASE ReadUser(p)
  <2>1. PICK outcome \in {ValidateUser(p.user), "failed"} :
           pending' = (pending \ {p}) \cup {Answered(p, outcome)}
    BY <1>1 DEF ReadUser
  <2>2. outcome \in {"found", "missing", "failed"}
    BY <1>a, <2>1 DEF ValidateUser, Lookup, UserRow
  <2>3. Answered(p, outcome) \in Lookup /\ Answered(p, outcome).id = p.id
    BY <1>a, <2>2 DEF Answered, Lookup, UserRow
  <2> QED  BY <1>1, <2>1, <2>3 DEF ReadUser
<1>2. CASE ValidateReturn(p)
  <2>1. pending' \in SUBSET Lookup /\ (\A q, t \in pending' : q.id = t.id => q = t)
    BY <1>2 DEF ValidateReturn
  <2>2. CASE ReturnFound(p)
    <3>1. rooms' \in [Sockets -> SUBSET Room]
      BY <1>a, <2>2, RoomTypes DEF ReturnFound, JoinUserRoom, Join, Lookup, MaybeUser
    <3>2. /\ auth' \in [Sockets -> Auth]
          /\ roles' \in [Sockets -> SUBSET Role]
      BY <1>a, <2>2 DEF ReturnFound, SetRoles, Auth, Lookup, MaybeUser
    <3>3. announced' \in [Sockets -> SUBSET Dto]
      BY <1>a, <2>2, <3>2, AnnounceType DEF ReturnFound, Lookup
    <3> QED
      BY <1>2, <2>1, <2>2, <3>1, <3>2, <3>3 DEF ValidateReturn, ReturnFound
  <2>3. CASE ReturnMissing(p)
    <3>1. auth' \in [Sockets -> Auth] /\ UNCHANGED <<roles, token, features>>
      BY <1>a, <2>3 DEF ReturnMissing, NoAuth, Auth, Lookup, MaybeUser
    <3>2. announced' \in [Sockets -> SUBSET Dto]
      BY <1>a, <2>3, <3>1, AnnounceType DEF ReturnMissing, Lookup
    <3> QED
      BY <1>2, <2>1, <2>3, <3>1, <3>2 DEF ValidateReturn, ReturnMissing
  <2>4. CASE ReturnFailed(p)
    <3>1. /\ auth' \in [Sockets -> Auth] /\ token' \in [Sockets -> TokenInfo]
          /\ UNCHANGED <<roles, features>>
      BY <1>a, <2>4 DEF ReturnFailed, RejectToken, NoAuth, Auth, TokenInfo, Lookup, MaybeUser
    <3>2. announced' \in [Sockets -> SUBSET Dto]
      BY <1>a, <2>4, <3>1, AnnounceType DEF ReturnFailed, RejectToken, Lookup
    <3> QED
      BY <1>2, <2>1, <2>4, <3>1, <3>2 DEF ValidateReturn, ReturnFailed, RejectToken
  <2> QED  BY <1>2, <2>2, <2>3, <2>4 DEF ValidateReturn
<1> QED  BY <1>1, <1>2

\* The user table changes by EditUser only; nothing changes by stuttering.
LEMMA EditUserType ==
    ASSUME TypeOK, NEW u \in Users, NEW row \in UserRows, EditUser(u, row)
    PROVE  TypeOK'
  BY UserRowsAssumption DEF TypeOK, EditUser, connVars

LEMMA InitType == Init => TypeOK
BY UserRowsAssumption
DEF Init, TypeOK, NoAuth, Auth, NoToken, TokenInfo, MaybeUser, Lookup, Dto, Room

LEMMA StepType == TypeOK /\ [Next]_vars => TypeOK'
<1> SUFFICES ASSUME TypeOK, [Next]_vars
             PROVE  TypeOK'
  OBVIOUS
<1>1. CASE UNCHANGED vars
  BY <1>1 DEF TypeOK, vars, connVars
<1>2. CASE Next
  BY <1>2, SocketStepType, LookupStepType, EditUserType DEF Next, LookupStep
<1> QED
  BY <1>1, <1>2

\* Every state of every behaviour has the shape TypeOK gives the collector, the rooms
\* and the lookups in flight.
THEOREM TypeCorrect == Spec => []TypeOK
BY InitType, StepType, PTL DEF Spec

-----------------------------------------------------------------------------
(***************************************************************************)
(* The safety invariants.  They are inductive together with one fact about *)
(* socket ids that have not connected yet: nobody has authenticated them   *)
(* and no lookup can still come back for them.  Without it a connection    *)
(* could be born authenticated and outside its user room.                  *)
(* VariablesReachTheirOwner rests on AuthenticatedInUserRoom: whoever adds *)
(* USER_CONFIG as a user is in that user's room already.                   *)
(***************************************************************************)
FreshUntouched ==
    \A s \in Sockets : phase[s] = "fresh" =>
        auth[s] = NoAuth /\ \A p \in pending : p.socket # s

Safety ==
    /\ FreshUntouched
    /\ RolesFollowAuth
    /\ AuthenticatedInUserRoom
    /\ VariablesReachTheirOwner
    /\ SubscribedInItsRoom
    /\ AnnouncedIsCurrent
    /\ CollectorNoPhantom

\* What AnnouncedIsCurrent says of one connection.
Current(s) ==
    \E d \in announced[s] :
        /\ announced[s] = {d}
        /\ d.auth = auth[s] /\ d.roles = roles[s] /\ d.features = features[s]
        /\ \/ \E p \in pending : p.socket = s
           \/ d.token = TokenSent(token[s])
           \/ ClearedSince(d.token, token[s])

LEMMA CurrentOfEach == AnnouncedIsCurrent <=> \A s \in Open : Current(s)
  BY DEF AnnouncedIsCurrent, Current

\* An announcement makes what was announced of its connection current.
LEMMA AnnouncedBecomesCurrent ==
    ASSUME TypeOK, NEW s \in Sockets, Announce(s)
    PROVE  Current(s)'
  BY DEF TypeOK, Announce, Converted, Current

\* A connection nothing is done to stays current; a lookup of it may only be added.
LEMMA CurrentUndisturbed ==
    ASSUME NEW s \in Sockets, Current(s),
           announced'[s] = announced[s], auth'[s] = auth[s], roles'[s] = roles[s],
           features'[s] = features[s], token'[s] = token[s],
           \A p \in pending : p.socket = s => \E q \in pending' : q.socket = s
    PROVE  Current(s)'
  BY DEF Current

\* A step that announces one connection and leaves the others and their lookups alone.
LEMMA AnnounceKeepsCurrent ==
    ASSUME TypeOK, AnnouncedIsCurrent, NEW s \in Sockets, Announce(s),
           Open' \subseteq Open \cup {s},
           \A t \in Sockets \ {s} :
               /\ auth'[t] = auth[t] /\ roles'[t] = roles[t]
               /\ features'[t] = features[t] /\ token'[t] = token[t]
               /\ \A p \in pending : p.socket = t => p \in pending'
    PROVE  AnnouncedIsCurrent'
<1>1. \A t \in Open \ {s} : announced'[t] = announced[t] /\ Current(t)
  BY CurrentOfEach DEF TypeOK, Announce, Open
<1>2. \A t \in Open \ {s} : Current(t)'
  BY <1>1, CurrentUndisturbed DEF Open
<1>3. \A t \in Open' : Current(t)'
  BY <1>2, AnnouncedBecomesCurrent
<1> QED  BY <1>3 DEF AnnouncedIsCurrent, Current

\* Interest only depends on the open sockets and their features.
LEMMA CollectorUndisturbed ==
    ASSUME CollectorNoPhantom, UNCHANGED activeFeatures,
           Open \subseteq Open',
           \A s \in Open : features[s] \subseteq features'[s]
    PROVE  CollectorNoPhantom'
  BY DEF CollectorNoPhantom, Interest

\* Recomputing the collector makes it exact.
LEMMA CollectorRecomputed ==
    ASSUME CalculateActiveFeatures
    PROVE  CollectorNoPhantom'
  BY DEF CalculateActiveFeatures, CollectorNoPhantom

LEMMA ConnectSafe ==
    ASSUME TypeOK, Safety, NEW s \in Sockets, Connect(s)
    PROVE  Safety'
<1> USE DEF Safety, TypeOK, Connect, AddConnection
<1>1. FreshUntouched' /\ RolesFollowAuth'
  BY DEF FreshUntouched, RolesFollowAuth
<1>2. AuthenticatedInUserRoom' /\ VariablesReachTheirOwner' /\ SubscribedInItsRoom'
  BY DEF FreshUntouched, AuthenticatedInUserRoom, VariablesReachTheirOwner,
     SubscribedInItsRoom, Open
<1>3. AnnouncedIsCurrent'
  BY AnnounceKeepsCurrent DEF Open
<1>4. CollectorNoPhantom'
  BY CollectorUndisturbed DEF Open
<1> QED  BY <1>1, <1>2, <1>3, <1>4

LEMMA DisconnectSafe ==
    ASSUME TypeOK, Safety, NEW s \in Sockets, Disconnect(s)
    PROVE  Safety'
<1> USE DEF Safety, TypeOK, Disconnect
<1>1. FreshUntouched' /\ RolesFollowAuth'
  BY DEF FreshUntouched, RolesFollowAuth
<1>2. AuthenticatedInUserRoom' /\ VariablesReachTheirOwner' /\ SubscribedInItsRoom'
  BY DEF AuthenticatedInUserRoom, VariablesReachTheirOwner, SubscribedInItsRoom, LeaveAll, Open
<1>3. AnnouncedIsCurrent'
  BY DEF AnnouncedIsCurrent, AnnounceRemoved, Open
<1>4. CollectorNoPhantom'
  BY CollectorRecomputed
<1> QED  BY <1>1, <1>2, <1>3, <1>4

\* Starting a lookup, noticing a lapsed token and the clock change the token only.
LEMMA TokenStepSafe ==
    ASSUME TypeOK, Safety, NEW s \in Sockets,
           (\E u \in Users : AuthStart(s, u)) \/ GuardFindsLapsed(s) \/ TokenLapses(s)
    PROVE  Safety'
<1> USE DEF Safety, TypeOK
<1>1. UNCHANGED <<phase, auth, roles, features, activeFeatures, rooms, announced>>
  BY DEF AuthStart, GuardFindsLapsed, TokenLapses
<1>2. \A p \in pending' : p \in pending \/ (p.socket = s /\ phase[s] = "open")
  BY DEF AuthStart, GuardFindsLapsed, TokenLapses
<1>3. FreshUntouched'
  BY <1>1, <1>2 DEF FreshUntouched
<1>4. AnnouncedIsCurrent'
  <2>1. pending \subseteq pending' /\ \A t \in Sockets \ {s} : token'[t] = token[t]
    BY DEF AuthStart, GuardFindsLapsed, TokenLapses
  <2>2. \A t \in Open \ {s} : Current(t)'
    BY <1>1, <2>1, CurrentOfEach, CurrentUndisturbed DEF Open
  <2>3. PICK d \in announced[s] :
            /\ announced[s] = {d}
            /\ d.auth = auth[s] /\ d.roles = roles[s] /\ d.features = features[s]
            /\ \/ \E p \in pending : p.socket = s
               \/ d.token = TokenSent(token[s])
               \/ ClearedSince(d.token, token[s])
    BY DEF AnnouncedIsCurrent, AuthStart, GuardFindsLapsed, TokenLapses, Open
  <2>4. \/ \E p \in pending' : p.socket = s
        \/ d.token = TokenSent(token'[s])
        \/ ClearedSince(d.token, token'[s])
    <3>1. CASE \E u \in Users : AuthStart(s, u)
      <4>1. PICK u \in Users, r \in FreeSlots : pending' = pending \cup
                {[id |-> r, socket |-> s, user |-> u, step |-> "reading", roles |-> {}]}
        BY <3>1 DEF AuthStart
      <4> DEFINE new == [id |-> r, socket |-> s, user |-> u, step |-> "reading", roles |-> {}]
      <4>2. new \in pending' /\ new.socket = s
        BY <4>1
      <4> QED  BY <4>2
    <3>2. CASE GuardFindsLapsed(s)
      <4>1. token[s] \in TokenInfo /\ token[s].state = "lapsed"
            /\ token'[s] = [token[s] EXCEPT !.state = "invalid"]
        BY <3>2 DEF GuardFindsLapsed
      <4>2. d.token = TokenSent(token[s]) => ClearedSince(d.token, token'[s])
        BY <4>1 DEF TokenSent, ClearedSince, TokenInfo
      <4>3. ~ClearedSince(d.token, token[s])
        BY <4>1, <2>3 DEF ClearedSince, TokenInfo, Dto, TokenDto
      <4> QED  BY <2>1, <2>3, <4>2, <4>3
    <3>3. CASE TokenLapses(s)
      <4>1. token[s] \in TokenInfo /\ token[s].state = "valid"
            /\ token'[s] = [token[s] EXCEPT !.state = "lapsed"]
        BY <3>3 DEF TokenLapses
      <4>2. TokenSent(token'[s]) = TokenSent(token[s])
        BY <4>1 DEF TokenSent, TokenInfo
      <4>3. ~ClearedSince(d.token, token[s])
        BY <4>1, <2>3 DEF ClearedSince, TokenInfo, Dto, TokenDto
      <4> QED  BY <2>1, <2>3, <4>2, <4>3
    <3> QED  BY <3>1, <3>2, <3>3
  <2>5. Current(s)'
    BY <1>1, <2>3, <2>4 DEF Current
  <2> QED  BY <1>1, <2>2, <2>5 DEF AnnouncedIsCurrent, Current, Open
<1> QED
  BY <1>1, <1>3, <1>4 DEF RolesFollowAuth, AuthenticatedInUserRoom, VariablesReachTheirOwner,
     SubscribedInItsRoom, CollectorNoPhantom, Interest, Open

LEMMA AuthBadTokenSafe ==
    ASSUME TypeOK, Safety, NEW s \in Sockets, NEW u \in Users, AuthBadToken(s, u)
    PROVE  Safety'
<1> USE DEF Safety, TypeOK, AuthBadToken, RejectToken
<1>1. FreshUntouched' /\ RolesFollowAuth' /\ AuthenticatedInUserRoom'
  BY DEF FreshUntouched, RolesFollowAuth, AuthenticatedInUserRoom, Open
<1>2. VariablesReachTheirOwner' /\ SubscribedInItsRoom'
  BY DEF VariablesReachTheirOwner, SubscribedInItsRoom, Open
<1>3. AnnouncedIsCurrent'
  BY AnnounceKeepsCurrent DEF Open
<1>4. CollectorNoPhantom'
  BY CollectorUndisturbed DEF Open
<1> QED  BY <1>1, <1>2, <1>3, <1>4

LEMMA LogoutSafe ==
    ASSUME TypeOK, Safety, NEW s \in Sockets, Logout(s)
    PROVE  Safety'
<1> USE DEF Safety, TypeOK, Logout
<1>1. FreshUntouched' /\ RolesFollowAuth' /\ AuthenticatedInUserRoom'
  BY DEF FreshUntouched, RolesFollowAuth, AuthenticatedInUserRoom, Open
<1>2. VariablesReachTheirOwner' /\ SubscribedInItsRoom'
  BY DEF VariablesReachTheirOwner, SubscribedInItsRoom, Open
<1>3. AnnouncedIsCurrent'
  BY AnnounceKeepsCurrent DEF Open
<1>4. CollectorNoPhantom'
  BY CollectorRecomputed
<1> QED  BY <1>1, <1>2, <1>3, <1>4

LEMMA AddFeatureSafe ==
    ASSUME TypeOK, Safety, NEW s \in Sockets, NEW f \in Subscribable, AddFeature(s, f)
    PROVE  Safety'
<1> USE DEF Safety, TypeOK, AddFeature
<1>a. f \in Feature /\ auth[s].name \in MaybeUser
  BY SubscribableAssumption DEF Auth
<1>b. rooms' = [rooms EXCEPT ![s] = @ \cup {FeatureRoom(f, auth[s].name)}]
  BY DEF JoinFeatureRoom, Join
<1>1. FreshUntouched' /\ RolesFollowAuth'
  BY DEF FreshUntouched, RolesFollowAuth
<1>2. AuthenticatedInUserRoom'
  BY <1>b DEF AuthenticatedInUserRoom, Open
<1>3. VariablesReachTheirOwner'
  <2>1. auth[s].name \in Users => UserRoom(auth[s].name) \in rooms[s]
    BY NoUserAssumption DEF AuthenticatedInUserRoom, NoAuth, Open
  <2>2. \A u \in Users : FeatureRoom(f, auth[s].name) = FeatureRoom("USER_CONFIG", u)
                             => u = auth[s].name
    BY <1>a DEF FeatureRoom, UserSpecific
  <2> HIDE DEF AddFeature
  <2>3. \A t \in Sockets : rooms[t] \subseteq rooms'[t]
    BY <1>b
  <2>4. ASSUME NEW t \in Sockets, NEW u \in Users, FeatureRoom("USER_CONFIG", u) \in rooms'[t]
        PROVE  UserRoom(u) \in rooms'[t]
    <3>1. CASE FeatureRoom("USER_CONFIG", u) \in rooms[t]
      BY <2>3, <3>1 DEF VariablesReachTheirOwner
    <3>2. CASE FeatureRoom("USER_CONFIG", u) \notin rooms[t]
      <4>1. t = s /\ FeatureRoom("USER_CONFIG", u) = FeatureRoom(f, auth[s].name)
        BY <1>b, <2>4, <3>2
      <4>2. u = auth[s].name
        BY <2>2, <4>1
      <4> QED  BY <2>1, <2>3, <4>1, <4>2
    <3> QED  BY <3>1, <3>2
  <2> QED  BY <2>4 DEF VariablesReachTheirOwner
<1>6. SubscribedInItsRoom'
  BY <1>a, <1>b, RoomsApart DEF SubscribedInItsRoom, WithFeature, Open
<1>4. AnnouncedIsCurrent'
  BY AnnounceKeepsCurrent DEF Open
<1>5. CollectorNoPhantom'
  BY DEF CollectorNoPhantom, MergeActiveFeatures, ReadActiveFeatures, Interest, Open
<1> QED  BY <1>1, <1>2, <1>3, <1>4, <1>5, <1>6

LEMMA RemoveFeatureSafe ==
    ASSUME TypeOK, Safety, NEW s \in Sockets, NEW f \in Subscribable, RemoveFeature(s, f)
    PROVE  Safety'
<1> USE DEF Safety, TypeOK, RemoveFeature, DropFeature
<1>a. f \in Feature /\ auth[s].name \in MaybeUser
  BY SubscribableAssumption DEF Auth
<1>1. FreshUntouched' /\ RolesFollowAuth'
  BY DEF FreshUntouched, RolesFollowAuth
<1>2. AuthenticatedInUserRoom' /\ VariablesReachTheirOwner'
  <2>1. \A u : FeatureRoom(f, auth[s].name) # UserRoom(u)
    BY <1>a, RoomsApart
  <2> QED  BY <2>1 DEF Leave, VariablesReachTheirOwner, AuthenticatedInUserRoom, Open
<1>3. SubscribedInItsRoom'
  <2>1. \A g \in Global : g # f => FeatureRoom(f, auth[s].name) # FeatureRoom(g, NoUser)
    BY <1>a, RoomsApart
  <2> QED  BY <2>1 DEF Leave, WithoutFeature, SubscribedInItsRoom, Open
<1>4. AnnouncedIsCurrent'
  BY AnnounceKeepsCurrent DEF Open
<1>5. CollectorNoPhantom'
  BY CollectorRecomputed
<1> QED  BY <1>1, <1>2, <1>3, <1>4, <1>5

\* The continuation writes to the connection the lookup was started for, whatever
\* has become of it.
LEMMA ValidateReturnSafe ==
    ASSUME TypeOK, Safety, NEW p \in pending, ValidateReturn(p)
    PROVE  Safety'
<1> USE DEF Safety, TypeOK, ValidateReturn
<1>a. p.socket \in Sockets /\ p.user \in Users /\ p.user # NoUser
  BY NoUserAssumption DEF Lookup
<1>b. phase[p.socket] # "fresh" /\ UNCHANGED <<phase, features, activeFeatures>>
  BY <1>a DEF FreshUntouched, ReturnFound, ReturnMissing, ReturnFailed, RejectToken
<1>1. FreshUntouched'
  BY <1>a, <1>b DEF FreshUntouched, ReturnFound, ReturnMissing, ReturnFailed, RejectToken
<1>2. RolesFollowAuth'
  BY <1>a DEF RolesFollowAuth, ReturnFound, ReturnMissing, ReturnFailed, RejectToken, SetRoles
<1>3. AuthenticatedInUserRoom'
  BY <1>a, <1>b DEF AuthenticatedInUserRoom, ReturnFound, ReturnMissing, ReturnFailed,
     RejectToken, JoinUserRoom, Join, Open
<1>4. VariablesReachTheirOwner' /\ SubscribedInItsRoom'
  <2>1. /\ rooms' \in [Sockets -> SUBSET Room] /\ \A t \in Sockets : rooms[t] \subseteq rooms'[t]
        /\ \A t \in Sockets : rooms'[t] \subseteq rooms[t] \cup {UserRoom(p.user)}
    BY <1>a, RoomTypes DEF ReturnFound, ReturnMissing, ReturnFailed, JoinUserRoom, Join, MaybeUser
  <2>2. \A u : FeatureRoom("USER_CONFIG", u) # UserRoom(p.user)
    BY RoomsApart DEF Feature
  <2> QED
    BY <1>b, <2>1, <2>2 DEF VariablesReachTheirOwner, SubscribedInItsRoom, Open
<1>5. AnnouncedIsCurrent'
  <2>1. Announce(p.socket)
    BY DEF ReturnFound, ReturnMissing, ReturnFailed, RejectToken
  <2>2. \A t \in Sockets \ {p.socket} :
            auth'[t] = auth[t] /\ roles'[t] = roles[t] /\ token'[t] = token[t]
    BY <1>a DEF ReturnFound, ReturnMissing, ReturnFailed, RejectToken, SetRoles
  <2> QED  BY <1>a, <1>b, <2>1, <2>2, AnnounceKeepsCurrent DEF Open
<1>6. CollectorNoPhantom'
  BY <1>b, CollectorUndisturbed DEF Open
<1> QED  BY <1>1, <1>2, <1>3, <1>4, <1>5, <1>6

\* Reading a user row, editing one and stuttering leave the connections alone.
LEMMA ElsewhereSafe ==
    ASSUME TypeOK, Safety,
           \/ \E p \in pending : ReadUser(p)
           \/ \E u \in Users, row \in UserRows : EditUser(u, row)
           \/ UNCHANGED vars
    PROVE  Safety'
<1>1. UNCHANGED <<phase, auth, roles, token, features, activeFeatures, rooms, announced>>
  BY DEF ReadUser, EditUser, vars, connVars
<1>2. /\ \A q \in pending' : \E p \in pending : q.socket = p.socket
      /\ \A p \in pending : \E q \in pending' : q.socket = p.socket
  <2>1. ASSUME NEW p \in pending, ReadUser(p)
        PROVE  /\ \A q \in pending' : \E t \in pending : q.socket = t.socket
               /\ \A t \in pending : \E q \in pending' : q.socket = t.socket
    <3>1. PICK outcome : pending' = (pending \ {p}) \cup {Answered(p, outcome)}
      BY <2>1 DEF ReadUser
    <3>2. Answered(p, outcome).socket = p.socket
      BY DEF Answered, TypeOK, Lookup
    <3> QED  BY <3>1, <3>2
  <2> QED  BY <2>1 DEF EditUser, vars
<1>3. FreshUntouched'
  BY <1>1, <1>2 DEF FreshUntouched, Safety
<1>4. AnnouncedIsCurrent'
  <2>1. \A s \in Open : Current(s)'
    BY <1>1, <1>2, CurrentOfEach, CurrentUndisturbed DEF Safety, Open
  <2> QED  BY <1>1, <2>1 DEF AnnouncedIsCurrent, Current, Open
<1> QED
  BY <1>1, <1>3, <1>4 DEF Safety, RolesFollowAuth, AuthenticatedInUserRoom,
     VariablesReachTheirOwner, SubscribedInItsRoom, CollectorNoPhantom, Interest, Open

LEMMA InitSafety == Init => Safety
BY DEF Init, Safety, FreshUntouched, RolesFollowAuth, AuthenticatedInUserRoom,
       VariablesReachTheirOwner, SubscribedInItsRoom, AnnouncedIsCurrent, CollectorNoPhantom, Open

LEMMA StepSafety == TypeOK /\ Safety /\ [Next]_vars => Safety'
BY ConnectSafe, DisconnectSafe, TokenStepSafe, AuthBadTokenSafe, LogoutSafe,
   AddFeatureSafe, RemoveFeatureSafe, ValidateReturnSafe, ElsewhereSafe
DEF Next, SocketStep, LookupStep

\* The conjunction of the safety invariants holds in every state.
THEOREM SafetyInvariant == Spec => []Safety
BY InitSafety, StepSafety, TypeCorrect, PTL DEF Spec

-----------------------------------------------------------------------------
(* What the runs check on small instances, for every instance. *)

\* conn.roles are the roles of the authenticated user.
THEOREM RolesTheorem == Spec => []RolesFollowAuth
BY SafetyInvariant, PTL DEF Safety

\* An authenticated open connection is in its user room.
THEOREM UserRoomTheorem == Spec => []AuthenticatedInUserRoom
BY SafetyInvariant, PTL DEF Safety

\* The room of a user's variables holds only sockets of the user's own room.
THEOREM OwnerTheorem == Spec => []VariablesReachTheirOwner
BY SafetyInvariant, PTL DEF Safety

\* A connection with the bit of a global feature is in its room.
THEOREM SubscriptionTheorem == Spec => []SubscribedInItsRoom
BY SafetyInvariant, PTL DEF Safety

\* The last announcement of an open connection has its user, role bits and features, and
\* its token but for a lookup in flight and a flag the guard has cleared.
THEOREM AnnouncementTheorem == Spec => []AnnouncedIsCurrent
BY SafetyInvariant, PTL DEF Safety

\* The collector shows no feature without a subscriber.
THEOREM CollectorTheorem == Spec => []CollectorNoPhantom
BY SafetyInvariant, PTL DEF Safety

-----------------------------------------------------------------------------
(* Steps that take a subscription away. *)

Loses(s) == phase'[s] # "open" \/ ~(features[s] \subseteq features'[s])

\* The steps that do not recompute the collector take nothing from anybody.
LEMMA NothingLost ==
    ASSUME TypeOK, [Next]_vars, ~CalculateActiveFeatures
    PROVE  \A s \in Open : ~Loses(s)
<1> USE DEF TypeOK, Loses, Open
<1>1. ASSUME NEW t \in Sockets, Connect(t)
      PROVE  \A s \in Open : ~Loses(s)
  BY <1>1 DEF Connect, AddConnection
<1>2. ASSUME NEW t \in Sockets, NEW f \in Subscribable, AddFeature(t, f)
      PROVE  \A s \in Open : ~Loses(s)
  BY <1>2 DEF AddFeature, WithFeature
<1>3. ASSUME UNCHANGED <<phase, features>>
      PROVE  \A s \in Open : ~Loses(s)
  BY <1>3
<1>4. ASSUME NEW t \in Sockets,
             \/ \E u \in Users : AuthStart(t, u) \/ AuthBadToken(t, u)
             \/ GuardFindsLapsed(t) \/ TokenLapses(t)
      PROVE  UNCHANGED <<phase, features>>
  BY <1>4 DEF AuthStart, AuthBadToken, RejectToken, GuardFindsLapsed, TokenLapses
<1>5. ASSUME NEW p \in pending, ReadUser(p) \/ ValidateReturn(p)
      PROVE  UNCHANGED <<phase, features>>
  BY <1>5 DEF ReadUser, ValidateReturn, ReturnFound, ReturnMissing, ReturnFailed,
     RejectToken, connVars
<1>6. ASSUME NEW u \in Users, NEW row \in UserRows, EditUser(u, row)
      PROVE  UNCHANGED <<phase, features>>
  BY <1>6 DEF EditUser, connVars
<1>7. ASSUME NEW t \in Sockets, Disconnect(t) \/ Logout(t)
      PROVE  FALSE
  BY <1>7 DEF Disconnect, Logout
<1>8. ASSUME NEW t \in Sockets, NEW f \in Subscribable, RemoveFeature(t, f)
      PROVE  FALSE
  BY <1>8 DEF RemoveFeature, DropFeature
<1>9. CASE UNCHANGED vars
  BY <1>9, <1>3 DEF vars, connVars
<1>10. CASE Next
  <2> HIDE DEF TypeOK, Loses, Open
  <2> QED
    BY <1>10, <1>1, <1>2, <1>3, <1>4, <1>5, <1>6, <1>7, <1>8
    DEF Next, SocketStep, LookupStep
<1> QED  BY <1>9, <1>10

\* Disconnection, logout and RemoveFeature leave the collector exact.
THEOREM CollectorRepairTheorem == Spec => LossMakesCollectorExact
<1>1. TypeOK /\ [Next]_vars =>
        [(\E s \in Open : phase'[s] # "open" \/ ~(features[s] \subseteq features'[s]))
            => activeFeatures' = Interest(Open)']_vars
  <2> SUFFICES ASSUME TypeOK, [Next]_vars, NEW s \in Open, Loses(s)
               PROVE  activeFeatures' = Interest(Open)'
    BY DEF Loses
  <2>1. CalculateActiveFeatures
    BY NothingLost
  <2> QED  BY <2>1 DEF CalculateActiveFeatures
<1> QED  BY <1>1, TypeCorrect, PTL DEF Spec, LossMakesCollectorExact
=============================================================================
