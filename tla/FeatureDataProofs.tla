------------------------- MODULE FeatureDataProofs -------------------------
(***************************************************************************)
(* Proofs about FeatureData: the composition takes only steps of           *)
(* ClientConnections, so that what ClientConnectionsProofs shows still     *)
(* holds; handlers in flight keep their shape; no change is missed while a *)
(* subscriber waits; and initial data are what is due.                     *)
(***************************************************************************)
EXTENDS FeatureData, ClientConnectionsProofs

-----------------------------------------------------------------------------
(* The steps of ClientConnections *)

\* Whatever the composition does to the connections is a step of ClientConnections.
LEMMA DataStepIsStep == [DataNext]_dataVars => [Next]_vars
<1> SUFFICES ASSUME [DataNext]_dataVars
             PROVE  [Next]_vars
  OBVIOUS
<1>1. CASE ConnectionStep
  <2>1. ASSUME NEW s \in Sockets, Leaving(s) \/ Staying(s)
        PROVE  SocketStep(s)
    BY <2>1 DEF Leaving, Staying, SocketStep
  <2> QED
    BY <1>1, <2>1 DEF ConnectionStep, Next
<1>2. ASSUME NEW s \in Sockets, Add(s)
      PROVE  [Next]_vars
  <2>1. ASSUME NEW f \in Subscribable, AddFeature(s, f)
        PROVE  Next
    BY <2>1 DEF Next, SocketStep
  <2> QED
    BY <1>2, <2>1 DEF Add, Refuse, AddAnswered, AskUserConfig
<1>3. ASSUME NEW a \in asks, ReadVariables(a) \/ AnswerAsk(a)
      PROVE  UNCHANGED vars
  BY <1>3 DEF ReadVariables, AnswerAsk
<1>4. CASE \/ \E u \in Users : ChangeVariable(u)
           \/ Count
           \/ \E value \in 0 .. MaxCounter : SetCounter(value)
  BY <1>4 DEF ChangeVariable, Count, SetCounter
<1> QED
  BY <1>1, <1>2, <1>3, <1>4 DEF DataNext, dataVars

\* A connection is authenticated as a user, or as nobody.
AuthNamesUser == \A s \in Sockets : auth[s] # NoAuth => auth[s].name \in Users

LEMMA StepAuthNames ==
    ASSUME TypeOK, AuthNamesUser, [Next]_vars
    PROVE  AuthNamesUser'
<1>1. ASSUME NEW s \in Sockets, SocketStep(s)
      PROVE  AuthNamesUser'
  BY <1>1
  DEF SocketStep, Connect, AddConnection, Disconnect, AuthStart, AuthBadToken, RejectToken,
      GuardFindsLapsed, Logout, AddFeature, RemoveFeature, DropFeature, TokenLapses,
      AuthNamesUser, TypeOK
<1>2. ASSUME NEW p \in pending, ReadUser(p) \/ ValidateReturn(p)
      PROVE  AuthNamesUser'
  <2>1. p.socket \in Sockets /\ p.user \in Users
    BY DEF TypeOK, Lookup
  <2> QED
    BY <1>2, <2>1
    DEF ReadUser, ValidateReturn, ReturnFound, ReturnMissing, ReturnFailed, RejectToken, connVars,
        AuthNamesUser, TypeOK
<1>3. CASE UNCHANGED vars \/ \E u \in Users, row \in UserRows : EditUser(u, row)
  BY <1>3 DEF vars, connVars, EditUser, AuthNamesUser
<1> QED
  BY <1>1, <1>2, <1>3 DEF Next, LookupStep

\* Rooms and phases of sockets that are open grow or stay.
Stays(s) == phase[s] = "open" => phase'[s] = "open" /\ rooms[s] \subseteq rooms'[s]

ConnectionsInv == TypeOK /\ Safety /\ AuthNamesUser

LEMMA InitConnections == Init => ConnectionsInv
BY InitType, InitSafety DEF Init, ConnectionsInv, AuthNamesUser

LEMMA StepConnections == ConnectionsInv /\ [Next]_vars => ConnectionsInv'
BY StepType, StepSafety, StepAuthNames DEF ConnectionsInv

\* The composition implements ClientConnections but for its fairness, and keeps its
\* invariants: rooms, roles and the collector are right beside the data handlers too.
THEOREM ConnectionsKept == DataSpec => Init /\ [][Next]_vars /\ []ConnectionsInv
<1>1. DataInit => Init
  BY DEF DataInit
<1> QED
  BY <1>1, DataStepIsStep, InitConnections, StepConnections, PTL DEF DataSpec

-----------------------------------------------------------------------------
(* Handlers and answers *)

\* The conjuncts of DataTypeOK about them.
AsksOK == asks \subseteq Ask /\ \A a, b \in asks : a.id = b.id => a = b

CounterOK == counter \in Nat /\ pushed = counter

LEMMA InitData == DataInit => AsksOK /\ CounterOK /\ answer \in Answers
BY DEF DataInit, AsksOK, CounterOK, Answers

LEMMA ReplyType ==
    ASSUME counter \in Nat, NEW s \in Sockets, NEW f \in Feature, NEW outcome \in Outcome,
           Reply(s, f, outcome)
    PROVE  answer' \in Answers
BY DEF Reply, Answers

LEMMA NoAnswerType == NoAnswer \in Answers
BY DEF Answers

\* A handler that has asked for the variables occupies a slot of its own.
LEMMA AskType ==
    ASSUME ConnectionsInv, AsksOK, NEW s \in Sockets, AskUserConfig(s)
    PROVE  AsksOK'
<1>1. auth[s].name \in Users
  BY DEF ConnectionsInv, AuthNamesUser, AskUserConfig
<1>2. PICK k \in FreeAsks :
         asks' = asks \cup {[id |-> k, socket |-> s, user |-> auth[s].name, step |-> "reading",
                             kept |-> "yes", missed |-> "no"]}
  BY DEF AskUserConfig
<1>3. k \in Slots /\ \A a \in asks : a.id # k
  BY DEF FreeAsks
<1>4. [id |-> k, socket |-> s, user |-> auth[s].name, step |-> "reading",
       kept |-> "yes", missed |-> "no"] \in Ask
  BY <1>1, <1>3 DEF Ask
<1> QED
  BY <1>2, <1>3, <1>4 DEF AsksOK

\* Changing fields other than the id of every handler keeps the shape.
LEMMA ReadType ==
    ASSUME AsksOK, NEW a \in asks, ReadVariables(a)
    PROVE  AsksOK'
<1>1. PICK step \in {"read", "failed"} : asks' = (asks \ {a}) \cup {[a EXCEPT !.step = step]}
  BY DEF ReadVariables
<1>2. [a EXCEPT !.step = step] \in Ask /\ [a EXCEPT !.step = step].id = a.id
  BY DEF AsksOK, Ask
<1> QED
  BY <1>1, <1>2 DEF AsksOK

LEMMA GiveUpType ==
    ASSUME AsksOK, NEW s, NEW f, GiveUp(s, f)
    PROVE  AsksOK'
<1> DEFINE given(a) == IF a.socket = s /\ f = "USER_CONFIG" THEN [a EXCEPT !.kept = "no"] ELSE a
<1>1. asks' = {given(a) : a \in asks}
  BY DEF GiveUp
<1>2. \A a \in asks : given(a) \in Ask /\ given(a).id = a.id
  BY DEF AsksOK, Ask
<1> HIDE DEF given
<1> QED
  BY <1>1, <1>2 DEF AsksOK

LEMMA ChangeType ==
    ASSUME AsksOK, NEW u \in Users, ChangeVariable(u)
    PROVE  AsksOK'
<1> DEFINE told(a) ==
        IF a.user = u /\ a.step # "reading" /\ FeatureRoom("USER_CONFIG", u) \notin rooms[a.socket]
        THEN [a EXCEPT !.missed = "yes"] ELSE a
<1>1. asks' = {told(a) : a \in asks}
  BY DEF ChangeVariable
<1>2. \A a \in asks : told(a) \in Ask /\ told(a).id = a.id
  BY DEF AsksOK, Ask
<1> HIDE DEF told
<1> QED
  BY <1>1, <1>2 DEF AsksOK

LEMMA StepAsks == ConnectionsInv /\ AsksOK /\ [DataNext]_dataVars => AsksOK'
<1> SUFFICES ASSUME ConnectionsInv, AsksOK, [DataNext]_dataVars
             PROVE  AsksOK'
  OBVIOUS
<1>1. CASE ConnectionStep
  BY <1>1, GiveUpType DEF ConnectionStep, Leaving, AsksOK
<1>2. ASSUME NEW s \in Sockets, Add(s)
      PROVE  AsksOK'
  BY <1>2, AskType DEF Add, Refuse, AddAnswered, AsksOK
<1>3. ASSUME NEW a \in asks, ReadVariables(a) \/ AnswerAsk(a)
      PROVE  AsksOK'
  BY <1>3, ReadType DEF AnswerAsk, AsksOK
<1>4. ASSUME NEW u \in Users, ChangeVariable(u)
      PROVE  AsksOK'
  BY <1>4, ChangeType
<1>5. CASE Count \/ (\E value \in 0 .. MaxCounter : SetCounter(value)) \/ UNCHANGED dataVars
  BY <1>5 DEF Count, SetCounter, dataVars, AsksOK
<1> QED
  BY <1>1, <1>2, <1>3, <1>4, <1>5 DEF DataNext

\* The room of the counter has been told its value, whether it was counted or set.
LEMMA StepCounter == CounterOK /\ [DataNext]_dataVars => CounterOK'
<1> SUFFICES ASSUME CounterOK, [DataNext]_dataVars
             PROVE  CounterOK'
  OBVIOUS
<1>1. CASE UNCHANGED <<counter, pushed>>
  BY <1>1 DEF CounterOK
<1>2. CASE Count
  BY <1>2 DEF Count, NotifyDataChanged, CounterOK
<1>3. ASSUME NEW value \in 0 .. MaxCounter, SetCounter(value)
      PROVE  CounterOK'
  BY <1>3, MaxCounterAssumption
  DEF SetCounter, EmitFeatureDataChanged, Listener, Listening, NotifyDataChanged, CounterOK
<1> QED
  BY <1>1, <1>2, <1>3
  DEF DataNext, dataVars, ConnectionStep, Add, Refuse, AddAnswered, AskUserConfig, ReadVariables,
      AnswerAsk, ChangeVariable

LEMMA StepAnswer ==
    ConnectionsInv /\ AsksOK /\ CounterOK /\ answer \in Answers /\ [DataNext]_dataVars
        => answer' \in Answers
<1> SUFFICES ASSUME ConnectionsInv, AsksOK, CounterOK, answer \in Answers, [DataNext]_dataVars
             PROVE  answer' \in Answers
  OBVIOUS
<1>1. ASSUME NEW s \in Sockets, Add(s)
      PROVE  answer' \in Answers
  BY <1>1, ReplyType, NoAnswerType, SubscribableAssumption
  DEF Add, Refuse, AddAnswered, AskUserConfig, CounterOK, Outcome
<1>2. ASSUME NEW a \in asks, AnswerAsk(a)
      PROVE  answer' \in Answers
  <2>1. a.socket \in Sockets /\ "USER_CONFIG" \in Feature
    BY DEF AsksOK, Ask, Feature
  <2> QED
    BY <1>2, <2>1, ReplyType, NoAnswerType DEF AnswerAsk, CounterOK, Outcome
<1> QED
  BY <1>1, <1>2, NoAnswerType
  DEF DataNext, dataVars, ConnectionStep, ReadVariables, ChangeVariable, Count, SetCounter

-----------------------------------------------------------------------------
(* Nothing is missed *)

\* A client that waits for the variables of a user, and still wants them, is in the room
\* their changes are addressed to.
Waits(a) ==
    a.kept = "yes" =>
        /\ phase[a.socket] = "open"
        /\ FeatureRoom("USER_CONFIG", a.user) \in rooms[a.socket]
        /\ a.missed = "no"

NothingMissed == \A a \in asks : Waits(a)

LEMMA JoinGrows ==
    ASSUME TypeOK, NEW s \in Sockets, NEW room, Join(s, room), NEW q \in Sockets
    PROVE  rooms[q] \subseteq rooms'[q]
BY DEF TypeOK, Join

\* Only a disconnection and a removal take a room from an open socket.
LEMMA OthersStay ==
    ASSUME TypeOK, NEW q \in Sockets,
           \/ \E s \in Sockets : Staying(s) \/ (\E f \in Subscribable : AddFeature(s, f))
           \/ LookupStep
           \/ \E u \in Users, row \in UserRows : EditUser(u, row)
           \/ UNCHANGED vars
    PROVE  Stays(q)
<1>1. ASSUME NEW s \in Sockets, Staying(s)
      PROVE  Stays(q)
  BY <1>1
  DEF Staying, Connect, AddConnection, AuthStart, AuthBadToken, RejectToken, GuardFindsLapsed,
      Logout, TokenLapses, Stays, TypeOK
<1>2. ASSUME NEW s \in Sockets, NEW f \in Subscribable, AddFeature(s, f)
      PROVE  Stays(q)
  BY <1>2, JoinGrows DEF AddFeature, JoinFeatureRoom, Stays
<1>3. ASSUME NEW p \in pending, ReadUser(p) \/ ValidateReturn(p)
      PROVE  Stays(q)
  <2>1. p.socket \in Sockets
    BY DEF TypeOK, Lookup
  <2> QED
    BY <1>3, <2>1, JoinGrows
    DEF ReadUser, ValidateReturn, ReturnFound, ReturnMissing, ReturnFailed, RejectToken,
        JoinUserRoom, connVars, Stays
<1>4. CASE UNCHANGED vars \/ \E u \in Users, row \in UserRows : EditUser(u, row)
  BY <1>4 DEF vars, connVars, EditUser, Stays
<1> QED
  BY <1>1, <1>2, <1>3, <1>4 DEF LookupStep

\* A handler stays right while its socket keeps its rooms.
LEMMA WaitsStays ==
    ASSUME NEW a, Waits(a), Stays(a.socket)
    PROVE  Waits(a)'
BY DEF Waits, Stays

LEMMA LeavingMisses ==
    ASSUME TypeOK, AsksOK, NothingMissed, NEW s \in Sockets, Leaving(s)
    PROVE  NothingMissed'
<1>1. ASSUME NEW f \in Subscribable, RemoveFeature(s, f), GiveUp(s, f), NEW a \in asks,
             ~(a.socket = s /\ f = "USER_CONFIG")
      PROVE  Waits(a)'
  <2>1. FeatureRoom("USER_CONFIG", a.user) # FeatureRoom(f, auth[s].name) \/ a.socket # s
    BY <1>1 DEF FeatureRoom
  <2> QED
    BY <1>1, <2>1 DEF RemoveFeature, DropFeature, Leave, Waits, NothingMissed, TypeOK, AsksOK, Ask
<1>2. ASSUME Disconnect(s), NEW a \in asks, a.socket # s
      PROVE  Waits(a)'
  BY <1>2 DEF Disconnect, LeaveAll, Waits, NothingMissed, TypeOK, AsksOK, Ask
<1>3. \A a \in asks : [a EXCEPT !.kept = "no"].kept = "no"
  BY DEF AsksOK, Ask
<1>4. ASSUME NEW f, GiveUp(s, f), NEW b \in asks', b \notin asks
      PROVE  b.kept = "no"
  BY <1>3, <1>4 DEF GiveUp
<1>5. ASSUME NEW f, GiveUp(s, f), NEW b \in asks', b \in asks, b.socket = s, f = "USER_CONFIG"
      PROVE  b.kept = "no"
  <2>1. PICK a \in asks : b = IF a.socket = s /\ f = "USER_CONFIG" THEN [a EXCEPT !.kept = "no"] ELSE a
    BY <1>5 DEF GiveUp
  <2> QED
    BY <1>3, <1>5, <2>1
<1> QED
  BY <1>1, <1>2, <1>4, <1>5 DEF Leaving, NothingMissed, Waits

LEMMA AskMisses ==
    ASSUME TypeOK, NothingMissed, AsksOK, NEW s \in Sockets, AskUserConfig(s)
    PROVE  NothingMissed'
<1>1. PICK k \in FreeAsks :
         asks' = asks \cup {[id |-> k, socket |-> s, user |-> auth[s].name, step |-> "reading",
                             kept |-> "yes", missed |-> "no"]}
  BY DEF AskUserConfig
<1>2. /\ phase[s] = "open" /\ phase' = phase
      /\ FeatureRoom("USER_CONFIG", auth[s].name) \in rooms'[s]
      /\ \A q \in Sockets : rooms[q] \subseteq rooms'[q]
  BY JoinGrows DEF AskUserConfig, AddFeature, JoinFeatureRoom, Join, TypeOK
<1>3. \A a \in asks : a.socket \in Sockets
  BY DEF AsksOK, Ask
<1> QED
  BY <1>1, <1>2, <1>3 DEF NothingMissed, Waits

LEMMA StepMissed == ConnectionsInv /\ AsksOK /\ NothingMissed /\ [DataNext]_dataVars => NothingMissed'
<1> SUFFICES ASSUME ConnectionsInv, AsksOK, NothingMissed, [DataNext]_dataVars
             PROVE  NothingMissed'
  OBVIOUS
<1> USE DEF ConnectionsInv
<1>1. ASSUME \A q \in Sockets : Stays(q), asks' \subseteq asks
      PROVE  NothingMissed'
  BY <1>1, WaitsStays DEF NothingMissed, AsksOK, Ask
<1>2. CASE ConnectionStep
  <2>1. ASSUME NEW s \in Sockets, Leaving(s)
        PROVE  NothingMissed'
    BY <2>1, LeavingMisses
  <2>2. CASE UNCHANGED asks /\
             \/ \E s \in Sockets : Staying(s)
             \/ LookupStep
             \/ \E u \in Users, row \in UserRows : EditUser(u, row)
    BY <1>1, <2>2, OthersStay
  <2> QED
    BY <1>2, <2>1, <2>2 DEF ConnectionStep
<1>3. ASSUME NEW s \in Sockets, Add(s)
      PROVE  NothingMissed'
  <2>1. ASSUME NEW f \in Subscribable, Refuse(s, f) \/ AddAnswered(s, f)
        PROVE  NothingMissed'
    BY <1>1, <2>1, OthersStay DEF Refuse, AddAnswered
  <2> QED
    BY <1>3, <2>1, AskMisses DEF Add
<1>4. ASSUME NEW a \in asks, ReadVariables(a)
      PROVE  NothingMissed'
  <2>1. PICK step \in {"read", "failed"} : asks' = (asks \ {a}) \cup {[a EXCEPT !.step = step]}
    BY <1>4 DEF ReadVariables
  <2> DEFINE b == [a EXCEPT !.step = step]
  <2>2. b.kept = a.kept /\ b.missed = a.missed /\ b.socket = a.socket /\ b.user = a.user
    BY DEF AsksOK, Ask
  <2>3. Waits(b)
    BY <2>2 DEF NothingMissed, Waits
  <2>4. UNCHANGED <<phase, rooms>>
    BY <1>4 DEF ReadVariables, vars, connVars
  <2> QED
    BY <2>1, <2>3, <2>4 DEF NothingMissed, Waits
<1>5. ASSUME NEW u \in Users, ChangeVariable(u)
      PROVE  NothingMissed'
  <2>1. UNCHANGED <<phase, rooms>>
    BY <1>5 DEF ChangeVariable, vars, connVars
  <2>2. \A a \in asks : [a EXCEPT !.missed = "yes"].kept = a.kept
    BY DEF AsksOK, Ask
  <2> QED
    BY <1>5, <2>1, <2>2 DEF ChangeVariable, NothingMissed, Waits
<1>6. CASE UNCHANGED dataVars \/ Count \/ \E value \in 0 .. MaxCounter : SetCounter(value)
  BY <1>1, <1>6, OthersStay DEF dataVars, Count, SetCounter
<1>7. ASSUME NEW a \in asks, AnswerAsk(a)
      PROVE  NothingMissed'
  BY <1>1, <1>7, OthersStay DEF AnswerAsk
<1> QED
  BY <1>2, <1>3, <1>4, <1>5, <1>6, <1>7 DEF DataNext

DataInv == ConnectionsInv /\ AsksOK /\ CounterOK /\ answer \in Answers /\ NothingMissed

LEMMA InitDataInv == DataInit => DataInv
<1> SUFFICES ASSUME DataInit
             PROVE  DataInv
  OBVIOUS
<1>1. ConnectionsInv
  BY InitConnections DEF DataInit
<1>2. NothingMissed
  BY DEF DataInit, NothingMissed
<1> QED
  BY <1>1, <1>2, InitData DEF DataInv

LEMMA StepDataInv == DataInv /\ [DataNext]_dataVars => DataInv'
BY DataStepIsStep, StepConnections, StepAsks, StepCounter, StepAnswer, StepMissed DEF DataInv

\* Handlers in flight and answers keep their shape.
THEOREM DataTypeCorrect == DataSpec => []DataTypeOK
<1>1. DataInv => DataTypeOK
  BY DEF DataInv, ConnectionsInv, AsksOK, CounterOK, DataTypeOK
<1> QED
  BY <1>1, InitDataInv, StepDataInv, PTL DEF DataSpec

\* A client that subscribes to the user variables misses no change of them.
THEOREM NothingMissedTheorem == DataSpec => []NothingMissedWhileAsking
<1>1. DataInv => NothingMissedWhileAsking
  BY DEF DataInv, NothingMissed, Waits, NothingMissedWhileAsking
<1> QED
  BY <1>1, InitDataInv, StepDataInv, PTL DEF DataSpec

-----------------------------------------------------------------------------
(* Initial data *)

Due ==
    answer'.outcome = "data" =>
        LET s == answer'.socket
            f == answer'.feature
        IN /\ f # "USER_CONFIG" => FeatureRoom(f, NoUser) \in rooms'[s]
           /\ f = "COUNTER" => answer'.value = pushed
           /\ f = "CLIENT_MONITOR" => auth[s] = NoAuth \/ "admin" \in auth[s].roles


LEMMA ReplyFields ==
    ASSUME NEW s, NEW f, NEW outcome, Reply(s, f, outcome)
    PROVE  /\ answer'.outcome = outcome /\ answer'.socket = s /\ answer'.feature = f
           /\ f = "COUNTER" => answer'.value = counter
BY DEF Reply

LEMMA StepDue == DataInv /\ [DataNext]_dataVars => [Due]_dataVars
<1> SUFFICES ASSUME DataInv, DataNext
             PROVE  Due
  OBVIOUS
<1>1. CASE answer' = NoAnswer
  BY <1>1 DEF NoAnswer, Due
<1>2. ASSUME NEW s \in Sockets, NEW f \in Subscribable, Refuse(s, f)
      PROVE  Due
  BY <1>2, ReplyFields DEF Refuse, Due
<1>3. ASSUME NEW s \in Sockets, NEW f \in Subscribable, AddAnswered(s, f)
      PROVE  Due
  <2>1. CASE f # "USER_CONFIG" /\ Reply(s, f, "data")
    <3>1. answer'.socket = s /\ answer'.feature = f /\ (f = "COUNTER" => answer'.value = counter)
      BY <2>1, ReplyFields
    <3>2. phase[s] = "open" /\ FeatureAdmitted(s, f) /\ JoinFeatureRoom(s, f)
      BY <1>3 DEF AddAnswered, AddFeature
    <3>3. FeatureRoom(f, auth[s].name) = FeatureRoom(f, NoUser)
      BY <2>1, SubscribableAssumption, RoomsApart DEF Global, UserSpecific
    <3>4. FeatureRoom(f, NoUser) \in rooms'[s]
      BY <3>2, <3>3 DEF JoinFeatureRoom, Join, DataInv, ConnectionsInv, TypeOK
    <3>5. f = "CLIENT_MONITOR" => auth[s] = NoAuth \/ "admin" \in auth[s].roles
      BY <3>2 DEF FeatureAdmitted, InitialDataRoles
    <3> QED  BY <3>1, <3>4, <3>5 DEF Due, DataInv, CounterOK
  <2>2. CASE Reply(s, f, "error")
    BY <2>2, ReplyFields DEF Due
  <2> QED
    BY <1>3, <2>1, <2>2 DEF AddAnswered
<1>4. ASSUME NEW a \in asks, AnswerAsk(a)
      PROVE  Due
  BY <1>1, <1>4, ReplyFields DEF AnswerAsk, Due
<1> QED
  BY <1>1, <1>2, <1>3, <1>4
  DEF DataNext, Add, ConnectionStep, AskUserConfig, ReadVariables, ChangeVariable, Count, SetCounter

\* Initial data leave no gap to what is told later, and connections are not answered to
\* an authenticated user without the role.
THEOREM InitialDataTheorem == DataSpec => InitialDataAreDue
<1>1. DataInv /\ [DataNext]_dataVars =>
        [answer'.outcome = "data" =>
            LET s == answer'.socket
                f == answer'.feature
            IN /\ f # "USER_CONFIG" => FeatureRoom(f, NoUser) \in rooms'[s]
               /\ f = "COUNTER" => answer'.value = pushed
               /\ f = "CLIENT_MONITOR" =>
                      auth[s] = NoAuth \/ "admin" \in auth[s].roles]_dataVars
  BY StepDue DEF Due
<1> QED
  BY <1>1, InitDataInv, StepDataInv, PTL DEF DataSpec, InitialDataAreDue
=============================================================================
