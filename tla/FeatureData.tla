----------------------------- MODULE FeatureData -----------------------------
(***************************************************************************)
(* ClientConnections composed with the feature data providers: what a      *)
(* client that adds a feature is answered (AppGateway.handleAddFeature,    *)
(* FeatureDataProviderLocatorService), and the changes of the data that    *)
(* providers address to the rooms of its feature meanwhile.                *)
(*                                                                         *)
(* The application variables, the counter and the connections are in       *)
(* memory, and such an AddFeature is one step.  The user variables are     *)
(* read from the database: the room is joined first, then the query runs,  *)
(* then the client is answered.                                            *)
(*                                                                         *)
(* A change is addressed to a room.  Whether socket.io is then asked to    *)
(* emit it is the subject of FeatureBroadcast.                             *)
(***************************************************************************)
EXTENDS ClientConnections

CONSTANTS
    Slots,        \* bounds the AddFeature handlers that wait for the database
    MaxCounter    \* bounds the counter

ASSUME MaxCounterAssumption == MaxCounter \in Nat

VARIABLES
    asks,      \* AddFeature handlers of USER_CONFIG in flight
    answer,    \* the answer given in the last step, if it gave one
    counter,   \* CounterService.counter
    pushed     \* the value of the counter last addressed to its room

dataVars == <<vars, asks, answer, counter, pushed>>

(***************************************************************************)
(* kept: the client has stayed, and has not removed the feature, since it  *)
(* asked.  missed (history): the variables have changed since they were    *)
(* read, and the change was addressed to no room of the client.            *)
(***************************************************************************)
Ask == [id : Slots, socket : Sockets, user : Users, step : {"reading", "read", "failed"},
        kept : {"yes", "no"}, missed : {"yes", "no"}]

FreeAsks == Slots \ {a.id : a \in asks}

Outcome == {"data", "unauthorized", "error"}
NoAnswer == [outcome |-> "none"]
Answers == {NoAnswer} \cup [outcome : Outcome, socket : Sockets, feature : Feature, value : Nat]

Reply(s, f, outcome) ==
    answer' = [outcome |-> outcome, socket |-> s, feature |-> f,
               value |-> IF f = "COUNTER" THEN counter ELSE 0]

-----------------------------------------------------------------------------
(* AddFeature *)


\* The gateway throws before anything is subscribed.
Refuse(s, f) ==
    /\ phase[s] = "open"
    /\ ~FeatureAdmitted(s, f)
    /\ Reply(s, f, "unauthorized")
    /\ UNCHANGED <<vars, asks, counter, pushed>>

(***************************************************************************)
(* The room is joined and the feature recorded.  The four providers answer *)
(* 'AnyRole', so the locator refuses nobody: a connection no user has been *)
(* authenticated on, which FeatureAdmitted admits, gets the data too.      *)
(* They are in memory, except the variables of a user, whose provider      *)
(* throws where there is no user; the subscription is not undone.          *)
(***************************************************************************)
AddAnswered(s, f) ==
    /\ AddFeature(s, f)
    /\ \/ f = "USER_CONFIG" /\ auth[s] = NoAuth /\ Reply(s, f, "error")
       \/ f # "USER_CONFIG" /\ Reply(s, f, "data")
    /\ UNCHANGED <<asks, counter, pushed>>

\* Mutant: the room is not joined before the query.
AskUserConfigFirst(s) ==
    /\ auth[s] # NoAuth /\ phase[s] = "open" /\ FeatureAdmitted(s, "USER_CONFIG")
    /\ features' = [features EXCEPT ![s] = WithFeature(@, "USER_CONFIG")]
    /\ UNCHANGED <<phase, auth, roles, token>>
    /\ MergeActiveFeatures(s)
    /\ Announce(s)
    /\ \E k \in FreeAsks :
          asks' = asks \cup {[id |-> k, socket |-> s, user |-> auth[s].name, step |-> "reading",
                              kept |-> "yes", missed |-> "no"]}
    /\ answer' = NoAnswer
    /\ UNCHANGED <<rooms, pending, userTable, userEdits, counter, pushed>>

\* The variables of the user are asked for.
AskUserConfig(s) ==
    /\ auth[s] # NoAuth
    /\ AddFeature(s, "USER_CONFIG")
    /\ \E k \in FreeAsks :
          asks' = asks \cup {[id |-> k, socket |-> s, user |-> auth[s].name, step |-> "reading",
                              kept |-> "yes", missed |-> "no"]}
    /\ answer' = NoAnswer
    /\ UNCHANGED <<counter, pushed>>

\* Mutant: the query is evaluated and stays open.
ReadVariablesTwice(a) ==
    /\ a.step = "reading"
    /\ \E step \in {"read", "failed"} : asks' = asks \cup {[a EXCEPT !.step = step]}
    /\ answer' = NoAnswer
    /\ UNCHANGED <<vars, counter, pushed>>

\* The query is evaluated, or fails.
ReadVariables(a) ==
    /\ a.step = "reading"
    /\ \E step \in {"read", "failed"} : asks' = (asks \ {a}) \cup {[a EXCEPT !.step = step]}
    /\ answer' = NoAnswer
    /\ UNCHANGED <<vars, counter, pushed>>

\* Mutant: a query that failed is not answered.
AnswerAskRead(a) ==
    /\ a.step = "read"
    /\ asks' = asks \ {a}
    /\ Reply(a.socket, "USER_CONFIG", "data")
    /\ UNCHANGED <<vars, counter, pushed>>

\* The continuation; socket.io drops an answer to a socket that has closed.
AnswerAsk(a) ==
    /\ a.step # "reading"
    /\ asks' = asks \ {a}
    /\ IF phase[a.socket] # "open" THEN answer' = NoAnswer
       ELSE Reply(a.socket, "USER_CONFIG", IF a.step = "read" THEN "data" ELSE "error")
    /\ UNCHANGED <<vars, counter, pushed>>

-----------------------------------------------------------------------------
(* The other messages of a client *)

GiveUp(s, f) ==
    asks' = {IF a.socket = s /\ f = "USER_CONFIG" THEN [a EXCEPT !.kept = "no"] ELSE a : a \in asks}

\* Steps of ClientConnections that leave rooms ...
Leaving(s) ==
    \/ Disconnect(s) /\ GiveUp(s, "USER_CONFIG")
    \/ \E f \in Subscribable : RemoveFeature(s, f) /\ GiveUp(s, f)

\* ... and that do not.
Staying(s) ==
    \/ Connect(s)
    \/ \E u \in Users : AuthStart(s, u) \/ AuthBadToken(s, u)
    \/ GuardFindsLapsed(s) \/ Logout(s)
    \/ TokenLapses(s)

ConnectionStep ==
    /\ \/ \E s \in Sockets : Leaving(s)
       \/ /\ (\E s \in Sockets : Staying(s)) \/ LookupStep
             \/ \E u \in Users, row \in UserRows : EditUser(u, row)
          /\ UNCHANGED asks
    /\ answer' = NoAnswer
    /\ UNCHANGED <<counter, pushed>>

-----------------------------------------------------------------------------
(* Changes of the data *)

\* UserConfigService.setVariable, for the variables of user u, from notifyDataChanged on.
ChangeVariable(u) ==
    /\ asks' = {IF /\ a.user = u
                   /\ a.step # "reading"
                   /\ FeatureRoom("USER_CONFIG", u) \notin rooms[a.socket]
                THEN [a EXCEPT !.missed = "yes"] ELSE a : a \in asks}
    /\ answer' = NoAnswer
    /\ UNCHANGED <<vars, counter, pushed>>

\* FeatureDataProviderBase.notifyDataChanged, of the counter
NotifyDataChanged(value) == pushed' = value

\* The providers made with an event service: their FeatureEventListener receives the
\* application events of the feature.
Listening == {"COUNTER"}

\* FeatureEventListener: the event goes to notifyDataChanged of the provider.
Listener(f, value) == IF f \in Listening THEN NotifyDataChanged(value) ELSE UNCHANGED pushed

\* FeatureEventEmitter.emitFeatureDataChanged and EventsApiService.emit: the listeners run
\* within the call.
EmitFeatureDataChanged(f, value) == Listener(f, value)

\* CounterService.count: the interval, unless DEV_COUNTER is off.
Count ==
    /\ counter < MaxCounter
    /\ counter' = counter + 1
    /\ NotifyDataChanged(counter')
    /\ answer' = NoAnswer
    /\ UNCHANGED <<vars, asks>>

\* Mutant: the service is set and no event emitted.
SetCounterSilent(value) ==
    /\ counter' = value
    /\ answer' = NoAnswer
    /\ UNCHANGED <<vars, asks, pushed>>

\* PUT /counter/:value sets the service and emits an event.
SetCounter(value) ==
    /\ counter' = value
    /\ EmitFeatureDataChanged("COUNTER", value)
    /\ answer' = NoAnswer
    /\ UNCHANGED <<vars, asks>>

-----------------------------------------------------------------------------
DataInit == Init /\ asks = {} /\ answer = NoAnswer /\ counter = 0 /\ pushed = 0

Add(s) ==
    \/ \E f \in Subscribable : Refuse(s, f) \/ AddAnswered(s, f)
    \/ "USER_CONFIG" \in Subscribable /\ AskUserConfig(s)

DataNext ==
    \/ ConnectionStep
    \/ \E s \in Sockets : Add(s)
    \/ \E a \in asks : ReadVariables(a) \/ AnswerAsk(a)
    \/ \E u \in Users : ChangeVariable(u)
    \/ Count
    \/ \E value \in 0 .. MaxCounter : SetCounter(value)

(***************************************************************************)
(* The database answers every query or fails it, and the event loop runs   *)
(* every continuation.  Clients owe nothing.                               *)
(***************************************************************************)
DataSpec ==
    /\ DataInit /\ [][DataNext]_dataVars
    /\ \A k \in Slots :
          WF_dataVars(\E a \in asks : a.id = k /\ (ReadVariables(a) \/ AnswerAsk(a)))

-----------------------------------------------------------------------------
(* Properties *)

\* The handlers in flight and the answers have the shape the gateway assumes.
DataTypeOK ==
    /\ TypeOK
    /\ asks \subseteq Ask
    /\ \A a, b \in asks : a.id = b.id => a = b
    /\ answer \in Answers
    /\ counter \in Nat /\ pushed \in Nat

\* A client that subscribes to the user variables misses no change of them: those made
\* before the query are in the initial data and those made after are addressed to a
\* room it is in, whoever it authenticates as meanwhile and even if it logs out, until
\* it removes the feature or closes.
NothingMissedWhileAsking == \A a \in asks : a.kept = "yes" => a.missed = "no"

\* Initial data leave no gap to what is told later: whoever is answered the counter or
\* the connections is in the room of their changes by then, and the counter is the one
\* its room was told last, whether it was counted or set.  An authenticated user without
\* the role of administrator is not answered the connections; a connection nobody has
\* authenticated is.
InitialDataAreDue ==
    [][answer'.outcome = "data" =>
          LET s == answer'.socket
              f == answer'.feature
          IN /\ f # "USER_CONFIG" => FeatureRoom(f, NoUser) \in rooms'[s]
             /\ f = "COUNTER" => answer'.value = pushed
             /\ f = "CLIENT_MONITOR" =>
                    auth[s] = NoAuth \/ "admin" \in auth[s].roles]_dataVars

\* Every AddFeature is answered or its socket has closed, also when the query fails or
\* the client meanwhile removes the feature, logs out or authenticates as another: each
\* slot is free again and again.
AsksAnswered == \A k \in Slots : []<>(\A a \in asks : a.id # k)
=============================================================================
