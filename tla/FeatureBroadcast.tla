-------------------------- MODULE FeatureBroadcast --------------------------
(***************************************************************************)
(* ClientConnectionService.broadcast: a feature provider (AppConfigService,*)
(* UserConfigService, CounterService) pushes a data change to the          *)
(* subscribers of its feature, through AppGateway.broadcastToRoom.         *)
(***************************************************************************)
EXTENDS ClientConnections

CONSTANT MaxPushes      \* bounds the number of broadcasts

VARIABLES
    pushes,     \* number of broadcasts made
    reached     \* the sockets the last one was emitted to

pushVars == <<vars, pushes, reached>>

Pushable == Subscribable \ {"CLIENT_MONITOR"}

\* isFeatureExistInBitValues(this.activeFeatures, feature)
FeatureActive(f) == f \in ReadActiveFeatures

\* wsServer.to(room).emit
EmitToRoom(room) == {s \in Sockets : room \in rooms[s]}

\* u is the owner for a user-specific feature and undefined for a global one.
Broadcast(f, u) ==
    /\ pushes < MaxPushes
    /\ pushes' = pushes + 1
    /\ reached' = IF FeatureActive(f) THEN EmitToRoom(FeatureRoom(f, u)) ELSE {}
    /\ UNCHANGED vars

Targets == {<<f, u>> \in Pushable \X MaybeUser : u = NoUser <=> f \in Global}

PushInit == Init /\ pushes = 0 /\ reached = {}

PushNext ==
    \/ Next /\ UNCHANGED <<pushes, reached>>
    \/ \E t \in Targets : Broadcast(t[1], t[2])

PushSpec == PushInit /\ [][PushNext]_pushVars

-----------------------------------------------------------------------------
\* "Broadcast data to feature consumers who subscribed to a feature": a broadcast
\* reaches every open connection that has the feature and is in its room.
Subscribers(f, u) == {s \in Open : f \in features[s] /\ FeatureRoom(f, u) \in rooms[s]}

BroadcastReachesSubscribers ==
    [][\A t \in Targets : Broadcast(t[1], t[2]) => Subscribers(t[1], t[2]) \subseteq reached']_pushVars
=============================================================================
