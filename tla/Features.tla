------------------------------ MODULE Features ------------------------------
(***************************************************************************)
(* The feature catalogue shared by server and client                       *)
(* (libs/@nestjs-orm/client/src/model/feature.model.ts) and the names of   *)
(* the socket.io rooms computed from it (client-connection-utils.ts).      *)
(*                                                                         *)
(* A set of features or roles stands for the bit mask the code keeps: the  *)
(* bits of FEATURE_CONFIG are pairwise distinct powers of two, so "|",     *)
(* "& ~" and "& bit !== 0" are union, difference and membership.           *)
(***************************************************************************)
CONSTANTS
    Users,      \* names of the users that can appear in a token
    NoUser      \* `undefined` where a user name is expected

ASSUME NoUserAssumption == NoUser \notin Users

Feature == {"APP_CONFIG", "USER_CONFIG", "COUNTER", "CLIENT_MONITOR"}

\* The roles a user row can carry.  Role.All only occurs in feature metadata.
Role == {"admin", "user"}

UserSpecific == {"USER_CONFIG"}

Global == Feature \ UserSpecific

(* FEATURE_CONFIG.initialDataRoles; "all" admits every authenticated user. *)
InitialDataRoles(f) == IF f = "CLIENT_MONITOR" THEN {"admin"} ELSE {"all"}

MaybeUser == Users \cup {NoUser}

(***************************************************************************)
(* Rooms.  <<f, NoUser>> is "f@" for a global feature and the literal      *)
(* "f@undefined" for a user-specific one (the code logs and goes on);      *)
(* <<NoFeature, u>> is the user room "@u".                                 *)
(***************************************************************************)
NoFeature == "none"

Room == (Feature \cup {NoFeature}) \X MaybeUser

FeatureRoom(f, u) == <<f, IF f \in UserSpecific THEN u ELSE NoUser>>

UserRoom(u) == <<NoFeature, u>>
=============================================================================
