------------------------ MODULE MCClientConnections ------------------------
(* Instances of ClientConnections for TLC. *)
EXTENDS ClientConnections

ActiveAdmin == [state |-> "active", roles |-> {"admin"}]
ActiveUser == [state |-> "active", roles |-> {"user"}]
Disabled == [state |-> "inactive", roles |-> {"user"}]
Deleted == [state |-> "deleted", roles |-> {}]

\* One socket, two users: overlapping authentications and every outcome of a lookup.
RaceRows == {ActiveAdmin, ActiveUser, Deleted}
RaceFeatures == {"USER_CONFIG"}

\* Two sockets, one user whose row changes while he is looked up or logged in: the
\* collector, disconnections, a feature for admins only.
SharedRows == {ActiveAdmin, ActiveUser, Disabled}
SharedFeatures == {"APP_CONFIG", "CLIENT_MONITOR"}
=============================================================================
