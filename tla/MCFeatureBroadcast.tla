------------------------- MODULE MCFeatureBroadcast -------------------------
(* The instance of FeatureBroadcast on which a subscriber is missed. *)
EXTENDS FeatureBroadcast

OneActiveUser == {[state |-> "active", roles |-> {"user"}]}
PushFeatures == {"APP_CONFIG", "USER_CONFIG"}
=============================================================================
