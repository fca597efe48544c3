--------------------------- MODULE MCFeatureData ---------------------------
(* Instances of FeatureData for TLC. *)
EXTENDS FeatureData

DataRows == {[state |-> "active", roles |-> {"admin"}], [state |-> "active", roles |-> {"user"}]}
DataFeatures == {"USER_CONFIG", "CLIENT_MONITOR", "COUNTER"}
=============================================================================
