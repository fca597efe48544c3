---------------------------- MODULE MCUserConfig ----------------------------
(* Instances of UserConfig for TLC. *)
EXTENDS UserConfig

\* One variable that is stored and one that is stored or not.
AllTables == {t \in Rows : t["v1"] # Missing}
TwoVars == {"v1", "v2"}

\* For the run that ends in a violation.
EmptyTable == {NoRows}
=============================================================================
