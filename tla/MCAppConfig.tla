---------------------------- MODULE MCAppConfig ----------------------------
(* Instances of AppConfig for TLC: a Boolean variable "flag", first among  *)
(* the descriptors, that clients change, and a String variable "name".     *)
EXTENDS AppConfig, TLC


BothVars == {"flag", "name"}
FlagFirst == [v \in BothVars |-> IF v = "flag" THEN 0 ELSE 1]
Flag == {"flag"}

\* "" is falsy, "off" is a text no Boolean prints as.
Texts == {"", "true", "false", "off"}

\* .env defines the name only: a reload throws at the flag where the table has no text
\* for it, and does not reach the name.
NameFromEnv == [v \in BothVars |-> IF v = "name" THEN "off" ELSE Missing]

\* Every content of the flag's row; the name is stored, with another text, or not.
FlagTables == {t \in [BothVars -> Texts \cup {Missing}] : t["name"] \in {"true", Missing}}

\* Nothing tells one set request from another but its slot.
SameSlots == Permutations(SetSlots)
=============================================================================
