---------------------------- MODULE MCUserAdmin ----------------------------
(* Instances of UserAdmin for TLC. *)
EXTENDS UserAdmin

AdminRights == [roles |-> {"admin"}, active |-> "yes"]
UserRights == [roles |-> {"user"}, active |-> "yes"]
DisabledRights == [roles |-> {"user"}, active |-> "no"]
SomeRights == {AdminRights, UserRights, DisabledRights}
SomePasswords == {"", "p"}

\* One administrator; every other row is inserted by him.
OneAdmin ==
    [i \in Ids |-> IF i = 1 THEN [name |-> "n1", pwd |-> Hash("p"), rights |-> AdminRights]
                   ELSE Absent]
TwoNames == {"n1", "n2"}

\* Changes of one column: another name, the same password, fewer rights.
OneColumn ==
    {[name |-> "n2", pwd |-> Keep, rights |-> Keep],
     [name |-> Keep, pwd |-> "p", rights |-> Keep],
     [name |-> Keep, pwd |-> Keep, rights |-> DisabledRights]}
=============================================================================
