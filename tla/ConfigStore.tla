---------------------------- MODULE ConfigStore ----------------------------
(***************************************************************************)
(* What the clients of a configuration may rely on: an atomic store of the *)
(* variables of each owner, the users or the application.  Every get and   *)
(* every set takes effect at one moment between its invocation and its     *)
(* answer; a call that fails may or may not have taken effect.  The store  *)
(* keeps variables, it does not make them: a set of a variable that is not *)
(* there has no effect.                                                    *)
(***************************************************************************)
CONSTANTS
    Users,      \* owners
    Vars,       \* configuration ids
    Text,       \* values
    Missing,    \* no value
    Slots,      \* calls
    Tables      \* what a user's variables can be at the start

VARIABLES
    value,      \* the variables of each user
    op          \* the calls: idle, invoked, or done and not yet answered

vars == <<value, op>>

Rows == [Vars -> Text \cup {Missing}]
NoRows == [v \in Vars |-> Missing]

Idle == [kind |-> "idle"]
Get(u, step, result) == [kind |-> "get", user |-> u, step |-> step, result |-> result]
Set(u, v, text, step) ==
    [kind |-> "set", user |-> u, var |-> v, text |-> text, step |-> step]

Become(r, o) == op' = [op EXCEPT ![r] = o]

\* The variables of everyone once set o has taken effect.
Written(o) ==
    IF value[o.user][o.var] = Missing THEN value
    ELSE [value EXCEPT ![o.user][o.var] = o.text]

Invoke(r) ==
    /\ op[r] = Idle
    /\ \E u \in Users :
          \/ Become(r, Get(u, "invoked", NoRows))
          \/ \E v \in Vars, text \in Text : Become(r, Set(u, v, text, "invoked"))
    /\ UNCHANGED value

TakeEffect(r) ==
    LET o == op[r] IN
    \/ /\ o.kind = "get" /\ o.step = "invoked"
       /\ Become(r, Get(o.user, "done", value[o.user]))
       /\ UNCHANGED value
    \/ /\ o.kind = "set" /\ o.step = "invoked"
       /\ Become(r, Set(o.user, o.var, o.text, "done"))
       /\ value' = Written(o)

Answer(r) ==
    /\ op[r].kind # "idle" /\ op[r].step = "done"
    /\ Become(r, Idle)
    /\ UNCHANGED value

Fail(r) ==
    LET o == op[r] IN
    /\ o.kind # "idle"
    /\ Become(r, Idle)
    /\ \/ UNCHANGED value
       \/ o.kind = "set" /\ o.step = "invoked" /\ value' = Written(o)

\* All calls fail together.
FailAll == op' = [r \in Slots |-> Idle] /\ UNCHANGED value

\* An owner and his variables disappear.
Remove(u) == value' = [value EXCEPT ![u] = NoRows] /\ UNCHANGED op

Init ==
    /\ value \in [Users -> Tables]
    /\ op = [r \in Slots |-> Idle]

Next ==
    \/ \E r \in Slots : Invoke(r) \/ TakeEffect(r) \/ Answer(r) \/ Fail(r)
    \/ FailAll
    \/ \E u \in Users : Remove(u)

Spec == Init /\ [][Next]_vars
=============================================================================
