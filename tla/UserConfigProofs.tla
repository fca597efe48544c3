-------------------------- MODULE UserConfigProofs --------------------------
(***************************************************************************)
(* Proofs about UserConfig: its type invariant, what an answered set has   *)
(* stored, what is left of a deleted user, and that it implements the      *)
(* atomic store of ConfigStore.                                            *)
(***************************************************************************)
EXTENDS UserConfig, TLAPS

-----------------------------------------------------------------------------
(* Types *)

\* The kind of a call tells the fields it has.
LEMMA KindTells ==
    ASSUME TypeOK, NEW r \in Slots
    PROVE  /\ call[r].kind = "idle" => call[r] = Idle
           /\ call[r].kind = "get" => call[r] \in GetCall
           /\ call[r].kind = "set" => call[r] \in SetCall
           /\ call[r].kind \in {"idle", "get", "set"}
BY DEF TypeOK, Idle, GetCall, SetCall

\* The row of a set holds a text or is missing.
LEMMA RowType ==
    ASSUME TypeOK, NEW r \in Slots, call[r].kind = "set"
    PROVE  Row(r) \in MaybeText
BY KindTells DEF TypeOK, SetCall, Rows, Row

\* An update of one row leaves a table.
LEMMA FlushedType ==
    ASSUME TypeOK, NEW c \in SetCall
    PROVE  Flushed(c) \in [Users -> Rows]
BY DEF TypeOK, SetCall, Flushed, Rows, MaybeText

\* The calls and the table have their shape at the start and after each step.
LEMMA InitType == Init => TypeOK
BY TablesAssumption DEF Init, TypeOK

LEMMA StepType == TypeOK /\ [Next]_vars => TypeOK'
<1> SUFFICES ASSUME TypeOK, [Next]_vars
             PROVE  TypeOK'
  OBVIOUS
<1>1. ASSUME NEW r \in Slots, CallStep(r)
      PROVE  TypeOK'
  <2>1. ASSUME NEW u \in Users, GetStart(r, u)
        PROVE  TypeOK'
    BY <2>1 DEF GetStart, TypeOK, GetCall, NoRows, Rows, MaybeText
  <2>2. ASSUME NEW u \in Users, NEW v \in Vars, NEW text \in Text, SetStart(r, u, v, text)
        PROVE  TypeOK'
    <3>1. \A q \in Slots : Sets(q, u, v) => [call[q] EXCEPT !.alone = FALSE] \in SetCall
      BY KindTells DEF Sets, SetCall
    <3>2. [kind |-> "set", user |-> u, var |-> v, text |-> text, seen |-> Missing,
           step |-> "loading", alone |-> \A o \in Slots : ~Sets(o, u, v)] \in SetCall
      BY DEF SetCall, MaybeText
    <3> QED
      BY <2>2, <3>1, <3>2 DEF SetStart, TypeOK
  <2>3. CASE GetRead(r)
    BY <2>3, KindTells DEF GetRead, At, TypeOK, GetCall
  <2>4. CASE GetReturn(r) \/ SetReturn(r) \/ CallFail(r)
    BY <2>4 DEF GetReturn, SetReturn, CallFail, End, TypeOK
  <2>5. CASE SetLoad(r) \/ SetReload(r)
    BY <2>5, KindTells DEF SetLoad, SetReload, At, GoTo, TypeOK, SetCall
  <2>6. CASE SetRead(r)
    <3>1. call[r] \in SetCall /\ Row(r) \in MaybeText
      BY <2>6, KindTells, RowType DEF SetRead, At
    <3>2. [call[r] EXCEPT !.step = "flushing", !.seen = Row(r)] \in SetCall
      BY <3>1 DEF SetCall
    <3> QED
      BY <2>6, <3>2 DEF SetRead, TypeOK
  <2>7. CASE SetCommit(r)
    <3>1. call[r] \in SetCall
      BY <2>7, KindTells DEF SetCommit, At
    <3>2. call' \in [Slots -> {Idle} \cup GetCall \cup SetCall]
      BY <2>7, <3>1 DEF SetCommit, GoTo, TypeOK, SetCall
    <3> QED
      BY <2>7, <3>1, <3>2, FlushedType DEF SetCommit, TypeOK
  <2>8. CASE SetAnswerLost(r)
    <3>1. call[r] \in SetCall
      BY <2>8, KindTells DEF SetAnswerLost, At
    <3> QED
      BY <2>8, <3>1, FlushedType DEF SetAnswerLost, End, TypeOK
  <2> QED
    BY <1>1, <2>1, <2>2, <2>3, <2>4, <2>5, <2>6, <2>7, <2>8 DEF CallStep
<1>2. ASSUME NEW u \in Users, DeleteUser(u)
      PROVE  TypeOK'
  BY <1>2 DEF DeleteUser, TypeOK, NoRows, Rows, MaybeText
<1>3. CASE Crash
  BY <1>3 DEF Crash, TypeOK
<1>4. CASE UNCHANGED vars
  BY <1>4 DEF vars, TypeOK
<1> QED
  BY <1>1, <1>2, <1>3, <1>4 DEF Next

\* The table and the calls in flight keep their shape, whatever overlaps.
THEOREM TypeCorrect == Spec => []TypeOK
<1>1. Init => TypeOK
  BY InitType
<1>2. TypeOK /\ [Next]_vars => TypeOK'
  BY StepType
<1> QED
  BY <1>1, <1>2, PTL DEF Spec

-----------------------------------------------------------------------------
(* Lone sets and deleted users *)

\* A set nobody overlapped is alone on its variable; until it commits the row is what
\* it read, and after that the row is what it wrote.
LoneSet(r) ==
    call[r].kind = "set" /\ call[r].alone =>
        /\ \A o \in Slots \ {r} : ~Sets(o, call[r].user, call[r].var)
        /\ call[r].seen # Missing /\ call[r].user \in users =>
              /\ call[r].step = "flushing" => Row(r) = call[r].seen
              /\ call[r].step = "done" => Row(r) = call[r].text

Safety == (\A r \in Slots : LoneSet(r)) /\ DeletedOwnsNothing

LEMMA InitSafety == Init => Safety
BY DEF Init, Safety, LoneSet, Idle, DeletedOwnsNothing

\* A call that ends, by an answer or not, takes its claim with it.
LEMMA EndKeepsLone ==
    ASSUME TypeOK, NEW r \in Slots, End(r), UNCHANGED <<users, db>>, NEW q \in Slots, LoneSet(q)
    PROVE  LoneSet(q)'
<1>1. CASE q = r
  BY <1>1 DEF End, LoneSet, TypeOK, Idle
<1>2. CASE q # r
  BY <1>2 DEF End, LoneSet, TypeOK, Idle, Sets, Row
<1> QED
  BY <1>1, <1>2

\* A flush leaves the rows of lone sets of other calls alone.
LEMMA FlushKeepsOthers ==
    ASSUME TypeOK, NEW r \in Slots, call[r].kind = "set", NEW q \in Slots \ {r}, LoneSet(q),
           call[q].kind = "set", call[q].alone
    PROVE  Flushed(call[r])[call[q].user][call[q].var] = Row(q)
<1>1. call[r] \in SetCall /\ call[q] \in SetCall
  BY KindTells
<1>2. call[r].user # call[q].user \/ call[r].var # call[q].var
  BY DEF LoneSet, Sets
<1> QED
  BY <1>1, <1>2 DEF Flushed, Row, TypeOK, SetCall, Rows

\* A flush keeps the rows of deleted users missing.
LEMMA FlushKeepsDeleted ==
    ASSUME TypeOK, DeletedOwnsNothing, NEW c \in SetCall, NEW u \in Users \ users
    PROVE  Flushed(c)[u] = NoRows
BY DEF TypeOK, DeletedOwnsNothing, SetCall, Flushed, Rows, NoRows

LEMMA StepSafety == TypeOK /\ Safety /\ [Next]_vars => Safety'
<1> SUFFICES ASSUME TypeOK, Safety, [Next]_vars
             PROVE  Safety'
  OBVIOUS
<1>1. ASSUME NEW r \in Slots, CallStep(r)
      PROVE  Safety'
  <2>1. ASSUME NEW u \in Users, GetStart(r, u)
        PROVE  Safety'
    <3>1. call'[r].kind = "get" /\ \A q \in Slots \ {r} : call'[q] = call[q]
      BY <2>1 DEF GetStart, TypeOK
    <3> QED
      BY <2>1, <3>1 DEF GetStart, Safety, LoneSet, Sets, Row, DeletedOwnsNothing
  <2>2. ASSUME NEW u \in Users, NEW v \in Vars, NEW text \in Text, SetStart(r, u, v, text)
        PROVE  Safety'
    <3>1. ASSUME NEW q \in Slots \ {r}
          PROVE  LoneSet(q)'
      <4>1. CASE Sets(q, u, v)
        <5>1. call[q] \in SetCall
          BY <4>1, KindTells DEF Sets
        <5>2. ~call'[q].alone
          BY <2>2, <3>1, <4>1, <5>1 DEF SetStart, SetCall
        <5> QED
          BY <5>2 DEF LoneSet
      <4>2. CASE ~Sets(q, u, v)
        <5>1. call'[q] = call[q] /\ UNCHANGED <<users, db>>
          BY <2>2, <3>1, <4>2 DEF SetStart
        <5>2. ASSUME call[q].kind = "set", call[q].alone, NEW o \in Slots \ {q}
              PROVE  ~Sets(o, call[q].user, call[q].var)'
          <6>1. ~Sets(o, call[q].user, call[q].var)
            BY <5>2 DEF Safety, LoneSet
          <6>2. CASE o = r
            BY <2>2, <4>2, <5>1, <5>2, <6>2 DEF SetStart, Sets
          <6>3. CASE o # r
            <7>1. CASE Sets(o, u, v)
              <8>1. call[o] \in SetCall
                BY <7>1, KindTells DEF Sets
              <8> QED
                BY <2>2, <5>1, <6>1, <6>3, <7>1, <8>1 DEF SetStart, Sets, SetCall
            <7>2. CASE ~Sets(o, u, v)
              BY <2>2, <5>1, <6>1, <6>3, <7>2 DEF SetStart, Sets
            <7> QED
              BY <7>1, <7>2
          <6> QED
            BY <6>2, <6>3
        <5> QED
          BY <5>1, <5>2 DEF Safety, LoneSet, Row
      <4> QED
        BY <4>1, <4>2
    <3>2. LoneSet(r)'
      <4>1. call'[r] = [kind |-> "set", user |-> u, var |-> v, text |-> text, seen |-> Missing,
                        step |-> "loading", alone |-> \A o \in Slots : ~Sets(o, u, v)]
        BY <2>2 DEF SetStart
      <4>2. ASSUME call'[r].alone, NEW o \in Slots \ {r}
            PROVE  ~Sets(o, u, v)'
        BY <2>2, <4>1, <4>2 DEF SetStart, Sets
      <4> QED
        BY <4>1, <4>2 DEF LoneSet
    <3> QED
      BY <2>2, <3>1, <3>2 DEF SetStart, Safety, DeletedOwnsNothing
  <2>3. CASE GetRead(r)
    <3>1. call'[r].kind = "get" /\ \A q \in Slots \ {r} : call'[q] = call[q]
      BY <2>3, KindTells DEF GetRead, At, TypeOK, GetCall
    <3>2. \A o \in Slots : \A u, v : Sets(o, u, v)' => Sets(o, u, v)
      BY <3>1 DEF Sets
    <3>3. ASSUME NEW q \in Slots
          PROVE  LoneSet(q)'
      <4>1. CASE q = r
        BY <3>1, <4>1 DEF LoneSet
      <4>2. CASE q # r
        <5>1. call'[q] = call[q] /\ UNCHANGED <<users, db>> /\ LoneSet(q)
          BY <2>3, <3>1, <4>2 DEF GetRead, Safety
        <5>2. \A o \in Slots \ {q} : ~Sets(o, call[q].user, call[q].var)
                => ~Sets(o, call[q].user, call[q].var)'
          BY <3>2, <5>1 DEF Sets
        <5> QED
          BY <5>1, <5>2 DEF LoneSet, Sets, Row
      <4> QED
        BY <4>1, <4>2
    <3> QED
      BY <2>3, <3>3 DEF GetRead, Safety, DeletedOwnsNothing
  <2>4. CASE GetReturn(r) \/ SetReturn(r) \/ CallFail(r)
    <3>1. End(r) /\ UNCHANGED <<users, db>>
      BY <2>4 DEF GetReturn, SetReturn, CallFail
    <3> QED
      BY <3>1, EndKeepsLone DEF Safety, DeletedOwnsNothing
  <2>5. CASE SetLoad(r) \/ SetReload(r)
    <3>1. call[r] \in SetCall /\ UNCHANGED <<users, db>>
      BY <2>5, KindTells DEF SetLoad, SetReload, At
    <3>2. PICK step \in {"reloading", "reading"} : call' = [call EXCEPT ![r].step = step]
      BY <2>5 DEF SetLoad, SetReload, GoTo
    <3>3. call'[r] = [call[r] EXCEPT !.step = step] /\ \A q \in Slots \ {r} : call'[q] = call[q]
      BY <3>2 DEF TypeOK
    <3>4. \A o \in Slots, u \in Users, v \in Vars : Sets(o, u, v)' = Sets(o, u, v)
      BY <3>1, <3>3 DEF Sets, SetCall
    <3>5. ASSUME NEW q \in Slots
          PROVE  LoneSet(q)'
      <4>1. CASE q = r
        BY <3>1, <3>3, <3>4, <4>1 DEF Safety, LoneSet, SetCall
      <4>2. CASE q # r
        <5>1. call'[q] = call[q]
          BY <3>3, <4>2
        <5>2. call[q].kind = "set" => call[q] \in SetCall
          BY KindTells
        <5> QED
          BY <3>1, <3>4, <5>1, <5>2 DEF Safety, LoneSet, Row, SetCall
      <4> QED
        BY <4>1, <4>2
    <3> QED
      BY <3>1, <3>5 DEF Safety, DeletedOwnsNothing
  <2>6. CASE SetRead(r)
    <3>1. call[r] \in SetCall /\ UNCHANGED <<users, db>>
      BY <2>6, KindTells DEF SetRead, At
    <3> QED
      BY <2>6, <3>1 DEF SetRead, Safety, LoneSet, Sets, Row, DeletedOwnsNothing, TypeOK, SetCall
  <2>7. CASE SetCommit(r)
    <3>1. call[r] \in SetCall /\ call[r].step = "flushing"
      BY <2>7, KindTells DEF SetCommit, At
    <3>2. call' = [call EXCEPT ![r].step = "done"] /\ db' = Flushed(call[r]) /\ users' = users
      BY <2>7 DEF SetCommit, GoTo
    <3>3. ASSUME NEW q \in Slots \ {r}
          PROVE  LoneSet(q)'
      <4>1. call'[q] = call[q]
        BY <3>2, <3>3
      <4>2. \A o \in Slots : Sets(o, call[q].user, call[q].var)' = Sets(o, call[q].user, call[q].var)
        BY <3>1, <3>2, <4>1 DEF Sets, TypeOK, SetCall
      <4>3. call[q].kind = "set" /\ call[q].alone => Row(q)' = Row(q)
        BY <3>1, <3>2, <4>1, FlushKeepsOthers DEF Safety, Row, SetCall
      <4> QED
        BY <3>2, <4>1, <4>2, <4>3 DEF Safety, LoneSet
    <3>4. LoneSet(r)'
      <4>1. call'[r] = [call[r] EXCEPT !.step = "done"]
        BY <3>2 DEF TypeOK
      <4>2. \A o \in Slots \ {r} : Sets(o, call[r].user, call[r].var)' = Sets(o, call[r].user, call[r].var)
        BY <3>2, <4>1, <3>1 DEF Sets, SetCall
      <4>3. ASSUME call[r].alone, call[r].seen # Missing, call[r].user \in users
            PROVE  Flushed(call[r])[call[r].user][call[r].var] = call[r].text
        <5>1. Row(r) = call[r].seen
          BY <3>1, <4>3 DEF Safety, LoneSet, SetCall
        <5> QED
          BY <3>1, <4>3, <5>1 DEF Flushed, Dirty, Row, TypeOK, SetCall, Rows
      <4> QED
        BY <3>1, <3>2, <4>1, <4>2, <4>3 DEF Safety, LoneSet, Row, SetCall
    <3>5. DeletedOwnsNothing'
      BY <3>1, <3>2, FlushKeepsDeleted DEF Safety, DeletedOwnsNothing
    <3> QED
      BY <3>3, <3>4, <3>5 DEF Safety
  <2>8. CASE SetAnswerLost(r)
    <3>1. call[r] \in SetCall /\ call[r].kind = "set"
      BY <2>8, KindTells DEF SetAnswerLost, At
    <3>2. call' = [call EXCEPT ![r] = Idle] /\ db' = Flushed(call[r]) /\ users' = users
      BY <2>8 DEF SetAnswerLost, End
    <3>3. ASSUME NEW q \in Slots \ {r}
          PROVE  LoneSet(q)'
      <4>1. call'[q] = call[q]
        BY <3>2, <3>3
      <4>2. \A o \in Slots : Sets(o, call[q].user, call[q].var)' => Sets(o, call[q].user, call[q].var)
        BY <3>2, <4>1 DEF Sets, TypeOK, Idle
      <4>3. call[q].kind = "set" /\ call[q].alone => Row(q)' = Row(q)
        BY <3>1, <3>2, <4>1, FlushKeepsOthers DEF Safety, Row
      <4> QED
        BY <3>2, <4>1, <4>2, <4>3 DEF Safety, LoneSet
    <3>4. LoneSet(r)'
      BY <3>2 DEF LoneSet, TypeOK, Idle
    <3>5. DeletedOwnsNothing'
      BY <3>1, <3>2, FlushKeepsDeleted DEF Safety, DeletedOwnsNothing
    <3> QED
      BY <3>3, <3>4, <3>5 DEF Safety
  <2> QED
    BY <1>1, <2>1, <2>2, <2>3, <2>4, <2>5, <2>6, <2>7, <2>8 DEF CallStep
<1>2. ASSUME NEW u \in Users, DeleteUser(u)
      PROVE  Safety'
  <2>1. DeletedOwnsNothing'
    BY <1>2 DEF DeleteUser, Safety, DeletedOwnsNothing, TypeOK
  <2>2. ASSUME NEW q \in Slots
        PROVE  LoneSet(q)'
    <3>1. call[q].kind = "set" /\ call[q].user \in users' => Row(q)' = Row(q)
      BY <1>2, KindTells DEF DeleteUser, Row, TypeOK, SetCall
    <3> QED
      BY <1>2, <3>1 DEF DeleteUser, Safety, LoneSet, Sets
  <2> QED
    BY <2>1, <2>2 DEF Safety
<1>3. CASE Crash
  BY <1>3 DEF Crash, Safety, LoneSet, Idle, DeletedOwnsNothing
<1>4. CASE UNCHANGED vars
  BY <1>4 DEF vars, Safety, LoneSet, Sets, Row, DeletedOwnsNothing
<1> QED
  BY <1>1, <1>2, <1>3, <1>4 DEF Next

THEOREM SafetyInvariant == Spec => [](TypeOK /\ Safety)
<1>1. Init => TypeOK /\ Safety
  BY InitType, InitSafety
<1>2. TypeOK /\ Safety /\ [Next]_vars => TypeOK' /\ Safety'
  BY StepType, StepSafety
<1> QED
  BY <1>1, <1>2, PTL DEF Spec

\* A set that no other set of the variable overlapped, on a variable that had a row, is
\* stored when it is answered.
THEOREM LoneSetTheorem == Spec => []LoneSetIsStored
<1>1. TypeOK /\ Safety => LoneSetIsStored
  BY DEF Safety, LoneSet, LoneSetIsStored, At
<1> QED
  BY <1>1, SafetyInvariant, PTL

\* The variables of a deleted user do not come back.
THEOREM DeletedTheorem == Spec => []DeletedOwnsNothing
<1>1. TypeOK /\ Safety => DeletedOwnsNothing
  BY DEF Safety
<1> QED
  BY <1>1, SafetyInvariant, PTL

-----------------------------------------------------------------------------
(* The atomic store *)

LEMMA AbstractGet ==
    ASSUME NEW c, c.kind = "get"
    PROVE  Abstract(c) = [kind |-> "get", user |-> c.user,
                          step |-> IF c.step = "done" THEN "done" ELSE "invoked", result |-> c.rows]
BY DEF Abstract

LEMMA AbstractSet ==
    ASSUME NEW c, c.kind = "set"
    PROVE  Abstract(c) = [kind |-> "set", user |-> c.user, var |-> c.var, text |-> c.text,
                          step |-> IF Effective(c) THEN "done" ELSE "invoked"]
BY DEF Abstract

LEMMA AbstractIdle == Abstract(Idle) = Store!Idle
BY DEF Abstract, Idle, Store!Idle

\* A step of one call is a step of one operation of the store.
LEMMA OneCall ==
    ASSUME NEW r \in Slots, NEW o, Abstract(call'[r]) = o,
           \A q \in Slots \ {r} : Abstract(call'[q]) = Abstract(call[q])
    PROVE  Store!Become(r, o)
BY DEF Store!Become

LEMMA SameCalls ==
    ASSUME \A q \in Slots : Abstract(call'[q]) = Abstract(call[q]), UNCHANGED db
    PROVE  UNCHANGED Store!vars
BY DEF Store!vars

LEMMA InitRefines == Init => Store!Init
<1> SUFFICES ASSUME Init
             PROVE  Store!Init
  OBVIOUS
<1>1. \A r \in Slots : Abstract(call[r]) = Store!Idle
  BY AbstractIdle DEF Init
<1> QED
  BY <1>1 DEF Init, Store!Init

\* The table after a flush is what the store says of a set.
LEMMA FlushedIsWritten ==
    ASSUME TypeOK, NEW r \in Slots, At(r, "set", "flushing"), Dirty(call[r])
    PROVE  Flushed(call[r]) = Store!Written(Abstract(call[r]))
<1>1. Abstract(call[r]).user = call[r].user /\ Abstract(call[r]).var = call[r].var
      /\ Abstract(call[r]).text = call[r].text
  BY AbstractSet DEF At
<1> QED
  BY <1>1 DEF Flushed, Store!Written

\* A set that will have nothing to write would write what is there.
LEMMA CleanIsWritten ==
    ASSUME TypeOK, NEW r \in Slots, At(r, "set", "reading"), Row(r) \in {Missing, call[r].text}
    PROVE  db = Store!Written(Abstract(call[r]))
<1>1. call[r] \in SetCall
  BY KindTells DEF At
<1>2. Abstract(call[r]).user = call[r].user /\ Abstract(call[r]).var = call[r].var
      /\ Abstract(call[r]).text = call[r].text
  BY AbstractSet DEF At
<1>3. db[call[r].user] = [db[call[r].user] EXCEPT ![call[r].var] = db[call[r].user][call[r].var]]
  BY <1>1 DEF TypeOK, SetCall, Rows
<1>4. db = [db EXCEPT ![call[r].user] = db[call[r].user]]
  BY <1>1 DEF TypeOK, SetCall
<1> QED
  BY <1>2, <1>3, <1>4 DEF Row, Store!Written

\* A call that ends fails, for the store; if it was done it may also be answered.
LEMMA EndRefines ==
    ASSUME TypeOK, NEW r \in Slots, call[r] # Idle, End(r), UNCHANGED db
    PROVE  Store!Fail(r) /\ (call[r].step = "done" => Store!Answer(r))
<1>1. call'[r] = Idle /\ \A q \in Slots \ {r} : call'[q] = call[q]
  BY DEF End, TypeOK
<1>2. Store!Become(r, Store!Idle)
  BY <1>1, AbstractIdle, OneCall
<1>3. Abstract(call[r]).kind # "idle"
  <2>1. CASE call[r].kind = "get"
    BY <2>1, AbstractGet
  <2>2. CASE call[r].kind = "set"
    BY <2>2, AbstractSet
  <2> QED
    BY <2>1, <2>2, KindTells
<1>4. call[r].step = "done" => Abstract(call[r]).step = "done"
  <2>1. CASE call[r].kind = "get"
    BY <2>1, AbstractGet
  <2>2. CASE call[r].kind = "set"
    BY <2>2, AbstractSet DEF Effective
  <2> QED
    BY <2>1, <2>2, KindTells
<1> QED
  BY <1>2, <1>3, <1>4 DEF Store!Fail, Store!Answer

LEMMA StepRefines == TypeOK /\ [Next]_vars => [Store!Next]_(Store!vars)
<1> SUFFICES ASSUME TypeOK, [Next]_vars
             PROVE  Store!Next \/ UNCHANGED Store!vars
  OBVIOUS
<1>1. ASSUME NEW r \in Slots, CallStep(r)
      PROVE  Store!Next \/ UNCHANGED Store!vars
  <2>1. ASSUME NEW u \in Users, GetStart(r, u)
        PROVE  Store!Invoke(r)
    <3>1. call[r] = Idle /\ db' = db
      BY <2>1 DEF GetStart
    <3>2. call'[r] = [kind |-> "get", user |-> u, step |-> "loading", rows |-> NoRows]
          /\ \A q \in Slots \ {r} : call'[q] = call[q]
      BY <2>1 DEF GetStart, TypeOK
    <3>3. Abstract(call'[r]) = Store!Get(u, "invoked", Store!NoRows)
      BY <3>2, AbstractGet DEF Store!Get, Store!NoRows, NoRows
    <3>4. Store!Become(r, Store!Get(u, "invoked", Store!NoRows))
      BY <3>2, <3>3, OneCall
    <3> QED
      BY <3>1, <3>4, AbstractIdle DEF Store!Invoke
  <2>2. ASSUME NEW u \in Users, NEW v \in Vars, NEW text \in Text, SetStart(r, u, v, text)
        PROVE  Store!Invoke(r)
    <3>1. call[r] = Idle /\ db' = db
      BY <2>2 DEF SetStart
    <3>2. Abstract(call'[r]) = Store!Set(u, v, text, "invoked")
      <4>1. /\ call'[r].kind = "set" /\ call'[r].user = u /\ call'[r].var = v
            /\ call'[r].text = text /\ call'[r].step = "loading"
        BY <2>2 DEF SetStart
      <4> QED
        BY <4>1, AbstractSet DEF Effective, Store!Set
    <3>3. ASSUME NEW q \in Slots \ {r}
          PROVE  Abstract(call'[q]) = Abstract(call[q])
      <4>1. CASE Sets(q, u, v)
        <5>1. call[q] \in SetCall /\ call'[q] = [call[q] EXCEPT !.alone = FALSE]
          BY <2>2, <4>1, KindTells DEF SetStart, Sets
        <5>2. /\ call'[q].kind = "set" /\ call'[q].user = call[q].user /\ call'[q].var = call[q].var
              /\ call'[q].text = call[q].text /\ call'[q].step = call[q].step
              /\ call'[q].seen = call[q].seen
          BY <5>1 DEF SetCall
        <5> QED
          BY <4>1, <5>2, AbstractSet DEF Sets, Effective, Dirty
      <4>2. CASE ~Sets(q, u, v)
        BY <2>2, <4>2 DEF SetStart
      <4> QED
        BY <4>1, <4>2
    <3>4. Store!Become(r, Store!Set(u, v, text, "invoked"))
      BY <3>2, <3>3, OneCall
    <3> QED
      BY <3>1, <3>4, AbstractIdle DEF Store!Invoke
  <2>3. CASE GetRead(r)
    <3>1. call[r] \in GetCall /\ call[r].kind = "get" /\ call[r].step = "loading" /\ db' = db
      BY <2>3, KindTells DEF GetRead, At
    <3>2. /\ call'[r].kind = "get" /\ call'[r].user = call[r].user
          /\ call'[r].step = "done" /\ call'[r].rows = db[call[r].user]
          /\ \A q \in Slots \ {r} : call'[q] = call[q]
      BY <2>3, <3>1 DEF GetRead, TypeOK, GetCall
    <3>3. Abstract(call[r]).kind = "get" /\ Abstract(call[r]).user = call[r].user
          /\ Abstract(call[r]).step = "invoked"
      BY <3>1, AbstractGet
    <3>4. Abstract(call'[r]) = Store!Get(call[r].user, "done", db[call[r].user])
      BY <3>2, AbstractGet DEF Store!Get
    <3>5. Store!Become(r, Store!Get(call[r].user, "done", db[call[r].user]))
      BY <3>2, <3>4, OneCall
    <3>6. Store!TakeEffect(r)
      BY <3>1, <3>3, <3>5 DEF Store!TakeEffect
    <3> QED
      BY <3>6 DEF Store!Next
  <2>4. CASE GetReturn(r) \/ SetReturn(r) \/ CallFail(r)
    <3>1. call[r] # Idle /\ End(r) /\ UNCHANGED db
      BY <2>4 DEF GetReturn, SetReturn, CallFail, At, Idle
    <3>2. CASE CallFail(r)
      BY <3>1, EndRefines DEF Store!Next
    <3>3. CASE GetReturn(r) \/ SetReturn(r)
      <4>1. call[r].step = "done"
        BY <3>3 DEF GetReturn, SetReturn, At
      <4>2. Store!Answer(r)
        BY <3>1, <4>1, EndRefines
      <4> QED
        BY <4>2 DEF Store!Next
    <3> QED
      BY <2>4, <3>2, <3>3
  <2>5. CASE SetLoad(r) \/ SetReload(r)
    <3>1. call[r] \in SetCall /\ call[r].step \in {"loading", "reloading"} /\ db' = db
      BY <2>5, KindTells DEF SetLoad, SetReload, At
    <3>2. PICK step \in {"reloading", "reading"} : call' = [call EXCEPT ![r].step = step]
      BY <2>5 DEF SetLoad, SetReload, GoTo
    <3>3. /\ call'[r].kind = "set" /\ call'[r].user = call[r].user /\ call'[r].var = call[r].var
          /\ call'[r].text = call[r].text /\ call'[r].step = step
          /\ \A q \in Slots \ {r} : call'[q] = call[q]
      BY <3>1, <3>2 DEF TypeOK, SetCall
    <3>4. Abstract(call'[r]) = Abstract(call[r])
      BY <3>1, <3>3, AbstractSet DEF Effective, SetCall
    <3> QED
      BY <3>1, <3>3, <3>4, SameCalls
  <2>6. CASE SetRead(r)
    <3>1. call[r] \in SetCall /\ call[r].kind = "set" /\ call[r].step = "reading" /\ db' = db
      BY <2>6, KindTells DEF SetRead, At
    <3>2. /\ call'[r].kind = "set" /\ call'[r].user = call[r].user /\ call'[r].var = call[r].var
          /\ call'[r].text = call[r].text /\ call'[r].step = "flushing" /\ call'[r].seen = Row(r)
          /\ \A q \in Slots \ {r} : call'[q] = call[q]
      BY <2>6, <3>1 DEF SetRead, TypeOK, SetCall
    <3>3. Abstract(call[r]) = Store!Set(call[r].user, call[r].var, call[r].text, "invoked")
      BY <3>1, AbstractSet DEF Effective, Store!Set
    <3>4. CASE Row(r) \in {Missing, call[r].text}
      <4>1. Abstract(call'[r]) = Store!Set(call[r].user, call[r].var, call[r].text, "done")
        BY <3>2, <3>4, AbstractSet DEF Effective, Dirty, Store!Set
      <4>2. Store!Become(r, Store!Set(call[r].user, call[r].var, call[r].text, "done"))
        BY <3>2, <4>1, OneCall
      <4>3. db' = Store!Written(Abstract(call[r]))
        BY <3>1, <3>4, CleanIsWritten DEF At
      <4>4. Store!TakeEffect(r)
        BY <3>3, <4>2, <4>3 DEF Store!TakeEffect, Store!Set
      <4> QED
        BY <4>4 DEF Store!Next
    <3>5. CASE Row(r) \notin {Missing, call[r].text}
      <4>1. Abstract(call'[r]) = Abstract(call[r])
        BY <3>2, <3>3, <3>5, AbstractSet DEF Effective, Dirty, Store!Set
      <4> QED
        BY <3>1, <3>2, <4>1, SameCalls
    <3> QED
      BY <3>4, <3>5
  <2>7. CASE SetCommit(r)
    <3>1. call[r] \in SetCall /\ call[r].kind = "set" /\ At(r, "set", "flushing")
          /\ db' = Flushed(call[r])
      BY <2>7, KindTells DEF SetCommit, At
    <3>2. /\ call'[r].kind = "set" /\ call'[r].user = call[r].user /\ call'[r].var = call[r].var
          /\ call'[r].text = call[r].text /\ call'[r].step = "done"
          /\ \A q \in Slots \ {r} : call'[q] = call[q]
      BY <2>7, <3>1 DEF SetCommit, GoTo, TypeOK, SetCall
    <3>3. Abstract(call'[r]) = Store!Set(call[r].user, call[r].var, call[r].text, "done")
      BY <3>2, AbstractSet DEF Effective, Store!Set
    <3>4. CASE Dirty(call[r])
      <4>1. Abstract(call[r]) = Store!Set(call[r].user, call[r].var, call[r].text, "invoked")
        BY <3>1, <3>4, AbstractSet DEF Effective, At, Store!Set
      <4>2. Store!Become(r, Store!Set(call[r].user, call[r].var, call[r].text, "done"))
        BY <3>2, <3>3, OneCall
      <4>3. Store!TakeEffect(r)
        BY <3>1, <3>4, <4>1, <4>2, FlushedIsWritten DEF Store!TakeEffect, Store!Set
      <4> QED
        BY <4>3 DEF Store!Next
    <3>5. CASE ~Dirty(call[r])
      <4>1. Abstract(call'[r]) = Abstract(call[r])
        BY <3>1, <3>3, <3>5, AbstractSet DEF Effective, At, Store!Set
      <4> QED
        BY <3>1, <3>2, <3>5, <4>1, SameCalls DEF Flushed
    <3> QED
      BY <3>4, <3>5
  <2>8. CASE SetAnswerLost(r)
    <3>1. call[r] # Idle /\ call[r].kind = "set" /\ At(r, "set", "flushing")
          /\ db' = Flushed(call[r]) /\ End(r)
      BY <2>8 DEF SetAnswerLost, At, Idle
    <3>2. CASE Dirty(call[r])
      <4>1. call'[r] = Idle /\ \A q \in Slots \ {r} : call'[q] = call[q]
        BY <3>1 DEF End, TypeOK
      <4>2. Store!Become(r, Store!Idle)
        BY <4>1, AbstractIdle, OneCall
      <4>3. Abstract(call[r]).kind = "set" /\ Abstract(call[r]).step = "invoked"
        BY <3>1, <3>2, AbstractSet DEF Effective, At
      <4>4. Store!Fail(r)
        BY <3>1, <3>2, <4>2, <4>3, FlushedIsWritten DEF Store!Fail
      <4> QED
        BY <4>4 DEF Store!Next
    <3>3. CASE ~Dirty(call[r])
      BY <3>1, <3>3, EndRefines DEF Flushed, Store!Next
    <3> QED
      BY <3>2, <3>3
  <2> QED
    BY <1>1, <2>1, <2>2, <2>3, <2>4, <2>5, <2>6, <2>7, <2>8 DEF CallStep, Store!Next
<1>2. ASSUME NEW u \in Users, DeleteUser(u)
      PROVE  Store!Next
  <2>1. Store!Remove(u)
    BY <1>2 DEF DeleteUser, Store!Remove, Store!NoRows, NoRows
  <2> QED
    BY <2>1 DEF Store!Next
<1>3. CASE Crash
  <2>1. \A r \in Slots : Abstract(call'[r]) = Store!Idle
    BY <1>3, AbstractIdle DEF Crash
  <2>2. Store!FailAll
    BY <1>3, <2>1 DEF Crash, Store!FailAll
  <2> QED
    BY <2>2 DEF Store!Next
<1>4. CASE UNCHANGED vars
  BY <1>4, SameCalls DEF vars
<1> QED
  BY <1>1, <1>2, <1>3, <1>4 DEF Next

\* Gets and sets of a user's variables are atomic: the service implements the store.
THEOREM StoreTheorem == Spec => ImplementsStore
<1>1. Init => Store!Init
  BY InitRefines
<1>2. TypeOK /\ [Next]_vars => [Store!Next]_(Store!vars)
  BY StepRefines
<1> QED
  BY <1>1, <1>2, TypeCorrect, PTL DEF Spec, ImplementsStore, Store!Spec
=============================================================================
