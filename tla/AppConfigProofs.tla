--------------------------- MODULE AppConfigProofs ---------------------------
(***************************************************************************)
(* Proofs about AppConfig, for any descriptors, environment, table and     *)
(* number of calls in flight.                                              *)
(***************************************************************************)
EXTENDS AppConfig, TLAPS

-----------------------------------------------------------------------------
(* What a reload computes. *)

LEMMA EffectiveType ==
    ASSUME NEW v \in Vars, NEW rows \in [Vars -> MaybeText]
    PROVE  Effective(v, rows) \in MaybeText
  BY TextAssumption, EnvAssumption DEF Effective, ValueFromString, MaybeText

LEMMA FilledType ==
    ASSUME NEW old \in [Vars -> MaybeText], NEW rows \in [Vars -> MaybeText]
    PROVE  Filled(old, rows) \in [Vars -> MaybeText]
  BY EffectiveType DEF Filled

LEMMA NoCacheType == NoCache \in [Vars -> MaybeText]
  BY DEF NoCache, MaybeText

\* The loop only stores values it found.
LEMMA LoadedHasValue ==
    ASSUME NEW rows, NEW v \in Loaded(rows)
    PROVE  v \in Vars /\ Effective(v, rows) # Missing
  <1>1. v \in Vars /\ Order[v] \in Nat
    BY VarsAssumption DEF Loaded
  <1> QED  BY <1>1 DEF Loaded

-----------------------------------------------------------------------------
(* Type correctness. *)

LEMMA TypeInit == Init => TypeOK
  BY NoCacheType, TablesAssumption DEF Init, TypeOK, MaybeText

LEMMA FlushedType ==
    ASSUME TypeOK, NEW p \in sets
    PROVE  Flushed(p) \in [Vars -> MaybeText]
  BY DEF TypeOK, SetCall, Flushed, Dirty, MaybeText


\* Replacing one call by the next stage of itself keeps the slots apart.
LEMMA ReplaceSet ==
    ASSUME TypeOK, NEW p \in sets, NEW q \in SetCall, q.id = p.id,
           sets' = (sets \ {p}) \cup {q}
    PROVE  sets' \in SUBSET SetCall /\ \A a, b \in sets' : a.id = b.id => a = b
  BY DEF TypeOK

LEMMA RacedSet ==
    ASSUME NEW p \in SetCall
    PROVE  [p EXCEPT !.alone = FALSE] \in SetCall /\ [p EXCEPT !.alone = FALSE].id = p.id
  BY DEF SetCall

LEMMA SetStepType == ASSUME TypeOK, SetStep PROVE TypeOK'
<1> USE DEF TypeOK
<1>1. ASSUME NEW v \in Changed, NEW text \in Text, SetStart(v, text)
      PROVE  TypeOK'
  <2> DEFINE other(p) == IF p.var = v THEN [p EXCEPT !.alone = FALSE] ELSE p
  <2>1. PICK r \in FreeSets :
          sets' = {other(p) : p \in sets} \cup
                  {[id |-> r, var |-> v, text |-> text, seen |-> Missing, step |-> "reading",
                    attached |-> TRUE, alone |-> SetsOn(v) = {} /\ loads = {}]}
    BY <1>1 DEF SetStart
  <2> DEFINE new == [id |-> r, var |-> v, text |-> text, seen |-> Missing,
                     step |-> "reading", attached |-> TRUE,
                     alone |-> SetsOn(v) = {} /\ loads = {}]
  <2>2. new \in SetCall /\ new.id = r
    BY VarsAssumption DEF SetCall, FreeSets, MaybeText
  <2>3. \A p \in sets : other(p) \in SetCall /\ other(p).id = p.id
    BY RacedSet
  <2>4. \A p \in sets : p.id # r
    BY Zenon DEF FreeSets
  <2>5. sets' = {other(p) : p \in sets} \cup {new}
    BY <2>1
  <2> HIDE DEF new, other
  <2>6. sets' \in SUBSET SetCall /\ \A a, b \in sets' : a.id = b.id => a = b
    BY <2>2, <2>3, <2>4, <2>5
  <2> DEFINE race(l) == [l EXCEPT !.raced = @ \cup {v}]
  <2>7. loads' = {race(l) : l \in loads}
    BY <1>1 DEF SetStart
  <2>8. \A l \in loads : race(l) \in LoadCall /\ race(l).id = l.id
    BY VarsAssumption DEF LoadCall
  <2> HIDE DEF race
  <2>9. loads' \in SUBSET LoadCall /\ \A l, m \in loads' : l.id = m.id => l = m
    BY <2>7, <2>8
  <2> QED  BY <1>1, <2>6, <2>9 DEF SetStart
<1>2. ASSUME NEW p \in sets, SetRead(p)
      PROVE  TypeOK'
  <2>1. [p EXCEPT !.step = "flushing", !.seen = db[p.var]] \in SetCall
    BY DEF SetCall
  <2> QED  BY <1>2, <2>1, ReplaceSet DEF SetRead, SetCall
<1>3. ASSUME NEW p \in sets, SetCommit(p)
      PROVE  TypeOK'
  <2>1. [p EXCEPT !.step = "done"] \in SetCall
    BY DEF SetCall
  <2>2. sets' \in SUBSET SetCall /\ \A a, b \in sets' : a.id = b.id => a = b
    BY <1>3, <2>1, ReplaceSet DEF SetCommit, SetCall
  <2> QED  BY <1>3, <2>2, FlushedType DEF SetCommit
<1>4. ASSUME NEW p \in sets, SetFail(p)
      PROVE  TypeOK'
  BY <1>4 DEF SetFail, SuspectUnlessAlone, SetCall
<1>5. ASSUME NEW p \in sets, SetAnswerLost(p)
      PROVE  TypeOK'
  BY <1>5, FlushedType DEF SetAnswerLost, SetCall
<1>6. ASSUME NEW p \in sets, SetFinish(p)
      PROVE  TypeOK'
  BY <1>6 DEF SetFinish, SetCall, MaybeText
<1> QED  BY <1>1, <1>2, <1>3, <1>4, <1>5, <1>6 DEF SetStep

LEMMA LoadStepType == ASSUME TypeOK, LoadStep PROVE TypeOK'
<1> USE DEF TypeOK
<1>1. CASE LoadStart
  <2> DEFINE mark(p) == [p EXCEPT !.alone = FALSE]
  <2>1. loads' \in SUBSET LoadCall /\ \A l, m \in loads' : l.id = m.id => l = m
    <3>1. {p.var : p \in sets} \in SUBSET Vars
      BY DEF SetCall
    <3>2. PICK r \in FreeLoads :
            loads' = loads \cup {[id |-> r, rows |-> NoCache, step |-> "reading",
                                  raced |-> {p.var : p \in sets}]}
      BY <1>1 DEF LoadStart
    <3> DEFINE new == [id |-> r, rows |-> NoCache, step |-> "reading",
                       raced |-> {p.var : p \in sets}]
    <3>3. new \in LoadCall /\ new.id = r
      BY <3>1, NoCacheType DEF LoadCall, FreeLoads
    <3>4. \A l \in loads : l.id # r
      BY Zenon DEF FreeLoads
    <3> HIDE DEF new
    <3> QED  BY <3>2, <3>3, <3>4 DEF new
  <2>2. sets' = {mark(p) : p \in sets}
    BY <1>1 DEF LoadStart
  <2>3. \A p \in sets : mark(p) \in SetCall /\ mark(p).id = p.id
    BY RacedSet
  <2> HIDE DEF mark
  <2>4. sets' \in SUBSET SetCall /\ \A a, b \in sets' : a.id = b.id => a = b
    BY <2>2, <2>3
  <2> QED  BY <1>1, <2>1, <2>4 DEF LoadStart
<1>2. ASSUME NEW l \in loads, LoadRead(l)
      PROVE  TypeOK'
  <2> DEFINE m == [l EXCEPT !.step = "done", !.rows = db]
  <2>1. m \in LoadCall /\ m.id = l.id
    BY DEF LoadCall
  <2>2. loads' = (loads \ {l}) \cup {m} /\ UNCHANGED <<up, db, cache, told, sets, suspect>>
    BY <1>2 DEF LoadRead
  <2> HIDE DEF m
  <2> QED  BY <2>1, <2>2
<1>3. ASSUME NEW l \in loads, LoadFail(l)
      PROVE  TypeOK'
  BY <1>3 DEF LoadFail
<1>4. ASSUME NEW l \in loads, LoadFinish(l)
      PROVE  TypeOK'
  <2>1. l.rows \in [Vars -> MaybeText] /\ l.raced \subseteq Vars
    BY DEF LoadCall
  <2>2. cache' \in [Vars -> MaybeText]
    BY <1>4, <2>1, FilledType DEF LoadFinish
  <2> DEFINE detach(p) ==
        IF p.var \in Loaded(l.rows) THEN [p EXCEPT !.attached = FALSE] ELSE p
  <2>3. sets' = {detach(p) : p \in sets}
    BY <1>4 DEF LoadFinish
  <2>4. \A p \in sets : detach(p) \in SetCall /\ detach(p).id = p.id
    BY DEF SetCall
  <2> HIDE DEF detach
  <2>5. sets' \in SUBSET SetCall /\ \A a, b \in sets' : a.id = b.id => a = b
    BY <2>3, <2>4
  <2> QED  BY <1>4, <2>1, <2>2, <2>5 DEF LoadFinish
<1> QED  BY <1>1, <1>2, <1>3, <1>4 DEF LoadStep

LEMMA TypeStep == TypeOK /\ [Next]_vars => TypeOK'
<1> SUFFICES ASSUME TypeOK, [Next]_vars PROVE TypeOK'
  OBVIOUS
<1>1. CASE Boot
  BY <1>1, FilledType, NoCacheType DEF Boot, TypeOK
<1>2. CASE Crash
  BY <1>2, NoCacheType DEF Crash, TypeOK
<1>3. CASE UNCHANGED vars
  BY <1>3 DEF vars, TypeOK, SetCall, LoadCall
<1> QED  BY <1>1, <1>2, <1>3, SetStepType, LoadStepType DEF Next

\* The cache, the table and the calls in flight keep their shape.
THEOREM TypeCorrect == Spec => []TypeOK
  BY TypeInit, TypeStep, PTL DEF Spec

-----------------------------------------------------------------------------
(***************************************************************************)
(* The inductive invariant.  A call that says it is alone really has the   *)
(* variable for itself, so what it read is what the row holds; a reload's  *)
(* rows are those of the table except where a set overlapped it; and a     *)
(* variable that is not suspect agrees with its row until a lone call has  *)
(* committed, when only that call's last step is missing.                  *)
(***************************************************************************)
DownIsIdle ==
    ~up => /\ sets = {} /\ loads = {} /\ suspect = {}
           /\ cache = NoCache /\ told = NoCache

LoneSet(p) ==
    /\ loads = {}
    /\ \A q \in sets : q.var = p.var => q = p
    /\ p.attached
    /\ p.step = "flushing" => p.seen = db[p.var]
    /\ p.step = "done" =>
         \/ db[p.var] = p.text
         \/ p.seen = Missing /\ db[p.var] = Missing

LoneSets == \A p \in sets : p.alone => LoneSet(p)

UnracedLoads ==
    \A l \in loads : \A v \in Vars \ l.raced :
        /\ SetsOn(v) = {}
        /\ l.step = "done" => l.rows[v] = db[v]

\* No call on v, or a lone one that has not committed.
Undisturbed(v) == \A p \in sets : p.var = v => p.alone /\ p.step # "done"

QuietAgree == \A v \in Vars \ suspect : Undisturbed(v) => Agree(v) /\ SubscribersAgree(v)

Safety == DownIsIdle /\ LoneSets /\ UnracedLoads /\ QuietAgree

LEMMA SafetyInit == Init => Safety
  BY DEF Init, Safety, DownIsIdle, LoneSets, UnracedLoads, QuietAgree, Agree,
         SubscribersAgree, NoCache

LEMMA BootSafe == ASSUME TypeOK, Safety, Boot PROVE Safety'
<1>1. sets = {} /\ loads = {} /\ suspect = {} /\ told = NoCache
  BY DEF Boot, Safety, DownIsIdle
<1>2. ASSUME NEW v \in Vars
      PROVE  Agree(v)' /\ SubscribersAgree(v)'
  <2>1. SubscribersAgree(v)'
    BY <1>1 DEF Boot, SubscribersAgree, NoCache
  <2>2. CASE cache' = NoCache
    BY <2>1, <2>2 DEF Agree, NoCache
  <2>3. CASE cache' = Filled(NoCache, db)
    <3>1. CASE v \in Loaded(db)
      BY <2>1, <2>3, <3>1 DEF Boot, Agree, Filled, Effective
    <3>2. CASE v \notin Loaded(db)
      BY <2>1, <2>3, <3>2 DEF Agree, Filled, NoCache
    <3> QED  BY <3>1, <3>2
  <2> QED  BY <2>2, <2>3 DEF Boot
<1> QED
  BY <1>1, <1>2 DEF Boot, Safety, DownIsIdle, LoneSets, UnracedLoads, QuietAgree

LEMMA CrashSafe == ASSUME TypeOK, Safety, Crash PROVE Safety'
  BY DEF Crash, Safety, DownIsIdle, LoneSets, UnracedLoads, QuietAgree, Agree,
         SubscribersAgree, NoCache, TypeOK

LEMMA SetStartSafe ==
    ASSUME TypeOK, Safety, NEW v \in Vars, NEW text \in Text, SetStart(v, text)
    PROVE  Safety'
<1> DEFINE other(p) == IF p.var = v THEN [p EXCEPT !.alone = FALSE] ELSE p
<1>1. PICK r \in FreeSets :
        sets' = {other(p) : p \in sets} \cup
                {[id |-> r, var |-> v, text |-> text, seen |-> Missing, step |-> "reading",
                  attached |-> TRUE, alone |-> SetsOn(v) = {} /\ loads = {}]}
  BY DEF SetStart
<1> DEFINE new == [id |-> r, var |-> v, text |-> text, seen |-> Missing,
                   step |-> "reading", attached |-> TRUE,
                   alone |-> SetsOn(v) = {} /\ loads = {}]
<1>2. sets' = {other(p) : p \in sets} \cup {new}
  BY <1>1
<1>3. \A p \in sets : /\ other(p).var = p.var /\ other(p).step = p.step
                      /\ p.var # v => other(p) = p
                      /\ p.var = v => ~other(p).alone
  BY DEF TypeOK, SetCall
<1>4. /\ new.var = v /\ new.attached /\ new.step = "reading"
      /\ new.alone <=> (SetsOn(v) = {} /\ loads = {})
  OBVIOUS
<1>5. /\ up /\ UNCHANGED <<up, db, cache, told, suspect>>
      /\ loads' = {[l EXCEPT !.raced = @ \cup {v}] : l \in loads}
  BY DEF SetStart
<1> HIDE DEF other, new
<1>6. DownIsIdle'
  BY <1>5 DEF DownIsIdle
<1>7. LoneSets'
  <2> SUFFICES ASSUME NEW p \in sets', p.alone PROVE LoneSet(p)'
    BY DEF LoneSets
  <2>1. CASE p = new
    <3>1. SetsOn(v) = {} /\ loads = {}
      BY <2>1, <1>4
    <3>2. \A q \in sets' : q.var = v => q = new
      BY <3>1, <1>2, <1>3 DEF SetsOn
    <3>3. loads' = {}
      BY <3>1, <1>5
    <3> QED  BY <2>1, <3>2, <3>3, <1>4 DEF LoneSet
  <2>2. CASE p # new
    <3>1. p \in sets /\ p.var # v
      BY <2>2, <1>2, <1>3
    <3>2. LoneSet(p)
      BY <3>1 DEF Safety, LoneSets
    <3>3. loads' = {}
      BY <3>2, <1>5 DEF LoneSet
    <3>4. \A q \in sets' : q.var = p.var => q = p
      BY <3>1, <3>2, <1>2, <1>3, <1>4 DEF LoneSet
    <3> QED  BY <3>2, <3>3, <3>4, <1>5 DEF LoneSet
  <2> QED  BY <2>1, <2>2
<1>8. UnracedLoads'
  <2> SUFFICES ASSUME NEW m \in loads', NEW w \in Vars \ m.raced
               PROVE  SetsOn(w)' = {} /\ (m.step = "done" => m.rows[w] = db[w])
    BY <1>5 DEF UnracedLoads
  <2>1. PICK l \in loads : m = [l EXCEPT !.raced = @ \cup {v}]
    BY <1>5
  <2>2. w # v /\ w \notin l.raced /\ m.step = l.step /\ m.rows = l.rows
    BY <2>1 DEF TypeOK, LoadCall
  <2>3. SetsOn(w) = {} /\ (l.step = "done" => l.rows[w] = db[w])
    BY <2>2 DEF Safety, UnracedLoads
  <2>4. SetsOn(w)' = {}
    BY <2>2, <2>3, <1>2, <1>3, <1>4 DEF SetsOn
  <2> QED  BY <2>2, <2>3, <2>4
<1>9. QuietAgree'
  <2> SUFFICES ASSUME NEW w \in Vars \ suspect, Undisturbed(w)'
               PROVE  Agree(w) /\ SubscribersAgree(w)
    BY <1>5 DEF QuietAgree, Agree, SubscribersAgree
  <2>1. Undisturbed(w)
    <3>1. CASE w = v
      <4>1. new \in sets'
        BY <1>2
      <4>2. new.alone
        BY <4>1, <3>1, <1>4 DEF Undisturbed
      <4> QED  BY <4>2, <3>1, <1>4 DEF Undisturbed, SetsOn
    <3>2. CASE w # v
      BY <3>2, <1>2, <1>3 DEF Undisturbed
    <3> QED  BY <3>1, <3>2
  <2> QED  BY <2>1 DEF Safety, QuietAgree
<1> QED  BY <1>6, <1>7, <1>8, <1>9 DEF Safety

LEMMA SetReadSafe == ASSUME TypeOK, Safety, NEW p \in sets, SetRead(p) PROVE Safety'
<1> DEFINE q == [p EXCEPT !.step = "flushing", !.seen = db[p.var]]
<1>1. /\ sets' = (sets \ {p}) \cup {q}
      /\ UNCHANGED <<up, db, cache, told, loads, suspect>>
  BY DEF SetRead
<1>2. /\ q.var = p.var /\ q.alone = p.alone /\ q.attached = p.attached
      /\ q.step = "flushing" /\ q.seen = db[p.var] /\ p.step = "reading"
  BY DEF SetRead, TypeOK, SetCall
<1> HIDE DEF q
<1>3. DownIsIdle'
  BY <1>1 DEF Safety, DownIsIdle
<1>4. LoneSets'
  BY <1>1, <1>2 DEF Safety, LoneSets, LoneSet
<1>5. UnracedLoads'
  BY <1>1, <1>2 DEF Safety, UnracedLoads, SetsOn
<1>6. QuietAgree'
  <2>1. ASSUME NEW v \in Vars, Undisturbed(v)' PROVE Undisturbed(v)
    BY <2>1, <1>1, <1>2 DEF Undisturbed
  <2> QED  BY <2>1, <1>1 DEF Safety, QuietAgree, Agree, SubscribersAgree
<1> QED  BY <1>3, <1>4, <1>5, <1>6 DEF Safety

\* What a flush writes: the call's text, unless there is no row.
LEMMA FlushedValue ==
    ASSUME TypeOK, NEW p \in sets
    PROVE  /\ \A v \in Vars : v # p.var => Flushed(p)[v] = db[v]
           /\ p.seen = db[p.var] =>
                \/ Flushed(p)[p.var] = p.text
                \/ p.seen = Missing /\ Flushed(p)[p.var] = Missing
  BY DEF TypeOK, SetCall, Flushed, Dirty

LEMMA SetCommitSafe == ASSUME TypeOK, Safety, NEW p \in sets, SetCommit(p) PROVE Safety'
<1> DEFINE q == [p EXCEPT !.step = "done"]
<1>1. /\ sets' = (sets \ {p}) \cup {q} /\ db' = Flushed(p)
      /\ UNCHANGED <<up, cache, told, loads, suspect>>
  BY DEF SetCommit
<1>2. /\ q.var = p.var /\ q.alone = p.alone /\ q.attached = p.attached /\ q.text = p.text
      /\ q.step = "done" /\ q.seen = p.seen /\ p.step = "flushing" /\ p.var \in Vars
  BY DEF SetCommit, TypeOK, SetCall
<1> HIDE DEF q
<1>3. DownIsIdle'
  BY <1>1 DEF Safety, DownIsIdle
<1>4. LoneSets'
  <2> SUFFICES ASSUME NEW a \in sets', a.alone PROVE LoneSet(a)'
    BY DEF LoneSets
  <2>1. CASE a = q
    BY <2>1, <1>1, <1>2, FlushedValue DEF Safety, LoneSets, LoneSet
  <2>2. CASE a # q
    <3>1. a \in sets /\ LoneSet(a) /\ a.var \in Vars
      BY <2>2, <1>1 DEF Safety, LoneSets, TypeOK, SetCall
    <3>2. a.var # p.var
      BY <3>1, <2>2, <1>1 DEF LoneSet
    <3>3. db'[a.var] = db[a.var]
      BY <3>1, <3>2, <1>1, FlushedValue
    <3> QED  BY <3>1, <3>2, <3>3, <1>1, <1>2 DEF LoneSet
  <2> QED  BY <2>1, <2>2
<1>5. UnracedLoads'
  <2> SUFFICES ASSUME NEW l \in loads, NEW v \in Vars \ l.raced
               PROVE  SetsOn(v)' = {} /\ (l.step = "done" => l.rows[v] = db'[v])
    BY <1>1 DEF UnracedLoads
  <2>1. SetsOn(v) = {} /\ (l.step = "done" => l.rows[v] = db[v])
    BY DEF Safety, UnracedLoads
  <2>2. v # p.var
    BY <2>1 DEF SetsOn
  <2> QED  BY <2>1, <2>2, <1>1, <1>2, FlushedValue DEF SetsOn
<1>6. QuietAgree'
  <2> SUFFICES ASSUME NEW v \in Vars \ suspect, Undisturbed(v)'
               PROVE  Agree(v)' /\ SubscribersAgree(v)'
    BY <1>1 DEF QuietAgree
  <2>1. v # p.var
    BY <1>1, <1>2 DEF Undisturbed
  <2>2. Undisturbed(v)
    BY <2>1, <1>1, <1>2 DEF Undisturbed
  <2>3. db'[v] = db[v]
    BY <2>1, <1>1, FlushedValue
  <2> QED  BY <2>2, <2>3, <1>1 DEF Safety, QuietAgree, Agree, SubscribersAgree
<1> QED  BY <1>3, <1>4, <1>5, <1>6 DEF Safety

LEMMA SetFailSafe == ASSUME TypeOK, Safety, NEW p \in sets, SetFail(p) PROVE Safety'
<1>1. /\ sets' = sets \ {p} /\ suspect' = SuspectUnlessAlone(p) /\ p.step # "done"
      /\ UNCHANGED <<up, db, cache, told, loads>>
  BY DEF SetFail
<1>2. up
  BY DEF Safety, DownIsIdle
<1>3. DownIsIdle' /\ LoneSets' /\ UnracedLoads'
  BY <1>1, <1>2 DEF Safety, DownIsIdle, LoneSets, LoneSet, UnracedLoads, SetsOn
<1>4. QuietAgree'
  <2> SUFFICES ASSUME NEW v \in Vars \ suspect', Undisturbed(v)'
               PROVE  Agree(v)' /\ SubscribersAgree(v)'
    BY DEF QuietAgree
  <2>1. v \notin suspect /\ (p.var = v => p.alone)
    BY <1>1 DEF SuspectUnlessAlone
  <2>2. Undisturbed(v)
    BY <2>1, <1>1 DEF Undisturbed
  <2> QED  BY <2>1, <2>2, <1>1 DEF Safety, QuietAgree, Agree, SubscribersAgree
<1> QED  BY <1>3, <1>4 DEF Safety

LEMMA SetAnswerLostSafe ==
    ASSUME TypeOK, Safety, NEW p \in sets, SetAnswerLost(p)
    PROVE  Safety'
<1>1. /\ sets' = sets \ {p} /\ suspect' = suspect \cup {p.var} /\ db' = Flushed(p)
      /\ UNCHANGED <<up, cache, told, loads>>
  BY DEF SetAnswerLost
<1>2. up
  BY DEF Safety, DownIsIdle
<1>3. \A a \in sets : a.var \in Vars
  BY DEF TypeOK, SetCall
<1>4. LoneSets'
  <2> SUFFICES ASSUME NEW a \in sets, a # p, a.alone PROVE LoneSet(a)'
    BY <1>1 DEF LoneSets
  <2>1. LoneSet(a) /\ a.var # p.var
    BY DEF Safety, LoneSets, LoneSet
  <2>2. db'[a.var] = db[a.var]
    BY <2>1, <1>1, <1>3, FlushedValue
  <2> QED  BY <2>1, <2>2, <1>1 DEF LoneSet
<1>5. UnracedLoads'
  <2> SUFFICES ASSUME NEW l \in loads, NEW v \in Vars \ l.raced
               PROVE  SetsOn(v)' = {} /\ (l.step = "done" => l.rows[v] = db'[v])
    BY <1>1 DEF UnracedLoads
  <2>1. SetsOn(v) = {} /\ (l.step = "done" => l.rows[v] = db[v])
    BY DEF Safety, UnracedLoads
  <2>2. v # p.var
    BY <2>1 DEF SetsOn
  <2> QED  BY <2>1, <2>2, <1>1, FlushedValue DEF SetsOn
<1>6. QuietAgree'
  <2> SUFFICES ASSUME NEW v \in Vars \ suspect', Undisturbed(v)'
               PROVE  Agree(v)' /\ SubscribersAgree(v)'
    BY DEF QuietAgree
  <2>1. v \notin suspect /\ v # p.var
    BY <1>1
  <2>2. Undisturbed(v) /\ db'[v] = db[v]
    BY <2>1, <1>1, FlushedValue DEF Undisturbed
  <2> QED  BY <2>1, <2>2, <1>1 DEF Safety, QuietAgree, Agree, SubscribersAgree
<1> QED  BY <1>1, <1>2, <1>4, <1>5, <1>6 DEF Safety, DownIsIdle

LEMMA SetFinishSafe == ASSUME TypeOK, Safety, NEW p \in sets, SetFinish(p) PROVE Safety'
<1>1. /\ p.step = "done" /\ sets' = sets \ {p}
      /\ told' = [told EXCEPT ![p.var] = p.text]
      /\ cache' = IF p.attached THEN [cache EXCEPT ![p.var] = p.text] ELSE cache
      /\ suspect' = IF p.alone THEN suspect \ {p.var} ELSE suspect \cup {p.var}
      /\ UNCHANGED <<up, db, loads>>
  BY DEF SetFinish
<1>2. up
  BY DEF Safety, DownIsIdle
<1>3. /\ p.var \in Vars /\ cache \in [Vars -> MaybeText] /\ told \in [Vars -> MaybeText]
      /\ \A v \in Vars : v # p.var => cache'[v] = cache[v] /\ told'[v] = told[v]
  BY <1>1 DEF TypeOK, SetCall
<1>4. DownIsIdle' /\ LoneSets' /\ UnracedLoads'
  BY <1>1, <1>2 DEF Safety, DownIsIdle, LoneSets, LoneSet, UnracedLoads, SetsOn
<1>5. QuietAgree'
  <2> SUFFICES ASSUME NEW v \in Vars \ suspect', Undisturbed(v)'
               PROVE  Agree(v)' /\ SubscribersAgree(v)'
    BY DEF QuietAgree
  <2>1. CASE v = p.var
    <3>1. p.alone
      BY <2>1, <1>1
    <3>2. p.attached /\ (db[v] = p.text \/ db[v] = Missing)
      BY <3>1, <2>1, <1>1 DEF Safety, LoneSets, LoneSet
    <3>3. cache'[v] = p.text /\ told'[v] = p.text
      BY <3>2, <2>1, <1>1, <1>3
    <3> QED  BY <3>2, <3>3, <1>1 DEF Agree, SubscribersAgree
  <2>2. CASE v # p.var
    <3>1. v \notin suspect /\ Undisturbed(v)
      BY <2>2, <1>1 DEF Undisturbed
    <3> QED  BY <3>1, <2>2, <1>1, <1>3 DEF Safety, QuietAgree, Agree, SubscribersAgree
  <2> QED  BY <2>1, <2>2
<1> QED  BY <1>4, <1>5 DEF Safety

LEMMA SetStepSafe == ASSUME TypeOK, Safety, SetStep PROVE Safety'
  BY SetStartSafe, SetReadSafe, SetCommitSafe, SetFailSafe, SetAnswerLostSafe, SetFinishSafe,
     VarsAssumption DEF SetStep

-----------------------------------------------------------------------------
(* Reloads. *)

LEMMA LoadStartSafe == ASSUME TypeOK, Safety, LoadStart PROVE Safety'
<1> DEFINE mark(p) == [p EXCEPT !.alone = FALSE]
           raced == {p.var : p \in sets}
<1>1. PICK r \in FreeLoads :
        loads' = loads \cup {[id |-> r, rows |-> NoCache, step |-> "reading", raced |-> raced]}
  BY DEF LoadStart
<1>2. /\ up /\ sets' = {mark(p) : p \in sets}
      /\ UNCHANGED <<up, db, cache, told, suspect>>
  BY DEF LoadStart
<1>3. \A p \in sets : mark(p).var = p.var /\ ~mark(p).alone
  BY DEF TypeOK, SetCall
<1> HIDE DEF mark
<1>4. DownIsIdle' /\ LoneSets'
  BY <1>2, <1>3 DEF DownIsIdle, LoneSets
<1>5. \A v : SetsOn(v) = {} => SetsOn(v)' = {}
  BY <1>2, <1>3 DEF SetsOn
<1>6. UnracedLoads'
  <2> SUFFICES ASSUME NEW l \in loads', NEW v \in Vars \ l.raced
               PROVE  SetsOn(v)' = {} /\ (l.step = "done" => l.rows[v] = db[v])
    BY <1>2 DEF UnracedLoads
  <2>1. CASE l \in loads
    BY <2>1, <1>5 DEF Safety, UnracedLoads
  <2>2. CASE l \notin loads
    <3>1. l.raced = raced /\ l.step = "reading"
      BY <2>2, <1>1
    <3> QED  BY <3>1, <1>5 DEF SetsOn
  <2> QED  BY <2>1, <2>2
<1>7. QuietAgree'
  <2>1. ASSUME NEW v \in Vars, Undisturbed(v)' PROVE Undisturbed(v)
    BY <2>1, <1>2, <1>3 DEF Undisturbed
  <2> QED  BY <2>1, <1>2 DEF Safety, QuietAgree, Agree, SubscribersAgree
<1> QED  BY <1>4, <1>6, <1>7 DEF Safety

LEMMA LoadReadSafe == ASSUME TypeOK, Safety, NEW l \in loads, LoadRead(l) PROVE Safety'
<1> DEFINE m == [l EXCEPT !.step = "done", !.rows = db]
<1>1. /\ loads' = (loads \ {l}) \cup {m}
      /\ UNCHANGED <<up, db, cache, told, sets, suspect>>
  BY DEF LoadRead
<1>2. m.raced = l.raced /\ m.rows = db
  BY DEF TypeOK, LoadCall
<1> HIDE DEF m
<1>3. \A p \in sets : ~p.alone
  BY DEF Safety, LoneSets, LoneSet
<1>4. up
  BY DEF Safety, DownIsIdle
<1>5. UnracedLoads'
  <2> SUFFICES ASSUME NEW n \in loads', NEW v \in Vars \ n.raced
               PROVE  SetsOn(v) = {} /\ (n.step = "done" => n.rows[v] = db[v])
    BY <1>1 DEF UnracedLoads, SetsOn
  <2> QED  BY <1>1, <1>2 DEF Safety, UnracedLoads
<1>6. QuietAgree'
  BY <1>1 DEF Safety, QuietAgree, Undisturbed, Agree, SubscribersAgree
<1> QED  BY <1>1, <1>3, <1>4, <1>5, <1>6 DEF Safety, DownIsIdle, LoneSets

LEMMA LoadFailSafe == ASSUME TypeOK, Safety, NEW l \in loads, LoadFail(l) PROVE Safety'
<1>1. loads' = loads \ {l} /\ UNCHANGED <<up, db, cache, told, sets, suspect>>
  BY DEF LoadFail
<1>2. up /\ \A p \in sets : ~p.alone
  BY DEF Safety, DownIsIdle, LoneSets, LoneSet
<1> QED
  BY <1>1, <1>2 DEF Safety, DownIsIdle, LoneSets, UnracedLoads, SetsOn,
     QuietAgree, Undisturbed, Agree, SubscribersAgree

\* A variable filled from its own row agrees with it.
LEMMA FilledAgrees ==
    ASSUME TypeOK, NEW l \in loads, NEW v \in Vars,
           LoadFinish(l), v \in Loaded(l.rows), l.rows[v] = db[v]
    PROVE  Agree(v)'
  BY DEF LoadFinish, Filled, Effective, Agree

LEMMA LoadFinishSafe == ASSUME TypeOK, Safety, NEW l \in loads, LoadFinish(l) PROVE Safety'
<1> DEFINE detach(p) ==
      IF p.var \in Loaded(l.rows) THEN [p EXCEPT !.attached = FALSE] ELSE p
<1>1. /\ l.step = "done" /\ cache' = Filled(cache, l.rows)
      /\ sets' = {detach(p) : p \in sets} /\ loads' = loads \ {l}
      /\ suspect' = suspect \cup l.raced /\ UNCHANGED <<up, db, told>>
  BY DEF LoadFinish
<1>2. \A p \in sets : detach(p).var = p.var /\ detach(p).alone = p.alone
  BY DEF TypeOK, SetCall
<1> HIDE DEF detach
<1>3. up /\ \A p \in sets : ~p.alone
  BY DEF Safety, DownIsIdle, LoneSets, LoneSet
<1>4. DownIsIdle' /\ LoneSets'
  BY <1>1, <1>2, <1>3 DEF DownIsIdle, LoneSets
<1>5. \A v : SetsOn(v) = {} => SetsOn(v)' = {}
  BY <1>1, <1>2 DEF SetsOn
<1>6. UnracedLoads'
  BY <1>1, <1>5 DEF Safety, UnracedLoads
<1>7. QuietAgree'
  <2> SUFFICES ASSUME NEW v \in Vars, v \notin suspect, v \notin l.raced
               PROVE  Agree(v)' /\ SubscribersAgree(v)'
    BY <1>1 DEF QuietAgree
  <2>1. SetsOn(v) = {} /\ l.rows[v] = db[v]
    BY <1>1 DEF Safety, UnracedLoads
  <2>2. Agree(v) /\ SubscribersAgree(v)
    BY <2>1 DEF Safety, QuietAgree, Undisturbed, SetsOn
  <2>3. Agree(v)'
    <3>1. CASE v \in Loaded(l.rows)
      BY <3>1, <2>1, FilledAgrees
    <3>2. CASE v \notin Loaded(l.rows)
      BY <3>2, <2>2, <1>1 DEF Agree, Filled
    <3> QED  BY <3>1, <3>2
  <2> QED  BY <2>2, <2>3, <1>1 DEF SubscribersAgree
<1> QED  BY <1>4, <1>6, <1>7 DEF Safety

LEMMA SafetyStep == TypeOK /\ Safety /\ [Next]_vars => Safety'
<1> SUFFICES ASSUME TypeOK, Safety, [Next]_vars PROVE Safety'
  OBVIOUS
<1>1. CASE UNCHANGED vars
  BY <1>1 DEF vars, Safety, DownIsIdle, LoneSets, LoneSet, UnracedLoads, SetsOn,
              QuietAgree, Undisturbed, Agree, SubscribersAgree
<1>2. CASE LoadStep
  BY <1>2, LoadStartSafe, LoadReadSafe, LoadFailSafe, LoadFinishSafe DEF LoadStep
<1> QED  BY <1>1, <1>2, BootSafe, CrashSafe, SetStepSafe DEF Next

THEOREM SafetyInvariant == Spec => [](TypeOK /\ Safety)
  BY TypeInit, TypeStep, SafetyInit, SafetyStep, PTL DEF Spec

-----------------------------------------------------------------------------
(* What the invariant gives. *)

\* Cache, subscribers and table differ only through a race or a lost answer.
THEOREM CoherenceTheorem == Spec => []CoherentUnlessRaced
<1>1. Safety => CoherentUnlessRaced
  BY DEF Safety, QuietAgree, Undisturbed, CoherentUnlessRaced, Settled, SetsOn
<1> QED  BY <1>1, SafetyInvariant, PTL

\* A set nobody raced, on a variable with a row, is stored when it is answered.
THEOREM AcknowledgedTheorem == Spec => []AcknowledgedIsStored
<1>1. Safety => AcknowledgedIsStored
  BY DEF Safety, LoneSets, LoneSet, AcknowledgedIsStored
<1> QED  BY <1>1, SafetyInvariant, PTL

\* A reload no set overlapped makes every variable it fills agree with its row.
THEOREM ReloadTheorem == Spec => UnracedReloadRepairs
<1>1. TypeOK /\ Safety =>
        [\A l \in loads : LoadFinish(l) =>
            \A v \in Loaded(l.rows) \ l.raced : Agree(v)']_vars
  <2> SUFFICES ASSUME TypeOK, Safety, NEW l \in loads, LoadFinish(l),
                      NEW v \in Loaded(l.rows) \ l.raced
               PROVE  Agree(v)'
    OBVIOUS
  <2>1. v \in Vars /\ l.rows[v] = db[v]
    BY LoadedHasValue DEF Safety, UnracedLoads, LoadFinish
  <2> QED  BY <2>1, FilledAgrees
<1> QED  BY <1>1, SafetyInvariant, PTL DEF UnracedReloadRepairs

\* While the process runs no variable disappears from the cache.
THEOREM KnownTheorem == Spec => KnownStaysKnown
<1>1. TypeOK /\ Safety /\ [Next]_vars =>
        [up' => \A v \in Vars : cache[v] # Missing => cache'[v] # Missing]_vars
  <2> SUFFICES ASSUME TypeOK, Safety, Next, up', NEW v \in Vars, cache[v] # Missing
               PROVE  cache'[v] # Missing
    OBVIOUS
  <2>1. up
    BY DEF Safety, DownIsIdle, NoCache
  <2>2. ASSUME NEW p \in sets, SetFinish(p) PROVE cache'[v] # Missing
    BY <2>2, MissingAssumption DEF SetFinish, TypeOK, SetCall
  <2>3. ASSUME NEW l \in loads, LoadFinish(l) PROVE cache'[v] # Missing
    BY <2>3, LoadedHasValue DEF LoadFinish, Filled
  <2>4. CASE SetStep
    BY <2>2, <2>4 DEF SetStep, SetStart, SetRead, SetCommit, SetFail, SetAnswerLost
  <2>5. CASE LoadStep
    BY <2>3, <2>5 DEF LoadStep, LoadStart, LoadRead, LoadFail
  <2> QED  BY <2>1, <2>4, <2>5 DEF Next, Boot, Crash
<1>2. Spec => [][Next]_vars
  BY DEF Spec
<1> QED  BY <1>1, <1>2, SafetyInvariant, PTL DEF KnownStaysKnown

-----------------------------------------------------------------------------
(***************************************************************************)
(* The atomic store.  A flush writes what the store's set writes only if   *)
(* the row it read is still there, so the refinement needs that no row     *)
(* disappears under a set.                                                 *)
(***************************************************************************)
ReadIsThere ==
    \A p \in sets : p.step # "reading" /\ p.seen # Missing => db[p.var] # Missing

LEMMA RowsStay ==
    ASSUME TypeOK, ReadIsThere, NEW p \in sets, NEW v \in Vars, db[v] # Missing,
           p.step = "flushing", db' = Flushed(p)
    PROVE  db'[v] # Missing
BY MissingAssumption DEF TypeOK, SetCall, Flushed

LEMMA ThereStep == ASSUME TypeOK, ReadIsThere, [Next]_vars PROVE ReadIsThere'
<1> USE DEF ReadIsThere
<1>1. ASSUME NEW v \in Changed, NEW text \in Text, SetStart(v, text)
      PROVE  ReadIsThere'
  <2> DEFINE other(p) == IF p.var = v THEN [p EXCEPT !.alone = FALSE] ELSE p
  <2>1. \A p \in sets : /\ other(p).var = p.var /\ other(p).step = p.step
                        /\ other(p).seen = p.seen
    BY DEF TypeOK, SetCall
  <2>2. PICK r \in FreeSets :
          sets' = {other(p) : p \in sets} \cup
                  {[id |-> r, var |-> v, text |-> text, seen |-> Missing, step |-> "reading",
                    attached |-> TRUE, alone |-> SetsOn(v) = {} /\ loads = {}]}
    BY <1>1 DEF SetStart
  <2>3. db' = db
    BY <1>1 DEF SetStart
  <2> HIDE DEF other
  <2> QED  BY <2>1, <2>2, <2>3
<1>2. ASSUME NEW p \in sets, SetRead(p)
      PROVE  ReadIsThere'
  BY <1>2 DEF SetRead, TypeOK, SetCall
<1>3. ASSUME NEW p \in sets, SetCommit(p)
      PROVE  ReadIsThere'
  <2> DEFINE q == [p EXCEPT !.step = "done"]
  <2>1. q.var = p.var /\ q.seen = p.seen /\ p.step = "flushing"
    BY <1>3 DEF SetCommit, TypeOK, SetCall
  <2>2. sets' = (sets \ {p}) \cup {q} /\ db' = Flushed(p)
    BY <1>3 DEF SetCommit
  <2>3. \A a \in sets : a.var \in Vars
    BY DEF TypeOK, SetCall
  <2> HIDE DEF q
  <2> QED  BY <2>1, <2>2, <2>3, RowsStay
<1>4. ASSUME NEW p \in sets, SetFail(p) \/ SetFinish(p)
      PROVE  ReadIsThere'
  BY <1>4 DEF SetFail, SetFinish
<1>5. ASSUME NEW p \in sets, SetAnswerLost(p)
      PROVE  ReadIsThere'
  <2>1. sets' = sets \ {p} /\ db' = Flushed(p) /\ p.step = "flushing"
    BY <1>5 DEF SetAnswerLost
  <2>2. \A a \in sets : a.var \in Vars
    BY DEF TypeOK, SetCall
  <2> QED  BY <2>1, <2>2, RowsStay
<1>6. CASE LoadStart
  <2> DEFINE mark(p) == [p EXCEPT !.alone = FALSE]
  <2>1. \A p \in sets : mark(p).var = p.var /\ mark(p).step = p.step /\ mark(p).seen = p.seen
    BY DEF TypeOK, SetCall
  <2>2. sets' = {mark(p) : p \in sets} /\ db' = db
    BY <1>6 DEF LoadStart
  <2> HIDE DEF mark
  <2> QED  BY <2>1, <2>2
<1>7. ASSUME NEW l \in loads, LoadRead(l) \/ LoadFail(l)
      PROVE  ReadIsThere'
  BY <1>7 DEF LoadRead, LoadFail
<1>8. ASSUME NEW l \in loads, LoadFinish(l)
      PROVE  ReadIsThere'
  <2> DEFINE detach(p) ==
        IF p.var \in Loaded(l.rows) THEN [p EXCEPT !.attached = FALSE] ELSE p
  <2>1. \A p \in sets : /\ detach(p).var = p.var /\ detach(p).step = p.step
                        /\ detach(p).seen = p.seen
    BY DEF TypeOK, SetCall
  <2>2. sets' = {detach(p) : p \in sets} /\ db' = db
    BY <1>8 DEF LoadFinish
  <2> HIDE DEF detach
  <2> QED  BY <2>1, <2>2
<1>9. CASE Boot \/ Crash \/ UNCHANGED vars
  BY <1>9 DEF Boot, Crash, vars
<1> QED
  BY <1>1, <1>2, <1>3, <1>4, <1>5, <1>6, <1>7, <1>8, <1>9 DEF Next, SetStep, LoadStep

\* No row that a set has read disappears while the set is in flight.
THEOREM ThereTheorem == Spec => []ReadIsThere
<1>1. Init => ReadIsThere
  BY DEF Init, ReadIsThere
<1>2. TypeOK /\ ReadIsThere /\ [Next]_vars => ReadIsThere'
  BY ThereStep
<1> QED  BY <1>1, <1>2, TypeCorrect, PTL DEF Spec

-----------------------------------------------------------------------------
(* The call that occupies a slot. *)

Slots == SetSlots \cup LoadSlots

\* An identifier names one member of a set of calls that keeps them apart.
LEMMA ChosenCall ==
    ASSUME NEW C, NEW c \in C, \A a, b \in C : a.id = b.id => a = b
    PROVE  (CHOOSE a \in C : a.id = c.id) = c
OBVIOUS

LEMMA OperationOfSet ==
    ASSUME TypeOK, NEW p \in sets
    PROVE  p.id \in SetSlots /\ Operation(p.id) = StoreSet(p)
<1>1. p.id \in SetSlots
  BY DEF TypeOK, SetCall
<1>2. (CHOOSE a \in sets : a.id = p.id) = p
  BY ChosenCall DEF TypeOK
<1>3. ~ \E l \in loads : l.id = p.id
  BY <1>1, SlotsAssumption DEF TypeOK, LoadCall
<1> QED
  BY <1>1, <1>2, <1>3 DEF Operation

LEMMA OperationOfLoad ==
    ASSUME TypeOK, NEW l \in loads
    PROVE  l.id \in LoadSlots /\ Operation(l.id) = StoreGet(l)
<1>1. l.id \in LoadSlots
  BY DEF TypeOK, LoadCall
<1>2. (CHOOSE a \in loads : a.id = l.id) = l
  BY ChosenCall DEF TypeOK
<1>3. ~ \E p \in sets : p.id = l.id
  BY <1>1, SlotsAssumption DEF TypeOK, SetCall
<1> QED
  BY <1>1, <1>2, <1>3 DEF Operation

LEMMA OperationOfNone ==
    ASSUME NEW r, \A p \in sets : p.id # r, \A l \in loads : l.id # r
    PROVE  Operation(r) = Store!Idle
BY DEF Operation, Store!Idle

\* The same after a step.
LEMMA OperationOfSetAfter ==
    ASSUME TypeOK', NEW p \in sets'
    PROVE  p.id \in SetSlots /\ Operation(p.id)' = StoreSet(p)
<1>1. p.id \in SetSlots
  BY DEF TypeOK, SetCall
<1>2. (CHOOSE a \in sets' : a.id = p.id) = p
  BY ChosenCall DEF TypeOK
<1>3. ~ \E l \in loads' : l.id = p.id
  BY <1>1, SlotsAssumption DEF TypeOK, LoadCall
<1> QED
  BY <1>1, <1>2, <1>3 DEF Operation, StoreSet, TookEffect, Dirty

LEMMA OperationOfLoadAfter ==
    ASSUME TypeOK', NEW l \in loads'
    PROVE  l.id \in LoadSlots /\ Operation(l.id)' = StoreGet(l)
<1>1. l.id \in LoadSlots
  BY DEF TypeOK, LoadCall
<1>2. (CHOOSE a \in loads' : a.id = l.id) = l
  BY ChosenCall DEF TypeOK
<1>3. ~ \E p \in sets' : p.id = l.id
  BY <1>1, SlotsAssumption DEF TypeOK, SetCall
<1> QED
  BY <1>1, <1>2, <1>3 DEF Operation, StoreGet

LEMMA OperationOfNoneAfter ==
    ASSUME NEW r, \A p \in sets' : p.id # r, \A l \in loads' : l.id # r
    PROVE  Operation(r)' = Store!Idle
BY DEF Operation, Store!Idle

\* A slot whose call is, for the store, the call it was.
SameSet(r) ==
    /\ \A p \in sets : p.id = r => \E q \in sets' : q.id = r /\ StoreSet(q) = StoreSet(p)
    /\ \A q \in sets' : q.id = r => \E p \in sets : p.id = r

SameLoad(r) ==
    /\ \A l \in loads : l.id = r => \E m \in loads' : m.id = r /\ StoreGet(m) = StoreGet(l)
    /\ \A m \in loads' : m.id = r => \E l \in loads : l.id = r

LEMMA SameOperation ==
    ASSUME TypeOK, TypeOK', NEW r, SameSet(r), SameLoad(r)
    PROVE  Operation(r)' = Operation(r)
<1>1. CASE \E p \in sets : p.id = r
  <2>1. PICK p \in sets : p.id = r
    BY <1>1
  <2>2. PICK q \in sets' : q.id = r /\ StoreSet(q) = StoreSet(p)
    BY <2>1 DEF SameSet
  <2> QED
    BY <2>1, <2>2, OperationOfSet, OperationOfSetAfter
<1>2. CASE \E l \in loads : l.id = r
  <2>1. PICK l \in loads : l.id = r
    BY <1>2
  <2>2. PICK m \in loads' : m.id = r /\ StoreGet(m) = StoreGet(l)
    BY <2>1 DEF SameLoad
  <2> QED
    BY <2>1, <2>2, OperationOfLoad, OperationOfLoadAfter
<1>3. CASE (\A p \in sets : p.id # r) /\ (\A l \in loads : l.id # r)
  <2>1. (\A p \in sets' : p.id # r) /\ (\A l \in loads' : l.id # r)
    BY <1>3 DEF SameSet, SameLoad
  <2> QED
    BY <1>3, <2>1, OperationOfNone, OperationOfNoneAfter
<1> QED
  BY <1>1, <1>2, <1>3

LEMMA KeptSets == ASSUME NEW r, UNCHANGED sets PROVE SameSet(r)
BY DEF SameSet

LEMMA KeptLoads == ASSUME NEW r, UNCHANGED loads PROVE SameLoad(r)
BY DEF SameLoad

\* A step of one call is a step of one operation of the store.
LEMMA OneOperation ==
    ASSUME NEW r \in Slots, NEW o, Operation(r)' = o,
           \A s \in Slots \ {r} : Operation(s)' = Operation(s)
    PROVE  Store!Become(r, o)
BY DEF Slots, Store!Become

LEMMA SameOperations ==
    ASSUME \A r \in Slots : Operation(r)' = Operation(r), UNCHANGED db
    PROVE  UNCHANGED Store!vars
BY DEF Slots, Store!vars

-----------------------------------------------------------------------------
(* What each kind of step is for the store. *)

\* A set that starts is invoked, and what it marks on the others the store does not see.
LEMMA SetStartRefines ==
    ASSUME TypeOK, TypeOK', NEW v \in Vars, NEW text \in Text, SetStart(v, text)
    PROVE  Store!Next
<1> DEFINE other(p) == IF p.var = v THEN [p EXCEPT !.alone = FALSE] ELSE p
           race(l) == [l EXCEPT !.raced = @ \cup {v}]
<1>1. PICK r \in FreeSets :
        sets' = {other(p) : p \in sets} \cup
                {[id |-> r, var |-> v, text |-> text, seen |-> Missing, step |-> "reading",
                  attached |-> TRUE, alone |-> SetsOn(v) = {} /\ loads = {}]}
  BY DEF SetStart
<1> DEFINE new == [id |-> r, var |-> v, text |-> text, seen |-> Missing,
                   step |-> "reading", attached |-> TRUE,
                   alone |-> SetsOn(v) = {} /\ loads = {}]
<1>2. /\ sets' = {other(p) : p \in sets} \cup {new}
      /\ loads' = {race(l) : l \in loads} /\ db' = db
  BY <1>1 DEF SetStart
<1>3. \A p \in sets : other(p).id = p.id /\ StoreSet(other(p)) = StoreSet(p)
  BY DEF TypeOK, SetCall, StoreSet, TookEffect, Dirty
<1>4. \A l \in loads : race(l).id = l.id /\ StoreGet(race(l)) = StoreGet(l)
  BY DEF TypeOK, LoadCall, StoreGet
<1>5. new.id = r /\ StoreSet(new) = Store!Set("application", v, text, "invoked")
  BY DEF StoreSet, TookEffect, Store!Set
<1> HIDE DEF other, race, new
<1>6. /\ r \in SetSlots /\ r \in Slots
      /\ \A p \in sets : p.id # r
  BY Zenon DEF FreeSets, Slots
<1>7. \A l \in loads : l.id # r
  BY <1>6, SlotsAssumption DEF TypeOK, LoadCall
<1>8. Operation(r) = Store!Idle
  BY <1>6, <1>7, OperationOfNone
<1>9. Operation(r)' = Store!Set("application", v, text, "invoked")
  BY <1>2, <1>5, OperationOfSetAfter
<1>10. \A s \in Slots \ {r} : Operation(s)' = Operation(s)
  <2> SUFFICES ASSUME NEW s \in Slots \ {r} PROVE Operation(s)' = Operation(s)
    OBVIOUS
  <2>1. SameSet(s)
    BY <1>2, <1>3, <1>5 DEF SameSet
  <2>2. SameLoad(s)
    BY <1>2, <1>4 DEF SameLoad
  <2> QED
    BY <2>1, <2>2, SameOperation
<1>11. Store!Become(r, Store!Set("application", v, text, "invoked"))
  BY <1>6, <1>9, <1>10, OneOperation
<1>12. Store!Invoke(r)
  BY <1>2, <1>6, <1>8, <1>11 DEF Store!Invoke, Slots
<1> QED
  BY <1>6, <1>12 DEF Store!Next, Slots

LEMMA LoadStartRefines == ASSUME TypeOK, TypeOK', LoadStart PROVE Store!Next
<1> DEFINE mark(p) == [p EXCEPT !.alone = FALSE]
<1>1. PICK r \in FreeLoads :
        loads' = loads \cup {[id |-> r, rows |-> NoCache, step |-> "reading",
                              raced |-> {p.var : p \in sets}]}
  BY DEF LoadStart
<1> DEFINE new == [id |-> r, rows |-> NoCache, step |-> "reading",
                   raced |-> {p.var : p \in sets}]
<1>2. loads' = loads \cup {new} /\ sets' = {mark(p) : p \in sets} /\ db' = db
  BY <1>1 DEF LoadStart
<1>3. \A p \in sets : mark(p).id = p.id /\ StoreSet(mark(p)) = StoreSet(p)
  BY DEF TypeOK, SetCall, StoreSet, TookEffect, Dirty
<1>4. new.id = r /\ StoreGet(new) = Store!Get("application", "invoked", Store!NoRows)
  BY DEF StoreGet, NoCache, Store!Get, Store!NoRows
<1> HIDE DEF mark, new
<1>5. /\ r \in LoadSlots /\ r \in Slots
      /\ \A l \in loads : l.id # r
  BY Zenon DEF FreeLoads, Slots
<1>6. \A p \in sets : p.id # r
  BY <1>5, SlotsAssumption DEF TypeOK, SetCall
<1>7. Operation(r) = Store!Idle
  BY <1>5, <1>6, OperationOfNone
<1>8. Operation(r)' = Store!Get("application", "invoked", Store!NoRows)
  BY <1>2, <1>4, OperationOfLoadAfter
<1>9. \A s \in Slots \ {r} : Operation(s)' = Operation(s)
  <2> SUFFICES ASSUME NEW s \in Slots \ {r} PROVE Operation(s)' = Operation(s)
    OBVIOUS
  <2>1. SameSet(s)
    BY <1>2, <1>3 DEF SameSet
  <2>2. SameLoad(s)
    BY <1>2, <1>4 DEF SameLoad
  <2> QED
    BY <2>1, <2>2, SameOperation
<1>10. Store!Become(r, Store!Get("application", "invoked", Store!NoRows))
  BY <1>5, <1>8, <1>9, OneOperation
<1>11. Store!Invoke(r)
  BY <1>2, <1>5, <1>7, <1>10 DEF Store!Invoke, Slots
<1> QED
  BY <1>5, <1>11 DEF Store!Next, Slots

\* A set that moves on to q becomes q for the store, alone.
LEMMA SetMoves ==
    ASSUME TypeOK, TypeOK', NEW p \in sets, NEW q, q.id = p.id,
           sets' = (sets \ {p}) \cup {q}, UNCHANGED loads
    PROVE  /\ p.id \in Slots /\ Operation(p.id) = StoreSet(p)
           /\ Store!Become(p.id, StoreSet(q))
<1>1. /\ p.id \in Slots /\ Operation(p.id) = StoreSet(p)
      /\ Operation(p.id)' = StoreSet(q)
  BY OperationOfSet, OperationOfSetAfter DEF Slots
<1>2. \A s \in Slots \ {p.id} : Operation(s)' = Operation(s)
  <2> SUFFICES ASSUME NEW s \in Slots \ {p.id} PROVE Operation(s)' = Operation(s)
    OBVIOUS
  <2>2. SameSet(s)
    BY DEF SameSet
  <2>3. SameLoad(s)
    BY KeptLoads
  <2> QED
    BY <2>2, <2>3, SameOperation
<1> QED
  BY <1>1, <1>2, OneOperation

LEMMA SetEnds ==
    ASSUME TypeOK, TypeOK', NEW p \in sets, sets' = sets \ {p}, UNCHANGED loads
    PROVE  /\ p.id \in Slots /\ Operation(p.id) = StoreSet(p)
           /\ Store!Become(p.id, Store!Idle)
<1>1. p.id \in SetSlots /\ p.id \in Slots /\ Operation(p.id) = StoreSet(p)
  BY OperationOfSet DEF Slots
<1>2. \A q \in sets' : q.id # p.id
  BY DEF TypeOK
<1>3. \A l \in loads' : l.id # p.id
  BY <1>1, SlotsAssumption DEF TypeOK, LoadCall
<1>4. Operation(p.id)' = Store!Idle
  BY <1>2, <1>3, OperationOfNoneAfter
<1>5. \A s \in Slots \ {p.id} : Operation(s)' = Operation(s)
  <2> SUFFICES ASSUME NEW s \in Slots \ {p.id} PROVE Operation(s)' = Operation(s)
    OBVIOUS
  <2>2. SameSet(s)
    BY DEF SameSet
  <2>3. SameLoad(s)
    BY KeptLoads
  <2> QED
    BY <2>2, <2>3, SameOperation
<1> QED
  BY <1>1, <1>4, <1>5, OneOperation

LEMMA LoadMoves ==
    ASSUME TypeOK, TypeOK', NEW l \in loads, NEW m, m.id = l.id,
           loads' = (loads \ {l}) \cup {m}, UNCHANGED sets
    PROVE  /\ l.id \in Slots /\ Operation(l.id) = StoreGet(l)
           /\ Store!Become(l.id, StoreGet(m))
<1>1. /\ l.id \in Slots /\ Operation(l.id) = StoreGet(l)
      /\ Operation(l.id)' = StoreGet(m)
  BY OperationOfLoad, OperationOfLoadAfter DEF Slots
<1>2. \A s \in Slots \ {l.id} : Operation(s)' = Operation(s)
  <2> SUFFICES ASSUME NEW s \in Slots \ {l.id} PROVE Operation(s)' = Operation(s)
    OBVIOUS
  <2>2. SameSet(s)
    BY KeptSets
  <2>3. SameLoad(s)
    BY DEF SameLoad
  <2> QED
    BY <2>2, <2>3, SameOperation
<1> QED
  BY <1>1, <1>2, OneOperation

\* A reload ends; what its end marks on the sets in flight the store does not see.
LEMMA LoadEnds ==
    ASSUME TypeOK, TypeOK', NEW l \in loads, loads' = loads \ {l},
           \A r \in Slots : SameSet(r)
    PROVE  /\ l.id \in Slots /\ Operation(l.id) = StoreGet(l)
           /\ Store!Become(l.id, Store!Idle)
<1>1. l.id \in LoadSlots /\ l.id \in Slots /\ Operation(l.id) = StoreGet(l)
  BY OperationOfLoad DEF Slots
<1>2. \A m \in loads' : m.id # l.id
  BY DEF TypeOK
<1>3. \A p \in sets' : p.id # l.id
  BY <1>1, SlotsAssumption DEF TypeOK, SetCall
<1>4. Operation(l.id)' = Store!Idle
  BY <1>2, <1>3, OperationOfNoneAfter
<1>5. \A s \in Slots \ {l.id} : Operation(s)' = Operation(s)
  <2> SUFFICES ASSUME NEW s \in Slots \ {l.id} PROVE Operation(s)' = Operation(s)
    OBVIOUS
  <2>2. SameSet(s)
    BY Zenon
  <2>3. SameLoad(s)
    BY DEF SameLoad
  <2> QED
    BY <2>2, <2>3, SameOperation
<1> QED
  BY <1>1, <1>4, <1>5, OneOperation

\* The store's table after a set that found its row: the variable is its text.
LEMMA FlushIsWritten ==
    ASSUME TypeOK, ReadIsThere, NEW p \in sets, p.step = "flushing", Dirty(p),
           db' = Flushed(p)
    PROVE  [u \in {"application"} |-> db]' = Store!Written(StoreSet(p))
<1>1. p.var \in Vars /\ db[p.var] # Missing
  BY DEF TypeOK, SetCall, ReadIsThere, Dirty
<1>2. db' = [db EXCEPT ![p.var] = p.text]
  BY DEF Flushed
<1> QED
  BY <1>1, <1>2 DEF Store!Written, StoreSet

\* A set that will have nothing to write would write what is there.
LEMMA CleanIsWritten ==
    ASSUME TypeOK, NEW p \in sets, db[p.var] \in {Missing, p.text}, UNCHANGED db
    PROVE  [u \in {"application"} |-> db]' = Store!Written(StoreSet(p))
<1>1. p.var \in Vars /\ db = [db EXCEPT ![p.var] = db[p.var]]
  BY DEF TypeOK, SetCall
<1> QED
  BY <1>1 DEF Store!Written, StoreSet

LEMMA SetReadRefines ==
    ASSUME TypeOK, TypeOK', NEW p \in sets, SetRead(p)
    PROVE  Store!Next \/ UNCHANGED Store!vars
<1> DEFINE q == [p EXCEPT !.step = "flushing", !.seen = db[p.var]]
<1>1. /\ sets' = (sets \ {p}) \cup {q} /\ UNCHANGED loads /\ UNCHANGED db
      /\ p.step = "reading"
  BY DEF SetRead
<1>2. /\ q.id = p.id /\ q.var = p.var /\ q.text = p.text /\ q.step = "flushing"
      /\ q.seen = db[p.var]
  BY DEF TypeOK, SetCall
<1> HIDE DEF q
<1>3. /\ p.id \in Slots /\ Operation(p.id) = StoreSet(p)
      /\ Store!Become(p.id, StoreSet(q))
  BY <1>1, <1>2, SetMoves
<1>4. StoreSet(p) = Store!Set("application", p.var, p.text, "invoked")
  BY <1>1 DEF StoreSet, TookEffect, Store!Set
<1>5. CASE db[p.var] \in {Missing, p.text}
  <2>1. StoreSet(q) = Store!Set("application", p.var, p.text, "done")
    BY <1>2, <1>5 DEF StoreSet, TookEffect, Dirty, Store!Set
  <2>2. [u \in {"application"} |-> db]' = Store!Written(StoreSet(p))
    BY <1>1, <1>5, CleanIsWritten
  <2>3. Store!TakeEffect(p.id)
    BY <1>3, <1>4, <2>1, <2>2 DEF Store!TakeEffect, Store!Set, Slots
  <2> QED
    BY <1>3, <2>3 DEF Store!Next, Slots
<1>6. CASE db[p.var] \notin {Missing, p.text}
  <2>1. StoreSet(q) = StoreSet(p)
    BY <1>1, <1>2, <1>6 DEF StoreSet, TookEffect, Dirty
  <2>2. \A s \in Slots : SameSet(s)
    BY <1>1, <1>2, <2>1 DEF SameSet
  <2>3. \A s \in Slots : SameLoad(s)
    BY <1>1, KeptLoads
  <2>4. \A s \in Slots : Operation(s)' = Operation(s)
    BY <2>2, <2>3, SameOperation
  <2> QED
    BY <1>1, <2>4, SameOperations
<1> QED
  BY <1>5, <1>6

LEMMA SetCommitRefines ==
    ASSUME TypeOK, TypeOK', ReadIsThere, NEW p \in sets, SetCommit(p)
    PROVE  Store!Next \/ UNCHANGED Store!vars
<1> DEFINE q == [p EXCEPT !.step = "done"]
<1>1. /\ sets' = (sets \ {p}) \cup {q} /\ UNCHANGED loads /\ db' = Flushed(p)
      /\ p.step = "flushing"
  BY DEF SetCommit
<1>2. q.id = p.id /\ q.var = p.var /\ q.text = p.text /\ q.step = "done"
  BY DEF TypeOK, SetCall
<1> HIDE DEF q
<1>3. /\ p.id \in Slots /\ Operation(p.id) = StoreSet(p)
      /\ Store!Become(p.id, StoreSet(q))
  BY <1>1, <1>2, SetMoves
<1>4. CASE Dirty(p)
  <2>1. /\ StoreSet(p) = Store!Set("application", p.var, p.text, "invoked")
        /\ StoreSet(q) = Store!Set("application", p.var, p.text, "done")
    BY <1>1, <1>2, <1>4 DEF StoreSet, TookEffect, Store!Set
  <2>2. [u \in {"application"} |-> db]' = Store!Written(StoreSet(p))
    BY <1>1, <1>4, FlushIsWritten
  <2>3. Store!TakeEffect(p.id)
    BY <1>3, <2>1, <2>2 DEF Store!TakeEffect, Store!Set, Slots
  <2> QED
    BY <1>3, <2>3 DEF Store!Next, Slots
<1>5. CASE ~Dirty(p)
  <2>1. StoreSet(q) = StoreSet(p) /\ UNCHANGED db
    BY <1>1, <1>2, <1>5 DEF StoreSet, TookEffect, Flushed
  <2>2. \A s \in Slots : SameSet(s)
    BY <1>1, <1>2, <2>1 DEF SameSet
  <2>3. \A s \in Slots : SameLoad(s)
    BY <1>1, KeptLoads
  <2>4. \A s \in Slots : Operation(s)' = Operation(s)
    BY <2>2, <2>3, SameOperation
  <2> QED
    BY <2>1, <2>4, SameOperations
<1> QED
  BY <1>4, <1>5

\* A call that ends without touching the table fails, for the store, or is answered.
LEMMA SetFailRefines ==
    ASSUME TypeOK, TypeOK', NEW p \in sets, sets' = sets \ {p}, UNCHANGED loads, UNCHANGED db
    PROVE  Store!Next
<1>1. /\ p.id \in Slots /\ Operation(p.id) = StoreSet(p)
      /\ Store!Become(p.id, Store!Idle)
  BY SetEnds
<1>2. Store!Fail(p.id)
  BY <1>1 DEF Store!Fail, StoreSet, Slots
<1> QED
  BY <1>1, <1>2 DEF Store!Next, Slots

LEMMA SetAnswerLostRefines ==
    ASSUME TypeOK, TypeOK', ReadIsThere, NEW p \in sets, SetAnswerLost(p)
    PROVE  Store!Next
<1>1. /\ sets' = sets \ {p} /\ UNCHANGED loads /\ db' = Flushed(p)
      /\ p.step = "flushing"
  BY DEF SetAnswerLost
<1>2. CASE Dirty(p)
  <2>1. /\ p.id \in Slots /\ Operation(p.id) = StoreSet(p)
        /\ Store!Become(p.id, Store!Idle)
    BY <1>1, SetEnds
  <2>2. StoreSet(p).kind = "set" /\ StoreSet(p).step = "invoked"
    BY <1>1, <1>2 DEF StoreSet, TookEffect
  <2>3. [u \in {"application"} |-> db]' = Store!Written(StoreSet(p))
    BY <1>1, <1>2, FlushIsWritten
  <2>4. Store!Fail(p.id)
    BY <2>1, <2>2, <2>3 DEF Store!Fail, Slots
  <2> QED
    BY <2>1, <2>4 DEF Store!Next, Slots
<1>3. CASE ~Dirty(p)
  BY <1>1, <1>3, SetFailRefines DEF Flushed
<1> QED
  BY <1>2, <1>3

LEMMA SetFinishRefines ==
    ASSUME TypeOK, TypeOK', NEW p \in sets, SetFinish(p)
    PROVE  Store!Next
<1>1. sets' = sets \ {p} /\ UNCHANGED loads /\ UNCHANGED db /\ p.step = "done"
  BY DEF SetFinish
<1>2. /\ p.id \in Slots /\ Operation(p.id) = StoreSet(p)
      /\ Store!Become(p.id, Store!Idle)
  BY <1>1, SetEnds
<1>3. Store!Answer(p.id)
  BY <1>1, <1>2 DEF Store!Answer, StoreSet, TookEffect, Slots
<1> QED
  BY <1>2, <1>3 DEF Store!Next, Slots

LEMMA LoadReadRefines ==
    ASSUME TypeOK, TypeOK', NEW l \in loads, LoadRead(l)
    PROVE  Store!Next
<1> DEFINE m == [l EXCEPT !.step = "done", !.rows = db]
<1>1. /\ loads' = (loads \ {l}) \cup {m} /\ UNCHANGED sets /\ UNCHANGED db
      /\ l.step = "reading"
  BY DEF LoadRead
<1>2. m.id = l.id /\ m.step = "done" /\ m.rows = db
  BY DEF TypeOK, LoadCall
<1> HIDE DEF m
<1>3. /\ l.id \in Slots /\ Operation(l.id) = StoreGet(l)
      /\ Store!Become(l.id, StoreGet(m))
  BY <1>1, <1>2, LoadMoves
<1>4. /\ StoreGet(l).kind = "get" /\ StoreGet(l).step = "invoked"
      /\ StoreGet(l).user = "application"
      /\ StoreGet(m) = Store!Get("application", "done", db)
  BY <1>1, <1>2 DEF StoreGet, Store!Get
<1>5. Store!TakeEffect(l.id)
  BY <1>1, <1>3, <1>4 DEF Store!TakeEffect, Slots
<1> QED
  BY <1>3, <1>5 DEF Store!Next, Slots

LEMMA LoadFailRefines ==
    ASSUME TypeOK, TypeOK', NEW l \in loads, LoadFail(l)
    PROVE  Store!Next
<1>1. loads' = loads \ {l} /\ UNCHANGED sets /\ UNCHANGED db
  BY DEF LoadFail
<1>2. \A r \in Slots : SameSet(r)
  BY <1>1, KeptSets
<1>3. /\ l.id \in Slots /\ Operation(l.id) = StoreGet(l)
      /\ Store!Become(l.id, Store!Idle)
  BY <1>1, <1>2, LoadEnds
<1>4. Store!Fail(l.id)
  BY <1>1, <1>3 DEF Store!Fail, StoreGet, Slots
<1> QED
  BY <1>3, <1>4 DEF Store!Next, Slots

LEMMA LoadFinishRefines ==
    ASSUME TypeOK, TypeOK', NEW l \in loads, LoadFinish(l)
    PROVE  Store!Next
<1> DEFINE detach(p) ==
      IF p.var \in Loaded(l.rows) THEN [p EXCEPT !.attached = FALSE] ELSE p
<1>1. /\ sets' = {detach(p) : p \in sets} /\ loads' = loads \ {l} /\ UNCHANGED db
      /\ l.step = "done"
  BY DEF LoadFinish
<1>2. \A p \in sets : detach(p).id = p.id /\ StoreSet(detach(p)) = StoreSet(p)
  BY DEF TypeOK, SetCall, StoreSet, TookEffect, Dirty
<1> HIDE DEF detach
<1>3. \A r \in Slots : SameSet(r)
  BY <1>1, <1>2 DEF SameSet
<1>4. /\ l.id \in Slots /\ Operation(l.id) = StoreGet(l)
      /\ Store!Become(l.id, Store!Idle)
  BY <1>1, <1>3, LoadEnds
<1>5. Store!Answer(l.id)
  BY <1>1, <1>4 DEF Store!Answer, StoreGet, Slots
<1> QED
  BY <1>4, <1>5 DEF Store!Next, Slots

\* Whatever was in flight is gone.
LEMMA CrashRefines == ASSUME Crash PROVE Store!Next
<1>1. \A r \in Slots : Operation(r)' = Store!Idle
  BY OperationOfNoneAfter DEF Crash
<1>2. Store!FailAll
  BY <1>1 DEF Crash, Store!FailAll, Slots
<1> QED
  BY <1>2 DEF Store!Next

LEMMA InitRefines == Init => Store!Init
<1> SUFFICES ASSUME Init
             PROVE  Store!Init
  OBVIOUS
<1>1. \A r \in Slots : Operation(r) = Store!Idle
  BY OperationOfNone DEF Init
<1> QED
  BY <1>1 DEF Init, Store!Init, Slots

LEMMA StepRefines ==
    ASSUME TypeOK, TypeOK', ReadIsThere, [Next]_vars
    PROVE  Store!Next \/ UNCHANGED Store!vars
<1>1. CASE SetStep
  <2>1. ASSUME NEW v \in Changed, NEW text \in Text, SetStart(v, text)
        PROVE  Store!Next
    BY <2>1, SetStartRefines, VarsAssumption
  <2>2. ASSUME NEW p \in sets, SetFail(p)
        PROVE  Store!Next
    BY <2>2, SetFailRefines DEF SetFail
  <2> QED
    BY <1>1, <2>1, <2>2, SetReadRefines, SetCommitRefines, SetAnswerLostRefines,
       SetFinishRefines DEF SetStep
<1>2. CASE LoadStep
  BY <1>2, LoadStartRefines, LoadReadRefines, LoadFailRefines, LoadFinishRefines DEF LoadStep
<1>3. CASE Crash
  BY <1>3, CrashRefines
<1>4. CASE Boot \/ UNCHANGED vars
  <2>1. UNCHANGED sets /\ UNCHANGED loads /\ UNCHANGED db
    BY <1>4 DEF Boot, vars
  <2>2. \A r \in Slots : SameSet(r) /\ SameLoad(r)
    BY <2>1, KeptSets, KeptLoads
  <2>3. \A r \in Slots : Operation(r)' = Operation(r)
    BY <2>2, SameOperation
  <2> QED
    BY <2>1, <2>3, SameOperations
<1> QED
  BY <1>1, <1>2, <1>3, <1>4 DEF Next

\* Sets and reloads act on the table at one moment each: it implements the store.
THEOREM StoreTheorem == Spec => ImplementsStore
<1>1. Init => Store!Init
  BY InitRefines
<1>2. TypeOK /\ TypeOK' /\ ReadIsThere /\ [Next]_vars => [Store!Next]_(Store!vars)
  BY StepRefines
<1> QED
  BY <1>1, <1>2, TypeCorrect, ThereTheorem, PTL DEF Spec, ImplementsStore, Store!Spec
=============================================================================
