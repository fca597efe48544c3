----------------------------- MODULE Operators -----------------------------
(***************************************************************************)
(* The program's pure functions, applied to every input of some bounded    *)
(* sets: a behavior chooses an input and keeps it, and an invariant says   *)
(* of the results what the rest of the program takes for granted.          *)
(***************************************************************************)
EXTENDS AccessRules, Conversions

CONSTANTS
    Masks,      \* feature masks
    Texts,      \* texts of variables, in .env, the table or a request
    MaxTexts,   \* bounds the elements of an array
    MaxRows     \* bounds the rows that are loaded into a map

\* The catalogue reserves three ranges of bits for features.
ASSUME MasksAssumption == Masks \subseteq 0 .. 2^(3 * FEATURE_ROLE_BITS_RANGE_LEN) - 1
ASSUME TextsAssumption == Texts \subseteq Seq([word : STRING, padded : {"yes", "no"}]) \ {<<>>}
ASSUME ListBounds == MaxTexts \in Nat /\ MaxRows \in Nat

VARIABLE input

-----------------------------------------------------------------------------
(* Inputs *)

Lists(S) == BoundedSeq(S, MaxItems)

\* The roles of a user, or no user.
Who == Lists(Role) \cup {Nobody}

Scalar == {"S", "N", "B"}

\* What a variable of the type may be set to.
ValuesOf(type) ==
    CASE type = "S" -> {Str(t) : t \in Texts}
      [] type = "N" -> {Num(w) : w \in Numerals}
      [] type = "B" -> {Bool(b) : b \in BOOLEAN}

Maybe(S) == S \cup {Undefined}
Strings == {Str(t) : t \in Texts}

AnyValue ==
    {Undefined, Null, Num("NaN")} \cup (UNION {ValuesOf(type) : type \in Scalar})
        \cup {Arr(ts) : ts \in BoundedSeq(Texts, MaxTexts)}

MaskInput == [of : {"mask"}, features : Masks, feature : Feature, role : DecisionRole]
RolesInput == [of : {"roles"}, valid : Lists(DecisionRole), who : Who]
DecisionInput == [of : {"decision"}, decision : Decision, who : Who]
LoadInput == [of : {"load"}, type : Scalar, env : Maybe(Strings), override : {"yes", "no"},
              row : Maybe(Strings), default : Maybe(Strings)]
SetInput == UNION {[of : {"set"}, type : {type}, value : ValuesOf(type)] : type \in Scalar}
TraceInput == [of : {"trace"}, msg : Texts, filter : AnyValue, isRegex : {"yes", "no"},
               found : {"yes", "no"}, data : {Undefined, Null, Num("0")},
               dataEnabled : {"yes", "no"}]
Item == [key : {"a", "b"}, owner : {1, 2}]
ListInput == [of : {"list"}, data : BoundedSeq(Item, MaxRows)]
TransformInput == [of : {"transform"}, case : 0 .. 3, value : AnyValue]

Init ==
    \/ input \in MaskInput
    \/ input \in RolesInput
    \/ input \in DecisionInput
    \/ input \in LoadInput
    \/ input \in SetInput
    \/ input \in TransformInput
    \/ input \in TraceInput
    \/ input \in ListInput

Spec == Init /\ [][UNCHANGED input]_input

-----------------------------------------------------------------------------
(* Masks *)

Meaning(features) == {f \in Feature : IsFeatureExistInBitValues(features, f)}

\* Adding and removing a feature change its bit only, and are union and difference of
\* the sets the masks stand for.
ChangesAreSetOperations(features, f) ==
    LET with == AddFeatureToBitValues(features, f)
        without == RemoveFeatureFromBitValues(features, f)
    IN /\ Meaning(with) = Meaning(features) \cup {f}
       /\ Meaning(without) = Meaning(features) \ {f}
       /\ with - without = FeatureToBitValue(f)
       /\ features \in {with, without}

\* The catalogue lists each feature and each bit once, in the order of the bits.
ListsAreMeanings(features) ==
    LET cfgs == FeatureBitsToFeatureConfigs(features)
    IN /\ {cfg.feature : cfg \in ToSet(cfgs)} = Meaning(features)
       /\ \A i, j \in DOMAIN cfgs : i < j => cfgs[i].bitValue < cfgs[j].bitValue
       /\ \A cfg \in ToSet(cfgs) : ConfigOfBit(cfg.bitValue) = cfg

\* The ranges of the roles take a mask apart, and that of administrators has just the
\* features whose initial data are for administrators.
RangesPartition(features, role) ==
    /\ FeatureBitsOfRole(features, "none") + FeatureBitsOfRole(features, "admin")
           + FeatureBitsOfRole(features, "user") = FeatureBitsOfRole(features, "all")
    /\ Meaning(FeatureBitsOfRole(features, "admin")) =
           {f \in Meaning(features) : InitialDataRoles(f) = {"admin"}}
    /\ FeatureBitsOfRole(FeatureBitsOfRole(features, role), role) = FeatureBitsOfRole(features, role)

\* Feature masks behave as the sets the other modules write for them, whatever bits
\* without a feature they carry.
MasksAreSets ==
    input.of = "mask" =>
        /\ ChangesAreSetOperations(input.features, input.feature)
        /\ ListsAreMeanings(input.features)
        /\ RangesPartition(input.features, input.role)

-----------------------------------------------------------------------------
(* Roles *)

\* What a decision means, without its loop.
ItemsHold(d, value) ==
    IF d.op = "AND" THEN \A item \in ToSet(d.items) : value[item]
    ELSE \E item \in ToSet(d.items) : value[item]

Holds(d, who) ==
    LET holds[x \in Decision] ==
            IF x.op = "role" THEN who # Nobody /\ x.role \in ToSet(who) ELSE ItemsHold(x, holds)
    IN holds[d]

AnyOf(list) == Decisions("OR", [i \in DOMAIN list |-> HasRole(list[i])])
AllOf(list) == Decisions("AND", [i \in DOMAIN list |-> HasRole(list[i])])

\* The guards over HTTP and sockets, the providers and the decisions of the client answer
\* alike whether a user has one of some roles, also for nobody, for no roles and for
\* lists that hold `none` and `all`; and a decision means what its quantifiers say.
RoleChecksAgree ==
    /\ input.of = "roles" =>
          LET valid == input.valid
              who == input.who
          IN /\ GuardEnabled(valid, who) = WsGuardEnabled(valid, who)
             /\ GuardEnabled(valid, who) = Evaluate(AnyOf(valid), who)
             /\ who # Nobody =>
                   /\ GuardEnabled(valid, who) = RolesContainAnyOf(valid, who)
                   /\ RolesContainAllOf(who, valid) <=>
                         Evaluate(AllOf(valid), who) /\ (valid = <<>> => who = <<>>)
                   /\ InRoleBits(1, BitsFromRoles(who)) = Evaluate(HasRole("admin"), who)
                   /\ InRoleBits(2, BitsFromRoles(who)) = Evaluate(HasRole("user"), who)
    /\ input.of = "decision" =>
          Evaluate(input.decision, input.who) = Holds(input.decision, input.who)

-----------------------------------------------------------------------------
(* Values *)

\* A loaded variable is a value of its type; loading throws only if neither .env, nor
\* the table, nor the descriptor has one; and a text means the same in all three,
\* blanks around a Boolean apart, and apart from the empty text of the table.
LoadsAValue(i) ==
    LET value == LoadedValue(i.type, i.env, i.override, i.row, i.default)
        stored == i.override = "yes" /\ i.row \notin {Undefined, Str(Text(""))}
    IN /\ IF value = Throws THEN i.env = Undefined /\ ~stored /\ i.default = Undefined
          ELSE Kind(value) = TypeName[i.type]
       /\ \A t \in Texts : t = Trim(t) /\ t # Text("") =>
              LET inTable == LoadedValue(i.type, i.env, "yes", Str(t), i.default)
              IN /\ inTable = LoadedValue(i.type, Str(t), "no", i.row, i.default)
                 /\ inTable = LoadedValue(i.type, Undefined, "no", i.row, Str(t))

\* A value of its type that is set is the same after a reload or a restart, unless its
\* text is empty; and nothing that names another type is set.
SetsAValue(i) ==
    LET row == SetValue(i.type, i).row
    IN /\ row # Str(Text("")) =>
              LoadedValue(i.type, Undefined, "yes", row, Undefined) = SetValue(i.type, i).cached
       /\ \A asked \in Scalar :
              /\ (TypedGetter(asked, i.type, i.value) = i.value) <=> (asked = i.type)
              /\ (SetValue(asked, i).cached = Throws) <=> (asked # i.type)

Nullish == {Undefined, Null}

\* A transform gives its kind of value, undefined or null, and leaves what it gave alone.
Settles(i) ==
    LET b == ToBoolean(i.value)
        d == ToDate(i.value)
        n == ToNumber(i.value)
        s == ToText(i.case, i.value)
        a == AssignIfNullish(ToStringArray(i.value), Arr(<<>>))
    IN /\ (b \in Nullish \/ Kind(b) = "Boolean") /\ ToBoolean(b) = b
       /\ (d \in Nullish \/ Kind(d) = "Date") /\ ToDate(d) = d
       /\ (n \in Nullish \/ Kind(n) = "Number") /\ ToNumber(n) = n
       /\ (s \in Nullish \/ Kind(s) = "String") /\ ToText(i.case, s) = s
       /\ a # Throws => /\ Kind(a) = "Array" /\ ToStringArray(a) = a
                        /\ IsInjective(Content(a))

\* A message that passes no filter takes its data with it, and data are logged only
\* where they are switched on; a filter that is no text, as a set may leave it, stops
\* every message rather than its request.
TracesWithItsData(i) ==
    LET lines == Verbose(i.msg, i.filter, i.isRegex, i.found, i.data, i.dataEnabled)
    IN /\ "data" \in lines =>
              /\ "message" \in lines
              /\ i.dataEnabled = "yes" /\ i.data \notin Nullish
       /\ Kind(i.filter) \notin {"String", "undefined"} => lines = {}
       /\ i.filter = Str(i.msg) /\ i.isRegex = "no" => "message" \in lines

\* Loading rows into a map loses none of different keys, keeps their order and otherwise
\* the last; and grouping only reorders them: each key has one group, which has the rows
\* of the key in their order.
KeepsItems(i) ==
    LET map == ArrayToMap(i.data)
        groups == SortArrayItemsByProperty(i.data)
        own == {item \in ToSet(i.data) : item.owner = 1}
    IN /\ (\A j, k \in DOMAIN i.data : i.data[j].key = i.data[k].key => j = k)
              => MapToArray(map) = i.data
       /\ \A j \in DOMAIN i.data :
              (\A k \in j + 1 .. Len(i.data) : i.data[k].key # i.data[j].key)
                  => MapGet(map, i.data[j].key) = i.data[j]
       /\ \A j, k \in DOMAIN map : map[j].key = map[k].key => j = k
       /\ MapToArray(FilterMap(map, own))
              = Filter(MapToArray(map), own)
       /\ \A j, k \in DOMAIN groups : groups[j].key = groups[k].key => j = k
       /\ {groups[g].key : g \in DOMAIN groups} = {item.key : item \in ToSet(i.data)}
       /\ \A g \in DOMAIN groups :
              groups[g].value = Filter(i.data, {item \in ToSet(i.data) : item.key = groups[g].key})

\* Values of application variables keep their meaning on the way to text and back, and
\* so do those that transforms, filters and maps take: see the parts above.  The texts of
\* user variables are not converted when they are read, so none of this holds of them.
ValuesKeepTheirMeaning ==
    /\ input.of = "load" => LoadsAValue(input)
    /\ input.of = "set" => SetsAValue(input)
    /\ input.of = "transform" => Settles(input)
    /\ input.of = "trace" => TracesWithItsData(input)
    /\ input.of = "list" => KeepsItems(input)
=============================================================================
