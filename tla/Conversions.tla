---------------------------- MODULE Conversions ----------------------------
(***************************************************************************)
(* How a value of a configuration variable becomes text and a value again  *)
(* (config-utils.ts, env-utils.ts, AppConfigService), and the property     *)
(* transforms of transform.decorator.ts.                                   *)
(*                                                                         *)
(* A text is a sequence of words: what stands between its commas, each     *)
(* with or without blanks around it.  A value is <<kind, content>>, where  *)
(* the content of a number, a Boolean or a string is its text and that of  *)
(* an array the sequence of its texts.                                     *)
(***************************************************************************)
EXTENDS Lists

CONSTANTS
    Numerals,    \* those Number() reads, in the form String() writes
    Json,        \* those JSON.parse() reads as an array or object, to that value
    Cases        \* triples of the same word in lower, upper and title case

ASSUME NumeralsAssumption == {"0", "1"} \subseteq Numerals /\ {"", "NaN"} \cap Numerals = {}

\* A word has one form of each case.
ASSUME CasesAssumption ==
    /\ \A t \in Cases : DOMAIN t = 1 .. 3
    /\ \A s, t \in Cases : ToSet(s) \cap ToSet(t) # {} => s = t


Word(w) == [word |-> w, padded |-> "no"]
Padded(w) == [word |-> w, padded |-> "yes"]

Text(w) == <<Word(w)>>

Undefined == <<"undefined", <<>>>>
Null == <<"null", <<>>>>
Throws == <<"throws", <<>>>>
Bool(b) == <<"Boolean", Text(IF b THEN "true" ELSE "false")>>
Num(w) == <<"Number", Text(w)>>
Str(t) == <<"String", t>>
Arr(ts) == <<"Array", ts>>

Kind(v) == v[1]
Content(v) == v[2]

-----------------------------------------------------------------------------
(* Conversions of the language *)

Trim(t) == [i \in DOMAIN t |-> IF Len(t) = 1 THEN Word(t[i].word) ELSE t[i]]

\* String(value); an array joins its texts with commas.
StringOf(v) ==
    CASE Kind(v) \in {"undefined", "null"} -> Text(Kind(v))
      [] Kind(v) = "Array" -> IF Content(v) = <<>> THEN Text("") ELSE FlattenSeq(Content(v))
      [] Kind(v) = "Object" -> Text("[object Object]")
      [] OTHER -> Content(v)

\* Number(text)
NumberOf(t) ==
    CASE Trim(t) = Text("") -> Num("0")
      [] \E w \in Numerals : Trim(t) = Text(w) -> Num(Trim(t)[1].word)
      [] OTHER -> Num("NaN")

\* JSON.parse(text)
JsonOf(t) ==
    CASE Trim(t)[1].word \in DOMAIN Json /\ Len(t) = 1 -> Json[Trim(t)[1].word]
      [] Trim(t) \in {Text("true"), Text("false")} -> <<"Boolean", Trim(t)>>
      [] \E w \in Numerals : Trim(t) = Text(w) -> <<"Number", Trim(t)>>
      [] OTHER -> Throws

-----------------------------------------------------------------------------
(* Values of configuration variables *)

\* getTypeName
TypeName ==
    [S |-> "String", N |-> "Number", B |-> "Boolean", D |-> "Date", T |-> "Timestamp",
     A |-> "Array", O |-> "Object"]

\* Mutant: every text that is not empty is true.
ValueFromStringTruthy(type, t) ==
    CASE type = "S" -> Str(t)
      [] type = "N" -> NumberOf(t)
      [] type = "B" -> Bool(t # Text(""))
      [] type \in {"D", "T"} -> Str(Text("?"))
      [] type \in {"A", "O"} -> JsonOf(t)

ValueFromString(type, t) ==
    CASE type = "S" -> Str(t)
      [] type = "N" -> NumberOf(t)
      [] type = "B" -> Bool(t = Text("true"))
      [] type \in {"D", "T"} -> Str(Text("?"))
      [] type \in {"A", "O"} -> JsonOf(t)

\* EnvUtils.getBooleanValue, without a default; a variable that is not there throws.
GetBooleanValue(env) ==
    CASE env = Undefined -> Throws
      [] env = Str(Text("")) -> Bool(FALSE)
      [] OTHER -> Bool(Trim(Content(env)) = Text("true"))

\* EnvUtils.getNumberValue, without a default
GetNumberValue(env) ==
    CASE env = Undefined -> Throws
      [] env = Str(Text("")) -> Num("0")
      [] OTHER -> NumberOf(Content(env))

GetValue(env) == IF env = Undefined THEN Throws ELSE env

\* AppConfigService.initVariables, for one descriptor: .env, overridden by the text of
\* the table unless that is empty, or else the default of the descriptor.
FromEnv(type, env) ==
    LET value == CASE type = "B" -> GetBooleanValue(env)
                   [] type = "N" -> GetNumberValue(env)
                   [] type = "S" -> GetValue(env)
                   [] OTHER -> Undefined
    IN IF value = Throws THEN Undefined ELSE value

Overridden(type, env, override, row) ==
    IF override = "yes" /\ row \notin {Undefined, Str(Text(""))}
    THEN ValueFromString(type, Content(row))
    ELSE FromEnv(type, env)

LoadedValue(type, env, override, row, default) ==
    LET value == Overridden(type, env, override, row)
    IN IF value # Undefined THEN value
       ELSE IF default = Undefined THEN Throws
       ELSE ValueFromString(type, Content(default))

\* setVariable: what the caller sent is cached, and its text goes to the row.  Only the
\* type the caller names is compared with the type of the variable.
SetValue(type, sent) ==
    IF sent.type # type THEN [cached |-> Throws, row |-> Throws]
    ELSE [cached |-> sent.value, row |-> Str(StringOf(sent.value))]

\* getString, getNumber, getBoolean
TypedGetter(asked, type, value) == IF type # asked THEN Throws ELSE value

-----------------------------------------------------------------------------
(* Traces *)

\* String.includes
Includes(t, part) == \E i \in 0 .. Len(t) - Len(part) : SubSeq(t, i + 1, i + Len(part)) = part

\* TraceService.matchingFilter.  found is what match() would give; that it gives null or
\* the filter is no pattern throws, as does trim() of what is no string, and is caught.
MatchingFilter(msg, filter, isRegex, found) ==
    \/ filter = Undefined
    \/ /\ Kind(filter) = "String"
       /\ \/ Trim(Content(filter)) = Text("")
          \/ isRegex = "yes" /\ found = "yes"
          \/ isRegex = "no" /\ Includes(msg, Content(filter))

\* logData, isDataEnabled
LogData(data, dataEnabled) ==
    IF data \in {Undefined, Null} \/ dataEnabled = "no" THEN {} ELSE {"data"}

\* verbose
Verbose(msg, filter, isRegex, found, data, dataEnabled) ==
    IF MatchingFilter(msg, filter, isRegex, found) THEN {"message"} \cup LogData(data, dataEnabled)
    ELSE {}

-----------------------------------------------------------------------------
(* Lists and maps.  A Map is the sequence of its entries, in order of       *)
(* insertion; an entry that is set again keeps its place.                   *)

HasKey(map, k) == \E i \in DOMAIN map : map[i].key = k

MapGet(map, k) == map[CHOOSE i \in DOMAIN map : map[i].key = k].value

MapSet(map, k, v) ==
    IF HasKey(map, k)
    THEN [i \in DOMAIN map |-> IF map[i].key = k THEN [map[i] EXCEPT !.value = v] ELSE map[i]]
    ELSE Append(map, [key |-> k, value |-> v])

ArrayToMap(data) == FoldLeft(LAMBDA acc, item : MapSet(acc, item.key, item), <<>>, data)

MapToArray(map) == [i \in DOMAIN map |-> map[i].value]

FilterMap(map, kept) == Filter(map, {entry \in ToSet(map) : entry.value \in kept})

SortArrayItemsByProperty(data) ==
    FoldLeft(LAMBDA acc, item :
                 MapSet(acc, item.key,
                        Append(IF HasKey(acc, item.key) THEN MapGet(acc, item.key) ELSE <<>>, item)),
             <<>>, data)

-----------------------------------------------------------------------------
(* Property transforms *)

\* assignIfNullish
AssignIfNullish(v, other) == IF v \in {Undefined, Null} THEN other ELSE v

ToBoolean(v) ==
    CASE v = Undefined -> Undefined
      [] v \in {Str(Text("true")), Num("1"), Bool(TRUE)} -> Bool(TRUE)
      [] v \in {Str(Text("false")), Num("0"), Bool(FALSE)} -> Bool(FALSE)
      [] OTHER -> Null

\* new Date(value), which gives an invalid date and never throws
DateOf(v) == IF Kind(v) = "Date" THEN v ELSE <<"Date", StringOf(v)>>

ToDate(v) == IF v = Undefined THEN Undefined ELSE DateOf(v)

ToNumber(v) ==
    LET number == CASE v = Bool(TRUE) -> Num("1")
                    [] v = Bool(FALSE) -> Num("0")
                    [] OTHER -> NumberOf(StringOf(v))
    IN IF v \in {Undefined, Null} THEN v
       ELSE IF number = Num("NaN") THEN Null ELSE number

\* Lower, upper and title case of a word; words without letters have none of their own.
InCase(case, w) ==
    LET forms == {t \in Cases : w \in ToSet(t)}
    IN IF forms = {} THEN w ELSE (CHOOSE t \in forms : TRUE)[case]

ToText(case, v) ==
    LET str == StringOf(v)
    IN IF v \in {Undefined, Null} THEN v
       ELSE IF case = 0 THEN Str(str)
       ELSE Str([i \in DOMAIN str |-> [str[i] EXCEPT !.word = InCase(case, @)]])

\* [...new Set(texts)], in order of insertion
Distinct(texts) == FoldLeft(LAMBDA kept, t : IF Contains(kept, t) THEN kept ELSE Append(kept, t),
                            <<>>, texts)

\* s.split(',')
Split(t) == [i \in DOMAIN t |-> <<t[i]>>]

Falsy == {Null, Num("0"), Num("NaN"), Bool(FALSE), Str(Text(""))}

\* With the default separator.  What is neither text nor array has no split().
ToStringArray(v) ==
    CASE v = Undefined -> Undefined
      [] v \in Falsy -> Arr(<<>>)
      [] Kind(v) = "String" /\ v \notin Falsy -> Arr(Distinct(Split(Content(v))))
      [] Kind(v) = "Array" ->
            Arr(Distinct(FlattenSeq([i \in DOMAIN Content(v) |-> Split(Content(v)[i])])))
      [] OTHER -> Throws
=============================================================================
