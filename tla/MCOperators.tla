---------------------------- MODULE MCOperators ----------------------------
(* Values of the constants of Operators. *)
EXTENDS Operators, Bitwise

\* The bits of the features, and one that has no feature in each range of roles.
SomeMasks == {SumSet(bits) : bits \in SUBSET {1, 2, 4, 8, 256, 512, 65536}}

SomeWords == {"", "true", "false", "0", "1", "42", "abc", "ABC", "Abc", "[1]"}
SomeNumerals == {"0", "1", "42"}
SomeJson == [j \in {"[1]"} |-> <<"Array", <<Text("1")>>>>]
SomeCases == {<<"abc", "ABC", "Abc">>, <<"true", "TRUE", "True">>, <<"false", "FALSE", "False">>}

SomeTexts ==
    {Text(w) : w \in SomeWords} \cup {<<Padded(w)>> : w \in {"", "true", "42"}}
        \cup {<<Word("abc"), Word("42")>>, <<Word("abc"), Word("abc")>>}

\* The masks as feature.model.ts computes them, and the bit operators as they are.
MaskValue(mask) == mask[2] - mask[1]
RoleMasks == {FEATURE_ROLE_BITMASK_COMMON, FEATURE_ROLE_BITMASK_ADMIN, FEATURE_ROLE_BITMASK_USER}

ASSUME MasksAreThoseOfTheModel ==
    /\ MaskValue(FEATURE_ROLE_BITMASK_COMMON) = 2^8 - 1
    /\ MaskValue(FEATURE_ROLE_BITMASK_ADMIN) = 2^16 - 1 - MaskValue(FEATURE_ROLE_BITMASK_COMMON)
    /\ MaskValue(FEATURE_ROLE_BITMASK_USER) =
           2^24 - 1 - MaskValue(FEATURE_ROLE_BITMASK_COMMON) - MaskValue(FEATURE_ROLE_BITMASK_ADMIN)

ASSUME BitOperators ==
    \A x \in SomeMasks :
        /\ \A n \in 0 .. 23 :
              LET bit == 2^n
              IN /\ HasBit(x, bit) = ((x & bit) # 0)
                 /\ WithBit(x, bit) = x | bit
                 /\ WithoutBit(x, bit) = (x ^^ (x & bit))
        /\ \A mask \in RoleMasks : BitsOf(x, mask) = x & MaskValue(mask)
=============================================================================
