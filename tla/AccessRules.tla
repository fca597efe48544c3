---------------------------- MODULE AccessRules ----------------------------
(***************************************************************************)
(* The arithmetic of feature masks (feature-utils.ts, feature.model.ts)    *)
(* and the four ways the program asks whether a user has one of a list of  *)
(* roles: RolesGuard over HTTP, WsConnectionGuard over role bits, RoleUtils *)
(* for providers, and the decisions of the client library.                 *)
(*                                                                         *)
(* The other modules write sets for masks; here the masks are numbers.     *)
(***************************************************************************)
EXTENDS Features, Lists

CONSTANTS
    MaxItems,   \* bounds the length of a list of roles or decisions
    MaxDepth    \* bounds the depth of a decision

ASSUME DecisionBounds == MaxItems \in Nat /\ MaxDepth \in Nat \ {0}

-----------------------------------------------------------------------------
(* Feature masks *)

FEATURE_CONFIG ==
    << [feature |-> "APP_CONFIG",     bitValue |-> 1],
       [feature |-> "USER_CONFIG",    bitValue |-> 2],
       [feature |-> "COUNTER",        bitValue |-> 4],
       [feature |-> "CLIENT_MONITOR", bitValue |-> 256] >>

(***************************************************************************)
(* The bit operators, as far as they are used: on a single bit, which is a *)
(* power of two, and on a run of bits.  x & bit is bit or 0; and a mask of *)
(* a run, such as 0xff00, is written <<its lowest bit, the bit after it>>. *)
(***************************************************************************)
HasBit(x, bit) == (x \div bit) % 2 = 1     \* (x & bit) !== 0

WithBit(x, bit) == IF HasBit(x, bit) THEN x ELSE x + bit     \* x | bit

WithoutBit(x, bit) == IF HasBit(x, bit) THEN x - bit ELSE x     \* x & ~bit

BitsOf(x, mask) == (x % mask[2]) - (x % mask[1])     \* x & mask

FEATURE_ROLE_BITS_RANGE_LEN == 8

FEATURE_ROLE_BITMASK_COMMON == <<1, 2^FEATURE_ROLE_BITS_RANGE_LEN>>
FEATURE_ROLE_BITMASK_ADMIN ==
    <<2^FEATURE_ROLE_BITS_RANGE_LEN, 2^(2 * FEATURE_ROLE_BITS_RANGE_LEN)>>
FEATURE_ROLE_BITMASK_USER ==
    <<2^(2 * FEATURE_ROLE_BITS_RANGE_LEN), 2^(3 * FEATURE_ROLE_BITS_RANGE_LEN)>>

ConfigOfFeature(f) == CHOOSE cfg \in ToSet(FEATURE_CONFIG) : cfg.feature = f

ConfigOfBit(bit) == CHOOSE cfg \in ToSet(FEATURE_CONFIG) : cfg.bitValue = bit

FeatureToBitValue(f) == ConfigOfFeature(f).bitValue

\* Mutant: the bit is added without regard to whether it is set.
AddFeatureByPlus(features, f) == features + FeatureToBitValue(f)

AddFeatureToBitValues(features, f) == WithBit(features, FeatureToBitValue(f))

RemoveFeatureFromBitValues(features, f) == WithoutBit(features, FeatureToBitValue(f))

IsFeatureExistInBitValues(features, f) == HasBit(features, FeatureToBitValue(f))

FeatureBitsToFeatureConfigs(features) ==
    Filter(FEATURE_CONFIG, {cfg \in ToSet(FEATURE_CONFIG) : HasBit(features, cfg.bitValue)})

FeatureBitsOfRole(features, role) ==
    CASE role = "none"  -> BitsOf(features, FEATURE_ROLE_BITMASK_COMMON)
      [] role = "admin" -> BitsOf(features, FEATURE_ROLE_BITMASK_ADMIN)
      [] role = "user"  -> BitsOf(features, FEATURE_ROLE_BITMASK_USER)
      [] role = "all"   -> features

-----------------------------------------------------------------------------
(* Lists of roles.  Nobody is an undefined user; a list of a decorator may  *)
(* also hold "none" and "all", which no user has.                          *)

Nobody == <<"nobody">>

BitsFromRoles(list) ==
    (IF Contains(list, "admin") THEN 1 ELSE 0) + (IF Contains(list, "user") THEN 2 ELSE 0)

InRoleBits(roleBit, bits) == HasBit(bits, roleBit)

\* RolesGuard: validRoles.some((role) => user?.roles?.includes(role))
GuardEnabled(validRoles, who) ==
    \E i \in DOMAIN validRoles : who # Nobody /\ Contains(who, validRoles[i])

\* WsConnectionGuard: validRolesBits & conn.roles, where roles are bits of the user.
WsGuardEnabled(validRoles, who) ==
    LET roles == IF who = Nobody THEN 0 ELSE BitsFromRoles(who)
    IN \E bit \in {1, 2} : HasBit(BitsFromRoles(validRoles), bit) /\ HasBit(roles, bit)

RolesContainAnyOf(srcRoles, targetRoles) ==
    /\ ~(Len(srcRoles) > 0 /\ Len(targetRoles) = 0)
    /\ \E n \in DOMAIN targetRoles : Contains(srcRoles, targetRoles[n])

\* No target role is contained trivially, except in a list that has roles.
RolesContainAllOf(srcRoles, targetRoles) ==
    /\ ~(Len(srcRoles) > 0 /\ Len(targetRoles) = 0)
    /\ \A n \in DOMAIN targetRoles : Contains(srcRoles, targetRoles[n])

-----------------------------------------------------------------------------
(* Decisions: a role, or AND / OR of decisions *)

HasRole(role) == [op |-> "role", role |-> role]

Decisions(op, items) == [op |-> op, items |-> items]

RoleDecision(d, who) == who # Nobody /\ Contains(who, d.role)

\* Mutant: the result is initialised for AND, whatever the operation.
StartTrue(d) == TRUE

\* let ret = this.op === Op.AND
Start(d) == d.op = "AND"

\* DecisionsEvaluator.evaluate: the loop over the items, whose values are given.  A break
\* ends it when the result can no longer change, so it changes what is evaluated and not
\* the result.
EvaluateItems(d, value) ==
    LET ret[n \in 0 .. Len(d.items)] ==
            IF n = 0 THEN Start(d)
            ELSE CASE d.op = "AND" -> ret[n - 1] /\ value[d.items[n]]
                   [] d.op = "OR"  -> ret[n - 1] \/ value[d.items[n]]
    IN ret[Len(d.items)]

DecisionRole == Role \cup {"none", "all"}

\* The decisions that nest no deeper than n.
DecisionsOfDepth[n \in 0 .. MaxDepth] ==
    IF n = 0 THEN {HasRole(role) : role \in DecisionRole}
    ELSE DecisionsOfDepth[n - 1] \cup
         {Decisions(op, items) : op \in {"AND", "OR"},
                                 items \in BoundedSeq(DecisionsOfDepth[n - 1], MaxItems)}

Decision == DecisionsOfDepth[MaxDepth]

Evaluate(d, who) ==
    LET evaluate[x \in Decision] ==
            IF x.op = "role" THEN RoleDecision(x, who) ELSE EvaluateItems(x, evaluate)
    IN evaluate[d]
=============================================================================
