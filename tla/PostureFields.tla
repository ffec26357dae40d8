--------------------------- MODULE PostureFields ---------------------------
(***************************************************************************)
(* The typed posture fields (posture_fields.go): which operators each kind *)
(* of field has, the value each puts in its leaf, and what encoding/json   *)
(* makes of it.  Of a value its class is kept, the parts of an ISO 8601    *)
(* duration, and a number.  Numbers are in a unit in which all are whole.  *)
(***************************************************************************)
EXTENDS Integers, Sequences

CONSTANTS Second, Minute, Hour, \* in units of a time.Duration
          Durations,            \* the durations callers pass
          Integers,             \* the int64 values callers pass
          Floats,               \* the numbers that a float64 holds
          Shortest              \* the decimal written for a float64

ASSUME UnitsAssumption ==
    /\ Second \in Nat \ {0} /\ Minute \in Nat \ {0} /\ Hour \in Nat \ {0}
    /\ Durations \subseteq Int

-----------------------------------------------------------------------------
Distance(a, b) == IF a >= b THEN a - b ELSE b - a

(* The float64 nearest to a number; either one when two are.                *)
Float64(k) == CHOOSE f \in Floats : \A g \in Floats : Distance(f, k) <= Distance(g, k)

(* A float64 is written with the fewest digits that read back as itself.    *)
ASSUME NumbersAssumption ==
    /\ Integers \subseteq Int
    /\ Floats \subseteq Int /\ Floats # {}
    /\ Shortest \in [Floats -> Int]
    /\ \A f \in Floats : Float64(Shortest[f]) = f

-----------------------------------------------------------------------------
\* Mutant: the hours not taken off.
DurationPartsKeepHours(d) ==
    [hours |-> d \div Hour, minutes |-> d \div Minute, rest |-> d % Minute]

(* What isoDuration writes before H, M and S.  A part that is zero is left  *)
(* out; the rest is written as a decimal number of seconds, which a float64 *)
(* below a minute holds to the nanosecond.                                  *)
DurationParts(d) ==
    IF d <= 0 THEN [hours |-> 0, minutes |-> 0, rest |-> 0]
    ELSE LET afterHours == d - (d \div Hour) * Hour
         IN  [hours   |-> d \div Hour,
              minutes |-> afterHours \div Minute,
              rest    |-> afterHours - (afterHours \div Minute) * Minute]

-----------------------------------------------------------------------------
NoParts == [hours |-> 0, minutes |-> 0, rest |-> 0]

(* A value: its class, the parts of a duration, and the number that it is or *)
(* was made of.  A scalar is a string or a boolean.                        *)
Plain(class) == [class |-> class, parts |-> NoParts, of |-> 0]
NilValue == Plain("nil")
Scalar   == Plain("scalar")
Integer(k) == [class |-> "integer", parts |-> NoParts, of |-> k]
Float(f)   == [class |-> "float", parts |-> NoParts, of |-> f]
isoDuration(d) == [class |-> "duration", parts |-> DurationParts(d), of |-> d]

(* The JSON of a value: omitempty leaves a nil out, an int64 is written in   *)
(* full, a float64 in its shortest decimal.                                *)
Number(k) == [class |-> "number", parts |-> NoParts, of |-> k]
Encoded(value) ==
    CASE value = NilValue          -> Plain("absent")
      [] value.class = "integer"   -> Number(value.of)
      [] value.class = "float"     -> Number(Shortest[value.of])
      [] OTHER                     -> value

(* What encoding/json decodes into an any: null is nil, and every number a  *)
(* float64.  That a []string comes back as a []any is left out.            *)
Decoded(json) ==
    CASE json.class \in {"absent", "null"} -> NilValue
      [] json.class = "number"            -> Float(Float64(json.of))
      [] OTHER                            -> json

\* Mutant: a nil slice kept.
NilKept(values) == Plain(values)

(* Variadic arguments are a list, or nil when there are none.               *)
Variadic == {"list", "null"}
nonNil(values) == IF values = "null" THEN Plain("empty list") ELSE Plain(values)
prefixStrings(prefixes) == IF prefixes = "null" THEN Plain("empty list") ELSE Plain(prefixes)

(* The leaves a method of a typed field can build: its operator, with the   *)
(* values its argument allows.                                             *)
Leaves(operators, values) == operators \X values
Presence == Leaves({"exists", "does_not_exist"}, {NilValue})
Emptiness == Leaves({"is_empty", "is_not_empty"}, {NilValue})
Numeric(values) == Leaves({"eq", "ne", "gt", "gte", "lt", "lte"}, values)
Lists(operators) == Leaves(operators, {nonNil(vs) : vs \in Variadic})

PostureBoolField == Presence \union Leaves({"is"}, {Scalar})
PostureStringField ==
    UNION {Presence,
           Leaves({"is", "is_not", "contains", "does_not_contain", "starts_with",
                   "ends_with", "matches", "does_not_match"}, {Scalar}),
           Lists({"is_in", "is_not_in"})}
PostureIntegerField == Presence \union Numeric({Integer(k) : k \in Integers})
(* encoding/json has no NaN and no infinity.                                *)
PostureFloatField ==
    Presence \union Numeric({Float(f) : f \in Floats} \union {Plain("not a number")})
PostureVersionField ==
    Presence \union Leaves({"is", "is_not", "gt", "gte", "lt", "lte"}, {Scalar})
PostureTimestampField ==
    UNION {Presence,
           Leaves({"before", "after"}, {Plain("datetime")}),
           Leaves({"within_last", "not_within_last"}, {isoDuration(d) : d \in Durations})}
PostureIPField ==
    Presence \union
    Leaves({"is_in_cidr", "is_not_in_cidr"}, {prefixStrings(ps) : ps \in Variadic})
PostureJSONField == Presence \union Emptiness
PostureStringArrayField ==
    UNION {Presence, Emptiness,
           Leaves({"contains", "does_not_contain"}, {Scalar}),
           Lists({"contains_any_of", "contains_all_of"})}

TypedLeaves ==
    UNION {PostureBoolField, PostureStringField, PostureIntegerField, PostureFloatField,
           PostureVersionField, PostureTimestampField, PostureIPField, PostureJSONField,
           PostureStringArrayField}

(* The JSON that an operator takes, by the comments of postures.go:27-68.   *)
Takes(operator) ==
    CASE operator \in {"exists", "does_not_exist", "is_empty", "is_not_empty"} -> {"absent"}
      [] operator \in {"is_in", "is_not_in", "is_in_cidr", "is_not_in_cidr",
                       "contains_any_of", "contains_all_of"} -> {"list", "empty list"}
      [] operator \in {"before", "after"} -> {"datetime"}
      [] operator \in {"within_last", "not_within_last"} -> {"duration"}
      [] operator \in {"eq", "ne"} -> {"number"}
      [] operator \in {"gt", "gte", "lt", "lte"} -> {"number", "scalar"}
      [] OTHER -> {"scalar"}

(* A duration is written exactly: the hours, minutes and seconds add up to  *)
(* the argument, minutes and seconds stay below the next unit, and only a  *)
(* duration that is not positive is written as nothing.                    *)
Exact(value) ==
    IF value.of <= 0 THEN value.parts = NoParts
    ELSE /\ value.parts.hours * Hour + value.parts.minutes * Minute + value.parts.rest = value.of
         /\ value.parts.rest \in 0 .. Minute - 1
         /\ value.parts.minutes * Minute + value.parts.rest < Hour
         /\ value.parts # NoParts
=============================================================================
