----------------------------- MODULE MCPostures -----------------------------
EXTENDS Postures

(* With three seconds to the minute and four minutes to the hour, in half   *)
(* seconds: every combination of parts that are zero and not, and below.   *)
SomeDurations == {-1, 0, 1, 6, 7, 24, 25, 30, 31, 55}

(* Three numbers that a float64 holds, 8 apart where they are large.  The   *)
(* fewest digits that read back as 48 are 5 and 0.                         *)
SomeFloats      == {-5, 40, 48}
ShortestDecimal == [f \in SomeFloats |-> IF f = 48 THEN 50 ELSE f]

(* An integer that a float64 holds, one that comes back as another and is   *)
(* then written as that, and one that does and is written as before.       *)
SomeIntegers == {-5, 49, 50}

-----------------------------------------------------------------------------
(* Registries that a caller uses: a field of each type of a provider, or    *)
(* one of the device's own record.                                         *)
Capitals == [c \in {"i", "d", "name", "firezone", "intune"} |-> c \o "!"]
WordID   == <<"i", "d">> :> <<"I", "D">>

OneField(name, type) == [table |-> <<Row(name, type)>>, leaves |-> <<Leaf(type, {name})>>]

Registries == {OneField(ProviderName, type) : type \in SpecTypes}
              \union {OneField(OwnName, "string")}

(* Two names with the identifier PostureID, one of them an initialism, and  *)
(* a third with one of its own.                                            *)
ShortNames == {<<"i", "d">>, <<"i", "_", "d">>, <<"d", ".", "i">>}

ShortRows == {Row(n, t) : n \in ShortNames, t \in {"string", "ip"}}
             \union {Row(<<"d", ".", "i">>, "uuid"), Illegible(<<"d", ".", "i">>)}
Schemas   == {Leaf(t, e) : t \in {"string", "ip"}, e \in SUBSET ShortNames \ {{}}}

UpTo(n, S) == UNION {[1 .. k -> S] : k \in 0 .. n}

(* Any table of up to three rows beside any two schemas.                    *)
SomeDocuments ==
    Registries \union [table : UpTo(3, ShortRows), leaves : UpTo(2, Schemas)]
=============================================================================
