-------------------------- MODULE PosturesProofs --------------------------
(***************************************************************************)
(* The typed posture fields, the generator of their constants, and the     *)
(* expressions that callers build.  A duration is written exactly, and a   *)
(* method of a typed field puts into its leaf what its operator takes.     *)
(* Whatever document the generator is given, the file it writes has one    *)
(* constant per field, of a type whose methods the API accepts, and it     *)
(* stops when the two enumerations of the document do not agree, unless    *)
(* the schemas contradict each other.  Whatever is built of the constants, *)
(* in any number of steps, goes over the wire as it was meant, and comes   *)
(* back with its integers as float64.                                      *)
(***************************************************************************)
EXTENDS Postures, FiniteSetTheorems, WellFoundedInduction, TLAPS

(* Division with remainder.                                                *)
LEMMA DivMod ==
    ASSUME NEW a \in Int, NEW b \in Nat \ {0}
    PROVE  /\ a \div b \in Int
           /\ (a \div b) * b \in Int
           /\ a - (a \div b) * b \in 0 .. b - 1
BY SMT

LEMMA QuotientNatural ==
    ASSUME NEW a \in Nat, NEW b \in Nat \ {0}
    PROVE  a \div b \in Nat
BY SMT

(* A set of natural numbers that has a member has a least one.              *)
LEMMA LeastNumber ==
    ASSUME NEW T, T \subseteq Nat, T # {}
    PROVE  \E m \in T : \A j \in T : m <= j
<1>1. PICK m \in T : \A j \in T : ~(<<j, m>> \in OpToRel(<, Nat))
    BY NatLessThanWellFounded, WFMin, Zenon
<1>2. \A j \in T : ~(j < m)
    BY <1>1 DEF OpToRel
<1> QED
    BY <1>2

(* Every number has a nearest float64.                                      *)
LEMMA NearestExists ==
    ASSUME NEW k \in Int
    PROVE  Float64(k) \in Floats
<1> DEFINE T == {Distance(f, k) : f \in Floats}
<1>1. \A f \in Floats : Distance(f, k) \in Nat
    BY NumbersAssumption DEF Distance
<1>2. T \subseteq Nat /\ T # {}
    BY <1>1, NumbersAssumption
<1>3. PICK m \in T : \A j \in T : m <= j
    BY <1>2, LeastNumber
<1>4. PICK f \in Floats : \A g \in Floats : Distance(f, k) <= Distance(g, k)
    BY <1>3
<1> QED
    BY <1>4 DEF Float64

(* Whatever duration a caller passes to WithinLast, isoDuration writes it   *)
(* exactly (posture_fields.go:290-312).                                    *)
THEOREM ExactDurations == \A d \in Int : Exact(isoDuration(d))
<1> SUFFICES ASSUME NEW d \in Int
             PROVE  Exact(isoDuration(d))
    OBVIOUS
<1>1. d \in Int /\ Hour \in Nat \ {0} /\ Minute \in Nat \ {0}
    BY UnitsAssumption
<1>2. CASE d <= 0
    BY <1>2 DEF isoDuration, DurationParts, NoParts, Exact
<1>3. CASE d > 0
    <2> DEFINE h == d \div Hour
               hours == h * Hour
               after == d - hours
               m == after \div Minute
               minutes == m * Minute
               rest == after - minutes
    <2>1. h \in Int /\ hours \in Int /\ after \in 0 .. Hour - 1
        BY <1>1, DivMod
    <2>2. m \in Int /\ minutes \in Int /\ rest \in 0 .. Minute - 1
        <3>1. after \in Int
            BY <2>1, <1>1
        <3> HIDE DEF after
        <3> QED BY <3>1, <1>1, DivMod
    <2>3. /\ isoDuration(d).parts = [hours |-> h, minutes |-> m, rest |-> rest]
          /\ isoDuration(d).of = d
        BY <1>3, <1>1 DEF isoDuration, DurationParts
    <2>4. hours + minutes + rest = d /\ minutes + rest = after
        <3> HIDE DEF hours, minutes
        <3> QED BY <1>1, <2>1, <2>2
    <2>5. [hours |-> h, minutes |-> m, rest |-> rest] # NoParts
        <3>1. SUFFICES ASSUME h = 0, m = 0, rest = 0 PROVE FALSE
            BY DEF NoParts
        <3>2. hours = 0 /\ minutes = 0
            <4> HIDE DEF h, m
            <4> QED BY <3>1, <1>1
        <3> HIDE DEF hours, minutes, rest
        <3> QED BY <3>1, <3>2, <2>4, <1>3, <1>1
    <2>6. rest \in 0 .. Minute - 1 /\ minutes + rest < Hour
        <3> HIDE DEF hours, minutes, rest, after
        <3> QED BY <2>1, <2>2, <2>4, <1>1
    <2> QED
        <3> HIDE DEF h, m, rest
        <3> QED BY <2>3, <2>4, <2>5, <2>6, <1>3, <1>1 DEF Exact
<1> QED BY <1>1, <1>2, <1>3

(* A method of a typed field puts a value into its leaf whose JSON is what   *)
(* its operator takes (postures.go:27-68), a float that JSON has no number  *)
(* for excepted, and a duration of WithinLast or NotWithinLast is exact.   *)
THEOREM TypedValuesFit ==
    \A leaf \in TypedLeaves :
        /\ leaf[2].class # "not a number" => Encoded(leaf[2]).class \in Takes(leaf[1])
        /\ leaf[2].class = "duration" => Exact(leaf[2])
<1> DEFINE Fits(op, value) ==
        /\ value.class # "not a number" => Encoded(value).class \in Takes(op)
        /\ value.class = "duration" => Exact(value)
<1>1. \A op \in {"exists", "does_not_exist", "is_empty", "is_not_empty"} : Fits(op, NilValue)
    BY DEF Takes, Encoded, NilValue, Plain
<1>2. \A op \in {"is", "is_not", "gt", "gte", "lt", "lte", "contains", "does_not_contain",
                 "starts_with", "ends_with", "matches", "does_not_match"} : Fits(op, Scalar)
    BY DEF Takes, Encoded, Scalar, NilValue, Plain
<1>3. \A op \in {"eq", "ne", "gt", "gte", "lt", "lte"} :
          /\ \A k \in Integers : Fits(op, Integer(k))
          /\ \A f \in Floats : Fits(op, Float(f))
          /\ Fits(op, Plain("not a number"))
  <2>1. /\ \A k : Encoded(Integer(k)).class = "number" /\ Integer(k).class = "integer"
        /\ \A f : Encoded(Float(f)).class = "number" /\ Float(f).class = "float"
        /\ Plain("not a number").class = "not a number"
      BY DEF Encoded, Integer, Float, Number, NilValue, Plain
  <2>2. \A op \in {"eq", "ne", "gt", "gte", "lt", "lte"} : "number" \in Takes(op)
      BY DEF Takes
  <2> QED
      BY <2>1, <2>2
<1>4. \A op \in {"is_in", "is_not_in", "is_in_cidr", "is_not_in_cidr",
                 "contains_any_of", "contains_all_of"} :
          Fits(op, Plain("list")) /\ Fits(op, Plain("empty list"))
    BY DEF Takes, Encoded, NilValue, Plain
<1>5. \A op \in {"before", "after"} : Fits(op, Plain("datetime"))
    BY DEF Takes, Encoded, NilValue, Plain
<1>6. \A op \in {"within_last", "not_within_last"}, d \in Durations : Fits(op, isoDuration(d))
    BY ExactDurations, UnitsAssumption DEF Takes, Encoded, NilValue, Plain, isoDuration
<1>7. /\ {nonNil(vs) : vs \in Variadic} = {Plain("list"), Plain("empty list")}
      /\ {prefixStrings(ps) : ps \in Variadic} = {Plain("list"), Plain("empty list")}
    BY DEF nonNil, prefixStrings, Variadic
<1> DEFINE AllFit(leaves) == \A leaf \in leaves : Fits(leaf[1], leaf[2])
<1>8. ASSUME NEW operators, NEW values, \A op \in operators, v \in values : Fits(op, v)
      PROVE  AllFit(Leaves(operators, values))
    BY <1>8 DEF Leaves
<1> HIDE DEF Fits
<1>9. AllFit(Presence) /\ AllFit(Emptiness)
    BY <1>1, <1>8 DEF Presence, Emptiness
<1>10. ASSUME NEW operators \in SUBSET {"is", "is_not", "gt", "gte", "lt", "lte", "contains",
                                "does_not_contain", "starts_with", "ends_with", "matches",
                                "does_not_match"}
       PROVE  AllFit(Leaves(operators, {Scalar}))
    BY <1>2, <1>8
<1>11. ASSUME NEW operators \in SUBSET {"is_in", "is_not_in", "contains_any_of", "contains_all_of"}
       PROVE  AllFit(Lists(operators))
    BY <1>4, <1>7, <1>8 DEF Lists
<1>12. AllFit(Leaves({"is_in_cidr", "is_not_in_cidr"}, {prefixStrings(ps) : ps \in Variadic}))
    BY <1>4, <1>7, <1>8
<1>13. AllFit(Leaves({"before", "after"}, {Plain("datetime")}))
    BY <1>5, <1>8
<1>14. AllFit(Leaves({"within_last", "not_within_last"}, {isoDuration(d) : d \in Durations}))
    BY <1>6, <1>8
<1>15. /\ AllFit(Numeric({Integer(k) : k \in Integers}))
       /\ AllFit(Numeric({Float(f) : f \in Floats} \union {Plain("not a number")}))
    BY <1>3, <1>8 DEF Numeric
<1>16. /\ AllFit(PostureBoolField) /\ AllFit(PostureJSONField)
       /\ AllFit(PostureStringField) /\ AllFit(PostureVersionField)
    BY <1>9, <1>10, <1>11
       DEF PostureBoolField, PostureJSONField, PostureStringField, PostureVersionField
<1>17. AllFit(PostureIntegerField) /\ AllFit(PostureFloatField)
    BY <1>9, <1>15 DEF PostureIntegerField, PostureFloatField
<1>18. AllFit(PostureTimestampField) /\ AllFit(PostureIPField) /\ AllFit(PostureStringArrayField)
    BY <1>9, <1>10, <1>11, <1>12, <1>13, <1>14
       DEF PostureTimestampField, PostureIPField, PostureStringArrayField
<1> QED
    BY <1>16, <1>17, <1>18 DEF TypedLeaves, Fits

-----------------------------------------------------------------------------
(* A list without duplicates that is drawn from a finite set and as long as *)
(* the set is large lists all of it, and one that lists all of it is.      *)
LEMMA CountingSuffices ==
    ASSUME NEW D, IsFiniteSet(D), NEW n \in Nat, NEW f \in [1 .. n -> D],
           \A i, j \in 1 .. n : f[i] = f[j] => i = j
    PROVE  n = Cardinality(D) <=> {f[i] : i \in 1 .. n} = D
<1> DEFINE R == {f[i] : i \in 1 .. n}
<1>1. f \in Surjection(1 .. n, R)
    BY DEF Surjection
<1>2. f \in Injection(1 .. n, R)
    BY DEF Injection, IsInjective
<1>3. IsFiniteSet(1 .. n) /\ Cardinality(1 .. n) = n
    BY FS_Interval
<1>4. Cardinality(R) = n
    BY <1>1, <1>2, <1>3, FS_Surjection
<1>5. R \in SUBSET D
    OBVIOUS
<1>6. Cardinality(D) = Cardinality(R) => D = R
    BY <1>5, FS_Subset
<1> QED
    BY <1>4, <1>6

(* The schemas of a document accept finitely many fields.                   *)
LEMMA FinitelyMany ==
    ASSUME NEW d \in Documents
    PROVE  IsFiniteSet(Accepted(d))
<1> DEFINE n == Len(d.leaves)
           enums == {d.leaves[i].enum : i \in 1 .. n}
           f == [i \in 1 .. n |-> d.leaves[i].enum]
<1>1. n \in Nat /\ DOMAIN d.leaves = 1 .. n
    BY DocumentsAssumption
<1>2. f \in Surjection(1 .. n, enums)
    BY DEF Surjection
<1>3. IsFiniteSet(1 .. n)
    BY <1>1, FS_Interval
<1>4. IsFiniteSet(enums)
    BY <1>2, <1>3, FS_Surjection
<1>5. \A e \in enums : IsFiniteSet(e)
    BY <1>1, DocumentsAssumption
<1>6. IsFiniteSet(UNION enums)
    BY <1>4, <1>5, FS_UNION
<1> QED
    BY <1>1, <1>6 DEF Accepted

(* The type that the generator keeps for a field is one that a schema gives. *)
LEMMA LeafTypeIsListed ==
    ASSUME NEW d \in Documents, NEW name \in Accepted(d)
    PROVE  \E l \in Listing(d, name) : leafType(d)[name] = d.leaves[l].type
<1> DEFINE n == Len(d.leaves)
           L == Listing(d, name)
           T == {n - l : l \in L}
<1>1. n \in Nat /\ DOMAIN d.leaves = 1 .. n
    BY DocumentsAssumption
<1>2. L # {} /\ L \subseteq 1 .. n
    BY <1>1 DEF Listing, Accepted
<1> HIDE DEF L, n
<1>3. T \subseteq Nat /\ T # {}
  <2>1. \A l \in L : n - l \in Nat
      BY <1>1, <1>2
  <2> QED
      BY <1>2, <2>1
<1>4. PICK m \in T : \A j \in T : m <= j
    BY <1>3, LeastNumber
<1>5. PICK l \in L : m = n - l
    BY <1>4
<1>6. \A j \in L : j <= l
  <2>1. \A j \in L : n - l <= n - j
      BY <1>4, <1>5
  <2> QED
      BY <1>1, <1>2, <2>1
<1>7. (CHOOSE i \in L : \A j \in L : j <= i) \in L
    BY <1>6
<1>8. leafType(d)[name] = d.leaves[CHOOSE i \in L : \A j \in L : j <= i].type
    BY DEF leafType, L
<1> QED
    BY <1>7, <1>8 DEF L

-----------------------------------------------------------------------------
(* The rows of a document that the pattern matches, up to one.              *)
Read(d, r) == {i \in DOMAIN d.table : d.table[i].matches /\ i < r}

Constants(d) == {[name |-> name, specType |-> leafType(d)[name], ident |-> identFor(name)] :
                    name \in Accepted(d)}

(* The constants so far are those of the rows so far: fields of the leaf    *)
(* schemas with the type they have there, each row with a constant and an   *)
(* identifier of its own.                                                  *)
TableInv ==
    /\ doc \in Documents /\ row \in Nat \ {0}
    /\ stage \in {"table", "count", "written", "failed"}
    /\ fields \in Seq(Constants(doc))
    /\ \A i, j \in 1 .. Len(fields) : fields[i].ident = fields[j].ident => i = j
    /\ \A r \in Read(doc, row) :
           /\ doc.table[r].type \in SpecTypes
           /\ doc.table[r].name \in Accepted(doc)
           /\ leafType(doc)[doc.table[r].name] = doc.table[r].type
           /\ \E i \in 1 .. Len(fields) : fields[i].name = doc.table[r].name
    /\ \A r, q \in Read(doc, row) :
           identFor(doc.table[r].name) = identFor(doc.table[q].name) => r = q
    /\ \A i \in 1 .. Len(fields) : \E r \in Read(doc, row) : doc.table[r].name = fields[i].name
    /\ stage \in {"count", "written"} => row \notin DOMAIN doc.table /\ Complete
    /\ stage # "written" => file = <<>>
    /\ stage = "written" => file = fields
    /\ stage = "failed" => ~Agreement(doc)

(* Where the leaf schemas list the fields so far, they are all of them just *)
(* when they are as many.                                                  *)
LEMMA CompleteMeansAll ==
    ASSUME TableInv
    PROVE  Complete <=> Names(fields) = Accepted(doc)
<1> DEFINE n == Len(fields)
           f == [i \in 1 .. n |-> fields[i].name]
<1>1. n \in Nat /\ DOMAIN fields = 1 .. n
    BY DEF TableInv
<1>2. \A i \in 1 .. n : fields[i] \in Constants(doc)
    BY DEF TableInv
<1>3. \A i \in 1 .. n : fields[i].name \in Accepted(doc) /\ fields[i].ident = identFor(fields[i].name)
    BY <1>2 DEF Constants
<1>4. f \in [1 .. n -> Accepted(doc)]
    BY <1>3
<1>5. \A i, j \in 1 .. n : f[i] = f[j] => i = j
  <2>1. \A i, j \in 1 .. n : fields[i].ident = fields[j].ident => i = j
      BY DEF TableInv
  <2>2. \A i \in 1 .. n : f[i] = fields[i].name
      OBVIOUS
  <2> HIDE DEF f, n
  <2> QED
      BY <1>3, <2>1, <2>2
<1>6. IsFiniteSet(Accepted(doc))
    BY FinitelyMany DEF TableInv
<1> HIDE DEF f
<1>7. n = Cardinality(Accepted(doc)) <=> {f[i] : i \in 1 .. n} = Accepted(doc)
    BY <1>1, <1>4, <1>5, <1>6, CountingSuffices
<1>8. {f[i] : i \in 1 .. n} = Names(fields)
    BY <1>1 DEF f, Names
<1> QED
    BY <1>7, <1>8 DEF Complete

(* Behind the last row, every row that matches has been read.               *)
LEMMA AllRead ==
    ASSUME TableInv, row \notin DOMAIN doc.table
    PROVE  Read(doc, row) = {i \in DOMAIN doc.table : doc.table[i].matches}
<1>1. \A i \in DOMAIN doc.table : i < row
    BY DocumentsAssumption DEF TableInv
<1> QED
    BY <1>1 DEF Read

LEMMA CompleteMeansAgreement ==
    ASSUME TableInv, row \notin DOMAIN doc.table
    PROVE  /\ Agreement(doc) => Complete
           /\ Complete /\ SchemasAgree(doc) => Agreement(doc)
<1> DEFINE rows == {i \in DOMAIN doc.table : doc.table[i].matches}
<1>0. rows = Read(doc, row)
    BY AllRead
<1>1. /\ \A r \in rows : /\ doc.table[r].type \in SpecTypes
                         /\ doc.table[r].name \in Accepted(doc)
                         /\ leafType(doc)[doc.table[r].name] = doc.table[r].type
                         /\ doc.table[r].name \in Names(fields)
      /\ \A r, q \in rows :
             identFor(doc.table[r].name) = identFor(doc.table[q].name) => r = q
      /\ \A name \in Names(fields) : \E r \in rows : doc.table[r].name = name
    BY <1>0 DEF TableInv, Names
<1>2. Names(fields) = {doc.table[r].name : r \in rows}
    BY <1>1
<1>3. Complete <=> {doc.table[r].name : r \in rows} = Accepted(doc)
    BY <1>2, CompleteMeansAll
<1>4. ASSUME SchemasAgree(doc), NEW r \in rows, NEW l \in Listing(doc, doc.table[r].name)
      PROVE  doc.leaves[l].type = doc.table[r].type
  <2> DEFINE name == doc.table[r].name
  <2>1. doc \in Documents /\ name \in Accepted(doc) /\ leafType(doc)[name] = doc.table[r].type
      BY <1>1 DEF TableInv
  <2> HIDE DEF name
  <2>2. PICK k \in Listing(doc, name) : leafType(doc)[name] = doc.leaves[k].type
      BY <2>1, LeafTypeIsListed
  <2> QED
      BY <1>4, <2>1, <2>2 DEF SchemasAgree, name
<1> QED
    BY <1>1, <1>3, <1>4 DEF Agreement, rows

(* A row that fails one of the checks is one on which they disagree.        *)
LEMMA RefusedForAReason ==
    ASSUME TableInv, row \in DOMAIN doc.table, doc.table[row].matches,
           ~RowOK(doc.table[row])
    PROVE  ~Agreement(doc)
<1> SUFFICES ASSUME Agreement(doc) PROVE FALSE
    OBVIOUS
<1> DEFINE rows == {i \in DOMAIN doc.table : doc.table[i].matches}
           name == doc.table[row].name
<1>1. row \in rows /\ doc \in Documents
    BY DEF TableInv
<1>2. /\ name \in Accepted(doc) /\ doc.table[row].type \in SpecTypes
      /\ \A l \in Listing(doc, name) : doc.leaves[l].type = doc.table[row].type
    BY <1>1 DEF Agreement
<1>3. leafType(doc)[name] = doc.table[row].type
  <2> HIDE DEF name
  <2> QED
      BY <1>1, <1>2, LeafTypeIsListed
<1>5. identFor(doc.table[row].name) \in Seen
    BY <1>2, <1>3 DEF RowOK
<1>6. PICK i \in 1 .. Len(fields) : fields[i].ident = identFor(doc.table[row].name)
    BY <1>5 DEF Seen, TableInv
<1>7. PICK r \in Read(doc, row) : doc.table[r].name = fields[i].name
    BY DEF TableInv
<1>8. fields[i].ident = identFor(fields[i].name)
    BY DEF TableInv, Constants
<1>9. r \in rows /\ r # row
    BY DEF Read, TableInv
<1> QED
    BY <1>1, <1>6, <1>7, <1>8, <1>9 DEF Agreement

-----------------------------------------------------------------------------
LEMMA InitMeetsInv ==
    ASSUME TableInit
    PROVE  TableInv
<1>1. Read(doc, 1) = {}
    BY DocumentsAssumption DEF TableInit, Read
<1> QED
    BY <1>1 DEF TableInit, TableInv

LEMMA StepKeepsInv ==
    ASSUME TableInv, [TableNext]_tableVars
    PROVE  TableInv'
<1> USE DEF TableInv
<1>1. ASSUME SkipRow
      PROVE  TableInv'
  <2>1. Read(doc, row + 1) = Read(doc, row)
      BY <1>1, DocumentsAssumption DEF SkipRow, Read
  <2> QED
      BY <1>1, <2>1 DEF SkipRow
<1>2. ASSUME TakeRow
      PROVE  TableInv'
  <2> DEFINE new == doc.table[row]
             n == Len(fields)
  <2>1. Read(doc, row + 1) = Read(doc, row) \union {row} /\ row \notin Read(doc, row)
      BY <1>2, DocumentsAssumption DEF TakeRow, Read
  <2>2. /\ new.type \in SpecTypes /\ new.name \in Accepted(doc)
        /\ leafType(doc)[new.name] = new.type /\ identFor(new.name) \notin Seen
      BY <1>2 DEF TakeRow, RowOK
  <2>3. Constant(new) \in Constants(doc)
      BY <2>2 DEF Constant, Constants
  <2>4. /\ fields' \in Seq(Constants(doc)) /\ Len(fields') = n + 1 /\ n \in Nat
        /\ \A i \in 1 .. n : fields'[i] = fields[i]
        /\ fields'[n + 1].name = new.name /\ fields'[n + 1].ident = identFor(new.name)
      BY <1>2, <2>3 DEF TakeRow, Constant
  <2>5. \A i \in 1 .. n : fields[i].ident # identFor(new.name)
      BY <2>2 DEF Seen
  <2>6. \A i \in 1 .. n : fields[i].ident = identFor(fields[i].name)
      BY DEF Constants
  <2>7. \A r \in Read(doc, row) : identFor(doc.table[r].name) # identFor(new.name)
      BY <2>5, <2>6
  <2>8. /\ doc' = doc /\ row' = row + 1 /\ stage' = stage /\ stage = "table" /\ file' = file
        /\ 1 .. Len(fields') = (1 .. n) \union {n + 1}
      BY <1>2, <2>4 DEF TakeRow
  <2>9. \A i, j \in 1 .. Len(fields') : fields'[i].ident = fields'[j].ident => i = j
      BY <2>4, <2>5, <2>8
  <2>10. \A r \in Read(doc, row + 1) :
             /\ doc.table[r].type \in SpecTypes
             /\ doc.table[r].name \in Accepted(doc)
             /\ leafType(doc)[doc.table[r].name] = doc.table[r].type
             /\ \E i \in 1 .. Len(fields') : fields'[i].name = doc.table[r].name
      BY <2>1, <2>2, <2>4, <2>8
  <2>11. \A r, q \in Read(doc, row + 1) :
             identFor(doc.table[r].name) = identFor(doc.table[q].name) => r = q
      BY <2>1, <2>7
  <2>12. \A i \in 1 .. Len(fields') :
             \E r \in Read(doc, row + 1) : doc.table[r].name = fields'[i].name
    <3>1. \A i \in 1 .. n :
              \E r \in Read(doc, row + 1) : doc.table[r].name = fields'[i].name
        BY <2>1, <2>4
    <3>2. row \in Read(doc, row + 1) /\ doc.table[row].name = fields'[n + 1].name
        BY <2>1, <2>4
    <3> QED
        BY <2>8, <3>1, <3>2
  <2> QED
      BY <2>4, <2>8, <2>9, <2>10, <2>11, <2>12
<1>3. ASSUME RefuseRow
      PROVE  TableInv'
  <2>1. ~Agreement(doc)
      BY <1>3, RefusedForAReason DEF RefuseRow
  <2> QED
      BY <1>3, <2>1 DEF RefuseRow
<1>4. ASSUME Count
      PROVE  TableInv'
  <2>1. Agreement(doc) => Complete
      BY <1>4, CompleteMeansAgreement DEF Count
  <2> QED
      BY <1>4, <2>1 DEF Count, Complete
<1>5. ASSUME Write
      PROVE  TableInv'
    BY <1>5 DEF Write, Complete
<1>6. ASSUME UNCHANGED tableVars
      PROVE  TableInv'
    BY <1>6 DEF tableVars, Complete
<1> QED
    BY <1>1, <1>2, <1>3, <1>4, <1>5, <1>6 DEF TableNext

LEMMA TableInvariance == TableSpec => []TableInv
    BY InitMeetsInv, StepKeepsInv, PTL DEF TableSpec

(* main.go:119-149: one constant per field, whatever the document.          *)
THEOREM ConstantsAreUnique == TableSpec => []OneConstantPerField
<1>1. ASSUME TableInv
      PROVE  OneConstantPerField
  <2> SUFFICES ASSUME stage = "written"
               PROVE  /\ Names(fields) = Accepted(doc)
                      /\ \A i, j \in 1 .. Len(fields) :
                             fields[i].ident = fields[j].ident \/ fields[i].name = fields[j].name
                                 => i = j
      BY <1>1 DEF OneConstantPerField, TableInv
  <2>1. Names(fields) = Accepted(doc)
      BY <1>1, CompleteMeansAll DEF TableInv
  <2>2. \A i \in 1 .. Len(fields) : fields[i].ident = identFor(fields[i].name)
      BY <1>1 DEF TableInv, Constants
  <2> QED
      BY <1>1, <2>1, <2>2 DEF TableInv
<1> QED
    BY <1>1, TableInvariance, PTL

(* main.go:118-149: where the schemas agree with each other, the committed  *)
(* file is left alone exactly when the table disagrees with them or two     *)
(* fields collide; and never without a reason of this kind.                *)
THEOREM DriftStops == TableSpec => []StopsOnDrift
<1>1. ASSUME TableInv
      PROVE  StopsOnDrift
    BY <1>1, CompleteMeansAgreement DEF StopsOnDrift, TableInv
<1> QED
    BY <1>1, TableInvariance, PTL

-----------------------------------------------------------------------------
(* The methods of the Go type that a field of a type gets have operators    *)
(* that the API accepts for fields of that type.                           *)
LEMMA GoTypesFit ==
    ASSUME NEW type \in SpecTypes, NEW leaf \in FieldTypes[goType(type)]
    PROVE  leaf[1] \in Accepts(type)
<1> USE DEF SpecTypes, Accepts, goType, FieldTypes, Leaves, Presence, Emptiness, Numeric, Lists
<1>1. CASE type = "boolean"
    BY <1>1 DEF PostureBoolField
<1>2. CASE type \in {"string", "enum_string"}
    BY <1>2 DEF PostureStringField
<1>3. CASE type = "integer"
    BY <1>3 DEF PostureIntegerField
<1>4. CASE type = "float"
    BY <1>4 DEF PostureFloatField
<1>5. CASE type = "version"
    BY <1>5 DEF PostureVersionField
<1>6. CASE type = "datetime"
    BY <1>6 DEF PostureTimestampField
<1>7. CASE type \in {"ip", "ipv4", "ipv6"}
    BY <1>7 DEF PostureIPField
<1>8. CASE type = "json"
    BY <1>8 DEF PostureJSONField
<1>9. CASE type = "string_array"
    BY <1>9 DEF PostureStringArrayField
<1> QED
    BY <1>1, <1>2, <1>3, <1>4, <1>5, <1>6, <1>7, <1>8, <1>9

(* Whatever the document, a method of a constant in the file makes a leaf   *)
(* that a schema accepts for its field (main.go:24-43 and 132-149).         *)
THEOREM ConstantsFitSchemas == TableSpec => []MethodsAreAccepted
<1>1. ASSUME TableInv
      PROVE  MethodsAreAccepted
  <2> SUFFICES ASSUME stage = "written", NEW i \in 1 .. Len(fields),
                      NEW leaf \in FieldTypes[goType(fields[i].specType)]
               PROVE  \E l \in Listing(doc, fields[i].name) :
                          leaf[1] \in Accepts(doc.leaves[l].type)
    <3>1. stage = "written" => file = fields /\ DOMAIN file = 1 .. Len(fields)
        BY <1>1 DEF TableInv
    <3> QED
        BY <3>1 DEF MethodsAreAccepted
  <2> DEFINE name == fields[i].name
  <2>1. doc \in Documents /\ name \in Accepted(doc) /\ fields[i].specType = leafType(doc)[name]
      BY <1>1 DEF TableInv, Constants
  <2>2. PICK r \in Read(doc, row) : doc.table[r].name = name
      BY <1>1 DEF TableInv
  <2>3. fields[i].specType \in SpecTypes
      BY <1>1, <2>1, <2>2 DEF TableInv
  <2>4. leaf[1] \in Accepts(fields[i].specType)
      BY <2>3, GoTypesFit
  <2> HIDE DEF name
  <2>5. PICK l \in Listing(doc, name) : leafType(doc)[name] = doc.leaves[l].type
      BY <2>1, LeafTypeIsListed
  <2> QED
      BY <2>1, <2>4, <2>5 DEF name
<1> QED
    BY <1>1, TableInvariance, PTL

-----------------------------------------------------------------------------
(* Expressions.                                                            *)

(* What a value may be: a duration in it is one that isoDuration wrote, and a *)
(* number one that Go can hold.                                            *)
HonestValue(v) ==
    /\ v.class = "duration" => Exact(v)
    /\ v.class = "integer" => v.of \in Int /\ v = Integer(v.of)
    /\ v.class = "float" => v.of \in Floats /\ v = Float(v.of)
    /\ v.class \notin {"number", "absent"}

(* A node has the fields of a PostureNode.                                  *)
Honest(n) ==
    /\ n = [And |-> n.And, Or |-> n.Or, Not |-> n.Not, Field |-> n.Field,
            Operator |-> n.Operator, Value |-> n.Value, Rows |-> n.Rows]
    /\ HonestValue(n.Value)

(* The JSON of a value is what an operator takes, if it has one.            *)
Suits(op, value) == value.class # "not a number" => Encoded(value).class \in Takes(op)

(* A node of one shape, with a value that suits its operator, or with none.  *)
Proper(n) ==
    /\ ShapeOK(n)
    /\ IF n.Operator = NoText THEN n.Value = NilValue ELSE Suits(n.Operator, n.Value)

Tree(t) == /\ <<>> \in DOMAIN t /\ t = [p \in DOMAIN t |-> t[p]]
           /\ \A p \in DOMAIN t : Honest(t[p])

ByTheBook(t) == \A p \in DOMAIN t : Proper(t[p])

(* A node with one of its fields set.                                       *)
Set(n, key, k) ==
    [And |-> IF key = "And" THEN k ELSE n.And, Or |-> IF key = "Or" THEN k ELSE n.Or,
     Not |-> IF key = "Not" THEN k ELSE n.Not, Field |-> IF key = "Field" THEN k ELSE n.Field,
     Operator |-> IF key = "Operator" THEN k ELSE n.Operator,
     Value |-> IF key = "Value" THEN k ELSE n.Value,
     Rows |-> IF key = "Rows" THEN k ELSE n.Rows]

LEMMA SetTells ==
    ASSUME NEW n, Honest(n), NEW k,
           NEW key \in {"And", "Or", "Not", "Field", "Operator", "Value", "Rows"}
    PROVE  [n EXCEPT ![key] = k] = Set(n, key, k)
<1> DEFINE m == [n EXCEPT ![key] = k]
<1>1. n \in [And : {n.And}, Or : {n.Or}, Not : {n.Not}, Field : {n.Field},
             Operator : {n.Operator}, Value : {n.Value}, Rows : {n.Rows}]
    BY DEF Honest
<1>2. m \in [And : {IF key = "And" THEN k ELSE n.And},
             Or : {IF key = "Or" THEN k ELSE n.Or},
             Not : {IF key = "Not" THEN k ELSE n.Not},
             Field : {IF key = "Field" THEN k ELSE n.Field},
             Operator : {IF key = "Operator" THEN k ELSE n.Operator},
             Value : {IF key = "Value" THEN k ELSE n.Value},
             Rows : {IF key = "Rows" THEN k ELSE n.Rows}]
    BY <1>1
<1> HIDE DEF m
<1>3. m = Set(n, key, k)
    BY <1>2 DEF Set
<1> QED
    BY <1>3 DEF m

LEMMA SetIsHonest ==
    ASSUME NEW n, Honest(n), NEW k,
           NEW key \in {"And", "Or", "Not", "Field", "Operator", "Value", "Rows"},
           key = "Value" => HonestValue(k)
    PROVE  Honest([n EXCEPT ![key] = k])
<1> DEFINE m == Set(n, key, k)
<1>1. /\ m = [And |-> m.And, Or |-> m.Or, Not |-> m.Not, Field |-> m.Field,
              Operator |-> m.Operator, Value |-> m.Value, Rows |-> m.Rows]
      /\ m.Value = IF key = "Value" THEN k ELSE n.Value
    BY DEF Set
<1> HIDE DEF m
<1>2. HonestValue(m.Value)
    BY <1>1 DEF Honest
<1>3. Honest(m)
    BY <1>1, <1>2 DEF Honest
<1> QED
    BY <1>3, SetTells DEF m

LEMMA SingleTells ==
    ASSUME NEW n
    PROVE  /\ DOMAIN Single(n) = {<<>>} /\ Single(n)[<<>>] = n
           /\ Honest(n) => Tree(Single(n))
           /\ Proper(n) => ByTheBook(Single(n))
<1>1. DOMAIN Single(n) = {<<>>} /\ Single(n)[<<>>] = n
    BY DEF Single
<1>2. Single(n) = [p \in DOMAIN Single(n) |-> Single(n)[p]]
    BY DEF Single
<1> QED
    BY <1>1, <1>2 DEF Tree, ByTheBook

(* What replacing the children under a key leaves at each position.        *)
Replaced(t, key, children, s) ==
    /\ s = [p \in DOMAIN s |-> s[p]]
    /\ <<>> \in DOMAIN s /\ s[<<>>] = [t[<<>>] EXCEPT ![key] = Len(children)]
    /\ \A p \in DOMAIN s :
          \/ p = <<>>
          \/ \E i \in DOMAIN children : \E q \in DOMAIN children[i] : s[p] = children[i][q]
          \/ p \in DOMAIN t /\ p # <<>> /\ s[p] = t[p]

LEMMA SetChildrenTells ==
    ASSUME NEW t, <<>> \in DOMAIN t, NEW key, NEW children
    PROVE  Replaced(t, key, children, SetChildren(t, key, children))
<1> DEFINE others == {p \in DOMAIN t : p = <<>> \/ p[1] # key}
           below  == UNION {{<<key, i, p>> : p \in DOMAIN children[i]} : i \in DOMAIN children}
           s      == SetChildren(t, key, children)
<1>1. \A p \in below : /\ p # <<>> /\ p[2] \in DOMAIN children
                       /\ p[3] \in DOMAIN children[p[2]]
    OBVIOUS
<1>2. others \subseteq DOMAIN t /\ <<>> \in others
    OBVIOUS
<1>3. s = [p \in others \union below |->
              CASE p = <<>>     -> [t[p] EXCEPT ![key] = Len(children)]
                [] p \in below  -> children[p[2]][p[3]]
                [] OTHER        -> t[p]]
    BY DEF SetChildren
<1> HIDE DEF others, below, s
<1>4. /\ DOMAIN s = others \union below /\ s = [p \in DOMAIN s |-> s[p]]
      /\ <<>> \notin below
      /\ s[<<>>] = [t[<<>>] EXCEPT ![key] = Len(children)]
      /\ \A p \in below : s[p] = children[p[2]][p[3]]
      /\ \A p \in others : p # <<>> /\ p \notin below => s[p] = t[p]
  <2>1. <<>> \notin below
      BY <1>1
  <2>2. DOMAIN s = others \union below /\ s = [p \in DOMAIN s |-> s[p]]
      BY <1>3
  <2>3. s[<<>>] = [t[<<>>] EXCEPT ![key] = Len(children)]
      BY <1>2, <1>3, <2>1
  <2>4. \A p \in below : s[p] = children[p[2]][p[3]]
      BY <1>1, <1>3
  <2>5. \A p \in others : p # <<>> /\ p \notin below => s[p] = t[p]
      BY <1>3
  <2> QED
      BY <2>1, <2>2, <2>3, <2>4, <2>5
<1> QED
    BY <1>1, <1>2, <1>4 DEF s, Replaced

(* The operators of typed fields have names.                                *)
LEMMA OperatorsAreNamed ==
    \A leaf \in TypedLeaves : leaf[1] # NoText
<1> DEFINE Named(leaves) == \A leaf \in leaves : leaf[1] # NoText
           Ops == {"exists", "does_not_exist", "is_empty", "is_not_empty", "is", "is_not",
                   "eq", "ne", "gt", "gte", "lt", "lte", "contains", "does_not_contain",
                   "starts_with", "ends_with", "matches", "does_not_match", "is_in",
                   "is_not_in", "is_in_cidr", "is_not_in_cidr", "contains_any_of",
                   "contains_all_of", "before", "after", "within_last", "not_within_last"}
<1>1. \A op \in Ops : op # NoText
    BY Zenon DEF NoText
<1>2. ASSUME NEW operators \in SUBSET Ops, NEW values PROVE Named(Leaves(operators, values))
    BY <1>1, <1>2 DEF Leaves
<1>3. Named(Presence) /\ Named(Emptiness) /\ \A values : Named(Numeric(values))
    BY <1>2 DEF Presence, Emptiness, Numeric
<1>4. ASSUME NEW operators \in SUBSET Ops PROVE Named(Lists(operators))
    BY <1>2 DEF Lists
<1> HIDE DEF Named
<1>5. \A a, b : Named(a) /\ Named(b) => Named(a \union b)
    BY DEF Named
<1>6. \A a, b, c : Named(a) /\ Named(b) /\ Named(c) => Named(UNION {a, b, c})
    BY DEF Named
<1>7. \A a, b, c, d : Named(a) /\ Named(b) /\ Named(c) /\ Named(d) => Named(UNION {a, b, c, d})
    BY DEF Named
<1>8. /\ Named(PostureBoolField) /\ Named(PostureJSONField)
      /\ Named(PostureIPField) /\ Named(PostureIntegerField)
    BY <1>2, <1>3, <1>5, <1>6
       DEF PostureBoolField, PostureJSONField, PostureIPField, PostureIntegerField
<1>9. Named(PostureStringField) /\ Named(PostureVersionField)
    BY <1>2, <1>3, <1>4, <1>6 DEF PostureStringField, PostureVersionField
<1>10. Named(PostureTimestampField) /\ Named(PostureStringArrayField)
    BY <1>2, <1>3, <1>4, <1>6, <1>7 DEF PostureTimestampField, PostureStringArrayField
<1>11. Named(PostureFloatField)
    BY <1>3, <1>5 DEF PostureFloatField
<1> QED
    BY <1>8, <1>9, <1>10, <1>11 DEF TypedLeaves, Named

(* A field check that a method of a typed field makes.                     *)
LEMMA FieldTypesAreTyped ==
    ASSUME NEW type \in SpecTypes
    PROVE  FieldTypes[goType(type)] \subseteq TypedLeaves
<1>1. goType(type) \in DOMAIN FieldTypes
    BY DEF SpecTypes, goType, FieldTypes
<1>2. \A f \in DOMAIN FieldTypes : FieldTypes[f] \subseteq TypedLeaves
    BY DEF FieldTypes, TypedLeaves
<1> QED
    BY <1>1, <1>2

Checked(name, op, value) ==
    [And |-> 0, Or |-> 0, Not |-> 0, Field |-> name, Operator |-> op,
     Value |-> value, Rows |-> NoText]

LEMMA CheckTells ==
    ASSUME NEW name, NEW op, NEW value
    PROVE  PostureCheck(name, op, value) = Single(Checked(name, op, value))
<1> DEFINE n == [EmptyNode EXCEPT !.Field = name, !.Operator = op, !.Value = value]
<1>1. n \in [And : {0}, Or : {0}, Not : {0}, Field : {name}, Operator : {op},
             Value : {value}, Rows : {NoText}]
    BY DEF EmptyNode
<1> HIDE DEF n
<1>2. n = Checked(name, op, value)
    BY <1>1 DEF Checked
<1> QED
    BY <1>2 DEF n, PostureCheck

LEMMA CheckIsHonest ==
    ASSUME NEW name, NEW op, NEW value, HonestValue(value)
    PROVE  Tree(PostureCheck(name, op, value))
<1> DEFINE n == Checked(name, op, value)
<1>1. n = [And |-> 0, Or |-> 0, Not |-> 0, Field |-> name, Operator |-> op,
           Value |-> value, Rows |-> NoText]
    BY DEF Checked
<1>2. PostureCheck(name, op, value) = Single(n)
    BY CheckTells
<1> HIDE DEF n
<1>3. Honest(n)
    BY <1>1 DEF Honest
<1> QED
    BY <1>2, <1>3, SingleTells

LEMMA CheckIsProper ==
    ASSUME NEW name, name # <<>>, NEW op, op # NoText, NEW value, Suits(op, value)
    PROVE  ByTheBook(PostureCheck(name, op, value))
<1> DEFINE n == Checked(name, op, value)
<1>1. n = [And |-> 0, Or |-> 0, Not |-> 0, Field |-> name, Operator |-> op,
           Value |-> value, Rows |-> NoText]
    BY DEF Checked
<1>2. PostureCheck(name, op, value) = Single(n)
    BY CheckTells
<1>3. /\ n.And = 0 /\ n.Or = 0 /\ n.Not = 0 /\ n.Field = name /\ n.Operator = op
      /\ n.Value = value /\ n.Rows = NoText
    BY <1>1
<1> HIDE DEF n
<1>4. Shapes(n) = 1
    BY <1>3 DEF Shapes
<1>5. Proper(n)
    BY <1>3, <1>4 DEF Proper, ShapeOK
<1> QED
    BY <1>2, <1>5, SingleTells

(* Values with nothing to tell apart.                                       *)
LEMMA PlainIsHonest ==
    ASSUME NEW class, class \notin {"duration", "integer", "float", "number", "absent"}
    PROVE  HonestValue(Plain(class))
BY DEF HonestValue, Plain

LEMMA EmptyIsHonest == Tree(Empty) /\ DOMAIN Empty = {<<>>} /\ Empty[<<>>] = EmptyNode
<1>1. Honest(EmptyNode)
    BY PlainIsHonest DEF EmptyNode, Honest, NilValue
<1> QED
    BY <1>1, SingleTells DEF Empty

LEMMA SiblingIsProper == Tree(Sibling) /\ ByTheBook(Sibling)
<1>1. Suits("is", Scalar) /\ HonestValue(Scalar)
    BY PlainIsHonest DEF Suits, Scalar, Encoded, NilValue, Plain, Takes
<1>2. ProviderName # <<>>
    BY DEF ProviderName
<1>3. "is" # NoText
    BY Zenon DEF NoText
<1>4. Tree(PostureCheck(ProviderName, "is", Scalar))
    BY <1>1, CheckIsHonest
<1>5. ByTheBook(PostureCheck(ProviderName, "is", Scalar))
    BY <1>1, <1>2, <1>3, CheckIsProper
<1> QED
    BY <1>4, <1>5 DEF Sibling

(* The node that holds children under one key, and nothing else.           *)
Holder(key, k) == [EmptyNode EXCEPT ![key] = k]

LEMMA HolderTells ==
    ASSUME NEW key \in {"And", "Or", "Not"}, NEW k \in Nat
    PROVE  /\ Honest(Holder(key, k))
           /\ k > 0 => Proper(Holder(key, k))
<1> DEFINE n == Holder(key, k)
<1>1. n = [And |-> IF key = "And" THEN k ELSE 0, Or |-> IF key = "Or" THEN k ELSE 0,
           Not |-> IF key = "Not" THEN k ELSE 0, Field |-> <<>>, Operator |-> NoText,
           Value |-> NilValue, Rows |-> NoText]
    BY DEF EmptyNode, Holder
<1> HIDE DEF n
<1>2. Honest(n)
    BY <1>1, PlainIsHonest DEF Honest, NilValue
<1>3. k > 0 => Shapes(n) = 1
    BY <1>1 DEF Shapes
<1>4. k > 0 => Proper(n)
    BY <1>1, <1>3 DEF Proper, ShapeOK
<1> QED
    BY <1>2, <1>4 DEF n

(* The constructors of boolean nodes.                                       *)
LEMMA ConstructorsTell ==
    ASSUME NEW key \in {"And", "Or", "Not"}, NEW children, Len(children) \in Nat,
           \A i \in DOMAIN children : Tree(children[i])
    PROVE  LET s == SetChildren(Empty, key, children)
           IN  /\ Tree(s)
               /\ Len(children) > 0 /\ (\A i \in DOMAIN children : ByTheBook(children[i]))
                     => ByTheBook(s)
<1> DEFINE s == SetChildren(Empty, key, children)
           root == Holder(key, Len(children))
<1>1. /\ s = [p \in DOMAIN s |-> s[p]]
      /\ <<>> \in DOMAIN s /\ s[<<>>] = [Empty[<<>>] EXCEPT ![key] = Len(children)]
      /\ \A p \in DOMAIN s :
            \/ p = <<>>
            \/ \E i \in DOMAIN children : \E q \in DOMAIN children[i] : s[p] = children[i][q]
            \/ p \in DOMAIN Empty /\ p # <<>> /\ s[p] = Empty[p]
  <2>1. <<>> \in DOMAIN Empty
      BY EmptyIsHonest
  <2>2. Replaced(Empty, key, children, s)
      BY <2>1, SetChildrenTells
  <2> HIDE DEF s
  <2> QED
      BY <2>2 DEF Replaced
<1> HIDE DEF s
<1>2. s[<<>>] = root
    BY <1>1, EmptyIsHonest DEF Holder
<1>3. \A p \in DOMAIN s : p = <<>> \/ \E i \in DOMAIN children :
                              \E q \in DOMAIN children[i] : s[p] = children[i][q]
    BY <1>1, EmptyIsHonest
<1>4. Honest(root) /\ (Len(children) > 0 => Proper(root))
    BY HolderTells
<1> HIDE DEF root
<1>5. Tree(s)
    BY <1>1, <1>2, <1>3, <1>4 DEF Tree
<1>6. Len(children) > 0 /\ (\A i \in DOMAIN children : ByTheBook(children[i]))
          => ByTheBook(s)
    BY <1>2, <1>3, <1>4 DEF ByTheBook
<1> QED
    BY <1>5, <1>6 DEF s

(* Fields of the struct that are set by hand.                               *)
LEMMA SetByHandTells ==
    ASSUME NEW t, Tree(t),
           NEW key \in {"And", "Or", "Not"}, NEW children, Len(children) \in Nat,
           \A i \in DOMAIN children : Tree(children[i])
    PROVE  Tree(SetChildren(t, key, children))
<1> DEFINE s == SetChildren(t, key, children)
           root == [t[<<>>] EXCEPT ![key] = Len(children)]
<1>1. /\ s = [p \in DOMAIN s |-> s[p]]
      /\ <<>> \in DOMAIN s /\ s[<<>>] = root
      /\ \A p \in DOMAIN s :
            \/ p = <<>>
            \/ \E i \in DOMAIN children : \E q \in DOMAIN children[i] : s[p] = children[i][q]
            \/ p \in DOMAIN t /\ p # <<>> /\ s[p] = t[p]
  <2>1. <<>> \in DOMAIN t
      BY DEF Tree
  <2>2. Replaced(t, key, children, s)
      BY <2>1, SetChildrenTells
  <2> HIDE DEF s
  <2> QED
      BY <2>2 DEF Replaced
<1>2. Honest(root)
    BY SetIsHonest DEF Tree
<1> HIDE DEF s, root
<1>3. Tree(s)
    BY <1>1, <1>2 DEF Tree
<1> QED
    BY <1>3 DEF s
LEMMA SetRootTells ==
    ASSUME NEW t, Tree(t), NEW m, Honest(m)
    PROVE  /\ Tree([t EXCEPT ![<<>>] = m])
           /\ ByTheBook(t) /\ Proper(m) => ByTheBook([t EXCEPT ![<<>>] = m])
<1> DEFINE s == [t EXCEPT ![<<>>] = m]
<1>1. /\ DOMAIN s = DOMAIN t /\ <<>> \in DOMAIN s /\ s[<<>>] = m
      /\ \A p \in DOMAIN s : p # <<>> => s[p] = t[p]
    BY DEF Tree
<1>2. s = [p \in DOMAIN s |-> s[p]]
    OBVIOUS
<1> HIDE DEF s
<1>3. Tree(s)
    BY <1>1, <1>2 DEF Tree
<1>4. ByTheBook(t) /\ Proper(m) => ByTheBook(s)
    BY <1>1 DEF ByTheBook
<1> QED
    BY <1>3, <1>4 DEF s

LEMMA RowsTell ==
    ASSUME NEW t, Tree(t), NEW rows
    PROVE  /\ Tree(WithRows(t, rows))
           /\ ByTheBook(t) /\ IsLeaf(t) /\ ~OwnRecord(t[<<>>].Field)
                 => ByTheBook(WithRows(t, rows))
<1> DEFINE n == t[<<>>]
           m == Set(n, "Rows", rows)
<1>1. Honest(n)
    BY DEF Tree
<1>2. [n EXCEPT !["Rows"] = rows] = m /\ Honest([n EXCEPT !["Rows"] = rows])
  <2> HIDE DEF n
  <2> QED
      BY <1>1, SetTells, SetIsHonest
<1>3. WithRows(t, rows) = [t EXCEPT ![<<>>] = m]
    BY <1>2 DEF WithRows
<1>4. /\ m.And = n.And /\ m.Or = n.Or /\ m.Not = n.Not /\ m.Field = n.Field
      /\ m.Operator = n.Operator /\ m.Value = n.Value
    BY DEF Set
<1>5. IsLeaf(t) /\ ~OwnRecord(n.Field) => n.Field # <<>> /\ ~OwnRecord(n.Field)
    BY DEF IsLeaf
<1>6. ByTheBook(t) => Proper(n)
    BY DEF ByTheBook, Tree
<1> HIDE DEF m, n
<1>7. Proper(n) /\ n.Field # <<>> /\ ~OwnRecord(n.Field) => Proper(m)
    BY <1>4 DEF Proper, ShapeOK, Shapes
<1>8. /\ Tree([t EXCEPT ![<<>>] = m])
      /\ ByTheBook(t) /\ Proper(m) => ByTheBook([t EXCEPT ![<<>>] = m])
    BY <1>2, SetRootTells
<1> QED
    BY <1>3, <1>5, <1>6, <1>7, <1>8 DEF n

(* What stays true while an expression is built, sent and read.             *)
PostureInv ==
    /\ TableInv
    /\ pc \in {"generate", "build", "sent", "rejected", "read"}
    /\ Tree(node)
    /\ book => ByTheBook(node)
    /\ pc = "rejected" => ~Marshals(node)
    /\ pc \in {"sent", "read"} => Marshals(node) /\ wire = Wire(node)
    /\ pc = "read" => back = Unmarshal(wire)

LEMMA InitMeetsPostureInv == Init => PostureInv
    BY InitMeetsInv, EmptyIsHonest DEF Init, PostureInv

LEMMA BuildKeepsInv ==
    ASSUME PostureInv, NEW n, NEW ok, Tree(n), book /\ ok => ByTheBook(n), Build(n, ok)
    PROVE  PostureInv'
<1>1. TableInv'
    BY StepKeepsInv DEF Build, PostureInv
<1>2. node' = n /\ book' = (book /\ ok) /\ pc' = "build"
    BY DEF Build
<1>3. Tree(node') /\ (book' => ByTheBook(node'))
    BY <1>2
<1> QED
    BY <1>1, <1>2, <1>3 DEF PostureInv

LEMMA BeginKeepsInv ==
    ASSUME PostureInv, NEW n, NEW ok, Tree(n), ok => ByTheBook(n), Begin(n, ok)
    PROVE  PostureInv'
<1>1. TableInv'
    BY StepKeepsInv DEF Begin, PostureInv
<1>2. node' = n /\ book' = ok /\ pc' = "build"
    BY DEF Begin
<1>3. Tree(node') /\ (book' => ByTheBook(node'))
    BY <1>2
<1> QED
    BY <1>1, <1>2, <1>3 DEF PostureInv

(* The values that the methods of typed fields put into their leaves.       *)
LEMMA TypedValuesAreHonest ==
    \A leaf \in TypedLeaves : HonestValue(leaf[2])
<1> DEFINE Good(leaves) == \A leaf \in leaves : HonestValue(leaf[2])
<1>1. ASSUME NEW operators, NEW values, \A v \in values : HonestValue(v)
      PROVE  Good(Leaves(operators, values))
    BY <1>1 DEF Leaves
<1>2. /\ HonestValue(NilValue) /\ HonestValue(Scalar) /\ HonestValue(Plain("datetime"))
      /\ HonestValue(Plain("list")) /\ HonestValue(Plain("empty list"))
      /\ HonestValue(Plain("not a number"))
    BY PlainIsHonest DEF NilValue, Scalar
<1>3. \A d \in Durations : HonestValue(isoDuration(d))
    BY ExactDurations, UnitsAssumption DEF HonestValue, isoDuration
<1>4. /\ \A k \in Integers : HonestValue(Integer(k))
      /\ \A f \in Floats : HonestValue(Float(f))
    BY NumbersAssumption DEF HonestValue, Integer, Float
<1>5. /\ {nonNil(vs) : vs \in Variadic} = {Plain("list"), Plain("empty list")}
      /\ {prefixStrings(ps) : ps \in Variadic} = {Plain("list"), Plain("empty list")}
    BY DEF nonNil, prefixStrings, Variadic
<1> HIDE DEF Good
<1>6. Good(Presence) /\ Good(Emptiness) /\ \A ops : Good(Leaves(ops, {Scalar}))
    BY <1>1, <1>2 DEF Presence, Emptiness
<1>7. \A ops : /\ Good(Lists(ops))
               /\ Good(Leaves(ops, {prefixStrings(ps) : ps \in Variadic}))
               /\ Good(Leaves(ops, {Plain("datetime")}))
               /\ Good(Leaves(ops, {isoDuration(d) : d \in Durations}))
    BY <1>1, <1>2, <1>3, <1>5 DEF Lists
<1>8. /\ Good(Numeric({Integer(k) : k \in Integers}))
      /\ Good(Numeric({Float(f) : f \in Floats} \union {Plain("not a number")}))
    BY <1>1, <1>2, <1>4 DEF Numeric
<1>9. \A a, b : Good(a) /\ Good(b) => Good(a \union b)
    BY DEF Good
<1>10. \A a, b, c : Good(a) /\ Good(b) /\ Good(c) => Good(UNION {a, b, c})
    BY DEF Good
<1>11. \A a, b, c, d : Good(a) /\ Good(b) /\ Good(c) /\ Good(d) => Good(UNION {a, b, c, d})
    BY DEF Good
<1>12. /\ Good(PostureBoolField) /\ Good(PostureIntegerField) /\ Good(PostureFloatField)
       /\ Good(PostureVersionField) /\ Good(PostureIPField) /\ Good(PostureJSONField)
    BY <1>6, <1>7, <1>8, <1>9
       DEF PostureBoolField, PostureIntegerField, PostureFloatField, PostureVersionField,
           PostureIPField, PostureJSONField
<1>13. /\ Good(PostureStringField) /\ Good(PostureTimestampField)
       /\ Good(PostureStringArrayField)
    BY <1>6, <1>7, <1>10, <1>11
       DEF PostureStringField, PostureTimestampField, PostureStringArrayField
<1> QED
    BY <1>12, <1>13 DEF TypedLeaves, Good

(* The leaves that a method of a constant in the file makes.                *)
LEMMA ConstantsTell ==
    ASSUME TableInv, stage = "written", NEW i \in DOMAIN file,
           NEW leaf \in FieldTypes[goType(file[i].specType)]
    PROVE  LET t == PostureCheck(file[i].name, leaf[1], leaf[2])
           IN  Tree(t) /\ ByTheBook(t)
<1>1. file = fields /\ i \in 1 .. Len(fields)
    BY DEF TableInv
<1>2. PICK r \in Read(doc, row) : doc.table[r].name = fields[i].name
    BY <1>1 DEF TableInv
<1>3. fields[i].specType = leafType(doc)[fields[i].name]
    BY <1>1 DEF TableInv, Constants
<1>4. file[i].specType \in SpecTypes
    BY <1>1, <1>2, <1>3 DEF TableInv
<1>5. leaf \in TypedLeaves
    BY <1>4, FieldTypesAreTyped
<1>6. file[i].name # <<>>
    BY <1>1, <1>2, DocumentsAssumption DEF TableInv, Read
<1> DEFINE name == file[i].name
           op == leaf[1]
           value == leaf[2]
<1>7. name # <<>> /\ op # NoText /\ HonestValue(value) /\ Suits(op, value)
    BY <1>5, <1>6, OperatorsAreNamed, TypedValuesFit, TypedValuesAreHonest DEF Suits
<1> HIDE DEF name, op, value
<1>8. Tree(PostureCheck(name, op, value)) /\ ByTheBook(PostureCheck(name, op, value))
    BY <1>7, CheckIsHonest, CheckIsProper
<1> QED
    BY <1>8 DEF name, op, value

LEMMA StepKeepsPostureInv ==
    ASSUME PostureInv, [Next]_vars
    PROVE  PostureInv'
<1>0. Tree(node) /\ Tree(Sibling) /\ ByTheBook(Sibling) /\ (book => ByTheBook(node))
    BY SiblingIsProper DEF PostureInv
<1>1. ASSUME Generate
      PROVE  PostureInv'
  <2>1. TableInv'
      BY <1>1, StepKeepsInv DEF Generate, PostureInv
  <2> QED
      BY <1>1, <2>1 DEF Generate, expression, PostureInv
<1>2. ASSUME UseConstant
      PROVE  PostureInv'
  <2>1. PICK i \in DOMAIN file : \E leaf \in FieldTypes[goType(file[i].specType)] :
            Begin(PostureCheck(file[i].name, leaf[1], leaf[2]), TRUE)
      BY <1>2 DEF UseConstant
  <2>2. PICK leaf \in FieldTypes[goType(file[i].specType)] :
            Begin(PostureCheck(file[i].name, leaf[1], leaf[2]), TRUE)
      BY <2>1
  <2> DEFINE n == PostureCheck(file[i].name, leaf[1], leaf[2])
  <2>3. TableInv /\ stage = "written"
      BY <2>2 DEF Begin, PostureInv
  <2>4. Tree(n) /\ ByTheBook(n)
      BY <2>3, ConstantsTell
  <2>5. Begin(n, TRUE)
      BY <2>2
  <2> HIDE DEF n
  <2> QED
      BY <2>4, <2>5, BeginKeepsInv
<1>3. ASSUME StartEmpty
      PROVE  PostureInv'
    BY <1>3, EmptyIsHonest, BeginKeepsInv DEF StartEmpty
<1>4. ASSUME NEW children \in {<<>>, <<node>>, <<node, Sibling>>, <<Sibling, node>>}
      PROVE  /\ Len(children) \in Nat /\ \A i \in DOMAIN children : Tree(children[i])
             /\ children # <<>> => Len(children) > 0
             /\ book => \A i \in DOMAIN children : ByTheBook(children[i])
  <2>1. CASE children = <<>>
      BY <2>1
  <2>2. CASE children = <<node>>
      BY <1>0, <2>2
  <2>3. CASE children = <<node, Sibling>>
      BY <1>0, <2>3
  <2>4. CASE children = <<Sibling, node>>
      BY <1>0, <2>4
  <2> QED
      BY <2>1, <2>2, <2>3, <2>4
<1>5. ASSUME CombineAnd
      PROVE  PostureInv'
  <2>1. PICK children \in {<<>>, <<node>>, <<node, Sibling>>, <<Sibling, node>>} :
            Build(PostureAnd(children), children # <<>>)
      BY <1>5 DEF CombineAnd
  <2>2. Tree(PostureAnd(children)) /\ (book /\ children # <<>> => ByTheBook(PostureAnd(children)))
      BY <1>4, ConstructorsTell DEF PostureAnd
  <2> QED
      BY <2>1, <2>2, BuildKeepsInv
<1>6. ASSUME CombineOr
      PROVE  PostureInv'
  <2>1. PICK children \in {<<>>, <<node>>, <<Sibling, node>>} :
            Build(PostureOr(children), children # <<>>)
      BY <1>6 DEF CombineOr
  <2>2. Tree(PostureOr(children)) /\ (book /\ children # <<>> => ByTheBook(PostureOr(children)))
      BY <1>4, ConstructorsTell DEF PostureOr
  <2> QED
      BY <2>1, <2>2, BuildKeepsInv
<1>7. ASSUME Negate
      PROVE  PostureInv'
  <2>1. Tree(PostureNot(node)) /\ (book => ByTheBook(PostureNot(node)))
      BY <1>4, ConstructorsTell DEF PostureNot
  <2> QED
      BY <1>7, <2>1, BuildKeepsInv DEF Negate
<1>8. ASSUME ChooseRows
      PROVE  PostureInv'
  <2>1. PICK rows \in {"any", "all"} :
            Build(WithRows(node, rows), IsLeaf(node) /\ ~OwnRecord(node[<<>>].Field))
      BY <1>8 DEF ChooseRows
  <2> DEFINE ok == IsLeaf(node) /\ ~OwnRecord(node[<<>>].Field)
  <2>2. Tree(WithRows(node, rows)) /\ (book /\ ok => ByTheBook(WithRows(node, rows)))
      BY <1>0, RowsTell
  <2>3. Build(WithRows(node, rows), ok)
      BY <2>1
  <2> HIDE DEF ok
  <2> QED
      BY <2>2, <2>3, BuildKeepsInv
<1>9. ASSUME CheckByHand
      PROVE  PostureInv'
  <2>1. PICK name \in {OwnName, ProviderName, <<>>}, op \in {NoText, "is_in"},
             value \in {NilValue, Scalar, Plain("null")} :
            Build(PostureCheck(name, op, value), FALSE)
      BY <1>9 DEF CheckByHand
  <2>2. HonestValue(value)
      BY PlainIsHonest DEF NilValue, Scalar
  <2>3. Tree(PostureCheck(name, op, value))
      BY <2>2, CheckIsHonest
  <2> QED
      BY <2>1, <2>3, BuildKeepsInv
<1>10. ASSUME SetField
       PROVE  PostureInv'
  <2> DEFINE one == <<Sibling>>
  <2>1. Len(one) \in Nat /\ \A i \in DOMAIN one : Tree(one[i])
      BY <1>0
  <2> HIDE DEF one
  <2>2. /\ Tree(SetChildren(node, "Not", one)) /\ Tree(SetChildren(node, "Or", one))
        /\ Tree(SetChildren(node, "And", one))
      BY <1>0, <2>1, SetByHandTells
  <2>3. /\ Honest([node[<<>>] EXCEPT !["Operator"] = "is"])
        /\ Honest([node[<<>>] EXCEPT !["Field"] = ProviderName])
        /\ Honest([node[<<>>] EXCEPT !["Value"] = Scalar])
    <3>1. Honest(node[<<>>])
        BY <1>0 DEF Tree
    <3>2. HonestValue(Scalar)
        BY PlainIsHonest DEF Scalar
    <3> QED
        BY <3>1, <3>2, SetIsHonest
  <2>4. /\ Tree([node EXCEPT ![<<>>] = [node[<<>>] EXCEPT !["Operator"] = "is"]])
        /\ Tree([node EXCEPT ![<<>>] = [node[<<>>] EXCEPT !["Field"] = ProviderName]])
        /\ Tree([node EXCEPT ![<<>>] = [node[<<>>] EXCEPT !["Value"] = Scalar]])
      BY <1>0, <2>3, SetRootTells
  <2>5. PICK n \in {[node EXCEPT ![<<>>].Operator = "is"],
                    [node EXCEPT ![<<>>].Field = ProviderName],
                    [node EXCEPT ![<<>>].Value = Scalar],
                    SetChildren(node, "Not", one), SetChildren(node, "Or", one),
                    SetChildren(node, "And", one)} : Build(n, FALSE)
      BY <1>10 DEF SetField, one
  <2>6. Tree(n)
      BY <2>2, <2>4
  <2> QED
      BY <2>5, <2>6, BuildKeepsInv
<1>11. ASSUME MarshalJSON
       PROVE  PostureInv'
  <2>1. TableInv'
      BY <1>11, StepKeepsInv DEF MarshalJSON, PostureInv
  <2> QED
      BY <1>11, <2>1 DEF MarshalJSON, PostureInv
<1>12. ASSUME UnmarshalJSON
       PROVE  PostureInv'
  <2>1. TableInv'
      BY <1>12, StepKeepsInv DEF UnmarshalJSON, PostureInv
  <2> QED
      BY <1>12, <2>1 DEF UnmarshalJSON, PostureInv
<1>13. ASSUME UNCHANGED vars
       PROVE  PostureInv'
  <2>1. TableInv'
      BY <1>13, StepKeepsInv DEF vars, PostureInv
  <2> QED
      BY <1>13, <2>1 DEF vars, expression, PostureInv
<1> QED
    BY <1>1, <1>2, <1>3, <1>5, <1>6, <1>7, <1>8, <1>9, <1>10, <1>11, <1>12, <1>13
       DEF Next, Done

LEMMA PostureInvariance == Spec => []PostureInv
    BY InitMeetsPostureInv, StepKeepsPostureInv, PTL DEF Spec
-----------------------------------------------------------------------------
(* What the invariant says of the JSON sent, node by node.                  *)
LEMMA WireTells ==
    ASSUME PostureInv, pc \in {"sent", "read"}, NEW w \in Range(wire)
    PROVE  \E p \in DOMAIN node :
              /\ Honest(node[p]) /\ ShapeOK(node[p]) /\ Encodable(node[p])
              /\ book => Proper(node[p])
              /\ w.and = node[p].And /\ w.or = node[p].Or /\ w.not = node[p].Not
              /\ w.field = node[p].Field /\ w.op = node[p].Operator /\ w.rows = node[p].Rows
              /\ w.value = Encoded(node[p].Value)
<1>1. wire = Wire(node) /\ DOMAIN wire = DOMAIN node
    BY DEF PostureInv, Wire
<1>2. PICK p \in DOMAIN node : w = wire[p]
    BY <1>1 DEF Range
<1>3. /\ Honest(node[p]) /\ ShapeOK(node[p]) /\ Encodable(node[p])
      /\ book => Proper(node[p])
    BY DEF PostureInv, Tree, ByTheBook, Marshals, Encodable
<1>4. w = [and |-> node[p].And, or |-> node[p].Or, not |-> node[p].Not,
           field |-> node[p].Field, op |-> node[p].Operator, rows |-> node[p].Rows,
           value |-> Encoded(node[p].Value)]
    BY <1>1, <1>2 DEF Wire
<1> QED
    BY <1>3, <1>4

(* Whatever was built, by the constructors or by hand, only nodes of one    *)
(* shape go over the wire, at any depth (postures.go:181-208).              *)
THEOREM OneShapeLeaves == Spec => []OneShapeOnTheWire
<1>1. ASSUME PostureInv
      PROVE  OneShapeOnTheWire
  <2> SUFFICES ASSUME pc \in {"sent", "read"}, NEW w \in Range(wire)
               PROVE  \/ \E k \in {"and", "or", "not"} :
                            /\ BooleanKeys(w) = {k}
                            /\ w.field = <<>> /\ w.op = NoText /\ w.rows = NoText
                      \/ /\ BooleanKeys(w) = {}
                         /\ w.field # <<>> /\ w.op # NoText
                         /\ w.rows # NoText => ~OwnRecord(w.field)
      BY DEF OneShapeOnTheWire
  <2>1. PICK p \in DOMAIN node :
            /\ ShapeOK(node[p])
            /\ w.and = node[p].And /\ w.or = node[p].Or /\ w.not = node[p].Not
            /\ w.field = node[p].Field /\ w.op = node[p].Operator /\ w.rows = node[p].Rows
      BY <1>1, WireTells
  <2>2. /\ (IF w.and > 0 THEN 1 ELSE 0) + (IF w.or > 0 THEN 1 ELSE 0)
              + (IF w.not > 0 THEN 1 ELSE 0)
              + (IF w.field # <<>> \/ w.op # NoText THEN 1 ELSE 0) = 1
        /\ w.field # <<>> <=> w.op # NoText
        /\ w.rows # NoText => w.field # <<>> /\ ~OwnRecord(w.field)
      BY <2>1 DEF ShapeOK, Shapes
  <2>3. \A k \in {"and", "or", "not"} : k \in BooleanKeys(w) <=> w[k] > 0
      BY DEF BooleanKeys
  <2>4. BooleanKeys(w) \subseteq {"and", "or", "not"}
      BY DEF BooleanKeys
  <2>5. CASE w.field # <<>>
    <3>1. ~(w.and > 0) /\ ~(w.or > 0) /\ ~(w.not > 0)
        BY <2>2, <2>5
    <3>2. BooleanKeys(w) = {}
        BY <2>3, <2>4, <3>1
    <3> QED
        BY <2>2, <2>5, <3>2
  <2>6. CASE w.field = <<>>
    <3>1. w.op = NoText /\ w.rows = NoText
        BY <2>2, <2>6
    <3>2. \/ w.and > 0 /\ ~(w.or > 0) /\ ~(w.not > 0)
          \/ ~(w.and > 0) /\ w.or > 0 /\ ~(w.not > 0)
          \/ ~(w.and > 0) /\ ~(w.or > 0) /\ w.not > 0
        BY <2>2, <2>6, <3>1
    <3>3. \E k \in {"and", "or", "not"} : BooleanKeys(w) = {k}
        BY <2>3, <2>4, <3>2
    <3> QED
        BY <2>6, <3>1, <3>3
  <2> QED
      BY <2>5, <2>6
<1> QED
    BY <1>1, PostureInvariance, PTL

(* However deep it is, an expression built with the typed fields and the    *)
(* constructors passes every check of MarshalJSON but that its values have  *)
(* a JSON, and fails as a whole if one has none (postures.go:181-211).      *)
THEOREM NothingBuiltIsRejected == Spec => []ConstructorsAreAccepted
<1>1. ASSUME PostureInv
      PROVE  ConstructorsAreAccepted
  <2>1. ASSUME book
        PROVE  Marshals(node) <=> \A n \in Range(node) : Encodable(n)
    <3>1. \A p \in DOMAIN node : ShapeOK(node[p])
        BY <1>1, <2>1 DEF PostureInv, ByTheBook, Proper
    <3> QED
        BY <3>1 DEF Marshals, Encodable, Range
  <2> QED
      BY <1>1, <2>1 DEF PostureInv, ConstructorsAreAccepted
<1> QED
    BY <1>1, PostureInvariance, PTL

(* A value that has left as JSON and come back.                             *)
Reread(v) == IF v.class = "integer" THEN Float(Float64(v.of)) ELSE v

(* A value that JSON can say: neither a nil slice nor a number without one.  *)
Said(v) == HonestValue(v) /\ v.class # "null"

LEMMA ValueComesBack ==
    ASSUME NEW v, Said(v)
    PROVE  /\ Decoded(Encoded(v)) = Reread(v)
           /\ Said(Reread(v)) /\ Reread(Reread(v)) = Reread(v)
           /\ ~Inexact(v) => Encoded(Reread(v)) = Encoded(v)
<1>1. CASE v = NilValue
  <2>1. Encoded(v) = Plain("absent") /\ v.class = "nil"
      BY <1>1 DEF Encoded, NilValue, Plain
  <2>2. Decoded(Encoded(v)) = v /\ Reread(v) = v
      BY <1>1, <2>1 DEF Decoded, Reread, Plain
  <2> QED
      BY <2>2
<1>2. CASE v.class = "integer"
  <2> DEFINE k == v.of
             f == Float64(k)
  <2>1. k \in Int /\ v = Integer(k) /\ v # NilValue
      BY <1>2 DEF Said, HonestValue, NilValue, Plain
  <2>2. f \in Floats
      BY <2>1, NearestExists
  <2>3. Encoded(v) = Number(k) /\ Reread(v) = Float(f)
      BY <1>2, <2>1 DEF Encoded, Reread
  <2> HIDE DEF k, f
  <2>4. Decoded(Number(k)) = Float(Float64(k))
      BY DEF Decoded, Number
  <2>5. /\ Float(f).class = "float" /\ Float(f).of = f /\ Float(f) # NilValue
        /\ Number(k).of = k
      BY DEF Float, NilValue, Plain, Number
  <2>6. Reread(Float(f)) = Float(f) /\ Encoded(Float(f)) = Number(Shortest[f])
      BY <2>5 DEF Reread, Encoded
  <2>7. Said(Float(f))
      BY <2>2, <2>5 DEF Said, HonestValue
  <2>8. Inexact(v) <=> Shortest[f] # k
      BY <1>2 DEF Inexact, k, f
  <2> QED
      BY <2>3, <2>4, <2>6, <2>7, <2>8 DEF f
<1>3. CASE v.class = "float"
  <2> DEFINE f == v.of
  <2>1. f \in Floats /\ v = Float(f) /\ v # NilValue
      BY <1>3 DEF Said, HonestValue, NilValue, Plain
  <2>2. Encoded(v) = Number(Shortest[f]) /\ Reread(v) = v
      BY <1>3, <2>1 DEF Encoded, Reread
  <2> HIDE DEF f
  <2>3. Decoded(Number(Shortest[f])) = Float(Float64(Shortest[f]))
      BY DEF Decoded, Number
  <2>4. Float64(Shortest[f]) = f
      BY <2>1, NumbersAssumption
  <2> QED
      BY <2>1, <2>2, <2>3, <2>4
<1>4. CASE v # NilValue /\ v.class \notin {"integer", "float"}
  <2>1. Encoded(v) = v /\ Reread(v) = v
      BY <1>4 DEF Encoded, Reread
  <2>2. v.class \notin {"absent", "null", "number"}
      BY DEF Said, HonestValue
  <2>3. Decoded(v) = v
      BY <2>2 DEF Decoded
  <2> QED
      BY <2>1, <2>3
<1> QED
    BY <1>1, <1>2, <1>3, <1>4

(* No operator takes a null, and no value that it takes is encoded as one.  *)
LEMMA ProperValues ==
    ASSUME NEW n, Honest(n), Proper(n), Encodable(n)
    PROVE  Said(n.Value)
<1> DEFINE v == n.Value
           class == Encoded(v).class
           Classes == {"absent", "list", "empty list", "datetime", "duration", "number", "scalar"}
<1>1. \A op : Takes(op) \subseteq Classes
    BY DEF Takes
<1>2. v = NilValue \/ \E op : class \in Takes(op)
    BY DEF Proper, Suits, Encodable
<1>3. v = NilValue \/ class \in Classes \ {"null"}
    BY <1>1, <1>2
<1>4. HonestValue(v)
    BY DEF Honest
<1> HIDE DEF v, class, Classes
<1>5. v.class # "null"
  <2>1. SUFFICES ASSUME v.class = "null" PROVE FALSE
      OBVIOUS
  <2>2. v # NilValue
      BY <2>1 DEF NilValue, Plain
  <2>3. Encoded(v) = v
      BY <2>1, <2>2 DEF Encoded
  <2> QED
      BY <1>3, <2>1, <2>2, <2>3 DEF class
<1> QED
    BY <1>4, <1>5 DEF Said, v

(* An expression that has left as JSON and come back.                       *)
CameBack(t) == [p \in DOMAIN t |-> Set(t[p], "Value", Reread(t[p].Value))]

AllSaid(t) == \A p \in DOMAIN t : Said(t[p].Value)

LEMMA TreeComesBack ==
    ASSUME NEW t, Tree(t), AllSaid(t)
    PROVE  /\ Unmarshal(Wire(t)) = CameBack(t)
           /\ CameBack(t) = [p \in DOMAIN t |-> [t[p] EXCEPT !.Value = Reread(@)]]
<1>1. ASSUME NEW p \in DOMAIN t
      PROVE  /\ Unmarshal(Wire(t))[p] = Set(t[p], "Value", Reread(t[p].Value))
             /\ [t[p] EXCEPT !.Value = Reread(@)] = Set(t[p], "Value", Reread(t[p].Value))
  <2> DEFINE n == t[p]
             r == Reread(n.Value)
  <2>1. Unmarshal(Wire(t))[p] =
            [And |-> n.And, Or |-> n.Or, Not |-> n.Not, Field |-> n.Field,
             Operator |-> n.Operator, Rows |-> n.Rows, Value |-> Decoded(Encoded(n.Value))]
      BY DEF Unmarshal, Wire
  <2>2. Decoded(Encoded(n.Value)) = r
      BY ValueComesBack DEF AllSaid
  <2>3. Honest(n)
      BY DEF Tree
  <2>4. [t[p] EXCEPT !.Value = Reread(@)] = [n EXCEPT !["Value"] = r]
      OBVIOUS
  <2> HIDE DEF n, r
  <2>5. [n EXCEPT !["Value"] = r] = Set(n, "Value", r)
      BY <2>3, SetTells
  <2>6. Unmarshal(Wire(t))[p] = Set(n, "Value", r)
      BY <2>1, <2>2 DEF Set
  <2> QED
      BY <2>4, <2>5, <2>6 DEF n, r
<1>2. Unmarshal(Wire(t)) = [p \in DOMAIN t |-> Unmarshal(Wire(t))[p]]
    BY DEF Unmarshal, Wire
<1> QED
    BY <1>1, <1>2 DEF CameBack

(* What came back once stays as it is.                                      *)
LEMMA ComesBackOnce ==
    ASSUME NEW t, Tree(t), AllSaid(t)
    PROVE  Tree(CameBack(t)) /\ AllSaid(CameBack(t)) /\ CameBack(CameBack(t)) = CameBack(t)
<1> DEFINE u == CameBack(t)
<1>1. DOMAIN u = DOMAIN t /\ u = [p \in DOMAIN u |-> u[p]]
    BY DEF CameBack
<1>2. ASSUME NEW p \in DOMAIN t
      PROVE  /\ Honest(u[p]) /\ Said(u[p].Value)
             /\ Set(u[p], "Value", Reread(u[p].Value)) = u[p]
  <2> DEFINE n == t[p]
             r == Reread(n.Value)
  <2>1. Said(r) /\ Reread(r) = r
      BY ValueComesBack DEF AllSaid
  <2>2. u[p] = Set(n, "Value", r)
      BY DEF CameBack
  <2> HIDE DEF r, n, u
  <2>3. Set(n, "Value", r).Value = r /\ Honest(Set(n, "Value", r))
      BY <2>1 DEF Set, Honest, Said
  <2>4. Set(Set(n, "Value", r), "Value", r) = Set(n, "Value", r)
      BY DEF Set
  <2> QED
      BY <2>1, <2>2, <2>3, <2>4
<1>3. <<>> \in DOMAIN u
    BY <1>1 DEF Tree
<1>4. CameBack(u) = [p \in DOMAIN u |-> u[p]]
    BY <1>1, <1>2 DEF CameBack
<1> HIDE DEF u
<1>5. Tree(u) /\ AllSaid(u) /\ CameBack(u) = u
    BY <1>1, <1>2, <1>3, <1>4 DEF Tree, AllSaid
<1> QED
    BY <1>5 DEF u

(* And it says the same, but for an inexact integer.                        *)
LEMMA SaysTheSame ==
    ASSUME NEW t, Tree(t), AllSaid(t), \A p \in DOMAIN t : ~Inexact(t[p].Value)
    PROVE  Wire(CameBack(t)) = Wire(t)
<1>1. ASSUME NEW p \in DOMAIN t
      PROVE  Wire(CameBack(t))[p] = Wire(t)[p]
  <2> DEFINE n == t[p]
             r == Reread(n.Value)
             m == Set(n, "Value", r)
  <2>1. Encoded(r) = Encoded(n.Value)
      BY ValueComesBack DEF AllSaid
  <2>2. CameBack(t)[p] = m /\ p \in DOMAIN CameBack(t)
      BY DEF CameBack
  <2>3. Wire(t)[p] = [and |-> n.And, or |-> n.Or, not |-> n.Not, field |-> n.Field,
                      op |-> n.Operator, rows |-> n.Rows, value |-> Encoded(n.Value)]
      BY DEF Wire
  <2> HIDE DEF m
  <2>4. Wire(CameBack(t))[p] = [and |-> m.And, or |-> m.Or, not |-> m.Not, field |-> m.Field,
                                op |-> m.Operator, rows |-> m.Rows, value |-> Encoded(m.Value)]
      BY <2>2 DEF Wire
  <2> HIDE DEF n, r
  <2>5. /\ m.And = n.And /\ m.Or = n.Or /\ m.Not = n.Not /\ m.Field = n.Field
        /\ m.Operator = n.Operator /\ m.Rows = n.Rows /\ m.Value = r
      BY DEF m, Set
  <2> QED
      BY <2>1, <2>3, <2>4, <2>5
<1>2. /\ Wire(t) = [p \in DOMAIN t |-> Wire(t)[p]]
      /\ Wire(CameBack(t)) = [p \in DOMAIN t |-> Wire(CameBack(t))[p]]
    BY DEF Wire, CameBack
<1> QED
    BY <1>1, <1>2

(* An expression built with the typed fields and the constructors comes     *)
(* back as it went, with every integer as the nearest float64; it goes out  *)
(* again the same if no integer was inexact; and it changes no more after   *)
(* that (postures.go:118-119 and 181-224).                                  *)
THEOREM BuiltExpressionsReadBack == Spec => []ReadsBack
<1>1. ASSUME PostureInv
      PROVE  ReadsBack
  <2> SUFFICES ASSUME pc = "read", book
               PROVE  /\ back = [p \in DOMAIN node |->
                             [node[p] EXCEPT !.Value =
                                 IF @.class = "integer" THEN Float(Float64(@.of)) ELSE @]]
                      /\ Wire(back) = wire \/ \E n \in Range(node) : Inexact(n.Value)
                      /\ Unmarshal(Wire(back)) = back
      BY DEF ReadsBack
  <2>1. Tree(node) /\ wire = Wire(node) /\ back = Unmarshal(Wire(node))
      BY <1>1 DEF PostureInv
  <2>2. ASSUME NEW p \in DOMAIN node
        PROVE  Said(node[p].Value)
    <3> DEFINE n == node[p]
    <3>1. Honest(n) /\ Proper(n) /\ Encodable(n)
        BY <1>1 DEF PostureInv, Tree, ByTheBook, Marshals, Encodable
    <3> HIDE DEF n
    <3>2. Said(n.Value)
        BY <3>1, ProperValues
    <3> QED
        BY <3>2 DEF n
  <2>3. AllSaid(node)
      BY <2>2 DEF AllSaid
  <2>4. /\ back = CameBack(node)
        /\ back = [p \in DOMAIN node |-> [node[p] EXCEPT !.Value = Reread(@)]]
      BY <2>1, <2>3, TreeComesBack
  <2>5. Unmarshal(Wire(back)) = back
      BY <2>1, <2>3, <2>4, ComesBackOnce, TreeComesBack
  <2>6. Wire(back) = wire \/ \E n \in Range(node) : Inexact(n.Value)
      BY <2>1, <2>3, <2>4, SaysTheSame DEF Range
  <2> QED
      BY <2>4, <2>5, <2>6 DEF Reread
<1> QED
    BY <1>1, PostureInvariance, PTL

(* Every leaf on the wire of such an expression has the JSON that its       *)
(* operator takes (postures.go:27-68).                                     *)
THEOREM TypedLeavesTakeTheirValues == Spec => []TypedLeavesFit
<1>1. ASSUME PostureInv
      PROVE  TypedLeavesFit
  <2> SUFFICES ASSUME pc \in {"sent", "read"}, book, NEW w \in Range(wire), w.op # NoText
               PROVE  w.value.class \in Takes(w.op)
      BY DEF TypedLeavesFit
  <2>1. PICK p \in DOMAIN node :
            /\ Proper(node[p]) /\ Encodable(node[p])
            /\ w.op = node[p].Operator /\ w.value = Encoded(node[p].Value)
      BY <1>1, WireTells
  <2> QED
      BY <2>1 DEF Proper, Suits, Encodable
<1> QED
    BY <1>1, PostureInvariance, PTL

(* No duration is blurred on its way, at any depth of an expression, one    *)
(* with fields set by hand included (posture_fields.go:290-312).            *)
THEOREM DurationsArriveExact == Spec => []DurationsAreExact
<1>1. ASSUME PostureInv
      PROVE  DurationsAreExact
  <2> SUFFICES ASSUME pc \in {"sent", "read"}, NEW w \in Range(wire),
                      w.value.class = "duration"
               PROVE  Exact(w.value)
      BY DEF DurationsAreExact
  <2>1. PICK p \in DOMAIN node :
            Honest(node[p]) /\ w.value = Encoded(node[p].Value)
      BY <1>1, WireTells
  <2> DEFINE v == node[p].Value
  <2>2. HonestValue(v) /\ w.value = Encoded(v)
      BY <2>1 DEF Honest
  <2> HIDE DEF v
  <2>3. w.value = v
      BY <2>2 DEF Encoded, Plain, Number
  <2> QED
      BY <2>2, <2>3 DEF HonestValue
<1> QED
    BY <1>1, PostureInvariance, PTL
=============================================================================
