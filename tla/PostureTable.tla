---------------------------- MODULE PostureTable ----------------------------
(***************************************************************************)
(* The generator of the typed field constants (internal/genposture): it    *)
(* reads the API's registry of posture fields twice, once from a table in  *)
(* a description and once from the leaf schemas that validate an           *)
(* expression, compares the two, and writes one constant per field.  A     *)
(* name is a sequence of characters, because identFor takes it apart.      *)
(***************************************************************************)
EXTENDS PostureFields, FiniteSets, SequencesExt

CONSTANTS Documents,   \* OpenAPI documents, reduced to the two enumerations
          Initialisms, \* words with a spelling of their own
          Upper        \* the capital of a letter

(* A row of the table may be one that the pattern tableRow does not match; *)
(* one that it does match has a name.                                      *)
Row(name, type) == [name |-> name, type |-> type, matches |-> TRUE]
Illegible(name) == [name |-> name, type |-> "string", matches |-> FALSE]
(* A leaf schema: the first word of its description, and its enumeration.  *)
Leaf(type, enum) == [type |-> type, enum |-> enum]

ASSUME DocumentsAssumption ==
    \A doc \in Documents :
        /\ DOMAIN doc = {"table", "leaves"}
        /\ doc.table \in Seq(Range(doc.table))
        /\ doc.leaves \in Seq(Range(doc.leaves))
        /\ \A i \in DOMAIN doc.leaves : IsFiniteSet(doc.leaves[i].enum)
        /\ \A i \in DOMAIN doc.table : doc.table[i].matches => doc.table[i].name # <<>>

-----------------------------------------------------------------------------
(* The SDK's field types, and the leaves that their methods make.          *)
FieldTypes ==
    [PostureBoolField |-> PostureBoolField, PostureStringField |-> PostureStringField,
     PostureIntegerField |-> PostureIntegerField, PostureFloatField |-> PostureFloatField,
     PostureVersionField |-> PostureVersionField,
     PostureTimestampField |-> PostureTimestampField, PostureIPField |-> PostureIPField,
     PostureJSONField |-> PostureJSONField,
     PostureStringArrayField |-> PostureStringArrayField]

SpecTypes == {"boolean", "string", "enum_string", "integer", "float", "version",
              "datetime", "ip", "ipv4", "ipv6", "json", "string_array"}

\* Mutant: the JSON fields taken for lists of strings.
goTypeOfLists(type) ==
    CASE type = "boolean"                  -> "PostureBoolField"
      [] type \in {"string", "enum_string"} -> "PostureStringField"
      [] type = "integer"                  -> "PostureIntegerField"
      [] type = "float"                    -> "PostureFloatField"
      [] type = "version"                  -> "PostureVersionField"
      [] type = "datetime"                 -> "PostureTimestampField"
      [] type \in {"ip", "ipv4", "ipv6"}   -> "PostureIPField"
      [] type \in {"json", "string_array"} -> "PostureStringArrayField"

goType(type) ==
    CASE type = "boolean"                  -> "PostureBoolField"
      [] type \in {"string", "enum_string"} -> "PostureStringField"
      [] type = "integer"                  -> "PostureIntegerField"
      [] type = "float"                    -> "PostureFloatField"
      [] type = "version"                  -> "PostureVersionField"
      [] type = "datetime"                 -> "PostureTimestampField"
      [] type \in {"ip", "ipv4", "ipv6"}   -> "PostureIPField"
      [] type = "json"                     -> "PostureJSONField"
      [] type = "string_array"             -> "PostureStringArrayField"

(* The operators that the leaf schemas of the API accept for a field of a   *)
(* type (testdata/openapi.json, PolicyPostureLeaf).                        *)
Accepts(type) ==
    {"exists", "does_not_exist"} \union
    CASE type = "boolean" -> {"is"}
      [] type \in {"string", "enum_string"} ->
             {"is", "is_not", "is_in", "is_not_in", "contains", "does_not_contain",
              "starts_with", "ends_with", "matches", "does_not_match"}
      [] type \in {"integer", "float"} -> {"eq", "ne", "gt", "gte", "lt", "lte"}
      [] type = "version" -> {"is", "is_not", "gt", "gte", "lt", "lte"}
      [] type = "datetime" -> {"before", "after", "within_last", "not_within_last"}
      [] type \in {"ip", "ipv4", "ipv6"} -> {"is_in_cidr", "is_not_in_cidr"}
      [] type = "json" -> {"is_empty", "is_not_empty"}
      [] type = "string_array" ->
             {"is_empty", "is_not_empty", "contains", "does_not_contain",
              "contains_any_of", "contains_all_of"}

-----------------------------------------------------------------------------
(* The words of a name, in which a dot and an underscore count the same.    *)
Words(name) ==
    LET Add(words, c) == IF c \in {".", "_"} THEN Append(words, <<>>)
                         ELSE [words EXCEPT ![Len(words)] = Append(@, c)]
    IN  SelectSeq(FoldLeft(Add, << <<>> >>, name), LAMBDA word : word # <<>>)

Capital(word) == IF word \in DOMAIN Initialisms THEN Initialisms[word]
                 ELSE <<Upper[Head(word)]>> \o Tail(word)

identFor(name) ==
    FoldLeft(LAMBDA ident, word : ident \o Capital(word), <<"Posture">>, Words(name))

(* The leaf schemas' view: the type of each field, from the last schema    *)
(* that lists it.                                                          *)
Listing(doc, name) == {i \in DOMAIN doc.leaves : name \in doc.leaves[i].enum}
Accepted(doc) == UNION {doc.leaves[i].enum : i \in DOMAIN doc.leaves}
leafType(doc) ==
    [name \in Accepted(doc) |->
        LET last == CHOOSE i \in Listing(doc, name) : \A j \in Listing(doc, name) : j <= i
        IN  doc.leaves[last].type]

VARIABLES doc,    \* the document read; never changes
          stage,  \* "table", "count", "written" or "failed"
          row,    \* the row of the table that is next
          fields, \* the fields so far
          file    \* the constants in the file that is committed

tableVars == <<doc, stage, row, fields, file>>

Constant(r) == [name |-> r.name, specType |-> r.type, ident |-> identFor(r.name)]

Seen == {fields[i].ident : i \in DOMAIN fields}

\* Mutants: fields with the same identifier let through, and rows that only
\* one of the enumerations has.
RowOKSameIdent(r) ==
    /\ r.type \in SpecTypes
    /\ r.name \in Accepted(doc) /\ leafType(doc)[r.name] = r.type
RowOKUnlisted(r) ==
    /\ r.type \in SpecTypes
    /\ r.name \in Accepted(doc) => leafType(doc)[r.name] = r.type
    /\ identFor(r.name) \notin Seen

(* The checks of a row: a type that the SDK has, the one that the schemas  *)
(* give the field, and an identifier no other field has.                   *)
RowOK(r) ==
    /\ r.type \in SpecTypes
    /\ r.name \in Accepted(doc) /\ leafType(doc)[r.name] = r.type
    /\ identFor(r.name) \notin Seen

Complete == Len(fields) = Cardinality(Accepted(doc))

-----------------------------------------------------------------------------
TableInit == /\ doc \in Documents
             /\ stage = "table" /\ row = 1
             /\ fields = <<>> /\ file = <<>>

(* FindAllStringSubmatch passes over what the pattern does not match.       *)
SkipRow == /\ stage = "table" /\ row \in DOMAIN doc.table
           /\ ~doc.table[row].matches
           /\ row' = row + 1
           /\ UNCHANGED <<doc, stage, fields, file>>

TakeRow == /\ stage = "table" /\ row \in DOMAIN doc.table
           /\ doc.table[row].matches /\ RowOK(doc.table[row])
           /\ fields' = Append(fields, Constant(doc.table[row]))
           /\ row' = row + 1
           /\ UNCHANGED <<doc, stage, file>>

RefuseRow == /\ stage = "table" /\ row \in DOMAIN doc.table
             /\ doc.table[row].matches /\ ~RowOK(doc.table[row])
             /\ stage' = "failed"
             /\ UNCHANGED <<doc, row, fields, file>>

Count == /\ stage = "table" /\ row \notin DOMAIN doc.table
         /\ stage' = IF Complete THEN "count" ELSE "failed"
         /\ UNCHANGED <<doc, row, fields, file>>

(* render, in the order of the names, and WriteFile.                        *)
Write == /\ stage = "count"
         /\ file' = fields
         /\ stage' = "written"
         /\ UNCHANGED <<doc, row, fields>>

TableNext == SkipRow \/ TakeRow \/ RefuseRow \/ Count \/ Write

TableSpec == TableInit /\ [][TableNext]_tableVars

-----------------------------------------------------------------------------
Names(fs) == {fs[i].name : i \in DOMAIN fs}

(* The file written has a constant for each field that a leaf schema        *)
(* accepts, for nothing else, and no two constants have the same name or    *)
(* stand for the same field, so that no field is lost behind a duplicate,   *)
(* a row that cannot be read, or a missing one (main.go:119-149).           *)
OneConstantPerField ==
    stage = "written" =>
        /\ Names(file) = Accepted(doc)
        /\ \A i, j \in DOMAIN file :
               file[i].ident = file[j].ident \/ file[i].name = file[j].name => i = j

(* Every leaf that a method of a generated constant can make has an         *)
(* operator that the API takes for that field: one of the schemas that list *)
(* it does (main.go:24-43).                                                 *)
MethodsAreAccepted ==
    stage = "written" =>
        \A i \in DOMAIN file :
            \A leaf \in FieldTypes[goType(file[i].specType)] :
                \E l \in Listing(doc, file[i].name) : leaf[1] \in Accepts(doc.leaves[l].type)

(* The two enumerations agree: the rows that can be read are for the fields *)
(* that the schemas list, each row has the type that every schema gives its *)
(* field, and the SDK can express the types and the names.                  *)
Agreement(d) ==
    LET rows == {i \in DOMAIN d.table : d.table[i].matches}
    IN  /\ {d.table[i].name : i \in rows} = Accepted(d)
        /\ \A i \in rows : \A l \in Listing(d, d.table[i].name) :
               d.leaves[l].type = d.table[i].type
        /\ \A i \in rows : d.table[i].type \in SpecTypes
        /\ \A i, j \in rows :
               identFor(d.table[i].name) = identFor(d.table[j].name) => i = j

(* The schemas agree with each other about the type of every field.         *)
SchemasAgree(d) ==
    \A name \in Accepted(d) : \A l, m \in Listing(d, name) :
        d.leaves[l].type = d.leaves[m].type

(* Where the schemas agree with each other, the generator stops, and leaves *)
(* the committed file alone, exactly when the table has drifted apart from  *)
(* them or two fields would have the same constant (main.go:118-149); it    *)
(* never stops without such a reason.                                       *)
StopsOnDrift ==
    /\ stage = "written" /\ SchemasAgree(doc) => Agreement(doc)
    /\ stage = "failed" => ~Agreement(doc) /\ file = <<>>

-----------------------------------------------------------------------------
(* What a comment says and the code does not do.                            *)

(* "A field the table lists with a type the leaf schemas don't agree on     *)
(* means the description and the schema drifted - stop, don't guess."       *)
(* (main.go:118-120).  The code keeps the type of the last schema.          *)
NeverGuesses == stage = "written" => Agreement(doc)
=============================================================================
