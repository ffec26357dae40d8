------------------------------ MODULE Postures ------------------------------
(***************************************************************************)
(* Posture expressions (postures.go): a caller builds a tree of nodes with *)
(* the generated constants and their methods, constructors and struct      *)
(* fields, marshals it for a Policy request, and reads it back.            *)
(***************************************************************************)
EXTENDS PostureTable

CONSTANTS InUse,   \* the documents whose constants a caller uses
          MaxSteps \* bound: steps of building

VARIABLES node,  \* the expression being built
          book,  \* history: built by the book, with the constructors alone
          steps, \* history: steps of building so far
          pc,    \* "generate", "build", "sent", "rejected" or "read"
          wire,  \* the JSON sent
          back   \* the expression read back

expression == <<node, book, steps, pc, wire, back>>
vars == <<tableVars, expression>>

-----------------------------------------------------------------------------
(* An expression is a function from positions to nodes: <<>> is the        *)
(* expression's own node, and <<key, i, p>> the position p of the i-th     *)
(* child under And, Or or Not.  A node itself says how many children it has. *)
NoText == ""

EmptyNode == [And |-> 0, Or |-> 0, Not |-> 0, Field |-> <<>>, Operator |-> NoText,
              Value |-> NilValue, Rows |-> NoText]

Single(n) == [p \in {<<>>} |-> n]

(* The zero PostureNode.                                                    *)
Empty == Single(EmptyNode)

(* An expression with its children under one of the keys replaced.         *)
SetChildren(n, key, children) ==
    LET others == {p \in DOMAIN n : p = <<>> \/ p[1] # key}
        below  == UNION {{<<key, i, p>> : p \in DOMAIN children[i]} : i \in DOMAIN children}
    IN  [p \in others \union below |->
            CASE p = <<>>     -> [n[p] EXCEPT ![key] = Len(children)]
              [] p \in below  -> children[p[2]][p[3]]
              [] OTHER        -> n[p]]

PostureAnd(children) == SetChildren(Empty, "And", children)
PostureOr(children)  == SetChildren(Empty, "Or", children)
PostureNot(child)    == SetChildren(Empty, "Not", <<child>>)
PostureCheck(name, op, value) ==
    Single([EmptyNode EXCEPT !.Field = name, !.Operator = op, !.Value = value])
WithRows(n, rows)    == [n EXCEPT ![<<>>].Rows = rows]

(* A field of the device's own record.                                      *)
OwnRecord(name) == IsPrefix(<<"firezone", ".">>, name)

\* Mutant: the shapes told apart by a switch.
ShapesBySwitch(n) ==
    IF n.And > 0 \/ n.Or > 0 \/ n.Not > 0 \/ n.Field # <<>> \/ n.Operator # NoText
    THEN 1 ELSE 0

Shapes(n) ==
    (IF n.And > 0 THEN 1 ELSE 0) + (IF n.Or > 0 THEN 1 ELSE 0)
    + (IF n.Not > 0 THEN 1 ELSE 0)
    + (IF n.Field # <<>> \/ n.Operator # NoText THEN 1 ELSE 0)

\* Mutant: the test for the device's own record the wrong way round.
ShapeOKPrefixNegated(n) ==
    /\ Shapes(n) = 1
    /\ n.Field # <<>> <=> n.Operator # NoText
    /\ n.Rows # NoText => OwnRecord(n.Field)

(* The checks of MarshalJSON on one node.                                   *)
ShapeOK(n) ==
    /\ Shapes(n) = 1
    /\ n.Field # <<>> <=> n.Operator # NoText
    /\ n.Rows # NoText => n.Field # <<>> /\ ~OwnRecord(n.Field)

(* json.Marshal calls MarshalJSON on every node below.                      *)
Marshals(n) == \A p \in DOMAIN n : ShapeOK(n[p]) /\ n[p].Value.class # "not a number"

(* The JSON of an expression (postureWire): a key with an empty value is    *)
(* left out.                                                               *)
Wire(n) ==
    [p \in DOMAIN n |->
        [and |-> n[p].And, or |-> n[p].Or, not |-> n[p].Not,
         field |-> n[p].Field, op |-> n[p].Operator, rows |-> n[p].Rows,
         value |-> Encoded(n[p].Value)]]

\* Mutant: rows not read back.
UnmarshalNoRows(w) ==
    [p \in DOMAIN w |->
        [And |-> w[p].and, Or |-> w[p].or, Not |-> w[p].not,
         Field |-> w[p].field, Operator |-> w[p].op, Rows |-> NoText,
         Value |-> Decoded(w[p].value)]]

(* UnmarshalJSON, on every node.                                            *)
Unmarshal(w) ==
    [p \in DOMAIN w |->
        [And |-> w[p].and, Or |-> w[p].or, Not |-> w[p].not,
         Field |-> w[p].field, Operator |-> w[p].op, Rows |-> w[p].rows,
         Value |-> Decoded(w[p].value)]]

-----------------------------------------------------------------------------
NoWire == Wire(Empty)

Init == /\ TableInit
        /\ node = Empty /\ book = FALSE
        /\ steps = 0 /\ pc = "generate"
        /\ wire = NoWire /\ back = Empty

Generate == TableNext /\ UNCHANGED expression

(* A caller starts with a method of a generated constant, or with an empty  *)
(* node.                                                                    *)
Begin(n, ok) == /\ pc = "generate" /\ pc' = "build"
                /\ stage = "written" /\ doc \in InUse
                /\ node' = n /\ book' = ok
                /\ UNCHANGED <<tableVars, steps, wire, back>>

UseConstant ==
    \E i \in DOMAIN file : \E leaf \in FieldTypes[goType(file[i].specType)] :
        Begin(PostureCheck(file[i].name, leaf[1], leaf[2]), TRUE)

StartEmpty == Begin(Empty, FALSE)

(* Names that a caller has typed by hand.                                   *)
OwnName      == <<"firezone", ".", "name">>
ProviderName == <<"intune", ".", "name">>

Sibling == PostureCheck(ProviderName, "is", Scalar)

IsLeaf(n) == n[<<>>].Field # <<>>

Build(n, ok) == /\ pc = "build" /\ steps < MaxSteps
                /\ node' = n /\ book' = (book /\ ok)
                /\ steps' = steps + 1
                /\ UNCHANGED <<tableVars, pc, wire, back>>

CombineAnd == \E children \in {<<>>, <<node>>, <<node, Sibling>>, <<Sibling, node>>} :
                 Build(PostureAnd(children), children # <<>>)
CombineOr  == \E children \in {<<>>, <<node>>, <<Sibling, node>>} :
                 Build(PostureOr(children), children # <<>>)
Negate     == Build(PostureNot(node), TRUE)
ChooseRows == \E rows \in {"any", "all"} :
                 Build(WithRows(node, rows), IsLeaf(node) /\ ~OwnRecord(node[<<>>].Field))

(* PostureCheck by hand, and fields of the struct set one by one: anything   *)
(* goes.                                                                    *)
CheckByHand == \E name \in {OwnName, ProviderName, <<>>}, op \in {NoText, "is_in"},
                  value \in {NilValue, Scalar, Plain("null")} :
                  Build(PostureCheck(name, op, value), FALSE)
SetField    == \E n \in {[node EXCEPT ![<<>>].Operator = "is"],
                         [node EXCEPT ![<<>>].Field = ProviderName],
                         [node EXCEPT ![<<>>].Value = Scalar],
                         SetChildren(node, "Not", <<Sibling>>),
                         SetChildren(node, "Or", <<Sibling>>),
                         SetChildren(node, "And", <<Sibling>>)} :
                  Build(n, FALSE)

MarshalJSON == /\ pc = "build"
               /\ IF Marshals(node) THEN pc' = "sent" /\ wire' = Wire(node)
                  ELSE pc' = "rejected" /\ UNCHANGED wire
               /\ UNCHANGED <<tableVars, node, book, steps, back>>

UnmarshalJSON == /\ pc = "sent" /\ pc' = "read"
                 /\ back' = Unmarshal(wire)
                 /\ UNCHANGED <<tableVars, node, book, steps, wire>>

Done == /\ \/ pc \in {"rejected", "read"}
           \/ pc = "generate" /\ stage = "failed"
           \/ pc = "generate" /\ stage = "written" /\ doc \notin InUse
        /\ UNCHANGED vars

Next == \/ Generate \/ UseConstant \/ StartEmpty
        \/ CombineAnd \/ CombineOr \/ Negate \/ ChooseRows \/ CheckByHand \/ SetField
        \/ MarshalJSON \/ UnmarshalJSON \/ Done

Spec == Init /\ [][Next]_vars

-----------------------------------------------------------------------------
BooleanKeys(w) == {k \in {"and", "or", "not"} : w[k] > 0}

(* Nothing leaves the SDK that has two shapes or none, at any depth: one of  *)
(* the keys and, or, not, or else a field with its operator; and rows only  *)
(* with the field of a provider (postures.go:181-208).                      *)
OneShapeOnTheWire ==
    pc \in {"sent", "read"} =>
        \A w \in Range(wire) :
            \/ \E k \in {"and", "or", "not"} :
                  /\ BooleanKeys(w) = {k}
                  /\ w.field = <<>> /\ w.op = NoText /\ w.rows = NoText
            \/ /\ BooleanKeys(w) = {}
               /\ w.field # <<>> /\ w.op # NoText
               /\ w.rows # NoText => ~OwnRecord(w.field)

(* As OneShapeOnTheWire, and with a value only where a field check has its   *)
(* place.  PostureNode's comment says that Field, Operator and Value make a *)
(* node a leaf, and that marshalling rejects a node that is not exactly one *)
(* of the four shapes (postures.go:114-115, 127 and 177-180).               *)
NoValueWithoutField ==
    pc \in {"sent", "read"} =>
        \A w \in Range(wire) : w.value.class # "absent" => w.field # <<>>

Encodable(n) == n.Value.class # "not a number"

(* An expression built with the typed fields and the constructors is        *)
(* rejected exactly when a value in it, however deep, has no JSON: then     *)
(* nothing of it is sent (firezone.go:369-378, postures.go:181-211).        *)
ConstructorsAreAccepted ==
    book => /\ pc = "rejected" => ~\A n \in Range(node) : Encodable(n)
            /\ pc \in {"sent", "read"} => \A n \in Range(node) : Encodable(n)

(* An integer that the nearest float64 does not spell.                      *)
Inexact(value) == value.class = "integer" /\ Shortest[Float64(value.of)] # value.of

(* Such an expression is what a later read of the Policy returns, but that  *)
(* every integer is the nearest float64 (postures.go:118-119): all nodes    *)
(* are where they were, with their shape, operator and rows.  The next      *)
(* request sends the same JSON if no integer was inexact; and what was read *)
(* once changes no more, however often it is sent and read.                 *)
ReadsBack ==
    pc = "read" /\ book =>
        /\ back = [p \in DOMAIN node |->
               [node[p] EXCEPT !.Value = IF @.class = "integer" THEN Float(Float64(@.of)) ELSE @]]
        /\ Wire(back) = wire \/ \E n \in Range(node) : Inexact(n.Value)
        /\ Unmarshal(Wire(back)) = back

(* A leaf made by a method of a typed field has the JSON its operator takes; *)
(* a list with nothing in it is an empty list, not a missing value          *)
(* (posture_fields.go:403-410).                                             *)
TypedLeavesFit ==
    pc \in {"sent", "read"} /\ book =>
        \A w \in Range(wire) : w.op # NoText => w.value.class \in Takes(w.op)

(* Every duration on the wire is the one the caller passed to WithinLast or  *)
(* NotWithinLast (posture_fields.go:290-312).                               *)
DurationsAreExact ==
    pc \in {"sent", "read"} =>
        \A w \in Range(wire) : w.value.class = "duration" => Exact(w.value)
=============================================================================
