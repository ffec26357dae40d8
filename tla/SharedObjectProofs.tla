------------------------- MODULE SharedObjectProofs -------------------------
(***************************************************************************)
(* LastWordStands for any callers, fields, members and teams.  What the    *)
(* API holds of an item is what the last call about it in history meant;   *)
(* a call that was done when its caller made the next stands before it in  *)
(* history; and only its caller makes calls about an item.                 *)
(***************************************************************************)
EXTENDS SharedObject, SequenceTheorems, TLAPS

ItemWords == Values \union {Zero, JSONNull, "in", "out", "keep"}

(* A body does to every item what its call means: to a field when it is    *)
(* merged, to an ID whatever list it is applied to.                        *)
Does(b, w) ==
    /\ \A f \in Fields : IF w[f] = "keep" THEN b.fields[f] = Absent
                         ELSE b.fields[f] # Absent /\ Stored(Kind[f], b.fields[f]) = w[f]
    /\ \A i \in Members, m \in SUBSET Members :
           InOrOut(i, Apply(b, m)) = IF w[i] = "keep" THEN InOrOut(i, m) ELSE w[i]

BodyType == [fields : [Fields -> Values \union {Zero, JSONNull, Absent}],
             whole : BOOLEAN, list : SUBSET Members,
             add : SUBSET Members, remove : SUBSET Members]

(* What a call may put on the wire.                                        *)
Proper(c, b, w) ==
    /\ b \in BodyType
    /\ w \in [Items -> ItemWords]
    /\ Does(b, w)
    /\ b.whole => Members \subseteq team.mine[c[1]]
    /\ \A i \in Items : w[i] # "keep" => i \in team.mine[c[1]]
    /\ \A f \in Fields : b.fields[f] # Absent =>
           Stored(Kind[f], b.fields[f]) # Misfit(f)

BodyInv == \A c \in Calls : Proper(c, body[c], want[c])

ObjectInv ==
    /\ object \in [Fields -> Values \union {Zero, JSONNull}]
    /\ \A f \in Fields : object[f] # Misfit(f)
    /\ members \subseteq Members

ContractInv ==
    /\ verdict \in [Calls -> {"idle", "pending", "done", "refused", "unknown"}]
    /\ history \in Seq(Calls)
    /\ \A p \in DOMAIN history : verdict[history[p]] \in {"pending", "done", "unknown"}
    /\ \A c \in Calls : verdict[c] = "done" => \E p \in DOMAIN history : history[p] = c

OrderInv ==
    \A c, d \in Calls :
        c[1] = d[1] /\ c[2] < d[2] =>
            /\ verdict[d] # "idle" => Returned(c)
            /\ verdict[c] = "done" =>
                   \A p, q \in DOMAIN history : history[p] = c /\ history[q] = d => p < q

Silent(p, i) == want[history[p]][i] = "keep"

HeldInv ==
    \A i \in Items :
        \/ /\ \A p \in DOMAIN history : Silent(p, i)
           /\ Held(i) = IF i \in Fields THEN Created[i] ELSE "out"
        \/ \E p \in DOMAIN history :
              /\ ~Silent(p, i)
              /\ Held(i) = want[history[p]][i]
              /\ \A q \in DOMAIN history : q > p => Silent(q, i)

IInv == /\ team \in Teams /\ body \in [Calls -> BodyType]
        /\ want \in [Calls -> [Items -> ItemWords]]
        /\ BodyInv /\ ObjectInv /\ ContractInv /\ OrderInv /\ HeldInv

-----------------------------------------------------------------------------
(* A call is the pair of its caller and its number.                        *)
LEMMA CallPair ==
    \A c \in Calls : c = <<c[1], c[2]>> /\ c[1] \in Callers /\ c[2] \in 1 .. MaxCalls
BY DEF Calls

LEMMA UpdatesAreProper ==
    ASSUME NEW c \in Calls, team \in Teams,
           NEW req \in Requests(c[1]), NEW criteria \in Criteria(c[1]), Encodable(req)
    PROVE  Proper(c, UpdateBody(req, criteria), UpdateMeans(req, criteria))
<1> USE FieldsAssumption, ValuesAssumption DEF Misfit
<1> DEFINE b == UpdateBody(req, criteria)
           w == UpdateMeans(req, criteria)
<1>1. c[1] \in Callers
  BY CallPair
<1>2. \A f \in Fields : /\ req[f] \in GoField
                        /\ req[f] \in GoValues(Kind[f])
                        /\ f \notin team.mine[c[1]] => req[f] = KeepsAll[f]
  <2>1. \A f \in Fields : KeepsAll[f] \in GoField /\ KeepsAll[f] \in GoValues(Kind[f])
    BY DEF KeepsAll, GoField, GoValues, Plain, Nil, Clear
  <2> QED BY <2>1 DEF Requests
<1>3. criteria = {} \/ (Members \subseteq team.mine[c[1]]
                        /\ \E ids \in SUBSET Members : criteria = {ids})
  BY DEF Criteria, Slices
<1>4. UNION criteria \subseteq Members
  BY <1>3
<1> DEFINE Suits(f) ==
             /\ b.fields[f] \in Values \union {Zero, JSONNull, Absent}
             /\ w[f] \in ItemWords
             /\ IF w[f] = "keep" THEN b.fields[f] = Absent
                ELSE b.fields[f] # Absent /\ Stored(Kind[f], b.fields[f]) = w[f]
             /\ w[f] # "keep" => f \in team.mine[c[1]]
             /\ b.fields[f] # Absent =>
                   Stored(Kind[f], b.fields[f]) # Misfit(f)
<1>5. ASSUME NEW f \in Fields PROVE Suits(f)
  <2>1. b.fields[f] = IF Omitted(Kind[f], req[f]) THEN Absent ELSE MarshalJSON(req[f])
    BY DEF UpdateBody, Encode
  <2>2. w[f] = Meaning(Kind[f], req[f])
    BY DEF UpdateMeans, Items
  <2>3. Kind[f] \in {"plain", "pointer", "null", "node"}
    OBVIOUS
  <2>4. Kind[f] = "node" /\ ~Omitted(Kind[f], req[f]) => MarshalJSON(req[f]) # Zero
    BY DEF Encodable
  <2>6. CASE req[f] = Nil
    BY <2>1, <2>2, <2>3, <2>6, <1>2
       DEF Nil, Omitted, Meaning, GoValues, ItemWords, KeepsAll
  <2>7. CASE req[f] = Clear
    <3>1. Kind[f] \in {"null", "node"}
      BY <1>2, <2>7 DEF GoValues
    <3>2. b.fields[f] = JSONNull /\ w[f] = JSONNull
      BY <2>1, <2>2, <2>7, <3>1 DEF Clear, Omitted, Meaning, MarshalJSON
    <3>3. req[f] # KeepsAll[f]
      BY <2>7, <3>1 DEF KeepsAll, Clear, Nil
    <3> QED BY <3>1, <3>2, <3>3, <1>2 DEF Stored, ItemWords
  <2>8. ASSUME NEW v \in Values \union {Zero}, req[f] = Plain(v) PROVE Suits(f)
    <3>1. /\ b.fields[f] = IF Kind[f] = "plain" /\ v = Zero THEN Absent ELSE v
          /\ w[f] = IF Kind[f] = "plain" /\ v = Zero THEN "keep"
                    ELSE IF Kind[f] = "null" /\ v = Zero THEN JSONNull ELSE v
      BY <2>1, <2>2, <2>3, <2>8 DEF Plain, Omitted, Meaning, MarshalJSON
    <3>2. Kind[f] = "node" => v # Zero
      BY <2>3, <2>4, <2>8 DEF Plain, Omitted, MarshalJSON
    <3>3. w[f] # "keep" => req[f] # KeepsAll[f]
      BY <2>8, <3>1 DEF KeepsAll, Plain, Nil
    <3> QED BY <2>3, <3>1, <3>2, <3>3, <1>2 DEF Stored, ItemWords
  <2> QED BY <1>2, <2>6, <2>7, <2>8 DEF GoField
<1>6. ASSUME NEW i \in Members
      PROVE  /\ w[i] \in ItemWords
             /\ w[i] # "keep" => i \in team.mine[c[1]]
             /\ \A m \in SUBSET Members :
                   InOrOut(i, Apply(b, m)) = IF w[i] = "keep" THEN InOrOut(i, m) ELSE w[i]
  <2>1. w[i] = IF criteria = {} THEN "keep" ELSE InOrOut(i, UNION criteria)
    BY DEF UpdateMeans, Items
  <2>2. /\ b.whole = (criteria # {}) /\ b.list = UNION criteria
        /\ b.add = {} /\ b.remove = {}
    BY DEF UpdateBody
  <2> QED BY <1>3, <2>1, <2>2 DEF InOrOut, Apply, ItemWords
<1>7. b \in BodyType
  BY <1>4, <1>5 DEF UpdateBody, Encode, BodyType
<1>8. w \in [Items -> ItemWords]
  BY <1>5, <1>6 DEF UpdateMeans, Items
<1>9. b.whole => Members \subseteq team.mine[c[1]]
  BY <1>3 DEF UpdateBody
<1>10. Does(b, w)
  BY <1>5, <1>6 DEF Does
<1> HIDE DEF b, w
<1>11. Proper(c, b, w)
  BY <1>5, <1>6, <1>7, <1>8, <1>9, <1>10 DEF Proper, Items
<1> QED BY <1>11 DEF b, w

LEMMA ReplacesAreProper ==
    ASSUME NEW c \in Calls, team \in Teams, team.role[c[1]] = "replacer",
           NEW slice \in Slices
    PROVE  Proper(c, ReplaceBody(slice), ReplaceMeans(slice))
<1> USE FieldsAssumption, ValuesAssumption DEF Misfit
<1> DEFINE ids == UNION slice
<1>0. ids \subseteq Members /\ UNION Entries(slice) = ids /\ Entries(slice) # {}
  BY DEF Slices, Entries
<1> HIDE DEF ids
<1>5. ReplaceBody(slice) = [fields |-> NoFields, whole |-> TRUE, list |-> ids,
                            add |-> {}, remove |-> {}]
  BY <1>0 DEF ReplaceBody
<1>6. ReplaceMeans(slice) = [i \in Items |-> IF i \in Fields THEN "keep" ELSE InOrOut(i, ids)]
  BY DEF ReplaceMeans, ids
<1>1. c[1] \in Callers /\ Members \subseteq team.mine[c[1]]
  BY CallPair, TeamsAssumption
<1>2. ReplaceBody(slice) \in BodyType
  BY <1>0, <1>5 DEF BodyType, NoFields
<1>3. ReplaceMeans(slice) \in [Items -> ItemWords]
  BY <1>6 DEF ItemWords, InOrOut
<1>4. Does(ReplaceBody(slice), ReplaceMeans(slice))
  BY <1>0, <1>5, <1>6 DEF Does, NoFields, Items, Apply, InOrOut
<1> QED BY <1>0, <1>1, <1>2, <1>3, <1>4, <1>5, <1>6 DEF Proper, NoFields, Items

LEMMA PatchesAreProper ==
    ASSUME NEW c \in Calls, team \in Teams,
           NEW add \in SUBSET (Members \cap team.mine[c[1]]),
           NEW remove \in SUBSET (Members \cap team.mine[c[1]])
    PROVE  Proper(c, PatchBody(add, remove), PatchMeans(add, remove))
<1> USE FieldsAssumption, ValuesAssumption DEF Misfit
<1>1. PatchBody(add, remove) \in BodyType
  BY DEF PatchBody, BodyType, NoFields
<1>2. PatchMeans(add, remove) \in [Items -> ItemWords]
  BY DEF PatchMeans, ItemWords, InOrOut
<1>3. Does(PatchBody(add, remove), PatchMeans(add, remove))
  BY DEF Does, PatchBody, PatchMeans, NoFields, Items, Apply, InOrOut
<1> QED BY <1>1, <1>2, <1>3 DEF Proper, PatchBody, PatchMeans, NoFields, Items

-----------------------------------------------------------------------------
LEMMA InitIInv == Init => IInv
<1> SUFFICES ASSUME Init PROVE IInv
  OBVIOUS
<1> USE FieldsAssumption, ValuesAssumption
<1>1. /\ verdict = [c \in Calls |-> "idle"] /\ history = <<>>
      /\ object = Created /\ members = {} /\ team \in Teams
      /\ body = [c \in Calls |-> NoBody] /\ want = [c \in Calls |-> KeepsEverything]
  BY DEF Init, Contract!Init
<1>2. \A c \in Calls : Proper(c, NoBody, KeepsEverything)
  BY <1>1, PatchesAreProper DEF NoBody, KeepsEverything, PatchBody
<1>3. NoBody \in BodyType /\ KeepsEverything \in [Items -> ItemWords]
  BY DEF NoBody, NoFields, BodyType, KeepsEverything, PatchMeans, ItemWords
<1>4. BodyInv
  BY <1>1, <1>2 DEF BodyInv
<1>5. ObjectInv
  BY <1>1 DEF ObjectInv, Created, Misfit
<1>6. history \in Seq(Calls) /\ DOMAIN history = {}
  BY <1>1
<1>7. ContractInv
  BY <1>1, <1>6 DEF ContractInv
<1>8. OrderInv
  BY <1>1 DEF OrderInv
<1>9. HeldInv
  BY <1>1, <1>6 DEF HeldInv, Held, InOrOut, Items
<1> QED BY <1>1, <1>3, <1>4, <1>5, <1>7, <1>8, <1>9 DEF IInv

(* A call begins with a body that does what it means.                      *)
LEMMA CallStep ==
    ASSUME IInv, NEW c \in Calls, NEW b, NEW w,
           Proper(c, b, w), Call(c, b, w), \A n \in 1 .. c[2] - 1 : Returned(<<c[1], n>>)
    PROVE  IInv'
<1>1. /\ verdict[c] = "idle" /\ verdict' = [verdict EXCEPT ![c] = "pending"]
      /\ body' = [body EXCEPT ![c] = b] /\ want' = [want EXCEPT ![c] = w]
      /\ UNCHANGED <<history, object, members, team>>
  BY DEF Call, Contract!Begin
<1>2. team' \in Teams /\ body' \in [Calls -> BodyType]
      /\ want' \in [Calls -> [Items -> ItemWords]]
  BY <1>1 DEF IInv, Proper
<1>3. BodyInv'
  BY <1>1 DEF IInv, BodyInv, Proper
<1>4. ObjectInv'
  BY <1>1 DEF IInv, ObjectInv
<1>5. ContractInv'
  BY <1>1 DEF IInv, ContractInv
<1>6. \A p \in DOMAIN history : history[p] \in Calls /\ history[p] # c
  BY <1>1 DEF IInv, ContractInv
<1>7. HeldInv'
  <2>1. \A p \in DOMAIN history : want'[history'[p]] = want[history[p]]
    BY <1>1, <1>6 DEF IInv
  <2>2. \A i \in Items : Held(i)' = Held(i)
    BY <1>1 DEF Held, InOrOut
  <2> QED BY <1>1, <2>1, <2>2 DEF IInv, HeldInv, Silent
<1>8. OrderInv'
  <2> SUFFICES ASSUME NEW d \in Calls, NEW e \in Calls, d[1] = e[1], d[2] < e[2]
               PROVE  /\ verdict'[e] # "idle" => Returned(d)'
                      /\ verdict'[d] = "done" =>
                            \A p, q \in DOMAIN history' :
                                history'[p] = d /\ history'[q] = e => p < q
    BY DEF OrderInv
  <2>1. e # c => d # c \/ verdict[e] = "idle"
    BY <1>1 DEF IInv, OrderInv, Returned, ContractInv
  <2>2. e = c => Returned(d)
    <3>1. e = c => d = <<c[1], d[2]>> /\ d[2] \in 1 .. c[2] - 1
      BY CallPair DEF Calls
    <3> QED BY <3>1
  <2>3. d = c => verdict'[d] = "pending"
    BY <1>1 DEF IInv, ContractInv
  <2>4. d # c => verdict'[d] = verdict[d]
    BY <1>1 DEF IInv, ContractInv
  <2>5. e # c => verdict'[e] = verdict[e]
    BY <1>1 DEF IInv, ContractInv
  <2>6. e # d
    BY CallPair DEF Calls
  <2>7. /\ verdict[e] # "idle" => Returned(d)
        /\ verdict[d] = "done" =>
              \A p, q \in DOMAIN history : history[p] = d /\ history[q] = e => p < q
    BY DEF IInv, OrderInv
  <2> QED BY <1>1, <2>1, <2>2, <2>3, <2>4, <2>5, <2>6, <2>7 DEF Returned
<1> QED BY <1>2, <1>3, <1>4, <1>5, <1>7, <1>8 DEF IInv

(* The API processes a call.                                               *)
LEMMA ProcessStep ==
    ASSUME IInv, NEW c \in Calls, Process(c)
    PROVE  IInv'
<1> USE FieldsAssumption, ValuesAssumption
<1>1. /\ verdict[c] \in {"pending", "unknown"} /\ history' = Append(history, c)
      /\ c \notin {history[p] : p \in DOMAIN history}
      /\ object' = Merge(body[c], object) /\ members' = Apply(body[c], members)
      /\ UNCHANGED <<verdict, body, want, team>>
  BY DEF Process, Contract!TakeEffect, Contract!Effective
<1>2. history \in Seq(Calls) /\ Len(history) \in Nat /\ DOMAIN history = 1 .. Len(history)
  BY DEF IInv, ContractInv
<1>3. /\ history' \in Seq(Calls)
      /\ DOMAIN history' = 1 .. Len(history) + 1
      /\ history'[Len(history) + 1] = c
      /\ \A p \in DOMAIN history : history'[p] = history[p]
  BY <1>1, <1>2
<1>4. /\ body[c] \in BodyType /\ want[c] \in [Items -> ItemWords]
      /\ Proper(c, body[c], want[c])
  BY DEF IInv, BodyInv
<1>5. BodyInv'
  BY <1>1 DEF IInv, BodyInv, Proper
<1>6. ObjectInv'
  <2>1. members' \subseteq Members
    BY <1>1, <1>4 DEF IInv, ObjectInv, Apply, BodyType
  <2>2. ASSUME NEW f \in Fields
        PROVE  object'[f] \in Values \union {Zero, JSONNull} /\ object'[f] # Misfit(f)
    <3>1. object'[f] = IF body[c].fields[f] = Absent THEN object[f]
                       ELSE Stored(Kind[f], body[c].fields[f])
      BY <1>1 DEF Merge
    <3>2. body[c].fields[f] \in Values \union {Zero, JSONNull, Absent}
      BY <1>4 DEF BodyType
    <3>3. body[c].fields[f] # Absent => Stored(Kind[f], body[c].fields[f]) # Misfit(f)
      BY <1>4 DEF Proper
    <3> QED BY <3>1, <3>2, <3>3 DEF IInv, ObjectInv, Stored
  <2>3. object' \in [Fields -> Values \union {Zero, JSONNull}]
    BY <1>1, <2>2 DEF Merge
  <2> QED BY <2>1, <2>2, <2>3 DEF ObjectInv, Misfit
<1>7. ContractInv'
  <2>1. \A p \in DOMAIN history' : verdict'[history'[p]] \in {"pending", "done", "unknown"}
    BY <1>1, <1>2, <1>3 DEF IInv, ContractInv
  <2>2. \A d \in Calls : verdict'[d] = "done" => \E p \in DOMAIN history' : history'[p] = d
    <3> SUFFICES ASSUME NEW d \in Calls, verdict'[d] = "done"
                 PROVE  \E p \in DOMAIN history' : history'[p] = d
      OBVIOUS
    <3>1. PICK p \in DOMAIN history : history[p] = d
      BY <1>1 DEF IInv, ContractInv
    <3> QED BY <3>1, <1>2, <1>3
  <2> QED BY <1>1, <1>3, <2>1, <2>2 DEF IInv, ContractInv
<1>8. OrderInv'
  <2> SUFFICES ASSUME NEW d \in Calls, NEW e \in Calls, d[1] = e[1], d[2] < e[2],
                      verdict[d] = "done",
                      NEW p \in DOMAIN history', NEW q \in DOMAIN history',
                      history'[p] = d, history'[q] = e
               PROVE  p < q
    BY <1>1 DEF IInv, OrderInv, Returned
  <2>1. p \in DOMAIN history
    BY <1>1, <1>2, <1>3
  <2>2. CASE q \in DOMAIN history
    BY <1>3, <2>1, <2>2 DEF IInv, OrderInv
  <2>3. CASE q = Len(history) + 1
    BY <1>2, <2>1, <2>3
  <2> QED BY <1>2, <1>3, <2>2, <2>3
<1>9. HeldInv'
  <2> SUFFICES ASSUME NEW i \in Items
               PROVE  \/ /\ \A p \in DOMAIN history' : want'[history'[p]][i] = "keep"
                         /\ Held(i)' = IF i \in Fields THEN Created[i] ELSE "out"
                      \/ \E p \in DOMAIN history' :
                            /\ want'[history'[p]][i] # "keep"
                            /\ Held(i)' = want'[history'[p]][i]
                            /\ \A q \in DOMAIN history' : q > p => want'[history'[q]][i] = "keep"
    BY DEF HeldInv, Silent
  <2> DEFINE SilentNow(p) == want'[history'[p]][i] = "keep"
  <2>1. Held(i)' = IF want[c][i] = "keep" THEN Held(i) ELSE want[c][i]
    <3>1. CASE i \in Fields
      BY <1>1, <1>4, <3>1 DEF Held, Merge, Proper, Does
    <3>2. CASE i \notin Fields
      BY <1>1, <1>4, <3>2 DEF Held, Proper, Does, Items, IInv, ObjectInv
    <3> QED BY <3>1, <3>2
  <2>2. \A p \in DOMAIN history : SilentNow(p) <=> Silent(p, i)
    BY <1>1, <1>3 DEF Silent
  <2>3. SilentNow(Len(history) + 1) <=> (want[c][i] = "keep")
    BY <1>1, <1>3
  <2>4. CASE want[c][i] # "keep"
    <3>1. \A q \in DOMAIN history' : ~(q > Len(history) + 1)
      BY <1>2, <1>3
    <3>2. Len(history) + 1 \in DOMAIN history'
      BY <1>2, <1>3
    <3> QED BY <1>1, <1>3, <2>1, <2>3, <2>4, <3>1, <3>2
  <2>5. CASE want[c][i] = "keep" /\ \A p \in DOMAIN history : Silent(p, i)
    <3>1. Held(i) = IF i \in Fields THEN Created[i] ELSE "out"
      BY <2>5 DEF IInv, HeldInv
    <3>2. \A p \in DOMAIN history' : SilentNow(p)
      BY <1>2, <1>3, <2>2, <2>3, <2>5 DEF Silent
    <3> QED BY <2>1, <2>5, <3>1, <3>2
  <2>6. CASE want[c][i] = "keep" /\ ~\A p \in DOMAIN history : Silent(p, i)
    <3>1. PICK p \in DOMAIN history : /\ ~Silent(p, i)
                                      /\ Held(i) = want[history[p]][i]
                                      /\ \A q \in DOMAIN history : q > p => Silent(q, i)
      BY <2>6 DEF IInv, HeldInv
    <3>2. p \in DOMAIN history' /\ ~SilentNow(p) /\ Held(i)' = want'[history'[p]][i]
      BY <1>1, <1>2, <1>3, <2>1, <2>2, <2>6, <3>1 DEF Silent
    <3>3. \A q \in DOMAIN history' : q > p => SilentNow(q)
      BY <1>2, <1>3, <2>2, <2>3, <2>6, <3>1 DEF Silent
    <3> QED BY <3>2, <3>3
  <2> QED BY <2>4, <2>5, <2>6
<1> QED BY <1>1, <1>5, <1>6, <1>7, <1>8, <1>9 DEF IInv

(* A call comes back, or fails before it is sent.                          *)
LEMMA ReturnStep ==
    ASSUME IInv, NEW c \in Calls, NEW v \in {"done", "refused", "unknown"},
           verdict' = [verdict EXCEPT ![c] = v],
           UNCHANGED <<history, state>>,
           verdict[c] \in {"idle", "pending"},
           verdict[c] = "idle" => \A n \in 1 .. c[2] - 1 : Returned(<<c[1], n>>),
           v = "done" => verdict[c] = "pending" /\ \E p \in DOMAIN history : history[p] = c,
           v = "refused" => \A p \in DOMAIN history : history[p] # c,
           verdict[c] = "idle" => v = "refused"
    PROVE  IInv'
<1>1. UNCHANGED <<history, object, members, body, want, team>>
  BY DEF state
<1>2. /\ \A d \in Calls : verdict'[d] = IF d = c THEN v ELSE verdict[d]
      /\ verdict' \in [Calls -> {"idle", "pending", "done", "refused", "unknown"}]
  BY DEF IInv, ContractInv
<1>3. BodyInv' /\ ObjectInv'
  BY <1>1 DEF IInv, BodyInv, ObjectInv, Proper, Misfit
<1>4. ContractInv'
  <2>1. \A p \in DOMAIN history : history[p] \in Calls
    BY DEF IInv, ContractInv
  <2>2. \A p \in DOMAIN history : verdict'[history[p]] \in {"pending", "done", "unknown"}
    BY <1>2, <2>1 DEF IInv, ContractInv
  <2> QED BY <1>1, <1>2, <2>2 DEF IInv, ContractInv
<1>5. HeldInv'
  BY <1>1 DEF IInv, HeldInv, Silent, Held, InOrOut
<1>6. OrderInv'
  <2> SUFFICES ASSUME NEW d \in Calls, NEW e \in Calls, d[1] = e[1], d[2] < e[2]
               PROVE  /\ verdict'[e] # "idle" => Returned(d)'
                      /\ verdict'[d] = "done" =>
                            \A p, q \in DOMAIN history' :
                                history'[p] = d /\ history'[q] = e => p < q
    BY DEF OrderInv
  <2>1. /\ verdict[e] # "idle" => Returned(d)
        /\ verdict[d] = "done" =>
              \A p, q \in DOMAIN history : history[p] = d /\ history[q] = e => p < q
    BY DEF IInv, OrderInv
  <2>2. e = c /\ verdict[c] = "idle" => Returned(d)
    <3>1. e = c => d = <<c[1], d[2]>> /\ d[2] \in 1 .. c[2] - 1
      BY CallPair DEF Calls
    <3> QED BY <3>1
  <2>3. Returned(d) => Returned(d)'
    BY <1>2 DEF Returned
  <2>4. Returned(c)'
    BY <1>2 DEF Returned
  <2>5. d = c => verdict[e] = "idle"
    BY <2>1 DEF Returned
  <2>6. verdict[e] = "idle" => \A q \in DOMAIN history : history[q] # e
    BY DEF IInv, ContractInv
  <2> QED BY <1>1, <1>2, <2>1, <2>2, <2>3, <2>4, <2>5, <2>6
<1> QED BY <1>1, <1>3, <1>4, <1>5, <1>6 DEF IInv

LEMMA NextIInv == IInv /\ [Next]_vars => IInv'
<1> SUFFICES ASSUME IInv, [Next]_vars PROVE IInv'
  OBVIOUS
<1> USE FieldsAssumption, ValuesAssumption
<1>0. team \in Teams
  BY DEF IInv
<1>1. ASSUME NEW c \in Calls, Update(c) PROVE IInv'
  <2>1. PICK req \in Requests(c[1]), criteria \in Criteria(c[1]) :
            Encodable(req) /\ Call(c, UpdateBody(req, criteria), UpdateMeans(req, criteria))
    BY <1>1 DEF Update
  <2> QED BY <1>0, <1>1, <2>1, UpdatesAreProper, CallStep DEF Update, Turn
<1>2. ASSUME NEW c \in Calls, UpdateRejected(c) PROVE IInv'
  <2>1. /\ verdict' = [verdict EXCEPT ![c] = "refused"] /\ UNCHANGED <<history, state>>
        /\ verdict[c] = "idle" /\ \A n \in 1 .. c[2] - 1 : Returned(<<c[1], n>>)
    BY <1>2 DEF UpdateRejected, Turn
  <2>2. \A p \in DOMAIN history : history[p] # c
    BY <2>1 DEF IInv, ContractInv
  <2> QED BY <2>1, <2>2, ReturnStep
<1>3. ASSUME NEW c \in Calls, NEW v \in {Zero, True}, SetSwitch(c, v) PROVE IInv'
  <2> DEFINE req == [KeepsAll EXCEPT ![Switch] = Plain(v)]
  <2>1. /\ Turn(c, "switcher")
        /\ Call(c, UpdateBody(req, {}), UpdateMeans(req, {}))
    BY <1>3 DEF SetSwitch
  <2>2. Switch \in team.mine[c[1]]
    BY <1>0, <2>1, CallPair, TeamsAssumption DEF Turn
  <2>3. \A f \in Fields : KeepsAll[f] \in GoField /\ KeepsAll[f] \in GoValues(Kind[f])
    BY DEF KeepsAll, GoField, GoValues, Plain, Nil, Clear
  <2>4. Plain(v) \in GoField /\ Plain(v) \in GoValues("pointer")
    BY DEF GoField, GoValues, Plain, Nil, Clear
  <2>5. req \in Requests(c[1])
    <3> DEFINE mine == team.mine[c[1]] \cap Fields
               g == [f \in mine |-> req[f]]
    <3>1. \A f \in Fields : req[f] = IF f = Switch THEN Plain(v) ELSE KeepsAll[f]
      BY DEF KeepsAll
    <3>2. g \in [mine -> GoField] /\ \A f \in mine : g[f] \in GoValues(Kind[f])
      BY <2>3, <2>4, <3>1
    <3>3. req = [f \in Fields |-> IF f \in mine THEN g[f] ELSE KeepsAll[f]]
      BY <2>2, <3>1 DEF KeepsAll
    <3> QED BY <3>2, <3>3 DEF Requests
  <2>6. Encodable(req)
    BY DEF Encodable, KeepsAll, Omitted, Nil
  <2>7. {} \in Criteria(c[1])
    BY DEF Criteria, Slices
  <2> HIDE DEF req
  <2>8. Proper(c, UpdateBody(req, {}), UpdateMeans(req, {}))
    BY <1>0, <2>5, <2>6, <2>7, UpdatesAreProper
  <2> QED BY <2>1, <2>8, CallStep DEF Turn
<1>4. ASSUME NEW c \in Calls, ReplaceAll(c) PROVE IInv'
  <2>1. PICK slice \in Slices : Call(c, ReplaceBody(slice), ReplaceMeans(slice))
    BY <1>4 DEF ReplaceAll
  <2> QED BY <1>0, <1>4, <2>1, ReplacesAreProper, CallStep DEF ReplaceAll, Turn
<1>5. ASSUME NEW c \in Calls, Patch(c) PROVE IInv'
  <2>1. PICK add, remove \in SUBSET (Members \cap team.mine[c[1]]) :
            Call(c, PatchBody(add, remove), PatchMeans(add, remove))
    BY <1>5 DEF Patch
  <2> QED BY <1>0, <1>5, <2>1, PatchesAreProper, CallStep DEF Patch, Turn
<1>6. ASSUME NEW c \in Calls, Process(c) PROVE IInv'
  BY <1>6, ProcessStep
<1>7. ASSUME NEW c \in Calls, Answer(c) PROVE IInv'
  <2>1. PICK v \in {"done", "refused", "unknown"} : Contract!End(c, v) /\ UNCHANGED state
    BY <1>7 DEF Answer
  <2> QED BY <2>1, ReturnStep DEF Contract!End, Contract!Effective
<1>8. CASE UNCHANGED vars
  BY <1>8 DEF vars, state, IInv, BodyInv, Proper, ObjectInv, ContractInv, OrderInv, HeldInv,
              Returned, Silent, Held, InOrOut
<1> QED BY <1>1, <1>2, <1>3, <1>4, <1>5, <1>6, <1>7, <1>8
        DEF Next, Enable, Disable, Finished

LEMMA LastWordFollows == IInv => LastWordStands
<1> SUFFICES ASSUME IInv, NEW k \in Callers, NEW i \in team.mine[k],
                    NEW last \in {n \in 1 .. MaxCalls : /\ want[<<k, n>>][i] # "keep"
                                                        /\ verdict[<<k, n>>] = "done"} \union {0},
                    \A n \in 1 .. MaxCalls :
                        want[<<k, n>>][i] # "keep" /\ verdict[<<k, n>>] = "done" => n <= last,
                    \A n \in 1 .. MaxCalls :
                        want[<<k, n>>][i] # "keep" /\ verdict[<<k, n>>] \in {"pending", "unknown"}
                            => Word(k, n, i) = Word(k, last, i)
             PROVE  Held(i) = Word(k, last, i)
  BY DEF LastWordStands
<1>1. i \in Items /\ team \in Teams
  BY TeamsAssumption DEF IInv
<1>2. history \in Seq(Calls)
  BY DEF IInv, ContractInv
<1>3. last # 0 => /\ <<k, last>> \in Calls
                  /\ \E q \in DOMAIN history : history[q] = <<k, last>>
  BY DEF IInv, ContractInv, Calls
<1>4. CASE \A p \in DOMAIN history : Silent(p, i)
  <2>1. last = 0
    BY <1>3, <1>4 DEF Silent
  <2>2. Held(i) = IF i \in Fields THEN Created[i] ELSE "out"
    BY <1>1, <1>4 DEF IInv, HeldInv
  <2> QED BY <2>1, <2>2 DEF Word
<1>5. CASE ~\A p \in DOMAIN history : Silent(p, i)
  <2>1. PICK p \in DOMAIN history : /\ ~Silent(p, i)
                                    /\ Held(i) = want[history[p]][i]
                                    /\ \A q \in DOMAIN history : q > p => Silent(q, i)
    BY <1>1, <1>5 DEF IInv, HeldInv
  <2> DEFINE d == history[p]
             n == d[2]
  <2>2. d \in Calls /\ d = <<d[1], n>> /\ d[1] \in Callers /\ n \in 1 .. MaxCalls
    BY <1>2, CallPair
  <2>3. want[d][i] # "keep" /\ i \in team.mine[d[1]]
    BY <1>1, <2>1, <2>2 DEF Silent, IInv, BodyInv, Proper
  <2>4. d[1] = k
    BY <1>1, <2>2, <2>3, TeamsAssumption
  <2>5. verdict[d] \in {"pending", "done", "unknown"}
    BY DEF IInv, ContractInv
  <2>6. d = <<k, n>> /\ Held(i) = Word(k, n, i)
    BY <2>1, <2>2, <2>4 DEF Word
  <2>7. CASE verdict[d] # "done"
    BY <2>2, <2>3, <2>5, <2>6, <2>7
  <2>8. CASE verdict[d] = "done"
    <3>1. n <= last
      BY <2>2, <2>3, <2>6, <2>8
    <3>2. n = last \/ (n < last /\ last # 0)
      BY <2>2, <3>1, BoundAssumption
    <3>3. ASSUME n < last, last # 0 PROVE FALSE
      <4>1. PICK q \in DOMAIN history : history[q] = <<k, last>>
        BY <1>3, <3>3
      <4>2. <<k, last>>[1] = d[1] /\ d[2] < <<k, last>>[2]
        BY <2>4, <3>3
      <4>3. p < q
        BY <1>3, <2>2, <2>8, <3>3, <4>1, <4>2 DEF IInv, OrderInv
      <4>4. Silent(q, i)
        BY <1>2, <2>1, <4>3
      <4> QED BY <3>3, <4>1, <4>4 DEF Silent
    <3> QED BY <2>6, <3>2, <3>3
  <2> QED BY <2>7, <2>8
<1> QED BY <1>4, <1>5

LEMMA Invariance == Spec => []IInv
BY InitIInv, NextIInv, PTL DEF Spec

(* Every variable has its type; only a caller that looks after the whole   *)
(* member list replaces it; no field holds what it cannot.                 *)
THEOREM TypeCorrect == Spec => []TypeOK
<1>1. IInv => TypeOK
  BY DEF IInv, BodyInv, Proper, ObjectInv, ContractInv, TypeOK, BodyType, ItemWords
<1> QED BY <1>1, Invariance, PTL

(* What a caller looks after is as its last successful call meant it, for  *)
(* any number of callers, calls, fields and members (LastWordStands).      *)
THEOREM LastWordsStand == Spec => []LastWordStands
BY Invariance, LastWordFollows, PTL
=============================================================================
