-------------------------- MODULE FieldCheckProofs --------------------------
(***************************************************************************)
(* What a verdict of FieldCheck means for every list of nodes, with any    *)
(* number of fields and values.                                            *)
(***************************************************************************)
EXTENDS FieldCheck, TLAPS

\* The first k values of a field are shown, as far as the step compares them.
ShownUpTo(fld, k) ==
  \A j \in DOMAIN fld.saved :
    j <= k /\ ~Empty(fld.saved[j]) => fld.saved[j] \in NonEmpty(fld.shown)

\* The field g of node m is behind the loop.
Behind(m, g) == m < n \/ (m = n /\ g < f)

PositionOk ==
  /\ n \in 1..(Len(nodes) + 1) /\ f \in Nat /\ i \in Nat
  /\ f > 0 => n <= Len(nodes) /\ f <= Len(Node.fields) + 1
  /\ i > 0 => /\ f > 0 /\ f <= Len(Node.fields)
              /\ i <= Len(Field.saved) + 1
              /\ final = Selected(Field) /\ final # Nothing

BehindOk ==
  \A m \in DOMAIN nodes : \A g \in DOMAIN nodes[m].fields :
    Behind(m, g) /\ nodes[m].fields[g].kind # "other" => Shows(nodes[m].fields[g])

HereOk == i > 0 /\ Field.kind # "other" => ShownUpTo(Field, i - 1)

Inv ==
  /\ TypeOK /\ nodes \in Seq(NodeType)
  /\ verdict = "running" => PositionOk /\ BehindOk /\ HereOk
  /\ PassedValuesAreShown /\ FailureIsReal

\* A field on which the loops stand has its type.
LEMMA FieldHasType ==
  ASSUME nodes \in Seq(NodeType), n \in 1..Len(nodes), f \in 1..Len(Node.fields)
  PROVE  /\ Node \in NodeType /\ Field \in FieldType
         /\ Field.saved \in Seq(Values) /\ Field.shown \in Seq(Values)
         /\ Len(Field.saved) > 0 /\ Len(Field.shown) > 0
<1>1. Node \in NodeType
  BY DEF Node
<1>2. Node.fields \in Seq(FieldType)
  BY <1>1 DEF NodeType
<1>3. Field \in FieldType
  BY <1>2 DEF Field
<1> QED
  BY <1>1, <1>3 DEF FieldType, Lists

-----------------------------------------------------------------------------
(* What a form gives for a field.                                          *)

\* What is not empty in the first input is not empty in the field.
LEMMA FirstShown ==
  ASSUME NEW list \in Seq(Values), Len(list) > 0
  PROVE  /\ NonEmpty(<<list[1]>>) = {list[1]} \ {0}
         /\ NonEmpty(<<list[1]>>) \subseteq NonEmpty(list)
         /\ NonEmpty(list) \subseteq Values
<1>1. 1 \in DOMAIN list
  OBVIOUS
<1>2. DOMAIN <<list[1]>> = {1} /\ <<list[1]>>[1] = list[1]
  OBVIOUS
<1>3. NonEmpty(<<list[1]>>) = {list[1]} \ {0}
  BY <1>2 DEF NonEmpty, Empty
<1>4. NonEmpty(<<list[1]>>) \subseteq NonEmpty(list)
  BY <1>1, <1>3 DEF NonEmpty, Empty
<1>5. NonEmpty(list) \subseteq Values
  BY DEF NonEmpty
<1> QED
  BY <1>3, <1>4, <1>5

LEMMA SelectedFacts ==
  ASSUME NEW fld \in FieldType
  PROVE  LET sel == Selected(fld) IN
         /\ sel.form \in {"exception", "string", "flat", "nested"}
         /\ sel.vals \subseteq Values
         /\ sel.vals \subseteq NonEmpty(fld.shown)
         /\ sel # Nothing => /\ sel.form = "string" <=> fld.widget \in Scalar
                             /\ sel.form = "flat" <=> fld.widget = "multi"
                             /\ sel.form = "nested" <=> fld.widget = "boxes"
         /\ fld.widget # "box" =>
              sel.vals = IF fld.widget \in Scalar THEN {fld.shown[1]} \ {0}
                         ELSE NonEmpty(fld.shown)
         /\ fld.widget = "box" => sel = Nothing
<1> DEFINE sel == Selected(fld)
           first == NonEmpty(<<fld.shown[1]>>)
           all == NonEmpty(fld.shown)
<1>1. fld.shown \in Seq(Values) /\ Len(fld.shown) > 0 /\ fld.widget \in Widget
  BY DEF FieldType, Lists
<1>2. /\ first = {fld.shown[1]} \ {0}
      /\ first \subseteq all
      /\ all \subseteq Values
  BY <1>1, FirstShown
<1>3. CASE fld.widget \in Scalar
  <2>1. CASE first = {}
    <3>1. sel = Nothing
      BY <1>3, <2>1 DEF Selected, Scalar
    <3> QED
      BY <3>1, <2>1, <1>2, <1>3 DEF Nothing
  <2>2. CASE first # {}
    <3>1. sel = [vals |-> first \cup {}, form |-> "string"]
      BY <1>3, <2>2 DEF Selected, Scalar
    <3> QED
      BY <3>1, <1>2, <1>3 DEF Nothing, Scalar
  <2> QED
    BY <2>1, <2>2
<1>4. CASE fld.widget \in {"multi", "boxes"}
  <2>1. CASE all = {}
    <3>1. sel = Nothing
      BY <1>4, <2>1 DEF Selected, Scalar
    <3> QED
      BY <3>1, <2>1, <1>4 DEF Nothing, Scalar
  <2>2. CASE all # {}
    <3>1. sel = [vals |-> {} \cup all,
                 form |-> IF fld.widget = "multi" THEN "flat" ELSE "nested"]
      BY <1>1, <1>4, <2>2 DEF Selected, Scalar, Widget
    <3>2. fld.widget \in {"multi", "boxes"}
      BY <1>1, <1>4 DEF Scalar, Widget
    <3> QED
      BY <3>1, <3>2, <1>2, <1>4 DEF Nothing, Scalar
  <2> QED
    BY <2>1, <2>2
<1>5. CASE fld.widget = "box"
  <2>1. sel = Nothing
    BY <1>5 DEF Selected, Scalar
  <2> QED
    BY <1>5, <2>1 DEF Nothing
<1> QED
  BY <1>1, <1>3, <1>4, <1>5 DEF Scalar, Widget

\* A suited field of which the form gives nothing does not show what was saved.
LEMMA NothingShown ==
  ASSUME NEW fld \in FieldType, Suited(fld), Selected(fld) = Nothing
  PROVE  IF fld.widget \in Scalar THEN fld.shown[1] # fld.saved[1] ELSE ~Shows(fld)
<1>1. fld.saved \in Seq(Values) /\ Len(fld.saved) > 0 /\ 1 \in DOMAIN fld.saved
  BY DEF FieldType, Lists
<1>2. fld.saved[1] # 0
  BY <1>1 DEF Suited, Empty
<1>3. Selected(fld).vals = {}
  BY DEF Nothing
<1>4. fld.saved[1] \in NonEmpty(fld.saved)
  BY <1>1, <1>2 DEF NonEmpty, Empty
<1> QED
  BY <1>2, <1>3, <1>4, SelectedFacts DEF Shows, Suited, Scalar

-----------------------------------------------------------------------------
(* The steps.                                                              *)

LEMMA InitInv == Init => Inv
<1> SUFFICES ASSUME Init PROVE Inv
  OBVIOUS
<1> USE DEF Init
<1>1. nodes \in Seq(NodeType)
  BY NodeAssumption
<1>2. TypeOK
  BY <1>1 DEF TypeOK, Nothing
<1>3. PositionOk
  BY <1>1 DEF PositionOk
<1>4. BehindOk
  <2> SUFFICES ASSUME NEW m \in DOMAIN nodes, NEW g \in DOMAIN nodes[m].fields
               PROVE  ~Behind(m, g)
    BY DEF BehindOk
  <2>1. m \in 1..Len(nodes) /\ nodes[m].fields \in Seq(FieldType)
    <3>1. nodes[m] \in NodeType
      BY <1>1
    <3> QED
      BY <1>1, <3>1 DEF NodeType
  <2> QED
    BY <2>1 DEF Behind
<1> QED
  BY <1>1, <1>2, <1>3, <1>4 DEF Inv, HereOk, PassedValuesAreShown, FailureIsReal

\* A list that is shown up to a value that is shown is shown one further.
LEMMA OneMore ==
  ASSUME NEW fld \in FieldType, NEW k \in DOMAIN fld.saved,
         ShownUpTo(fld, k - 1),
         Empty(fld.saved[k]) \/ fld.saved[k] \in NonEmpty(fld.shown)
  PROVE  ShownUpTo(fld, k)
<1>1. fld.saved \in Seq(Values)
  BY DEF FieldType, Lists
<1> SUFFICES ASSUME NEW j \in DOMAIN fld.saved, j <= k, ~Empty(fld.saved[j])
             PROVE  fld.saved[j] \in NonEmpty(fld.shown)
  BY DEF ShownUpTo
<1>2. j = k \/ j <= k - 1
  BY <1>1
<1> QED
  BY <1>2 DEF ShownUpTo

\* A field that is shown up to its last value is shown.
LEMMA AllShown ==
  ASSUME NEW fld \in FieldType, NEW k \in Nat, k >= Len(fld.saved), ShownUpTo(fld, k)
  PROVE  Shows(fld)
<1>1. fld.saved \in Seq(Values)
  BY DEF FieldType, Lists
<1>2. \A j \in DOMAIN fld.saved : j <= k
  BY <1>1
<1> QED
  BY <1>2 DEF Shows, ShownUpTo, NonEmpty

LEMMA NoNidInv == Inv /\ NoNid => Inv'
<1> SUFFICES ASSUME Inv, NoNid PROVE Inv'
  OBVIOUS
<1> USE DEF NoNid, Conclude, AtNode, Running
<1>1. TypeOK' /\ (nodes \in Seq(NodeType))'
  BY DEF Inv, TypeOK
<1>2. f' = 0 /\ verdict' = "failed"
  OBVIOUS
<1>3. FailureIsReal'
  <2> SUFFICES ASSUME n \in 1..Len(nodes), 0 \in DOMAIN Node.fields PROVE FALSE
    BY <1>2 DEF Inv, TypeOK, FailureIsReal, Node
  <2>1. Node \in NodeType
    BY DEF Node, Inv
  <2> QED
    BY <2>1 DEF NodeType
<1> QED
  BY <1>1, <1>2, <1>3 DEF Inv, PassedValuesAreShown

LEMMA VisitNodeInv == Inv /\ VisitNode => Inv'
<1> SUFFICES ASSUME Inv, VisitNode PROVE Inv'
  OBVIOUS
<1> USE DEF VisitNode, AtNode, Running
<1>1. TypeOK' /\ (nodes \in Seq(NodeType))'
  BY DEF Inv, TypeOK
<1>2. nodes' = nodes /\ n' = n /\ f = 0 /\ f' = 1 /\ i' = 0 /\ n \in 1..Len(nodes)
  BY DEF Inv, PositionOk, TypeOK
<1>3. PositionOk'
  <2>1. Node \in NodeType /\ Node' = Node
    BY <1>2 DEF Node, Inv
  <2> QED
    BY <1>2, <2>1 DEF PositionOk, NodeType
<1>4. BehindOk'
  <2>1. ASSUME NEW m \in DOMAIN nodes, NEW g \in DOMAIN nodes[m].fields, Behind(m, g)'
        PROVE  Behind(m, g)
    <3>1. nodes[m].fields \in Seq(FieldType)
      <4>1. nodes[m] \in NodeType
        BY DEF Inv
      <4> QED
        BY <4>1 DEF NodeType
    <3> QED
      BY <1>2, <2>1, <3>1 DEF Behind
  <2> QED
    BY <1>2, <2>1 DEF Inv, BehindOk
<1> QED
  BY <1>1, <1>2, <1>3, <1>4 DEF Inv, HereOk, PassedValuesAreShown, FailureIsReal

LEMMA NoFieldValueInv == Inv /\ NoFieldValue => Inv'
<1> SUFFICES ASSUME Inv, NoFieldValue PROVE Inv'
  OBVIOUS
<1> USE DEF NoFieldValue, Conclude, AtField, Running
<1>1. TypeOK' /\ (nodes \in Seq(NodeType))'
  BY DEF Inv, TypeOK
<1>2. n \in 1..Len(nodes) /\ f \in 1..Len(Node.fields)
  BY DEF Inv, PositionOk
<1>3. Field \in FieldType
  BY <1>2, FieldHasType DEF Inv
<1>4. FailureIsReal'
  <2>1. Node' = Node /\ Field' = Field
    BY DEF Node, Field
  <2> QED
    BY <1>3, <2>1, NothingShown DEF FailureIsReal
<1> QED
  BY <1>1, <1>4 DEF Inv, PassedValuesAreShown

LEMMA ReadFieldInv == Inv /\ ReadField => Inv'
<1> SUFFICES ASSUME Inv, ReadField PROVE Inv'
  OBVIOUS
<1> USE DEF ReadField, AtField, Running
<1>1. n \in 1..Len(nodes) /\ f \in 1..Len(Node.fields)
  BY DEF Inv, PositionOk
<1>2. Field \in FieldType /\ Len(Field.saved) > 0
  BY <1>1, FieldHasType DEF Inv
<1>3. Node' = Node /\ Field' = Field
  BY DEF Node, Field
<1>4. TypeOK' /\ (nodes \in Seq(NodeType))'
  BY <1>2, SelectedFacts DEF Inv, TypeOK
<1>5. PositionOk'
  <2>1. Selected(Field)' = Selected(Field)
    BY <1>3 DEF Field, Node
  <2> QED
    BY <1>1, <1>2, <1>3, <2>1 DEF Inv, PositionOk
<1>6. BehindOk'
  BY DEF Inv, BehindOk, Behind
<1>7. HereOk'
  <2>1. Field.saved \in Seq(Values)
    BY <1>2 DEF FieldType, Lists
  <2>2. ShownUpTo(Field, 0)
    BY <2>1 DEF ShownUpTo
  <2>3. ShownUpTo(Field, 0)'
    BY <2>2, <1>3 DEF ShownUpTo
  <2> QED
    BY <2>3 DEF HereOk
<1> QED
  BY <1>4, <1>5, <1>6, <1>7 DEF Inv, PassedValuesAreShown, FailureIsReal

\* What both comparisons have in common: they move on to the next value.
Moves == /\ AtValue
         /\ i' = i + 1
         /\ UNCHANGED <<nodes, n, f, final>>

LEMMA AtValueFacts ==
  ASSUME Inv, AtValue
  PROVE  /\ PositionOk /\ BehindOk /\ HereOk
         /\ n \in 1..Len(nodes) /\ f \in 1..Len(Node.fields)
         /\ i \in DOMAIN Field.saved /\ i \in 1..Len(Field.saved)
         /\ Field \in FieldType /\ Value \in Values
         /\ final = Selected(Field) /\ final # Nothing
         /\ final.vals \subseteq NonEmpty(Field.shown)
<1>1. PositionOk /\ BehindOk /\ HereOk
  BY DEF Inv, AtValue, Running
<1>2. n \in 1..Len(nodes) /\ f \in 1..Len(Node.fields)
  BY <1>1 DEF PositionOk, AtValue
<1>3. Field \in FieldType /\ Field.saved \in Seq(Values)
  BY <1>2, FieldHasType DEF Inv
<1>4. i \in 1..Len(Field.saved)
  BY <1>1, <1>3 DEF PositionOk, AtValue
<1>5. final = Selected(Field) /\ final # Nothing
  BY <1>1, <1>4 DEF PositionOk
<1>6. Value \in Values /\ i \in DOMAIN Field.saved
  BY <1>3, <1>4 DEF Value
<1>7. final.vals \subseteq NonEmpty(Field.shown)
  BY <1>3, <1>5, SelectedFacts
<1> QED
  BY <1>1, <1>2, <1>3, <1>4, <1>5, <1>6, <1>7

\* A value that was compared, or need not be, leaves the loops in order.
LEMMA MovesInv ==
  ASSUME Inv, Moves,
         Field.kind # "other" => Empty(Value) \/ Value \in NonEmpty(Field.shown)
  PROVE  PositionOk' /\ BehindOk' /\ HereOk'
<1> USE DEF Moves
<1>1. Node' = Node /\ Field' = Field
  BY DEF Node, Field
<1>2. PositionOk'
  <2>1. Selected(Field)' = Selected(Field)
    BY <1>1 DEF Field, Node
  <2> QED
    BY <1>1, <2>1, AtValueFacts DEF PositionOk
<1>3. BehindOk'
  BY AtValueFacts DEF BehindOk, Behind
<1>4. HereOk'
  <2>1. ASSUME Field.kind # "other" PROVE ShownUpTo(Field, i)
    BY <2>1, AtValueFacts, OneMore DEF HereOk, Value
  <2>2. i' - 1 = i
    BY AtValueFacts
  <2> QED
    BY <1>1, <2>1, <2>2 DEF HereOk
<1> QED
  BY <1>2, <1>3, <1>4

\* Against an array, what does not fail is shown, and what fails is not.
LEMMA CompareInArrayInv == Inv /\ CompareInArray => Inv'
<1> SUFFICES ASSUME Inv, CompareInArray PROVE Inv'
  OBVIOUS
<1>1. Moves /\ AtValue /\ UNCHANGED match /\ final.form # "string"
  BY DEF CompareInArray, Moves
<1>2. verdict' = IF Compared => InArray(Field.kind, Value) THEN "running" ELSE "failed"
  BY DEF CompareInArray, Outcome
<1>3. TypeOK' /\ (nodes \in Seq(NodeType))'
  BY <1>1, <1>2 DEF Inv, TypeOK, Moves
<1>4. CASE Compared => InArray(Field.kind, Value)
  <2>1. Field.kind # "other" => Empty(Value) \/ Value \in NonEmpty(Field.shown)
    BY <1>1, <1>4, AtValueFacts DEF Compared, InArray, FieldType, Kind
  <2>2. PositionOk' /\ BehindOk' /\ HereOk'
    BY <1>1, <2>1, MovesInv
  <2> QED
    BY <1>2, <1>3, <1>4, <2>2 DEF Inv, PassedValuesAreShown, FailureIsReal
<1>5. CASE Compared /\ ~InArray(Field.kind, Value)
  <2>1. Node' = Node /\ Field' = Field
    BY <1>1 DEF Moves, Node, Field
  <2>2. ASSUME Suited(Field)
        PROVE  Field.widget \notin Scalar /\ ~Shows(Field)
    <3>1. Field.widget \notin Scalar
      BY <1>1, AtValueFacts, SelectedFacts
    <3>2. \/ Field.widget = "boxes" /\ Field.kind = "value" /\ final.form = "nested"
          \/ Field.widget = "multi" /\ Field.kind = "tid" /\ final.form = "flat"
      BY <1>1, <2>2, <3>1, AtValueFacts, SelectedFacts DEF Suited
    <3>3. Value \notin final.vals
      BY <1>5, <3>2 DEF InArray
    <3>4. final.vals = NonEmpty(Field.shown)
      BY <1>1, <3>1, <3>2, AtValueFacts, SelectedFacts
    <3>5. Value \in NonEmpty(Field.saved)
      BY <1>1, <1>5, AtValueFacts DEF NonEmpty, Compared, Value
    <3> QED
      BY <3>1, <3>3, <3>4, <3>5 DEF Shows
  <2>3. FailureIsReal'
    BY <2>1, <2>2 DEF FailureIsReal
  <2> QED
    BY <1>2, <1>3, <1>5, <2>3 DEF Inv, PassedValuesAreShown
<1> QED
  BY <1>4, <1>5

\* Against a string, whatever was left in $match: a value that is compared and
\* does not fail is shown.
LEMMA CompareStringInv == Inv /\ CompareString => Inv'
<1> SUFFICES ASSUME Inv, CompareString PROVE Inv'
  OBVIOUS
<1>1. Moves /\ AtValue /\ final.form = "string"
  BY DEF CompareString, Moves
<1>2. /\ verdict' = IF match' = "yes" THEN "running" ELSE "failed"
      /\ match' = IF ~Compared THEN match
                  ELSE IF Value \in final.vals THEN "yes" ELSE "no"
  BY DEF CompareString, Outcome
<1>3. TypeOK' /\ (nodes \in Seq(NodeType))'
  BY <1>1, <1>2 DEF Inv, TypeOK, Moves
<1>4. CASE match' = "yes"
  <2>1. Field.kind # "other" => Empty(Value) \/ Value \in NonEmpty(Field.shown)
    BY <1>1, <1>2, <1>4, AtValueFacts DEF Compared, FieldType, Kind
  <2>2. PositionOk' /\ BehindOk' /\ HereOk'
    BY <1>1, <2>1, MovesInv
  <2> QED
    BY <1>2, <1>3, <1>4, <2>2 DEF Inv, PassedValuesAreShown, FailureIsReal
<1>5. CASE match' # "yes"
  <2>1. Node' = Node /\ Field' = Field
    BY <1>1 DEF Moves, Node, Field
  <2>2. ASSUME Suited(Field)
        PROVE  Field.widget \in Scalar /\ Field.shown[1] # Field.saved[1]
    <3>1. Field.widget \in Scalar
      BY <1>1, AtValueFacts, SelectedFacts
    <3>2. Len(Field.saved) = 1 /\ Field.kind # "other"
      BY <2>2, <3>1 DEF Suited, Scalar
    <3>3. i = 1 /\ Value = Field.saved[1] /\ ~Empty(Value)
      BY <1>1, <2>2, <3>2, AtValueFacts DEF Value, Suited
    <3>4. Compared
      BY <1>1, <3>2, <3>3, AtValueFacts DEF Compared, FieldType, Kind
    <3>5. Value \notin final.vals
      BY <1>2, <1>5, <3>4
    <3>6. final.vals = {Field.shown[1]} \ {0}
      BY <1>1, <3>1, AtValueFacts, SelectedFacts DEF Scalar
    <3> QED
      BY <3>1, <3>3, <3>5, <3>6 DEF Empty
  <2>3. FailureIsReal'
    BY <2>1, <2>2 DEF FailureIsReal
  <2> QED
    BY <1>2, <1>3, <1>5, <2>3 DEF Inv, PassedValuesAreShown
<1> QED
  BY <1>4, <1>5

LEMMA EndFieldInv == Inv /\ EndField => Inv'
<1> SUFFICES ASSUME Inv, EndField PROVE Inv'
  OBVIOUS
<1> USE DEF EndField, Running
<1>1. PositionOk /\ BehindOk /\ HereOk /\ n \in 1..Len(nodes) /\ f \in 1..Len(Node.fields)
  BY DEF Inv, PositionOk
<1>2. Field \in FieldType /\ Node \in NodeType /\ Len(Field.saved) > 0
  BY <1>1, FieldHasType DEF Inv
<1>3. Node' = Node
  BY DEF Node
<1>4. TypeOK' /\ (nodes \in Seq(NodeType))'
  BY <1>1 DEF Inv, TypeOK
<1>5. PositionOk'
  BY <1>1, <1>3 DEF PositionOk
<1>6. BehindOk'
  <2> SUFFICES ASSUME NEW m \in DOMAIN nodes, NEW g \in DOMAIN nodes[m].fields,
                      Behind(m, g)', nodes[m].fields[g].kind # "other"
               PROVE  Shows(nodes[m].fields[g])
    BY DEF BehindOk
  <2>1. nodes[m].fields \in Seq(FieldType)
    <3>1. nodes[m] \in NodeType
      BY DEF Inv
    <3> QED
      BY <3>1 DEF NodeType
  <2>2. Behind(m, g) \/ (m = n /\ g = f)
    BY <1>1, <2>1 DEF Behind
  <2>3. CASE m = n /\ g = f
    <3>1. nodes[m].fields[g] = Field
      BY <2>3 DEF Field, Node
    <3>2. i - 1 \in Nat /\ i - 1 >= Len(Field.saved) /\ ShownUpTo(Field, i - 1)
      <4>1. Field.saved \in Seq(Values) /\ i \in Nat /\ i > Len(Field.saved)
        BY <1>1, <1>2 DEF PositionOk, FieldType, Lists
      <4>2. i > 0 /\ i - 1 \in Nat /\ i - 1 >= Len(Field.saved)
        BY <4>1
      <4> QED
        BY <1>1, <3>1, <4>2 DEF HereOk
    <3> QED
      BY <1>2, <3>1, <3>2, AllShown
  <2> QED
    BY <1>1, <2>2, <2>3 DEF BehindOk
<1> QED
  BY <1>4, <1>5, <1>6 DEF Inv, HereOk, PassedValuesAreShown, FailureIsReal

LEMMA EndNodeInv == Inv /\ EndNode => Inv'
<1> SUFFICES ASSUME Inv, EndNode PROVE Inv'
  OBVIOUS
<1> USE DEF EndNode, Running
<1>1. PositionOk /\ BehindOk /\ HereOk /\ n \in 1..Len(nodes)
  BY DEF Inv, TypeOK
<1>2. Node \in NodeType /\ Node.fields \in Seq(FieldType)
  <2>1. Node \in NodeType
    BY <1>1 DEF Inv, Node
  <2> QED
    BY <2>1 DEF NodeType
<1>3. i = 0
  <2>1. f \in Nat /\ i \in Nat /\ Len(Node.fields) \in Nat /\ f > Len(Node.fields)
    BY <1>1, <1>2 DEF PositionOk
  <2> QED
    BY <1>1, <2>1 DEF PositionOk
<1>4. TypeOK' /\ (nodes \in Seq(NodeType))'
  BY <1>1 DEF Inv, TypeOK
<1>5. PositionOk'
  BY <1>1, <1>3 DEF PositionOk
<1>6. BehindOk'
  <2> SUFFICES ASSUME NEW m \in DOMAIN nodes, NEW g \in DOMAIN nodes[m].fields,
                      Behind(m, g)', nodes[m].fields[g].kind # "other"
               PROVE  Behind(m, g)
    BY <1>1 DEF BehindOk
  <2>1. m \in 1..Len(nodes) /\ nodes[m].fields \in Seq(FieldType)
    <3>1. nodes[m] \in NodeType
      BY DEF Inv
    <3> QED
      BY <3>1 DEF NodeType, Inv
  <2>2. m < n + 1
    BY <1>1, <2>1 DEF Behind
  <2>3. m = n => g < f
    BY <1>1, <1>2, <2>1 DEF Node, PositionOk
  <2> QED
    BY <1>1, <2>1, <2>2, <2>3 DEF Behind
<1> QED
  BY <1>3, <1>4, <1>5, <1>6 DEF Inv, HereOk, PassedValuesAreShown, FailureIsReal

LEMMA PassInv == Inv /\ Pass => Inv'
<1> SUFFICES ASSUME Inv, Pass PROVE Inv'
  OBVIOUS
<1> USE DEF Pass, Conclude, Running
<1>1. TypeOK' /\ (nodes \in Seq(NodeType))'
  BY DEF Inv, TypeOK
<1>2. \A fld \in AllFields : fld.kind # "other" => Shows(fld)
  <2>1. \A m \in DOMAIN nodes : \A g \in DOMAIN nodes[m].fields : Behind(m, g)
    BY DEF Behind, Inv, TypeOK
  <2>2. \A m \in DOMAIN nodes : \A g \in DOMAIN nodes[m].fields :
          nodes[m].fields[g].kind # "other" => Shows(nodes[m].fields[g])
    BY <2>1 DEF Inv, BehindOk
  <2> QED
    BY <2>2 DEF AllFields
<1>3. PassedValuesAreShown'
  BY <1>2 DEF PassedValuesAreShown, AllFields
<1> QED
  BY <1>1, <1>3 DEF Inv, FailureIsReal

LEMMA NextInv == Inv /\ [Next]_vars => Inv'
<1> SUFFICES ASSUME Inv, [Next]_vars PROVE Inv'
  OBVIOUS
<1>1. CASE UNCHANGED vars
  <2>1. TypeOK' /\ (nodes \in Seq(NodeType))' /\ Node' = Node /\ Field' = Field
    BY <1>1 DEF vars, Inv, TypeOK, Node, Field
  <2>2. verdict' = verdict /\ PositionOk' = PositionOk /\ BehindOk' = BehindOk /\ HereOk' = HereOk
    BY <1>1 DEF vars, PositionOk, BehindOk, Behind, HereOk, Node, Field
  <2>3. PassedValuesAreShown' /\ FailureIsReal'
    BY <1>1 DEF vars, Inv, PassedValuesAreShown, FailureIsReal, AllFields, Node, Field
  <2> QED
    BY <2>1, <2>2, <2>3 DEF Inv
<1> QED
  BY <1>1, NoNidInv, VisitNodeInv, NoFieldValueInv, ReadFieldInv, CompareInArrayInv,
     CompareStringInv, EndFieldInv, EndNodeInv, PassInv DEF Next

-----------------------------------------------------------------------------
\* The invariant that the theorems follow from.
LEMMA Invariance == Spec => []Inv
BY InitInv, NextInv, PTL DEF Spec

\* A pass of the step means that every text and term field of every node shows
\* what was saved in it, however many nodes, fields and values there are and
\* whatever $match was left at.
THEOREM PassesAreTrue == Spec => []PassedValuesAreShown
<1>1. Inv => PassedValuesAreShown
  BY DEF Inv
<1> QED
  BY <1>1, Invariance, PTL

\* At a field whose widget suits its kind the step fails only with a reason.
THEOREM FailuresAreReal == Spec => []FailureIsReal
<1>1. Inv => FailureIsReal
  BY DEF Inv
<1> QED
  BY <1>1, Invariance, PTL

\* The variables of the step keep their types.
THEOREM StepTypes == Spec => []TypeOK
<1>1. Inv => TypeOK
  BY DEF Inv
<1> QED
  BY <1>1, Invariance, PTL
=============================================================================
