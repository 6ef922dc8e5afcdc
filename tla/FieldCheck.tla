----------------------------- MODULE FieldCheck -----------------------------
(***************************************************************************)
(* The Behat step "I iterate through nodes created and check that fields   *)
(* are correct": it opens the edit form of every node the scenario made    *)
(* and compares what the form shows with what the scenario saved.          *)
(*                                                                         *)
(* A saved field has a kind, the column its values are in: "value" (text,  *)
(* lists), "tid" (terms), "other" (files, links, references).  A value is  *)
(* a number; 0 stands for "" and "0", which PHP's empty() takes to be no   *)
(* value.  On the form the field has a widget, which shows some values:    *)
(*   text     one input for each value      select   one chosen option     *)
(*   multi    several chosen options        boxes    checkboxes or radios  *)
(*   box      a group of one checkbox or radio                             *)
(***************************************************************************)
EXTENDS Naturals, Sequences

CONSTANTS
  Values,     \* the values of fields
  NodeLists   \* the lists of created nodes the step is run on

Scalar == {"text", "select"}
Widget == {"text", "select", "multi", "boxes", "box"}
Kind == {"value", "tid", "other"}
Empty(v) == v = 0

\* A node of the scenario, with at least one value saved and shown in a field.
Lists == Seq(Values) \ {<<>>}
FieldType == [kind : Kind, saved : Lists, widget : Widget, shown : Lists]
NodeType == [nid : BOOLEAN, fields : Seq(FieldType)]
ASSUME NodeAssumption ==
  Values \subseteq Nat /\ NodeLists \subseteq Seq(NodeType)

\* A field of a node: what was saved, and what its widget shows, in order.
Fields(len) ==
  LET ValueLists == UNION {[1..k -> Values] : k \in 1..len}
  IN  {fld \in [kind : Kind, saved : ValueLists, widget : Widget, shown : ValueLists] :
         fld.widget = "box" => Len(fld.shown) = 1}
NonEmpty(list) == {list[k] : k \in {j \in DOMAIN list : ~Empty(list[j])}}

VARIABLES
  nodes,    \* the nodes created: [nid : BOOLEAN, fields : a sequence]
  n, f, i,  \* the node, its field and the field's value; f, i are 0 at the start
  final,    \* $field_final_value
  match,    \* $match: it is set in the loop and lives as long as the step
  verdict   \* "running", "passed" or "failed"
vars == <<nodes, n, f, i, final, match, verdict>>

Node == nodes[n]
Field == Node.fields[f]

(***************************************************************************)
(* getFieldSelectedValues($field, 0): a string, a flat array (what a       *)
(* multiple select gives), an array of one-element arrays (boxes, when     *)
(* there is more than one), or an exception.                               *)
(***************************************************************************)
Nothing == [form |-> "exception", vals |-> {}]

Selected(fld) ==
  LET string == IF fld.widget \in Scalar THEN NonEmpty(<<fld.shown[1]>>) ELSE {}
      array == IF fld.widget \in {"multi", "boxes"} THEN NonEmpty(fld.shown) ELSE {}
  IN  IF string \cup array = {} THEN Nothing
      ELSE [vals |-> string \cup array,
            form |-> CASE fld.widget \in Scalar -> "string"
                       [] fld.widget = "multi" -> "flat"
                       [] fld.widget = "boxes" -> "nested"]

\* Mutant: the two searches are swapped.
InArraySwapped(kind, v) ==
  /\ final.form = (IF kind = "value" THEN "flat" ELSE "nested")
  /\ v \in final.vals

\* array_column($final, 0) finds values in nested arrays only, in_array($tid,
\* $final) in flat ones only.
InArray(kind, v) ==
  /\ final.form = (IF kind = "value" THEN "nested" ELSE "flat")
  /\ v \in final.vals

(***************************************************************************)
(* The loops.                                                              *)
(***************************************************************************)
Init ==
  /\ nodes \in NodeLists
  /\ n = 1 /\ f = 0 /\ i = 0
  /\ final = Nothing
  /\ match = "unset"
  /\ verdict = "running"

Running == verdict = "running"
Conclude(v) == verdict' = v /\ UNCHANGED <<nodes, n, f, i, final, match>>

AtNode == Running /\ n <= Len(nodes) /\ f = 0
AtField == Running /\ f > 0 /\ f <= Len(Node.fields) /\ i = 0
AtValue == Running /\ i > 0 /\ i <= Len(Field.saved)

\* Only nodes made through Drupal's API have an id to visit.
NoNid == AtNode /\ ~Node.nid /\ Conclude("failed")
VisitNode ==
  /\ AtNode /\ Node.nid
  /\ f' = 1
  /\ UNCHANGED <<nodes, n, i, final, match, verdict>>

NoFieldValue == AtField /\ Selected(Field) = Nothing /\ Conclude("failed")
ReadField ==
  /\ AtField /\ Selected(Field) # Nothing
  /\ final' = Selected(Field)
  /\ i' = 1
  /\ UNCHANGED <<nodes, n, f, match, verdict>>

Value == Field.saved[i]
Compared == Field.kind \in {"value", "tid"} /\ ~Empty(Value)
Outcome(holds) == verdict' = IF holds THEN "running" ELSE "failed"

\* Against an array: a value that is not compared is let through.
CompareInArray ==
  /\ AtValue /\ final.form # "string"
  /\ Outcome(Compared => InArray(Field.kind, Value))
  /\ i' = i + 1
  /\ UNCHANGED <<nodes, n, f, final, match>>

\* Mutant: $match is TRUE when nothing is compared.
CompareStringLeniently ==
  /\ AtValue /\ final.form = "string"
  /\ match' = IF Compared => Value \in final.vals THEN "yes" ELSE "no"
  /\ Outcome(match' = "yes" \/ i > 1)
  /\ i' = i + 1
  /\ UNCHANGED <<nodes, n, f, final>>

\* Against a string: when a value is not compared, $match is what it was.
CompareString ==
  /\ AtValue /\ final.form = "string"
  /\ match' = IF ~Compared THEN match ELSE IF Value \in final.vals THEN "yes" ELSE "no"
  /\ Outcome(match' = "yes")
  /\ i' = i + 1
  /\ UNCHANGED <<nodes, n, f, final>>

EndField ==
  /\ Running /\ f > 0 /\ f <= Len(Node.fields) /\ i > Len(Field.saved)
  /\ f' = f + 1 /\ i' = 0
  /\ UNCHANGED <<nodes, n, final, match, verdict>>

EndNode ==
  /\ Running /\ n <= Len(nodes) /\ f > Len(Node.fields)
  /\ n' = n + 1 /\ f' = 0
  /\ UNCHANGED <<nodes, i, final, match, verdict>>

Pass == Running /\ n > Len(nodes) /\ Conclude("passed")

Next == \/ NoNid \/ VisitNode \/ NoFieldValue \/ ReadField
        \/ CompareInArray \/ CompareString \/ EndField \/ EndNode \/ Pass

Spec == Init /\ [][Next]_vars

(***************************************************************************)
(* Properties.                                                             *)
(***************************************************************************)
\* Every variable has its type.
TypeOK ==
  /\ n \in 1..(Len(nodes) + 1) /\ f \in Nat /\ i \in Nat
  /\ final.form \in {"exception", "string", "flat", "nested"} /\ final.vals \subseteq Values
  /\ match \in {"unset", "yes", "no"}
  /\ verdict \in {"running", "passed", "failed"}

\* The form shows the values saved in a field.
Shows(fld) == NonEmpty(fld.saved) \subseteq NonEmpty(fld.shown)
AllFields == UNION {{nodes[m].fields[g] : g \in DOMAIN nodes[m].fields} : m \in DOMAIN nodes}

\* "I iterate through nodes created and check that fields are correct": the step
\* passes only if the forms show what was saved.
PassIsCorrect == verdict = "passed" => \A fld \in AllFields : Shows(fld)

\* What a pass does establish: that of every text and term field, whatever the
\* other fields and nodes of the step leave in $match.
PassedValuesAreShown ==
  verdict = "passed" => \A fld \in AllFields : fld.kind # "other" => Shows(fld)

\* Widgets the comparison is made for: one value against a string, texts against
\* boxes, terms against a multiple select.  A group of one box is not among them: its
\* value is not read (line 147), and the step fails whatever the form shows.
Suited(fld) ==
  /\ \A j \in DOMAIN fld.saved : ~Empty(fld.saved[j])
  /\ \/ fld.widget \in Scalar /\ Len(fld.saved) = 1 /\ fld.kind # "other"
     \/ fld.widget = "boxes" /\ fld.kind = "value"
     \/ fld.widget = "multi" /\ fld.kind = "tid"

\* At such a field the step fails only if its first value is not what the form
\* shows first, or one of its values is not shown.
FailureIsReal ==
  verdict = "failed" /\ n <= Len(nodes) /\ f \in DOMAIN Node.fields /\ Suited(Field) =>
    IF Field.widget \in Scalar THEN Field.shown[1] # Field.saved[1] ELSE ~Shows(Field)
=============================================================================
