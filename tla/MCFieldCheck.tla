---------------------------- MODULE MCFieldCheck ----------------------------
(***************************************************************************)
(* The lists of nodes FieldCheck is checked on: one field of up to two     *)
(* values, behind a field of one value, of the same node or of another,    *)
(* which leaves something in $match; and nodes without an id.              *)
(***************************************************************************)
EXTENDS FieldCheck

Nodes(fields) == [nid |-> TRUE, fields |-> fields]
Before == {fld \in Fields(1) : fld.widget = "text"}
OneNode == {<<Nodes(<<a, b>>)>> : a \in Before, b \in Fields(2)}
TwoNodes == {<<Nodes(<<a>>), [nid |-> id, fields |-> <<b>>]>> :
               id \in BOOLEAN, a \in Before, b \in Fields(1)}
SmallLists == OneNode \cup TwoNodes
=============================================================================
