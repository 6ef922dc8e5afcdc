--------------------------- MODULE MCAutocomplete ---------------------------
(***************************************************************************)
(* Two fields that share a database and three things to type: "a", "b "    *)
(* with a space that is stripped, and "".  There is one suggestion for "a" *)
(* and none for "b".  Bound: "undefined" is searched for by the code like  *)
(* any word; here it is not.                                               *)
(***************************************************************************)
EXTENDS Autocomplete

MCValues == {"", "a", "b ", "undefined"}
MCKey == [v \in MCValues |->
            CASE v = "a" -> "a" [] v = "b " -> "b" [] OTHER -> NoKey]
MCAnswer == [k \in {"a", "b"} |-> IF k = "a" THEN {"a"} ELSE {}]
=============================================================================
