----------------------------- MODULE MCAjaxForm -----------------------------
(* Two visitors of one form: the list "kind" and the button "more" refresh  *)
(* the rows of the form, and "more" is drawn with them.                     *)
EXTENDS AjaxForm, TLC

CONSTANTS kind, more, rows

Refreshed == (kind :> rows) @@ (more :> rows)
Drawn == rows :> {more}
Visitors == Permutations(Pages)
=============================================================================
