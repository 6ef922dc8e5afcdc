----------------------------- MODULE MCCalendar -----------------------------
(***************************************************************************)
(* A month and a week of it, one array of events and two feeds.            *)
(***************************************************************************)
EXTENDS Calendar

MCViews == {{1, 2}, {2}}
=============================================================================
