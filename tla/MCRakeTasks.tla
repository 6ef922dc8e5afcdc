---------------------------- MODULE MCRakeTasks ----------------------------
(***************************************************************************)
(* The settings and commands RakeTasks is checked with.                    *)
(***************************************************************************)
EXTENDS RakeTasks

\* Every combination of the settings.
EverySetting == Flags

\* Every task that is there when cap starts.
EveryCommand == Commands
=============================================================================
