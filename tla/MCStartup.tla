----------------------------- MODULE MCStartup -----------------------------
(***************************************************************************)
(* Instances of Startup for TLC.                                           *)
(***************************************************************************)
EXTENDS Startup

CONSTANTS o1, o2

MCKeys == 1 .. 6

\* Every call may fail, and a running process may die.
AllSteps == Steps \cup {"Run"}
=============================================================================
