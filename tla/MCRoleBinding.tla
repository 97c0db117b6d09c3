--------------------------- MODULE MCRoleBinding ---------------------------
(***************************************************************************)
(* An instance of RoleBinding for TLC.                                     *)
(***************************************************************************)
EXTENDS RoleBinding

CONSTANTS o1, o2

\* Everything may fail, and an operator may die at any step.
AllCalls == {"List", "GetServiceAccount", "CreateServiceAccount",
             "UpdateBinding", "Run"}
=============================================================================
