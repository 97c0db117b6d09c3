--------------------------- MODULE SSORefinement ---------------------------
(***************************************************************************)
(* SSOOperator implements SSOLifecycle.  Everything the operator does with *)
(* secrets, deployments, jobs and ingresses is invisible there; the calls  *)
(* to dex and the writes of the SSO resources are its steps.               *)
(***************************************************************************)
EXTENDS SSOOperator

Live      == {s \in SSOs : sso[s].live}
Published == [s \in SSOs |-> sso[s].clientID]

Lifecycle == INSTANCE SSOLifecycle WITH
  exists <- Live, published <- Published, redirectOf <- dex

\* Every behaviour of the operators is one of the abstract specification, with
\* any number of them at work on one SSO: dex never loses a client that a
\* status names, and a status is written once, with a client that dex already
\* redirects to the SSO's own host.  The status list must not fail, the reply
\* of the status update must not be lost, and no two SSOs may share an app.
RefinesLifecycle == Lifecycle!Spec
=============================================================================
