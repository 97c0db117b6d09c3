---------------------------- MODULE SSOLifecycle ----------------------------
(***************************************************************************)
(* What the operator promises, without saying how: the life of the SSO     *)
(* resources as their users see it, and of the OIDC clients as dex sees    *)
(* it.  A client is registered before anyone names it, is published in the *)
(* status of one SSO, once and with that SSO's own host as its redirect,   *)
(* and is removed only while no SSO that exists names it.                  *)
(***************************************************************************)
CONSTANTS SSOs, ClientIds, FakeURL, None

VARIABLES
  exists,     \* the SSO resources that exist
  published,  \* the client that the last status of each SSO names
  redirectOf  \* the redirect of each registered client

vars == <<exists, published, redirectOf>>

Init ==
  /\ exists = {}
  /\ published = [s \in SSOs |-> None]
  /\ redirectOf = [c \in ClientIds |-> None]

\* Users create and delete SSO resources; a new one has an empty status, a
\* deleted one keeps its last.
Create(s) ==
  /\ s \notin exists
  /\ exists' = exists \cup {s}
  /\ published' = [published EXCEPT ![s] = None]
  /\ UNCHANGED redirectOf

Remove(s) ==
  /\ s \in exists
  /\ exists' = exists \ {s}
  /\ UNCHANGED <<published, redirectOf>>

\* A client is registered with the placeholder redirect while nobody names it.
Register(c) ==
  /\ redirectOf[c] = None
  /\ \A s \in SSOs : published[s] # c
  /\ redirectOf' = [redirectOf EXCEPT ![c] = FakeURL]
  /\ UNCHANGED <<exists, published>>

\* It gets the host of an SSO while nobody names it.
Redirect(c, s) ==
  /\ redirectOf[c] # None
  /\ \A t \in SSOs : published[t] # c
  /\ redirectOf' = [redirectOf EXCEPT ![c] = s]
  /\ UNCHANGED <<exists, published>>

\* The status of an SSO is written once, and names a client of its own that is
\* registered with the SSO's host.
Publish(s, c) ==
  /\ s \in exists /\ published[s] = None
  /\ redirectOf[c] = s
  /\ \A t \in SSOs : published[t] # c
  /\ published' = [published EXCEPT ![s] = c]
  /\ UNCHANGED <<exists, redirectOf>>

\* No client that an existing SSO names is removed.
Unregister(c) ==
  /\ redirectOf[c] # None
  /\ \A s \in exists : published[s] # c
  /\ redirectOf' = [redirectOf EXCEPT ![c] = None]
  /\ UNCHANGED <<exists, published>>

Next ==
  \/ \E s \in SSOs : Create(s) \/ Remove(s)
  \/ \E c \in ClientIds : Register(c) \/ Unregister(c)
  \/ \E s \in SSOs, c \in ClientIds : Redirect(c, s) \/ Publish(s, c)

Spec == Init /\ [][Next]_vars

\* The client that an existing SSO publishes is registered, with its host.
OwnRedirect ==
  \A s \in exists : published[s] # None => redirectOf[published[s]] = s
=============================================================================
