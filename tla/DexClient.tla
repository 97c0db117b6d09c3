----------------------------- MODULE DexClient -----------------------------
(***************************************************************************)
(* pkg/dex/client.go: the gRPC calls that register, update and delete an   *)
(* OIDC client.  dex draws a fresh random id for every client that is      *)
(* created without one, which is how the operator creates them.            *)
(***************************************************************************)
EXTENDS Cluster

\* Whether a status, an operator's copy of one, a Handle call, a secret, a
\* deployment or a pod still names the client.
Named(c) ==
  \/ \E s \in SSOs :
       \/ sso[s].clientID = c
       \/ secret[s] # None /\ secret[s].config.client = c
       \/ deployment[s] # None /\ deployment[s].version.client = c
       \/ pod[s] # None /\ c \in {pod[s].version.client, pod[s].config.client}
  \/ \E o \in Operators :
       \/ client[o] = c \/ obj[o].clientID = c
       \/ \E s \in SSOs : cache[o][s].clientID = c

\* Mutant: the operator asks for one fixed id instead of letting dex draw one.
FixedId == {c \in ClientIds : \A d \in ClientIds : c <= d}

\* A random id is one that nobody has ever heard of.  An id that everybody has
\* forgotten is as good as that; ids are interchangeable, so take the least.
Unused == {c \in ClientIds : ~Registered(c) /\ ~Named(c)}
NewId  == {c \in Unused : \A d \in Unused : c <= d}

\* Mutant: the error of CreateClient is not returned.
CreateClientErrorIgnored(o) ==
  /\ pc[o] = "CreateClient"
  /\ \/ \E c \in NewId :
          /\ dex' = [dex EXCEPT ![c] = FakeURL]
          /\ client' = [client EXCEPT ![o] = c]
          /\ Reply(o, "CreateSecret")
     \/ /\ Refused(o, "CreateClient", "CreateSecret")
        /\ UNCHANGED <<dex, client>>
  /\ UNCHANGED <<sso, proxyVars, exposeVars, sdkVars, eventVars, redirect,
                 fresh, app>>

\* Handle registers the client of the SSO with the placeholder redirect.  If
\* the reply is lost, nobody knows the id.
CreateClient(o) ==
  /\ pc[o] = "CreateClient"
  /\ \/ \E c \in NewId :
          /\ dex' = [dex EXCEPT ![c] = FakeURL]
          /\ client' = [client EXCEPT ![o] = c]
          /\ Reply(o, "CreateSecret")
     \/ \E c \in NewId :
          /\ "CreateClient" \in LostReplies /\ Fault
          /\ dex' = [dex EXCEPT ![c] = FakeURL]
          /\ Goto(o, "err")
          /\ UNCHANGED client
     \/ /\ Refused(o, "CreateClient", "err")
        /\ UNCHANGED <<dex, client>>
  /\ UNCHANGED <<sso, proxyVars, exposeVars, sdkVars, eventVars, redirect,
                 fresh, app>>

\* Mutant: the redirect is set on the client only after dex was updated.
UpdateClientEarly(o) ==
  /\ pc[o] = "UpdateClient"
  /\ Reply(o, IF Registered(client[o]) THEN "UpdateSecret" ELSE "UndoClient")
  /\ UNCHANGED <<sso, dex, proxyVars, exposeVars, sdkVars, eventVars,
                 localVars>>

\* Handle replaces the redirect by the ingress host.  A client that is not
\* found is an error.
UpdateClient(o) ==
  LET found == Registered(client[o]) IN
  /\ pc[o] = "UpdateClient"
  /\ \/ /\ dex' = IF found THEN [dex EXCEPT ![client[o]] = redirect[o]]
                           ELSE dex
        /\ Answered(o, "UpdateClient",
                    IF found THEN "UpdateSecret" ELSE "UndoClient",
                    "UndoClient")
     \/ /\ Refused(o, "UpdateClient", "UndoClient")
        /\ UNCHANGED dex
  /\ UNCHANGED <<sso, proxyVars, exposeVars, sdkVars, eventVars, localVars>>

\* DeleteClient of client c; a client that is not found is an error.
Delete(o, call, c, onSuccess, onError) ==
  LET found == Registered(c) IN
  /\ pc[o] = call
  /\ \/ /\ dex' = IF found THEN [dex EXCEPT ![c] = None] ELSE dex
        /\ Answered(o, call, IF found THEN onSuccess ELSE onError, onError)
     \/ /\ Refused(o, call, onError)
        /\ UNCHANGED dex
  /\ UNCHANGED <<sso, proxyVars, exposeVars, sdkVars, eventVars, localVars>>
=============================================================================
