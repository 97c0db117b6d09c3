--------------------------- MODULE MCSSOOperator ---------------------------
(***************************************************************************)
(* Instances of SSOOperator for TLC.                                       *)
(***************************************************************************)
EXTENDS SSORefinement, TLC

CONSTANTS o1, o2, s1, s2

\* Upstream services: one labelled with its app and release as by Helm, one
\* that is labelled with an empty app, one of a second app, and one that has
\* no ports.
Labelled == [name |-> "r-up", trimmed |-> "up", ports |-> TRUE,
             labels |-> [app |-> "app", release |-> "r"]]
EmptyApp == [Labelled EXCEPT !.labels = [app |-> "", release |-> "r"]]
Released == [name |-> "r-two", trimmed |-> "two", ports |-> TRUE,
             labels |-> [release |-> "r"]]
Portless == [Labelled EXCEPT !.ports = FALSE]

OneApp         == [s \in SSOs |-> {Labelled}]
TwoApps        == s1 :> {Labelled} @@ s2 :> {Released}
PortsComeAndGo == [s \in SSOs |-> {Labelled, Portless}]

MCClientIds2 == 1 .. 2
MCClientIds3 == 1 .. 3
MCClientIds5 == 1 .. 5

\* All the calls that may be refused.
DexCalls  == {"CreateClient", "UpdateClient", "UndoClient", "DeleteClient"}
InitCalls == {"EnsureClusterRoleBinding", "CreateSecret", "CreateDeployment",
              "CreateService", "WaitForService", "WaitForPods",
              "CreateConfigMap", "FindIngressHosts", "UpdateSecret",
              "UpdateDeployment", "WaitForRollout", "UpdateStatus"}
JobCalls  == {"CleanupConfigMap", "CreateJob", "DeleteStaleJob", "WaitForJob",
              "DeleteJob", "DeleteConfigMap", "RunJob"}
AllCalls  == DexCalls \cup InitCalls \cup JobCalls \cup {"IsSSOInitialized"}

\* What Handle recovers from by itself: any refusal but that of the status
\* list and of deleteClient, any lost reply but those of CreateClient and of
\* the status update.
ToleratedRefusals == AllCalls \ {"IsSSOInitialized", "UndoClient"}
ToleratedLosses   == AllCalls \ {"CreateClient", "UpdateStatus"}

\* Everything but a failing status list, and every reply but that of the
\* status update: clients may leak, yet the SSO is initialised properly.
AllButList   == AllCalls \ {"IsSSOInitialized"}
AllButStatus == AllCalls \ {"UpdateStatus"}

\* Operators are interchangeable.
Symmetry == Permutations(Operators)
=============================================================================
