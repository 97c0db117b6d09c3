---------------------------- MODULE RoleBinding ----------------------------
(***************************************************************************)
(* pkg/kubernetes/rbac.go: every Handle call first ensures that the        *)
(* cluster role of the operator is bound to a service account in the       *)
(* namespace of its SSO.  All namespaces share one cluster role binding,   *)
(* to which several operators and other writers append subjects; the API   *)
(* server takes an update only if it carries the current version.          *)
(***************************************************************************)
EXTENDS Naturals, Sequences

CONSTANTS
  Operators,     \* operator processes; two overlap during a rolling upgrade
  Namespaces,    \* the namespaces with SSO resources
  Home,          \* the namespace of the operator, which the chart binds
  Users,         \* bound: subjects that other writers may add
  Deletable,     \* bound: the namespaces whose service account may be deleted
  None,          \* no namespace, or no subject found
  FailingCalls,  \* the calls that may be refused
  LostReplies,   \* the calls whose reply may be lost
  MaxFaults      \* bound: refusals, lost replies and crashes in a behaviour

ASSUME RoleBindingAssumption ==
  /\ Home \in Namespaces /\ Deletable \subseteq Namespaces
  /\ None \notin Namespaces
  /\ MaxFaults \in Nat

serviceAccountName == "sso-operator-sa"
chartAccountName   == "sso-operator"

AccountNames       == {serviceAccountName, chartAccountName}

Subject ==
  [kind : {"ServiceAccount"}, name : AccountNames, namespace : Namespaces]
  \cup [kind : {"User"}, name : Users, namespace : {None}]

\* Mutant: name and namespace are swapped.
AccountSwapped(name, n) ==
  [kind |-> "ServiceAccount", name |-> n, namespace |-> name]

Account(name, n) ==
  [kind |-> "ServiceAccount", name |-> name, namespace |-> n]

VARIABLES
  binding,   \* subjects and version of the cluster role binding
  accounts,  \* the namespaces that have the account "sso-operator-sa"
  pc,        \* the call each operator makes next
  ns,        \* the namespace its Handle call is about
  listed,    \* the copy of the binding that its call has listed
  faults     \* faults so far

vars == <<binding, accounts, pc, ns, listed, faults>>

Binding == [subjects : Seq(Subject), version : Nat]

\* What the chart installs.
Installed ==
  [subjects |-> <<[kind |-> "ServiceAccount", name |-> chartAccountName,
                   namespace |-> Home]>>,
   version |-> 1]

Init ==
  /\ binding = Installed
  /\ accounts = {}
  /\ pc = [o \in Operators |-> "idle"]
  /\ ns = [o \in Operators |-> Home]
  /\ listed = [o \in Operators |-> Installed]
  /\ faults = 0

Goto(o, call) == pc' = [pc EXCEPT ![o] = call]
Reply(o, call) == Goto(o, call) /\ UNCHANGED faults
Fault == faults < MaxFaults /\ faults' = faults + 1
Refused(o, call) == pc[o] \in FailingCalls /\ Fault /\ Goto(o, call)
Lost(o, call) == pc[o] \in LostReplies /\ Fault /\ Goto(o, call)

\* Whether a subject is a service account of the namespace.
BoundIn(subjects, n) ==
  \E i \in DOMAIN subjects :
    subjects[i].kind = "ServiceAccount" /\ subjects[i].namespace = n

----------------------------------------------------------------------------
(* EnsureClusterRoleBinding *)

\* The SDK calls Handle for an SSO of some namespace, again at every resync.
Begin(o, n) ==
  /\ pc[o] = "idle"
  /\ Goto(o, "List")
  /\ ns' = [ns EXCEPT ![o] = n]
  /\ UNCHANGED <<binding, accounts, listed, faults>>

\* Mutant: the subjects are not searched before one is added.
ListWithoutSearch(o) ==
  /\ pc[o] = "List"
  /\ Reply(o, "GetServiceAccount")
  /\ listed' = [listed EXCEPT ![o] = binding]
  /\ UNCHANGED <<binding, accounts, ns>>

\* List the binding and search its subjects: one of the namespace is returned
\* without asking whether the account is there.
List(o) ==
  /\ pc[o] = "List"
  /\ \/ /\ Reply(o, IF BoundIn(binding.subjects, ns[o])
                    THEN "ok" ELSE "GetServiceAccount")
        /\ listed' = [listed EXCEPT ![o] = binding]
     \/ /\ Refused(o, "err")
        /\ UNCHANGED listed
  /\ UNCHANGED <<binding, accounts, ns>>

\* Mutant: the account is created without asking for it.
GetServiceAccountSkipped(o) ==
  /\ pc[o] = "GetServiceAccount"
  /\ Reply(o, "CreateServiceAccount")
  /\ UNCHANGED <<binding, accounts, ns, listed>>

\* An account that exists is used; any error of Get is taken for a missing one.
GetServiceAccount(o) ==
  /\ pc[o] = "GetServiceAccount"
  /\ \/ Reply(o, IF ns[o] \in accounts THEN "UpdateBinding"
                                       ELSE "CreateServiceAccount")
     \/ Refused(o, "CreateServiceAccount")
  /\ UNCHANGED <<binding, accounts, ns, listed>>

\* Mutant: the error of Create is not returned.
CreateServiceAccountErrorIgnored(o) ==
  /\ pc[o] = "CreateServiceAccount"
  /\ \/ accounts' = accounts \cup {ns[o]} /\ Reply(o, "UpdateBinding")
     \/ Refused(o, "UpdateBinding") /\ UNCHANGED accounts
  /\ UNCHANGED <<binding, ns, listed>>

\* An account that exists by now is an error.
CreateServiceAccount(o) ==
  /\ pc[o] = "CreateServiceAccount"
  /\ \/ /\ accounts' = accounts \cup {ns[o]}
        /\ \/ Reply(o, IF ns[o] \in accounts THEN "err" ELSE "UpdateBinding")
           \/ Lost(o, "err")
     \/ /\ Refused(o, "err")
        /\ UNCHANGED accounts
  /\ UNCHANGED <<binding, ns, listed>>

\* Mutant: the update carries no version.
BindingConflictIgnored(o) == FALSE

\* The binding was written since it was listed.
BindingConflict(o) == listed[o].version # binding.version

\* The listed binding is written back with the account appended.
UpdateBinding(o) ==
  /\ pc[o] = "UpdateBinding"
  /\ \/ /\ ~BindingConflict(o)
        /\ binding' = [subjects |-> Append(listed[o].subjects,
                                           Account(serviceAccountName, ns[o])),
                       version |-> binding.version + 1]
        /\ Reply(o, "ok") \/ Lost(o, "err")
     \/ /\ BindingConflict(o)
        /\ Reply(o, "err")
        /\ UNCHANGED binding
     \/ /\ Refused(o, "err")
        /\ UNCHANGED binding
  /\ UNCHANGED <<accounts, ns, listed>>

Ensure(o) ==
  \/ List(o) \/ GetServiceAccount(o) \/ CreateServiceAccount(o)
  \/ UpdateBinding(o)

\* The local variables of a call end with it.
Leave(o) ==
  /\ Goto(o, "idle")
  /\ ns' = [ns EXCEPT ![o] = Home]
  /\ listed' = [listed EXCEPT ![o] = Installed]
  /\ UNCHANGED <<binding, accounts>>

\* Handle goes on, or fails, and is called again for this or another SSO.
Return(o) == pc[o] \in {"ok", "err"} /\ Leave(o) /\ UNCHANGED faults

Crash(o) == pc[o] # "idle" /\ "Run" \in FailingCalls /\ Fault /\ Leave(o)

----------------------------------------------------------------------------
(* Others *)

\* Another writer of the binding adds a subject.
AddSubject(u) ==
  LET subject == [kind |-> "User", name |-> u, namespace |-> None] IN
  /\ \A i \in DOMAIN binding.subjects : binding.subjects[i] # subject
  /\ binding' = [subjects |-> Append(binding.subjects, subject),
                 version |-> binding.version + 1]
  /\ UNCHANGED <<accounts, pc, ns, listed, faults>>

\* The account goes, alone or with its namespace; the subject stays.
DeleteAccount(n) ==
  /\ n \in Deletable \cap accounts
  /\ accounts' = accounts \ {n}
  /\ UNCHANGED <<binding, pc, ns, listed, faults>>

Next ==
  \/ \E o \in Operators : Ensure(o) \/ Return(o) \/ Crash(o)
  \/ \E o \in Operators, n \in Namespaces : Begin(o, n)
  \/ \E u \in Users : AddSubject(u)
  \/ \E n \in Namespaces : DeleteAccount(n)

Spec == Init /\ [][Next]_vars

\* A call in progress ends, and every SSO is handled again and again.
FairSpec ==
  /\ Spec
  /\ \A o \in Operators :
       /\ WF_pc(Ensure(o) \/ Return(o))
       /\ \A n \in Namespaces : SF_pc(Begin(o, n))

----------------------------------------------------------------------------
(* Properties *)

Calls == {"idle", "List", "GetServiceAccount", "CreateServiceAccount",
          "UpdateBinding", "ok", "err"}

\* Every variable holds a value of its type.
TypeOK ==
  /\ binding \in Binding
  /\ accounts \subseteq Namespaces
  /\ pc \in [Operators -> Calls]
  /\ ns \in [Operators -> Namespaces]
  /\ listed \in [Operators -> Binding]
  /\ faults \in 0 .. MaxFaults

\* A namespace has one service account in the binding, however many operators
\* look for it and append it at once: the search and the append are made on
\* one version.
OneAccountPerNamespace ==
  \A i, j \in DOMAIN binding.subjects :
    /\ binding.subjects[i].kind = "ServiceAccount"
    /\ binding.subjects[j].kind = "ServiceAccount"
    /\ binding.subjects[i].namespace = binding.subjects[j].namespace
    => i = j

\* When the call has succeeded the namespace is bound, and the account that is
\* bound exists unless somebody deleted it.
EnsuredIsBound ==
  \A o \in Operators :
    pc[o] = "ok" =>
      /\ BoundIn(binding.subjects, ns[o])
      /\ ns[o] # Home => ns[o] \in accounts \cup Deletable

\* No step takes a subject out of the binding: an operator that has listed the
\* binding never overwrites what others have added since.
SubjectKept(i) ==
  /\ i \in DOMAIN binding'.subjects
  /\ binding'.subjects[i] = binding.subjects[i]
SubjectsKept == [][\A i \in DOMAIN binding.subjects : SubjectKept(i)]_vars

\* Every namespace is bound in the end, whatever operators and other writers
\* make each other's updates fail.
EventuallyBound ==
  \A n \in Namespaces : <>[]BoundIn(binding.subjects, n)
=============================================================================
