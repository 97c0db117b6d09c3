------------------------- MODULE RoleBindingProofs -------------------------
(***************************************************************************)
(* The cluster role binding, for every number of operators, namespaces,    *)
(* other writers and faults.                                               *)
(***************************************************************************)
EXTENDS RoleBinding, TLAPS

LEMMA ConstantSubjects ==
  /\ Installed \in Binding
  /\ \A n \in Namespaces, a \in AccountNames : Account(a, n) \in Subject
  /\ \A u \in Users : [kind |-> "User", name |-> u, namespace |-> None]
                        \in Subject
<1>1. \A n \in Namespaces, a \in AccountNames : Account(a, n) \in Subject
  BY DEF Account, Subject
<1>2. \A u \in Users : [kind |-> "User", name |-> u, namespace |-> None]
                        \in Subject
  BY DEF Subject
<1>3. Account(chartAccountName, Home) \in Subject
  BY <1>1, RoleBindingAssumption DEF AccountNames
<1>4. <<Account(chartAccountName, Home)>> \in Seq(Subject)
  BY <1>3
<1>5. Installed \in Binding
  BY <1>4 DEF Installed, Binding, Account
<1> QED
  BY <1>1, <1>2, <1>5

LEMMA Appended ==
  ASSUME NEW b \in Binding, NEW x \in Subject, NEW v \in Nat
  PROVE  /\ [subjects |-> Append(b.subjects, x), version |-> v] \in Binding
         /\ Len(Append(b.subjects, x)) = Len(b.subjects) + 1
         /\ Append(b.subjects, x)[Len(b.subjects) + 1] = x
         /\ \A i \in DOMAIN b.subjects :
              /\ i \in DOMAIN Append(b.subjects, x)
              /\ Append(b.subjects, x)[i] = b.subjects[i]
         /\ \A i \in DOMAIN Append(b.subjects, x) :
              i \in DOMAIN b.subjects \/ i = Len(b.subjects) + 1
<1>1. b.subjects \in Seq(Subject)
  BY DEF Binding
<1> QED
  BY <1>1 DEF Binding

LEMMA TypeStep ==
  ASSUME TypeOK, [Next]_vars
  PROVE  TypeOK'
<1> USE RoleBindingAssumption
    DEF TypeOK, Calls, Goto, Reply, Refused, Lost, Fault
<1>1. ASSUME NEW o \in Operators, NEW n \in Namespaces, Begin(o, n)
      PROVE  TypeOK'
  BY <1>1 DEF Begin
<1>2. ASSUME NEW o \in Operators, List(o) PROVE TypeOK'
  BY <1>2 DEF List
<1>3. ASSUME NEW o \in Operators, GetServiceAccount(o) PROVE TypeOK'
  BY <1>3 DEF GetServiceAccount
<1>4. ASSUME NEW o \in Operators, CreateServiceAccount(o) PROVE TypeOK'
  BY <1>4 DEF CreateServiceAccount
<1>5. ASSUME NEW o \in Operators, UpdateBinding(o) PROVE TypeOK'
  <2>1. Account(serviceAccountName, ns[o]) \in Subject
    BY ConstantSubjects DEF AccountNames
  <2>2. binding.version + 1 \in Nat /\ listed[o] \in Binding
    BY DEF Binding
  <2>3. binding' \in Binding
    BY <1>5, <2>1, <2>2, Appended DEF UpdateBinding
  <2>4. pc' \in [Operators -> Calls] /\ faults' \in 0 .. MaxFaults
    BY <1>5 DEF UpdateBinding
  <2> QED
    BY <1>5, <2>3, <2>4 DEF UpdateBinding
<1>6. ASSUME NEW o \in Operators, Return(o) \/ Crash(o) PROVE TypeOK'
  BY <1>6, ConstantSubjects DEF Return, Crash, Leave
<1>7. ASSUME NEW u \in Users, AddSubject(u) PROVE TypeOK'
  <2>1. binding.version + 1 \in Nat
    BY DEF Binding
  <2>2. binding' \in Binding
    BY <1>7, <2>1, ConstantSubjects, Appended DEF AddSubject
  <2> QED
    BY <1>7, <2>2 DEF AddSubject
<1>8. ASSUME NEW n \in Namespaces, DeleteAccount(n) PROVE TypeOK'
  BY <1>8 DEF DeleteAccount
<1>9. CASE UNCHANGED vars
  BY <1>9 DEF vars
<1> QED
  BY <1>1, <1>2, <1>3, <1>4, <1>5, <1>6, <1>7, <1>8, <1>9
  DEF Next, Ensure

\* Type correctness of the shared binding and of every call in progress, in
\* any interleaving of operators and other writers.
THEOREM BindingTypeCorrect == Spec => []TypeOK
<1>1. Init => TypeOK
  BY RoleBindingAssumption, ConstantSubjects DEF Init, TypeOK, Calls
<1>2. TypeOK /\ [Next]_vars => TypeOK'
  BY TypeStep
<1> QED
  BY <1>1, <1>2, PTL DEF Spec

----------------------------------------------------------------------------
(* Optimistic locking *)

\* An operator has a copy of the binding as it is, or of an older version, and
\* has not seen the namespace bound in it if it is about to bind it.  A bound
\* namespace has its account, and so has one about to be bound.
VersionInv ==
  \A o \in Operators :
    /\ listed[o].version <= binding.version
    /\ listed[o].version = binding.version
       => listed[o].subjects = binding.subjects
    /\ pc[o] \in {"GetServiceAccount", "CreateServiceAccount",
                  "UpdateBinding"}
       => ~BoundIn(listed[o].subjects, ns[o])
AccountInv ==
  /\ \A n \in Namespaces :
       BoundIn(binding.subjects, n) /\ n # Home
       => n \in accounts \cup Deletable
  /\ \A o \in Operators :
       pc[o] = "UpdateBinding" => ns[o] \in accounts \cup Deletable
FirstInv ==
  binding.version >= 1 /\ (binding.version = 1 => binding = Installed)
LockInv ==
  /\ FirstInv /\ VersionInv /\ AccountInv
  /\ OneAccountPerNamespace /\ EnsuredIsBound

\* Writing back the listed copy with one subject more, on the version that was
\* listed, appends to the binding.
LEMMA UpdateAppends ==
  ASSUME TypeOK, VersionInv, NEW o \in Operators, UpdateBinding(o)
  PROVE  \/ UNCHANGED binding
         \/ /\ binding'.subjects = Append(binding.subjects,
                                     Account(serviceAccountName, ns[o]))
            /\ binding'.version = binding.version + 1
            /\ ~BoundIn(binding.subjects, ns[o])
BY DEF TypeOK, Binding, VersionInv, UpdateBinding, BindingConflict

LEMMA InstalledBound ==
  /\ Installed.version = 1
  /\ \A n : BoundIn(Installed.subjects, n) <=> n = Home
  /\ DOMAIN Installed.subjects = {1}
BY DEF Installed, BoundIn, Account, chartAccountName

\* What an append does to the namespaces that are bound.
LEMMA AppendBinds ==
  ASSUME NEW b \in Binding, NEW x \in Subject, NEW n
  PROVE  BoundIn(Append(b.subjects, x), n) <=>
           \/ BoundIn(b.subjects, n)
           \/ x.kind = "ServiceAccount" /\ x.namespace = n
<1> DEFINE y == Append(b.subjects, x)
<1>1. /\ Len(b.subjects) + 1 \in DOMAIN y /\ y[Len(b.subjects) + 1] = x
      /\ \A i \in DOMAIN b.subjects : i \in DOMAIN y /\ y[i] = b.subjects[i]
      /\ \A i \in DOMAIN y :
           i \in DOMAIN b.subjects \/ i = Len(b.subjects) + 1
  <2>1. b.subjects \in Seq(Subject)
    BY DEF Binding
  <2> QED
    BY <2>1
<1> HIDE DEF y
<1>2. BoundIn(y, n) <=> \/ BoundIn(b.subjects, n)
                        \/ x.kind = "ServiceAccount" /\ x.namespace = n
  BY <1>1 DEF BoundIn
<1> QED
  BY <1>2 DEF y

LEMMA InitLock == Init => LockInv
<1> SUFFICES ASSUME Init PROVE LockInv
  OBVIOUS
<1>1. VersionInv
  <2>1. \A o \in Operators : listed[o] = binding /\ pc[o] = "idle"
    BY DEF Init
  <2>2. binding.version <= binding.version
    BY InstalledBound DEF Init
  <2> QED
    BY <2>1, <2>2 DEF VersionInv
<1>2. OneAccountPerNamespace
  BY InstalledBound DEF Init, OneAccountPerNamespace
<1>3. FirstInv /\ AccountInv /\ EnsuredIsBound
  BY InstalledBound DEF Init, FirstInv, AccountInv, EnsuredIsBound
<1> QED
  BY <1>1, <1>2, <1>3 DEF LockInv

\* What a step may do to the binding: append one subject, of a namespace that
\* has none and that has its account if the subject is an account.
Grows(x) ==
  /\ x \in Subject
  /\ binding'.subjects = Append(binding.subjects, x)
  /\ binding'.version = binding.version + 1
  /\ x.kind = "ServiceAccount" =>
       /\ ~BoundIn(binding.subjects, x.namespace)
       /\ x.namespace \in accounts \cup Deletable

LEMMA BindingGrows ==
  ASSUME TypeOK, LockInv, [Next]_vars
  PROVE  UNCHANGED binding \/ \E x : Grows(x)
<1>1. ASSUME NEW o \in Operators, UpdateBinding(o)
      PROVE  UNCHANGED binding \/ \E x : Grows(x)
  <2> DEFINE x == Account(serviceAccountName, ns[o])
  <2>1. x \in Subject /\ x.kind = "ServiceAccount" /\ x.namespace = ns[o]
    BY ConstantSubjects DEF TypeOK, AccountNames, Account
  <2>2. ns[o] \in accounts \cup Deletable
    BY <1>1 DEF LockInv, AccountInv, UpdateBinding
  <2>3. CASE ~ UNCHANGED binding
    BY <1>1, <2>1, <2>2, <2>3, UpdateAppends DEF LockInv, Grows
  <2> QED
    BY <2>3
<1>2. ASSUME NEW u \in Users, AddSubject(u)
      PROVE  \E x : Grows(x)
  BY <1>2, ConstantSubjects DEF AddSubject, Grows
<1> QED
  BY <1>1, <1>2 DEF Next, Ensure, vars, Begin, List, GetServiceAccount,
     CreateServiceAccount, Return, Crash, Leave, DeleteAccount

\* The part of the invariant that is about the binding alone.
LEMMA OneAccountStep ==
  ASSUME TypeOK, LockInv, [Next]_vars
  PROVE  OneAccountPerNamespace'
<1>1. ASSUME NEW x, Grows(x) PROVE OneAccountPerNamespace'
  <2>1. binding \in Binding /\ x \in Subject
    BY <1>1 DEF TypeOK, Grows
  <2>2. SUFFICES ASSUME NEW i \in DOMAIN binding'.subjects,
                        NEW j \in DOMAIN binding'.subjects,
                        binding'.subjects[i].kind = "ServiceAccount",
                        binding'.subjects[j].kind = "ServiceAccount",
                        binding'.subjects[i].namespace
                          = binding'.subjects[j].namespace
                 PROVE  i = j
    BY DEF OneAccountPerNamespace
  <2> DEFINE l == Len(binding.subjects) + 1
  <2>3. /\ binding'.subjects[l] = x
        /\ \A m \in DOMAIN binding.subjects :
             binding'.subjects[m] = binding.subjects[m]
        /\ \A m \in DOMAIN binding'.subjects :
             m \in DOMAIN binding.subjects \/ m = l
    BY <1>1, <2>1, Appended DEF Grows
  <2> HIDE DEF l
  <2>4. CASE i \in DOMAIN binding.subjects /\ j \in DOMAIN binding.subjects
    BY <2>2, <2>3, <2>4 DEF LockInv, OneAccountPerNamespace
  <2>5. CASE i = l /\ j \in DOMAIN binding.subjects
    BY <1>1, <2>2, <2>3, <2>5 DEF Grows, BoundIn
  <2>6. CASE i \in DOMAIN binding.subjects /\ j = l
    BY <1>1, <2>2, <2>3, <2>6 DEF Grows, BoundIn
  <2> QED
    BY <2>2, <2>3, <2>4, <2>5, <2>6
<1>2. CASE UNCHANGED binding
  BY <1>2 DEF LockInv, OneAccountPerNamespace
<1> QED
  BY <1>1, <1>2, BindingGrows

\* What the growing binding keeps, whoever wrote it.
LEMMA BoundStep ==
  ASSUME TypeOK, LockInv, [Next]_vars
  PROVE  /\ binding.version <= binding'.version
         /\ binding' # binding => binding.version < binding'.version
         /\ \A n : BoundIn(binding.subjects, n)
                   => BoundIn(binding'.subjects, n)
         /\ \A n : BoundIn(binding'.subjects, n)
                   => \/ BoundIn(binding.subjects, n)
                      \/ n \in accounts \cup Deletable
<1>1. binding \in Binding /\ binding.version \in Nat
  BY DEF TypeOK, Binding
<1>2. ASSUME NEW x, Grows(x)
      PROVE  /\ binding.version < binding'.version
             /\ \A n : BoundIn(binding.subjects, n)
                       => BoundIn(binding'.subjects, n)
             /\ \A n : BoundIn(binding'.subjects, n)
                       => \/ BoundIn(binding.subjects, n)
                          \/ n \in accounts \cup Deletable
  <2>1. /\ x \in Subject
        /\ binding'.subjects = Append(binding.subjects, x)
        /\ x.kind = "ServiceAccount" =>
             x.namespace \in accounts \cup Deletable
    BY <1>2 DEF Grows
  <2>2. binding.version < binding'.version
    BY <1>1, <1>2 DEF Grows
  <2>3. ASSUME NEW n
        PROVE  BoundIn(binding'.subjects, n) <=>
                 \/ BoundIn(binding.subjects, n)
                 \/ x.kind = "ServiceAccount" /\ x.namespace = n
    <3>1. BoundIn(Append(binding.subjects, x), n) <=>
            \/ BoundIn(binding.subjects, n)
            \/ x.kind = "ServiceAccount" /\ x.namespace = n
      BY <1>1, <2>1, AppendBinds
    <3> QED
      BY <2>1, <3>1
  <2> QED
    BY <2>1, <2>2, <2>3
<1>3. CASE UNCHANGED binding
  BY <1>1, <1>3
<1>4. CASE \E x : Grows(x)
  <2>1. PICK x : Grows(x)
    BY <1>4
  <2>2. binding'.version = binding.version + 1
    BY <2>1 DEF Grows
  <2> QED
    BY <1>1, <1>2, <2>1, <2>2
<1> QED
  BY <1>3, <1>4, BindingGrows

LEMMA FirstStep ==
  ASSUME TypeOK, LockInv, [Next]_vars
  PROVE  FirstInv'
<1>1. binding.version \in Nat /\ binding'.version \in Nat
  BY TypeStep DEF TypeOK, Binding
<1> QED
  BY <1>1, BoundStep DEF LockInv, FirstInv

\* The steps after which an operator may have listed the binding.
AfterList == {"GetServiceAccount", "CreateServiceAccount", "UpdateBinding"}

\* What a step may do to the local variables of operator o.
LEMMA LocalStep ==
  ASSUME TypeOK, [Next]_vars, NEW o \in Operators
  PROVE  \/ List(o)
         \/ CreateServiceAccount(o) \/ GetServiceAccount(o)
         \/ UpdateBinding(o)
         \/ listed'[o] = Installed /\ pc'[o] = "idle"
         \/ listed'[o] = listed[o] /\ pc'[o] = "List"
         \/ listed'[o] = listed[o] /\ pc'[o] = pc[o] /\ ns'[o] = ns[o]
<1>1. ASSUME NEW p \in Operators, Return(p) \/ Crash(p)
      PROVE  \/ listed'[o] = Installed /\ pc'[o] = "idle"
             \/ listed'[o] = listed[o] /\ pc'[o] = pc[o] /\ ns'[o] = ns[o]
  BY <1>1 DEF Return, Crash, Leave, Goto, TypeOK
<1>2. ASSUME NEW p \in Operators, NEW n \in Namespaces, Begin(p, n)
      PROVE  \/ listed'[o] = listed[o] /\ pc'[o] = "List"
             \/ listed'[o] = listed[o] /\ pc'[o] = pc[o] /\ ns'[o] = ns[o]
  BY <1>2 DEF Begin, Goto, TypeOK
<1>3. ASSUME NEW p \in Operators, p # o, Ensure(p)
      PROVE  listed'[o] = listed[o] /\ pc'[o] = pc[o] /\ ns'[o] = ns[o]
  BY <1>3 DEF Ensure, List, GetServiceAccount, CreateServiceAccount,
     UpdateBinding, Reply, Refused, Lost, Goto, TypeOK
<1>4. CASE \/ UNCHANGED vars
           \/ \E u \in Users : AddSubject(u)
           \/ \E n \in Namespaces : DeleteAccount(n)
  BY <1>4 DEF vars, AddSubject, DeleteAccount
<1> QED
  BY <1>1, <1>2, <1>3, <1>4 DEF Next, Ensure

LEMMA VersionStep ==
  ASSUME TypeOK, LockInv, [Next]_vars
  PROVE  VersionInv'
<1> SUFFICES ASSUME NEW o \in Operators
             PROVE  /\ listed'[o].version <= binding'.version
                    /\ listed'[o].version = binding'.version
                       => listed'[o].subjects = binding'.subjects
                    /\ pc'[o] \in AfterList
                       => ~BoundIn(listed'[o].subjects, ns'[o])
  BY DEF VersionInv, AfterList
<1>1. /\ binding.version \in Nat /\ binding'.version \in Nat
      /\ listed[o].version \in Nat
      /\ binding.version <= binding'.version
      /\ binding' # binding => binding.version < binding'.version
  BY TypeStep, BoundStep DEF TypeOK, Binding
<1>2. /\ listed[o].version <= binding.version
      /\ listed[o].version = binding.version
         => listed[o].subjects = binding.subjects
      /\ pc[o] \in AfterList => ~BoundIn(listed[o].subjects, ns[o])
  BY DEF LockInv, VersionInv, AfterList
<1>3. CASE /\ listed'[o] = listed[o] /\ ns'[o] = ns[o]
           /\ pc'[o] \in AfterList => pc[o] \in AfterList
  BY <1>1, <1>2, <1>3
<1>4. CASE List(o)
  <2>1. binding' = binding /\ ns'[o] = ns[o]
    BY <1>4 DEF List
  <2>2. CASE Refused(o, "err") /\ UNCHANGED listed
    BY <1>2, <2>1, <2>2 DEF Refused, Goto, TypeOK, AfterList
  <2>3. CASE /\ Reply(o, IF BoundIn(binding.subjects, ns[o])
                         THEN "ok" ELSE "GetServiceAccount")
             /\ listed' = [listed EXCEPT ![o] = binding]
    BY <1>1, <2>1, <2>3 DEF Reply, Goto, TypeOK, AfterList
  <2> QED
    BY <1>4, <2>2, <2>3 DEF List
<1>5. CASE listed'[o] = Installed /\ pc'[o] = "idle"
  <2>1. FirstInv'
    BY FirstStep
  <2> QED
    BY <1>1, <1>5, <2>1, InstalledBound DEF FirstInv, AfterList
<1>6. CASE listed'[o] = listed[o] /\ pc'[o] = "List"
  BY <1>1, <1>2, <1>6 DEF AfterList
<1>7. CASE GetServiceAccount(o) \/ CreateServiceAccount(o) \/ UpdateBinding(o)
  <2>1. listed'[o] = listed[o] /\ ns'[o] = ns[o] /\ pc[o] \in AfterList
    BY <1>7 DEF GetServiceAccount, CreateServiceAccount, UpdateBinding,
       AfterList
  <2> QED
    BY <1>3, <2>1
<1> QED
  BY <1>3, <1>4, <1>5, <1>6, <1>7, LocalStep

LEMMA AccountStep ==
  ASSUME TypeOK, LockInv, [Next]_vars
  PROVE  AccountInv'
<1>1. accounts \cup Deletable \subseteq accounts' \cup Deletable
  BY DEF Next, Ensure, vars, Begin, List, GetServiceAccount,
     CreateServiceAccount, UpdateBinding, Return, Crash, Leave, AddSubject,
     DeleteAccount
<1>2. ASSUME NEW n \in Namespaces, BoundIn(binding'.subjects, n), n # Home
      PROVE  n \in accounts' \cup Deletable
  BY <1>1, <1>2, BoundStep DEF LockInv, AccountInv
<1>3. ASSUME NEW o \in Operators, pc'[o] = "UpdateBinding"
      PROVE  ns'[o] \in accounts' \cup Deletable
  <2>1. CASE pc[o] = "UpdateBinding" /\ ns'[o] = ns[o]
    BY <1>1, <2>1 DEF LockInv, AccountInv
  <2>2. CASE GetServiceAccount(o)
    BY <1>3, <2>2 DEF GetServiceAccount, Reply, Refused, Goto, TypeOK
  <2>3. CASE CreateServiceAccount(o)
    BY <1>3, <2>3
    DEF CreateServiceAccount, Reply, Refused, Lost, Goto, TypeOK
  <2>4. CASE List(o)
    BY <1>3, <2>4 DEF List, Reply, Refused, Goto, TypeOK
  <2>5. CASE UpdateBinding(o)
    BY <2>1, <2>5 DEF UpdateBinding
  <2> QED
    BY <1>3, <2>1, <2>2, <2>3, <2>4, <2>5, LocalStep
<1> QED
  BY <1>2, <1>3 DEF AccountInv

LEMMA EnsuredStep ==
  ASSUME TypeOK, LockInv, [Next]_vars
  PROVE  EnsuredIsBound'
<1> SUFFICES ASSUME NEW o \in Operators, pc'[o] = "ok"
             PROVE  /\ BoundIn(binding'.subjects, ns'[o])
                    /\ ns'[o] # Home => ns'[o] \in accounts' \cup Deletable
  BY DEF EnsuredIsBound
<1>1. BoundIn(binding'.subjects, ns'[o])
  <2>1. CASE pc[o] = "ok" /\ ns'[o] = ns[o]
    BY <2>1, BoundStep DEF LockInv, EnsuredIsBound
  <2>2. CASE List(o)
    BY <2>2 DEF List, Reply, Refused, Goto, TypeOK
  <2>3. CASE UpdateBinding(o)
    <3>1. binding'.subjects = Append(listed[o].subjects,
                                     Account(serviceAccountName, ns[o]))
      BY <2>3 DEF UpdateBinding, Reply, Refused, Lost, Goto, TypeOK
    <3>2. Account(serviceAccountName, ns[o]) \in Subject
      BY ConstantSubjects DEF TypeOK, AccountNames
    <3>3. listed[o] \in Binding /\ ns'[o] = ns[o]
      BY <2>3 DEF TypeOK, UpdateBinding
    <3>4. /\ Account(serviceAccountName, ns[o]).kind = "ServiceAccount"
          /\ Account(serviceAccountName, ns[o]).namespace = ns[o]
      BY DEF Account
    <3> QED
      BY <3>1, <3>2, <3>3, <3>4, AppendBinds
  <2>4. CASE GetServiceAccount(o) \/ CreateServiceAccount(o)
    BY <2>4 DEF GetServiceAccount, CreateServiceAccount, Reply, Refused,
       Lost, Goto, TypeOK
  <2> QED
    BY <2>1, <2>2, <2>3, <2>4, LocalStep
<1>2. ns'[o] \in Namespaces
  BY TypeStep DEF TypeOK
<1> QED
  BY <1>1, <1>2, AccountStep DEF AccountInv

LEMMA LockInvariant == Spec => []LockInv
<1>1. Init => LockInv
  BY InitLock
<1>2. TypeOK /\ LockInv /\ [Next]_vars => LockInv'
  BY FirstStep, VersionStep, AccountStep, OneAccountStep, EnsuredStep
  DEF LockInv
<1> QED
  BY <1>1, <1>2, BindingTypeCorrect, PTL DEF Spec

\* However many operators look for a service account of a namespace and append
\* one at once, the binding has one for it.
THEOREM OneAccountIsBound == Spec => []OneAccountPerNamespace
<1>1. LockInv => OneAccountPerNamespace
  BY DEF LockInv
<1> QED
  BY <1>1, LockInvariant, PTL

\* Whenever EnsureClusterRoleBinding succeeds its namespace is bound, and to
\* an account that exists unless somebody deleted it.
THEOREM EnsureBinds == Spec => []EnsuredIsBound
<1>1. LockInv => EnsuredIsBound
  BY DEF LockInv
<1> QED
  BY <1>1, LockInvariant, PTL

\* No operator ever overwrites a subject that somebody else has added: the
\* version that was listed protects it.
THEOREM NoSubjectIsLost == Spec => SubjectsKept
<1>1. ASSUME TypeOK, LockInv, [Next]_vars
      PROVE  \A i \in DOMAIN binding.subjects : SubjectKept(i)
  <2>1. ASSUME NEW x, Grows(x), NEW i \in DOMAIN binding.subjects
        PROVE  SubjectKept(i)
    <3>1. binding \in Binding /\ x \in Subject
      BY <1>1, <2>1 DEF TypeOK, Grows
    <3> QED
      BY <2>1, <3>1, Appended DEF Grows, SubjectKept
  <2>2. CASE UNCHANGED binding
    BY <2>2 DEF SubjectKept
  <2> QED
    BY <1>1, <2>1, <2>2, BindingGrows
<1>2. TypeOK /\ LockInv /\ [Next]_vars
      => [\A i \in DOMAIN binding.subjects : SubjectKept(i)]_vars
  BY <1>1
<1> QED
  BY <1>2, LockInvariant, BindingTypeCorrect, PTL DEF Spec, SubjectsKept
=============================================================================
