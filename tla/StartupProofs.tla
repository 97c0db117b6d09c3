--------------------------- MODULE StartupProofs ---------------------------
(***************************************************************************)
(* The cookie key, for every number of operators and of faults.            *)
(***************************************************************************)
EXTENDS Startup, TLAPS

\* Every step of every operator keeps the types, the keys of the proxies it
\* configures included: a running operator has a key.
RunningHasKey == \A o \in Operators : pc[o] = "running" => cookie[o] \in Keys

THEOREM TypeInvariant == Spec => []TypeOK
<1> USE StartupAssumption
<1>1. Init => TypeOK /\ RunningHasKey
  <2> SUFFICES ASSUME Init PROVE TypeOK /\ RunningHasKey
    OBVIOUS
  <2>1. certs \in BOOLEAN /\ crd \in BOOLEAN /\ reset \in BOOLEAN
    BY Zenon DEF Init
  <2>2. secret \in Keys \cup {None, NoKey} /\ faults \in 0 .. MaxFaults
    BY DEF Init
  <2>3. pc \in [Operators -> Steps]
    BY DEF Init, Steps, Exit
  <2>4. cookie \in [Operators -> Keys \cup {None}]
    BY DEF Init
  <2>5. proxies \subseteq Keys /\ RunningHasKey
    BY DEF Init, RunningHasKey, Exit
  <2> QED
    BY <2>1, <2>2, <2>3, <2>4, <2>5 DEF TypeOK
<1>2. TypeOK /\ RunningHasKey /\ [Next]_vars => TypeOK' /\ RunningHasKey'
  <2> SUFFICES ASSUME TypeOK, RunningHasKey, [Next]_vars
               PROVE  TypeOK' /\ RunningHasKey'
    OBVIOUS
  <2> USE DEF TypeOK, RunningHasKey, Steps, Exit, Goto, Reply, Refused, Lost,
              Fault
  <2>1. ASSUME NEW o \in Operators, NewClient(o)
        PROVE  TypeOK' /\ RunningHasKey'
    BY <2>1 DEF NewClient
  <2>2. ASSUME NEW o \in Operators, GetCRD(o)
        PROVE  TypeOK' /\ RunningHasKey'
    BY <2>2 DEF GetCRD
  <2>3. ASSUME NEW o \in Operators, CreateCRD(o)
        PROVE  TypeOK' /\ RunningHasKey'
    <3>1. crd' \in BOOLEAN
      BY <2>3, Zenon DEF CreateCRD
    <3>2. /\ pc' \in [Operators -> Steps]
          /\ faults' \in 0 .. MaxFaults
          /\ RunningHasKey'
      BY <2>3 DEF CreateCRD
    <3> QED
      BY <2>3, <3>1, <3>2 DEF CreateCRD
  <2>4. ASSUME NEW o \in Operators, Watch(o)
        PROVE  TypeOK' /\ RunningHasKey'
    BY <2>4 DEF Watch
  <2>5. ASSUME NEW o \in Operators, GetSecret(o)
        PROVE  TypeOK' /\ RunningHasKey'
    <3>1. reset' \in BOOLEAN
      BY <2>5, Zenon DEF GetSecret
    <3>2. /\ pc' \in [Operators -> Steps]
          /\ cookie' \in [Operators -> Keys \cup {None}]
          /\ faults' \in 0 .. MaxFaults
          /\ RunningHasKey'
      BY <2>5 DEF GetSecret
    <3> QED
      BY <2>5, <3>1, <3>2 DEF GetSecret
  <2>6. ASSUME NEW o \in Operators, DeleteSecret(o)
        PROVE  TypeOK' /\ RunningHasKey'
    BY <2>6 DEF DeleteSecret
  <2>7. ASSUME NEW o \in Operators, StoreSecret(o)
        PROVE  TypeOK' /\ RunningHasKey'
    BY <2>7 DEF StoreSecret, Fresh, Unused
  <2>8. ASSUME NEW o \in Operators, Crash(o)
        PROVE  TypeOK' /\ RunningHasKey'
    BY <2>8 DEF Crash
  <2>9. ASSUME NEW o \in Operators, Validate(o)
        PROVE  TypeOK' /\ RunningHasKey'
    BY <2>9 DEF Validate
  <2>10. ASSUME NEW o \in Operators, Run(o)
         PROVE  TypeOK' /\ RunningHasKey'
    BY <2>10 DEF Run
  <2>11. CASE IssueCerts
    <3>1. certs' \in BOOLEAN
      BY <2>11, Zenon DEF IssueCerts
    <3> QED
      BY <2>11, <3>1 DEF IssueCerts
  <2>12. CASE UNCHANGED vars
    BY <2>12 DEF vars
  <2> QED
    BY <2>1, <2>2, <2>3, <2>4, <2>5, <2>6, <2>7, <2>8, <2>9, <2>10, <2>11,
       <2>12
    DEF Next, Start
<1> QED
  BY <1>1, <1>2, PTL DEF Spec

\* A step that is not one of the three on the secret changes neither the
\* secret nor any key, and starts no operator.
Elsewhere(o) ==
  /\ UNCHANGED <<secret, reset, proxies>>
  /\ pc' = [pc EXCEPT ![o] = pc'[o]]
  /\ pc'[o] \notin {"running", "DeleteSecret"}
  /\ \A p \in Operators \ {o} : cookie'[p] = cookie[p]

LEMMA ElsewhereSteps ==
  ASSUME TypeOK, NEW o \in Operators,
         \/ Validate(o) \/ NewClient(o) \/ GetCRD(o) \/ CreateCRD(o)
         \/ Watch(o) \/ Crash(o)
  PROVE  Elsewhere(o)
<1> USE DEF TypeOK, Elsewhere, Exit, Goto, Reply, Refused, Lost, Fault
<1>1. CASE NewClient(o)
  BY <1>1 DEF NewClient
<1>2. CASE GetCRD(o)
  BY <1>2 DEF GetCRD
<1>3. CASE CreateCRD(o)
  BY <1>3 DEF CreateCRD
<1>4. CASE Watch(o)
  BY <1>4 DEF Watch
<1>5. CASE Crash(o)
  BY <1>5 DEF Crash
<1>6. CASE Validate(o)
  BY <1>6 DEF Validate
<1> QED
  BY <1>1, <1>2, <1>3, <1>4, <1>5, <1>6

----------------------------------------------------------------------------
(* Any number of operators, until one cannot read the key *)

\* Nobody has deleted the secret, whoever runs has read or written it, and so
\* had whoever configured a proxy.
StoredInv ==
  ~reset =>
    /\ \A o \in Operators : pc[o] # "DeleteSecret"
    /\ \A o \in Operators :
         pc[o] = "running" => cookie[o] = secret /\ secret \in Keys
    /\ proxies \subseteq {secret}

LEMMA StoredInvariant == Spec => []StoredInv
<1> USE StartupAssumption
<1>1. Init => StoredInv
  BY DEF Init, StoredInv, Exit
<1>2. TypeOK /\ StoredInv /\ [Next]_vars => StoredInv'
  <2> SUFFICES ASSUME TypeOK, StoredInv, [Next]_vars, ~reset' PROVE StoredInv'
    BY DEF StoredInv
  <2>1. ASSUME NEW o \in Operators, Elsewhere(o) PROVE StoredInv'
    BY <2>1 DEF TypeOK, StoredInv, Elsewhere
  <2>2. ASSUME NEW o \in Operators, GetSecret(o) PROVE StoredInv'
    BY <2>2 DEF TypeOK, StoredInv, GetSecret, Reply, Refused, Goto
  <2>3. ASSUME NEW o \in Operators, DeleteSecret(o) PROVE StoredInv'
    BY <2>3 DEF StoredInv, DeleteSecret
  <2>4. ASSUME NEW o \in Operators, StoreSecret(o) PROVE StoredInv'
    <3>1. CASE secret = None
      <4>1. proxies = {}
        BY <2>4, <3>1 DEF TypeOK, StoredInv, StoreSecret
      <4> QED
        BY <2>4, <3>1, <4>1 DEF TypeOK, StoredInv, StoreSecret, Fresh, Unused,
           Reply, Lost, Refused, Goto, Exit
    <3>2. CASE secret # None
      BY <2>4, <3>2 DEF TypeOK, StoredInv, StoreSecret, Reply, Refused, Goto,
         Exit
    <3> QED
      BY <3>1, <3>2
  <2>5. ASSUME NEW o \in Operators, Run(o) PROVE StoredInv'
    BY <2>5 DEF StoredInv, Run
  <2>6. CASE IssueCerts
    BY <2>6 DEF StoredInv, IssueCerts
  <2>7. CASE UNCHANGED vars
    BY <2>7 DEF vars, StoredInv
  <2> QED
    BY <2>1, <2>2, <2>3, <2>4, <2>5, <2>6, <2>7, ElsewhereSteps
    DEF Next, Start
<1> QED
  BY <1>1, <1>2, TypeInvariant, PTL DEF Spec

\* Operators that start together, crash and restart in any order, with any
\* call failing, run with the one key that is stored, until a start that
\* could not read the key deletes it.
THEOREM OperatorsShareTheKey == Spec => []KeysAgree
<1>1. StoredInv => KeysAgree
  BY DEF StoredInv, KeysAgree, UsesStoredKey
<1> QED
  BY <1>1, StoredInvariant, PTL

\* However many operators configured proxies, one after another or at once,
\* and however many of them died since, all proxies accept one key and it is
\* the one that the next operator to start will read.
THEOREM ProxiesShareTheKey == Spec => []ProxiesAgree
<1>1. StoredInv => ProxiesAgree
  BY DEF StoredInv, ProxiesAgree
<1> QED
  BY <1>1, StoredInvariant, PTL

----------------------------------------------------------------------------
(* One operator, whatever fails *)

AllUseStoredKey == \A o \in Operators : UsesStoredKey(o)

\* An operator that is alone runs with the stored key whatever calls of its
\* earlier starts failed, a failed read that made it delete the key included.
THEOREM LoneOperatorKeepsTheKey ==
  ASSUME \A o, p \in Operators : o = p
  PROVE  Spec => []AllUseStoredKey
<1> USE DEF AllUseStoredKey, UsesStoredKey
<1>1. Init => AllUseStoredKey
  BY DEF Init, Exit
<1>2. TypeOK /\ AllUseStoredKey /\ [Next]_vars => AllUseStoredKey'
  <2> SUFFICES ASSUME TypeOK, AllUseStoredKey, [Next]_vars
               PROVE  AllUseStoredKey'
    OBVIOUS
  <2>1. ASSUME NEW o \in Operators, Elsewhere(o) PROVE AllUseStoredKey'
    BY <2>1 DEF TypeOK, Elsewhere
  <2>2. ASSUME NEW o \in Operators, GetSecret(o) PROVE AllUseStoredKey'
    BY <2>2 DEF TypeOK, GetSecret, Reply, Refused, Goto
  <2>3. ASSUME NEW o \in Operators, DeleteSecret(o) PROVE AllUseStoredKey'
    BY <2>3 DEF TypeOK, DeleteSecret, Reply, Refused, Goto
  <2>4. ASSUME NEW o \in Operators, StoreSecret(o) PROVE AllUseStoredKey'
    BY <2>4 DEF TypeOK, StoreSecret, Fresh, Unused, Reply, Lost, Refused, Goto,
       Exit
  <2>5. CASE IssueCerts \/ \E o \in Operators : Run(o)
    BY <2>5 DEF IssueCerts, Run
  <2>6. CASE UNCHANGED vars
    BY <2>6 DEF vars
  <2> QED
    BY <2>1, <2>2, <2>3, <2>4, <2>5, <2>6, ElsewhereSteps DEF Next, Start
<1> QED
  BY <1>1, <1>2, TypeInvariant, PTL DEF Spec
=============================================================================
