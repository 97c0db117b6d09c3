-------------------------- MODULE BuildNameProofs --------------------------
(***************************************************************************)
(* buildName for resource names of every length.                           *)
(***************************************************************************)
EXTENDS BuildName, TLAPS

\* What is known of the inputs, and that the names are the ones buildName
\* builds from them.
InputInv ==
  /\ resource \in [1 .. 2 -> [len : NameLengths, dash : BOOLEAN]]
  /\ suffix \in [len : SuffixLengths, dash : BOOLEAN]
  /\ common \in Nat
  /\ common < resource[1].len \/ common < resource[2].len
  /\ built # <<>> => built = [i \in 1 .. 2 |-> Parts(resource[i], suffix)]

\* The inputs stay as they were, and buildName is what made the names.
LEMMA InputInvariant == Spec => []InputInv
<1> USE LengthsAssumption
<1>1. Init => InputInv
  BY DEF Init, InputInv
<1>2. InputInv /\ [Next]_vars => InputInv'
  BY DEF InputInv, Next, buildName, vars
<1> QED
  BY <1>1, <1>2, PTL DEF Spec

\* With a suffix of fewer than maxLenOnePart characters nothing is sliced of
\* it, and the resource name gives way.
LEMMA ShortSuffixParts ==
  ASSUME NEW r \in [len : Nat \ {0}, dash : BOOLEAN],
         NEW x \in [len : Nat, dash : BOOLEAN], x.len < maxLenOnePart
  PROVE  /\ Parts(r, x).suffix = x.len
         /\ Parts(r, x).name \in Int
         /\ Parts(r, x).name + x.len <= maxLenName
         /\ r.len + x.len <= maxLenName => Parts(r, x).name = r.len
<1>1. r.len \in Nat \ {0} /\ x.len \in Nat
  OBVIOUS
<1>2. CASE Whole(r.len, x.len)
  <2>1. Slice(r.len, x.len) = [name |-> r.len, suffix |-> x.len]
    BY <1>1, <1>2 DEF Slice
  <2> QED
    BY <1>1, <1>2, <2>1 DEF Parts, Trim, Whole, maxLenName, maxLenOnePart
<1>3. CASE ~Whole(r.len, x.len)
  <2>1. r.len > maxLenOnePart /\ r.len >= maxLenName - x.len
    BY <1>1, <1>3 DEF Whole, maxLenName, maxLenOnePart
  <2>2. Slice(r.len, x.len) =
          [name |-> maxLenName - x.len, suffix |-> x.len]
    BY <1>1, <1>3, <2>1 DEF Slice, maxLenName, maxLenOnePart
  <2> QED
    BY <1>1, <2>1, <2>2 DEF Parts, Trim, maxLenName, maxLenOnePart
<1> QED
  BY <1>2, <1>3

\* What that lemma needs of the state.
LEMMA BuiltParts ==
  ASSUME InputInv, built # <<>>, NEW i \in 1 .. 2,
         SuffixLengths \subseteq 0 .. 30
  PROVE  /\ built[i] = Parts(resource[i], suffix)
         /\ resource[i] \in [len : Nat \ {0}, dash : BOOLEAN]
         /\ suffix \in [len : Nat, dash : BOOLEAN]
         /\ suffix.len < maxLenOnePart
<1>1. built[i] = Parts(resource[i], suffix)
  BY DEF InputInv
<1>2. resource[i] \in [len : NameLengths, dash : BOOLEAN]
  BY DEF InputInv
<1>3. resource[i] \in [len : Nat \ {0}, dash : BOOLEAN]
  BY <1>2, LengthsAssumption
<1>4. suffix \in [len : SuffixLengths, dash : BOOLEAN]
  BY DEF InputInv
<1>5. suffix.len \in 0 .. 30
  BY <1>4
<1>6. suffix \in [len : Nat, dash : BOOLEAN]
  BY <1>4, LengthsAssumption
<1>7. suffix.len < maxLenOnePart
  <2>1. \A k \in 0 .. 30 : k < maxLenOnePart
    BY DEF maxLenOnePart
  <2> QED
    BY <1>5, <2>1, Zenon
<1> QED
  BY <1>1, <1>3, <1>6, <1>7, Zenon

\* Every name buildName makes with a suffix of fewer than 31 characters, as
\* all of the operator's are, has at most 63 characters, for SSO names of any
\* length.
THEOREM NamesFit ==
  ASSUME SuffixLengths \subseteq 0 .. 30
  PROVE  Spec => []Fits
<1>1. InputInv => Fits
  <2> SUFFICES ASSUME InputInv, built # <<>>, NEW i \in 1 .. 2
               PROVE  LengthOf(built[i]) <= 63
    BY DEF Fits
  <2>1. /\ built[i] = Parts(resource[i], suffix)
        /\ resource[i] \in [len : Nat \ {0}, dash : BOOLEAN]
        /\ suffix \in [len : Nat, dash : BOOLEAN]
        /\ suffix.len < maxLenOnePart
    BY BuiltParts, Zenon
  <2>2. /\ Parts(resource[i], suffix).suffix = suffix.len
        /\ Parts(resource[i], suffix).name \in Int
        /\ Parts(resource[i], suffix).name + suffix.len <= maxLenName
    BY <2>1, ShortSuffixParts, Zenon
  <2>3. suffix.len \in Nat
    BY <2>1
  <2> QED
    BY <2>1, <2>2, <2>3 DEF LengthOf, maxLenName
<1> QED
  BY <1>1, InputInvariant, PTL

\* Two SSOs of different names get different secrets, deployments and jobs as
\* long as name and suffix have at most 62 characters together.
THEOREM NamesApart ==
  ASSUME SuffixLengths \subseteq 0 .. 30
  PROVE  Spec => []Apart
<1>1. InputInv => Apart
  <2> SUFFICES ASSUME InputInv, built # <<>>,
                      \A i \in 1 .. 2 :
                        resource[i].len + suffix.len <= maxLenName,
                      built[1] = built[2], built[1].name <= common
               PROVE  FALSE
    BY DEF Apart
  <2>1. ASSUME NEW i \in 1 .. 2
        PROVE  built[i].name = resource[i].len /\ resource[i].len \in Nat
    <3>1. /\ built[i] = Parts(resource[i], suffix)
          /\ resource[i] \in [len : Nat \ {0}, dash : BOOLEAN]
          /\ suffix \in [len : Nat, dash : BOOLEAN]
          /\ suffix.len < maxLenOnePart
      BY BuiltParts, Zenon
    <3>2. Parts(resource[i], suffix).name = resource[i].len
      BY <3>1, ShortSuffixParts, Zenon
    <3>3. resource[i].len \in Nat
      BY <3>1
    <3> QED
      BY <3>1, <3>2, <3>3, Zenon
  <2>2. resource[1].len \in Nat /\ resource[2].len \in Nat
    BY <2>1
  <2>3. built[1].name = resource[1].len /\ built[2].name = resource[2].len
    BY <2>1
  <2>4. /\ common \in Nat
        /\ common < resource[1].len \/ common < resource[2].len
    BY DEF InputInv
  <2>5. built[1].name = built[2].name
    OBVIOUS
  <2> QED
    BY <2>2, <2>3, <2>4, <2>5
<1> QED
  BY <1>1, InputInvariant, PTL
=============================================================================
