----------------------------- MODULE BuildName -----------------------------
(***************************************************************************)
(* pkg/proxy/proxy.go, buildName: the names of the deployment (suffix ""), *)
(* of the secret ("proxy-secret") and of the jobs ("expose", "cleanup") of *)
(* two SSOs, at the real widths.  A string is its length and whether the   *)
(* last character before the place it is cut at is a dash; the two         *)
(* resource names agree on their first `common' characters and differ      *)
(* after them.                                                             *)
(***************************************************************************)
EXTENDS Integers

CONSTANTS
  NameLengths,    \* lengths of the SSO names
  SuffixLengths   \* lengths of the suffixes

ASSUME LengthsAssumption ==
  NameLengths \subseteq Nat \ {0} /\ SuffixLengths \subseteq Nat

VARIABLES
  resource,  \* the two SSO names
  common,    \* the length of their longest common prefix
  suffix,    \* the suffix
  built      \* the names built for them, once they are

vars == <<resource, common, suffix, built>>

maxLenName    == 62
maxLenOnePart == 31

\* Mutant: the bound is taken for the length of the built name.
WholeTooLong(n, m) ==
  \/ m > 0 /\ n + m <= maxLenName + 1
  \/ m = 0 /\ n <= maxLenName + 1

\* The first two cases of the switch return both parts whole.
Whole(n, m) ==
  \/ m > 0 /\ n + m < maxLenName
  \/ m = 0 /\ n < maxLenName

\* Mutant: a resource name is always sliced to its half.
SliceEqually(n, m) ==
  IF Whole(n, m) \/ n < maxLenOnePart
  THEN [name |-> n, suffix |-> m]
  ELSE [name |-> maxLenOnePart, suffix |-> m]

\* Where the switch slices a resource name of length n and a suffix of length
\* m.  When one of them has exactly maxLenOnePart characters, only a resource
\* name that is too long by itself is sliced.
Slice(n, m) ==
  CASE Whole(n, m) -> [name |-> n, suffix |-> m]
    [] ~Whole(n, m) /\ m > maxLenOnePart /\ n > maxLenOnePart ->
         [name |-> maxLenOnePart, suffix |-> maxLenOnePart]
    [] ~Whole(n, m) /\ m > maxLenOnePart /\ n < maxLenOnePart ->
         [name |-> n, suffix |-> maxLenName - n]
    [] ~Whole(n, m) /\ m < maxLenOnePart /\ n > maxLenOnePart ->
         [name |-> maxLenName - m, suffix |-> m]
    [] OTHER ->
         [name |-> IF n > maxLenName + 1 THEN maxLenName ELSE n, suffix |-> m]

\* strings.TrimSuffix(s[:k], "-"), as a length.  Neither a resource name nor a
\* suffix ends in a dash, so only a proper prefix can.
Trim(s, k) == IF s.dash /\ k < s.len THEN k - 1 ELSE k
Parts(r, x) ==
  LET k == Slice(r.len, x.len)
  IN  [name |-> Trim(r, k.name), suffix |-> Trim(x, k.suffix)]

\* A dash joins the parts unless there is no suffix.
LengthOf(b) == IF b.suffix = 0 THEN b.name ELSE b.name + 1 + b.suffix

----------------------------------------------------------------------------
\* Two different names of one namespace, and a suffix.  Where both are sliced
\* within their common prefix they agree on the dash.
Init ==
  /\ resource \in [1 .. 2 -> [len : NameLengths, dash : BOOLEAN]]
  /\ common \in 0 .. resource[1].len
  /\ common <= resource[2].len
  /\ common < resource[1].len \/ common < resource[2].len
  /\ suffix \in [len : SuffixLengths, dash : BOOLEAN]
  /\ (\A i \in 1 .. 2 : Slice(resource[i].len, suffix.len).name <= common)
       => resource[1].dash = resource[2].dash
  /\ built = <<>>

buildName ==
  /\ built = <<>>
  /\ built' = [i \in 1 .. 2 |-> Parts(resource[i], suffix)]
  /\ UNCHANGED <<resource, common, suffix>>

Next == buildName
Spec == Init /\ [][Next]_vars

----------------------------------------------------------------------------
\* The name has at most the 63 characters that Kubernetes allows in a label
\* and in the names derived from it, whichever case of the switch made it.
Fits ==
  built # <<>> => \A i \in 1 .. 2 : LengthOf(built[i]) <= 63

\* Two SSOs never share a secret, a deployment or a job by its name, as long
\* as name and suffix have at most 62 characters: cutting happens at the same
\* place in both names, so longer names with one prefix do collide.
Apart ==
  built # <<>> /\ (\A i \in 1 .. 2 :
                     resource[i].len + suffix.len <= maxLenName)
    => ~(built[1] = built[2] /\ built[1].name <= common)
=============================================================================
