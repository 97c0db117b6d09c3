---------------------------- MODULE MCBuildName ----------------------------
(***************************************************************************)
(* Instances of BuildName for TLC: the lengths around every boundary of    *)
(* the switch, with the suffixes the operator uses.                        *)
(***************************************************************************)
EXTENDS BuildName

MCNameLengths == {1, 30, 31, 32} \cup 48 .. 51 \cup 54 .. 57 \cup 61 .. 65

\* "", "expose", "cleanup" and "proxy-secret".
UsedSuffixes == {0, 6, 7, 12}
=============================================================================
