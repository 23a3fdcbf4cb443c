----------------------------- MODULE MCScanCache -----------------------------
(***************************************************************************)
(* TLC instances of ScanCache.                                             *)
(***************************************************************************)
EXTENDS ScanCache, TLC

CONSTANTS s1, s2, v1, a, b, trust, marketplace

\* Scans are alike, and so are plugin contents.
Symmetry == Permutations(Scan) \cup Permutations(Content)

=============================================================================
