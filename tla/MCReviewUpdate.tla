--------------------------- MODULE MCReviewUpdate ---------------------------
(***************************************************************************)
(* TLC instances of ReviewUpdate: two invocations, two plugins, and three  *)
(* commits (the installed one, a candidate, and one that may win the race).*)
(***************************************************************************)
EXTENDS ReviewUpdate, TLC

CONSTANTS p1, p2, c0, c1, c2, r1, r2

\* Invocations are alike.
Symmetry == Permutations({r1, r2})

=============================================================================
