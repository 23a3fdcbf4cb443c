---------------------------- MODULE MCEnableGate ----------------------------
(***************************************************************************)
(* Three invocations: an enable, one that is another enable or gives it a  *)
(* review, and one that revokes a review or creates an override.           *)
(***************************************************************************)
EXTENDS EnableGate, TLC

CONSTANTS c1, c2, exe, r1, r2, r3

\* c1 needs a review, c2 an override; an override of c1 must not help it.
MCShips == (c1 :> exe) @@ (c2 :> None)
Enables(m) == [do : {"enable"}, mode : m]
Reviews == [do : {"review"}, of : {c1}, accepted : BOOLEAN,
            expires : {MaxTime}]
Overrides == [do : {"override"}, of : {c1, c2}, expires : {MaxTime}]
Revokes == [do : {"revoke"}, exe : Executable]
MCMay == (r1 :> Enables(Mode)) @@ (r2 :> Reviews \cup Enables({"hardened"}))
            @@ (r3 :> Revokes \cup Overrides)
=============================================================================
