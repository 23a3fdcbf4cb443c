---------------------------- MODULE ReviewedTrust ----------------------------
(***************************************************************************)
(* What the trust-history lock and the reviewed update promise together,   *)
(* without files, native commands or program counters: one holder at a     *)
(* time; a holder's plugin advances only to an identity that was approved  *)
(* for that plugin and then confirmed as installed; an operator may also   *)
(* accept an identity directly, but only while nobody holds the lock; the  *)
(* other plugins' baselines are never touched.                             *)
(***************************************************************************)
CONSTANTS Plugin, Identity, Run, None

VARIABLES holder,     \* the run that holds the trust history, or None
          confirmed,  \* <<plugin, identity>> the holder verified, or None
          approved,   \* set of <<plugin, identity>> operators accepted
          trust       \* latest baseline of each plugin

trustVars == <<holder, confirmed, approved, trust>>

TrustInit ==
    /\ holder = None
    /\ confirmed = None
    /\ approved = {}
    /\ trust \in [Plugin -> Identity \cup {None}]

Acquire(r) ==
    /\ holder = None
    /\ holder' = r
    /\ UNCHANGED <<confirmed, approved, trust>>

Approve(p, i) ==
    /\ holder # None
    /\ approved' = approved \cup {<<p, i>>}
    /\ UNCHANGED <<holder, confirmed, trust>>

Confirm(p, i) ==
    /\ holder # None
    /\ <<p, i>> \in approved
    /\ confirmed' = <<p, i>>
    /\ UNCHANGED <<holder, approved, trust>>

Advance(p, i) ==
    /\ confirmed = <<p, i>>
    /\ trust' = [trust EXCEPT ![p] = i]
    /\ confirmed' = None
    /\ UNCHANGED <<holder, approved>>

\* The holder ends, or is stopped at any point.
Release ==
    /\ holder # None
    /\ holder' = None
    /\ confirmed' = None
    /\ UNCHANGED <<approved, trust>>

AcceptDirectly(p, i) ==
    /\ holder = None
    /\ approved' = approved \cup {<<p, i>>}
    /\ trust' = [trust EXCEPT ![p] = i]
    /\ UNCHANGED <<holder, confirmed>>

TrustNext ==
    \/ \E r \in Run : Acquire(r)
    \/ \E p \in Plugin, i \in Identity :
          \/ Approve(p, i) \/ Confirm(p, i)
          \/ Advance(p, i) \/ AcceptDirectly(p, i)
    \/ Release

TrustSpec == TrustInit /\ [][TrustNext]_trustVars

=============================================================================
