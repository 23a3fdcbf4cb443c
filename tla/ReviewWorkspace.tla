-------------------------- MODULE ReviewWorkspace --------------------------
(***************************************************************************)
(* The private directory of a review (crates/omasafe-cli/src/main.rs, fn   *)
(* review_workspace_base to try_exclusive_lock, TempCandidate): a job      *)
(* directory with an owner lock in it, held by flock while the review      *)
(* lives, and the sweep by which a later review removes what dead ones     *)
(* left.                                                                   *)
(*                                                                         *)
(* A job has 16 random bytes for a name, so a job is its owner's.  The     *)
(* flock is on the lock file's inode: it survives the file's removal and   *)
(* falls when its holder closes it or dies.                                *)
(***************************************************************************)
EXTENDS Integers, FiniteSets

CONSTANTS Owner,       \* reviews, each with a job of its own
          Sweeper,     \* sweeps at the start of other reviews
          Nobody,      \* a lock that is free, a place that is not set
          Places,      \* what the environment and the disk may look like
          MaxKills     \* bound on kills

ASSUME WorkspaceBounds == MaxKills \in Nat

\* A lock has at most one holder, and every process is one of its own.
ASSUME ProcessesDiffer ==
    Owner \cap Sweeper = {} /\ Nobody \notin Owner \cup Sweeper

VARIABLES
    place,       \* the directories a base can be made in
    jobDir,      \* each job's directory: absent, public or private
    ownerLock,   \* whether .owner.lock is in it
    flock,       \* who holds the lock on its inode
    owner,       \* each review: idle, made, lockfile, locked, using, ...
    sweeper,     \* each sweep: the job it looks at, and how far it is
    kills

workspace == <<place, jobDir, ownerLock, flock, owner, sweeper, kills>>

(***************************************************************************)
(* Where jobs go.  A directory is missing, private (0700 and ours), ours   *)
(* (others may read it), open (others may write, or not ours) or a link.   *)
(* A missing one is made private.                                          *)
(***************************************************************************)
Made(d) == IF d = "missing" THEN "private" ELSE d
\* ensure_workspace_components, and private_directory_metadata on the leaf.
Component(d) == Made(d) # "link"
PrivateLeaf(d) == Made(d) = "private"

ReviewWorkspaceBase(p) ==
    CASE p.runtime # Nobody ->
            IF p.runtime = "private" /\ PrivateLeaf(p.runtimeBase)
            THEN "runtime" ELSE Nobody
      [] /\ p.runtime = Nobody
         /\ Component(p.cache) /\ Made(p.cache) \in {"private", "ours"}
         /\ Component(p.cacheOmasafe) /\ PrivateLeaf(p.cacheTmp) -> "cache"
      [] OTHER -> Nobody

(***************************************************************************)
(* A review: fresh_review_job, TempCandidate::create, its use, its drop.   *)
(***************************************************************************)
WorkspaceInit ==
    /\ place \in Places
    /\ jobDir = [o \in Owner |-> "absent"]
    /\ ownerLock = [o \in Owner |-> FALSE]
    /\ flock = [o \in Owner |-> Nobody]
    /\ owner = [o \in Owner |-> "idle"]
    /\ sweeper = [s \in Sweeper |-> [pc |-> "idle", job |-> Nobody]]
    /\ kills = 0

OwnerStep(o, from, to) == /\ owner[o] = from
                          /\ owner' = [owner EXCEPT ![o] = to]
                          /\ UNCHANGED <<place, sweeper, kills>>

MakeJob(o) ==
    /\ ReviewWorkspaceBase(place) # Nobody
    /\ OwnerStep(o, "idle", "made")
    /\ jobDir' = [jobDir EXCEPT ![o] = "public"]
    /\ UNCHANGED <<ownerLock, flock>>

MakePrivate(o) ==
    /\ OwnerStep(o, "made", "private")
    /\ jobDir' = [jobDir EXCEPT ![o] = "private"]
    /\ UNCHANGED <<ownerLock, flock>>

MakeOwnerLock(o) ==
    /\ OwnerStep(o, "private", "lockfile")
    /\ ownerLock' = [ownerLock EXCEPT ![o] = TRUE]
    /\ UNCHANGED <<jobDir, flock>>

\* A sweep may have come between the file and the lock on it.
TakeOwnerLock(o) ==
    /\ flock[o] = Nobody
    /\ OwnerStep(o, "lockfile", "locked")
    /\ flock' = [flock EXCEPT ![o] = o]
    /\ UNCHANGED <<jobDir, ownerLock>>

\* Both the file and the directory are removed, as far as they are there.
OwnerLockTaken(o) ==
    /\ flock[o] # Nobody
    /\ OwnerStep(o, "lockfile", "failed")
    /\ ownerLock' = [ownerLock EXCEPT ![o] = FALSE]
    /\ jobDir' = [jobDir EXCEPT ![o] = "absent"]
    /\ UNCHANGED flock

OpenJobDirectory(o) ==
    /\ OwnerStep(o, "locked", IF jobDir[o] = "absent" THEN "failed"
                              ELSE "using")
    /\ flock' = [flock EXCEPT ![o] = IF jobDir[o] = "absent" THEN Nobody
                                     ELSE o]
    /\ UNCHANGED <<jobDir, ownerLock>>

\* Drop: the lock goes first, then the directory and all in it.
DropLock(o) ==
    /\ OwnerStep(o, "using", "dropped")
    /\ flock' = [flock EXCEPT ![o] = Nobody]
    /\ UNCHANGED <<jobDir, ownerLock>>

DropJob(o) ==
    /\ OwnerStep(o, "dropped", "failed")
    /\ ownerLock' = [ownerLock EXCEPT ![o] = FALSE]
    /\ jobDir' = [jobDir EXCEPT ![o] = "absent"]
    /\ UNCHANGED flock

OwnerKilled(o) ==
    /\ owner[o] \notin {"idle", "failed"}
    /\ kills < MaxKills /\ kills' = kills + 1
    /\ owner' = [owner EXCEPT ![o] = "failed"]
    /\ flock' = [flock EXCEPT ![o] = IF @ = o THEN Nobody ELSE @]
    /\ UNCHANGED <<place, jobDir, ownerLock, sweeper>>

(***************************************************************************)
(* sweep_orphaned_review_checkouts, for one job of the directory listing.  *)
(***************************************************************************)
SweepStep(s, from, to) == /\ sweeper[s].pc = from
                          /\ sweeper' = [sweeper EXCEPT ![s].pc = to]
                          /\ UNCHANGED <<place, owner, kills>>

SweepEntry(s, o) ==
    /\ sweeper[s].pc = "idle" /\ jobDir[o] # "absent"
    /\ sweeper' = [sweeper EXCEPT ![s] = [pc |-> "listed", job |-> o]]
    /\ UNCHANGED <<place, jobDir, ownerLock, flock, owner, kills>>

\* Only a private directory with a lock file in it is looked at further.
SweepOpens(s) ==
    LET o == sweeper[s].job
    IN /\ SweepStep(s, "listed", IF jobDir[o] = "private" /\ ownerLock[o]
                                 THEN "opened" ELSE "idle")
       /\ UNCHANGED <<jobDir, ownerLock, flock>>

\* Mutant: a lock that is held does not stop the sweep.
SweepLocksAny(s) ==
    LET o == sweeper[s].job
    IN /\ SweepStep(s, "opened", "sweeping")
       /\ flock' = [flock EXCEPT ![o] = IF @ = Nobody THEN s ELSE @]
       /\ UNCHANGED <<jobDir, ownerLock>>
SweepLocks(s) ==
    LET o == sweeper[s].job
    IN /\ SweepStep(s, "opened", IF flock[o] = Nobody THEN "sweeping"
                                 ELSE "idle")
       /\ flock' = [flock EXCEPT ![o] = IF @ = Nobody THEN s ELSE @]
       /\ UNCHANGED <<jobDir, ownerLock>>

\* remove_dir_all empties the directory and then removes it; what somebody
\* else removed meanwhile may make it give up.
SweepEmpties(s) ==
    /\ SweepStep(s, "sweeping", "emptied")
    /\ ownerLock' = [ownerLock EXCEPT ![sweeper[s].job] = FALSE]
    /\ UNCHANGED <<jobDir, flock>>

SweepRemoves(s) ==
    LET o == sweeper[s].job
    IN /\ SweepStep(s, "emptied", "idle")
       /\ jobDir' = [jobDir EXCEPT ![o] = "absent"]
       /\ flock' = [flock EXCEPT ![o] = IF @ = s THEN Nobody ELSE @]
       /\ UNCHANGED ownerLock

SweepKilled(s) ==
    LET o == sweeper[s].job
    IN /\ sweeper[s].pc \in {"sweeping", "emptied"}
       /\ kills < MaxKills /\ kills' = kills + 1
       /\ sweeper' = [sweeper EXCEPT ![s].pc = "idle"]
       /\ flock' = [flock EXCEPT ![o] = IF @ = s THEN Nobody ELSE @]
       /\ UNCHANGED <<place, jobDir, ownerLock, owner>>

WorkspaceNext ==
    \/ \E o \in Owner :
          \/ MakeJob(o) \/ MakePrivate(o) \/ MakeOwnerLock(o)
          \/ TakeOwnerLock(o) \/ OwnerLockTaken(o) \/ OpenJobDirectory(o)
          \/ DropLock(o) \/ DropJob(o) \/ OwnerKilled(o)
    \/ \E s \in Sweeper :
          \/ \E o \in Owner : SweepEntry(s, o)
          \/ SweepOpens(s) \/ SweepLocks(s) \/ SweepEmpties(s)
          \/ SweepRemoves(s) \/ SweepKilled(s)

WorkspaceSpec == WorkspaceInit /\ [][WorkspaceNext]_workspace

(***************************************************************************)
(* Properties.                                                             *)
(***************************************************************************)
WorkspaceTypeOK ==
    /\ \A o \in Owner : /\ jobDir[o] \in {"absent", "public", "private"}
                        /\ flock[o] \in Owner \cup Sweeper \cup {Nobody}
    /\ kills \in 0..MaxKills

\* A review that uses its job has it: a private directory, in a base that is
\* closed to everybody else.  Of the parts above such a base the configured
\* runtime directory is private too; of a cache, the cache itself is written
\* by its user only, and the `omasafe` in it is a directory and no link: who
\* may write that one the code does not ask.  No sweep removes the job, in
\* particular none that came between the lock file and the lock, or was
\* killed on the way.
LiveJobsAreKept ==
    \A o \in Owner : owner[o] = "using" =>
        /\ jobDir[o] = "private"
        /\ CASE ReviewWorkspaceBase(place) = "runtime" ->
                   /\ place.runtime = "private"
                   /\ Made(place.runtimeBase) = "private"
             [] ReviewWorkspaceBase(place) = "cache" ->
                   /\ place.runtime = Nobody
                   /\ {Made(place.cacheOmasafe), Made(place.cacheTmp)}
                          \cap {"link"} = {}
                   /\ Made(place.cache) \in {"private", "ours"}
                   /\ Made(place.cacheTmp) = "private"
             [] OTHER -> FALSE
=============================================================================
