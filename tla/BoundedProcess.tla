--------------------------- MODULE BoundedProcess ---------------------------
(***************************************************************************)
(* One bounded child process (crates/omasafe-core/src/bounds.rs, fn        *)
(* spawn_bounded and below; every git, systemctl, checkupdates, lsblk ...  *)
(* the program runs goes through it): the caller, a drain worker for each  *)
(* of its two output pipes, the leader of a process group of its own and a *)
(* helper the leader may fork, all at their own pace against one deadline. *)
(*                                                                         *)
(* Output is counted, not kept.  A pipe ends when nobody holds it.  The    *)
(* leader's pid is its own until it is reaped: from then on a group kill   *)
(* could hit a stranger.                                                   *)
(***************************************************************************)
EXTENDS Integers, FiniteSets

CONSTANTS OutputCap,     \* bytes kept of a stream
          MaxOutput      \* bound on the bytes a stream is given

ASSUME ProcessBounds ==
    /\ OutputCap \in Nat \ {0} /\ MaxOutput \in Nat

Stream == {"stdout", "stderr"}

VARIABLES
    caller,        \* spawned, poll, collect, reap, returned, expired, failed
    late,          \* the deadline has passed
    interrupted,   \* the user asked to stop
    leader,        \* running, zombie or reaped
    helper,        \* a descendant: none, group, escaped or dead
    holds,         \* the helper still has the pipes
    written,       \* bytes written to each pipe
    taken,         \* bytes its worker read and kept
    worker,        \* none, reading, ended, capped, deadline, broken
    result,        \* what the caller collected of each stream
    strays         \* history: group kills after the leader was reaped

bounded == <<caller, late, interrupted, leader, helper, holds, written,
             taken, worker, result, strays>>

BoundedInit ==
    /\ caller = "spawned" /\ late = FALSE /\ interrupted = FALSE
    /\ leader = "running" /\ helper = "none" /\ holds = FALSE
    /\ written = [s \in Stream |-> 0] /\ taken = [s \in Stream |-> 0]
    /\ worker = [s \in Stream |-> "none"]
    /\ result = [s \in Stream |-> "pending"]
    /\ strays = 0

process == <<leader, helper, holds>>
streams == <<written, taken, worker>>
clock == <<late, interrupted>>

(***************************************************************************)
(* The child.  It may write, fork, leave the group, close the pipes, exit. *)
(***************************************************************************)
Alive == helper \in {"group", "escaped"}
Open(s) == leader = "running" \/ (Alive /\ holds)

Write(s) ==
    /\ Open(s) /\ worker[s] \in {"none", "reading"}
    /\ written[s] < MaxOutput
    /\ written' = [written EXCEPT ![s] = @ + 1]
    /\ UNCHANGED <<caller, clock, process, taken, worker, result, strays>>

Fork ==
    /\ leader = "running" /\ helper = "none"
    /\ helper' = "group" /\ holds' = TRUE
    /\ UNCHANGED <<caller, clock, leader, streams, result, strays>>

HelperMoves ==
    /\ \/ helper = "group" /\ helper' = "escaped" /\ UNCHANGED holds
       \/ Alive /\ helper' = "dead" /\ holds' = FALSE
       \/ Alive /\ holds /\ holds' = FALSE /\ UNCHANGED helper
    /\ UNCHANGED <<caller, clock, leader, streams, result, strays>>

LeaderExits ==
    /\ leader = "running" /\ leader' = "zombie"
    /\ UNCHANGED <<caller, clock, helper, holds, streams, result, strays>>

(***************************************************************************)
(* drain_stream, one worker for each stream.                               *)
(***************************************************************************)
WorkerEnds(s, how) ==
    /\ worker[s] = "reading"
    /\ worker' = [worker EXCEPT ![s] = how]
    /\ UNCHANGED <<caller, clock, process, written, result, strays>>

\* Mutant: a chunk is kept whole, or not at all.
DrainReadWhole(s) ==
    /\ worker[s] = "reading" /\ taken[s] < OutputCap
    /\ \E n \in taken[s]+1..written[s] : taken' = [taken EXCEPT ![s] = n]
    /\ UNCHANGED <<caller, clock, process, written, worker, result, strays>>
DrainRead(s) ==
    LET keep == IF written[s] <= OutputCap THEN written[s] ELSE OutputCap
    IN /\ worker[s] = "reading" /\ taken[s] < keep
       /\ \E n \in taken[s]+1..keep : taken' = [taken EXCEPT ![s] = n]
       /\ UNCHANGED <<caller, clock, process, written, worker, result,
                      strays>>
DrainEof(s) ==
    ~Open(s) /\ taken[s] = written[s] /\ WorkerEnds(s, "ended")
    /\ UNCHANGED taken
\* The cap is only over when there is a byte more than it.
DrainCapped(s) ==
    taken[s] = OutputCap /\ written[s] > OutputCap
    /\ WorkerEnds(s, "capped") /\ UNCHANGED taken
DrainLate(s) == late /\ WorkerEnds(s, "deadline") /\ UNCHANGED taken
DrainBreaks(s) == WorkerEnds(s, "broken") /\ UNCHANGED taken

(***************************************************************************)
(* The caller: spawn_bounded, unix_poll_exit, collect_drain.               *)
(***************************************************************************)
KillGroup ==
    /\ leader' = IF leader = "running" THEN "zombie" ELSE leader
    /\ helper' = IF helper = "group" /\ leader # "reaped" THEN "dead"
                 ELSE helper
    /\ holds' = (holds /\ helper' # "dead")
    /\ strays' = IF leader = "reaped" THEN strays + 1 ELSE strays

\* kill, then wait: the leader is reaped in the end.
KillAndReap ==
    /\ leader' = "reaped"
    /\ helper' = IF helper = "group" THEN "dead" ELSE helper
    /\ holds' = (holds /\ helper' # "dead")
    /\ strays' = IF leader = "reaped" THEN strays + 1 ELSE strays

SpawnDrains ==
    /\ caller = "spawned" /\ caller' = "poll"
    /\ worker' = [s \in Stream |-> "reading"]
    /\ UNCHANGED <<clock, process, written, taken, result, strays>>

\* A drain thread that cannot be had, a waitid that fails.
TrackingFails ==
    /\ caller \in {"spawned", "poll"} /\ caller' = "failed"
    /\ KillAndReap
    /\ UNCHANGED <<clock, streams, result>>

PollExited ==
    /\ caller = "poll" /\ leader = "zombie"
    /\ caller' = "collect"
    /\ UNCHANGED <<clock, process, streams, result, strays>>

PollExpired ==
    /\ caller = "poll" /\ leader = "running"
    /\ late \/ interrupted
    /\ caller' = "expired"
    /\ KillAndReap
    /\ UNCHANGED <<clock, streams, result>>

\* stdout first.  A worker that has not answered by the deadline is given up.
CollectDrain(s) ==
    /\ caller = "collect" /\ result[s] = "pending"
    /\ s = "stderr" => result["stdout"] # "pending"
    /\ \/ /\ worker[s] # "reading"
          /\ result' = [result EXCEPT ![s] = worker[s]]
       \/ /\ worker[s] = "reading" /\ late
          /\ result' = [result EXCEPT ![s] = "abandoned"]
    /\ UNCHANGED <<caller, clock, process, streams, strays>>

Abandoned == \E s \in Stream : result[s] \in {"abandoned", "deadline"}

\* The leader is a zombie while the group is killed, and reaped after.
\* Mutant: the group is left alone once the leader is gone.
DecideKillNever ==
    /\ caller = "collect" /\ \A s \in Stream : result[s] # "pending"
    /\ caller' = "reap"
    /\ UNCHANGED <<clock, process, streams, result, strays>>
DecideKill ==
    /\ caller = "collect" /\ \A s \in Stream : result[s] # "pending"
    /\ caller' = "reap"
    /\ IF Abandoned THEN KillGroup ELSE UNCHANGED <<process, strays>>
    /\ UNCHANGED <<clock, streams, result>>

Reap ==
    /\ caller = "reap" /\ leader = "zombie" /\ leader' = "reaped"
    /\ caller' = "returned"
    /\ UNCHANGED <<clock, helper, holds, streams, result, strays>>

Truncated == \E s \in Stream : result[s] # "ended"

Deadline ==
    /\ ~late /\ late' = TRUE
    /\ UNCHANGED <<caller, interrupted, process, streams, result, strays>>

Interruption ==
    /\ ~interrupted /\ interrupted' = TRUE
    /\ UNCHANGED <<caller, late, process, streams, result, strays>>

BoundedNext ==
    \/ \E s \in Stream :
          \/ Write(s) \/ DrainRead(s) \/ DrainEof(s) \/ DrainCapped(s)
          \/ DrainLate(s) \/ DrainBreaks(s) \/ CollectDrain(s)
    \/ Fork \/ HelperMoves \/ LeaderExits
    \/ SpawnDrains \/ TrackingFails \/ PollExited \/ PollExpired
    \/ DecideKill \/ Reap
    \/ Deadline \/ Interruption

BoundedSpec == BoundedInit /\ [][BoundedNext]_bounded

(***************************************************************************)
(* Properties.                                                             *)
(***************************************************************************)
BoundedTypeOK ==
    /\ leader \in {"running", "zombie", "reaped"}
    /\ \A s \in Stream : written[s] \in 0..MaxOutput
                         /\ taken[s] \in 0..OutputCap

\* Output that is not marked truncated is all there is: every byte anybody
\* wrote, from pipes that nobody can write any more, however the leader, a
\* descendant, the deadline and the workers interleaved.  A descendant of the
\* group never outlives the call with a pipe in its hands unless the loss was
\* a cap or a read error, which is marked; after a call that timed out, was
\* interrupted or could not be tracked none outlives it at all.  No group is
\* killed once its leader was reaped.
OutputIsWholeOrMarked ==
    /\ strays = 0
    /\ caller = "returned" /\ ~Truncated =>
          \A s \in Stream : taken[s] = written[s] /\ ~Open(s)
    /\ caller = "returned" /\ helper = "group" /\ holds =>
          \E s \in Stream : result[s] \in {"capped", "broken"}
    /\ caller \in {"expired", "failed"} =>
          leader = "reaped" /\ helper # "group"
=============================================================================
