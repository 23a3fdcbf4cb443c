-------------------------- MODULE HostServicesProofs --------------------------
(***************************************************************************)
(* Proofs about four services of the host: bounded child processes, review *)
(* workspaces, the schedule and the posture scan, each for any number of   *)
(* actors, bytes, kills and failures.  They share no state, so each has an *)
(* invariant of its own: ProcessInv, WorkspaceInv, ScheduleTyped with      *)
(* OneCommand for the uninstall, and PostureInv.                           *)
(***************************************************************************)
EXTENDS BoundedProcess, ReviewWorkspace, Schedule, Posture,
        SequenceTheorems, WellFoundedInduction, TLAPS

(***************************************************************************)
(* BoundedProcess.  What the caller has of a pipe is what its worker said; *)
(* a worker that saw the end saw it for good; the group dies first.        *)
(***************************************************************************)
Caller == {"spawned", "poll", "collect", "reap", "returned", "expired",
           "failed"}
Worker == {"none", "reading", "ended", "capped", "deadline", "broken"}
Answer == {"pending", "ended", "capped", "deadline", "broken", "abandoned"}

ProcessTyped ==
    /\ caller \in Caller
    /\ late \in BOOLEAN /\ interrupted \in BOOLEAN /\ holds \in BOOLEAN
    /\ leader \in {"running", "zombie", "reaped"}
    /\ helper \in {"none", "group", "escaped", "dead"}
    /\ written \in [Stream -> 0..MaxOutput]
    /\ taken \in [Stream -> 0..OutputCap]
    /\ worker \in [Stream -> Worker] /\ result \in [Stream -> Answer]

\* The leader is reaped by the step that ends the call, and by no other.
LeaderIsKept ==
    /\ strays = 0
    /\ leader = "reaped" <=> caller \in {"returned", "expired", "failed"}
    /\ caller \in {"collect", "reap"} => leader = "zombie"

\* A worker that saw the end of its pipe saw all of it, and the pipe stays
\* closed: only the leader, alive, can hand it on.
EndIsFinal ==
    \A s \in Stream : worker[s] = "ended" => taken[s] = written[s] /\ ~Open(s)

\* What the caller has of a stream is what its worker said, or that it gave up.
AnswersAreWorkers ==
    \A s \in Stream :
       /\ worker[s] = "none" => caller \in {"spawned", "failed"}
       /\ result[s] # "pending" =>
             /\ caller \in {"collect", "reap", "returned"}
             /\ \/ result[s] = worker[s] /\ worker[s] # "reading"
                \/ result[s] = "abandoned"
       /\ caller \in {"reap", "returned"} => result[s] # "pending"

\* The group is gone after every way of giving it up.
GroupIsKilled ==
    /\ caller \in {"expired", "failed"} => helper # "group"
    /\ caller \in {"reap", "returned"} /\ Abandoned => helper # "group"

ProcessInv ==
    /\ ProcessTyped /\ LeaderIsKept /\ EndIsFinal
    /\ AnswersAreWorkers /\ GroupIsKilled

LEMMA ProcessStarts == BoundedInit => ProcessInv
  <1> SUFFICES ASSUME BoundedInit PROVE ProcessInv
    OBVIOUS
  <1>1. /\ 0 \in 0..MaxOutput /\ 0 \in 0..OutputCap
    BY ProcessBounds
  <1>2. ProcessTyped
    BY <1>1 DEF BoundedInit, ProcessTyped, Caller, Worker, Answer
  <1>3. /\ \A s \in Stream : worker[s] = "none" /\ result[s] = "pending"
        /\ caller = "spawned" /\ leader = "running" /\ strays = 0
    BY DEF BoundedInit
  <1>4. LeaderIsKept
    BY <1>3 DEF LeaderIsKept
  <1>5. EndIsFinal /\ AnswersAreWorkers /\ GroupIsKilled
    BY <1>3 DEF EndIsFinal, AnswersAreWorkers, GroupIsKilled
  <1> QED BY <1>2, <1>4, <1>5 DEF ProcessInv

LEMMA ProcessSteps == ProcessInv /\ [BoundedNext]_bounded => ProcessInv'
  <1> SUFFICES ASSUME ProcessInv, [BoundedNext]_bounded PROVE ProcessInv'
    OBVIOUS
  <1> USE ProcessBounds
      DEF ProcessInv, ProcessTyped, LeaderIsKept, EndIsFinal,
          AnswersAreWorkers, GroupIsKilled, Caller, Worker, Answer,
          Open, Alive, Abandoned, clock, process, streams
  <1>1. ASSUME NEW s \in Stream, Write(s) PROVE ProcessInv'
    BY <1>1 DEF Write
  <1>2. ASSUME NEW s \in Stream, DrainRead(s) PROVE ProcessInv'
    BY <1>2 DEF DrainRead
  <1>3. ASSUME NEW s \in Stream, DrainEof(s) PROVE ProcessInv'
    BY <1>3 DEF DrainEof, WorkerEnds
  <1>4. ASSUME NEW s \in Stream,
               DrainCapped(s) \/ DrainLate(s) \/ DrainBreaks(s)
        PROVE ProcessInv'
    BY <1>4 DEF DrainCapped, DrainLate, DrainBreaks, WorkerEnds
  <1>5. ASSUME NEW s \in Stream, CollectDrain(s) PROVE ProcessInv'
    BY <1>5 DEF CollectDrain
  <1>6. CASE Fork BY <1>6 DEF Fork
  <1>7. CASE HelperMoves
    <2>1. /\ helper' \in {"escaped", "dead", helper}
          /\ helper = "group" \/ helper' # "group"
          /\ holds' \in BOOLEAN
      BY <1>7 DEF HelperMoves
    <2>2. (Alive /\ holds)' => Alive /\ holds
      BY <1>7 DEF HelperMoves
    <2> HIDE DEF Alive
    <2>3. ProcessTyped' /\ LeaderIsKept' /\ GroupIsKilled'
      BY <1>7, <2>1 DEF HelperMoves
    <2>4. EndIsFinal' /\ AnswersAreWorkers'
      BY <1>7, <2>2 DEF HelperMoves
    <2> QED BY <2>3, <2>4
  <1>8. CASE LeaderExits BY <1>8 DEF LeaderExits
  <1>9. CASE SpawnDrains BY <1>9 DEF SpawnDrains
  <1>10. CASE TrackingFails BY <1>10 DEF TrackingFails, KillAndReap
  <1>11. CASE PollExited BY <1>11 DEF PollExited
  <1>12. CASE PollExpired BY <1>12 DEF PollExpired, KillAndReap
  <1>13. CASE DecideKill BY <1>13 DEF DecideKill, KillGroup
  <1>14. CASE Reap BY <1>14 DEF Reap
  <1>15. CASE Deadline \/ Interruption
    <2>1. /\ late' \in BOOLEAN /\ interrupted' \in BOOLEAN
          /\ UNCHANGED <<caller, process, streams, result, strays>>
      BY <1>15 DEF Deadline, Interruption
    <2> QED BY <2>1
  <1>16. CASE UNCHANGED bounded BY <1>16 DEF bounded
  <1> QED
    BY <1>1, <1>2, <1>3, <1>4, <1>5, <1>6, <1>7, <1>8, <1>9, <1>10, <1>11,
       <1>12, <1>13, <1>14, <1>15, <1>16 DEF BoundedNext

LEMMA ProcessSays == ProcessInv => OutputIsWholeOrMarked
  <1> SUFFICES ASSUME ProcessInv PROVE OutputIsWholeOrMarked
    OBVIOUS
  <1>1. strays = 0 BY DEF ProcessInv, LeaderIsKept
  <1>2. \A s \in Stream : caller = "returned" /\ result[s] = "ended" =>
            taken[s] = written[s] /\ ~Open(s)
    BY DEF ProcessInv, AnswersAreWorkers, EndIsFinal
  <1>3. caller = "returned" /\ ~Truncated =>
            \A s \in Stream : taken[s] = written[s] /\ ~Open(s)
    BY <1>2 DEF Truncated
  <1>4. ASSUME caller = "returned", helper = "group", holds
        PROVE  \E s \in Stream : result[s] \in {"capped", "broken"}
    <2>1. ~Abandoned BY <1>4 DEF ProcessInv, GroupIsKilled
    <2>2. \A s \in Stream : Open(s)
      BY <1>4 DEF Open, Alive
    <2>3. Truncated BY <1>2, <1>4, <2>2 DEF Truncated, Stream
    <2>4. PICK s \in Stream : result[s] # "ended"
      BY <2>3 DEF Truncated
    <2>5. /\ result[s] \in Answer \ {"pending", "abandoned", "deadline"}
      BY <1>4, <2>1, <2>4 DEF Abandoned, ProcessInv, ProcessTyped,
         AnswersAreWorkers
    <2> QED BY <2>4, <2>5 DEF Answer
  <1>5. caller \in {"expired", "failed"} =>
            leader = "reaped" /\ helper # "group"
    BY DEF ProcessInv, LeaderIsKept, GroupIsKilled
  <1> QED BY <1>1, <1>3, <1>4, <1>5 DEF OutputIsWholeOrMarked

\* Output that is not marked truncated is whole, whatever the leader, its
\* helper, the deadline and the two workers do (bounds.rs, spawn_bounded to
\* collect_drain), for any cap and any amount of output.
THEOREM OutputIsHonest == BoundedSpec => []OutputIsWholeOrMarked
  BY ProcessStarts, ProcessSteps, ProcessSays, PTL DEF BoundedSpec

(***************************************************************************)
(* ReviewWorkspace.  The lock of a job is its owner's from "locked" on, and*)
(* a sweep removes nothing of a job whose lock is not its own.             *)
(***************************************************************************)
OwnerPc == {"idle", "made", "private", "lockfile", "locked", "using",
            "dropped", "failed"}
SweeperPc == {"idle", "listed", "opened", "sweeping", "emptied"}
Early == {"idle", "made", "private"}

WorkspaceTyped ==
    /\ jobDir \in [Owner -> {"absent", "public", "private"}]
    /\ ownerLock \in [Owner -> BOOLEAN]
    /\ flock \in [Owner -> Owner \cup Sweeper \cup {Nobody}]
    /\ owner \in [Owner -> OwnerPc]
    /\ sweeper \in [Sweeper -> [pc : SweeperPc, job : Owner \cup {Nobody}]]
    /\ \A s \in Sweeper : sweeper[s].pc # "idle" => sweeper[s].job \in Owner

\* What the owner of a job finds at each of its steps.
OwnerFinds ==
    \A o \in Owner :
       /\ owner[o] \in Early => ~ownerLock[o]
       /\ owner[o] = "private" => jobDir[o] = "private"
       /\ owner[o] \in {"lockfile", "locked"} =>
             jobDir[o] \in {"private", "absent"}
       /\ owner[o] \in {"locked", "using"} => flock[o] = o
       /\ owner[o] = "using" => jobDir[o] = "private"
       /\ owner[o] # "idle" => ReviewWorkspaceBase(place) # Nobody

\* A sweep takes up no job without an owner lock in it, and removes from one
\* only while the lock is its own.
SweepersHold ==
    \A s \in Sweeper :
       /\ sweeper[s].pc \in {"opened", "sweeping", "emptied"} =>
             owner[sweeper[s].job] \notin Early
       /\ sweeper[s].pc \in {"sweeping", "emptied"} =>
             flock[sweeper[s].job] = s

WorkspaceInv == WorkspaceTyped /\ OwnerFinds /\ SweepersHold

LEMMA WorkspaceStarts == WorkspaceInit => WorkspaceInv
  BY DEF WorkspaceInit, WorkspaceInv, WorkspaceTyped, OwnerFinds,
         SweepersHold, OwnerPc, SweeperPc, Early

\* The steps of a review.
LEMMA OwnerSteps ==
  ASSUME WorkspaceInv, NEW o \in Owner,
         \/ MakeJob(o) \/ MakePrivate(o) \/ MakeOwnerLock(o)
         \/ TakeOwnerLock(o) \/ OwnerLockTaken(o) \/ OpenJobDirectory(o)
         \/ DropLock(o) \/ DropJob(o) \/ OwnerKilled(o)
  PROVE  WorkspaceInv'
  <1> USE ProcessesDiffer
      DEF WorkspaceInv, WorkspaceTyped, OwnerFinds, SweepersHold, OwnerPc,
          SweeperPc, Early, OwnerStep
  <1>1. CASE MakeJob(o) BY <1>1 DEF MakeJob
  <1>2. CASE MakePrivate(o) BY <1>2 DEF MakePrivate
  <1>3. CASE MakeOwnerLock(o) BY <1>3 DEF MakeOwnerLock
  <1>4. CASE TakeOwnerLock(o) BY <1>4 DEF TakeOwnerLock
  <1>5. CASE OwnerLockTaken(o) BY <1>5 DEF OwnerLockTaken
  <1>6. CASE OpenJobDirectory(o) BY <1>6 DEF OpenJobDirectory
  <1>7. CASE DropLock(o) BY <1>7 DEF DropLock
  <1>8. CASE DropJob(o) BY <1>8 DEF DropJob
  <1>9. CASE OwnerKilled(o) BY <1>9 DEF OwnerKilled
  <1> QED BY <1>1, <1>2, <1>3, <1>4, <1>5, <1>6, <1>7, <1>8, <1>9

\* The steps of a sweep.
LEMMA SweeperSteps ==
  ASSUME WorkspaceInv, NEW s \in Sweeper,
         \/ \E o \in Owner : SweepEntry(s, o)
         \/ SweepOpens(s) \/ SweepLocks(s) \/ SweepEmpties(s)
         \/ SweepRemoves(s) \/ SweepKilled(s)
  PROVE  WorkspaceInv'
  <1> USE ProcessesDiffer
      DEF WorkspaceInv, WorkspaceTyped, OwnerFinds, SweepersHold, OwnerPc,
          SweeperPc, Early, SweepStep
  <1>1. ASSUME NEW o \in Owner, SweepEntry(s, o) PROVE WorkspaceInv'
    BY <1>1 DEF SweepEntry
  <1>2. CASE SweepOpens(s) BY <1>2 DEF SweepOpens
  <1>3. CASE SweepLocks(s) BY <1>3 DEF SweepLocks
  <1>4. CASE SweepEmpties(s) BY <1>4 DEF SweepEmpties
  <1>5. CASE SweepRemoves(s) BY <1>5 DEF SweepRemoves
  <1>6. CASE SweepKilled(s) BY <1>6 DEF SweepKilled
  <1> QED BY <1>1, <1>2, <1>3, <1>4, <1>5, <1>6

LEMMA WorkspaceSteps ==
  WorkspaceInv /\ [WorkspaceNext]_workspace => WorkspaceInv'
  <1> SUFFICES ASSUME WorkspaceInv, [WorkspaceNext]_workspace
               PROVE  WorkspaceInv'
    OBVIOUS
  <1>1. CASE UNCHANGED workspace
    BY <1>1 DEF workspace, WorkspaceInv, WorkspaceTyped, OwnerFinds,
                SweepersHold
  <1>2. CASE WorkspaceNext
    BY <1>2, OwnerSteps, SweeperSteps DEF WorkspaceNext
  <1> QED BY <1>1, <1>2

\* A base that review_workspace_base accepts is safe in every part.
LEMMA BaseIsSafe ==
  ASSUME ReviewWorkspaceBase(place) # Nobody
  PROVE  CASE ReviewWorkspaceBase(place) = "runtime" ->
                  /\ place.runtime = "private"
                  /\ Made(place.runtimeBase) = "private"
            [] ReviewWorkspaceBase(place) = "cache" ->
                  /\ place.runtime = Nobody
                  /\ {Made(place.cacheOmasafe), Made(place.cacheTmp)}
                         \cap {"link"} = {}
                  /\ Made(place.cache) \in {"private", "ours"}
                  /\ Made(place.cacheTmp) = "private"
            [] OTHER -> FALSE
  <1>1. CASE place.runtime # Nobody
    BY <1>1 DEF ReviewWorkspaceBase, PrivateLeaf
  <1>2. CASE place.runtime = Nobody
    <2>1. /\ ReviewWorkspaceBase(place) = "cache"
          /\ Component(place.cache)
          /\ Made(place.cache) \in {"private", "ours"}
          /\ Component(place.cacheOmasafe) /\ PrivateLeaf(place.cacheTmp)
      BY <1>2 DEF ReviewWorkspaceBase
    <2> QED BY <1>2, <2>1 DEF Component, PrivateLeaf
  <1> QED BY <1>1, <1>2

\* A review that uses its job has it, private and in a base whose last
\* directory is private, for any number of reviews, sweeps and kills; who may
\* write an `omasafe` above such a base in a cache is not asked
\* (main.rs, review_workspace_base to try_exclusive_lock).
THEOREM LiveJobsStay == WorkspaceSpec => []LiveJobsAreKept
  <1>1. WorkspaceInv => LiveJobsAreKept
    <2> SUFFICES ASSUME WorkspaceInv, NEW o \in Owner, owner[o] = "using"
                 PROVE  /\ jobDir[o] = "private"
                        /\ ReviewWorkspaceBase(place) # Nobody
      BY BaseIsSafe DEF LiveJobsAreKept
    <2> QED BY DEF WorkspaceInv, OwnerFinds
  <1> QED BY <1>1, WorkspaceStarts, WorkspaceSteps, PTL DEF WorkspaceSpec

(***************************************************************************)
(* Schedule.  A record was made for a pair of units, so one that matches the*)
(* units read tells their policy.                                          *)
(***************************************************************************)
UnitContents == Policy \cup {Absent, Plain, Torn, Edited}
MetaFiles == {Absent, Torn} \cup {Metadata(policy) : policy \in Policy}
ScheduleCommand ==
    [ pc : {"idle", "read", "work", "absent", "finished"},
      kind : {"none", "install", "uninstall", "status"},
      policy : Policy \cup {Absent}, at : Nat \ {0},
      seen : Seq(UnitContents \cup MetaFiles), shown : Policy \cup {Absent} ]

\* What a command has in hand at each of its steps.
CommandEquipped(c) ==
    /\ c.pc = "read" => /\ c.kind \in {"uninstall", "status"}
                        /\ Len(c.seen) <= 4 /\ c.at = 1 /\ c.shown = Absent
    /\ c.pc = "work" => /\ c.kind \in {"install", "uninstall"}
                        /\ c.kind = "install" => c.policy \in Policy
    /\ c.shown # Absent => c.seen[1] = c.shown

ScheduleTyped ==
    /\ units \in [Unit -> UnitContents] /\ metadata \in MetaFiles
    /\ enabled \in SUBSET {"scan", "digest"}
    /\ command \in [Operator -> ScheduleCommand]
    /\ overlapped \in BOOLEAN
    /\ \A o \in Operator : CommandEquipped(command[o])

LEMMA PlansAreTyped ==
  /\ Idle \in ScheduleCommand /\ CommandEquipped(Idle)
  /\ \A policy \in Policy, u \in Unit : Written(policy, u) \in UnitContents
  BY DEF Idle, ScheduleCommand, CommandEquipped, Written, UnitContents

LEMMA ScheduleTypeInit == ScheduleInit => ScheduleTyped
  <1> SUFFICES ASSUME ScheduleInit PROVE ScheduleTyped
    OBVIOUS
  <1>1. "advisory" \in Policy BY DEF Policy
  <1>2. units \in [Unit -> UnitContents]
    BY <1>1, PlansAreTyped DEF ScheduleInit, UnitContents
  <1>3. metadata \in MetaFiles
    BY <1>1 DEF ScheduleInit, MetaFiles
  <1>4. enabled \in SUBSET {"scan", "digest"} /\ overlapped \in BOOLEAN
    BY DEF ScheduleInit
  <1>5. /\ command \in [Operator -> ScheduleCommand]
        /\ \A o \in Operator : CommandEquipped(command[o])
    BY PlansAreTyped DEF ScheduleInit
  <1> QED BY <1>2, <1>3, <1>4, <1>5 DEF ScheduleTyped

LEMMA IdleIsEmpty ==
  Idle.seen = <<>> /\ Len(Idle.seen) = 0 /\ Idle.at = 1 /\ Idle.shown = Absent
  BY DEF Idle

\* One command moves: the others keep what they have.
LEMMA CommandMoves ==
  ASSUME ScheduleTyped, NEW o \in Operator, NEW c \in ScheduleCommand,
         CommandEquipped(c), command' = [command EXCEPT ![o] = c]
  PROVE  /\ command' \in [Operator -> ScheduleCommand]
         /\ \A p \in Operator : CommandEquipped(command'[p])
  BY DEF ScheduleTyped

\* The policy shown is the one of the record, which was made for the unit.
LEMMA RecordTellsUnit ==
  ASSUME NEW s \in Seq(UnitContents \cup MetaFiles), Len(s) = 5,
         s[5] \in MetaFiles, MetadataConsistent(s)
  PROVE  s[5].policy \in Policy /\ s[1] = s[5].policy
  <1>1. PICK policy \in Policy : s[5] = Metadata(policy)
    BY DEF MetadataConsistent, Owned, IsRecord, MetaFiles
  <1>2. s[5].policy = policy /\ s[5].unit = <<policy, Plain>>
    BY <1>1 DEF Metadata, Written, ScheduleUnitIdentity
  <1>3. <<s[1], s[2]>> = <<policy, Plain>>
    BY <1>2 DEF MetadataConsistent, Owned, ScheduleUnitIdentity
  <1> QED BY <1>2, <1>3

LEMMA ReadIsTyped ==
  ASSUME ScheduleTyped, NEW o \in Operator, ReadNext(o)
  PROVE  ScheduleTyped'
  <1> DEFINE c == command[o]
             seen == Append(c.seen, Readable(Len(c.seen) + 1))
             read == [c EXCEPT !.seen = seen]
  <1>1. c \in ScheduleCommand /\ CommandEquipped(c) /\ c.pc = "read"
    BY DEF ScheduleTyped, ReadNext
  <1>2. /\ c.seen \in Seq(UnitContents \cup MetaFiles)
        /\ Len(c.seen) \in Nat /\ Len(c.seen) <= 4
        /\ c.kind \in {"uninstall", "status"}
    <2>1. c.seen \in Seq(UnitContents \cup MetaFiles)
      BY <1>1 DEF ScheduleCommand
    <2>2. Len(c.seen) <= 4 /\ c.kind \in {"uninstall", "status"}
      BY <1>1 DEF CommandEquipped
    <2>3. Len(c.seen) \in Nat BY <2>1
    <2> QED BY <2>1, <2>2, <2>3
  <1>3. Readable(Len(c.seen) + 1) \in UnitContents \cup MetaFiles
    <2>1. \A i \in 1..4 : Files[i] \in Unit
      BY DEF Files, Unit
    <2>2. Len(Files) = 4
      BY DEF Files
    <2>3. CASE Len(c.seen) = 4
      BY <2>2, <2>3 DEF ScheduleTyped, Readable
    <2>4. ASSUME NEW n \in Nat, n < 4 PROVE Readable(n + 1) \in UnitContents
      <3>1. n + 1 \in 1..4
        BY <2>4
      <3>2. Readable(n + 1) = units[Files[n + 1]]
        BY <2>2, <3>1 DEF Readable
      <3> QED BY <2>1, <3>1, <3>2 DEF ScheduleTyped
    <2>5. Len(c.seen) \in Nat /\ Len(c.seen) <= 4
      BY <1>2
    <2> HIDE DEF c
    <2>6. \A n \in Nat : n <= 4 => n = 4 \/ n < 4
      OBVIOUS
    <2> QED BY <2>3, <2>4, <2>5, <2>6
  <1>4. ASSUME Len(c.seen) = 4
        PROVE  Readable(Len(c.seen) + 1) = metadata
    <2>1. Len(c.seen) + 1 = 5 /\ Len(Files) = 4
      BY <1>4 DEF Files
    <2> QED BY <2>1 DEF Readable
  <1>5. /\ seen \in Seq(UnitContents \cup MetaFiles)
        /\ Len(seen) = Len(c.seen) + 1
        /\ Len(seen) = 5 => seen[5] \in MetaFiles
    <2> DEFINE next == Readable(Len(c.seen) + 1)
    <2>1. Len(c.seen) = 4 => next \in MetaFiles
      BY <1>4 DEF ScheduleTyped
    <2>2. seen = Append(c.seen, next)
      OBVIOUS
    <2> HIDE DEF next, seen, c
    <2>3. /\ seen \in Seq(UnitContents \cup MetaFiles)
          /\ Len(seen) = Len(c.seen) + 1 /\ seen[Len(c.seen) + 1] = next
      <3>1. next \in UnitContents \cup MetaFiles
        BY <1>3 DEF next
      <3> QED BY <1>2, <2>2, <3>1, AppendProperties
    <2>4. Len(c.seen) \in Nat
      BY <1>2
    <2>6. Len(seen) = Len(c.seen) + 1
      BY <2>3
    <2>7. \A n \in Nat : n + 1 = 5 => n = 4
      OBVIOUS
    <2>5. Len(seen) = 5 => Len(c.seen) = 4
      BY <2>4, <2>6, <2>7
    <2> QED BY <2>1, <2>3, <2>5
  <1> HIDE DEF seen
  <1>6. /\ read \in ScheduleCommand
        /\ read.seen = seen /\ read.pc = "read" /\ read.kind = c.kind
        /\ read.at = 1 /\ read.shown = Absent
    BY <1>1, <1>5 DEF ScheduleCommand, CommandEquipped
  <1> HIDE DEF read
  <1>7. ASSUME Len(seen) = 5
        PROVE  /\ Decide(read) \in ScheduleCommand
               /\ CommandEquipped(Decide(read))
    <2>1. CASE c.kind = "status"
      <3> DEFINE shown == IF MetadataConsistent(read.seen)
                          THEN read.seen[5].policy ELSE Absent
      <3>1. /\ shown \in Policy \cup {Absent}
            /\ shown # Absent => seen[1] = shown
        BY <1>5, <1>6, <1>7, RecordTellsUnit
      <3>2. Decide(read) = [read EXCEPT !.pc = "idle", !.shown = shown]
        BY <1>6, <2>1 DEF Decide
      <3> HIDE DEF shown
      <3> QED BY <1>6, <3>1, <3>2 DEF ScheduleCommand, CommandEquipped
    <2>2. CASE c.kind = "uninstall"
      <3>1. Decide(read) \in {Idle, [read EXCEPT !.pc = "absent"],
                              [read EXCEPT !.pc = "work"]}
        BY <1>6, <2>2 DEF Decide
      <3> QED BY <1>6, <2>2, <3>1, PlansAreTyped
              DEF ScheduleCommand, CommandEquipped
    <2> QED BY <1>2, <2>1, <2>2
  <1>8. ASSUME Len(seen) # 5 PROVE CommandEquipped(read)
    <2> HIDE DEF c
    <2>2. Len(c.seen) \in Nat /\ Len(c.seen) <= 4
      BY <1>2
    <2>3. Len(seen) <= 4
      BY <1>5, <1>8, <2>2
    <2>1. Len(read.seen) <= 4
      BY <1>6, <2>3
    <2> QED BY <1>2, <1>6, <2>1 DEF CommandEquipped
  <1>9. command' = [command EXCEPT ![o] =
                        IF Len(seen) = 5 THEN Decide(read) ELSE read]
    BY <1>6 DEF ReadNext, read, seen
  <1>10. UNCHANGED <<units, enabled, metadata, overlapped>>
    BY DEF ReadNext
  <1>11. /\ command' \in [Operator -> ScheduleCommand]
         /\ \A p \in Operator : CommandEquipped(command'[p])
    BY <1>6, <1>7, <1>8, <1>9, CommandMoves
  <1> QED BY <1>10, <1>11 DEF ScheduleTyped

\* The effect of a step keeps the files in their types.
LEMMA EffectIsTyped ==
  ASSUME ScheduleTyped, NEW c \in ScheduleCommand, NEW step, Effect(c, step),
         c.kind = "install" => c.policy \in Policy
  PROVE  /\ units' \in [Unit -> UnitContents] /\ metadata' \in MetaFiles
         /\ enabled' \in SUBSET {"scan", "digest"}
  <1>1. units' \in [Unit -> UnitContents]
    <2>1. ASSUME step \in Unit
          PROVE  (IF c.kind = "install" THEN Written(c.policy, step)
                  ELSE Absent) \in UnitContents
      BY <2>1, PlansAreTyped DEF UnitContents
    <2> QED BY <2>1 DEF ScheduleTyped, Effect
  <1>2. metadata' \in MetaFiles
    BY DEF ScheduleTyped, Effect, MetaFiles
  <1>3. enabled' \in SUBSET {"scan", "digest"}
    BY DEF ScheduleTyped, Effect
  <1> QED BY <1>1, <1>2, <1>3

LEMMA ScheduleTypeNext ==
  ScheduleTyped /\ [ScheduleNext]_schedule => ScheduleTyped'
  <1> SUFFICES ASSUME ScheduleTyped, [ScheduleNext]_schedule
               PROVE  ScheduleTyped'
    OBVIOUS
  <1>1. CASE UNCHANGED schedule
    BY <1>1 DEF schedule, ScheduleTyped
  <1>2. ASSUME NEW o \in Operator, Begin(o) PROVE ScheduleTyped'
    <2>1. PICK c \in ScheduleCommand :
             CommandEquipped(c) /\ command' = [command EXCEPT ![o] = c]
      <3>1. ASSUME NEW policy \in Policy
            PROVE  LET c == [Idle EXCEPT !.pc = "work", !.kind = "install",
                                         !.policy = policy]
                   IN  c \in ScheduleCommand /\ CommandEquipped(c)
        BY PlansAreTyped, IdleIsEmpty DEF ScheduleCommand, CommandEquipped
      <3>2. ASSUME NEW kind \in {"uninstall", "status"}
            PROVE  LET c == [Idle EXCEPT !.pc = "read", !.kind = kind]
                   IN  c \in ScheduleCommand /\ CommandEquipped(c)
        <4> DEFINE c == [Idle EXCEPT !.pc = "read", !.kind = kind]
        <4>1. c \in ScheduleCommand
          BY PlansAreTyped DEF ScheduleCommand
        <4>2. /\ c.seen = <<>> /\ c.at = 1 /\ c.shown = Absent
              /\ c.pc = "read" /\ c.kind = kind
          BY DEF Idle
        <4>3. Len(c.seen) <= 4
          BY <4>2
        <4> QED BY <4>1, <4>2, <4>3 DEF CommandEquipped
      <3> QED BY <1>2, <3>1, <3>2 DEF Begin
    <2>2. UNCHANGED <<units, enabled, metadata>> /\ overlapped' \in BOOLEAN
      BY <1>2 DEF Begin, ScheduleTyped
    <2> QED BY <2>1, <2>2, CommandMoves DEF ScheduleTyped
  <1>3. ASSUME NEW o \in Operator, ReadNext(o) PROVE ScheduleTyped'
    BY <1>3, ReadIsTyped
  <1>4. ASSUME NEW o \in Operator, WorkNext(o) PROVE ScheduleTyped'
    <2> DEFINE c == command[o]
               d == IF c.at < Len(Plan(c)) THEN [c EXCEPT !.at = @ + 1]
                    ELSE [c EXCEPT !.pc = "finished"]
    <2>1. c \in ScheduleCommand /\ CommandEquipped(c) /\ c.pc = "work"
      BY <1>4 DEF ScheduleTyped, WorkNext
    <2>2. d \in ScheduleCommand /\ CommandEquipped(d)
      BY <2>1 DEF ScheduleCommand, CommandEquipped
    <2>3. /\ command' = [command EXCEPT ![o] = d] /\ UNCHANGED overlapped
          /\ Effect(c, Plan(c)[c.at])
      BY <1>4 DEF WorkNext
    <2> HIDE DEF c, d
    <2>4. /\ units' \in [Unit -> UnitContents] /\ metadata' \in MetaFiles
          /\ enabled' \in SUBSET {"scan", "digest"}
      BY <2>1, <2>3, EffectIsTyped DEF CommandEquipped
    <2> QED BY <2>2, <2>3, <2>4, CommandMoves DEF ScheduleTyped
  <1>5. ASSUME NEW o \in Operator, SystemctlRefuses(o) PROVE ScheduleTyped'
    BY <1>5, PlansAreTyped, CommandMoves DEF SystemctlRefuses, ScheduleTyped
  <1>6. ASSUME NEW o \in Operator, StepBreaks(o) PROVE ScheduleTyped'
    <2> DEFINE c == command[o]
               step == Plan(c)[c.at]
    <2>1. c \in ScheduleCommand /\ CommandEquipped(c) /\ c.pc = "work"
      BY <1>6 DEF ScheduleTyped, StepBreaks
    <2>2. command' = [command EXCEPT ![o] = Idle] /\ UNCHANGED overlapped
      BY <1>6 DEF StepBreaks
    <2>3. \/ UNCHANGED <<units, enabled, metadata>>
          \/ Effect(c, step)
          \/ /\ \E u \in Unit : units' = [units EXCEPT ![u] = Torn]
             /\ UNCHANGED <<enabled, metadata>>
          \/ metadata' = Torn /\ UNCHANGED <<units, enabled>>
      BY <1>6 DEF StepBreaks
    <2> HIDE DEF c, step
    <2>4. /\ units' \in [Unit -> UnitContents] /\ metadata' \in MetaFiles
          /\ enabled' \in SUBSET {"scan", "digest"}
      <3>1. CASE Effect(c, step)
        BY <2>1, <3>1, EffectIsTyped DEF CommandEquipped
      <3>2. CASE UNCHANGED <<units, enabled, metadata>>
        BY <3>2 DEF ScheduleTyped
      <3>3. CASE \E u \in Unit : /\ units' = [units EXCEPT ![u] = Torn]
                                 /\ UNCHANGED <<enabled, metadata>>
        BY <3>3 DEF ScheduleTyped, UnitContents
      <3>4. CASE metadata' = Torn /\ UNCHANGED <<units, enabled>>
        BY <3>4 DEF ScheduleTyped, MetaFiles
      <3> QED BY <2>3, <3>1, <3>2, <3>3, <3>4
    <2> QED BY <2>2, <2>4, PlansAreTyped, CommandMoves DEF ScheduleTyped
  <1>7. CASE UserEdits
    BY <1>7 DEF UserEdits, ScheduleTyped, UnitContents
  <1> QED BY <1>1, <1>2, <1>3, <1>4, <1>5, <1>6, <1>7 DEF ScheduleNext

\* The policy status names is the one the scan service it read was written
\* for, whatever overlapped, broke or was edited (main.rs, schedule_status).
THEOREM StatusIsTrue == ScheduleSpec => []StatusTellsInstalled
  <1>1. ScheduleTyped => StatusTellsInstalled
    BY DEF ScheduleTyped, CommandEquipped, StatusTellsInstalled
  <1> QED BY <1>1, ScheduleTypeInit, ScheduleTypeNext, PTL DEF ScheduleSpec

(***************************************************************************)
(* Uninstall.  As long as no two commands are in flight together, no timer *)
(* runs without its unit, and an uninstall that works has done what its    *)
(* plan says up to where it stands.                                        *)
(***************************************************************************)
LastSystemctl(c) == IF c.seen[3] # Absent THEN 3 ELSE 2

Progress(c) ==
    /\ c.at <= LastSystemctl(c) + 5
    /\ c.at > 1 => "scan" \notin enabled
    /\ c.at > LastSystemctl(c) \/ c.seen[3] = Absent => "digest" \notin enabled
    /\ \A i \in 1..4 : c.at > LastSystemctl(c) + i => units[Files[i]] = Absent

ReadIsCurrent(c) ==
    \A i \in 1..4 : i <= Len(c.seen) =>
        (c.seen[i] = Absent <=> units[Files[i]] = Absent)

OneCommand ==
    /\ \A o, p \in Operator :
          InFlight(command[o]) /\ InFlight(command[p]) => o = p
    /\ "scan" \in enabled => units["timer"] # Absent
    /\ "digest" \in enabled => units["digestTimer"] # Absent
    /\ \A o \in Operator : LET c == command[o] IN
          /\ c.pc = "read" => ReadIsCurrent(c)
          /\ c.pc = "work" /\ c.kind = "uninstall" => Progress(c)

UninstallInv == ScheduleTyped /\ (~overlapped => OneCommand)

LEMMA InstallSteps ==
  /\ Len(InstallPlan) = 8
  /\ \A i \in 1..4 : InstallPlan[i] = Files[i]
  /\ InstallPlan[5] = "reload" /\ InstallPlan[6] = "enableScan"
  /\ InstallPlan[7] = "enableDigest" /\ InstallPlan[8] = "metadata"
  BY DEF InstallPlan, Files

LEMMA LongUninstall ==
  ASSUME NEW d \in BOOLEAN, d
  PROVE  /\ Len(UninstallPlan(d)) = 8
         /\ UninstallPlan(d)[1] = "disableScan"
         /\ UninstallPlan(d)[2] = "reload"
         /\ UninstallPlan(d)[3] = "disableDigest"
         /\ \A i \in 1..4 : UninstallPlan(d)[3 + i] = Files[i]
         /\ UninstallPlan(d)[8] = "metadata"
  BY DEF UninstallPlan, Files

LEMMA ShortUninstall ==
  ASSUME NEW d \in BOOLEAN, ~d
  PROVE  /\ Len(UninstallPlan(d)) = 7
         /\ UninstallPlan(d)[1] = "disableScan"
         /\ UninstallPlan(d)[2] = "reload"
         /\ \A i \in 1..4 : UninstallPlan(d)[2 + i] = Files[i]
         /\ UninstallPlan(d)[7] = "metadata"
  BY DEF UninstallPlan, Files

LEMMA UninstallSteps ==
  ASSUME NEW c, c.kind = "uninstall"
  PROVE  LET n == LastSystemctl(c) IN
         /\ Len(Plan(c)) = n + 5
         /\ Plan(c)[1] = "disableScan" /\ Plan(c)[2] = "reload"
         /\ c.seen[3] # Absent => Plan(c)[3] = "disableDigest"
         /\ \A i \in 1..4 : Plan(c)[n + i] = Files[i]
         /\ Plan(c)[n + 5] = "metadata"
  <1> DEFINE d == c.seen[3] # Absent
  <1>1. Plan(c) = UninstallPlan(d) /\ d \in BOOLEAN
    BY DEF Plan
  <1>2. d <=> c.seen[3] # Absent
    OBVIOUS
  <1>3. LastSystemctl(c) = IF d THEN 3 ELSE 2
    BY DEF LastSystemctl
  <1> HIDE DEF d
  <1>4. CASE d
    <2>1. LastSystemctl(c) = 3
      BY <1>3, <1>4
    <2>2. /\ Len(Plan(c)) = 8
          /\ Plan(c)[1] = "disableScan" /\ Plan(c)[2] = "reload"
          /\ Plan(c)[3] = "disableDigest"
          /\ \A i \in 1..4 : Plan(c)[3 + i] = Files[i]
          /\ Plan(c)[8] = "metadata"
      BY <1>1, <1>4, LongUninstall
    <2> QED BY <2>1, <2>2
  <1>5. CASE ~d
    <2>1. LastSystemctl(c) = 2
      BY <1>3, <1>5
    <2> QED BY <1>1, <1>2, <1>5, <2>1, ShortUninstall
  <1> QED BY <1>4, <1>5

LEMMA FilesAreUnits ==
  /\ \A i \in 1..4 : Files[i] \in Unit
  /\ \A u \in Unit : \E i \in 1..4 : u = Files[i]
  <1>1. \A i \in 1..4 : Files[i] \in Unit
    BY DEF Files, Unit
  <1>2. /\ Files[1] = "service" /\ Files[2] = "timer"
        /\ Files[3] = "digestService" /\ Files[4] = "digestTimer"
    BY DEF Files
  <1> QED BY <1>1, <1>2 DEF Unit

\* What a step of an uninstall does at its place in the plan.
LEMMA UninstallEffect ==
  ASSUME ScheduleTyped, NEW c, c.kind = "uninstall", NEW k \in Nat, k >= 1,
         k <= LastSystemctl(c) + 5, Effect(c, Plan(c)[k])
  PROVE  /\ enabled' \subseteq enabled
         /\ \A u \in Unit : units[u] = Absent => units'[u] = Absent
         /\ k = 1 => "scan" \notin enabled'
         /\ k = 3 /\ c.seen[3] # Absent => "digest" \notin enabled'
         /\ \A i \in 1..4 : k = LastSystemctl(c) + i =>
                units'[Files[i]] = Absent
         /\ k <= LastSystemctl(c) \/ k = LastSystemctl(c) + 5 => units' = units
  <1> DEFINE step == Plan(c)[k]
             n == LastSystemctl(c)
  <1>0. n \in {2, 3} /\ (c.seen[3] # Absent <=> n = 3)
    BY DEF LastSystemctl
  <1>1. /\ units' = IF step \in Unit THEN [units EXCEPT ![step] = Absent]
                    ELSE units
        /\ enabled' = CASE step = "enableScan" -> enabled \cup {"scan"}
                        [] step = "enableDigest" -> enabled \cup {"digest"}
                        [] step = "disableScan" -> enabled \ {"scan"}
                        [] step = "disableDigest" -> enabled \ {"digest"}
                        [] OTHER -> enabled
    BY DEF Effect
  <1>2. \/ k = 1 /\ step = "disableScan"
        \/ k = 2 /\ step = "reload"
        \/ k = 3 /\ n = 3 /\ step = "disableDigest"
        \/ \E i \in 1..4 : k = n + i /\ step = Files[i]
        \/ k = n + 5 /\ step = "metadata"
    <2>1. /\ Plan(c)[1] = "disableScan" /\ Plan(c)[2] = "reload"
          /\ n = 3 => Plan(c)[3] = "disableDigest"
          /\ \A i \in 1..4 : Plan(c)[n + i] = Files[i]
          /\ Plan(c)[n + 5] = "metadata"
      BY <1>0, UninstallSteps
    <2>2. k = 1 \/ k = 2 \/ (k = 3 /\ n = 3)
          \/ k = n + 1 \/ k = n + 2 \/ k = n + 3 \/ k = n + 4 \/ k = n + 5
      BY <1>0
    <2> HIDE DEF n
    <2> QED BY <2>1, <2>2
  <1> HIDE DEF step, n
  <1>3. CASE k = 1 /\ step = "disableScan"
    <2>1. units' = units /\ enabled' = enabled \ {"scan"}
      BY <1>1, <1>3 DEF Unit
    <2> QED BY <1>0, <1>3, <2>1 DEF n
  <1>4. CASE k = 2 /\ step = "reload"
    <2>1. units' = units /\ enabled' = enabled
      BY <1>1, <1>4 DEF Unit
    <2> QED BY <1>0, <1>4, <2>1 DEF n
  <1>5. CASE k = 3 /\ n = 3 /\ step = "disableDigest"
    <2>1. units' = units /\ enabled' = enabled \ {"digest"}
      BY <1>1, <1>5 DEF Unit
    <2> QED BY <1>0, <1>5, <2>1 DEF n
  <1>6. ASSUME NEW i \in 1..4, k = n + i, step = Files[i]
        PROVE  /\ enabled' \subseteq enabled
               /\ \A u \in Unit : units[u] = Absent => units'[u] = Absent
               /\ units'[Files[i]] = Absent
               /\ k # 1 /\ ~(k = 3 /\ n = 3) /\ ~(k <= n) /\ k # n + 5
               /\ \A j \in 1..4 : k = n + j => j = i
    <2>1. step \in Unit
      BY <1>6, FilesAreUnits
    <2>2. units' = [units EXCEPT ![step] = Absent] /\ enabled' = enabled
      BY <1>1, <2>1 DEF Unit
    <2>3. /\ \A u \in Unit : units[u] = Absent => units'[u] = Absent
          /\ units'[Files[i]] = Absent
      BY <1>6, <2>1, <2>2 DEF ScheduleTyped
    <2>4. /\ k # 1 /\ ~(k = 3 /\ n = 3) /\ ~(k <= n) /\ k # n + 5
          /\ \A j \in 1..4 : k = n + j => j = i
      BY <1>0, <1>6
    <2> QED BY <2>2, <2>3, <2>4
  <1>7. CASE k = n + 5 /\ step = "metadata"
    <2>1. units' = units /\ enabled' = enabled
      BY <1>1, <1>7 DEF Unit
    <2> QED BY <1>0, <1>7, <2>1 DEF n
  <1>8. CASE \E i \in 1..4 : k = n + i /\ step = Files[i]
    BY <1>0, <1>6, <1>8 DEF n
  <1> QED BY <1>2, <1>3, <1>4, <1>5, <1>7, <1>8

\* No step takes a timer's unit away or runs a timer that has none, except
\* for an uninstall's.
LEMMA OtherEffect ==
  ASSUME ScheduleTyped, NEW c, NEW step, Effect(c, step), Known(step),
         \/ c.kind = "install" /\ c.policy \in Policy
         \/ step \notin Unit
  PROVE  /\ \A u \in Unit : units[u] # Absent => units'[u] # Absent
         /\ "scan" \in enabled' => "scan" \in enabled
                                   \/ units["timer"] # Absent
         /\ "digest" \in enabled' => "digest" \in enabled
                                     \/ units["digestTimer"] # Absent
  <1>1. \A u \in Unit : units[u] # Absent => units'[u] # Absent
    <2>1. CASE step \notin Unit
      BY <2>1 DEF Effect
    <2>2. CASE c.kind = "install" /\ c.policy \in Policy
      <3>1. \A u \in Unit : Written(c.policy, u) # Absent
        BY <2>2, AbsentIsFresh DEF Written
      <3>2. step \in Unit =>
               units' = [units EXCEPT ![step] = Written(c.policy, step)]
        BY <2>2 DEF Effect
      <3> QED BY <2>1, <3>1, <3>2 DEF ScheduleTyped
    <2> QED BY <2>1, <2>2
  <1>2. enabled' = CASE step = "enableScan" -> enabled \cup {"scan"}
                     [] step = "enableDigest" -> enabled \cup {"digest"}
                     [] step = "disableScan" -> enabled \ {"scan"}
                     [] step = "disableDigest" -> enabled \ {"digest"}
                     [] OTHER -> enabled
    BY DEF Effect
  <1>3. /\ step = "enableScan" => units["timer"] # Absent
        /\ step = "enableDigest" => units["digestTimer"] # Absent
    BY DEF Known
  <1> QED BY <1>1, <1>2, <1>3

LEMMA OneInit == ScheduleInit => OneCommand
  <1> SUFFICES ASSUME ScheduleInit PROVE OneCommand
    OBVIOUS
  <1>1. \A o \in Operator : command[o].pc = "idle"
    BY DEF ScheduleInit, Idle
  <1>2. /\ "scan" \in enabled => units["timer"] # Absent
        /\ "digest" \in enabled => units["digestTimer"] # Absent
    BY AbsentIsFresh DEF ScheduleInit, Written, Unit
  <1> QED BY <1>1, <1>2 DEF OneCommand, InFlight

\* The one command in flight has moved, or one has started alone: what is to
\* be shown of it, of the timers, and of nobody else.
LEMMA OneMoves ==
  ASSUME ScheduleTyped, NEW o \in Operator,
         \A p \in Operator : p # o => ~InFlight(command[p]),
         \A p \in Operator : p # o => command'[p] = command[p],
         ("scan" \in enabled => units["timer"] # Absent)',
         ("digest" \in enabled => units["digestTimer"] # Absent)',
         (command[o].pc = "read" => ReadIsCurrent(command[o]))',
         (command[o].pc = "work" /\ command[o].kind = "uninstall"
             => Progress(command[o]))'
  PROVE  OneCommand'
  <1>1. \A p \in Operator : p # o => ~InFlight(command[p])'
    BY DEF InFlight
  <1>2. \A p \in Operator : InFlight(command[p])' => p = o
    BY <1>1
  <1>3. \A p \in Operator : p # o =>
            command'[p].pc # "read" /\ command'[p].pc # "work"
    BY <1>1 DEF InFlight
  <1> QED BY <1>2, <1>3 DEF OneCommand

LEMMA OneRests ==
  ASSUME ScheduleTyped, NEW o \in Operator,
         \A p \in Operator : p # o => ~InFlight(command[p]),
         \A p \in Operator : p # o => command'[p] = command[p],
         ("scan" \in enabled => units["timer"] # Absent)',
         ("digest" \in enabled => units["digestTimer"] # Absent)',
         command'[o].pc # "read",
         command'[o].pc = "work" => command'[o].kind # "uninstall"
  PROVE  OneCommand'
  <1>1. (command[o].pc = "read" => ReadIsCurrent(command[o]))'
    OBVIOUS
  <1>2. (command[o].pc = "work" /\ command[o].kind = "uninstall"
            => Progress(command[o]))'
    OBVIOUS
  <1> QED BY <1>1, <1>2, OneMoves

\* Nobody else is in flight while a command steps.
LEMMA OthersRest ==
  ASSUME ScheduleTyped, OneCommand, NEW o \in Operator, InFlight(command[o]),
         NEW c, command' = [command EXCEPT ![o] = c]
  PROVE  /\ \A p \in Operator : p # o => ~InFlight(command[p])
         /\ \A p \in Operator : p # o => command'[p] = command[p]
         /\ command'[o] = c
  BY DEF ScheduleTyped, OneCommand

LEMMA ReadKeeps ==
  ASSUME ScheduleTyped, OneCommand, NEW o \in Operator, ReadNext(o)
  PROVE  /\ OneCommand'
         /\ command'[o].pc = "absent" =>
               enabled' = {} /\ \A u \in Unit : units'[u] = Absent
         /\ command'[o].pc # "finished"
  <1> DEFINE c == command[o]
             seen == Append(c.seen, Readable(Len(c.seen) + 1))
             read == [c EXCEPT !.seen = seen]
             d == IF Len(seen) = 5 THEN Decide(read) ELSE read
  <1>1. /\ c \in ScheduleCommand /\ CommandEquipped(c) /\ c.pc = "read"
        /\ ReadIsCurrent(c) /\ InFlight(c)
    BY DEF ScheduleTyped, ReadNext, OneCommand, InFlight
  <1>2. /\ c.seen \in Seq(UnitContents \cup MetaFiles)
        /\ c.kind \in {"uninstall", "status"}
    BY <1>1 DEF ScheduleCommand, CommandEquipped
  <1>3. /\ read.seen = seen /\ read.pc = "read" /\ read.kind = c.kind
        /\ read.at = 1
    BY <1>1 DEF ScheduleCommand, CommandEquipped
  <1>4. command' = [command EXCEPT ![o] = d] /\ UNCHANGED <<units, enabled>>
    BY <1>3 DEF ReadNext
  <1>5. \A i \in 1..4 : i <= Len(seen) =>
            (seen[i] = Absent <=> units[Files[i]] = Absent)
    <2>1. Len(c.seen) \in Nat
      BY <1>2
    <2>2. Len(Files) = 4
      BY DEF Files
    <2>3. ASSUME NEW i \in 1..4, i = Len(c.seen) + 1
          PROVE  Readable(Len(c.seen) + 1) = units[Files[i]]
      BY <2>2, <2>3 DEF Readable
    <2> DEFINE next == Readable(Len(c.seen) + 1)
    <2>4. /\ Len(seen) = Len(c.seen) + 1 /\ seen[Len(c.seen) + 1] = next
          /\ \A i \in 1..Len(c.seen) : seen[i] = c.seen[i]
      <3> HIDE DEF next
      <3> QED BY <1>2, AppendProperties DEF next
    <2> HIDE DEF next, seen
    <2> SUFFICES ASSUME NEW i \in 1..4, i <= Len(seen)
                 PROVE  seen[i] = Absent <=> units[Files[i]] = Absent
      OBVIOUS
    <2>5. CASE i = Len(c.seen) + 1
      BY <2>3, <2>4, <2>5 DEF next
    <2>6. CASE i \in 1..Len(c.seen)
      <3>1. i <= Len(c.seen)
        BY <2>1, <2>6
      <3> QED BY <1>1, <2>4, <2>6, <3>1 DEF ReadIsCurrent
    <2>7. i = Len(c.seen) + 1 \/ i \in 1..Len(c.seen)
      <3>1. i <= Len(c.seen) + 1
        BY <2>4
      <3> HIDE DEF c
      <3> QED BY <2>1, <3>1
    <2> QED BY <2>5, <2>6, <2>7
  <1> HIDE DEF c, seen, read
  <1>8. /\ \A p \in Operator : p # o => ~InFlight(command[p])
        /\ \A p \in Operator : p # o => command'[p] = command[p]
        /\ ("scan" \in enabled => units["timer"] # Absent)'
        /\ ("digest" \in enabled => units["digestTimer"] # Absent)'
    BY <1>1, <1>4, OthersRest DEF c, OneCommand
  <1>6. CASE Len(seen) # 5
    <2>1. d = read
      BY <1>6
    <2>2. command'[o] = read
      BY <1>1, <1>4, <2>1, OthersRest DEF c
    <2>3. ReadIsCurrent(command[o])'
      BY <1>3, <1>4, <1>5, <2>2 DEF ReadIsCurrent
    <2>5. (command[o].pc = "read" => ReadIsCurrent(command[o]))'
      BY <2>3
    <2>6. (command[o].pc = "work" /\ command[o].kind = "uninstall"
              => Progress(command[o]))'
      BY <1>3, <2>2
    <2>4. OneCommand'
      BY <1>8, <2>5, <2>6, OneMoves
    <2> QED BY <1>3, <2>2, <2>4
  <1>7. CASE Len(seen) = 5
    <2>1. command'[o] = Decide(read)
      BY <1>1, <1>4, <1>7, OthersRest DEF c
    <2>2. \A i \in 1..4 : seen[i] = Absent <=> units[Files[i]] = Absent
      BY <1>5, <1>7
    <2>3. CASE c.kind = "status"
      <3>1. Decide(read).pc = "idle"
        BY <1>1, <1>3, <2>3 DEF Decide, read, ScheduleCommand
      <3>2. OneCommand'
        BY <1>8, <2>1, <3>1, OneRests
      <3> QED BY <2>1, <3>1, <3>2
    <2>4. CASE c.kind = "uninstall"
      <3>1. CASE \A i \in 1..4 : seen[i] = Absent
        <4>1. Decide(read) = [read EXCEPT !.pc = "absent"]
          BY <1>3, <2>4, <3>1 DEF Decide
        <4>2. command'[o].pc = "absent"
          BY <1>1, <2>1, <4>1 DEF read, ScheduleCommand
        <4>3. \A u \in Unit : units[u] = Absent
          BY <2>2, <3>1, FilesAreUnits
        <4>4. enabled = {}
          BY <4>3 DEF OneCommand, ScheduleTyped, Unit
        <4>5. OneCommand'
          BY <1>8, <4>2, OneRests
        <4> QED BY <1>4, <4>2, <4>3, <4>4, <4>5
      <3>2. CASE ~(\A i \in 1..4 : seen[i] = Absent) /\ Refused(seen)
        <4>1. Decide(read) = Idle
          BY <1>3, <2>4, <3>2 DEF Decide
        <4>2. command'[o].pc = "idle"
          BY <2>1, <4>1 DEF Idle
        <4>3. OneCommand'
          BY <1>8, <4>2, OneRests
        <4> QED BY <4>2, <4>3
      <3>3. CASE ~(\A i \in 1..4 : seen[i] = Absent) /\ ~Refused(seen)
        <4>1. Decide(read) = [read EXCEPT !.pc = "work"]
          BY <1>3, <2>4, <3>3 DEF Decide
        <4>2. /\ command'[o].pc = "work" /\ command'[o].at = 1
              /\ command'[o].seen = seen
          BY <1>1, <1>3, <2>1, <4>1 DEF read, ScheduleCommand
        <4>3. seen[3] = Absent => "digest" \notin enabled
          <5>1. seen[3] = Absent => seen[4] = Absent
            BY <3>3 DEF Refused
          <5>2. seen[4] = Absent => units["digestTimer"] = Absent
            BY <2>2 DEF Files
          <5> QED BY <5>1, <5>2 DEF OneCommand
        <4>4. Progress(command[o])'
          <5>1. LastSystemctl(command'[o]) = IF seen[3] # Absent THEN 3 ELSE 2
            BY <4>2 DEF LastSystemctl
          <5> QED BY <1>4, <4>2, <4>3, <5>1 DEF Progress, LastSystemctl
        <4>5. OneCommand'
          <5>1. (command[o].pc = "read" => ReadIsCurrent(command[o]))'
            BY <4>2
          <5>2. (command[o].pc = "work" /\ command[o].kind = "uninstall"
                    => Progress(command[o]))'
            BY <4>4
          <5> QED BY <1>8, <5>1, <5>2, OneMoves
        <4> QED BY <4>2, <4>5
      <3> QED BY <3>1, <3>2, <3>3
    <2> QED BY <1>2, <2>3, <2>4
  <1> QED BY <1>6, <1>7

LEMMA WorkKeeps ==
  ASSUME ScheduleTyped, OneCommand, NEW o \in Operator, WorkNext(o)
  PROVE  /\ OneCommand'
         /\ command'[o].pc # "absent"
         /\ command'[o].kind = "uninstall" /\ command'[o].pc = "finished" =>
               enabled' = {} /\ \A u \in Unit : units'[u] = Absent
  <1> DEFINE c == command[o]
             d == IF c.at < Len(Plan(c)) THEN [c EXCEPT !.at = @ + 1]
                  ELSE [c EXCEPT !.pc = "finished"]
  <1>1. /\ c \in ScheduleCommand /\ CommandEquipped(c) /\ c.pc = "work"
        /\ InFlight(c) /\ c.at \in Nat /\ c.at >= 1
    BY DEF ScheduleTyped, WorkNext, InFlight, ScheduleCommand
  <1>2. /\ command' = [command EXCEPT ![o] = d] /\ Known(Plan(c)[c.at])
        /\ Effect(c, Plan(c)[c.at])
    BY DEF WorkNext
  <1>3. /\ \A p \in Operator : p # o => ~InFlight(command[p])
        /\ \A p \in Operator : p # o => command'[p] = command[p]
        /\ command'[o] = d
    BY <1>1, <1>2, OthersRest
  <1>4. /\ d.kind = c.kind /\ d.seen = c.seen /\ d.pc \in {"work", "finished"}
        /\ d.pc = "work" => c.at < Len(Plan(c)) /\ d.at = c.at + 1
        /\ d.pc = "finished" => ~(c.at < Len(Plan(c)))
    BY <1>1 DEF ScheduleCommand
  <1> HIDE DEF c, d
  <1>5. CASE c.kind = "install"
    <2>1. c.policy \in Policy
      BY <1>1, <1>5 DEF CommandEquipped
    <2>2. /\ ("scan" \in enabled => units["timer"] # Absent)'
          /\ ("digest" \in enabled => units["digestTimer"] # Absent)'
      BY <1>2, <1>5, <2>1, OtherEffect DEF OneCommand, Unit
    <2>3. OneCommand'
      BY <1>3, <1>4, <1>5, <2>2, OneRests
    <2> QED BY <1>3, <1>4, <1>5, <2>3
  <1>6. CASE c.kind = "uninstall"
    <2> DEFINE n == LastSystemctl(c)
               k == c.at
    <2>1. n \in {2, 3} /\ (c.seen[3] # Absent <=> n = 3)
      BY DEF LastSystemctl
    <2>2. /\ k <= n + 5
          /\ k > 1 => "scan" \notin enabled
          /\ k > n \/ n = 2 => "digest" \notin enabled
          /\ \A i \in 1..4 : k > n + i => units[Files[i]] = Absent
      <3>1. Progress(c)
        BY <1>1, <1>6 DEF OneCommand, c
      <3> QED BY <2>1, <3>1 DEF Progress
    <2>3. /\ enabled' \subseteq enabled
          /\ \A u \in Unit : units[u] = Absent => units'[u] = Absent
          /\ k = 1 => "scan" \notin enabled'
          /\ k = 3 /\ c.seen[3] # Absent => "digest" \notin enabled'
          /\ \A i \in 1..4 : k = n + i => units'[Files[i]] = Absent
          /\ k <= n \/ k = n + 5 => units' = units
      BY <1>1, <1>2, <1>6, <2>2, UninstallEffect
    <2>4. Len(Plan(c)) = n + 5
      BY <1>6, UninstallSteps
    <2>5. k \in Nat /\ k >= 1
      BY <1>1
    <2> HIDE DEF n, k
    <2>6. "scan" \notin enabled'
      BY <2>2, <2>3, <2>5
    <2>7. k >= n => "digest" \notin enabled'
      <3>1. k >= n => k > n \/ n = 2 \/ (k = 3 /\ n = 3)
        BY <2>1, <2>5
      <3> QED BY <2>1, <2>2, <2>3, <3>1
    <2>8. n = 2 => "digest" \notin enabled'
      BY <2>2, <2>3
    <2>9. ASSUME NEW i \in 1..4, k + 1 > n + i
          PROVE  units'[Files[i]] = Absent
      <3>1. k > n + i \/ k = n + i
        BY <2>1, <2>5, <2>9
      <3> QED BY <2>2, <2>3, <3>1, FilesAreUnits
    <2>10. /\ ("scan" \in enabled => units["timer"] # Absent)'
           /\ ("digest" \in enabled => units["digestTimer"] # Absent)'
      <3>1. "digest" \in enabled' => k <= n /\ "digest" \in enabled
        BY <2>1, <2>3, <2>5, <2>7
      <3> QED BY <2>3, <2>6, <3>1 DEF OneCommand
    <2>11. ASSUME d.pc = "work" PROVE Progress(command[o])'
      <3>1. /\ d.at = k + 1 /\ k < n + 5 /\ d.seen = c.seen
        BY <1>4, <2>4, <2>11 DEF k
      <3>2. LastSystemctl(d) = n
        BY <3>1 DEF LastSystemctl, n
      <3>3. /\ k + 1 <= n + 5
            /\ k + 1 > n => k >= n
        BY <2>1, <2>5, <3>1
      <3> DEFINE e == command'[o]
      <3>5. e.at = k + 1 /\ LastSystemctl(e) = n
            /\ (e.seen[3] = Absent => n = 2)
        BY <1>3, <2>1, <3>1, <3>2
      <3>6. /\ e.at <= LastSystemctl(e) + 5
            /\ e.at > 1 => "scan" \notin enabled'
            /\ e.at > LastSystemctl(e) \/ e.seen[3] = Absent =>
                   "digest" \notin enabled'
            /\ \A i \in 1..4 : e.at > LastSystemctl(e) + i =>
                   units'[Files[i]] = Absent
        <4> HIDE DEF e
        <4> QED BY <2>6, <2>7, <2>8, <2>9, <3>3, <3>5
      <3> QED BY <3>6 DEF Progress, LastSystemctl
    <2>12. OneCommand'
      <3>1. (command[o].pc = "read" => ReadIsCurrent(command[o]))'
        BY <1>3, <1>4
      <3>2. (command[o].pc = "work" /\ command[o].kind = "uninstall"
                => Progress(command[o]))'
        BY <1>3, <1>4, <2>11
      <3> QED BY <1>3, <2>10, <3>1, <3>2, OneMoves
    <2>13. ASSUME d.pc = "finished"
           PROVE  enabled' = {} /\ \A u \in Unit : units'[u] = Absent
      <3>1. k = n + 5
        BY <1>4, <2>1, <2>2, <2>4, <2>5, <2>13 DEF k
      <3>2. "digest" \notin enabled'
        BY <2>1, <2>7, <3>1
      <3>3. \A i \in 1..4 : units'[Files[i]] = Absent
        BY <2>1, <2>9, <3>1
      <3> QED BY <2>3, <2>6, <3>2, <3>3, FilesAreUnits DEF ScheduleTyped
    <2> QED BY <1>3, <1>4, <2>12, <2>13
  <1> QED BY <1>1, <1>5, <1>6 DEF CommandEquipped

LEMMA OneNext ==
  ASSUME UninstallInv, [ScheduleNext]_schedule, ~overlapped'
  PROVE  OneCommand'
  <1>1. ScheduleTyped
    BY DEF UninstallInv
  <1>2. CASE UNCHANGED schedule
    BY <1>2 DEF schedule, UninstallInv, OneCommand, Progress, ReadIsCurrent
  <1>3. ASSUME NEW o \in Operator, Begin(o) PROVE OneCommand'
    <2>1. /\ ~overlapped
          /\ \A p \in Operator : ~InFlight(command[p])
          /\ UNCHANGED <<units, enabled>>
      BY <1>1, <1>3 DEF Begin, ScheduleTyped
    <2>2. PICK c : /\ command' = [command EXCEPT ![o] = c]
                   /\ c.pc = "read" => Len(c.seen) = 0
                   /\ c.pc = "work" => c.kind # "uninstall"
      <3>1. ASSUME NEW policy \in Policy
            PROVE  LET c == [Idle EXCEPT !.pc = "work", !.kind = "install",
                                         !.policy = policy]
                   IN  c.pc = "work" /\ c.kind = "install"
        BY DEF Idle
      <3>2. ASSUME NEW kind \in {"uninstall", "status"}
            PROVE  LET c == [Idle EXCEPT !.pc = "read", !.kind = kind]
                   IN  c.pc = "read" /\ Len(c.seen) = 0
        BY DEF Idle
      <3> QED BY <1>3, <3>1, <3>2 DEF Begin
    <2>3. /\ command'[o] = c
          /\ \A p \in Operator : p # o => command'[p] = command[p]
      BY <1>1, <2>2 DEF ScheduleTyped
    <2>4. /\ ("scan" \in enabled => units["timer"] # Absent)'
          /\ ("digest" \in enabled => units["digestTimer"] # Absent)'
      BY <2>1 DEF UninstallInv, OneCommand
    <2>5. (command[o].pc = "read" => ReadIsCurrent(command[o]))'
      BY <2>2, <2>3 DEF ReadIsCurrent
    <2>6. (command[o].pc = "work" /\ command[o].kind = "uninstall"
             => Progress(command[o]))'
      BY <2>2, <2>3
    <2> QED BY <1>1, <2>1, <2>3, <2>4, <2>5, <2>6, OneMoves
  <1>4. ASSUME NEW o \in Operator, ReadNext(o) PROVE OneCommand'
    BY <1>1, <1>4, ReadKeeps DEF ReadNext, UninstallInv
  <1>5. ASSUME NEW o \in Operator, WorkNext(o) PROVE OneCommand'
    BY <1>1, <1>5, WorkKeeps DEF WorkNext, UninstallInv
  <1>6. ASSUME NEW o \in Operator, SystemctlRefuses(o) PROVE OneCommand'
    <2>1. /\ OneCommand /\ InFlight(command[o])
          /\ command' = [command EXCEPT ![o] = Idle]
          /\ UNCHANGED <<units, enabled>>
      BY <1>6 DEF SystemctlRefuses, UninstallInv, InFlight
    <2>2. /\ \A p \in Operator : p # o => ~InFlight(command[p])
          /\ \A p \in Operator : p # o => command'[p] = command[p]
          /\ command'[o].pc = "idle"
      <3>1. Idle.pc = "idle"
        BY DEF Idle
      <3> QED BY <1>1, <2>1, <3>1, OthersRest
    <2>3. /\ ("scan" \in enabled => units["timer"] # Absent)'
          /\ ("digest" \in enabled => units["digestTimer"] # Absent)'
      BY <2>1 DEF OneCommand
    <2> QED BY <1>1, <2>2, <2>3, OneRests
  <1>7. ASSUME NEW o \in Operator, StepBreaks(o) PROVE OneCommand'
    <2> DEFINE c == command[o]
               step == Plan(c)[c.at]
    <2>1. /\ OneCommand /\ InFlight(c)
          /\ command' = [command EXCEPT ![o] = Idle]
      BY <1>7 DEF StepBreaks, UninstallInv, InFlight
    <2>2. /\ \A p \in Operator : p # o => ~InFlight(command[p])
          /\ \A p \in Operator : p # o => command'[p] = command[p]
          /\ command'[o].pc = "idle"
      <3>1. Idle.pc = "idle"
        BY DEF Idle
      <3> QED BY <1>1, <2>1, <3>1, OthersRest
    <2>3. \/ UNCHANGED <<units, enabled>>
          \/ step \notin Unit /\ Known(step) /\ Effect(c, step)
          \/ /\ \E u \in Unit : units' = [units EXCEPT ![u] = Torn]
             /\ UNCHANGED enabled
      BY <1>7 DEF StepBreaks
    <2> HIDE DEF c, step
    <2>4. /\ ("scan" \in enabled => units["timer"] # Absent)'
          /\ ("digest" \in enabled => units["digestTimer"] # Absent)'
      <3>1. CASE UNCHANGED <<units, enabled>>
        BY <2>1, <3>1 DEF OneCommand
      <3>2. CASE step \notin Unit /\ Known(step) /\ Effect(c, step)
        BY <1>1, <2>1, <3>2, OtherEffect DEF OneCommand, Unit
      <3>3. ASSUME NEW u \in Unit, units' = [units EXCEPT ![u] = Torn],
                   UNCHANGED enabled
            PROVE  /\ ("scan" \in enabled => units["timer"] # Absent)'
                   /\ ("digest" \in enabled
                           => units["digestTimer"] # Absent)'
        <4>1. \A v \in Unit : units[v] # Absent => units'[v] # Absent
          BY <1>1, <3>3, AbsentIsFresh DEF ScheduleTyped
        <4> QED BY <2>1, <3>3, <4>1 DEF OneCommand, Unit
      <3> QED BY <2>3, <3>1, <3>2, <3>3
    <2> QED BY <1>1, <2>2, <2>4, OneRests
  <1>8. CASE UserEdits
    <2>1. /\ OneCommand
          /\ units["service"] # Absent
          /\ units' = [units EXCEPT !["service"] = Edited]
          /\ UNCHANGED <<enabled, command>>
      BY <1>8 DEF UserEdits, UninstallInv
    <2>2. \A u \in Unit : units'[u] = Absent <=> units[u] = Absent
      BY <1>1, <2>1, AbsentIsFresh DEF ScheduleTyped
    <2>3. /\ ("scan" \in enabled => units["timer"] # Absent)'
          /\ ("digest" \in enabled => units["digestTimer"] # Absent)'
      BY <2>1, <2>2 DEF OneCommand, Unit
    <2>4. \A i \in 1..4 :
            units'[Files[i]] = Absent <=> units[Files[i]] = Absent
      BY <2>2, FilesAreUnits
    <2>5. \A o \in Operator :
             /\ (command[o].pc = "read" => ReadIsCurrent(command[o]))'
             /\ (command[o].pc = "work" /\ command[o].kind = "uninstall"
                   => Progress(command[o]))'
      BY <2>1, <2>4
         DEF OneCommand, ReadIsCurrent, Progress, LastSystemctl
    <2> QED BY <2>1, <2>3, <2>5 DEF OneCommand, InFlight
  <1> QED
    BY <1>2, <1>3, <1>4, <1>5, <1>6, <1>7, <1>8 DEF ScheduleNext

LEMMA UninstallSteady ==
  UninstallInv /\ [ScheduleNext]_schedule => UninstallInv'
  BY OneNext, ScheduleTypeNext DEF UninstallInv

LEMMA UninstallEnds ==
  ASSUME UninstallInv, ScheduleNext, NEW o \in Operator, ~overlapped,
         command[o].pc \in {"read", "work"},
         command'[o].kind = "uninstall",
         command'[o].pc \in {"absent", "finished"}
  PROVE  enabled' = {} /\ \A u \in Unit : units'[u] = Absent
  <1>1. ScheduleTyped /\ OneCommand
    BY DEF UninstallInv
  <1>2. command'[o] # command[o]
    OBVIOUS
  <1>3. ~UserEdits
    BY <1>2 DEF UserEdits
  <1>4. ~Begin(o)
    BY DEF Begin, InFlight
  <1>5. ASSUME NEW p \in Operator, p # o,
               \/ Begin(p) \/ ReadNext(p) \/ WorkNext(p)
               \/ SystemctlRefuses(p) \/ StepBreaks(p)
        PROVE  FALSE
    <2>1. \E c : command' = [command EXCEPT ![p] = c]
      BY <1>5 DEF Begin, ReadNext, WorkNext, SystemctlRefuses, StepBreaks
    <2> QED BY <1>1, <1>2, <1>5, <2>1 DEF ScheduleTyped
  <1>6. ~SystemctlRefuses(o) /\ ~StepBreaks(o)
    BY <1>1 DEF SystemctlRefuses, StepBreaks, Idle, ScheduleTyped
  <1>7. ReadNext(o) \/ WorkNext(o)
    BY <1>3, <1>4, <1>5, <1>6 DEF ScheduleNext
  <1> QED BY <1>1, <1>7, ReadKeeps, WorkKeeps

\* An uninstall that no command overlaps and that says it is done leaves no
\* unit and no running timer, whatever was killed, failed or edited before
\* (main.rs, schedule_uninstall).
THEOREM UninstallIsComplete == ScheduleSpec => UninstallLeavesNothing
  <1>1. ScheduleInit => UninstallInv
    BY ScheduleTypeInit, OneInit DEF UninstallInv
  <1>2. UninstallInv /\ [ScheduleNext]_schedule =>
          [\A o \in Operator :
             /\ command[o].pc \in {"read", "work"}
             /\ command'[o].kind = "uninstall"
             /\ command'[o].pc \in {"absent", "finished"}
             /\ ~overlapped
             => enabled' = {} /\ \A u \in Unit : units'[u] = Absent]_schedule
    BY UninstallEnds
  <1> QED BY <1>1, <1>2, UninstallSteady, PTL
          DEF ScheduleSpec, UninstallLeavesNothing

(***************************************************************************)
(* Posture.  A state file says of every check what the log of the scans it *)
(* descends from says: the last two states, since when it is not observed, *)
(* and of which adverse state the user was told.                           *)
(***************************************************************************)
\* The least of some natural numbers.
LEMMA LeastNumber ==
  ASSUME NEW T \in SUBSET Nat, T # {}
  PROVE  \E k \in T : \A m \in T : k <= m
  <1> DEFINE Less == OpToRel(<, Nat)
  <1>1. IsWellFoundedOn(Less, Nat)
    BY NatLessThanWellFounded
  <1>2. \A a, b \in Nat : a < b => <<a, b>> \in Less
    BY DEF OpToRel
  <1> HIDE DEF Less
  <1>3. PICK k \in T : \A m \in T : ~ (<<m, k>> \in Less)
    BY <1>1, WFMin, Zenon
  <1>4. ASSUME NEW m \in T PROVE k <= m
    <2>1. m \in Nat /\ k \in Nat
      OBVIOUS
    <2>2. <<m, k>> \notin Less
      BY <1>3
    <2>3. ~(m < k)
      BY <1>2, <2>1, <2>2
    <2> QED BY <2>1, <2>3
  <1> QED BY <1>4

Scanned == [at : Nat, saw : [Check -> CheckState]]
Gap == [started : Nat, notified : BOOLEAN]
ToldOf(log, c) ==
    LET n == Len(log)
    IN IF n > 1 /\ Saw(log, n, c) \in Adverse THEN Saw(log, n, c) ELSE None

Summarizes(check, log, c) ==
    LET n == Len(log)
    IN /\ check.previous = IF n = 0 THEN None ELSE Saw(log, n, c)
       /\ check.prior = IF n < 2 THEN None ELSE Saw(log, n - 1, c)
       /\ check.lastNotified = ToldOf(log, c)
       /\ IF n > 0 /\ Saw(log, n, c) \in Loss
          THEN /\ check.episode \in Gap
               /\ check.episode.started = GapStart(log, c)
          ELSE check.episode = None

IsSummary(state) ==
    /\ state.log \in Seq(Scanned)
    /\ \A c \in Check : Summarizes(state.checks[c], state.log, c)

NoticesAreDue(notices, log) ==
    /\ \A n \in notices : n.check \in Check
    /\ \A c \in Check : (\E n \in notices : n.check = c) <=> Due(log, c)

ScanIsOrdered(me) ==
    /\ me = [f \in DOMAIN IdleScan |-> me[f]]
    /\ me.pc \in {"idle", "load", "report", "state", "notify"}
    /\ me.pc = "load" => me.seen \in [Check -> CheckState] /\ me.at \in Nat
    /\ me.pc \in {"report", "state", "notify"} =>
          /\ IsSummary(me.next) /\ Len(me.next.log) > 0
          /\ me.seen = me.next.log[Len(me.next.log)].saw
          /\ NoticesAreDue(me.notices, me.next.log)
    /\ me.pc = "notify" => me.stored = TRUE

ScannersInv ==
    /\ scanner = [s \in Scanner |-> scanner[s]]
    /\ \A s \in Scanner : ScanIsOrdered(scanner[s])
KeptInv == kept # Broken => IsSummary(kept)
DeliveredInv ==
    \A d \in delivered : d.stored = TRUE /\ Due(d.log, d.check)

PostureInv ==
    /\ host \in Host \cup Later /\ scans \in Nat
    /\ ScannersInv /\ KeptInv /\ ReportTellsHistory /\ DeliveredInv

\* A command that cannot be run hides verdicts of the checks that read it and
\* changes no other, except of the three that are graded without it.
LEMMA LossHides ==
  ASSUME NEW h, Command \cup Asked \subseteq DOMAIN h, NEW f \in Command
  PROVE  LET before == Verdict(h)
             after == Verdict([h EXCEPT ![f] = Broken])
         IN \A c \in DOMAIN before :
               /\ after[c] = "pass" => before[c] = "pass"
               /\ \/ after[c] \in {before[c], "incomplete"}
                  \/ c \in {"ssh", "firewallUnit", "firewall"}
<1> DEFINE g == [h EXCEPT ![f] = Broken]
           Hidden(b, a) == a = b \/ a = "incomplete"
           Weaker(b, a) == a = "pass" => b = "pass"
<1>1. /\ \A x \in Command : g[x] = IF x = f THEN Broken ELSE h[x]
      /\ \A x \in Asked : g[x] = h[x]
  BY DEF Command, Asked
<1>2. /\ g.omarchy = h.omarchy /\ g.tmp = h.tmp /\ g.synced = h.synced
      /\ g.git = h.git /\ g.auditTool = h.auditTool
      /\ g.nftConfig = h.nftConfig /\ g.ufwFiles = h.ufwFiles
      /\ g.ufwEnabled = h.ufwEnabled /\ g.keyring = h.keyring
      /\ g.path = h.path /\ g.efi = h.efi /\ g.sshdConfig = h.sshdConfig
  BY <1>1 DEF Asked
<1>3. /\ g.checkupdates \in {h.checkupdates, Broken}
      /\ g.query \in {h.query, Broken} /\ g.audit \in {h.audit, Broken}
      /\ g.disks \in {h.disks, Broken} /\ g.nftUnit \in {h.nftUnit, Broken}
      /\ g.ufwUnit \in {h.ufwUnit, Broken} /\ g.nft \in {h.nft, Broken}
      /\ g.ufwStatus \in {h.ufwStatus, Broken}
      /\ g.sockets \in {h.sockets, Broken}
      /\ g.pacmanQ \in {h.pacmanQ, Broken} /\ g.uname \in {h.uname, Broken}
      /\ g.foreign \in {h.foreign, Broken}
      /\ g.bootctl \in {h.bootctl, Broken} /\ g.sshd \in {h.sshd, Broken}
  BY <1>1 DEF Command
<1> HIDE DEF g
<1>4. Repository(g) = Repository(h) \/ Repository(g)[1] = "incomplete"
  <2>1. QueryVerdict(g.query) \in {QueryVerdict(h.query), "incomplete"}
    BY <1>3 DEF QueryVerdict
  <2>2. CASE g.checkupdates = Broken
    BY <2>2 DEF Repository
  <2>3. CASE g.checkupdates = h.checkupdates
    BY <1>2, <2>1, <2>3 DEF Repository
  <2> QED BY <1>3, <2>2, <2>3
<1>6. Hidden(Repository(h)[1], Repository(g)[1])
  BY <1>4
<1>7. Hidden(OmarchyUpdates(h), OmarchyUpdates(g))
  BY <1>2, <1>4 DEF OmarchyUpdates
<1>8. /\ Hidden(ArchAudit(h), ArchAudit(g))
      /\ Hidden(Listeners(h), Listeners(g))
      /\ Hidden(ForeignPackages(h), ForeignPackages(g))
      /\ Hidden(RootLuks(h), RootLuks(g))
  BY <1>2, <1>3 DEF ArchAudit, Execute, Succeeded, Listeners, Listing,
                    ForeignPackages, RootLuks
<1>9. /\ FirewallConfiguration(g) = FirewallConfiguration(h)
      /\ Weaker(FirewallService(h), FirewallService(g))
  BY <1>2 DEF FirewallConfiguration, FirewallService
<1>10. Weaker(FirewallEffective(h), FirewallEffective(g))
  BY <1>2, <1>3, NoneIsNothing
  DEF FirewallEffective, Succeeded, UfwEffectiveFallback,
                    UnitState
<1>11. Hidden(KernelRestart(h), KernelRestart(g))
  BY <1>3 DEF KernelRestart
<1>12. /\ Context(g) = Context(h) /\ Keyring(g) = Keyring(h)
       /\ Persistence(g) = Persistence(h)
       /\ PathIntegrity(g) = PathIntegrity(h)
       /\ Hidden(SecureBoot(h), SecureBoot(g))
       /\ Weaker(SshConfiguration(h), SshConfiguration(g))
       /\ PackageIntegrity(g) = PackageIntegrity(h)
       /\ PostUpdateHook(g) = PostUpdateHook(h)
  BY <1>2, <1>3 DEF Context, Keyring, Persistence, PathIntegrity, SecureBoot,
     SshConfiguration, PackageIntegrity, PostUpdateHook, Succeeded
<1> QED
  BY <1>6, <1>7, <1>8, <1>9, <1>10, <1>11, <1>12 DEF Verdict, g

\* CHOOSE of a least element finds it.
LEMMA EarliestIs ==
  ASSUME NEW T \in SUBSET Nat, NEW k \in T, \A m \in T : k <= m
  PROVE  (CHOOSE i \in T : \A j \in T : i <= j) = k
<1>1. \A i \in T : (\A j \in T : i <= j) => i = k
  OBVIOUS
<1> QED BY <1>1

\* A gap of a log that one more scan is added to.
\* Every check of every host has a state, however its tools answer.
LEMMA VerdictsAreStates ==
  ASSUME NEW h, NEW c \in DOMAIN Verdict(h)
  PROVE  Verdict(h)[c] \in CheckState
<1>1. Repository(h)[1] \in {"pass", "attention", "incomplete"}
  BY DEF Repository, QueryVerdict
<1>2. OmarchyUpdates(h) \in {"pass", "attention", "incomplete",
                             "not_applicable"}
  BY <1>1 DEF OmarchyUpdates, DevelopmentCheckout
<1>3. /\ ArchAudit(h) \in CheckState /\ Listeners(h) \in CheckState
      /\ ForeignPackages(h) \in CheckState
  BY DEF ArchAudit, Listeners, ForeignPackages, Listing, CheckState
<1>4. RootLuks(h) \in CheckState
  BY DEF RootLuks, CheckState
<1>5. /\ FirewallConfiguration(h) \in CheckState
      /\ FirewallService(h) \in CheckState
      /\ FirewallEffective(h) \in CheckState
  BY DEF FirewallConfiguration, FirewallService, FirewallEffective, CheckState
<1>6. KernelRestart(h) \in CheckState
  BY DEF KernelRestart, CheckState
<1>7. /\ Context(h) \in CheckState /\ Keyring(h) \in CheckState
      /\ Persistence(h) \in CheckState /\ PathIntegrity(h) \in CheckState
      /\ SecureBoot(h) \in CheckState /\ SshConfiguration(h) \in CheckState
      /\ PackageIntegrity(h) \in CheckState
      /\ PostUpdateHook(h) \in CheckState
  BY DEF Context, Keyring, Persistence, PathIntegrity, SecureBoot,
         SshConfiguration, PackageIntegrity, PostUpdateHook, CheckState
<1> QED
  BY <1>1, <1>2, <1>3, <1>4, <1>5, <1>6, <1>7 DEF Verdict, CheckState

LEMMA GapGrows ==
  ASSUME NEW log \in Seq(Scanned), NEW e \in Scanned, NEW c \in Check
  PROVE  LET n == Len(log)
             new == Append(log, e)
         IN /\ e.saw[c] \notin Loss => GapStart(new, c) = None
            /\ e.saw[c] \in Loss =>
                  GapStart(new, c) =
                     IF n > 0 /\ Saw(log, n, c) \in Loss THEN GapStart(log, c)
                     ELSE e.at
<1> DEFINE n == Len(log)
           new == Append(log, e)
           start == {i \in DOMAIN log :
                       \A j \in i..Len(log) : Saw(log, j, c) \in Loss}
           later == {i \in DOMAIN new :
                       \A j \in i..Len(new) : Saw(new, j, c) \in Loss}
<1>1. /\ n \in Nat /\ DOMAIN log = 1..n /\ DOMAIN new = 1..(n + 1)
      /\ Len(new) = n + 1 /\ new[n + 1] = e
      /\ \A i \in 1..n : new[i] = log[i]
  BY AppendProperties
<1>2. /\ GapStart(log, c) = IF start = {} THEN None
                            ELSE log[CHOOSE i \in start :
                                        \A j \in start : i <= j].at
      /\ GapStart(new, c) = IF later = {} THEN None
                            ELSE new[CHOOSE i \in later :
                                        \A j \in later : i <= j].at
  BY DEF GapStart
<1>3. /\ \A j \in 1..n : Saw(new, j, c) = Saw(log, j, c)
      /\ Saw(new, n + 1, c) = e.saw[c]
  BY <1>1 DEF Saw
<1>4. /\ \A i : i \in start <=> /\ i \in 1..n
                                /\ \A j \in i..n : Saw(log, j, c) \in Loss
      /\ \A i : i \in later <=>
            /\ i \in 1..(n + 1)
            /\ \A j \in i..(n + 1) : Saw(new, j, c) \in Loss
  BY <1>1
<1> HIDE DEF n, new, start, later
<1>5. start \in SUBSET Nat /\ later \in SUBSET Nat
  BY <1>1, <1>4
<1>6. CASE e.saw[c] \notin Loss
  <2>1. \A i \in later : FALSE
    BY <1>1, <1>3, <1>4, <1>6
  <2>2. later = {}
    BY <2>1
  <2> QED BY <1>2, <1>6, <2>2 DEF n, new
<1>7. CASE e.saw[c] \in Loss /\ ~(n > 0 /\ Saw(log, n, c) \in Loss)
  <2>1. ASSUME NEW i \in later, i # n + 1 PROVE FALSE
    <3>1. n \in 1..n /\ n \in i..(n + 1) /\ n > 0
      BY <1>1, <1>4, <2>1
    <3>2. Saw(new, n, c) \in Loss
      BY <1>4, <2>1, <3>1
    <3> QED BY <1>3, <1>7, <3>1, <3>2
  <2>2. n + 1 \in later
    BY <1>1, <1>3, <1>4, <1>7
  <2>3. n + 1 \in Nat /\ \A i \in later : n + 1 <= i
    BY <1>1, <2>1
  <2>4. (CHOOSE i \in later : \A j \in later : i <= j) = n + 1
    BY <1>5, <2>2, <2>3, EarliestIs
  <2>5. GapStart(new, c) = e.at
    BY <1>1, <1>2, <2>2, <2>4
  <2> QED BY <1>7, <2>5 DEF n, new
<1>8. CASE e.saw[c] \in Loss /\ n > 0 /\ Saw(log, n, c) \in Loss
  <2>1. ASSUME NEW i \in 1..n
        PROVE  i \in later <=> i \in start
    BY <1>1, <1>3, <1>4, <1>8
  <2>2. \A i \in later : i \in 1..n \/ i = n + 1
    BY <1>1, <1>4
  <2>3. n \in start
    BY <1>1, <1>4, <1>8
  <2>4. \E k \in start : \A m \in start : k <= m
    BY <1>5, <2>3, LeastNumber
  <2>5. PICK k \in start : \A m \in start : k <= m
    BY <2>4
  <2>6. k \in 1..n /\ k \in Nat /\ k \in later
    BY <1>1, <1>4, <2>1, <2>5
  <2>7. \A m \in later : k <= m
    BY <1>1, <2>1, <2>2, <2>5, <2>6
  <2>8. (CHOOSE i \in start : \A j \in start : i <= j) = k
    BY <1>5, <2>5, EarliestIs
  <2>9. (CHOOSE i \in later : \A j \in later : i <= j) = k
    BY <1>5, <2>6, <2>7, EarliestIs
  <2>10. GapStart(new, c) = log[k].at /\ GapStart(log, c) = log[k].at
    BY <1>1, <1>2, <2>3, <2>6, <2>8, <2>9
  <2> QED BY <1>8, <2>10 DEF n, new
<1> QED BY <1>6, <1>7, <1>8 DEF n, new

\* The update of one check's state: it then says what the longer log says,
\* and there is a notice exactly when one is due.
LEMMA CheckIsCarriedOn ==
  ASSUME NEW was, NEW log \in Seq(Scanned), NEW e \in Scanned,
         NEW c \in Check, Summarizes(was, log, c)
  PROVE  LET new == Append(log, e)
             told == Notices(was, c, e.saw[c], e.at)
         IN /\ Summarizes(UpdateCheck(was, e.saw[c], e.at), new, c)
            /\ (\E n \in told : n.check = c) <=> Due(new, c)
            /\ \A n \in told : n.check = c
<1> DEFINE n == Len(log)
           new == Append(log, e)
           verdict == e.saw[c]
           last == Saw(log, n, c)
           is == UpdateCheck(was, verdict, e.at)
           told == Notices(was, c, verdict, e.at)
<1>1. /\ n \in Nat /\ Len(new) = n + 1 /\ new[n + 1] = e
      /\ \A i \in 1..n : new[i] = log[i] /\ log[i] \in Scanned
  BY AppendProperties
<1>2. /\ \A j \in 1..n : /\ Saw(new, j, c) = Saw(log, j, c)
                         /\ Saw(log, j, c) \in CheckState
      /\ Saw(new, n + 1, c) = verdict /\ verdict \in CheckState
  BY <1>1 DEF Saw, Scanned
<1>3. n > 0 => last \in CheckState /\ Saw(new, n, c) = last
  BY <1>1, <1>2
<1>4. /\ n = 0 => was.previous = None
      /\ n > 0 => was.previous = last
      /\ was.lastNotified = IF n > 1 /\ last \in Adverse THEN last ELSE None
      /\ n > 0 /\ last \in Loss => /\ was.episode \in Gap
                                   /\ was.episode.started = GapStart(log, c)
      /\ ~(n > 0 /\ last \in Loss) => was.episode = None
  BY <1>1 DEF Summarizes, ToldOf
<1>5. /\ verdict \notin Loss => GapStart(new, c) = None
      /\ verdict \in Loss =>
            GapStart(new, c) = IF n > 0 /\ last \in Loss
                               THEN GapStart(log, c) ELSE e.at
  BY GapGrows
<1>6. /\ None \notin CheckState /\ None \notin Gap
      /\ Adverse \cap Loss = {} /\ e.at \in Nat
      /\ "coverage" \notin Adverse
  BY NoneIsNothing DEF Gap, Adverse, Loss, Scanned
<1>7. /\ is.previous = verdict /\ is.prior = was.previous
      /\ is.episode = IF verdict \in Loss THEN Episode(was, e.at) ELSE None
      /\ is.lastNotified = IF verdict \in Adverse
                           THEN IF was.previous # None THEN verdict
                                ELSE was.lastNotified
                           ELSE None
  BY DEF UpdateCheck
<1>8. told = IF verdict \in Loss
             THEN IF /\ ~(was.episode # None /\ was.episode.notified)
                     /\ was.previous # None /\ was.previous \notin Loss
                  THEN {[check |-> c, of |-> "coverage"]} ELSE {}
             ELSE IF /\ verdict \in Adverse
                     /\ was.previous # None /\ was.lastNotified # verdict
                  THEN {[check |-> c, of |-> verdict]} ELSE {}
  BY DEF Notices
<1>9. verdict \in Loss =>
         /\ Episode(was, e.at) \in Gap
         /\ Episode(was, e.at).started = GapStart(new, c)
  BY <1>4, <1>5, <1>6 DEF Episode, Gap
<1>10. Due(new, c) <=> /\ n > 0
                       /\ IF verdict \in Loss THEN last \notin Loss
                          ELSE verdict \in Adverse /\ (n = 1 \/ last # verdict)
  <2>1. (n + 1 > 1 <=> n > 0) /\ (n + 1 = 2 <=> n = 1) /\ n + 1 - 1 = n
    <3> HIDE DEF n
    <3> QED BY <1>1
  <2>2. Due(new, c) <=>
           /\ n > 0
           /\ IF verdict \in Loss THEN Saw(new, n, c) \notin Loss
              ELSE verdict \in Adverse /\ (n = 1 \/ Saw(new, n, c) # verdict)
    BY <1>1, <1>2, <2>1 DEF Due
  <2> HIDE DEF n, new, verdict, last
  <2> QED BY <1>3, <2>2
<1>11. Summarizes(is, new, c)
  <2>1. (n + 1 > 1 <=> n > 0) /\ n + 1 # 0 /\ n + 1 - 1 = n /\ n + 1 > 0
        /\ (n + 1 < 2 <=> n = 0) /\ (n > 0 <=> n # 0)
    BY <1>1
  <2>2. ToldOf(new, c) = IF n > 0 /\ verdict \in Adverse THEN verdict ELSE None
    BY <1>1, <1>2, <2>1 DEF ToldOf
  <2>3. is.lastNotified = ToldOf(new, c)
    <3> HIDE DEF n, new, verdict, last, is, told
    <3> QED BY <1>1, <1>3, <1>4, <1>6, <1>7, <2>2
  <2>4. /\ is.previous = Saw(new, n + 1, c)
        /\ is.prior = IF n = 0 THEN None ELSE Saw(new, n, c)
    <3> HIDE DEF n, new, verdict, last, is, told
    <3> QED BY <1>2, <1>3, <1>4, <1>7, <2>1
  <2>5. IF verdict \in Loss
        THEN is.episode \in Gap /\ is.episode.started = GapStart(new, c)
        ELSE is.episode = None
    BY <1>7, <1>9
  <2> HIDE DEF n, verdict, last, is, told
  <2> QED BY <1>1, <1>2, <2>1, <2>3, <2>4, <2>5 DEF Summarizes
<1>12. (\E m \in told : m.check = c) <=> Due(new, c)
  <2>1. (told # {}) <=> Due(new, c)
    <3> HIDE DEF n, new, verdict, last, is, told
    <3>1. n = 0 \/ n > 0
      BY <1>1
    <3>2. CASE n = 0
      BY <1>4, <1>8, <1>10, <3>2
    <3>3. ASSUME n > 0
          PROVE  was.previous = last /\ last \in CheckState /\ last # None
      BY <1>3, <1>4, <1>6, <3>3
    <3>4. CASE n > 0 /\ verdict \in Loss
      <4>1. last \notin Loss => was.episode = None
        BY <1>4
      <4>2. told # {} <=> last \notin Loss
        BY <1>8, <3>3, <3>4, <4>1
      <4> QED BY <1>10, <3>4, <4>2
    <3>5. CASE n > 0 /\ verdict \notin Loss
      <4>1. n = 1 \/ n > 1
        BY <1>1, <3>5
      <4>2. n > 1 => n # 1
        BY <1>1
      <4>3. n = 1 => ~(n > 1)
        BY <1>1
      <4>4. told # {} <=> verdict \in Adverse /\ was.lastNotified # verdict
        BY <1>8, <3>3, <3>5
      <4>5. verdict \in Adverse =>
               (was.lastNotified # verdict <=> n = 1 \/ last # verdict)
        BY <1>2, <1>4, <1>6, <4>1, <4>2, <4>3
      <4> QED BY <1>10, <3>5, <4>4, <4>5
    <3> QED BY <3>1, <3>2, <3>4, <3>5
  <2>2. \A m \in told : m.check = c
    BY <1>8
  <2> HIDE DEF told, new
  <2> QED BY <2>1, <2>2
<1>13. \A m \in told : m.check = c
  BY <1>8
<1> QED BY <1>11, <1>12, <1>13

\* The scan of a state file that says what its log says is a state of the
\* same kind, with the notices that are due.
LEMMA StateIsCarriedOn ==
  ASSUME NEW state, IsSummary(state), NEW e \in Scanned
  PROVE  LET next == [checks |-> [c \in Check |->
                          UpdateCheck(state.checks[c], e.saw[c], e.at)],
                      log |-> Append(state.log, e)]
         IN /\ IsSummary(next) /\ Len(next.log) > 0
            /\ e.saw = next.log[Len(next.log)].saw
            /\ NoticesAreDue(UNION {Notices(state.checks[c], c, e.saw[c],
                                            e.at) : c \in Check}, next.log)
<1> DEFINE next == [checks |-> [c \in Check |->
                        UpdateCheck(state.checks[c], e.saw[c], e.at)],
                    log |-> Append(state.log, e)]
           told(c) == Notices(state.checks[c], c, e.saw[c], e.at)
           notices == UNION {told(c) : c \in Check}
<1>1. /\ state.log \in Seq(Scanned)
      /\ \A c \in Check : Summarizes(state.checks[c], state.log, c)
  BY DEF IsSummary
<1>2. /\ next.log = Append(state.log, e)
      /\ \A c \in Check : next.checks[c] =
            UpdateCheck(state.checks[c], e.saw[c], e.at)
  OBVIOUS
<1>3. /\ next.log \in Seq(Scanned) /\ Len(next.log) > 0
      /\ next.log[Len(next.log)] = e
  BY <1>1, <1>2, AppendProperties
<1>4. ASSUME NEW c \in Check
      PROVE  /\ Summarizes(next.checks[c], next.log, c)
             /\ (\E n \in told(c) : n.check = c) <=> Due(next.log, c)
             /\ \A n \in told(c) : n.check = c
  <2>1. PICK log : log = state.log
    OBVIOUS
  <2>2. PICK was : was = state.checks[c]
    OBVIOUS
  <2>3. log \in Seq(Scanned) /\ Summarizes(was, log, c)
    BY <1>1, <2>1, <2>2
  <2>4. /\ Summarizes(UpdateCheck(was, e.saw[c], e.at), Append(log, e), c)
        /\ (\E n \in Notices(was, c, e.saw[c], e.at) : n.check = c)
              <=> Due(Append(log, e), c)
        /\ \A n \in Notices(was, c, e.saw[c], e.at) : n.check = c
    BY <2>3, CheckIsCarriedOn
  <2>5. told(c) = Notices(was, c, e.saw[c], e.at)
    BY <2>2
  <2>6. /\ next.checks[c] = UpdateCheck(was, e.saw[c], e.at)
        /\ next.log = Append(log, e)
    BY <1>2, <2>1, <2>2
  <2> HIDE DEF next, told
  <2> QED BY <2>4, <2>5, <2>6
<1>5. \A n : n \in notices <=> \E c \in Check : n \in told(c)
  OBVIOUS
<1> HIDE DEF next, told, notices
<1>6. IsSummary(next)
  BY <1>3, <1>4 DEF IsSummary
<1>7. NoticesAreDue(notices, next.log)
  BY <1>4, <1>5 DEF NoticesAreDue
<1> QED BY <1>3, <1>6, <1>7 DEF next, told, notices

\* What the report takes from a state that says what its log says.
LEMMA AnnotationTellsHistory ==
  ASSUME NEW state, IsSummary(state), Len(state.log) > 0, NEW c \in Check
  PROVE  LET log == state.log
             n == Len(log)
         IN Annotate(state.checks, log[n].saw)[c] =
              [ state |-> Saw(log, n, c),
                previous |-> IF n = 1 THEN None ELSE Saw(log, n - 1, c),
                gap |-> GapStart(log, c) ]
<1> DEFINE log == state.log
           n == Len(log)
           check == state.checks[c]
<1>1. log \in Seq(Scanned) /\ Summarizes(check, log, c)
  BY DEF IsSummary
<1>2. n \in Nat /\ n > 0 /\ DOMAIN log = 1..n
  BY <1>1
<1>3. /\ check.prior = IF n < 2 THEN None ELSE Saw(log, n - 1, c)
      /\ IF Saw(log, n, c) \in Loss
         THEN /\ check.episode \in Gap
              /\ check.episode.started = GapStart(log, c)
         ELSE check.episode = None
  BY <1>1, <1>2 DEF Summarizes
<1>4. Saw(log, n, c) \notin Loss => GapStart(log, c) = None
  <2> DEFINE start == {i \in DOMAIN log :
                         \A j \in i..Len(log) : Saw(log, j, c) \in Loss}
  <2>1. Saw(log, n, c) \notin Loss => start = {}
    BY <1>2
  <2>2. start = {} => GapStart(log, c) = None
    BY DEF GapStart
  <2> QED BY <2>1, <2>2
<1>5. None \notin Gap
  BY NoneIsNothing DEF Gap
<1>6. Annotate(state.checks, log[n].saw)[c] =
        [ state |-> Saw(log, n, c), previous |-> check.prior,
          gap |-> IF Saw(log, n, c) \in Loss /\ check.episode # None
                  THEN check.episode.started ELSE None ]
  BY DEF Annotate, Saw
<1>7. n < 2 <=> n = 1
  <2> HIDE DEF n
  <2> QED BY <1>2
<1>8. check.prior = IF n = 1 THEN None ELSE Saw(log, n - 1, c)
  BY <1>3, <1>7
<1>9. (IF Saw(log, n, c) \in Loss /\ check.episode # None
       THEN check.episode.started ELSE None) = GapStart(log, c)
  BY <1>3, <1>4, <1>5
<1> QED BY <1>6, <1>8, <1>9

\* One scan takes a step that leaves it in order.
LEMMA ScannersKeep ==
  ASSUME ScannersInv, NEW s \in Scanner, NEW now,
         scanner' = [scanner EXCEPT ![s] = now], ScanIsOrdered(now)
  PROVE  ScannersInv'
<1>1. /\ scanner' = [t \in Scanner |-> scanner'[t]]
      /\ \A t \in Scanner : scanner'[t] = IF t = s THEN now ELSE scanner[t]
  BY DEF ScannersInv
<1>2. \A t \in Scanner : ScanIsOrdered(scanner'[t])
  BY <1>1 DEF ScannersInv
<1> QED BY <1>1, <1>2 DEF ScannersInv

\* A scan that did not begin.
LEMMA IdleIsOrdered == ScanIsOrdered(IdleScan)
BY DEF ScanIsOrdered, IdleScan

\* The steps of a scan, one lemma each.
LEMMA CollectKeeps ==
  ASSUME PostureInv, NEW s \in Scanner, Collect(s)
  PROVE  PostureInv'
<1>1. PICK notify \in BOOLEAN :
         scanner' = [scanner EXCEPT ![s] =
             [IdleScan EXCEPT !.pc = "load", !.notify = notify, !.at = scans,
                              !.seen = [c \in Check |-> Verdict(host)[c]]]]
  BY DEF Collect
<1> DEFINE seen == [c \in Check |-> Verdict(host)[c]]
           now == [IdleScan EXCEPT !.pc = "load", !.notify = notify,
                                   !.at = scans, !.seen = seen]
<1>2. PICK h : h = host
  OBVIOUS
<1>3. \A c \in Check : Verdict(h)[c] \in CheckState
  BY <1>2, ChecksAreNamed, VerdictsAreStates DEF PostureInv
<1>4. seen \in [Check -> CheckState]
  BY <1>2, <1>3
<1> HIDE DEF seen
<1>5. ScanIsOrdered(now)
  BY <1>4 DEF ScanIsOrdered, IdleScan, PostureInv
<1>6. scanner' = [scanner EXCEPT ![s] = now]
  BY <1>1 DEF seen
<1> HIDE DEF now
<1>7. ScannersInv'
  BY <1>5, <1>6, ScannersKeep DEF PostureInv
<1> QED
  BY <1>7 DEF PostureInv, Collect, KeptInv, DeliveredInv, ReportTellsHistory

LEMMA LoadAndUpdateKeeps ==
  ASSUME PostureInv, NEW s \in Scanner, LoadAndUpdate(s)
  PROVE  PostureInv'
<1>1. PICK me : me = scanner[s]
  OBVIOUS
<1>2. PICK state : state = kept
  OBVIOUS
<1> DEFINE e == [at |-> me.at, saw |-> me.seen]
           next == [checks |-> [c \in Check |->
                        UpdateCheck(state.checks[c], e.saw[c], e.at)],
                    log |-> Append(state.log, e)]
           told == UNION {Notices(state.checks[c], c, e.saw[c], e.at)
                             : c \in Check}
           now == [me EXCEPT !.pc = "report", !.next = next, !.notices = told]
<1>3. ScanIsOrdered(me) /\ me.pc = "load" /\ IsSummary(state)
  BY <1>1, <1>2 DEF PostureInv, ScannersInv, KeptInv, LoadAndUpdate
<1>4. e \in Scanned
  BY <1>3 DEF ScanIsOrdered, Scanned
<1>5. scanner' = [scanner EXCEPT ![s] = now]
  BY <1>1, <1>2 DEF LoadAndUpdate
<1>6. e.saw = me.seen
  OBVIOUS
<1>7. /\ IsSummary(next) /\ Len(next.log) > 0
      /\ me.seen = next.log[Len(next.log)].saw
      /\ NoticesAreDue(told, next.log)
  <2> HIDE DEF e
  <2> QED BY <1>3, <1>4, <1>6, StateIsCarriedOn
<1> HIDE DEF next, told
<1>8. ScanIsOrdered(now)
  BY <1>3, <1>7 DEF ScanIsOrdered, IdleScan
<1> HIDE DEF now
<1>9. ScannersInv'
  BY <1>5, <1>8, ScannersKeep DEF PostureInv
<1> QED
  BY <1>9 DEF PostureInv, LoadAndUpdate, KeptInv, DeliveredInv,
              ReportTellsHistory

LEMMA StoreReportKeeps ==
  ASSUME PostureInv, NEW s \in Scanner, StoreReport(s)
  PROVE  PostureInv'
<1>1. PICK me : me = scanner[s]
  OBVIOUS
<1>2. ScanIsOrdered(me) /\ me.pc = "report"
  BY <1>1 DEF PostureInv, ScannersInv, StoreReport
<1>3. PICK state : state = me.next
  OBVIOUS
<1>4. /\ IsSummary(state) /\ Len(state.log) > 0
      /\ me.seen = state.log[Len(state.log)].saw
  BY <1>2, <1>3 DEF ScanIsOrdered
<1>5. report' = [checks |-> Annotate(state.checks,
                                     state.log[Len(state.log)].saw),
                 log |-> state.log]
  BY <1>1, <1>3, <1>4 DEF StoreReport
<1>6. ReportTellsHistory'
  BY <1>4, <1>5, AnnotationTellsHistory DEF ReportTellsHistory
<1> DEFINE now == [me EXCEPT !.pc = "state"]
<1>7. ScanIsOrdered(now)
  BY <1>2 DEF ScanIsOrdered, IdleScan
<1>8. scanner' = [scanner EXCEPT ![s] = now]
  BY <1>1 DEF StoreReport
<1> HIDE DEF now
<1>9. ScannersInv'
  BY <1>7, <1>8, ScannersKeep DEF PostureInv
<1> QED BY <1>6, <1>9 DEF PostureInv, StoreReport, KeptInv, DeliveredInv

LEMMA StoreStateKeeps ==
  ASSUME PostureInv, NEW s \in Scanner, StoreState(s)
  PROVE  PostureInv'
<1>1. PICK me : me = scanner[s]
  OBVIOUS
<1>2. ScanIsOrdered(me) /\ me.pc = "state"
  BY <1>1 DEF PostureInv, ScannersInv, StoreState
<1>3. KeptInv'
  BY <1>1, <1>2 DEF StoreState, KeptInv, ScanIsOrdered
<1> DEFINE now == IF me.notify
                  THEN [me EXCEPT !.pc = "notify", !.stored = TRUE]
                  ELSE IdleScan
<1>4. ScanIsOrdered(now)
  <2>1. ScanIsOrdered([me EXCEPT !.pc = "notify", !.stored = TRUE])
    BY <1>2 DEF ScanIsOrdered, IdleScan
  <2> QED BY <2>1, IdleIsOrdered
<1>5. scanner' = [scanner EXCEPT ![s] = now]
  BY <1>1 DEF StoreState
<1> HIDE DEF now
<1>6. ScannersInv'
  BY <1>4, <1>5, ScannersKeep DEF PostureInv
<1> QED
  BY <1>3, <1>6 DEF PostureInv, StoreState, DeliveredInv, ReportTellsHistory

LEMMA DeliverKeeps ==
  ASSUME PostureInv, NEW s \in Scanner, Deliver(s)
  PROVE  PostureInv'
<1>1. PICK me : me = scanner[s]
  OBVIOUS
<1>2. ScanIsOrdered(me) /\ me.pc = "notify"
  BY <1>1 DEF PostureInv, ScannersInv, Deliver
<1>3. delivered' = delivered \cup
         {[check |-> n.check, of |-> n.of, log |-> me.next.log,
           stored |-> me.stored] : n \in me.notices}
  BY <1>1 DEF Deliver
<1>4. ASSUME NEW n \in me.notices
      PROVE  Due(me.next.log, n.check) /\ me.stored = TRUE
  BY <1>2 DEF ScanIsOrdered, NoticesAreDue
<1>5. DeliveredInv'
  <2>1. ASSUME NEW d \in delivered'
        PROVE  d.stored = TRUE /\ Due(d.log, d.check)
    <3>1. CASE d \in delivered
      BY <3>1 DEF DeliveredInv, PostureInv
    <3>2. CASE d \notin delivered
      <4>1. PICK n \in me.notices :
               d = [check |-> n.check, of |-> n.of, log |-> me.next.log,
                    stored |-> me.stored]
        BY <1>3, <2>1, <3>2
      <4>2. d.check = n.check /\ d.log = me.next.log /\ d.stored = me.stored
        BY <4>1
      <4> QED BY <1>4, <4>2
    <3> QED BY <3>1, <3>2
  <2> QED BY <2>1 DEF DeliveredInv
<1>6. ScannersInv'
  BY IdleIsOrdered, ScannersKeep DEF PostureInv, Deliver
<1> QED
  BY <1>5, <1>6 DEF PostureInv, Deliver, KeptInv, ReportTellsHistory

\* A scan that ends, by a kill or because the state file does not parse.
LEMMA EndsKeep ==
  ASSUME PostureInv, NEW s \in Scanner, LoadFails(s) \/ Interrupt(s)
  PROVE  PostureInv'
<1>1. scanner' = [scanner EXCEPT ![s] = IdleScan]
  BY DEF LoadFails, Interrupt
<1>2. ScannersInv'
  BY <1>1, IdleIsOrdered, ScannersKeep DEF PostureInv
<1> QED
  BY <1>2 DEF PostureInv, LoadFails, Interrupt, KeptInv, DeliveredInv,
              ReportTellsHistory

\* The host changes and the file is damaged beside any number of scans.
LEMMA EnvironmentKeeps ==
  ASSUME PostureInv, HostChanges \/ StateDamaged \/ UNCHANGED posture
  PROVE  PostureInv'
<1>1. CASE HostChanges
  BY <1>1 DEF HostChanges, PostureInv, ScannersInv, KeptInv, DeliveredInv,
              ReportTellsHistory
<1>2. CASE StateDamaged
  BY <1>2 DEF StateDamaged, PostureInv, ScannersInv, KeptInv, DeliveredInv,
              ReportTellsHistory
<1>3. CASE UNCHANGED posture
  BY <1>3 DEF posture, PostureInv, ScannersInv, KeptInv, DeliveredInv,
              ReportTellsHistory
<1> QED BY <1>1, <1>2, <1>3

\* Before the first scan.
LEMMA NothingYet ==
  ASSUME PostureInit
  PROVE  PostureInv
<1>1. /\ host \in Host /\ scans = 0 /\ report = None /\ kept = Default
      /\ scanner = [s \in Scanner |-> IdleScan] /\ delivered = {}
  BY DEF PostureInit, NoScanYet
<1>2. ASSUME NEW c \in Check PROVE Summarizes(Unseen, <<>>, c)
  BY DEF Summarizes, Unseen, ToldOf
<1>3. IsSummary(Default)
  BY <1>2 DEF IsSummary, Default
<1>4. ScannersInv
  BY <1>1, IdleIsOrdered DEF ScannersInv
<1> QED
  BY <1>1, <1>3, <1>4 DEF PostureInv, KeptInv, DeliveredInv,
                          ReportTellsHistory

\* The invariant of posture scans.
LEMMA PostureHolds == PostureSpec => []PostureInv
<1>1. PostureInit => PostureInv
  BY NothingYet
<1>2. PostureInv /\ [PostureNext]_posture => PostureInv'
  <2> SUFFICES ASSUME PostureInv, [PostureNext]_posture
               PROVE  PostureInv'
    OBVIOUS
  <2>1. ASSUME NEW s \in Scanner,
               \/ Collect(s) \/ LoadAndUpdate(s) \/ LoadFails(s)
               \/ StoreReport(s) \/ StoreState(s) \/ Deliver(s)
               \/ Interrupt(s)
        PROVE  PostureInv'
    BY <2>1, CollectKeeps, LoadAndUpdateKeeps, StoreReportKeeps,
       StoreStateKeeps, DeliverKeeps, EndsKeep
  <2> QED BY <2>1, EnvironmentKeeps DEF PostureNext
<1> QED BY <1>1, <1>2, PTL DEF PostureSpec

\* What a posture scan exports and what it notifies both follow from the
\* scans before it.
THEOREM PostureIsRemembered == PostureSpec => []PostureRemembers
<1>1. PostureInv => PostureRemembers
  <2> SUFFICES ASSUME PostureInv PROVE PostureRemembers
    OBVIOUS
  <2>1. ASSUME NEW s \in Scanner, scanner[s].pc \in {"report", "state",
                                                     "notify"}
        PROVE  \A c \in Check :
                  (\E n \in scanner[s].notices : n.check = c)
                      <=> Due(scanner[s].next.log, c)
    BY <2>1 DEF PostureInv, ScannersInv, ScanIsOrdered, NoticesAreDue
  <2>2. NoticesFollowHistory
    BY <2>1 DEF NoticesFollowHistory, PostureInv, DeliveredInv
  <2> QED BY <2>2 DEF PostureRemembers, PostureInv
<1> QED BY <1>1, PostureHolds, PTL

\* Whatever the host is and whichever of its commands cannot be run: no check
\* passes for it that did not, and none but the three that are graded without
\* the command says anything else than before or that it is incomplete.
THEOREM LossIsHidden == PostureSpec => []LossOnlyHides
<1>1. PostureInv => LossOnlyHides
  <2> SUFFICES ASSUME PostureInv PROVE LossOnlyHides
    OBVIOUS
  <2>1. PICK h : h = host
    OBVIOUS
  <2>2. Command \cup Asked \subseteq DOMAIN h
    BY <2>1, HostsAnswer DEF PostureInv
  <2>3. \A f \in Command :
           LET before == Verdict(h)
               after == Verdict([h EXCEPT ![f] = Broken])
           IN \A c \in DOMAIN before :
                 /\ after[c] = "pass" => before[c] = "pass"
                 /\ \/ after[c] \in {before[c], "incomplete"}
                    \/ c \in {"ssh", "firewallUnit", "firewall"}
    BY <2>2, LossHides
  <2> QED BY <2>1, <2>3 DEF LossOnlyHides
<1> QED BY <1>1, PostureHolds, PTL

\* The first of some places is among them.
LEMMA FirstIs ==
  ASSUME NEW T \in SUBSET Nat, T # {}
  PROVE  FirstOf(T) \in T
<1>1. PICK k \in T : \A m \in T : k <= m
  BY LeastNumber
<1>2. FirstOf(T) = k
  BY <1>1, EarliestIs DEF FirstOf
<1> QED BY <1>1, <1>2

\* Updates and the commit a checkout is compared with.
LEMMA UpdatesAreTold ==
  ASSUME NEW h \in Host \cup Later
  PROVE  LET v == Verdict(h)
         IN /\ v.repository = "pass" => h.pending = {}
            /\ v.repository = "attention" => h.pending # {}
            /\ h.omarchy = "packaged" /\ v.omarchy = "pass" =>
                  \/ "omarchy" \notin h.pending
                  \/ h.checkupdates.status # 0
<1>1. /\ Succeeded(h.checkupdates) =>
            h.checkupdates.lines \in {{}, h.pending}
      /\ h.synced /\ h.query # Broken /\ ~h.query.stderr =>
            h.query.lines = h.pending
  BY ToolsAreTruthful
<1>2. h.synced => /\ QueryVerdict(h.query) = "pass" => h.pending = {}
                  /\ QueryVerdict(h.query) = "attention" => h.pending # {}
  BY <1>1 DEF QueryVerdict
<1>3. /\ Repository(h)[1] = "pass" => h.pending = {}
      /\ Repository(h)[1] = "attention" => h.pending # {}
  BY <1>1, <1>2 DEF Repository
<1>4. Repository(h)[1] = "attention" /\ Succeeded(h.checkupdates) =>
         Repository(h)[2] = h.pending
  BY <1>1 DEF Repository
<1>5. ~Succeeded(h.checkupdates) => h.checkupdates = Broken
                                    \/ h.checkupdates.status # 0
  BY DEF Succeeded
<1>6. h.checkupdates = Broken => Repository(h)[1] = "incomplete"
  BY DEF Repository
<1>7. h.omarchy = "packaged" /\ OmarchyUpdates(h) = "pass" =>
         \/ Repository(h)[1] = "attention"
            /\ "omarchy" \notin Repository(h)[2]
         \/ Repository(h)[1] = "pass"
  BY DEF OmarchyUpdates
<1>8. h.omarchy = "packaged" /\ OmarchyUpdates(h) = "pass" =>
         "omarchy" \notin h.pending \/ h.checkupdates.status # 0
  BY <1>3, <1>4, <1>5, <1>6, <1>7
<1> QED BY <1>3, <1>8 DEF Verdict

\* A checkout that is compared is compared with what was fetched, and its
\* configuration is safe.
LEMMA CheckoutIsTold ==
  ASSUME NEW h \in Host \cup Later, h.omarchy = "checkout",
         Verdict(h).omarchy \in {"pass", "attention"}
  PROVE  /\ \/ (Verdict(h).omarchy = "pass")
                  = (h.git.commit = h.git.upstream)
            \/ h.git.loose = "junk"
         /\ \A i \in DOMAIN h.git.config :
               h.git.config[i] \notin {"include", "helper"}
         /\ \E i \in DOMAIN h.git.config : h.git.config[i] = "url"
<1> DEFINE g == h.git
           head == ReadCheckoutHead(g)
           named == IF g.revParse = Broken THEN g.fetch ELSE g.revParse
<1>1. Verdict(h).omarchy = DevelopmentCheckout(g)
  BY DEF Verdict, OmarchyUpdates
<1>2. /\ ParseSafeUpstream(g.config) /\ Succeeded(g.fetch)
      /\ named.lines \notin {{}, {"junk"}}
      /\ DevelopmentCheckout(g) = IF named.lines = {head} THEN "pass"
                                  ELSE "attention"
  BY <1>1 DEF DevelopmentCheckout
<1>3. named # Broken /\ named \in {g.fetch, g.revParse}
  BY <1>2 DEF Succeeded
<1>4. named.lines = {g.upstream}
  BY <1>2, <1>3, ToolsAreTruthful
<1>5. g.loose # "junk" => head = g.commit
  BY ToolsAreTruthful DEF ReadCheckoutHead
<1>6. (named.lines = {head}) <=> head = g.upstream
  BY <1>4
<1>7. \/ (Verdict(h).omarchy = "pass") = (g.commit = g.upstream)
      \/ g.loose = "junk"
  <2> HIDE DEF head, named
  <2> QED BY <1>1, <1>2, <1>5, <1>6
<1> QED BY <1>2, <1>7 DEF ParseSafeUpstream, UnsafeLine

\* The root that the walk meets first is encrypted or not.
LEMMA DisksAreTold ==
  ASSUME NEW h \in Host \cup Later,
         Verdict(h).luks \in {"pass", "attention"}
  PROVE  \E p \in Range(h.disks.lines) : \E i \in DOMAIN p :
            /\ p[i].root
            /\ (Verdict(h).luks = "pass") = (\E j \in 1..i : p[j].crypt)
<1> DEFINE ps == h.disks.lines
           rooted == {n \in DOMAIN ps : RootAt(ps[n]) # {}}
<1>1. /\ Verdict(h).luks = RootLuks(h)
      /\ Succeeded(h.disks) /\ ps # None
      /\ JsonRootHasCrypt(ps) # None
      /\ RootLuks(h) = IF JsonRootHasCrypt(ps) THEN "pass" ELSE "attention"
  BY DEF Verdict, RootLuks
<1>2. ps \in Seq(Seq([crypt : BOOLEAN, root : BOOLEAN]))
  BY <1>1, ToolsAreTruthful
<1> HIDE DEF ps
<1>3. /\ rooted # {} /\ rooted \in SUBSET Nat
      /\ JsonRootHasCrypt(ps) = Encrypted(ps[FirstOf(rooted)])
  <2>1. JsonRootHasCrypt(ps) = IF rooted = {} THEN None
                               ELSE Encrypted(ps[FirstOf(rooted)])
    BY DEF JsonRootHasCrypt
  <2>2. DOMAIN ps \subseteq Nat
    BY <1>2
  <2> HIDE DEF rooted
  <2>3. rooted # {}
    BY <1>1, <2>1
  <2> QED BY <2>1, <2>2, <2>3 DEF rooted
<1>4. PICK n \in rooted : n = FirstOf(rooted)
  BY <1>3, FirstIs
<1> DEFINE p == ps[n]
<1>5. p \in Seq([crypt : BOOLEAN, root : BOOLEAN]) /\ p \in Range(ps)
  <2>1. n \in DOMAIN ps
    BY <1>4
  <2>2. \A m \in DOMAIN ps :
           ps[m] \in Seq([crypt : BOOLEAN, root : BOOLEAN])
    BY <1>2
  <2> QED BY <2>1, <2>2 DEF Range
<1>6. RootAt(p) # {} /\ RootAt(p) \in SUBSET Nat
      /\ RootAt(p) \subseteq DOMAIN p
  <2>1. RootAt(p) # {}
    BY <1>4
  <2>2. DOMAIN p \subseteq Nat
    <3> HIDE DEF p
    <3> QED BY <1>5
  <2> QED BY <2>1, <2>2 DEF RootAt
<1>7. PICK i \in RootAt(p) : i = FirstOf(RootAt(p))
  BY <1>6, FirstIs
<1>8. Encrypted(p) <=> \E j \in 1..i : p[j].crypt
  BY <1>7 DEF Encrypted
<1>9. p[i].root /\ i \in DOMAIN p
  BY <1>6, <1>7 DEF RootAt
<1>10. (Verdict(h).luks = "pass") = (\E j \in 1..i : p[j].crypt)
  BY <1>1, <1>3, <1>4, <1>8
<1> QED BY <1>5, <1>9, <1>10 DEF ps

\* A ruleset that filters has a chain with both.
LEMMA ChainIsThere ==
  ASSUME NEW lines \in Seq(STRING), NftHasBaseChain(lines)
  PROVE  \E chain \in Chains(lines) :
            {"hook", "policy"} \subseteq
                {lines[k] : k \in chain[1]..chain[2]}
<1>1. PICK opened \in DOMAIN lines, here \in DOMAIN lines :
         /\ lines[opened] = "chain"
         /\ \A k \in opened+1..here : lines[k] # "chain"
         /\ \A k \in opened..here-1 : lines[k] # "}"
         /\ {"hook", "policy"} \subseteq {lines[k] : k \in opened..here}
  BY DEF NftHasBaseChain
<1>2. /\ DOMAIN lines = 1..Len(lines) /\ Len(lines) \in Nat
      /\ opened \in Nat /\ here \in Nat
      /\ opened >= 1 /\ here <= Len(lines)
  OBVIOUS
<1>3. PICK a \in opened..here, b \in opened..here :
         lines[a] = "hook" /\ lines[b] = "policy"
  BY <1>1
<1>4. a # b /\ a # opened /\ b # opened
  BY <1>1, <1>3
<1>5. a \in Nat /\ b \in Nat /\ opened < a /\ opened < b
      /\ a <= here /\ b <= here
  BY <1>2, <1>3, <1>4
<1>6. here - 1 \in Nat /\ here \in Nat
  BY <1>2, <1>5
<1>7. PICK last \in {here - 1, here} :
         last = IF lines[here] = "}" THEN here - 1 ELSE here
  OBVIOUS
<1>8. last \in Nat /\ last <= here /\ opened < last /\ a <= last /\ b <= last
  <2>1. last = here - 1 => a # here /\ b # here
    <3>1. here - 1 # here
      BY <1>2
    <3>2. last = here - 1 => lines[here] = "}"
      BY <1>7, <3>1
    <3>3. lines[a] # "}" /\ lines[b] # "}"
      BY <1>3
    <3> QED BY <3>2, <3>3
  <2>2. CASE last = here
    BY <1>5, <1>6, <2>2
  <2>3. CASE last = here - 1
    <3>1. a # here /\ b # here
      BY <2>1, <2>3
    <3> QED BY <1>2, <1>5, <1>6, <2>3, <3>1
  <2> QED BY <1>7, <2>2, <2>3
<1>10. last \in 1..Len(lines) /\ a \in opened..last /\ b \in opened..last
  BY <1>2, <1>5, <1>8
<1>11. ASSUME NEW k \in opened+1..last
       PROVE  lines[k] \notin {"chain", "}"}
  <2>1. k \in Int /\ opened + 1 <= k /\ k <= last
    BY <1>2, <1>8
  <2>2. k \in opened+1..here
    BY <1>2, <1>8, <2>1
  <2>3. k = here => lines[k] # "}"
    <3>1. here - 1 # here
      BY <1>2
    <3>2. k = here => last = here
      BY <1>2, <1>8, <2>1
    <3> QED BY <1>7, <3>1, <3>2
  <2>4. k # here => k \in opened..here-1
    BY <1>2, <1>8, <2>1
  <2> QED BY <1>1, <2>2, <2>3, <2>4
<1>12. <<opened, last>> \in Chains(lines)
  BY <1>1, <1>2, <1>8, <1>10, <1>11 DEF Chains
<1> QED BY <1>3, <1>10, <1>12

\* A firewall that passes is switched on or filters.
LEMMA FirewallIsTold ==
  ASSUME NEW h \in Host \cup Later, Verdict(h).firewall = "pass"
  PROVE  \/ h.ufwEnabled
         \/ \E chain \in Chains(h.nft.lines) :
               {"hook", "policy"} \subseteq
                   {h.nft.lines[k] : k \in chain[1]..chain[2]}
<1>1. Verdict(h).firewall = FirewallEffective(h)
  BY DEF Verdict
<1>2. \/ Succeeded(h.nft) /\ NftHasBaseChain(h.nft.lines)
      \/ UfwEffectiveFallback(h)
  BY <1>1 DEF FirewallEffective
<1>3. UfwEffectiveFallback(h) => h.ufwEnabled
  BY ToolsAreTruthful DEF UfwEffectiveFallback
<1>4. Succeeded(h.nft) => h.nft.lines \in Seq(STRING)
  BY ToolsAreTruthful
<1> QED BY <1>2, <1>3, <1>4, ChainIsThere

\* Where the tools of a host say what is so, if they say anything, every
\* verdict says what the host is, whatever fails, is cut off or is missing.
THEOREM VerdictsHold == PostureSpec => []VerdictsAreTrue
<1>1. PostureInv => VerdictsAreTrue
  <2> SUFFICES ASSUME PostureInv PROVE VerdictsAreTrue
    OBVIOUS
  <2>1. PICK h \in Host \cup Later : h = host
    BY DEF PostureInv
  <2>2. /\ Verdict(h).audit = "pass" => ~h.vulnerable
        /\ Verdict(h).audit = "regression" => h.vulnerable
    <3>1. Verdict(h).audit = ArchAudit(h)
      BY DEF Verdict
    <3>2. Execute(h.auditTool, h.audit) # Broken =>
             Resolved(h.auditTool) /\ Execute(h.auditTool, h.audit) = h.audit
      BY DEF Execute
    <3> QED BY <3>1, <3>2, ToolsAreTruthful DEF ArchAudit, Succeeded
  <2>3. Verdict(h).kernel = "pass" => h.uname.lines \subseteq h.installed
    <3>1. Verdict(h).kernel = KernelRestart(h)
      BY DEF Verdict
    <3> QED BY <3>1, ToolsAreTruthful DEF KernelRestart
  <2>4. /\ Verdict(h).repository = "pass" => h.pending = {}
        /\ Verdict(h).repository = "attention" => h.pending # {}
        /\ h.omarchy = "packaged" /\ Verdict(h).omarchy = "pass" =>
              \/ "omarchy" \notin h.pending
              \/ h.checkupdates.status # 0
    BY UpdatesAreTold
  <2> QED
    BY <2>1, <2>2, <2>3, <2>4, CheckoutIsTold, DisksAreTold, FirewallIsTold
    DEF VerdictsAreTrue
<1> QED BY <1>1, PostureHolds, PTL

(***************************************************************************)
(* Types: what a run bounds stays bounded, and the rest of a type is part  *)
(* of the invariant above.                                                 *)
(***************************************************************************)
\* The caller and its workers.
LEMMA BoundedTypes == BoundedSpec => []BoundedTypeOK
<1>1. ProcessInv => BoundedTypeOK
  BY DEF ProcessInv, ProcessTyped, BoundedTypeOK
<1> QED BY <1>1, ProcessStarts, ProcessSteps, PTL DEF BoundedSpec

\* The jobs, their locks and the sweep.
LEMMA WorkspaceTypes == WorkspaceSpec => []WorkspaceTypeOK
<1> DEFINE Few == kills \in 0..MaxKills
<1>1. WorkspaceInit => Few
  BY WorkspaceBounds DEF WorkspaceInit
<1>2. Few /\ [WorkspaceNext]_workspace => Few'
  BY WorkspaceBounds
     DEF WorkspaceNext, workspace, OwnerStep, SweepStep, MakeJob, MakePrivate,
         MakeOwnerLock, TakeOwnerLock, OwnerLockTaken, OpenJobDirectory,
         DropLock, DropJob, OwnerKilled, SweepEntry, SweepOpens, SweepLocks,
         SweepEmpties, SweepRemoves, SweepKilled
<1>3. WorkspaceInv /\ Few => WorkspaceTypeOK
  BY DEF WorkspaceInv, WorkspaceTyped, WorkspaceTypeOK
<1> QED
  BY <1>1, <1>2, <1>3, WorkspaceStarts, WorkspaceSteps, PTL DEF WorkspaceSpec

\* The unit files, the timer and the command under way.
LEMMA ScheduleTypes == ScheduleSpec => []ScheduleTypeOK
<1> DEFINE Few == begun \in 0..MaxCommands /\ breaks \in 0..MaxBreaks
<1>1. ScheduleInit => Few
  BY ScheduleBounds DEF ScheduleInit
<1>2. Few /\ [ScheduleNext]_schedule => Few'
  <2> SUFFICES ASSUME Few, [ScheduleNext]_schedule PROVE Few'
    OBVIOUS
  <2>1. /\ begun' = begun \/ (begun < MaxCommands /\ begun' = begun + 1)
        /\ breaks' = breaks \/ (breaks < MaxBreaks /\ breaks' = breaks + 1)
    BY DEF ScheduleNext, schedule, Begin, ReadNext, WorkNext,
           SystemctlRefuses, StepBreaks, UserEdits
  <2> QED BY <2>1, ScheduleBounds
<1>3. ScheduleTyped /\ Few => ScheduleTypeOK
  BY DEF ScheduleTyped, ScheduleTypeOK, UnitContents, ScheduleCommand
<1> QED BY <1>1, <1>2, <1>3, ScheduleTypeInit, ScheduleTypeNext, PTL
       DEF ScheduleSpec

\* What a document summarizes are states of checks.
LEMMA SummaryTypes ==
  ASSUME NEW state, IsSummary(state), NEW c \in Check
  PROVE  /\ state.checks[c].previous \in CheckState \cup {None}
         /\ state.checks[c].prior \in CheckState \cup {None}
         /\ state.checks[c].lastNotified \in Adverse \cup {None}
<1>1. PICK log : log = state.log
  OBVIOUS
<1>2. PICK was : was = state.checks[c]
  OBVIOUS
<1>3. log \in Seq(Scanned) /\ Summarizes(was, log, c)
  BY <1>1, <1>2 DEF IsSummary
<1>4. /\ Len(log) \in Nat
      /\ \A i \in 1..Len(log) : Saw(log, i, c) \in CheckState
  <2>1. Len(log) \in Nat /\ \A i \in 1..Len(log) : log[i] \in Scanned
    BY <1>3
  <2>2. \A i \in 1..Len(log) : log[i].saw \in [Check -> CheckState]
    BY <2>1 DEF Scanned
  <2> QED BY <2>1, <2>2 DEF Saw
<1>5. /\ was.previous \in CheckState \cup {None}
      /\ was.prior \in CheckState \cup {None}
  BY <1>3, <1>4 DEF Summarizes
<1>6. was.lastNotified \in Adverse \cup {None}
  BY <1>3, <1>4 DEF Summarizes, ToldOf
<1> QED BY <1>2, <1>5, <1>6

\* The scan, what it keeps and the host it looks at.
LEMMA PostureTypes == PostureSpec => []PostureTypeOK
<1> DEFINE Few == /\ scans \in 0..MaxScans /\ changes \in 0..MaxChanges
                  /\ mishaps \in 0..MaxMishaps
                  /\ report = None \/ DOMAIN report.checks = Check
<1>1. PostureInit => Few
  BY PostureBounds DEF PostureInit, NoScanYet
<1>2. Few /\ [PostureNext]_posture => Few'
  <2> SUFFICES ASSUME Few, [PostureNext]_posture PROVE Few'
    OBVIOUS
  <2>1. /\ scans' = scans \/ (scans < MaxScans /\ scans' = scans + 1)
        /\ changes' = changes \/ (changes < MaxChanges
                                  /\ changes' = changes + 1)
        /\ mishaps' = mishaps \/ (mishaps < MaxMishaps
                                  /\ mishaps' = mishaps + 1)
    BY DEF PostureNext, posture, Collect, LoadAndUpdate, LoadFails,
           StoreReport, StoreState, Deliver, Interrupt, HostChanges,
           StateDamaged
  <2>2. \/ UNCHANGED report
        \/ \E s \in Scanner : StoreReport(s)
    BY DEF PostureNext, posture, Collect, LoadAndUpdate, LoadFails,
           StoreState, Deliver, Interrupt, HostChanges, StateDamaged
  <2>3. ASSUME NEW s \in Scanner, StoreReport(s)
        PROVE  DOMAIN report'.checks = Check
    BY <2>3 DEF StoreReport, Annotate
  <2> QED BY <2>1, <2>2, <2>3, PostureBounds
<1>3. PostureInv /\ Few => PostureTypeOK
  BY SummaryTypes DEF PostureInv, KeptInv, PostureTypeOK
<1> QED BY <1>1, <1>2, <1>3, PostureHolds, PTL DEF PostureSpec
=============================================================================
