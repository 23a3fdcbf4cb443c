------------------------------ MODULE Schedule ------------------------------
(***************************************************************************)
(* schedule install, status and uninstall (crates/omasafe-cli/src/main.rs, *)
(* fn schedule_install to schedule_status): four systemd user units, which *)
(* of the two timers systemd has enabled, and schedule.json, the record    *)
(* that proves which units are OmaSafe's.  The commands take no lock: they *)
(* may overlap, be killed between any two steps, or find systemctl failing.*)
(*                                                                         *)
(* A unit's contents are the policy it was written for (the service) or    *)
(* Plain (the others, the same for every policy); the SHA-256 of two units *)
(* is the pair of them.  Paths, quoting and what systemd says of the last  *)
(* run are left out.                                                       *)
(***************************************************************************)
EXTENDS Integers, Sequences, FiniteSets, SequencesExt

CONSTANTS Operator,        \* schedule commands that may be in flight
          Absent,          \* no such file
          Plain,           \* a unit that says the same under every policy
          Torn,            \* a write that was cut off
          Edited,          \* a unit the user changed
          MaxCommands,     \* bound on commands
          MaxBreaks        \* bound on kills, failures and edits

ASSUME ScheduleBounds == MaxCommands \in Nat /\ MaxBreaks \in Nat

Policy == {"advisory", "hardened"}

\* A unit that is not there is not one of any contents.
ASSUME AbsentIsFresh == Absent \notin Policy \cup {Plain, Torn, Edited}

Unit == {"service", "timer", "digestService", "digestTimer"}
Files == <<"service", "timer", "digestService", "digestTimer">>

VARIABLES
    units,       \* contents of each unit file
    enabled,     \* the timers systemd runs
    metadata,    \* schedule.json
    command,     \* each command in flight
    begun,       \* commands so far
    breaks,      \* faults so far
    overlapped   \* history: two commands have been in flight at once

schedule == <<units, enabled, metadata, command, begun, breaks, overlapped>>

Idle == [pc |-> "idle", kind |-> "none", policy |-> Absent, at |-> 1,
         seen |-> <<>>, shown |-> Absent]

(***************************************************************************)
(* Identities, and the plan of an install and of an uninstall.             *)
(***************************************************************************)
Written(policy, u) == IF u = "service" THEN policy ELSE Plain
ScheduleUnitIdentity(service, timer) == <<service, timer>>

Metadata(policy) ==
    [ policy |-> policy,
      unit |-> ScheduleUnitIdentity(Written(policy, "service"),
                                    Written(policy, "timer")),
      digest |-> ScheduleUnitIdentity(Plain, Plain) ]

InstallPlan ==
    Files \o <<"reload", "enableScan", "enableDigest", "metadata">>

UninstallPlan(digestSeen) ==
    <<"disableScan", "reload">>
    \o (IF digestSeen THEN <<"disableDigest">> ELSE <<>>)
    \o Files \o <<"metadata">>

Plan(c) == IF c.kind = "install" THEN InstallPlan
           ELSE UninstallPlan(c.seen[3] # Absent)

\* What uninstall and status read, in their order: the units, the record.
Readable(i) == IF i <= Len(Files) THEN units[Files[i]] ELSE metadata

(***************************************************************************)
(* What the commands make of what they read.                               *)
(***************************************************************************)
IsRecord(m) == m \notin {Absent, Torn}
\* Mutant: a record stands for any pair of scan units with its timer.
OwnedByTimer(s) == IsRecord(s[5]) /\ s[5].unit[2] = s[2]
Owned(s) == IsRecord(s[5]) /\ s[5].unit = ScheduleUnitIdentity(s[1], s[2])

Refused(s) ==
    \/ s[1] = Absent \/ s[2] = Absent
    \/ (s[3] = Absent) # (s[4] = Absent)
    \/ ~Owned(s)
    \/ s[3] # Absent /\ s[5].digest # ScheduleUnitIdentity(s[3], s[4])

MetadataConsistent(s) ==
    /\ Owned(s) /\ s[1] # Absent /\ s[2] # Absent
    /\ \/ s[3] = Absent /\ s[4] = Absent
       \/ /\ s[3] # Absent /\ s[4] # Absent
          /\ s[5].digest = ScheduleUnitIdentity(s[3], s[4])

\* Mutant: without the scan timer, nothing counts as installed.
DecideByTimer(c) ==
    IF c.kind = "status" THEN [c EXCEPT !.pc = "idle"]
    ELSE CASE c.seen[2] = Absent -> [c EXCEPT !.pc = "absent"]
           [] c.seen[2] # Absent /\ Refused(c.seen) -> Idle
           [] OTHER -> [c EXCEPT !.pc = "work"]

Decide(c) ==
    LET nothing == \A i \in 1..4 : c.seen[i] = Absent
    IN  IF c.kind = "status"
        THEN [c EXCEPT !.pc = "idle",
                       !.shown = IF MetadataConsistent(c.seen)
                                 THEN c.seen[5].policy ELSE Absent]
        ELSE CASE nothing -> [c EXCEPT !.pc = "absent"]
               [] ~nothing /\ Refused(c.seen) -> Idle
               [] OTHER -> [c EXCEPT !.pc = "work"]

(***************************************************************************)
(* The commands.                                                           *)
(***************************************************************************)
InFlight(c) == c.pc \in {"read", "work"}

\* Nothing is installed, or an earlier install finished.
ScheduleInit ==
    /\ \/ /\ units = [u \in Unit |-> Absent] /\ enabled = {}
          /\ metadata = Absent
       \/ /\ units = [u \in Unit |-> Written("advisory", u)]
          /\ enabled = {"scan", "digest"}
          /\ metadata = Metadata("advisory")
    /\ command = [o \in Operator |-> Idle]
    /\ begun = 0 /\ breaks = 0 /\ overlapped = FALSE

Begin(o) ==
    /\ ~InFlight(command[o])
    /\ begun < MaxCommands /\ begun' = begun + 1
    /\ overlapped' = (overlapped \/ \E p \in Operator : InFlight(command[p]))
    /\ \/ \E policy \in Policy :
             command' = [command EXCEPT ![o] =
                 [Idle EXCEPT !.pc = "work", !.kind = "install",
                              !.policy = policy]]
       \/ \E kind \in {"uninstall", "status"} :
             command' = [command EXCEPT ![o] =
                 [Idle EXCEPT !.pc = "read", !.kind = kind]]
    /\ UNCHANGED <<units, enabled, metadata, breaks>>

\* One file is read; after the last the command has what it decides on.
ReadNext(o) ==
    LET c == command[o]
        read == [c EXCEPT !.seen = Append(@, Readable(Len(@) + 1))]
    IN /\ c.pc = "read"
       /\ command' = [command EXCEPT ![o] =
              IF Len(read.seen) = 5 THEN Decide(read) ELSE read]
       /\ UNCHANGED <<units, enabled, metadata, begun, breaks, overlapped>>

\* systemctl knows only a timer whose unit is there.
Known(step) ==
    CASE step \in {"enableScan", "disableScan"} -> units["timer"] # Absent
      [] step \in {"enableDigest", "disableDigest"} ->
            units["digestTimer"] # Absent
      [] OTHER -> TRUE

\* The effect of a step of the plan: write_if_changed or
\* remove_schedule_file, run_bounded_systemctl, the record.
Effect(c, step) ==
    LET keep == c.kind = "install"
    IN /\ units' = IF step \in Unit
                   THEN [units EXCEPT ![step] =
                            IF keep THEN Written(c.policy, step) ELSE Absent]
                   ELSE units
       /\ metadata' = IF step = "metadata"
                      THEN IF keep THEN Metadata(c.policy) ELSE Absent
                      ELSE metadata
       /\ enabled' = CASE step = "enableScan" -> enabled \cup {"scan"}
                       [] step = "enableDigest" -> enabled \cup {"digest"}
                       [] step = "disableScan" -> enabled \ {"scan"}
                       [] step = "disableDigest" -> enabled \ {"digest"}
                       [] OTHER -> enabled

WorkNext(o) ==
    LET c == command[o]
        step == Plan(c)[c.at]
    IN /\ c.pc = "work" /\ Known(step)
       /\ Effect(c, step)
       /\ command' = [command EXCEPT ![o] =
              IF c.at < Len(Plan(c)) THEN [c EXCEPT !.at = @ + 1]
              ELSE [c EXCEPT !.pc = "finished"]]
       /\ UNCHANGED <<begun, breaks, overlapped>>

SystemctlRefuses(o) ==
    LET c == command[o]
    IN /\ c.pc = "work" /\ ~Known(Plan(c)[c.at])
       /\ command' = [command EXCEPT ![o] = Idle]
       /\ UNCHANGED <<units, enabled, metadata, begun, breaks, overlapped>>

(***************************************************************************)
(* Faults: a kill or a failing step, whose effect may or may not be there, *)
(* and for a write may be half there; a user who edits the scan service.   *)
(***************************************************************************)
StepBreaks(o) ==
    LET c == command[o]
        step == Plan(c)[c.at]
    IN /\ c.pc = "work"
       /\ breaks < MaxBreaks /\ breaks' = breaks + 1
       /\ \/ UNCHANGED <<units, enabled, metadata>>
          \/ /\ step \notin Unit \cup {"metadata"} /\ Known(step)
             /\ Effect(c, step)
          \/ /\ c.kind = "install" /\ step \in Unit
             /\ units' = [units EXCEPT ![step] = Torn]
             /\ UNCHANGED <<enabled, metadata>>
          \/ /\ c.kind = "install" /\ step = "metadata"
             /\ metadata' = Torn
             /\ UNCHANGED <<units, enabled>>
       /\ command' = [command EXCEPT ![o] = Idle]
       /\ UNCHANGED <<begun, overlapped>>

UserEdits ==
    /\ breaks < MaxBreaks /\ breaks' = breaks + 1
    /\ units["service"] \notin {Absent, Edited}
    /\ units' = [units EXCEPT !["service"] = Edited]
    /\ UNCHANGED <<enabled, metadata, command, begun, overlapped>>

ScheduleNext ==
    \/ \E o \in Operator :
          \/ Begin(o) \/ ReadNext(o) \/ WorkNext(o)
          \/ SystemctlRefuses(o) \/ StepBreaks(o)
    \/ UserEdits

ScheduleSpec == ScheduleInit /\ [][ScheduleNext]_schedule

(***************************************************************************)
(* Properties.                                                             *)
(***************************************************************************)
ScheduleTypeOK ==
    /\ DOMAIN units = Unit
    /\ \A u \in Unit : units[u] \in Policy \cup {Absent, Plain, Torn, Edited}
    /\ enabled \subseteq {"scan", "digest"}
    /\ \A o \in Operator : command[o].pc \in
          {"idle", "read", "work", "absent", "finished"}
    /\ begun \in 0..MaxCommands /\ breaks \in 0..MaxBreaks

\* schedule status names a policy only when the scan service it read is the
\* one written for that policy: whatever installs overlapped it or each other,
\* and whoever edited the file.  The record proves this because install hashes
\* the bytes it meant to write, not the bytes it finds.
StatusTellsInstalled ==
    \A o \in Operator : LET c == command[o] IN
       c.shown # Absent => c.seen[1] = c.shown

\* An uninstall that says it removed the schedule, or that none is installed,
\* leaves no unit and no running timer, whatever was killed or failed before
\* it; commands that overlap are excepted (an install that overlaps an
\* uninstall can leave timers enabled whose units are gone).
UninstallLeavesNothing ==
    [][\A o \in Operator :
          /\ command[o].pc \in {"read", "work"}
          /\ command'[o].kind = "uninstall"
          /\ command'[o].pc \in {"absent", "finished"}
          /\ ~overlapped
          => enabled' = {} /\ \A u \in Unit : units'[u] = Absent]_schedule
=============================================================================
