------------------------------- MODULE Posture -------------------------------
(***************************************************************************)
(* posture scan, export and digest (crates/omasafe-cli/src/main.rs, fn     *)
(* posture; crates/omasafe-posture/src/lib.rs): scans of a host that       *)
(* changes, the two files a scan leaves (posture-report.json and           *)
(* posture-state.json, each replaced atomically, under no lock) and the    *)
(* notices it sends.  Scans may overlap: a timer and a user.               *)
(*                                                                         *)
(* The state file carries, beside its contents, the `log` of the scans it  *)
(* descends from: history, for the properties only.                        *)
(***************************************************************************)
EXTENDS PostureChecks

CONSTANTS Scanner,      \* invocations of posture scan
          Check,        \* the checks followed from scan to scan
          Host,         \* what the host may be at first
          Later,        \* what it may become
          MaxScans,     \* bound on scans
          MaxChanges,   \* bound on changes of the host
          MaxMishaps    \* bound on kills, failed writes and damaged files

ASSUME PostureBounds ==
    /\ MaxScans \in Nat /\ MaxChanges \in Nat /\ MaxMishaps \in Nat

ASSUME NoneIsNothing ==
    /\ None \notin CheckState \cup {"active"}
    /\ None \notin [started : Nat, notified : BOOLEAN]
ASSUME ChecksAreNamed ==
    \A h \in Host \cup Later : Check \subseteq DOMAIN Verdict(h)

VARIABLES
    host,       \* the host as it is
    scans,      \* how many scans began; also the clock
    changes,    \* how often it changed
    mishaps,    \* faults so far
    report,     \* posture-report.json, or None
    kept,       \* posture-state.json, or Broken
    scanner,    \* each invocation
    delivered   \* notices the user got

posture == <<host, scans, changes, mishaps, report, kept, scanner,
             delivered>>

Adverse == {"regression", "attention"}

(***************************************************************************)
(* The state of one check from scan to scan: update_state.                 *)
(***************************************************************************)
Unseen == [previous |-> None, prior |-> None, episode |-> None,
           lastNotified |-> None]
Default == [checks |-> [c \in Check |-> Unseen], log |-> <<>>]

\* The episode of a check that is not observed, and whether the loss is new.
Episode(was, now) ==
    LET open == IF was.episode # None THEN was.episode
                ELSE [started |-> now, notified |-> FALSE]
        lost == /\ ~open.notified
                /\ was.previous # None /\ was.previous \notin Loss
    IN [open EXCEPT !.notified = @ \/ lost]

\* Mutant: a gap ends only when the check passes again.
UpdateCheckOnPass(was, verdict, now) ==
    [ previous |-> verdict,
      prior |-> was.previous,
      episode |-> CASE verdict \in Loss -> Episode(was, now)
                    [] verdict \in Adverse -> was.episode
                    [] OTHER -> None,
      lastNotified |-> IF verdict \in Adverse
                       THEN IF was.previous # None THEN verdict
                            ELSE was.lastNotified
                       ELSE None ]

UpdateCheck(was, verdict, now) ==
    [ previous |-> verdict,
      prior |-> was.previous,
      episode |-> IF verdict \in Loss THEN Episode(was, now) ELSE None,
      lastNotified |-> IF verdict \in Adverse
                       THEN IF was.previous # None THEN verdict
                            ELSE was.lastNotified
                       ELSE None ]

\* The notices of a check: a loss after something was observed, or an
\* adverse state that was not notified yet.
Notices(was, c, verdict, now) ==
    IF verdict \in Loss
    THEN IF /\ ~(was.episode # None /\ was.episode.notified)
            /\ was.previous # None /\ was.previous \notin Loss
         THEN {[check |-> c, of |-> "coverage"]}
         ELSE {}
    ELSE IF /\ verdict \in Adverse
            /\ was.previous # None /\ was.lastNotified # verdict
         THEN {[check |-> c, of |-> verdict]}
         ELSE {}

Annotate(checks, verdicts) ==
    [c \in Check |->
        [ state |-> verdicts[c],
          previous |-> checks[c].prior,
          gap |-> IF verdicts[c] \in Loss /\ checks[c].episode # None
                  THEN checks[c].episode.started ELSE None ]]

(***************************************************************************)
(* The scan.                                                               *)
(***************************************************************************)
IdleScan == [pc |-> "idle", notify |-> FALSE, at |-> None, seen |-> None,
             next |-> None, notices |-> {}, stored |-> FALSE]

NoScanYet ==
    /\ scans = 0 /\ changes = 0 /\ mishaps = 0
    /\ report = None /\ kept = Default
    /\ scanner = [s \in Scanner |-> IdleScan]
    /\ delivered = {}
PostureInit == host \in Host /\ NoScanYet

\* generated_at is taken first; the verdicts are the host's.
Collect(s) ==
    /\ scanner[s].pc = "idle"
    /\ scans < MaxScans /\ scans' = scans + 1
    /\ \E notify \in BOOLEAN :
          scanner' = [scanner EXCEPT ![s] =
              [IdleScan EXCEPT !.pc = "load", !.notify = notify,
                               !.at = scans,
                               !.seen = [c \in Check |-> Verdict(host)[c]]]]
    /\ UNCHANGED <<host, changes, mishaps, report, kept, delivered>>

\* load_state, update_state and annotate_report.  A file that does not parse
\* ends the scan.
LoadAndUpdate(s) ==
    LET me == scanner[s]
    IN /\ me.pc = "load" /\ kept # Broken
       /\ LET checks == [c \in Check |->
                  UpdateCheck(kept.checks[c], me.seen[c], me.at)]
          IN scanner' = [scanner EXCEPT ![s] = [me EXCEPT
                 !.pc = "report",
                 !.next = [checks |-> checks,
                           log |-> Append(kept.log,
                                     [at |-> me.at, saw |-> me.seen])],
                 !.notices = UNION {Notices(kept.checks[c], c, me.seen[c],
                                            me.at) : c \in Check}]]
       /\ UNCHANGED <<scans, host, changes, mishaps, report, kept,
                      delivered>>

LoadFails(s) ==
    /\ scanner[s].pc = "load" /\ kept = Broken
    /\ scanner' = [scanner EXCEPT ![s] = IdleScan]
    /\ UNCHANGED <<scans, host, changes, mishaps, report, kept, delivered>>

StoreReport(s) ==
    LET me == scanner[s]
    IN /\ me.pc = "report"
       /\ report' = [checks |-> Annotate(me.next.checks, me.seen),
                     log |-> me.next.log]
       /\ scanner' = [scanner EXCEPT ![s].pc = "state"]
       /\ UNCHANGED <<scans, host, changes, mishaps, kept, delivered>>

StoreState(s) ==
    LET me == scanner[s]
    IN /\ me.pc = "state"
       /\ kept' = me.next
       /\ scanner' = [scanner EXCEPT ![s] =
              IF me.notify THEN [me EXCEPT !.pc = "notify", !.stored = TRUE]
              ELSE IdleScan]
       /\ UNCHANGED <<scans, host, changes, mishaps, report, delivered>>

Deliver(s) ==
    LET me == scanner[s]
    IN /\ me.pc = "notify"
       /\ delivered' = delivered \cup
              {[check |-> n.check, of |-> n.of, log |-> me.next.log,
                stored |-> me.stored] : n \in me.notices}
       /\ scanner' = [scanner EXCEPT ![s] = IdleScan]
       /\ UNCHANGED <<scans, host, changes, mishaps, report, kept>>

\* A kill, or a write that fails: the scan goes no further.
Interrupt(s) ==
    /\ scanner[s].pc \in {"report", "state", "notify"}
    /\ mishaps < MaxMishaps /\ mishaps' = mishaps + 1
    /\ scanner' = [scanner EXCEPT ![s] = IdleScan]
    /\ UNCHANGED <<scans, host, changes, report, kept, delivered>>

(***************************************************************************)
(* The host, the clock and the disk.                                       *)
(***************************************************************************)
HostChanges ==
    /\ changes < MaxChanges /\ changes' = changes + 1
    /\ host \in Later
    /\ host' \in Later \ {host}
    /\ UNCHANGED <<scans, mishaps, report, kept, scanner, delivered>>

StateDamaged ==
    /\ mishaps < MaxMishaps /\ mishaps' = mishaps + 1
    /\ kept # Broken /\ kept' = Broken
    /\ UNCHANGED <<scans, host, changes, report, scanner, delivered>>

PostureNext ==
    \/ \E s \in Scanner :
          \/ Collect(s) \/ LoadAndUpdate(s) \/ LoadFails(s)
          \/ StoreReport(s) \/ StoreState(s) \/ Deliver(s) \/ Interrupt(s)
    \/ HostChanges \/ StateDamaged

PostureSpec == PostureInit /\ [][PostureNext]_posture

(***************************************************************************)
(* Properties.                                                             *)
(***************************************************************************)
PostureTypeOK ==
    /\ scans \in 0..MaxScans /\ changes \in 0..MaxChanges
    /\ mishaps \in 0..MaxMishaps
    /\ report = None \/ DOMAIN report.checks = Check
    /\ kept = Broken
       \/ \A c \in Check :
             /\ kept.checks[c].previous \in CheckState \cup {None}
             /\ kept.checks[c].prior \in CheckState \cup {None}
             /\ kept.checks[c].lastNotified \in Adverse \cup {None}

Command == {"checkupdates", "query", "audit", "disks", "nftUnit", "ufwUnit",
            "nft", "ufwStatus", "sockets", "pacmanQ", "uname", "foreign",
            "bootctl", "sshd"}
\* What the checks ask of a host, beside its commands.
Asked == {"omarchy", "tmp", "synced", "git", "auditTool", "nftConfig",
          "ufwFiles", "ufwEnabled", "keyring", "path", "efi", "sshdConfig"}
ASSUME HostsAnswer ==
    \A h \in Host \cup Later : Command \cup Asked \subseteq DOMAIN h
\* What a tool of a host says is so, where it says anything.  checkupdates may
\* say nothing of updates there are; a fetched name is that of the upstream
\* commit; and a checkout is at the commit that its reference names.
ASSUME ToolsAreTruthful ==
    \A h \in Host \cup Later :
        /\ Succeeded(h.checkupdates) =>
              h.checkupdates.lines \in {{}, h.pending}
        /\ h.synced /\ h.query # Broken /\ ~h.query.stderr =>
              h.query.lines = h.pending
        /\ \A named \in {h.git.fetch, h.git.revParse} : named # Broken =>
              named.lines \in {{}, {"junk"}, {h.git.upstream}}
        /\ h.git.loose # "junk" =>
              h.git.commit = IF h.git.detached \/ h.git.loose # None
                             THEN h.git.loose ELSE h.git.packed
        /\ Resolved(h.auditTool) /\ Succeeded(h.audit) =>
              (h.vulnerable <=> h.audit.lines # {})
        /\ Succeeded(h.disks) /\ h.disks.lines # None =>
              h.disks.lines \in Seq(Seq([crypt : BOOLEAN, root : BOOLEAN]))
        /\ Succeeded(h.nft) => h.nft.lines \in Seq(STRING)
        /\ Succeeded(h.ufwStatus) /\ h.ufwStatus.lines = {"active"} =>
              h.ufwEnabled
        /\ h.pacmanQ # Broken => h.pacmanQ.lines \subseteq h.installed

Chains(lines) ==
    {chain \in (1..Len(lines)) \X (1..Len(lines)) :
        /\ chain[1] < chain[2] /\ lines[chain[1]] = "chain"
        /\ \A k \in chain[1]+1..chain[2] : lines[k] \notin {"chain", "}"}}

\* A verdict says what the host is.  Nothing pending when the updates pass
\* and something when they do not; a checkout that passes is at its upstream
\* commit (unless its loose reference is damaged and a packed one stands in),
\* found through a configuration with nothing in it that could run or
\* redirect; no advisory; a root below a crypt device; a firewall that
\* filters or is switched on; the running kernel installed.  (An inventory
\* from the second query is thrown away, and updates.omarchy then passes with
\* an Omarchy update pending: the check does not cover that case.)
VerdictsAreTrue ==
    LET v == Verdict(host)
        git == host.git
    IN /\ v.repository = "pass" => host.pending = {}
       /\ v.repository = "attention" => host.pending # {}
       /\ host.omarchy = "packaged" /\ v.omarchy = "pass" =>
             \/ "omarchy" \notin host.pending
             \/ host.checkupdates.status # 0
       /\ host.omarchy = "checkout" /\ v.omarchy \in {"pass", "attention"} =>
             /\ \/ (v.omarchy = "pass") = (git.commit = git.upstream)
                \/ git.loose = "junk"
             /\ \A i \in DOMAIN git.config :
                   git.config[i] \notin {"include", "helper"}
             /\ \E i \in DOMAIN git.config : git.config[i] = "url"
       /\ v.audit = "pass" => ~host.vulnerable
       /\ v.audit = "regression" => host.vulnerable
       /\ v.luks \in {"pass", "attention"} =>
             \E p \in Range(host.disks.lines) : \E i \in DOMAIN p :
                /\ p[i].root
                /\ (v.luks = "pass") = (\E j \in 1..i : p[j].crypt)
       /\ v.firewall = "pass" =>
             \/ host.ufwEnabled
             \/ \E chain \in Chains(host.nft.lines) :
                   {"hook", "policy"} \subseteq
                       {host.nft.lines[k] : k \in chain[1]..chain[2]}
       /\ v.kernel = "pass" => host.uname.lines \subseteq host.installed

\* A command that cannot be run hides a verdict and never makes another one
\* of it: what was pass or worse stays or becomes incomplete, and nothing
\* becomes pass.  Three checks are graded without it: sshd that was not asked
\* counts as not applicable, a firewall unit that was not asked as one that
\* is not active, and ufw that was not asked as no policy of its own.
LossOnlyHides ==
    \A f \in Command :
        LET before == Verdict(host)
            after == Verdict([host EXCEPT ![f] = Broken])
        IN \A c \in DOMAIN before :
              /\ after[c] = "pass" => before[c] = "pass"
              /\ \/ after[c] \in {before[c], "incomplete"}
                 \/ c \in {"ssh", "firewallUnit", "firewall"}

\* What the log says of a check.
Saw(log, i, c) == log[i].saw[c]
GapStart(log, c) ==
    LET start == {i \in DOMAIN log :
                    \A j \in i..Len(log) : Saw(log, j, c) \in Loss}
    IN IF start = {} THEN None
       ELSE log[CHOOSE i \in start : \A j \in start : i <= j].at
Due(log, c) ==
    LET n == Len(log)
    IN /\ n > 1
       /\ IF Saw(log, n, c) \in Loss
          THEN Saw(log, n - 1, c) \notin Loss
          ELSE /\ Saw(log, n, c) \in Adverse
               /\ n = 2 \/ Saw(log, n - 1, c) # Saw(log, n, c)

\* The exported report tells, of every check, the state in the scan before
\* (none at the first), and since when it has not been observed: the first
\* scan of the unbroken run of losses, however often it was lost before.  The
\* scans are those the state file descends from: a scan that was interrupted
\* before it stored its state, or overwritten by one that overlapped, is not
\* among them.
ReportTellsHistory ==
    report # None => \A c \in Check :
        LET log == report.log
            n == Len(log)
        IN report.checks[c] =
              [ state |-> Saw(log, n, c),
                previous |-> IF n = 1 THEN None ELSE Saw(log, n - 1, c),
                gap |-> GapStart(log, c) ]

\* A scan has a notice for a check exactly when observation was just lost, or
\* an adverse state is new since the scan before (the second scan also tells
\* what the first one found); a gap that closed and opened again is told
\* again.  What is delivered was stored before: a scan that is killed cannot
\* make the next one repeat its notices.
NoticesFollowHistory ==
    /\ \A s \in Scanner : scanner[s].pc \in {"report", "state", "notify"} =>
          \A c \in Check :
              (\E n \in scanner[s].notices : n.check = c)
                  <=> Due(scanner[s].next.log, c)
    /\ \A d \in delivered : d.stored /\ Due(d.log, d.check)

\* What a posture scan exports and what it notifies both follow from the
\* scans before it.
PostureRemembers == ReportTellsHistory /\ NoticesFollowHistory
=============================================================================
