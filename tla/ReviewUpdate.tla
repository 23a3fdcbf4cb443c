---------------------------- MODULE ReviewUpdate ----------------------------
(***************************************************************************)
(* `omasafe-cli plugins review-update ID`: the only command of OmaSafe     *)
(* that mutates an installed plugin and advances its trust baseline.       *)
(* Each element of Run is one invocation (one process) of the command.     *)
(*                                                                         *)
(* Shared state is what the invocations meet on: the recovery record       *)
(* review-update.json, the config backup beside it, trust-history.json and *)
(* its flock, the latest enforcement decision, and the plugins themselves  *)
(* (checked out content, .git/config, live or not).  A step is one file    *)
(* operation or one native command, so a process may be interleaved with   *)
(* another, interrupted or killed between any two of them.                 *)
(*                                                                         *)
(* Simplifications, each one named:                                        *)
(*  - a commit stands for its tree; an installed worktree is the commit    *)
(*    ("clean"), differs where git status looks ("dirty") or only where it *)
(*    does not ("hidden": ignored files);                                  *)
(*  - a .git/config is the audited one, the hardened snapshot or "foreign" *)
(*    (outside the allowlist, or an active hook: the same audit reads      *)
(*    both), of some plugin; file modes are left out;                      *)
(*  - policy, analysis and manifest checks of the candidate are the choice *)
(*    of Evaluate's outcome; the preview text is left out;                 *)
(*  - an I/O call that fails returns through `?` and leaves the files as a *)
(*    kill at that point would, so Die stands for both.                    *)
(***************************************************************************)
EXTENDS Naturals, FiniteSets

CONSTANTS Plugin,       \* plugin ids
          Commit,       \* commits of the plugins' repositories
          Base,         \* the commit installed at the start
          Trusted,      \* plugins with a trust baseline at the start
          MayBeLive,    \* plugins that may be live at the start
          Run,          \* invocations of review-update
          None,         \* absent file, unset local, free lock
          Unreadable,   \* a review-update.json that does not parse
          MaxActive,    \* how many invocations overlap in time
          MaxFaults,    \* kills and failing replaces
          MaxSignals,   \* SIGINT/SIGTERM deliveries
          MaxEdits,     \* writes by other processes of the same user
          OrphansSurvive, \* a killed invocation's updater may run on
          MaxRebaselines \* `plugins review --action rebaseline` calls

Phase == {"quiescing", "auditing", "delegating", "verifying", "failed"}
Tree  == {"clean", "hidden", "dirty"}
Bytes == [of : Plugin, kind : {"audited", "hardened", "foreign"}]

Identity   == [head : Commit, tree : Tree]
FlowRecord == [plugin : Plugin, by : Run, phase : Phase, pointer : BOOLEAN,
               quiesced : BOOLEAN]
Arguments  == [plugin : Plugin, cand : Commit]
Decision   == [commit : Commit, verdict : {"preview", "passed", "failed"}]
Budget     == [faults : 0..MaxFaults, signals : 0..MaxSignals,
               edits : 0..MaxEdits, rebaselines : 0..MaxRebaselines]

ASSUME BoundsAreNaturals ==
    /\ MaxActive \in Nat /\ MaxFaults \in Nat /\ MaxSignals \in Nat
    /\ MaxEdits \in Nat /\ MaxRebaselines \in Nat
    /\ OrphansSurvive \in BOOLEAN

ASSUME StartIsTyped ==
    Base \in Commit /\ Trusted \cup MayBeLive \subseteq Plugin

ASSUME NoneIsFresh ==
    /\ None \notin Run /\ None \notin Bytes /\ None \notin Identity
    /\ None \notin FlowRecord /\ None \notin Arguments
    /\ Unreadable \notin FlowRecord /\ Unreadable # None

VARIABLES
    pc,         \* where each invocation stands
    arg,        \* its plugin and candidate commit
    seen,       \* head and liveness its pre-flight inventory read
    rec,        \* its in-memory UpdateFlowRecord
    original,   \* config bytes it read and will put back
    ident,      \* installed identity it collected after the update
    updated,    \* whether the native updater reported success
    history,    \* its in-memory TrustHistory, loaded under the lock
    signalled,  \* omasafe_core::interrupt's flag
    lock,       \* holder of trust-history.lock
    flow,       \* review-update.json
    backup,     \* review-update.config-backup
    trust,      \* latest accepted identity in trust-history.json
    decision,   \* latest review-update decision of enforcement-history.json
    installed,  \* what is checked out under ~/.config/omarchy/plugins
    config,     \* its .git/config
    touched,    \* config inode changed since a snapshot was witnessed
    live,       \* enabled, or the active full bar
    orphans,    \* native updaters that outlived their invocation
    approved,   \* history: identities an operator reviewed and accepted
    budget      \* what remains of the bounds

locals == <<arg, seen, rec, original, ident, updated, history>>
disk   == <<flow, backup, trust, decision>>
host   == <<installed, config, touched, live, orphans>>
vars   == <<pc, locals, signalled, lock, disk, host, approved, budget>>

Reviewed(c) == [head |-> c, tree |-> "clean"]
Audited(p)  == [of |-> p, kind |-> "audited"]
Hardened(p) == [of |-> p, kind |-> "hardened"]
Foreign(p)  == [of |-> p, kind |-> "foreign"]

Ended == {"ok", "err", "dead"}
Unlocked == {"load", "reconcile_read", "reconcile_restore", "reconcile_store",
             "reconcile_remove", "inventory", "lock"}
\* Between durable record and outcome: the plugin may be half updated.
BeforeVerified ==
    {"quiesce", "store_quiesced", "store_auditing", "audit",
     "store_delegating", "backup", "store_pointer", "harden", "update",
     "restore", "clear_pointer", "remove_backup", "outcome",
     "store_verifying", "rescan", "collect", "reaudit", "analyze",
     "tampered_decision", "tampered_store", "tampered_remove",
     "fail_decision", "fail_store"}
Verified == {"decide", "enable", "enable_failed", "accept"}
Locked   == {"resolve", "evaluate", "approve", "store"} \cup BeforeVerified
              \cup Verified \cup {"remove_record", "remove_stale_backup"}
PC       == {"idle"} \cup Unlocked \cup Locked \cup Ended

Active(r) == pc[r] \notin {"idle"} \cup Ended
Plug(r)   == arg[r].plugin
Cand(r)   == arg[r].cand

ControlTyped ==
    /\ pc \in [Run -> PC]
    /\ arg \in [Run -> Arguments \cup {None}]
    /\ signalled \in [Run -> BOOLEAN]
    /\ lock \in Run \cup {None}

MemoryTyped ==
    /\ seen \in [Run -> [head : Commit, live : BOOLEAN] \cup {None}]
    /\ rec \in [Run -> FlowRecord \cup {None}]
    /\ original \in [Run -> Bytes \cup {None}]
    /\ ident \in [Run -> Identity \cup {None}]
    /\ updated \in [Run -> BOOLEAN]
    /\ history \in [Run -> [Plugin -> Identity \cup {None}] \cup {None}]

DiskTyped ==
    /\ flow \in FlowRecord \cup {None, Unreadable}
    /\ backup \in Bytes \cup {None}
    /\ trust \in [Plugin -> Identity \cup {None}]
    /\ decision \in [Plugin -> Decision \cup {None}]

HostTyped ==
    /\ installed \in [Plugin -> Identity]
    /\ config \in [Plugin -> Bytes]
    /\ touched \in [Plugin -> BOOLEAN]
    /\ live \in [Plugin -> BOOLEAN]
    /\ orphans \in SUBSET Plugin

HistoryTyped ==
    /\ approved \in SUBSET (Plugin \X Identity)
    /\ budget \in Budget

TypeOK == ControlTyped /\ MemoryTyped /\ DiskTyped /\ HostTyped /\ HistoryTyped

Init ==
    /\ pc = [r \in Run |-> "idle"]
    /\ arg = [r \in Run |-> None]
    /\ seen = [r \in Run |-> None]
    /\ rec = [r \in Run |-> None]
    /\ original = [r \in Run |-> None]
    /\ ident = [r \in Run |-> None]
    /\ updated = [r \in Run |-> FALSE]
    /\ history = [r \in Run |-> None]
    /\ signalled = [r \in Run |-> FALSE]
    /\ lock = None
    /\ flow \in {None, Unreadable}
    /\ backup = None
    /\ trust = [p \in Plugin |-> IF p \in Trusted THEN Reviewed(Base) ELSE None]
    /\ decision = [p \in Plugin |-> None]
    /\ installed = [p \in Plugin |-> Reviewed(Base)]
    /\ config = [p \in Plugin |-> Audited(p)]
    /\ touched = [p \in Plugin |-> FALSE]
    /\ \E on \in SUBSET MayBeLive : live = [p \in Plugin |-> p \in on]
    /\ orphans = {}
    /\ approved = {}
    /\ budget = [faults |-> MaxFaults, signals |-> MaxSignals,
                 edits |-> MaxEdits, rebaselines |-> MaxRebaselines]

-----------------------------------------------------------------------------
(* Control *)

At(r, here) == pc[r] = here
Go(r, next) == pc' = [pc EXCEPT ![r] = next]

\* The process ends: its memory goes, the kernel drops its flock.
Exit(r, how) ==
    /\ pc' = [pc EXCEPT ![r] = how]
    /\ arg' = [arg EXCEPT ![r] = None]
    /\ seen' = [seen EXCEPT ![r] = None]
    /\ rec' = [rec EXCEPT ![r] = None]
    /\ original' = [original EXCEPT ![r] = None]
    /\ ident' = [ident EXCEPT ![r] = None]
    /\ updated' = [updated EXCEPT ![r] = FALSE]
    /\ history' = [history EXCEPT ![r] = None]
    /\ signalled' = [signalled EXCEPT ![r] = FALSE]
    /\ lock' = IF lock = r THEN None ELSE lock

\* Continue, or return an error, with nothing else changed.
GoOrErr(r, passes, next) ==
    \/ passes /\ Go(r, next) /\ UNCHANGED <<locals, signalled, lock>>
    \/ ~passes /\ Exit(r, "err")

\* UpdateFlowRecord::store of the in-memory record, as amended.
Store(r, record) ==
    /\ rec' = [rec EXCEPT ![r] = record]
    /\ flow' = record

Keep(r, record) == rec' = [rec EXCEPT ![r] = record]

\* secure_replace of a plugin's .git/config: a new inode, hence a new witness.
WriteConfig(p, bytes) ==
    /\ config' = [config EXCEPT ![p] = bytes]
    /\ touched' = [touched EXCEPT ![p] = TRUE]

\* benign_git_config_entry of every entry: nothing that runs a command or
\* redirects the transport, and this plugin's origin.
BenignConfig(p) == config[p].of = p /\ config[p].kind # "foreign"

\* audit_installed_git_state: active hooks count as a foreign config here.
AuditPasses(p) == BenignConfig(p)

\* persist_enforcement_decision for the candidate under review.
Decide(r, verdict) ==
    decision' = [decision EXCEPT
                   ![Plug(r)] = [commit |-> Cand(r), verdict |-> verdict]]

-----------------------------------------------------------------------------
(* Recovery record and reconciliation: before the trust-history lock *)

Start(r, p, c) ==
    /\ At(r, "idle")
    /\ Cardinality({s \in Run : Active(s)}) < MaxActive
    /\ arg' = [arg EXCEPT ![r] = [plugin |-> p, cand |-> c]]
    /\ Go(r, "load")
    /\ UNCHANGED <<seen, rec, original, ident, updated, history, signalled,
                   lock, disk, host, approved, budget>>

\* Mutant: an unreadable record is taken for none.
LoadUnreadableAsNone(r) ==
    /\ At(r, "load")
    /\ ~signalled[r]
    /\ flow \notin FlowRecord
    /\ Go(r, "inventory")
    /\ UNCHANGED <<locals, signalled, lock, disk, host, approved, budget>>

\* Mutant: another plugin's record blocks without being reconciled.
LoadWithoutReconciling(r) ==
    /\ At(r, "load")
    /\ ~signalled[r]
    /\ \/ /\ flow = None
          /\ Go(r, "inventory")
          /\ UNCHANGED <<locals, signalled, lock>>
       \/ /\ flow # None
          /\ Exit(r, "err")
    /\ UNCHANGED <<disk, host, approved, budget>>

\* The record on disk decides: none, unreadable, another plugin's, our own.
LoadRecord(r) ==
    /\ At(r, "load")
    /\ ~signalled[r]
    /\ \/ /\ flow = None
          /\ Go(r, "inventory")
          /\ UNCHANGED <<locals, signalled, lock>>
       \/ /\ flow = Unreadable
          /\ Exit(r, "err")
       \/ /\ flow \in FlowRecord
          /\ flow.pointer
          /\ Keep(r, flow)
          /\ Go(r, "reconcile_read")
          /\ UNCHANGED <<arg, seen, original, ident, updated, history,
                         signalled, lock>>
       \/ /\ flow \in FlowRecord
          /\ ~flow.pointer
          /\ GoOrErr(r, flow.plugin = Plug(r), "inventory")
    /\ UNCHANGED <<disk, host, approved, budget>>

\* reconcile_config_backup: a referenced but missing backup blocks the run.
ReconcileRead(r) ==
    /\ At(r, "reconcile_read")
    /\ \/ /\ backup = None
          /\ Exit(r, "err")
       \/ /\ backup # None
          /\ original' = [original EXCEPT ![r] = backup]
          /\ Go(r, "reconcile_restore")
          /\ UNCHANGED <<arg, seen, rec, ident, updated, history, signalled,
                         lock>>
    /\ UNCHANGED <<disk, host, approved, budget>>

ReconcileRestore(r) ==
    /\ At(r, "reconcile_restore")
    /\ WriteConfig(rec[r].plugin, original[r])
    /\ Go(r, "reconcile_store")
    /\ UNCHANGED <<locals, signalled, lock, disk, installed, live, orphans,
                   approved, budget>>

ReconcileStore(r) ==
    /\ At(r, "reconcile_store")
    /\ Store(r, [rec[r] EXCEPT !.pointer = FALSE])
    /\ Go(r, "reconcile_remove")
    /\ UNCHANGED <<arg, seen, original, ident, updated, history, signalled,
                   lock, backup, trust, decision, host, approved, budget>>

\* Another plugin's record still blocks this run once reconciled.
ReconcileRemove(r) ==
    /\ At(r, "reconcile_remove")
    /\ backup' = None
    /\ GoOrErr(r, rec[r].plugin = Plug(r), "inventory")
    /\ UNCHANGED <<flow, trust, decision, host, approved, budget>>

\* Pre-flight refusal of a dirty worktree, before anything mutates.
Inventory(r) ==
    /\ At(r, "inventory")
    /\ \/ /\ installed[Plug(r)].tree = "dirty"
          /\ Exit(r, "err")
       \/ /\ installed[Plug(r)].tree # "dirty"
          /\ seen' = [seen EXCEPT ![r] = [head |-> installed[Plug(r)].head,
                                          live |-> live[Plug(r)]]]
          /\ Go(r, "lock")
          /\ UNCHANGED <<arg, rec, original, ident, updated, history,
                         signalled, lock>>
    /\ UNCHANGED <<disk, host, approved, budget>>

\* Mutant: a shared lock, which another holder does not exclude.
AcquireShared(r) ==
    /\ At(r, "lock")
    /\ trust[Plug(r)] # None
    /\ lock' = r
    /\ history' = [history EXCEPT ![r] = trust]
    /\ Go(r, "resolve")
    /\ UNCHANGED <<arg, seen, rec, original, ident, updated, signalled, disk,
                   host, approved, budget>>

\* flock, load the history, require a baseline; held until the process ends.
AcquireLock(r) ==
    /\ At(r, "lock")
    /\ lock = None
    /\ \/ /\ trust[Plug(r)] = None
          /\ Exit(r, "err")
       \/ /\ trust[Plug(r)] # None
          /\ lock' = r
          /\ history' = [history EXCEPT ![r] = trust]
          /\ Go(r, "resolve")
          /\ UNCHANGED <<arg, seen, rec, original, ident, updated, signalled>>
    /\ UNCHANGED <<disk, host, approved, budget>>

\* Twenty attempts 25 ms apart, then LockBusy.
LockBusy(r) ==
    /\ At(r, "lock")
    /\ lock # None
    /\ Exit(r, "err")
    /\ UNCHANGED <<disk, host, approved, budget>>

-----------------------------------------------------------------------------
(* Candidate: resolution, evaluation, approval *)

\* "Already at pinned commit; nothing to update": returns Ok at once.
NothingToUpdate(r) ==
    /\ At(r, "resolve")
    /\ Cand(r) = seen[r].head
    /\ Exit(r, "ok")
    /\ UNCHANGED <<disk, host, approved, budget>>

ResolveCandidate(r) ==
    /\ At(r, "resolve")
    /\ Cand(r) # seen[r].head
    /\ Go(r, "evaluate")
    /\ UNCHANGED <<locals, signalled, lock, disk, host, approved, budget>>

\* Fetch, manifest validation or analysis refuses before any decision exists.
CandidateRefused(r) ==
    /\ At(r, "evaluate")
    /\ Exit(r, "err")
    /\ UNCHANGED <<disk, host, approved, budget>>

\* The preview decision is persisted; a hardened policy may block on it.
Evaluate(r) ==
    /\ At(r, "evaluate")
    /\ Decide(r, "preview")
    /\ \E blocked \in BOOLEAN : GoOrErr(r, ~blocked, "approve")
    /\ UNCHANGED <<flow, backup, trust, host, approved, budget>>

\* --yes with a matching --expected-commit, or a typed 'update'.
Approve(r) ==
    /\ At(r, "approve")
    /\ ~signalled[r]
    /\ approved' = approved \cup {<<Plug(r), Reviewed(Cand(r))>>}
    /\ Go(r, "store")
    /\ UNCHANGED <<locals, signalled, lock, disk, host, budget>>

Reject(r) ==
    /\ At(r, "approve")
    /\ ~signalled[r]
    /\ Exit(r, "err")
    /\ UNCHANGED <<disk, host, approved, budget>>

\* Phase boundaries that mutate nothing: unwind.
InterruptionCheckpoint(r) ==
    /\ pc[r] \in {"load", "approve", "store", "backup"}
    /\ signalled[r]
    /\ Exit(r, "err")
    /\ UNCHANGED <<disk, host, approved, budget>>

-----------------------------------------------------------------------------
(* Quiesce, audit, delegate *)

\* Mutant: the record reaches the disk only with the next phase.
StoreRecordInMemory(r) ==
    /\ At(r, "store")
    /\ ~signalled[r]
    /\ Keep(r, [plugin |-> Plug(r), by |-> r, phase |-> "quiescing",
                pointer |-> FALSE, quiesced |-> FALSE])
    /\ Go(r, "quiesce")
    /\ UNCHANGED <<arg, seen, original, ident, updated, history, signalled,
                   lock, disk, host, approved, budget>>

StoreRecord(r) ==
    /\ At(r, "store")
    /\ ~signalled[r]
    /\ Store(r, [plugin |-> Plug(r), by |-> r, phase |-> "quiescing",
                 pointer |-> FALSE, quiesced |-> FALSE])
    /\ Go(r, "quiesce")
    /\ UNCHANGED <<arg, seen, original, ident, updated, history, signalled,
                   lock, backup, trust, decision, host, approved, budget>>

\* Mutant: the outcome of the disable command is not looked at.
QuiesceUnchecked(r) ==
    /\ At(r, "quiesce")
    /\ seen[r].live
    /\ \E stops \in BOOLEAN : live' = [live EXCEPT ![Plug(r)] = @ /\ ~stops]
    /\ Keep(r, [rec[r] EXCEPT !.quiesced = TRUE])
    /\ Go(r, "store_quiesced")
    /\ UNCHANGED <<arg, seen, original, ident, updated, history, signalled,
                   lock, disk, installed, config, touched, orphans,
                   approved, budget>>

\* Disable the plugin, or switch the full bar away; a failed command leaves
\* it either way.
Quiesce(r) ==
    /\ At(r, "quiesce")
    /\ seen[r].live
    /\ \E works, stops \in BOOLEAN :
          /\ works => stops
          /\ live' = [live EXCEPT ![Plug(r)] = @ /\ ~stops]
          /\ Keep(r, [rec[r] EXCEPT !.quiesced = TRUE])
          /\ Go(r, IF works THEN "store_quiesced" ELSE "fail_store")
    /\ UNCHANGED <<arg, seen, original, ident, updated, history, signalled,
                   lock, disk, installed, config, touched, orphans,
                   approved, budget>>

NotLive(r) ==
    /\ At(r, "quiesce")
    /\ ~seen[r].live
    /\ Go(r, "store_auditing")
    /\ UNCHANGED <<locals, signalled, lock, disk, host, approved, budget>>

StoreQuiesced(r) ==
    /\ At(r, "store_quiesced")
    /\ Store(r, rec[r])
    /\ Go(r, "store_auditing")
    /\ UNCHANGED <<arg, seen, original, ident, updated, history, signalled,
                   lock, backup, trust, decision, host, approved, budget>>

\* The three phases stored on the way, each before the step it names.
EnterPhase(r, here, phase, next) ==
    /\ At(r, here)
    /\ Store(r, [rec[r] EXCEPT !.phase = phase])
    /\ Go(r, next)

StorePhase(r) ==
    /\ \/ EnterPhase(r, "store_auditing", "auditing", "audit")
       \/ EnterPhase(r, "store_delegating", "delegating", "backup")
       \/ EnterPhase(r, "store_verifying", "verifying", "rescan")
    /\ UNCHANGED <<arg, seen, original, ident, updated, history, signalled,
                   lock, backup, trust, decision, host, approved, budget>>

AuditBefore(r) ==
    /\ At(r, "audit")
    /\ Go(r, IF AuditPasses(Plug(r)) THEN "store_delegating" ELSE "fail_store")
    /\ UNCHANGED <<locals, signalled, lock, disk, host, approved, budget>>

\* swap_to_hardened: read and back up, record the backup, install, witness.
WriteBackup(r) ==
    /\ At(r, "backup")
    /\ ~signalled[r]
    /\ original' = [original EXCEPT ![r] = config[Plug(r)]]
    /\ backup' = config[Plug(r)]
    /\ Go(r, "store_pointer")
    /\ UNCHANGED <<arg, seen, rec, ident, updated, history, signalled, lock,
                   flow, trust, decision, host, approved, budget>>

StorePointer(r) ==
    /\ At(r, "store_pointer")
    /\ Store(r, [rec[r] EXCEPT !.pointer = TRUE])
    /\ Go(r, "harden")
    /\ UNCHANGED <<arg, seen, original, ident, updated, history, signalled,
                   lock, backup, trust, decision, host, approved, budget>>

Harden(r) ==
    /\ At(r, "harden")
    /\ config' = [config EXCEPT ![Plug(r)] = Hardened(Plug(r))]
    /\ touched' = [touched EXCEPT ![Plug(r)] = FALSE]
    /\ Go(r, "update")
    /\ UNCHANGED <<locals, signalled, lock, disk, installed, live, orphans,
                   approved, budget>>

\* `omarchy plugin update` has no expected-commit guard: success may install
\* any commit; a failed or killed updater may leave any commit, half applied.
NativeUpdate(r) ==
    /\ At(r, "update")
    /\ \E c \in Commit, ok \in BOOLEAN, t \in Tree :
          /\ t \in {installed[Plug(r)].tree} \cup (IF ok THEN {} ELSE {"dirty"})
          /\ installed' =
               [installed EXCEPT ![Plug(r)] = [head |-> c, tree |-> t]]
          /\ updated' = [updated EXCEPT ![r] = ok]
    /\ Go(r, "restore")
    /\ UNCHANGED <<arg, seen, rec, original, ident, history, signalled, lock,
                   disk, config, touched, live, orphans, approved, budget>>

\* The window was tampered with: the witness moved or the bytes differ.
Tampered(p) == touched[p] \/ config[p] # Hardened(p)

\* Mutant: the guard removes the backup as soon as the config is back.
RestoreAndRemoveBackup(r) ==
    /\ At(r, "restore")
    /\ WriteConfig(Plug(r), original[r])
    /\ backup' = None
    /\ Go(r, IF Tampered(Plug(r)) THEN "tampered_decision" ELSE "clear_pointer")
    /\ UNCHANGED <<locals, signalled, lock, flow, trust, decision, installed,
                   live, orphans, approved, budget>>

RestoreConfig(r) ==
    /\ At(r, "restore")
    /\ WriteConfig(Plug(r), original[r])
    /\ Go(r, IF Tampered(Plug(r)) THEN "tampered_decision" ELSE "clear_pointer")
    /\ UNCHANGED <<locals, signalled, lock, disk, installed, live, orphans,
                   approved, budget>>

\* Mutant: a failed restore clears the recovery pointer like a clean one.
RestoreFailedForgets(r) ==
    /\ At(r, "restore")
    /\ budget.faults > 0
    /\ budget' = [budget EXCEPT !.faults = @ - 1]
    /\ Keep(r, [rec[r] EXCEPT !.pointer = FALSE])
    /\ Go(r, "fail_decision")
    /\ UNCHANGED <<arg, seen, original, ident, updated, history, signalled,
                   lock, disk, host, approved>>

\* The replace fails; the guard's Drop tries once more and may succeed.
RestoreFailed(r) ==
    /\ At(r, "restore")
    /\ budget.faults > 0
    /\ budget' = [budget EXCEPT !.faults = @ - 1]
    /\ \/ WriteConfig(Plug(r), original[r])
       \/ UNCHANGED <<config, touched>>
    /\ Go(r, "fail_decision")
    /\ UNCHANGED <<locals, signalled, lock, disk, installed, live, orphans,
                   approved>>

ClearPointer(r) ==
    /\ At(r, "clear_pointer")
    /\ Store(r, [rec[r] EXCEPT !.pointer = FALSE])
    /\ Go(r, "remove_backup")
    /\ UNCHANGED <<arg, seen, original, ident, updated, history, signalled,
                   lock, backup, trust, decision, host, approved, budget>>

RemoveBackup(r) ==
    /\ At(r, "remove_backup")
    /\ backup' = None
    /\ Go(r, "outcome")
    /\ UNCHANGED <<locals, signalled, lock, flow, trust, decision, host,
                   approved, budget>>

\* Tampering: decision, then the cleared and failed record, then the backup.
TamperedDecision(r) ==
    /\ At(r, "tampered_decision")
    /\ Decide(r, "failed")
    /\ Go(r, "tampered_store")
    /\ UNCHANGED <<locals, signalled, lock, flow, backup, trust, host,
                   approved, budget>>

TamperedStore(r) ==
    /\ At(r, "tampered_store")
    /\ Store(r, [rec[r] EXCEPT !.pointer = FALSE, !.phase = "failed"])
    /\ Go(r, "tampered_remove")
    /\ UNCHANGED <<arg, seen, original, ident, updated, history, signalled,
                   lock, backup, trust, decision, host, approved, budget>>

TamperedRemove(r) ==
    /\ At(r, "tampered_remove")
    /\ backup' = None
    /\ Exit(r, "err")
    /\ UNCHANGED <<flow, trust, decision, host, approved, budget>>

\* A failed or interrupted updater never reaches verification.
UpdateOutcome(r) ==
    /\ At(r, "outcome")
    /\ Go(r, IF updated[r] /\ ~signalled[r] THEN "store_verifying"
                                            ELSE "fail_decision")
    /\ UNCHANGED <<locals, signalled, lock, disk, host, approved, budget>>

\* Mutant: a refusal restores service before it returns.
FailAndEnable(r) ==
    /\ At(r, "fail_decision")
    /\ Decide(r, "failed")
    /\ live' = [live EXCEPT ![Plug(r)] = @ \/ seen[r].live]
    /\ Go(r, "fail_store")
    /\ UNCHANGED <<locals, signalled, lock, flow, backup, trust, installed,
                   config, touched, orphans, approved, budget>>

\* Every refusal after the mutation: post-decision, failed record, error.
FailDecision(r) ==
    /\ At(r, "fail_decision")
    /\ Decide(r, "failed")
    /\ Go(r, "fail_store")
    /\ UNCHANGED <<locals, signalled, lock, flow, backup, trust, host,
                   approved, budget>>

FailStore(r) ==
    /\ At(r, "fail_store")
    /\ flow' = [rec[r] EXCEPT !.phase = "failed"]
    /\ Exit(r, "err")
    /\ UNCHANGED <<backup, trust, decision, host, approved, budget>>

-----------------------------------------------------------------------------
(* Postconditions: verify what is on disk, then re-enable, then trust *)

\* Fresh rescan: exact HEAD, and git status clean.
Rescan(r) ==
    /\ At(r, "rescan")
    /\ Go(r, IF /\ installed[Plug(r)].head = Cand(r)
                /\ installed[Plug(r)].tree # "dirty"
             THEN "collect" ELSE "fail_decision")
    /\ UNCHANGED <<locals, signalled, lock, disk, host, approved, budget>>

\* Mutant: HEAD alone is compared, not the collected bytes.
CollectHeadOnly(r) ==
    /\ At(r, "collect")
    /\ ident' = [ident EXCEPT ![r] = installed[Plug(r)]]
    /\ Go(r, IF installed[Plug(r)].head = Cand(r) THEN "reaudit"
                                                  ELSE "fail_decision")
    /\ UNCHANGED <<arg, seen, rec, original, updated, history, signalled, lock,
                   disk, host, approved, budget>>

\* The installed identity must equal the reviewed candidate's byte for byte.
Collect(r) ==
    /\ At(r, "collect")
    /\ ident' = [ident EXCEPT ![r] = installed[Plug(r)]]
    /\ Go(r, IF installed[Plug(r)] = Reviewed(Cand(r)) THEN "reaudit"
                                                       ELSE "fail_decision")
    /\ UNCHANGED <<arg, seen, rec, original, updated, history, signalled, lock,
                   disk, host, approved, budget>>

AuditAfter(r) ==
    /\ At(r, "reaudit")
    /\ Go(r, IF AuditPasses(Plug(r)) THEN "analyze" ELSE "fail_decision")
    /\ UNCHANGED <<locals, signalled, lock, disk, host, approved, budget>>

\* The analysis of changed content may or may not differ from the candidate's.
Analyze(r) ==
    /\ At(r, "analyze")
    /\ \/ Go(r, "decide")
       \/ installed[Plug(r)] # Reviewed(Cand(r)) /\ Go(r, "fail_decision")
    /\ UNCHANGED <<locals, signalled, lock, disk, host, approved, budget>>

\* Inventory, collection or analysis lost coverage: fail closed.
EvidenceUnavailable(r) ==
    /\ pc[r] \in {"rescan", "collect", "reaudit", "analyze"}
    /\ budget.faults > 0
    /\ budget' = [budget EXCEPT !.faults = @ - 1]
    /\ Go(r, "fail_decision")
    /\ UNCHANGED <<locals, signalled, lock, disk, host, approved>>

\* Mutant: the preview stays the latest decision.
VerifiedUnrecorded(r) ==
    /\ At(r, "decide")
    /\ Go(r, "enable")
    /\ UNCHANGED <<locals, signalled, lock, disk, host, approved, budget>>

PersistVerified(r) ==
    /\ At(r, "decide")
    /\ Decide(r, "passed")
    /\ Go(r, "enable")
    /\ UNCHANGED <<locals, signalled, lock, flow, backup, trust, host,
                   approved, budget>>

\* Interrupted after verification, before or while re-enabling.
InterruptedVerified(r) ==
    /\ pc[r] \in {"enable", "enable_failed"}
    /\ signalled[r]
    /\ flow' = [rec[r] EXCEPT !.phase = "verifying"]
    /\ Exit(r, "err")
    /\ UNCHANGED <<backup, trust, decision, host, approved, budget>>

\* Only a plugin that was live at pre-flight is enabled again.
Enable(r) ==
    /\ At(r, "enable")
    /\ ~signalled[r]
    /\ \/ /\ seen[r].live
          /\ \E works, takes \in BOOLEAN :
                /\ works => takes
                /\ live' = [live EXCEPT ![Plug(r)] = @ \/ takes]
                /\ Go(r, IF works THEN "accept" ELSE "enable_failed")
       \/ /\ ~seen[r].live
          /\ Go(r, "accept")
          /\ UNCHANGED live
    /\ UNCHANGED <<locals, signalled, lock, disk, installed, config, touched,
                   orphans, approved, budget>>

\* A plain failure to enable is a warning; trust still advances.
EnableWarning(r) ==
    /\ At(r, "enable_failed")
    /\ ~signalled[r]
    /\ Go(r, "accept")
    /\ UNCHANGED <<locals, signalled, lock, disk, host, approved, budget>>

\* TrustHistory::accept of the collected identity, written whole.
Accept(r) ==
    /\ At(r, "accept")
    /\ trust' = [history[r] EXCEPT ![Plug(r)] = ident[r]]
    /\ Go(r, "remove_record")
    /\ UNCHANGED <<locals, signalled, lock, flow, backup, decision, host,
                   approved, budget>>

\* Mutant: success leaves the record behind with a phase of its own.
MarkFinished(r) ==
    /\ At(r, "remove_record")
    /\ flow' = [rec[r] EXCEPT !.phase = "finished"]
    /\ Go(r, "remove_stale_backup")
    /\ UNCHANGED <<locals, signalled, lock, backup, trust, decision, host,
                   approved, budget>>

RemoveRecord(r) ==
    /\ At(r, "remove_record")
    /\ flow' = None
    /\ Go(r, "remove_stale_backup")
    /\ UNCHANGED <<locals, signalled, lock, backup, trust, decision, host,
                   approved, budget>>

RemoveStaleBackup(r) ==
    /\ At(r, "remove_stale_backup")
    /\ backup' = None
    /\ Exit(r, "ok")
    /\ UNCHANGED <<flow, trust, decision, host, approved, budget>>

-----------------------------------------------------------------------------
(* Environment *)

Signal(r) ==
    /\ Active(r)
    /\ ~signalled[r]
    /\ budget.signals > 0
    /\ budget' = [budget EXCEPT !.signals = @ - 1]
    /\ signalled' = [signalled EXCEPT ![r] = TRUE]
    /\ UNCHANGED <<pc, locals, lock, disk, host, approved>>

\* SIGKILL, power loss, or an I/O error returned by `?`.  The native updater
\* runs in its own process group and may outlive a killed invocation.
Die(r) ==
    /\ Active(r)
    /\ budget.faults > 0
    /\ budget' = [budget EXCEPT !.faults = @ - 1]
    /\ Exit(r, "dead")
    /\ \/ UNCHANGED orphans
       \/ OrphansSurvive /\ At(r, "update") /\ orphans' = orphans \cup {Plug(r)}
    /\ UNCHANGED <<disk, installed, config, touched, live, approved>>

OrphanFinishes(p) ==
    /\ p \in orphans
    /\ orphans' = orphans \ {p}
    /\ \E c \in Commit : installed' = [installed EXCEPT ![p].head = c]
    /\ UNCHANGED <<pc, locals, signalled, lock, disk, config, touched, live,
                   approved, budget>>

\* Another process of the same user writes into the plugin's directory.
ForeignEdit(p) ==
    /\ budget.edits > 0
    /\ budget' = [budget EXCEPT !.edits = @ - 1]
    /\ \/ /\ \E t \in Tree \ {"clean"} :
            installed' = [installed EXCEPT ![p].tree = t]
          /\ UNCHANGED <<config, touched>>
       \/ /\ WriteConfig(p, Foreign(p))
          /\ UNCHANGED installed
    /\ UNCHANGED <<pc, locals, signalled, lock, disk, live, orphans, approved>>

\* Mutant: the rebaseline does not take the lock.
RebaselineUnlocked(p) ==
    /\ budget.rebaselines > 0
    /\ budget' = [budget EXCEPT !.rebaselines = @ - 1]
    /\ trust' = [trust EXCEPT ![p] = installed[p]]
    /\ approved' = approved \cup {<<p, installed[p]>>}
    /\ UNCHANGED <<pc, locals, signalled, lock, flow, backup, decision, host>>

\* `plugins review --action rebaseline` collects and accepts under the lock.
Rebaseline(p) ==
    /\ lock = None
    /\ budget.rebaselines > 0
    /\ budget' = [budget EXCEPT !.rebaselines = @ - 1]
    /\ trust' = [trust EXCEPT ![p] = installed[p]]
    /\ approved' = approved \cup {<<p, installed[p]>>}
    /\ UNCHANGED <<pc, locals, signalled, lock, flow, backup, decision, host>>

-----------------------------------------------------------------------------
Begin(r) == \E p \in Plugin, c \in Commit : Start(r, p, c)

Recover(r) ==
    \/ LoadRecord(r) \/ ReconcileRead(r) \/ ReconcileRestore(r)
    \/ ReconcileStore(r) \/ ReconcileRemove(r) \/ Inventory(r)
    \/ AcquireLock(r) \/ LockBusy(r)

Review(r) ==
    \/ NothingToUpdate(r) \/ ResolveCandidate(r) \/ CandidateRefused(r)
    \/ Evaluate(r) \/ Approve(r) \/ Reject(r) \/ InterruptionCheckpoint(r)

Delegate(r) ==
    \/ StoreRecord(r) \/ Quiesce(r) \/ NotLive(r) \/ StoreQuiesced(r)
    \/ StorePhase(r) \/ AuditBefore(r) \/ WriteBackup(r) \/ StorePointer(r)
    \/ Harden(r) \/ NativeUpdate(r) \/ RestoreConfig(r) \/ ClearPointer(r)
    \/ RemoveBackup(r) \/ TamperedDecision(r) \/ TamperedStore(r)
    \/ TamperedRemove(r) \/ UpdateOutcome(r) \/ FailDecision(r) \/ FailStore(r)

Verify(r) ==
    \/ Rescan(r) \/ Collect(r) \/ AuditAfter(r) \/ Analyze(r)
    \/ PersistVerified(r) \/ InterruptedVerified(r) \/ Enable(r)
    \/ EnableWarning(r) \/ Accept(r) \/ RemoveRecord(r) \/ RemoveStaleBackup(r)

Step(r) == Recover(r) \/ Review(r) \/ Delegate(r) \/ Verify(r)

Fault(r) == Signal(r) \/ Die(r) \/ RestoreFailed(r) \/ EvidenceUnavailable(r)

Outside(p) == OrphanFinishes(p) \/ ForeignEdit(p) \/ Rebaseline(p)

\* Stopping is legal: every invocation ended and nothing more will happen.
Finished ==
    /\ \A r \in Run : pc[r] \in Ended
    /\ UNCHANGED vars

Next ==
    \/ \E r \in Run : Begin(r) \/ Step(r) \/ Fault(r)
    \/ \E p \in Plugin : Outside(p)
    \/ Finished

Spec == Init /\ [][Next]_vars

\* A scheduled process runs on; nothing forces faults, signals or operators.
FairSpec == Spec /\ \A r \in Run : WF_vars(Step(r))

\* The operator tries again: every invocation is started sooner or later.
RetrySpec == FairSpec /\ \A r \in Run : WF_vars(Begin(r))

-----------------------------------------------------------------------------
(* What a reviewed update promises, whatever else runs at the same time *)

\* Trust never rests on content nobody reviewed: every baseline is the one the
\* plugin started with or an identity an operator approved for that plugin,
\* whatever the native updater, racing writers or other runs did in between.
TrustIsReviewed ==
    \A p \in Plugin :
        \/ trust[p] \in {None, Reviewed(Base)}
        \/ <<p, trust[p]>> \in approved

\* The history file is rewritten whole from a copy read earlier, yet a run
\* changes the baseline of its own plugin only: no other decision is lost.
TrustChangesAreOwn ==
    [][\A p \in Plugin : trust'[p] # trust[p] =>
         \/ \E r \in Run :
               At(r, "accept") /\ Plug(r) = p /\ trust'[p] = ident[r]
         \/ lock = None /\ trust'[p] = installed[p]]_vars

\* When trust advances, the latest enforcement decision on record for the
\* plugin is the passed one for exactly that commit.
AdvanceIsDecided ==
    [][\A r \in Run : At(r, "accept") /\ pc'[r] = "remove_record" =>
         /\ decision[Plug(r)] = [commit |-> Cand(r), verdict |-> "passed"]
         /\ trust'[Plug(r)] = Reviewed(Cand(r))]_vars

\* Projected on lock, approvals and baselines, every step of every
\* interleaving is a step of ReviewedTrust or changes nothing there.
Confirmed ==
    IF lock # None /\ pc[lock] \in {"enable", "enable_failed", "accept"}
    THEN <<Plug(lock), ident[lock]>> ELSE None

Promise == INSTANCE ReviewedTrust WITH holder <- lock, confirmed <- Confirmed

ImplementsReviewedTrust == Promise!TrustSpec

(* What it promises while invocations do not overlap (MaxActive = 1) *)

\* At every instant, so after a kill at any point, a hardened .git/config has
\* its original on disk, referenced by the recovery record.
HardenedIsRecoverable ==
    \A p \in Plugin : config[p] = Hardened(p) =>
        /\ flow \in FlowRecord
        /\ flow.plugin = p /\ flow.pointer
        /\ backup # None /\ backup # Hardened(p)

\* A record never references a backup that is gone: that would block every
\* later attempt for good.
PointerHasBackup == flow \in FlowRecord /\ flow.pointer => backup # None

\* Code no operator approved is never live, although the native updater can
\* install any commit and the run can be stopped anywhere.
LiveIsApproved ==
    \A p \in Plugin : live[p] =>
        \/ installed[p].head = Base
        \/ \E i \in Identity :
              i.head = installed[p].head /\ <<p, i>> \in approved

\* The native updater never runs on a live plugin.
UpdatesAreQuiesced == \A r \in Run : At(r, "update") => ~live[Plug(r)]

\* From its first mutation to its last, a run's recovery record is on disk.
RecordCoversMutation ==
    \A r \in Run : pc[r] \in BeforeVerified \cup Verified =>
        flow \in FlowRecord /\ flow.plugin = Plug(r) /\ flow.by = r

\* An unresolved record is replaced only by a record of its own plugin, and
\* removed only by a run of that plugin that completed.
UnresolvedRecordKept ==
    [][flow # None /\ flow' # flow =>
         /\ flow \in FlowRecord
         /\ \/ flow' \in FlowRecord /\ flow'.plugin = flow.plugin
            \/ flow' = None /\ \E r \in Run :
                   At(r, "remove_record") /\ Plug(r) = flow.plugin]_vars

(* A promise the source prints that the runs refute *)

\* An invocation that goes on over its plugin's stale record prints "the stale
\* record is replaced on success": no invocation returns Ok and leaves one.
OkClearsRecord ==
    [][\A r \in Run : Active(r) /\ pc'[r] = "ok" /\ flow' \in FlowRecord =>
         flow'.plugin # Plug(r)]_vars

-----------------------------------------------------------------------------
(* Liveness *)

\* A config left hardened by a run that was killed or could not restore it is
\* put back by whichever invocation comes next, once signals have stopped.
HardenedIsRestored ==
    \A p \in Plugin :
        (/\ config[p] = Hardened(p)
         /\ budget.signals = 0
         /\ \E r \in Run : At(r, "idle"))
            ~> config[p] # Hardened(p)

=============================================================================
