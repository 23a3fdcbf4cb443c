# Verification of OmaSafe

OmaSafe (`omasafe-cli`) watches the plugins of the Omarchy desktop shell: it
keeps a baseline of the plugin code an operator has reviewed, reports drift,
analyses plugin code, looks at the posture of the host, and updates or enables
a plugin only after review. This directory holds TLA+ models of the program,
the TLC instances that check them, and TLAPS proofs. All paths below are
relative to `src/`; `main.rs` is `crates/omasafe-cli/src/main.rs`,
`baseline.rs` is that of `crates/omasafe-plugin-trust/src/`, and a `lib.rs` is
that of the crate the sentence is about.

To check: `tlc -config ReviewUpdate_seq.cfg MCReviewUpdate.tla` (and likewise
for the other `.cfg` files with the module that section 3 names), and `tlapm` with
each module whose name ends in `Proofs` (`tlapm ReviewUpdateProofs.tla`, ...;
`PluginServicesProofs` takes some ten minutes, `AnalysisProofs` five).

`omasafe-cli` has no daemon. Each command is a short-lived process; several run
at once because timers, a pacman hook, the shell widget and the operator all
start them. They meet on files under the XDG state and cache directories, on
`flock`s on some of those files, on the installed plugins, and on the native
`omarchy` command. A step of every state machine here is therefore one file
operation, lock operation or native command of one process, so that processes
interleave, and are killed or interrupted, between any two of them. Where one
step stands for more (a locked load-append-replace, a sample of a file), the
header of the module says so.

## 1. Inventory

### 1.1 review-update (`main.rs` 895-1316, 1350-2472)

*State*: the recovery record `review-update.json` (one for all plugins), the
config backup beside it, `trust-history.json` with its lock, the enforcement
decision, and of the host the installed tree, its `.git/config` and whether the
plugin is live. *Operations*: load and judge the record, reconcile an
interrupted config swap, resolve and analyse the candidate, approval, store the
record, quiesce, audit, swap `.git/config` for a hardened one, delegate to
`omarchy plugin update`, restore, re-verify, record the decision, re-enable,
advance trust, remove record and backup. *Hard*: some twenty-five file
operations in a fixed order, each possibly the last one; SIGINT/SIGTERM only at
checkpoints; a native updater without an expected-commit guard that outlives a
killed parent; record and inventory read before the lock is taken. *Correct
when*: trust rests on reviewed content only; the original config is always
recoverable and is recovered; unreviewed code is never live; the record covers
every mutation and no unresolved record is lost; a rewrite of the history loses
nobody else's decision.

### 1.2 Scan snapshot cache (`scan_snapshot.rs`; `main.rs` 3092-3152, 3782-4137, 4237-4352)

*State*, per scan profile: lock, generation counter, snapshot. *Operations*:
reserve a generation before scanning, replace the snapshot after, `scan-cache
show [--validate]`. *Interactions*: `scan` writes it, the widget reads it, its
context (plugins, trust, marketplace, enforcement, overrides) is written by all
other commands. *Hard*: concurrent scans that finish in another order than they
began; a kill inside the non-atomic write of the counter; validation that reads
five inputs one after the other while they change. *Correct when*: generations
are unique, a loadable snapshot only advances, what was reported persisted is
not undone by an older scan, and "cached-valid" is only said of a context that
was there.

### 1.3 Controlled enable and its authority (`main.rs` 2486-3060, 5544-6225; `enforcement.rs`, `executable_review.rs` of `crates/omasafe-report`)

*State*: live plugins, the append-only overrides, executable reviews and their
revocations, enforcement decisions and audit events. *Operations*: `plugins
enable` collects, analyses, evaluates, records, runs the native enable,
collects and evaluates again and disables if it must not stand; `override
create`, `executable-review add` and `revoke`. *Hard*: no lock over its steps,
so tree, reviews, override and clock may change between any two; expiry in
whole seconds; authorization and audit event are two writes; the undo may fail.
*Correct when*: what an enable leaves live rests on authority that was good at its
native command, or was added since, and is on record; a refusal undoes what it
did; and reports agree with the gate.

### 1.4 Trust ledger and scan alerts (`main.rs` 616-713, 3152-3781, 4432-4507, 5296-5468, 6226-6375; `baseline.rs`)

*State*: `trust-history.json` (an append-only list under one `flock`) and
`scan-state.json` (alert keys, last notified, analysis snapshots). *Operations*:
trust, untrust, restore, acknowledge, rebaseline, exclude, status; scans that
compare the inventory with the baselines, classify analysis drift, notify and
remember. *Hard*: `trust` collects (650) before it locks (702); a scan collects
(3148) before it locks (3153); corrupt files are set aside and started again;
options of one scan change what the next one knows. *Correct when*: no decision
is lost, a baseline is what an operator confirmed, every standing alert is handed
to notify-send and none is without cause handed over again.

### 1.5 Other components

| Component | State and operations | What is hard | Correct when |
|---|---|---|---|
| Suppressions (`suppress.rs`, `policy.rs`) | list of suppressed findings; suppress, reinstate; declarations of a release | a rule changed and changed back | hides only what it was given for, while the rule means the same |
| Analysis report cache (`main.rs` 7018-7131, 7604-7740) | last report of a plugin by key | identity, walk and suppressions are read one after the other | a hit is what its key names |
| Analyzer (`ingest.rs`, `main.rs` analyze, `detect.rs` driver) | none; ingestion under budgets, a second verified read, coverage | files change between the reads; five limits | nothing is lost without a limitation or a gap |
| Review profile (`main.rs` 8380-8900) | none; caps and trims a report | every list shrinks several times | omission counts match what is left |
| Pinned revisions (`ingest.rs` 560-1100) | bare repositories, one lock, a quota | read without the lock; kills between its steps | hands out whole revisions of the source asked for |
| Identity and inventory (`lib.rs` of `omasafe-plugin-trust`) | none; walks of trees that change, the shell's answer | limits, order of `read_dir` | the tree is in the entries or a limitation explains what is missing |
| Bounded processes (`bounds.rs`, `interrupt.rs`) | child, group, two drains, deadline | exit, deadline, drain and kill race | output is whole or marked, no stray kill |
| Review workspaces (`main.rs` 195-408, 715-) | job directories with owner locks | lock file exists before it is locked | no live owner's job is swept |
| Marketplace (`omasafe-marketplace`) | catalog and metadata files; refresh, load | unlocked rollback check (459), two writes | a verified catalog is one commit's, and never goes back |
| Posture (`omasafe-posture`, `main.rs` 9337-9535) | check states, pending notices, report | tools that fail in part; three unlocked steps | verdicts are true, history and notices follow the scans |
| Schedule (`main.rs` 4753-5295) | systemd units, ownership record | record written last (4845) | uninstall removes what install left |
| Detectors, rules, requests, reports, tooling | none | - | see section 7 |

The components, with their sources and status, are also in `PROJECT.json`; the
hazards, each at its line, are listed there under `hazards`.

## 2. What is modelled

### 2.1 ReviewUpdate

`ReviewUpdate.tla` is every step of `review_update` from its arguments to its
exit code. A process is an element of `Run`; its program counter `pc` says which
file operation or command comes next, and its locals (`arg`, `rec`, `ident`,
`history`, `original`, ...) are what the function has read so far. Shared state:

| Variable | Code |
|---|---|
| `flow` | `review-update.json`, `UpdateFlowRecord` (`baseline.rs` 74-138) |
| `backup` | the config backup beside it |
| `trust`, `lock` | `trust-history.json`, its `StateLock` (`baseline.rs` 661-717) |
| `decision` | latest enforcement decision (`main.rs` 2958-2968) |
| `installed`, `config`, `live` | worktree, `.git/config`, enabled or not |
| `approved` | auxiliary: identities an operator accepted |

The actions follow the source in order: `Recover` (record, reconciliation,
inventory, lock), `Review` (candidate, policy, approval), `Delegate` (record,
quiesce, audits, config swap, native update, restore), `Verify`
(re-verification, decision, enable, trust, cleanup). `Fault` is a signal, a
kill (also standing for an I/O error returned by `?`), a failing `rename` of
the restore; `Outside` is an orphaned updater, another process's write and
`review --action rebaseline`. `BenignConfig` is what the audit accepts in a
`.git/config`.

`ReviewedTrust.tla` is the abstract specification: one holder of the trust
history, approval, confirmation, advance of that plugin only.
`ImplementsReviewedTrust` is the refinement, with the holder mapped to `lock` and
the confirmed identity to the `ident` of a holder that has verified it.

### 2.2 ScanCache

`ScanCache.tla` has the cache of one scan profile: elements of `Scan` reserve,
observe and replace; elements of `Reader` validate. `counter`, `snapshot` and
`lock` are the profile's three files; `plugins`, `state` and `mtime` the context.

| Actions | Code |
|---|---|
| `ReserveBusy`, `ReserveRefused`, `ReadCounter`, `TruncateCounter`, `WriteCounter`, `WriteCounterFails` | `reserve_generation`, `ProfileLock::acquire`, `write_private_file` |
| `Collect`, `ReadFile`, `ScanDone`, `ScanUncached` | `scan` up to the snapshot |
| `ReplaceBusy`, `Superseded`, `Compare`, `Rename`, `RenameFails` | `replace_snapshot` |
| `Load`, `Witness`, `WitnessContent`, `Recollect`, `ReadFile`, `ContextRead`, `ValidationUnavailable`, `Recheck`, `Answer` | `scan_cache_show`, `validate_cached_snapshot` |
| `ChangePlugins`, `ChangeState`, `Kill` | the rest of the host |

State files keep a content apart from a modification time because the code
compares contents but witnesses times: a file rewritten and written back is
equal and not the same. The plugins are observed at once; in the program the
walk itself takes time, and `plugin_content_witness` (4131) is there to notice
it. With an atomic walk that second witness is redundant, so nothing here shows
that it suffices. `Loadable` is what `validate_snapshot` accepts. The writer
checks less than that reader (section 5), so whether a stored result is `fit` for
it is a choice of `Store`, and `rejected` remembers the scans that stored one that
is not.

### 2.3 EnableGate

`EnableGate.tla` has `plugins enable` with its two evaluations, and the commands
that create and withdraw its authority, as invocations `Run` over one clock,
three append-only histories and one installed tree that others edit. The
evaluator is pure: `Reasons`, `OverrideUsable` and `Evaluate` are
`EnforcementPolicy::evaluate`, `ResolveOverride` reads the latest binding,
`Authorizes` is a review's. The native enable leaves a history variable `since`
(the files and the clock at that moment) for the properties. The two pure
views, `ListedAs` and `CoverageStatus`, are what `list` and an analysis report
say of the same files; they are judged in every reachable state.

### 2.4 TrustLedger and ScanAlerts

`TrustLedger.tla` is the file, its flock and its writers as `Client`s;
`ScanAlerts.tla` extends it with scans that hold the same lock from loading the
ledger to their end, so that the two compose over `ledger` and `holder`. A scan
is a record of its locals (`inv`, `live`, `sent`, `state`, ...). Alerts are
pairs of a kind and a subject, as the keys of the code are; `sent` are those
handed to notify-send, whose failure the code ignores. The inventory
changes (`Edit`), the analyzer, the catalog and ambient conditions change
(`Elsewhere`), and either file may be found corrupt. `StatusOf` is
`plugins status`.

### 2.5 The services

Modules that share no variable with the others, each with its own `...Init` and
`...Next` so that `MCServices` can hold them side by side.

| Module | Code | Processes and faults |
|---|---|---|
| `PostureChecks` | every check as an operator from what tools showed to a state | none: judged on every host of `MCPostureHosts` |
| `Posture` | `posture scan`, `export`, `digest` | two overlapping scans, a host that changes, kills and failing notices |
| `Schedule` | `schedule install`, `status`, `uninstall` | two commands, kills, failing systemctl, edited and torn units |
| `ReviewWorkspace` | choice of the base, job, owner lock, sweep | two owners, two sweepers, kills |
| `BoundedProcess` | `spawn_bounded` | caller, two drains, leader, descendant |
| `CatalogCache` | refresh, rollback check, verified load, resolution | two refreshes, a reader, damage, kills |
| `Suppressions` | suppressions, declarations, `plugins analyze` with its cache | an analysis, upgrades, changes, records in between |
| `ReviewProfile` | `emit_analysis_report`, `apply_review_profile` | steps of one report |
| `PayloadAnalysis` | the directory walk, the Git front end, `analyze_inventory` | files that change, lost objects, budgets |
| `PinnedCache` | requests, `ensure_pinned_repository_with_facts` | two scans, kills, pushes, damage |
| `ContentIdentity` | `ContentCollector`, `source_identity` | a tree that changes under the walk, six limits |
| `PluginInventory` | `collect`, `collect_one` | directories replaced between two opens |

`MCAnalyses` holds the instances of the last five, `MCServices` the rest.

## 3. What the runs show

Each property has a mutant: a plausible slip in a mapped definition (a dropped
guard, a lock not taken, a step forgotten) under which TLC refutes the property
with the run's own configuration. Deadlock is checked wherever `Finished`
excludes the state in which every process has ended; `services` has no such
action, because each of its services may simply stop.

**`seq`** (`MCReviewUpdate`) - invocations one after the other (`MaxActive = 1`),
two plugins, three commits (the installed one, a candidate, one that wins the
race), two invocations, one fault, one signal, no record or an unreadable one at
the start (one of an earlier invocation arises by killing it). Checked:
`HardenedIsRecoverable` (at every instant a hardened config has its original on
disk, referenced by the record), `PointerHasBackup` (no record references a
backup that is gone), `LiveIsApproved`, `UpdatesAreQuiesced`,
`RecordCoversMutation`, `UnresolvedRecordKept`, and the liveness property
`HardenedIsRestored` (a config left hardened is put back by the next
invocation). Two invocations are one that fails and one that recovers, of the
same or another plugin, which is every pair the record connects; one fault
reaches every point of the sequence, and the record left unreadable is in
`Init`.

**`overlap`** - two invocations at once with a kill, an updater that survives it,
a foreign write and a rebaseline. Checked: `TypeOK`, `TrustIsReviewed`,
`TrustChangesAreOwn`, `AdvanceIsDecided`, `ImplementsReviewedTrust`. These are
the properties that hold under every interleaving.

**`overwrite`**, **`live_update`**, **`stale_record`** - the properties the source
promises and the code does not keep; see Findings.

**`scans`** (`MCScanCache`) - two scans and a validating reader of one profile, one
fault (kill or failing write), two changes of the context, two state files, a
counter that runs out at 3. Two scans are what the guard compares; two state
files are what a torn read needs; two changes are what writing a file back
needs; the counter is small so that exhaustion happens. Checked: `TypeOK`,
`GenerationsAreUnique`, `SnapshotAdvances`, `PersistedIsCached`, `ValidWasTrue`.
`Init` has an absent cache and one whose snapshot does not load; the counter
there is 1 or 2. The second and third name their exception: a result that the
reader rejects is forgotten with its number, so a scan may replace it that is
older than what was there before.

**`torn_counter`** - a kill between truncating the counter and writing it; see
Findings.

**`gate`** (`MCEnableGate`) - three invocations: an enable, then another enable or a
review, then a revocation or an override, in every interleaving, with one edit
of the tree, one fault (a kill, a failure after the native command, an undo that
fails) and one tick, which is the expiry of everything granted. One content
ships an executable that needs a review, the other is flagged and needs an
override, so an override of the wrong content is possible; `MaxTime = 1` suffices
because only "before or after expiry" is distinguished. Checked: `TypeOK`,
`AuthorisedWhenEnabled` (a hardened enable that says ok rests on a review and, for
what else blocks, an override that were not withdrawn at its native enable and
outlast it; either may have been added since, up to the second decision, which
is when the code looks again), `EnableIsOnRecord`, `RefusalsUndo`,
`ReportsAgreeWithGate` (what a list or a report calls active or accepted is what
the gate goes by).

**`undo`** - a refusal that does not undo; see Findings.

**`alerts`** (`MCScanAlerts`) - one plugin id in two directories, up to three scans or
two scans and a command or two commands, one edit or one corrupted file; the
constraint `Few` keeps exactly these mixes (three scans with everything free do
not fit, and the third matters only as the one that notifies afterwards).
Checked: `AcceptedIsConfirmed` (types; every baseline is one an operator
confirmed, and rebaseline without values confirms an identity that has none;
`StatusAgreesWithScan`: what `plugins status` says of a plugin and what a scan of
the same inventory alerts about agree, except of a directory that cannot be
scanned, which only the scan tells), `StandingAlertsWereNotified` and
`NotifiedOnce` (of what is handed to notify-send), `LedgerOnlyGrows`.

**`stale_inventory`** - an inventory older than the lock; see Findings.

**`services`** (`MCServices`) - the services that share no state, side by side: the
variable `part` is chosen at the start and only that service moves, so the run is
thirteen instances in one, each with its own bounds:

| `part` | Instance | Checked |
|---|---|---|
| checks | about 2,700 hosts, each set varying what one check reads: tools missing, failing, partial or lying in their exit status | `ChecksAreSound`: `VerdictsAreTrue`, `LossOnlyHides` |
| posture | a healthy host, 3 scans, 2 changes of the host, 1 mishap; two checks, one of which can also be lost | `PostureRemembers` |
| schedule | nothing installed or an earlier install; 3 commands, 1 break (kill, failing step or edit); two may overlap | `StatusTellsInstalled`, `UninstallLeavesNothing` |
| workspace | 2 owners, 2 sweepers, 1 kill; every kind of runtime directory, and a cache in order, missing or with one unsafe part | `LiveJobsAreKept` |
| process | a leader and a helper that write up to 2 units to each pipe, cap 1 | `OutputIsWholeOrMarked` |
| catalog | 3 refreshes over five commits (one garbage, one fork), 1 loss, 1 reader | `VerifiedIsListed` |
| declarations | 12,096 lineages of four releases | `DeclaredMeansUnchanged` |
| reports | 2 analyses, 1 record, 2 moves (upgrade or change), one lineage of four releases | `HiddenOnlyAsMeant`, `CachedReportIsCurrent` |
| profile | about 2,600 analyses, both profiles, lists of 4, gaps and exposure of 1, 3 weights | `ReportsAddUp` |
| analysis | trees of six paths, directory and Git front ends, 1 edit, four child slots, samples of 2 | `WalksAreHonest` |
| pins | 2 scans, 2 sources, 3 revisions, quota 3, 2 troubles (kills, pushes, damage); every git command may fail or be cut off at its deadline besides | `CacheKeepsPins` |
| identity | 7 trees of eleven paths with a repository and a submodule, five sets of caps (each makes another limit strike), 1 edit | `WalksAreHonest` |
| inventory | about 2,100 installations of two directories and a backup, every listing order, 1 replacement, a root that cannot be read | `WalksAreHonest` |

The bounds are chosen so that every limit of the code can be hit with and
without a rest left over, every pair of overlapping processes exists, and one
fault can strike each point; `ServicesTypeOK` is the types of all of them.
`WalksAreHonest` names what the code passes over or takes in silently: whatever is
named `.git` in an analyzed directory, and the hooks a repository takes through a
link from a directory elsewhere (both are among the trees). Of an inventory
whose root cannot be listed it says nothing. As the
parts share nothing, a behaviour of two services at once is a shuffle of one of
each and satisfies an invariant of either.

**Fairness.** Only `seq` needs any. `FairSpec` has weak fairness on `Step(r)` of each
invocation: a started process that is not killed is scheduled again, and each of
its steps either completes or ends it (children are bounded by deadlines, the
lock by its retries), so a step stays enabled until taken. `RetrySpec` adds weak
fairness on `Begin(r)`: the operator tries again, which is what the message of
the failed run asks for. Faults, signals, other writers and rebaselines are
never fair. The property's premise has no signal pending in the budget, since
an operator who interrupts every attempt is never recovered.

**Symmetry.** Invocations (and scans, contents, owners, sweepers) are
interchangeable where a configuration names a symmetry: no definition orders or
names one. It is not used in `seq`, which has a liveness property.

## 4. What is proved

Fifty-two theorems in eight modules, for every value of the constants that
satisfies the named assumptions: any number of processes, plugins, commits,
contents, files, faults and changes. The assumptions are of five kinds.

- Bounds are numbers: `BoundsAreNaturals`, `WorkspaceBounds`, `ScheduleBounds`,
  `ProcessBounds` (a cap of at least one byte), `CatalogBounds`, `SuppressionBounds`,
  `PostureBounds`, `LimitsAreNumbers`, `AnalysisBounds`, `CapsAssumption`.
- Inputs have the shape the code gives them: `StartIsTyped`, `ContentsAreTyped`,
  `CatalogsAreTyped`, `PrecedesIsAncestry` (ancestry of commits is reflexive and
  transitive), `DeclarationsAreTyped` (a declaration's baseline is an earlier
  one), `ScansAreTyped`, `WalkListsEveryDirectory`, `SourcesHavePins`,
  `WishesName`, `ChecksAreNamed`, `HostsAnswer`, `HealthyIsAHost`,
  `PluginsAreFiles`, `TreesAreTyped` (what a path can hold, and that what is there
  has a directory above it), `RendersAreWhole` (a finding comes with all its
  evidence, which is shortened in the report only), `PathsAreNested`,
  `ItemsAreNested` (no path lies below itself; going up from any leads to the
  root), `GitHasItsParts` (a repository has one path of each name Git uses),
  `QuotaIsSize` (the quota of the pinned cache counts objects).
- A value that stands for "nothing" is none of the others: `NoneIsFresh`,
  `AbsentIsFresh`, `UnmadeIsNothing`, `NoneIsNothing`, `NoFolderIsNothing`,
  `VoidIsNothing`, and `FilesAreTold` (a file that is absent or garbage is no
  catalog).
- A lock tells its processes apart: `ProcessesDiffer`, in `ScanAlerts` and
  `ReviewWorkspace`.
- The tools a posture scan asks tell the truth as far as they answer:
  `ToolsAreTruthful`. A list of updates that came with success is the list or
  empty, a fetched commit is the upstream's, an audit with findings is of a
  vulnerable host. They may fail, be missing, hang, stop early or print junk; of what
  they do not say nothing is assumed. Only `VerdictsHold` needs it.

TLC evaluates all of them in the runs.

### 4.1 `ReviewUpdateProofs`: what holds under every interleaving

- `TypeCorrect`: `Spec => []TypeOK`. `TypeOK` alone is not inductive, since a
  record that is amended or a config that is restored is typed only because the
  process read or built it earlier. `TypeInv` adds `Equipped(r)`: at which
  program counters which locals are set.
- `TrustReviewed`, `NoTrustIsLost`, `AdvanceDecided`: the three trust properties
  of `overlap`. The invariant is `Inv == TypeInv /\ SafeInv`, where `ProcessSafe(r)`
  says that a process is in its locked region exactly when it holds the lock;
  that its copy of the history is then the file; that a verified identity is the
  candidate's; that the candidate was approved; and that the passed decision is
  still the latest. Each is needed by the next along the path to `Accept`.
- `Implements`: `Spec => ImplementsReviewedTrust`, from the same invariant: the
  lemmas show of each step at once that it preserves the invariant, maps to a
  step of `ReviewedTrust` or to a stutter, and obeys the two action properties.

### 4.2 `ReviewUpdateProofs`: the config swap, without overlaps

The properties of `seq` are refuted as soon as invocations overlap (findings 1
and 2), so the theorems assume `MaxActive = 1`; the number of invocations that
follow one another, and where each is killed, stays free.

- `HardenedRecoverable`, `BackupPresent`, `MutationCovered`, `RecordIsKept`: from
  `AloneInv`. `Lonely`: whoever is under way is the only one, so that what it knows
  of the record is still so. `ProcessAlone(r)`: at which steps the record is its
  own, does or does not reference the backup, and whether the config was put
  back. `PointerIsGood` and `HardenedIsPointedTo` are the two facts that survive a
  kill, about the disk alone: a referenced backup is there and is not itself
  hardened, and a hardened config belongs to the plugin of a record that
  references a backup. Together they give `HardenedIsRecoverable`; neither is
  inductive without the other, because the reconciliation of the next
  invocation relies on the first and re-establishes the second.
- `UpdatesQuiesced`: from `LiveInv`: from the quiesce to the verified outcome the
  plugin is not live, and before it the plugin is live only if the inventory
  said so, which is what decides whether to quiesce.
- `LiveApproved` further assumes `~OrphansSurvive`: an updater that outlives a
  killed run may install a commit after the next run has enabled the plugin,
  which is why `seq`, too, has no orphans.

### 4.3 `ScanCacheProofs`

- `TypeIsCorrect`: `TypeInv` adds what a scan or a reader has in hand at which step,
  and that whoever rewrites the counter or renames holds the lock.
- `GenerationsStayUnique`, `SnapshotOnlyAdvances`, `PersistedStaysCached`: from
  `CacheInv`. `Numbers`: a number handed out is below the stored counter, and below
  the number of the scan that is rewriting it (the counter is then unreadable, so
  the bound has to live in the process). `Order`: so is the stored snapshot, be it
  loadable or not. A scan that was told "persisted" finds its result or a newer
  one as long as no rejected one came between, which `rejected` remembers.
  `Recency`: what was collected under a number is as recent as the beginning of
  every scan with a smaller one; this is what makes a discarded result harmless.
- `ValidIsTrue`: from `ReaderInv`: while the modification times are those witnessed,
  what has been read is what the files hold, and if it agrees with the cached
  context now, it agreed when the plugins were collected. The comparison of
  times at `Recheck` turns that into a fact that no later change disturbs.

### 4.4 `EnableGateProofs`

- `TypeCorrect`: `Spec => []TypeOK`, strengthened by `Equipped(r)` as above.
- `EnablesAreRecorded` and `RefusalsAreUndone`: `EnableIsOnRecord` and `RefusalsUndo`
  from `Recorded(r)`: the decision before the native command is the only one of
  its stage until it is acted on, who has enabled has passed it and has its
  attempt in the audit, and who ends later without a fault has recorded what
  was really enabled.
- `EnablesAreAuthorised`: `AuthorisedWhenEnabled` from `Authorised(r)`: who has passed
  the second decision has in the files a review or an override that covers what
  was installed, that nothing in the files at the native command (`since`)
  withdraws, and that had not expired by then.
- `ReportsAgree`: `ReportsAgreeWithGate`, of any files and at any time. A
  report goes by the latest matching review that is not revoked and the gate by
  any of them that authorizes, so the proof has to find the former: that a
  latest one exists is a fact about numbers (`LeastNatural`), which no prover
  supplies for a `CHOOSE`.
- The argument of the first three: the files only grow (`Grows`), and a step of
  anybody else leaves an invocation's own variables alone (`Keeps`), so that each
  step needs to be looked at for its own process only.

### 4.5 `ScanAlertsProofs`: the ledger and the scans that share its lock

The invariant has three layers. Types, and what a command or scan has in hand.
Then the flock: one holder, scans served one after the other in the order of
`served`, whose terms make a history `History`. Then the meaning of the files:
`KnownInv` (every key in the state file, or in a scan's memory, was notified by a
scan of the history and not dropped since; notified is: handed to notify-send) and
`KeptInv` (a key that was notified is in the state file unless it is `Forgotten`:
not written down, dropped by a scan that no longer saw it, or lost with a corrupt
file). The first bounds what is remembered from above and carries
`StandingAlertsNotified`; the second bounds it from below and carries
`AlertsDeduplicate`. A scan that has reported and does not write keeps a memory
that agrees with nothing, so `KeptInv` speaks of a scan's memory only while it is
going to be written.

- `LedgerGrows`: `LedgerOnlyGrows`; `AcceptedIsRight`: `AcceptedIsConfirmed`, from the
  same invariant: what a command writes is what it loaded under the lock and one
  record more, confirmed for the plugin it names. That status and a scan agree
  follows from the alerts of the scan case by case; a baseline of a directory
  that cannot be scanned is the case in which they do not.

### 4.6 `HostServicesProofs`

Four services that share no state, each with an invariant of its own.

- `OutputIsHonest` (`ProcessInv`): what the caller has of a pipe is what its worker
  said, or that the worker was abandoned; a worker that saw the end of a pipe saw
  all of it and the pipe stays closed; the leader is reaped last and once; and
  where the caller gave up on anything the group is dead.
- `LiveJobsStay` (`WorkspaceInv`): an owner that uses its job holds the lock in it, a
  sweeper that empties a job holds that lock too, and it has one holder; no sweep
  takes up a job before its lock file exists. The proof fails for an owner that
  is also a sweeper: hence `ProcessesDiffer`. What it says of the base is what the
  code checks: of an `omasafe` in a cache only that it is no link.
- `StatusIsTrue` (`ScheduleTyped` and what a reader has seen) and
  `UninstallIsComplete` (`UninstallInv`: as long as nothing overlapped, one command
  is in flight, a timer is enabled only while its unit is there, and an uninstall
  has removed what the steps behind it remove).
- `PostureIsRemembered` (`PostureInv`): the state file is a summary of the log of
  scans behind it. For each check, the kept verdict, the start of an open gap and
  the last notified verdict are those the log gives, in the file and in every
  scanner that read it; a scanner extends summary and log together. The earliest
  start of a gap is again a least number (`LeastNumber`).
- `LossIsHidden`: `LossOnlyHides`, by one case per check and command over all
  hosts, where TLC has 2,700.
- `VerdictsHold`: `VerdictsAreTrue`, by a lemma for each check that connects a line
  of the answers with the host: the updates, the checkout (a configuration that
  is accepted has no line that could run or redirect anything, so the fetched
  commit is the upstream's), the disks (the root that is judged is the first of
  the first device that has one, `FirstIs`), and the firewall, where a ruleset
  passes only if one of its chains is a base chain (`ChainIsThere`). The other
  verdicts follow from `ToolsAreTruthful` at once.

### 4.7 `PluginServicesProofs`

- `VerifiedListed` (`CatalogInv`): the metadata, and what a reader has read of it,
  names a commit some refresh accepted, so that a catalog that passes the
  comparison with it is that commit's, whoever wrote the two files and in
  whatever order. As long as no refreshes overlapped and the record was not
  damaged, the metadata is of the last commit accepted and a refresh past the
  check goes on from there.
- `DeclarationsMean`: of every document that passes validation, by
  `LineageIsSound`: along a lineage a rule keeps its meaning or its review
  revision rises. A declaration for which that failed would have a least number,
  its baseline is earlier, and validation compared the two.
- `ReportIsCurrent` and `HiddenAsMeant` (`SuppressionInv`): a suppression file
  that was changed never comes back (records are added or made inactive, `Was`),
  so a report keyed by an earlier file is never taken for one of the present
  file (`ReportWas`). The second theorem follows from what `Report` hides and from
  `DeclarationsMean`.
- `PinsComplete` (`PinInv`): only the lock's holder changes a repository; what the
  holder has established of it (its origin, a whole revision) stays so until it
  gives the lock back, unless the repository is damaged under it; and the
  objects of a repository are of revisions its source had, unless a scan of that
  source was disturbed.
- `CacheKeeps`: with `PinsComplete`, all of `CacheKeepsPins`, from `QuotaInv`. The
  size of the cache is the number of pairs of a repository and an object in it
  (`Stored`). Whoever is past the test of the quota and has not fetched finds the
  cache within it; what lies beside the repository of a scan that is accounting
  is within the quota, so that giving up that repository restores it; and only a
  fetch, completed, failed or killed, adds objects, two at most. So the cache is
  at no time more than one fetch over the quota, and within it whenever nobody
  is between a fetch and its account, no fetch was cut off (`cut`) and nothing was
  disturbed.
- `ShellIsFollowed` and `BarsAreRight` (`InventoryInv`): a record of the shell is
  unclaimed, in hand, in one report, or complained of; the only directory that
  can be meant is reported with its record, is being inspected with it, or both
  are still to come; and the bars are those of the shell's own plugins and of
  the reports so far. An inventory that could not list the root is over at once
  (`NothingThere`).
- `IdentityIsBounded` (`IdentityInv`): a file is looked at only where there is room
  for one more entry, and while nothing has changed what is read has the size
  that was looked at; so a read that passes the limit's test stays below it,
  and one that does not takes a sample of what is left and half of that.
- `IdentityTellsTree` and `RepositoryIsWhole` (`WalkInv`): `IdentityIsOfTree` and
  `GitIsWhole`, with which all of `WalksAreHonest` is proved. The walk goes
  through directories, the inputs of a repository and its hooks, each a kind of
  frame on its stack, and a frame waits for certain paths (`Waits`): one that is
  to be opened for all below its directory, an opened one for what lies below the
  entries it has left, one of a repository for the inputs left and for the hooks.
  The invariant (`TreeInv`) says of every path an answer is owed for (it is there,
  in the plugin's own directories, and covered, or it is a part Git gives every
  repository and is missing) that a frame waits for it, it is in hand, or it was
  told of: its entry is whole, or a limitation accounts for it. Opening a
  directory passes its paths on to the entry each lies below, which is there, as
  nothing above an owed path changed; giving one up leaves a limitation for all it
  waited for. Frames carry what makes that limitation the right one: the depth is
  that of the directory, a frame of the tree lies outside of every repository, and
  what is owed inside of one is a part of it or a hook (`OwedInRepository`). A
  path that changes is above no path that did not (`TouchedElsewhere`), so what
  was told of those stays true.
- `OmissionsAreTold` and `SelectionsAreFair` (`ProfileInv`): a report that is being
  trimmed has rows, lines and a summary that agree with its lists after every
  step. The row of the evidence is the exception, as in the code: a trim does
  not update it, and it is right all the same about whether anything is
  missing, since a finding that is left out has its own row and one that stays
  keeps its evidence. A selection is the set of the findings that fewer outrank
  than there is room for (`SelectionIs`). Whoever outranks a chosen finding is
  chosen too (`ChosenAreFirst`), and one finding of every family has the first turn
  (`FirstTurn`), which outranks every later turn of another family of its
  severity; hence a selection is fair, and since turns are counted anew each
  time, so is a selection of a selection (`SelectedIsFair`).

### 4.8 `AnalysisProofs`

`AnalysisReadsInventory`: `ReadsAreOfInventory` of `PayloadAnalysis`, from
`AnalysisInv`. While the inventory is taken, no detector has been given anything;
what was read of a file that is open is how its content begins, as long as
nobody touches it, so a read that came to the end has the whole of it; and only
such a read gives an exact digest, since every other one is marked as a sample.
From then on a detector is given bytes only if they have that digest and the
recorded size, whatever the file has become. A sample is at most what the
aggregate limit leaves, because its tail is sized after what its head really
read (`SampleIsSmall`).

`AnalysisDisclosesLoss`: `LossIsDisclosed`, that whatever did not change under the
command is in the report in full or a limitation or gap says why not. The walk is
a recursion over directories, so the invariant (`DisclosureInv`) speaks of its
stack: the frames are the directories from the one being walked up to the base,
and as deep as they are many, which is what makes the depth limit the right
explanation. Every file that is owed to the reader (it lies below nothing named
`.git`) is then in one of a few places: it lies below an entry that some frame has
still to visit, it is being read, it is recorded as what it is, or a limitation
explains it. Visiting an entry moves it from the first place to another; giving up
a directory leaves a limitation behind for all that lay below it. In the pass of
the detectors an entry is still to be analyzed, or what became of it is in the
results, the gaps or the rows of the report; and a gap, once there, stays. That,
conversely, nothing named `.git` comes into the inventory is `GitStaysOut`: no
frame is of such a directory or waits for such an entry.

`AnalysisTypes`: the type of the analysis. Its one part that is not a matter of
course is the count of the files seen, which no guard bounds: past the limit a
directory is given up and the walk goes on in the one above, which may count
again. It is bounded because the walk comes to no path twice. `ApartInv` says that
what one frame of the stack waits for no other does, and `CountInv` that as many
files were seen as there are paths at most for which no frame waits any more;
an entry that is visited leaves the set of those waited for and never returns.

The limits, the tree, the edits and their number are free.

### 4.9 `ServicesProofs`

The run `services` checks thirteen services side by side, and its specification
chooses one at the start. Of each the lemmas `...Alone` derive the specification
of the service itself, where it was chosen, from that of all: nobody else moves
its variables. With them the theorems of the services become theorems about the
very formulas the run checks: `WalksHonest` (`WalksAreHonest`), `ReportsHonest`
(`ReportsAddUp`) and `ChecksSound` (`ChecksAreSound`). `ServicesTyped`
(`ServicesTypeOK`) puts the types of all thirteen together: each service has a lemma
of its own type (`BoundedTypes`, `CatalogTyping`, `PostureTypes` and others), which
adds to its invariant what a run only counts.

### 4.10 What the attempts changed

- `Ask` in `PinnedCache`, the verdicts of `PostureChecks`, `Classify` and others
  in `PayloadAnalysis` and `Halt` in `ContentIdentity` were `CASE`s with
  overlapping guards, where TLA+ leaves open which is taken; TLC takes the first.
  They are now exclusive, or conditionals in the order of the code.
- `PinsAreComplete` said that the revision of every report is its source's. It is
  not where an outsider redirected the repository under an earlier scan of that
  source: what that scan fetched the next one finds as a hit. `Undisturbed`
  says so; TLC's bound on troubles had not reached it.
- `Lineage` is written so that a proof can unfold it once (a function over its
  domain), and the entries yet to be analyzed are a set of which the first is
  taken.
- The parser of a checkout's configuration, the search for the root device and
  that for a base chain were loops over the lines with an accumulator. They now
  say which lines decide (`InOrigin`, `UnsafeLine`, `FirstOf`, `NftHasBaseChain`);
  TLC found them equal to the loops on all short inputs.
- What is above a path was a recursive function. It is now the intersection of
  the sets that hold with a path its directory (`Upward`): transitivity, and that
  the directories above a path are one fewer than those above an entry of it,
  follow without an induction. In the same way the frames of the walk hold the
  set of what is yet to be visited, of which the first in the order of the code is
  taken, where they held a filtered sequence. The identity is written the same way
  (`Up`, `Foremost`).
- A path of the identity was there if it held something, even after one of the
  directories above it had become a file. `Present` now asks that all of them are
  directories. `NotFound` is told apart from other failures: only it lets a
  missing `packed-refs` pass without a limitation.
- What kind of Git input a file is was taken from the name of its directory, which
  a plugin may give to its own directories too; it is the kind of the frame that
  reads it, as in the code, and `WholeEntry` says which paths are hooks.
- The size of the pinned cache was a sum folded over its repositories; it is the
  number of its pairs of repository and object. In the same way the observations
  of a report are a set of pairs, and its counts by rule and class cardinalities,
  where both were folds; and the subtraction of a row saturates, as in the code.

- Several statements said more than the code does, because a case was missing.
  They now have it and name the exception: a stored snapshot that no reader
  loads (`Store`), a baseline of an identity without parts (`StatusAgreesWithScan`),
  a fetch cut off at its deadline (`StepFails`), entries named `.git` (`OfGit`), hooks
  behind a link (`LeadsOn`, `InOwn`), a plugin root that cannot be read
  (`RootUnavailable`). What is notified is what notify-send is given, and a base is
  as safe as the code checks (`LiveJobsAreKept`).

### 4.11 Model-checked only

- `HardenedIsRestored`: liveness, which needs fairness.
- Every property whose run is expected to be violated.

## 5. Findings

1. `UnresolvedRecordKept` (`overwrite`): `review_update` judges the record before it
   has the lock (1403-1464, lock at 1503) and stores its own at 1980 without
   looking again. An overlapping invocation overwrites another plugin's
   unresolved record, which the comment at 1405 says must never happen.
2. `UpdatesAreQuiesced` (`live_update`): whether to quiesce is decided from an
   inventory collected before the lock (1468, 1514), so the native update can
   run on a plugin enabled in between.
3. `OkClearsRecord` (`stale_record`): a retry whose candidate is already checked out
   returns Ok (1562) and leaves the record of which it has just printed that
   success replaces it (1454); it then blocks every other plugin.
4. `CounterIsUsable` (`torn_counter`): the generation counter is truncated in place
   and then written (`scan_snapshot.rs` 639-648). A kill in between leaves an empty
   file; every later reservation of the profile fails, although a skipped
   reservation is said to be harmless after a crash (213-214).
5. `RefusedIsUndone` (`undo`): after a successful native enable, an error of
   `resolve_override` (2900) or of the second decision's write (2915) returns before
   the undo (2921), and a shell query that fails makes `enabled` read false so that
   the undo is skipped; the comment at 2866-2868 promises to fail closed and undo.
6. `DriftRoundsRaiseNoGrowth` (`stale_inventory`): a scan takes a plugin's identity
   before it waits for the lock (3148, 3153) and analyses the directory after it
   (3540); a plugin updated meanwhile is judged as new content under its old
   identity, and growth is alerted that the comment at 3594 excludes.

Further observations, met while modelling, which contradict no text or which
the models leave out; they have no run.

- *Reviews*: `executable-review revoke` revokes the latest matching binding alone,
  and a later rejected review does not withdraw an earlier accepted one.
- *Enable and update*: a review-update that fails after the quiesce leaves the
  plugin disabled, and the retry does not enable it again, because it sees a
  plugin that was not live.
- *Snapshot cache*: a scan can store, and report as persisted, a snapshot that its
  reader rejects as corrupt. `new_count` counts new alerts with their duplicates
  (3817) where the alerts beside it have none (4141-4152), and the reader wants
  it no larger than those; the reader's limits on alerts and their fields
  (`scan_snapshot.rs` 393-425) are not the writer's, which looks at the bytes only
  (4257). An older scan may then replace what was stored.
- *Status*: a trusted plugin whose directory cannot be scanned has an identity
  without parts and without limitations, so `plugins status` says "unchanged"
  (6233) where the scan alerts about its coverage; `rebaseline` without expected
  values accepts such an identity (715-720, 5431-5442).
- *Notification*: a notify-send that fails or does not start is ignored
  (4494-4507), and the key of the alert is recorded all the same (4470-4472), so
  that no later scan repeats what was never shown.
- *Scans*: a scan with `--include-analysis` and without `--notify` absorbs growth, so
  that no later `--notify` scan mentions it; a corrupt trust history that such a
  scan set aside is not notified later. A marketplace cache that does not parse
  aborts a scan after notifications were sent and before the state is written.
- *Posture*: `checkupdates` that exits 1 or 2 while `pacman -Qu` reports updates
  discards the inventory (`lib.rs` 1118), so updates.omarchy says pass with an
  update pending. An sshd state that is not available counts as not applicable
  and the exit status of `pacman -Q` is ignored, where
  `docs/reference/omasafe-posture.md` has `incomplete` for missing, denied or
  malformed sources. A unit or ufw that could not be asked changes the grade.
  root_luks stops at the first root mount. A damaged loose ref falls back to a
  stale packed one. A kill between report and state makes the next report skip
  the exported one; of two overlapping scans the last writer wins, and the second
  may notify again what the first found.
- *Schedule*: a partial uninstall or a failed first install is refused later. A kill
  after the units are removed leaves `schedule.json` behind, and later uninstalls
  say that nothing is installed. An install that overlaps an uninstall can leave
  timers enabled without units. install takes XDG_CONFIG_HOME as it is,
  uninstall and status require it to be absolute.
- *Hook*: install overwrites a foreign `omasafe-post-update` hook; an update during
  the self-test makes it fail.
- *Workspaces*: an `omasafe` in the cache that others may write is accepted as
  part of the base, as long as it is no link (195-227, 272-276). Two sweepers, or
  a sweeper and a dropper, can make a sweep fail with NotFound. A job killed
  before its lock file exists, or whose lock a killed sweep has unlinked, is never
  swept.
- *Catalog*: an unparsable `catalog.meta.json` skips the rollback check; overlapping
  refreshes can record an older commit after a newer one (459, no lock).
- *Analysis cache*: a suppression file above 2 MiB is keyed by the one word
  "oversized" (7648-7665) while it is loaded and applied whatever its size, so a
  report may be served that was made before a suppression or a reinstatement; the
  model has readable files below that size. The identity is taken (7078) before
  the walk (7105), so that a report about other content may be stored and served
  under the old identity. `CachedReportIsOfTarget` in `Suppressions.tla` states
  what README.md:215 says of it; no run checks it.
- *Analysis*: an entry named `.git` is passed over at any depth without limitation
  (`ingest.rs` 185-192, a test wants it so), also where it is an ordinary file or
  directory of the plugin. The state of a truncated or sampled native binary is
  overwritten with Unsupported, so that its row calls the inventory complete. An
  unreadable script is a text file with a note and no gap. A file swapped for a
  FIFO between lstat and open blocks the walk, and a symlink swapped in there is
  followed. The return at the file limit leaves the current directory only. A file
  that grows is not held to `max_file_bytes`.
- *Review profile*: when findings are trimmed, the evidence_observations row is not
  updated, although `main.rs` 8411 speaks of exact omission arithmetic.
- *Pinned cache*: a fetch that is killed at its own deadline leaves what it wrote and
  returns before the quota is checked (`ingest.rs` 620, 629), so that the cache
  may stay over it; every later request is then refused. A `cat-file` that
  answered and an `fsck` that ran out of time remove a repository that is whole
  (571-592). A kill between `remove_dir_all` and `init` leaves a directory that
  every later call refuses until it is removed by hand.
- *Identity*: a `.git/hooks` that is a link to a directory is followed (`lib.rs`
  736), so that foreign files enter the identity, without limitation. The comment
  at `lib.rs` 696-700 ("Subsequent files hit the pre-read guard above and are
  never read") does not hold for Git inputs: one that crosses the aggregate leaves
  `total_bytes` below the limit, so that every later hook larger than the rest is
  read again. A sample may exceed the aggregate by half of itself. Names are
  normalised (lossy UTF-8, `\` to `/`), so two trees that differ only in this
  share a digest. A file that grows between lstat and read is not held to the
  limits. A plugin root that is itself named `.git` has an empty identity without
  limitation.
- *Inventory*: where the plugin root cannot be read, the active bars of the
  shell's own plugins are not counted either. The order of `read_dir` decides
  which of two directories that claim one id shows the shell's state. A directory
  whose manifest names another id than the shell plugin it took by name registers
  one active bar twice. Git commands there have no time bound, and `collect_one`
  does not register the bars of other directories.

## 6. Plan

No module that is proved about uses a RECURSIVE operator; each has one action
per operation, constants with named assumptions, an `MC` module and at most one
passing run. All modules of the plan exist, and of the safety properties the runs
check each has a theorem. What is left, most important
first:

1. EnableGate composed with ReviewUpdate over `live` and `installed`: the `Edit` of
   the one and the `Outside` of the other stand for each other now, and an enable
   between a quiesce and its verification is caught by neither.
2. A cache deleted under a running scan (the counter restarts while the in-flight
   scan keeps its large generation), composed with ScanCache.
3. The post-update hook, and the previews of the marketplace.
4. Liveness of the services: a drain that ends, a sweep that in the end removes
   every orphan with a lock file.

The runs are kept few: one or two passing runs per module, a violation run only
for a disagreement with a text of the repository.

## 7. What is not modelled

- *Detectors* (shell, script, QML): pure functions over text, of several thousand
  lines. What a detector finds in a file is a property of the file in
  `PayloadAnalysis`; lexers, data flow and patterns are left to the repository's
  corpus. *Rules, policy identity, fingerprints*: tables and digests, inputs here.
- *review-update*: analysis and policy of the candidate (a choice of the outcome),
  the preview's text.
- *Snapshot cache*: unsafe paths, deletion, expiry (which only adds reasons for
  "cached-stale"), and the alerts themselves (they are ScanAlerts).
- *Trust*: `diff`, which only prints. *Hook*: install and self-test.
- *Paths, URLs, rendering*: only the tests that decide something.
- *Packaging, release scripts, site, corpus*: not part of the running program.

Everywhere: file modes and fsync (a rename is atomic and durable), and a
modification time is assumed never to repeat for two writes of one file. The
locks of the platform are taken at their word.
