------------------------------ MODULE ScanCache ------------------------------
(***************************************************************************)
(* The cached result of `omasafe-cli scan`, for one scan profile (profiles *)
(* share no file): each element of Scan is an invocation of scan, each     *)
(* element of Reader one of `scan-cache show --validate`.  They meet on    *)
(* the profile's lock, generation counter and snapshot, and on the context *)
(* they observe, which other commands change at any moment.                *)
(*                                                                         *)
(* Simplifications, each one named:                                        *)
(*  - the context is the installed plugins, compared and witnessed by      *)
(*    content, and the state files (trust, marketplace, enforcement,       *)
(*    overrides), compared by content and witnessed by modification time,  *)
(*    which no two writes share;                                           *)
(*  - the alerts are left out.  Whether a stored result is one its own     *)
(*    reader admits depends on them (how many, how long, and on the new    *)
(*    ones, counted before duplicates are dropped) and is a choice here;   *)
(*  - a counter that does not parse, and a snapshot that is corrupt or of  *)
(*    another schema, are "Unreadable"; temporary files are left out;      *)
(*  - the locks of the state files are left out: files change more freely  *)
(*    here than in the program;                                            *)
(*  - the plugins are observed at once, the state files one at a time in   *)
(*    any order;                                                           *)
(*  - expiry (of an override, and so of a snapshot), a cache path of the   *)
(*    wrong type or owner, and a user who deletes the cache are left out.  *)
(***************************************************************************)
EXTENDS Naturals

CONSTANTS Scan,          \* invocations of scan
          Reader,        \* invocations of scan-cache show --validate
          Content,       \* contents of the plugin directory or of a file
          StateFile,     \* the state files of the context
          None,          \* absent file, unset local, free lock
          Unreadable,    \* present and not parseable
          MaxGeneration, \* GENERATION_COUNTER_MAX
          MaxChanges,    \* changes of the context
          MaxFaults      \* kills of a scan and failing file operations

Time     == 0..MaxChanges
Number   == 1..MaxGeneration
State    == [StateFile -> Content]
Snapshot == [gen : Number, plugins : Content, state : State, at : Time,
             fit : BOOLEAN]

ASSUME BoundsAreNaturals ==
    /\ MaxGeneration \in Nat \ {0} /\ MaxChanges \in Nat /\ MaxFaults \in Nat

ASSUME NoneIsFresh ==
    /\ None \notin Scan \cup Content \cup Time \cup Number \cup Snapshot
    /\ Unreadable \notin Number \cup Snapshot /\ Unreadable # None
    /\ Scan \cap Reader = {}

VARIABLES
    plugins,  \* content of the plugin directory
    state,    \* content of each state file
    mtime,    \* when each last changed
    clock,    \* changes of the context so far
    counter,  \* <profile>.generation
    snapshot, \* <profile>.json; "at", when it was collected, is auxiliary,
              \* and so is "fit", that its reader admits it
    rejected, \* auxiliary: scans that stored what no reader admits
    lock,     \* holder of <profile>.lock
    pc,       \* where each invocation stands
    gen,      \* generation a scan reserved
    began,    \* auxiliary: when it had reserved it
    at,       \* auxiliary: when it collected the plugins
    content,  \* plugins an invocation collected
    read,     \* state files it read
    cached,   \* snapshot a reader loaded
    before,   \* context a reader witnessed before it collected
    matched,  \* auxiliary: the context was the cached one when it collected
    budget    \* faults that remain

world  == <<plugins, state, mtime, clock>>
stored == <<snapshot, rejected>>
cache  == <<counter, stored>>
work   == <<gen, began, at>>
check  == <<cached, before, matched>>
vars   == <<world, cache, lock, pc, work, content, read, check, budget>>

Process == Scan \cup Reader
Blank   == [f \in StateFile |-> None]
Witnessed == [plugins : Content \cup {None}, mtime : [StateFile -> Time]]

ScanEnded == {"persisted", "unavailable", "dead"}
ScanPC    == {"start", "truncate", "write", "collect", "read", "replace",
              "rename"} \cup ScanEnded
ReaderEnded == {"missing", "valid", "stale", "raced", "unavailable"}
ReaderPC  == {"load", "witness", "witness_content", "collect", "read",
              "recheck", "recheck_content"} \cup ReaderEnded

ContextTyped ==
    /\ plugins \in Content
    /\ state \in State
    /\ mtime \in [StateFile -> Time]
    /\ clock \in Time

CacheTyped ==
    /\ counter \in Number \cup {None, Unreadable}
    /\ snapshot \in Snapshot \cup {None, Unreadable}
    /\ rejected \in SUBSET Scan
    /\ lock \in Scan \cup {None}

LocalsTyped ==
    /\ pc \in [Process -> ScanPC \cup ReaderPC]
    /\ \A s \in Scan : pc[s] \in ScanPC
    /\ \A v \in Reader : pc[v] \in ReaderPC
    /\ gen \in [Scan -> Number \cup {None}]
    /\ began \in [Scan -> Time]
    /\ at \in [Scan -> Time]
    /\ content \in [Process -> Content \cup {None}]
    /\ read \in [Process -> [StateFile -> Content \cup {None}]]
    /\ cached \in [Reader -> Snapshot \cup {None}]
    /\ before \in [Reader -> Witnessed \cup {None}]
    /\ matched \in [Reader -> BOOLEAN]

TypeOK ==
    /\ ContextTyped /\ CacheTyped /\ LocalsTyped
    /\ budget \in 0..MaxFaults

\* A fresh cache, or one an incompatible release or damage left unreadable.
\* Contents of different files are never compared: let all start alike.
Init ==
    /\ plugins \in Content
    /\ state = [f \in StateFile |-> plugins]
    /\ mtime = [f \in StateFile |-> 0]
    /\ clock = 0
    /\ \/ counter = None /\ snapshot = None
       \/ counter \in {1, 2} \cap Number /\ snapshot = Unreadable
    /\ rejected = {}
    /\ lock = None
    /\ pc = [p \in Process |-> IF p \in Scan THEN "start" ELSE "load"]
    /\ gen = [s \in Scan |-> None]
    /\ began = [s \in Scan |-> 0]
    /\ at = [s \in Scan |-> 0]
    /\ content = [p \in Process |-> None]
    /\ read = [p \in Process |-> Blank]
    /\ cached = [v \in Reader |-> None]
    /\ before = [v \in Reader |-> None]
    /\ matched = [v \in Reader |-> FALSE]
    /\ budget = MaxFaults

At(p, here) == pc[p] = here
Go(p, next) == pc' = [pc EXCEPT ![p] = next]

-----------------------------------------------------------------------------
(* reserve_generation: before any scan work, under the profile's lock *)

\* Twenty attempts 25 ms apart, then LockBusy: the scan goes on uncached.
ReserveBusy(s) ==
    /\ At(s, "start")
    /\ lock # None
    /\ Go(s, "collect")
    /\ UNCHANGED <<world, cache, lock, work, content, read, check, budget>>

\* A missing counter starts at 1.
NextNumber == IF counter = None THEN 1 ELSE counter

\* Malformed or exhausted counter: the scan goes on uncached as well.
ReserveRefused(s) ==
    /\ At(s, "start")
    /\ lock = None
    /\ counter = Unreadable \/ NextNumber = MaxGeneration
    /\ Go(s, "collect")
    /\ UNCHANGED <<world, cache, lock, work, content, read, check, budget>>

\* Mutant: the counter is read without the lock.
ReadCounterUnlocked(s) ==
    /\ At(s, "start")
    /\ counter # Unreadable /\ NextNumber # MaxGeneration
    /\ gen' = [gen EXCEPT ![s] = NextNumber]
    /\ Go(s, "truncate")
    /\ UNCHANGED <<world, cache, lock, began, at, content, read, check,
                   budget>>

\* Mutant: the largest number is handed out too.
ReadLastCounter(s) ==
    /\ At(s, "start")
    /\ lock = None
    /\ counter # Unreadable
    /\ lock' = s
    /\ gen' = [gen EXCEPT ![s] = NextNumber]
    /\ Go(s, "truncate")
    /\ UNCHANGED <<world, cache, began, at, content, read, check, budget>>

ReadCounter(s) ==
    /\ At(s, "start")
    /\ lock = None
    /\ counter # Unreadable /\ NextNumber # MaxGeneration
    /\ lock' = s
    /\ gen' = [gen EXCEPT ![s] = NextNumber]
    /\ Go(s, "truncate")
    /\ UNCHANGED <<world, cache, began, at, content, read, check, budget>>

\* write_private_file opens with O_TRUNC, then writes.
TruncateCounter(s) ==
    /\ At(s, "truncate")
    /\ counter' = Unreadable
    /\ Go(s, "write")
    /\ UNCHANGED <<world, stored, lock, work, content, read, check, budget>>

WriteCounter(s) ==
    /\ At(s, "write")
    /\ counter' = gen[s] + 1
    /\ lock' = None
    /\ began' = [began EXCEPT ![s] = clock]
    /\ Go(s, "collect")
    /\ UNCHANGED <<world, stored, gen, at, content, read, check, budget>>

\* The write or its sync fails: the scan goes on uncached.
WriteCounterFails(s) ==
    /\ At(s, "write")
    /\ budget > 0
    /\ budget' = budget - 1
    /\ counter' \in {Unreadable, gen[s] + 1}
    /\ gen' = [gen EXCEPT ![s] = None]
    /\ lock' = None
    /\ Go(s, "collect")
    /\ UNCHANGED <<world, stored, began, at, content, read, check>>

-----------------------------------------------------------------------------
(* Scan work: the context is read piece by piece *)

Collect(s) ==
    /\ At(s, "collect")
    /\ content' = [content EXCEPT ![s] = plugins]
    /\ at' = [at EXCEPT ![s] = clock]
    /\ Go(s, "read")
    /\ UNCHANGED <<world, cache, lock, gen, began, read, check, budget>>

\* One of the state files not read so far.
ReadFile(p, f) ==
    /\ At(p, "read")
    /\ read[p][f] = None
    /\ read' = [read EXCEPT ![p][f] = state[f]]
    /\ UNCHANGED <<world, cache, lock, pc, work, content, check, budget>>

AllRead(p) == \A f \in StateFile : read[p][f] # None

ScanDone(s) ==
    /\ At(s, "read")
    /\ AllRead(s)
    /\ gen[s] # None
    /\ Go(s, "replace")
    /\ UNCHANGED <<world, cache, lock, work, content, read, check, budget>>

\* Nothing is stored without a generation, after a state file was set aside
\* as corrupt, or when the snapshot exceeds its size limit.
ScanUncached(s) ==
    /\ At(s, "read")
    /\ AllRead(s)
    /\ Go(s, "unavailable")
    /\ UNCHANGED <<world, cache, lock, work, content, read, check, budget>>

-----------------------------------------------------------------------------
(* replace_snapshot: guarded by the generation, under the profile's lock *)

\* read_snapshot and validate_snapshot: one that is absent, unparseable, of
\* another schema, producer or profile, or out of its bounds, is not loaded.
Loadable == snapshot \in Snapshot /\ snapshot.fit

ReplaceBusy(s) ==
    /\ At(s, "replace")
    /\ lock # None
    /\ Go(s, "unavailable")
    /\ UNCHANGED <<world, cache, lock, work, content, read, check, budget>>

\* Ok(false): the newer snapshot stays, and the scan reports "persisted".
Superseded(s) ==
    /\ At(s, "replace")
    /\ lock = None
    /\ Loadable /\ snapshot.gen >= gen[s]
    /\ Go(s, "persisted")
    /\ UNCHANGED <<world, cache, lock, work, content, read, check, budget>>

\* Mutant: whoever comes last wins.
CompareNothing(s) ==
    /\ At(s, "replace")
    /\ lock = None
    /\ lock' = s
    /\ Go(s, "rename")
    /\ UNCHANGED <<world, cache, work, content, read, check, budget>>

Compare(s) ==
    /\ At(s, "replace")
    /\ lock = None
    /\ Loadable => snapshot.gen < gen[s]
    /\ lock' = s
    /\ Go(s, "rename")
    /\ UNCHANGED <<world, cache, work, content, read, check, budget>>

Result(s, fit) == [gen |-> gen[s], plugins |-> content[s],
                   state |-> read[s], at |-> at[s], fit |-> fit]

\* The writer looks at the size in bytes only: a result with too many alerts
\* or decisions, an over-long alert, or more new alerts than alerts (the new
\* ones are counted with their duplicates) is stored and never loaded.
Store(s) ==
    \E fit \in BOOLEAN :
        /\ snapshot' = Result(s, fit)
        /\ rejected' = IF fit THEN rejected ELSE rejected \cup {s}

Rename(s) ==
    /\ At(s, "rename")
    /\ Store(s)
    /\ lock' = None
    /\ Go(s, "persisted")
    /\ UNCHANGED <<world, counter, work, content, read, check, budget>>

\* Storing fails before the rename, or syncing the directory after it.
RenameFails(s) ==
    /\ At(s, "rename")
    /\ budget > 0
    /\ budget' = budget - 1
    /\ Store(s) \/ UNCHANGED stored
    /\ lock' = None
    /\ Go(s, "unavailable")
    /\ UNCHANGED <<world, counter, work, content, read, check>>

-----------------------------------------------------------------------------
(* scan-cache show --validate *)

Load(v) ==
    /\ At(v, "load")
    /\ \/ /\ Loadable
          /\ cached' = [cached EXCEPT ![v] = snapshot]
          /\ Go(v, "witness")
       \/ /\ ~Loadable
          /\ Go(v, "missing")
          /\ UNCHANGED cached
    /\ UNCHANGED <<world, cache, lock, work, content, read, before, matched,
                   budget>>

\* validation_witness: modification times of the state files.
Witness(v) ==
    /\ At(v, "witness")
    /\ before' = [before EXCEPT ![v] = [plugins |-> None, mtime |-> mtime]]
    /\ Go(v, "witness_content")
    /\ UNCHANGED <<world, cache, lock, work, content, read, cached, matched,
                   budget>>

\* plugin_content_witness: the plugins' content.
WitnessContent(v) ==
    /\ At(v, "witness_content")
    /\ before' = [before EXCEPT ![v] = [plugins |-> plugins,
                                        mtime |-> before[v].mtime]]
    /\ Go(v, "collect")
    /\ UNCHANGED <<world, cache, lock, work, content, read, cached, matched,
                   budget>>

\* What is collected here is compared with the snapshot in the end.
Recollect(v) ==
    /\ At(v, "collect")
    /\ content' = [content EXCEPT ![v] = plugins]
    /\ matched' = [matched EXCEPT ![v] = /\ plugins = cached[v].plugins
                                         /\ state = cached[v].state]
    /\ Go(v, "read")
    /\ UNCHANGED <<world, cache, lock, work, read, cached, before, budget>>

ContextRead(v) ==
    /\ At(v, "read")
    /\ AllRead(v)
    /\ Go(v, "recheck")
    /\ UNCHANGED <<world, cache, lock, work, content, read, check, budget>>

\* A state file is locked by its writer, oversized or malformed.
ValidationUnavailable(v) ==
    /\ At(v, "read")
    /\ Go(v, "unavailable")
    /\ UNCHANGED <<world, cache, lock, work, content, read, check, budget>>

\* Mutant: the modification times are not looked at again.
RecheckNothing(v) ==
    /\ At(v, "recheck")
    /\ Go(v, "recheck_content")
    /\ UNCHANGED <<world, cache, lock, work, content, read, check, budget>>

Recheck(v) ==
    /\ At(v, "recheck")
    /\ Go(v, IF mtime = before[v].mtime THEN "recheck_content" ELSE "raced")
    /\ UNCHANGED <<world, cache, lock, work, content, read, check, budget>>

Answer(v) ==
    /\ At(v, "recheck_content")
    /\ Go(v, IF plugins # before[v].plugins THEN "raced"
             ELSE IF /\ content[v] = cached[v].plugins
                     /\ read[v] = cached[v].state
                  THEN "valid" ELSE "stale")
    /\ UNCHANGED <<world, cache, lock, work, content, read, check, budget>>

-----------------------------------------------------------------------------
(* Environment *)

ChangePlugins ==
    /\ clock < MaxChanges
    /\ clock' = clock + 1
    /\ plugins' \in Content \ {plugins}
    /\ UNCHANGED <<state, mtime, cache, lock, pc, work, content, read, check,
                   budget>>

\* Another command replaces a state file.
ChangeState(f) ==
    /\ clock < MaxChanges
    /\ clock' = clock + 1
    /\ \E c \in Content \ {state[f]} : state' = [state EXCEPT ![f] = c]
    /\ mtime' = [mtime EXCEPT ![f] = clock + 1]
    /\ UNCHANGED <<plugins, cache, lock, pc, work, content, read, check,
                   budget>>

\* Killed at any step, or failing on a state file; the lock is dropped.  A
\* number whose reservation was cut short never was one.
Kill(s) ==
    /\ pc[s] \notin ScanEnded
    /\ budget > 0
    /\ budget' = budget - 1
    /\ Go(s, "dead")
    /\ lock' = IF lock = s THEN None ELSE lock
    /\ gen' = IF pc[s] \in {"truncate", "write"}
              THEN [gen EXCEPT ![s] = None] ELSE gen
    /\ UNCHANGED <<world, cache, began, at, content, read, check>>

Reserve(s) ==
    \/ ReserveBusy(s) \/ ReserveRefused(s) \/ ReadCounter(s)
    \/ TruncateCounter(s) \/ WriteCounter(s) \/ WriteCounterFails(s)

Observe(s) ==
    \/ Collect(s) \/ (\E f \in StateFile : ReadFile(s, f))
    \/ ScanDone(s) \/ ScanUncached(s)

Replace(s) ==
    \/ ReplaceBusy(s) \/ Superseded(s) \/ Compare(s)
    \/ Rename(s) \/ RenameFails(s)

Validate(v) ==
    \/ Load(v) \/ Witness(v) \/ WitnessContent(v) \/ Recollect(v)
    \/ (\E f \in StateFile : ReadFile(v, f))
    \/ ContextRead(v) \/ ValidationUnavailable(v) \/ Recheck(v) \/ Answer(v)

Change == ChangePlugins \/ \E f \in StateFile : ChangeState(f)

\* Every invocation has answered.
Finished ==
    /\ \A s \in Scan : pc[s] \in ScanEnded
    /\ \A v \in Reader : pc[v] \in ReaderEnded
    /\ UNCHANGED vars

Next ==
    \/ \E s \in Scan : Reserve(s) \/ Observe(s) \/ Replace(s) \/ Kill(s)
    \/ \E v \in Reader : Validate(v)
    \/ Change
    \/ Finished

Spec == Init /\ [][Next]_vars

-----------------------------------------------------------------------------
(* What the cache promises *)

\* "Reusing a number is not" harmless: no two scans that go on with a
\* generation have the same one, whatever is killed in between.
GenerationsAreUnique ==
    \A s, t \in Scan : s # t /\ gen[s] # None => gen[s] # gen[t]

\* A snapshot a reader would load is never replaced by an older scan that
\* ends last.  One no reader would load is forgotten with its number, and any
\* scan replaces it.
SnapshotAdvances ==
    [][stored' # stored /\ Loadable =>
         snapshot' \in Snapshot /\ snapshot'.gen > snapshot.gen]_vars

\* Once a scan reports "persisted", and from then on, there is a result to
\* load and it was collected after the scan had begun, unless that scan or a
\* later one stored a result its own reader rejects.
PersistedIsCached ==
    \A s \in Scan : pc[s] = "persisted" =>
        \/ Loadable /\ snapshot.at >= began[s]
        \/ \E t \in rejected : gen[t] >= gen[s]

\* "cached-valid" is answered only if the context the snapshot describes, all
\* of it at once, was the actual one when the validation collected the plugins.
ValidWasTrue == \A v \in Reader : pc[v] = "valid" => matched[v]

(* A promise the source makes that the runs refute *)

\* "A skipped reservation is harmless after a crash": whenever nobody is
\* writing the counter, the next reservation finds one it can use.
CounterIsUsable == lock = None => counter # Unreadable

=============================================================================
