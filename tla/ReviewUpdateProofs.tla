------------------------- MODULE ReviewUpdateProofs -------------------------
(***************************************************************************)
(* Machine-checked theorems about ReviewUpdate, for any number of plugins, *)
(* commits, invocations, overlaps, kills, signals and foreign writes.      *)
(***************************************************************************)
EXTENDS ReviewUpdate, FiniteSetTheorems, TLAPS

USE NoneIsFresh

-----------------------------------------------------------------------------
(* Type correctness.  TypeOK is not inductive by itself: an amended record, *)
(* a restored config and a rewritten history are typed only because the     *)
(* invocation that writes them has read or built them before.               *)

HasRecord ==
    {"reconcile_read", "reconcile_restore", "reconcile_store",
     "reconcile_remove"}
        \cup BeforeVerified \cup Verified
HasOriginal ==
    {"reconcile_restore", "store_pointer", "harden", "update", "restore"}

Equipped(r) ==
    /\ Active(r) => arg[r] \in Arguments
    /\ pc[r] \in HasRecord => rec[r] \in FlowRecord
    /\ pc[r] \in HasOriginal => original[r] \in Bytes
    /\ pc[r] \in Locked => history[r] \in [Plugin -> Identity \cup {None}]

TypeInv == TypeOK /\ \A r \in Run : Equipped(r)

\* What every step below speaks of: the parts of the invariant, where a
\* process may stand, and the tuples UNCHANGED is stated with.
USE DEF TypeInv, TypeOK, ControlTyped, MemoryTyped, DiskTyped, HostTyped,
        HistoryTyped, Equipped, HasRecord, HasOriginal, PC, Locked, Unlocked,
        BeforeVerified, Verified, Ended, Active, locals, disk, host, At, Go

\* A recovery record stays one whatever field a step amends.
LEMMA Amended ==
    ASSUME NEW f \in FlowRecord
    PROVE  /\ \A b \in BOOLEAN : /\ [f EXCEPT !.pointer = b] \in FlowRecord
                                /\ [f EXCEPT !.quiesced = b] \in FlowRecord
           /\ \A ph \in Phase :
                 /\ [f EXCEPT !.phase = ph] \in FlowRecord
                 /\ \A b \in BOOLEAN :
                       [f EXCEPT !.pointer = b, !.phase = ph] \in FlowRecord
  BY DEF FlowRecord

\* A bound that is not used up can be spent.
LEMMA Spent ==
    ASSUME budget \in Budget
    PROVE  /\ budget.faults > 0 => [budget EXCEPT !.faults = @ - 1] \in Budget
           /\ budget.signals > 0 => [budget EXCEPT !.signals = @ - 1] \in Budget
           /\ budget.edits > 0 => [budget EXCEPT !.edits = @ - 1] \in Budget
           /\ budget.rebaselines > 0 =>
                 [budget EXCEPT !.rebaselines = @ - 1] \in Budget
  BY BoundsAreNaturals DEF Budget

\* Persisting a decision keeps the decisions typed.
LEMMA Recorded ==
    ASSUME TypeInv, NEW r \in Run, arg[r] \in Arguments,
           NEW v \in {"preview", "passed", "failed"}, Decide(r, v)
    PROVE  decision' \in [Plugin -> Decision \cup {None}]
  BY DEF Decide, Decision, Plug, Cand, Arguments

\* Storing a record keeps it in memory and on disk, and touches no other run's.
LEMMA StoreTyped ==
    ASSUME TypeInv, NEW r \in Run, NEW f \in FlowRecord, Store(r, f)
    PROVE  /\ rec' \in [Run -> FlowRecord \cup {None}]
           /\ flow' \in FlowRecord
           /\ rec'[r] = f
           /\ \A s \in Run \ {r} : rec'[s] = rec[s]
  BY DEF Store

\* An invocation that ends leaves control and memory typed.
LEMMA ExitTyped ==
    ASSUME TypeInv, NEW r \in Run, NEW how \in Ended, Exit(r, how)
    PROVE  ControlTyped' /\ MemoryTyped' /\ \A s \in Run : Equipped(s)'
<1>1. ControlTyped' /\ MemoryTyped'
  BY DEF Exit
<1>2. ASSUME NEW s \in Run PROVE Equipped(s)'
  BY DEF Exit
<1>3. QED
  BY <1>1, <1>2

\* Moving on with what is at hand keeps control and memory typed.
LEMMA GoTyped ==
    ASSUME TypeInv, NEW r \in Run, NEW q \in PC, Go(r, q), Active(r),
           q \in HasRecord => pc[r] \in HasRecord,
           q \in HasOriginal => pc[r] \in HasOriginal,
           q \in Locked => pc[r] \in Locked,
           UNCHANGED <<locals, signalled, lock>>
    PROVE  ControlTyped' /\ MemoryTyped' /\ \A s \in Run : Equipped(s)'
<1>1. ControlTyped' /\ MemoryTyped'
  OBVIOUS
<1>2. ASSUME NEW s \in Run PROVE Equipped(s)'
  OBVIOUS
<1>3. QED
  BY <1>1, <1>2

\* Reading the record, reconciling, pre-flight and lock.
LEMMA RecoverTyped ==
    ASSUME TypeInv, NEW r \in Run, Recover(r)
    PROVE  TypeInv'
<1>1. CASE LoadRecord(r)
  <2>1. CASE flow = None
    <3>1. /\ Go(r, "inventory")
          /\ UNCHANGED <<locals, signalled, lock, disk, host, approved, budget>>
      BY <1>1, <2>1 DEF LoadRecord
    <3>2. QED
      BY <1>1, <3>1 DEF LoadRecord
  <2>2. CASE flow = Unreadable
    <3>1. Exit(r, "err") /\ UNCHANGED <<disk, host, approved, budget>>
      BY <1>1, <2>2 DEF LoadRecord
    <3>2. QED
      BY <3>1, ExitTyped
  <2>3. CASE flow \in FlowRecord /\ flow.pointer
    <3>1. /\ rec' = [rec EXCEPT ![r] = flow]
          /\ Go(r, "reconcile_read")
          /\ UNCHANGED <<arg, seen, original, ident, updated, history,
                         signalled, lock, disk, host, approved, budget>>
      BY <1>1, <2>3 DEF LoadRecord, Keep
    <3>2. ControlTyped' /\ MemoryTyped'
      BY <2>3, <3>1
    <3>3. ASSUME NEW s \in Run PROVE Equipped(s)'
      BY <1>1, <2>3, <3>1 DEF LoadRecord
    <3>4. QED
      BY <3>1, <3>2, <3>3
  <2>4. CASE flow \in FlowRecord /\ ~flow.pointer
    <3>1. /\ GoOrErr(r, flow.plugin = Plug(r), "inventory")
          /\ UNCHANGED <<disk, host, approved, budget>>
      BY <1>1, <2>4 DEF LoadRecord
    <3>2. CASE Exit(r, "err")
      BY <3>1, <3>2, ExitTyped
    <3>3. CASE Go(r, "inventory") /\ UNCHANGED <<locals, signalled, lock>>
      BY <1>1, <3>1, <3>3 DEF LoadRecord
    <3>4. QED
      BY <3>1, <3>2, <3>3 DEF GoOrErr
  <2>5. QED
    BY <2>1, <2>2, <2>3, <2>4
<1>2. CASE ReconcileRead(r)
  <2>1. CASE backup = None
    BY <1>2, <2>1, ExitTyped DEF ReconcileRead
  <2>2. CASE backup # None
    <3>1. /\ original' = [original EXCEPT ![r] = backup]
          /\ Go(r, "reconcile_restore") /\ pc[r] = "reconcile_read"
          /\ UNCHANGED <<arg, seen, rec, ident, updated, history, signalled,
                         lock, disk, host, approved, budget>>
      BY <1>2, <2>2 DEF ReconcileRead
    <3>2. original' \in [Run -> Bytes \cup {None}] /\ original'[r] \in Bytes
      BY <2>2, <3>1
    <3>3. ASSUME NEW s \in Run PROVE Equipped(s)'
      BY <3>1, <3>2
    <3>4. QED
      BY <3>1, <3>2, <3>3
  <2>3. QED
    BY <2>1, <2>2
<1>3. CASE ReconcileRestore(r)
  BY <1>3 DEF ReconcileRestore, WriteConfig
<1>4. CASE ReconcileStore(r)
  <2>1. rec[r] \in FlowRecord
    BY <1>4 DEF ReconcileStore
  <2>2. [rec[r] EXCEPT !.pointer = FALSE] \in FlowRecord
    BY <2>1, Amended
  <2>3. /\ rec' \in [Run -> FlowRecord \cup {None}] /\ flow' \in FlowRecord
        /\ rec'[r] \in FlowRecord
        /\ \A s \in Run \ {r} : rec'[s] = rec[s]
    BY <1>4, <2>2, StoreTyped DEF ReconcileStore
  <2>4. ASSUME NEW s \in Run PROVE Equipped(s)'
    BY <1>4, <2>3 DEF ReconcileStore
  <2>5. QED
    BY <1>4, <2>3, <2>4 DEF ReconcileStore
<1>5. CASE ReconcileRemove(r)
  <2>1. /\ backup' = None
        /\ UNCHANGED <<flow, trust, decision, host, approved, budget>>
    BY <1>5 DEF ReconcileRemove
  <2>2. CASE Exit(r, "err")
    BY <2>1, <2>2, ExitTyped
  <2>3. CASE Go(r, "inventory") /\ UNCHANGED <<locals, signalled, lock>>
    BY <1>5, <2>1, <2>3 DEF ReconcileRemove
  <2>4. QED
    BY <1>5, <2>2, <2>3 DEF ReconcileRemove, GoOrErr
<1>6. CASE Inventory(r)
  <2>1. CASE installed[Plug(r)].tree = "dirty"
    BY <1>6, <2>1, ExitTyped DEF Inventory
  <2>2. CASE installed[Plug(r)].tree # "dirty"
    <3>1. Plug(r) \in Plugin
      BY <1>6 DEF Inventory, Plug, Arguments
    <3>2. [head |-> installed[Plug(r)].head, live |-> live[Plug(r)]]
             \in [head : Commit, live : BOOLEAN]
      BY <3>1 DEF Identity
    <3>3. seen' \in [Run -> [head : Commit, live : BOOLEAN] \cup {None}]
      BY <1>6, <2>2, <3>2 DEF Inventory
    <3>4. Go(r, "lock") /\ UNCHANGED <<arg, rec, original, ident, updated,
                                       history, signalled, lock>>
      BY <1>6, <2>2 DEF Inventory
    <3>5. QED
      BY <1>6, <3>3, <3>4 DEF Inventory
  <2>3. QED
    BY <2>1, <2>2
<1>7. CASE AcquireLock(r)
  <2>1. CASE trust[Plug(r)] = None
    BY <1>7, <2>1, ExitTyped DEF AcquireLock
  <2>2. CASE trust[Plug(r)] # None
    <3>1. /\ history' \in [Run -> [Plugin -> Identity \cup {None}] \cup {None}]
          /\ history'[r] = trust
      BY <1>7, <2>2 DEF AcquireLock
    <3>2. ControlTyped' /\ MemoryTyped'
      BY <1>7, <2>2, <3>1 DEF AcquireLock
    <3>3. ASSUME NEW s \in Run PROVE Equipped(s)'
      BY <1>7, <2>2, <3>1 DEF AcquireLock
    <3>4. QED
      BY <1>7, <3>2, <3>3 DEF AcquireLock
  <2>3. QED
    BY <2>1, <2>2
<1>8. CASE LockBusy(r)
  BY <1>8, ExitTyped DEF LockBusy
<1>9. QED
  BY <1>1, <1>2, <1>3, <1>4, <1>5, <1>6, <1>7, <1>8 DEF Recover

\* Resolving, evaluating and approving the candidate.
LEMMA ReviewTyped ==
    ASSUME TypeInv, NEW r \in Run, Review(r)
    PROVE  TypeInv'
<1>1. CASE NothingToUpdate(r)
  BY <1>1, ExitTyped DEF NothingToUpdate
<1>2. CASE ResolveCandidate(r)
  BY <1>2 DEF ResolveCandidate
<1>3. CASE CandidateRefused(r)
  BY <1>3, ExitTyped DEF CandidateRefused
<1>4. CASE Evaluate(r)
  <2>1. decision' \in [Plugin -> Decision \cup {None}]
    BY <1>4, Recorded DEF Evaluate
  <2>2. PICK blocked \in BOOLEAN : GoOrErr(r, ~blocked, "approve")
    BY <1>4 DEF Evaluate
  <2>3. CASE blocked
    BY <1>4, <2>1, <2>2, <2>3, ExitTyped DEF Evaluate, GoOrErr
  <2>4. CASE ~blocked
    <3>1. Go(r, "approve") /\ UNCHANGED <<locals, signalled, lock>>
      BY <2>2, <2>4 DEF GoOrErr
    <3>2. QED
      BY <1>4, <2>1, <3>1 DEF Evaluate
  <2>5. QED
    BY <2>3, <2>4
<1>5. CASE Approve(r)
  <2>1. Plug(r) \in Plugin /\ Cand(r) \in Commit
    BY <1>5 DEF Approve, Plug, Cand, Arguments
  <2>2. <<Plug(r), Reviewed(Cand(r))>> \in Plugin \X Identity
    BY <2>1 DEF Reviewed, Identity, Tree
  <2>3. QED
    BY <1>5, <2>2 DEF Approve
<1>6. CASE Reject(r)
  BY <1>6, ExitTyped DEF Reject
<1>7. CASE InterruptionCheckpoint(r)
  BY <1>7, ExitTyped DEF InterruptionCheckpoint
<1>8. QED
  BY <1>1, <1>2, <1>3, <1>4, <1>5, <1>6, <1>7 DEF Review

\* From the recovery record to the outcome of the native update.
LEMMA DelegateTyped ==
    ASSUME TypeInv, NEW r \in Run, Delegate(r)
    PROVE  TypeInv'
<1>1. CASE StoreRecord(r)
  <2>1. [plugin |-> Plug(r), by |-> r, phase |-> "quiescing",
         pointer |-> FALSE, quiesced |-> FALSE] \in FlowRecord
    BY <1>1 DEF StoreRecord, FlowRecord, Phase, Arguments, Plug
  <2>2. QED
    BY <1>1, <2>1, StoreTyped DEF StoreRecord
<1>2. CASE Quiesce(r)
  <2>1. rec[r] \in FlowRecord
    BY <1>2 DEF Quiesce
  <2>2. [rec[r] EXCEPT !.quiesced = TRUE] \in FlowRecord
    BY <2>1, Amended
  <2>3. PICK works \in BOOLEAN, stops \in BOOLEAN :
           /\ live' = [live EXCEPT ![Plug(r)] = @ /\ ~stops]
           /\ Keep(r, [rec[r] EXCEPT !.quiesced = TRUE])
           /\ Go(r, IF works THEN "store_quiesced" ELSE "fail_store")
    BY <1>2 DEF Quiesce
  <2>4. live' \in [Plugin -> BOOLEAN]
    BY <2>3
  <2>5. ControlTyped' /\ MemoryTyped'
    BY <1>2, <2>2, <2>3 DEF Quiesce, Keep
  <2>6. ASSUME NEW s \in Run PROVE Equipped(s)'
    BY <1>2, <2>2, <2>3 DEF Quiesce, Keep
  <2>7. QED
    BY <1>2, <2>4, <2>5, <2>6 DEF Quiesce
<1>3. CASE NotLive(r)
  BY <1>3 DEF NotLive
<1>4. CASE StoreQuiesced(r)
  BY <1>4 DEF StoreQuiesced, Store
<1>5. CASE StorePhase(r)
  <2>1. \A phase \in Phase : [rec[r] EXCEPT !.phase = phase] \in FlowRecord
    BY <1>5, Amended DEF StorePhase, EnterPhase
  <2>2. /\ [rec[r] EXCEPT !.phase = "auditing"] \in FlowRecord
        /\ [rec[r] EXCEPT !.phase = "delegating"] \in FlowRecord
        /\ [rec[r] EXCEPT !.phase = "verifying"] \in FlowRecord
    BY <2>1 DEF Phase
  <2>3. CASE EnterPhase(r, "store_auditing", "auditing", "audit")
    BY <1>5, <2>2, <2>3, StoreTyped DEF StorePhase, EnterPhase
  <2>4. CASE EnterPhase(r, "store_delegating", "delegating", "backup")
    BY <1>5, <2>2, <2>4, StoreTyped DEF StorePhase, EnterPhase
  <2>5. CASE EnterPhase(r, "store_verifying", "verifying", "rescan")
    BY <1>5, <2>2, <2>5, StoreTyped DEF StorePhase, EnterPhase
  <2>6. QED
    BY <1>5, <2>3, <2>4, <2>5 DEF StorePhase
<1>6. CASE AuditBefore(r)
  BY <1>6 DEF AuditBefore, AuditPasses, BenignConfig
<1>7. CASE WriteBackup(r)
  <2>1. config[Plug(r)] \in Bytes
    BY <1>7 DEF WriteBackup, Plug, Arguments
  <2>2. QED
    BY <1>7, <2>1 DEF WriteBackup
<1>8. CASE StorePointer(r)
  <2>1. rec[r] \in FlowRecord
    BY <1>8 DEF StorePointer
  <2>2. [rec[r] EXCEPT !.pointer = TRUE] \in FlowRecord
    BY <2>1, Amended
  <2>3. QED
    BY <1>8, <2>2, StoreTyped DEF StorePointer
<1>9. CASE Harden(r)
  <2>1. Hardened(Plug(r)) \in Bytes
    BY <1>9 DEF Harden, Hardened, Bytes, Plug, Arguments
  <2>2. ControlTyped' /\ MemoryTyped' /\ \A s \in Run : Equipped(s)'
    BY <1>9, GoTyped DEF Harden
  <2>3. DiskTyped' /\ HostTyped' /\ HistoryTyped'
    BY <1>9, <2>1 DEF Harden
  <2>4. QED
    BY <2>2, <2>3
<1>10. CASE NativeUpdate(r)
  <2>1. PICK c \in Commit, ok \in BOOLEAN, t \in Tree :
           /\ installed' = [installed EXCEPT
                              ![Plug(r)] = [head |-> c, tree |-> t]]
           /\ updated' = [updated EXCEPT ![r] = ok]
    BY <1>10 DEF NativeUpdate
  <2>2. [head |-> c, tree |-> t] \in Identity
    BY DEF Identity
  <2>3. installed' \in [Plugin -> Identity] /\ updated' \in [Run -> BOOLEAN]
    BY <2>1, <2>2
  <2>4. ControlTyped' /\ MemoryTyped'
    BY <1>10, <2>3 DEF NativeUpdate
  <2>5. ASSUME NEW s \in Run PROVE Equipped(s)'
    BY <1>10 DEF NativeUpdate
  <2>6. QED
    BY <1>10, <2>3, <2>4, <2>5 DEF NativeUpdate
<1>11. CASE RestoreConfig(r)
  <2>1. ControlTyped' /\ MemoryTyped' /\ \A s \in Run : Equipped(s)'
    BY <1>11, GoTyped DEF RestoreConfig
  <2>2. DiskTyped' /\ HostTyped' /\ HistoryTyped'
    BY <1>11 DEF RestoreConfig, WriteConfig
  <2>3. QED
    BY <2>1, <2>2
<1>12. CASE ClearPointer(r)
  <2>1. rec[r] \in FlowRecord
    BY <1>12 DEF ClearPointer
  <2>2. [rec[r] EXCEPT !.pointer = FALSE] \in FlowRecord
    BY <2>1, Amended
  <2>3. QED
    BY <1>12, <2>2, StoreTyped DEF ClearPointer
<1>13. CASE RemoveBackup(r)
  BY <1>13 DEF RemoveBackup
<1>14. CASE TamperedDecision(r)
  BY <1>14, Recorded DEF TamperedDecision
<1>15. CASE TamperedStore(r)
  <2>1. rec[r] \in FlowRecord
    BY <1>15 DEF TamperedStore
  <2>2. [rec[r] EXCEPT !.pointer = FALSE, !.phase = "failed"] \in FlowRecord
    BY <2>1, Amended DEF Phase
  <2>3. QED
    BY <1>15, <2>2, StoreTyped DEF TamperedStore
<1>16. CASE TamperedRemove(r)
  BY <1>16, ExitTyped DEF TamperedRemove
<1>17. CASE UpdateOutcome(r)
  <2>1. ControlTyped' /\ MemoryTyped' /\ \A s \in Run : Equipped(s)'
    BY <1>17, GoTyped DEF UpdateOutcome
  <2>2. DiskTyped' /\ HostTyped' /\ HistoryTyped'
    BY <1>17 DEF UpdateOutcome
  <2>3. QED
    BY <2>1, <2>2
<1>18. CASE FailDecision(r)
  BY <1>18, Recorded DEF FailDecision
<1>19. CASE FailStore(r)
  <2>1. rec[r] \in FlowRecord
    BY <1>19 DEF FailStore
  <2>2. [rec[r] EXCEPT !.phase = "failed"] \in FlowRecord
    BY <2>1, Amended DEF Phase
  <2>3. QED
    BY <1>19, <2>2, ExitTyped DEF FailStore
<1>20. QED
  BY <1>1, <1>2, <1>3, <1>4, <1>5, <1>6, <1>7, <1>8, <1>9, <1>10, <1>11,
     <1>12, <1>13, <1>14, <1>15, <1>16, <1>17, <1>18, <1>19 DEF Delegate

\* From the rescan to the accepted baseline.
LEMMA VerifyTyped ==
    ASSUME TypeInv, NEW r \in Run, Verify(r)
    PROVE  TypeInv'
<1>1. CASE Rescan(r)
  BY <1>1 DEF Rescan
<1>2. CASE Collect(r)
  <2>1. installed[Plug(r)] \in Identity
    BY <1>2 DEF Collect, Plug, Arguments
  <2>2. QED
    BY <1>2, <2>1 DEF Collect
<1>3. CASE AuditAfter(r)
  BY <1>3 DEF AuditAfter, AuditPasses, BenignConfig
<1>4. CASE Analyze(r)
  BY <1>4 DEF Analyze
<1>5. CASE PersistVerified(r)
  BY <1>5, Recorded DEF PersistVerified
<1>6. CASE InterruptedVerified(r)
  <2>1. rec[r] \in FlowRecord
    BY <1>6 DEF InterruptedVerified
  <2>2. [rec[r] EXCEPT !.phase = "verifying"] \in FlowRecord
    BY <2>1, Amended DEF Phase
  <2>3. ControlTyped' /\ MemoryTyped' /\ \A s \in Run : Equipped(s)'
    BY <1>6, ExitTyped DEF InterruptedVerified
  <2>4. DiskTyped' /\ HostTyped' /\ HistoryTyped'
    BY <1>6, <2>2 DEF InterruptedVerified
  <2>5. QED
    BY <2>3, <2>4
<1>7. CASE Enable(r)
  <2>1. live' \in [Plugin -> BOOLEAN]
    BY <1>7 DEF Enable
  <2>2. QED
    BY <1>7, <2>1 DEF Enable
<1>8. CASE EnableWarning(r)
  BY <1>8 DEF EnableWarning
<1>9. CASE Accept(r)
  BY <1>9 DEF Accept
<1>10. CASE RemoveRecord(r)
  BY <1>10 DEF RemoveRecord
<1>11. CASE RemoveStaleBackup(r)
  BY <1>11, ExitTyped DEF RemoveStaleBackup
<1>12. QED
  BY <1>1, <1>2, <1>3, <1>4, <1>5, <1>6, <1>7, <1>8, <1>9, <1>10, <1>11 DEF
     Verify

\* Signals, deaths, failed restores and lost evidence.
LEMMA FaultTyped ==
    ASSUME TypeInv, NEW r \in Run, Fault(r)
    PROVE  TypeInv'
<1>1. CASE Signal(r)
  BY <1>1, Spent DEF Signal
<1>2. CASE Die(r)
  <2>1. Plug(r) \in Plugin
    BY <1>2 DEF Die, Plug, Arguments
  <2>2. orphans' \in SUBSET Plugin
    BY <1>2, <2>1 DEF Die
  <2>3. QED
    BY <1>2, <2>2, ExitTyped, Spent DEF Die
<1>3. CASE RestoreFailed(r)
  <2>1. ControlTyped' /\ MemoryTyped' /\ \A s \in Run : Equipped(s)'
    BY <1>3, GoTyped DEF RestoreFailed
  <2>2. DiskTyped' /\ HostTyped' /\ HistoryTyped'
    BY <1>3, Spent DEF RestoreFailed, WriteConfig
  <2>3. QED
    BY <2>1, <2>2
<1>4. CASE EvidenceUnavailable(r)
  BY <1>4, Spent DEF EvidenceUnavailable
<1>5. QED
  BY <1>1, <1>2, <1>3, <1>4 DEF Fault

\* Orphaned updaters, foreign writes and rebaselines.
LEMMA OutsideTyped ==
    ASSUME TypeInv, NEW p \in Plugin, Outside(p)
    PROVE  TypeInv'
<1>1. CASE OrphanFinishes(p)
  <2>1. PICK c \in Commit : installed' = [installed EXCEPT ![p].head = c]
    BY <1>1 DEF OrphanFinishes
  <2>2. installed[p] \in Identity
    OBVIOUS
  <2>3. [installed[p] EXCEPT !.head = c] \in Identity
    BY <2>2 DEF Identity
  <2>4. installed' = [installed EXCEPT ![p] = [installed[p] EXCEPT !.head = c]]
    BY <2>1
  <2>5. installed' \in [Plugin -> Identity]
    BY <2>3, <2>4
  <2>6. QED
    BY <1>1, <2>5 DEF OrphanFinishes
<1>2. CASE ForeignEdit(p)
  <2>1. Foreign(p) \in Bytes
    BY DEF Foreign, Bytes
  <2>2. CASE WriteConfig(p, Foreign(p)) /\ UNCHANGED installed
    BY <1>2, <2>1, <2>2, Spent DEF ForeignEdit, WriteConfig
  <2>3. CASE /\ \E t \in Tree : installed' = [installed EXCEPT ![p].tree = t]
             /\ UNCHANGED <<config, touched>>
    <3>1. installed' \in [Plugin -> Identity]
      BY <2>3 DEF Identity
    <3>2. QED
      BY <1>2, <2>3, <3>1, Spent DEF ForeignEdit
  <2>4. QED
    BY <1>2, <2>2, <2>3 DEF ForeignEdit
<1>3. CASE Rebaseline(p)
  <2>1. <<p, installed[p]>> \in Plugin \X Identity
    OBVIOUS
  <2>2. QED
    BY <1>3, <2>1, Spent DEF Rebaseline
<1>4. QED
  BY <1>1, <1>2, <1>3 DEF Outside

\* Before anything runs.
LEMMA InitTyped == Init => TypeInv
<1>1. SUFFICES ASSUME Init PROVE TypeInv
  OBVIOUS
<1>2. ControlTyped /\ MemoryTyped
  BY <1>1 DEF Init
<1>3. Base \in Commit /\ Reviewed(Base) \in Identity
  BY StartIsTyped DEF Reviewed, Identity, Tree
<1>4. DiskTyped
  BY <1>1, <1>3 DEF Init
<1>5. \A p \in Plugin : Audited(p) \in Bytes
  BY DEF Audited, Bytes
<1>6. PICK on \in SUBSET MayBeLive : live = [p \in Plugin |-> p \in on]
  BY <1>1 DEF Init
<1>7. HostTyped
  BY <1>1, <1>3, <1>5, <1>6 DEF Init
<1>8. HistoryTyped
  BY <1>1, BoundsAreNaturals DEF Init, Budget
<1>9. ASSUME NEW r \in Run PROVE Equipped(r)
  BY <1>1 DEF Init
<1>10. QED
  BY <1>2, <1>4, <1>7, <1>8, <1>9

\* An invocation begins.
LEMMA BeginTyped ==
    ASSUME TypeInv, NEW r \in Run, Begin(r)
    PROVE  TypeInv'
<1>1. PICK p \in Plugin, c \in Commit : Start(r, p, c)
  BY DEF Begin
<1>2. [plugin |-> p, cand |-> c] \in Arguments
  BY DEF Arguments
<1>3. QED
  BY <1>1, <1>2 DEF Start

\* The inductive step: whichever process or outside actor moves.
LEMMA NextTyped == TypeInv /\ [Next]_vars => TypeInv'
<1>1. SUFFICES ASSUME TypeInv, [Next]_vars PROVE TypeInv'
  OBVIOUS
<1>2. CASE UNCHANGED vars
  BY <1>1, <1>2 DEF vars
<1>3. ASSUME NEW r \in Run, Begin(r) \/ Step(r) \/ Fault(r) PROVE TypeInv'
  BY <1>1, <1>3, BeginTyped, RecoverTyped, ReviewTyped, DelegateTyped,
     VerifyTyped, FaultTyped DEF Step
<1>4. ASSUME NEW p \in Plugin, Outside(p) PROVE TypeInv'
  BY <1>1, <1>4, OutsideTyped
<1>5. QED
  BY <1>1, <1>2, <1>3, <1>4 DEF Next, Finished

\* Whatever is interleaved, killed, interrupted or written by others, every
\* local and every file keeps its type: no step reads a record, a config or a
\* history that its process never loaded.
THEOREM TypeCorrect == Spec => []TypeOK
<1>1. Init => TypeInv
  BY InitTyped
<1>2. TypeInv /\ [Next]_vars => TypeInv'
  BY NextTyped
<1>3. TypeInv => TypeOK
  OBVIOUS
<1>4. QED
  BY <1>1, <1>2, <1>3, PTL DEF Spec

-----------------------------------------------------------------------------
(* The reviewed trust chain.  TrustIsReviewed is not inductive: it needs    *)
(* that the lock has one holder and that the holder's copy of the history   *)
(* is the file, that verification pins the collected identity to the        *)
(* candidate, that the candidate was approved, and that the passed decision *)
(* recorded before re-enabling is still the latest when trust advances.     *)

HIDE DEF TypeInv, TypeOK, ControlTyped, MemoryTyped, DiskTyped, HostTyped,
         HistoryTyped, Equipped, HasRecord, HasOriginal, PC, Active, Go

Current   == Locked \ {"remove_record", "remove_stale_backup"}
Collected == {"reaudit", "analyze"} \cup Verified
Agreed    == {"store"} \cup BeforeVerified \cup Verified
Passed    == {"enable", "enable_failed", "accept"}

PassedFor(r) == decision[Plug(r)] = [commit |-> Cand(r), verdict |-> "passed"]

ProcessSafe(r) ==
    /\ pc[r] \in Locked <=> lock = r
    /\ pc[r] \in Current => history[r] = trust
    /\ pc[r] \in Collected => ident[r] = Reviewed(Cand(r))
    /\ pc[r] \in Agreed => <<Plug(r), Reviewed(Cand(r))>> \in approved
    /\ pc[r] \in Passed => PassedFor(r)

SafeInv == TrustIsReviewed /\ \A r \in Run : ProcessSafe(r)

Inv == TypeInv /\ SafeInv

\* The two action properties, without their box.
OwnChange ==
    \A p \in Plugin : trust'[p] # trust[p] =>
        \/ \E r \in Run : At(r, "accept") /\ Plug(r) = p /\ trust'[p] = ident[r]
        \/ lock = None /\ trust'[p] = installed[p]
DecidedAdvance ==
    \A r \in Run : At(r, "accept") /\ pc'[r] = "remove_record" =>
        /\ decision[Plug(r)] = [commit |-> Cand(r), verdict |-> "passed"]
        /\ trust'[Plug(r)] = Reviewed(Cand(r))

\* What every step is shown to do, all at once.
Sound ==
    /\ SafeInv'
    /\ Promise!TrustNext \/ UNCHANGED <<lock, Confirmed, approved, trust>>
    /\ OwnChange
    /\ DecidedAdvance

\* The parts of TypeInv the trust chain rests on.
LEMMA Typed ==
    ASSUME TypeInv
    PROVE  /\ pc \in [Run -> PC]
           /\ lock \in Run \cup {None}
           /\ arg \in [Run -> Arguments \cup {None}]
           /\ ident \in [Run -> Identity \cup {None}]
           /\ history \in [Run -> [Plugin -> Identity \cup {None}] \cup {None}]
           /\ trust \in [Plugin -> Identity \cup {None}]
           /\ decision \in [Plugin -> Decision \cup {None}]
           /\ installed \in [Plugin -> Identity]
           /\ \A r \in Run : pc[r] \in Locked =>
                 Plug(r) \in Plugin /\ Cand(r) \in Commit
  BY DEF TypeInv, TypeOK, ControlTyped, MemoryTyped, DiskTyped, HostTyped,
         Equipped, Active, Arguments, Plug, Cand

LEMMA ReviewedIsIdentity ==
    ASSUME NEW c \in Commit PROVE Reviewed(c) \in Identity
  BY DEF Reviewed, Identity, Tree

\* Where a process goes without touching the trust chain, it may give up what
\* it knew, never gain it.
Weakens(from, to) ==
    /\ from \in Locked <=> to \in Locked
    /\ to \in Current => from \in Current
    /\ to \in Collected => from \in Collected
    /\ to \in Agreed => from \in Agreed
    /\ from \in Passed <=> to \in Passed

\* A step within a process: the chain is as it was, or the holder of the lock
\* recorded a decision that is not yet, or no longer, relied on.
LEMMA QuietSound ==
    ASSUME Inv, NEW r \in Run, NEW q \in PC, Go(r, q), Weakens(pc[r], q),
           UNCHANGED <<arg, ident, history, lock, trust, approved>>,
           \/ UNCHANGED decision
           \/ pc[r] \in Locked /\ q \notin Passed /\ \E v : Decide(r, v)
    PROVE  Sound
<1>1. pc' = [pc EXCEPT ![r] = q] /\ pc \in [Run -> PC]
  BY Typed DEF Inv, Go
<1>2. ASSUME NEW s \in Run PROVE ProcessSafe(s)'
  <2>1. ProcessSafe(s) /\ ProcessSafe(r)
    BY DEF Inv, SafeInv
  <2>2. CASE s = r
    BY <1>1, <2>1, <2>2 DEF ProcessSafe, Weakens, PassedFor, Plug, Cand
  <2>3. CASE s # r
    <3>1. pc'[s] = pc[s]
      BY <1>1, <2>3
    <3>2. pc[s] \in Passed => PassedFor(s)'
      BY <2>1, <2>3 DEF ProcessSafe, PassedFor, Plug, Cand, Passed
    <3>3. QED
      BY <2>1, <3>1, <3>2 DEF ProcessSafe, Plug, Cand
  <2>4. QED
    BY <2>2, <2>3
<1>3. TrustIsReviewed'
  BY DEF Inv, SafeInv, TrustIsReviewed
<1>4. Confirmed' = Confirmed
  BY <1>1, Typed DEF Inv, Confirmed, Weakens, Passed, Plug
<1>5. DecidedAdvance
  BY <1>1 DEF DecidedAdvance, Weakens, Passed
<1>6. QED
  BY <1>2, <1>3, <1>4, <1>5 DEF Sound, SafeInv, OwnChange

\* A process that ends, wherever it stands, releases the lock if it held it.
LEMMA ExitSound ==
    ASSUME Inv, NEW r \in Run, NEW how \in Ended, Exit(r, how),
           UNCHANGED <<trust, approved>>,
           \/ UNCHANGED decision
           \/ pc[r] \in Locked /\ \E v : Decide(r, v)
    PROVE  Sound
<1>1. /\ pc' = [pc EXCEPT ![r] = how] /\ pc \in [Run -> PC]
      /\ arg' = [arg EXCEPT ![r] = None]
      /\ arg \in [Run -> Arguments \cup {None}]
      /\ ident' = [ident EXCEPT ![r] = None]
      /\ ident \in [Run -> Identity \cup {None}]
      /\ history' = [history EXCEPT ![r] = None]
      /\ history \in [Run -> [Plugin -> Identity \cup {None}] \cup {None}]
      /\ lock' = IF lock = r THEN None ELSE lock
      /\ lock \in Run \cup {None}
  BY Typed DEF Inv, Exit
<1>2. ASSUME NEW s \in Run PROVE ProcessSafe(s)'
  <2>1. ProcessSafe(s) /\ ProcessSafe(r)
    BY DEF Inv, SafeInv
  <2>2. CASE s = r
    BY <1>1, <2>2
       DEF ProcessSafe, Current, Collected, Agreed, Passed
  <2>3. CASE s # r
    <3>1. pc'[s] = pc[s] /\ arg'[s] = arg[s]
      BY <1>1, <2>3
    <3>2. pc[s] \in Passed => PassedFor(s)'
      BY <2>1, <2>3, <3>1 DEF ProcessSafe, PassedFor, Plug, Cand, Passed
    <3>3. QED
      BY <1>1, <2>1, <2>3, <3>1, <3>2 DEF ProcessSafe, Plug, Cand
  <2>4. QED
    BY <2>2, <2>3
<1>3. TrustIsReviewed'
  BY DEF Inv, SafeInv, TrustIsReviewed
<1>4. Promise!TrustNext \/ UNCHANGED <<lock, Confirmed, approved, trust>>
  <2>1. CASE lock = r
    <3>1. lock # None /\ lock' = None /\ Confirmed' = None
      BY <1>1, <2>1 DEF Confirmed
    <3>2. QED
      BY <3>1 DEF Promise!TrustNext, Promise!Release
  <2>2. CASE lock # r
    BY <1>1, <2>2 DEF Confirmed, Plug
  <2>3. QED
    BY <2>1, <2>2
<1>5. DecidedAdvance
  BY <1>1 DEF DecidedAdvance
<1>6. QED
  BY <1>2, <1>3, <1>4, <1>5 DEF Sound, SafeInv, OwnChange

\* A step of the environment that touches no process and no trust.
LEMMA OutsideSound ==
    ASSUME Inv,
           UNCHANGED <<pc, arg, ident, history, lock, trust, approved,
                       decision>>
    PROVE  Sound
<1>1. ASSUME NEW s \in Run PROVE ProcessSafe(s)'
  BY DEF Inv, SafeInv, ProcessSafe, PassedFor, Plug, Cand
<1>2. TrustIsReviewed' /\ Confirmed' = Confirmed
  BY DEF Inv, SafeInv, TrustIsReviewed, Confirmed, Plug
<1>3. DecidedAdvance
  BY DEF DecidedAdvance
<1>4. QED
  BY <1>1, <1>2, <1>3 DEF Sound, SafeInv, OwnChange

\* What the steps below speak of.
USE DEF Current, Collected, Agreed, Passed, PC, Weakens

\* Before the lock is taken nothing of the chain moves.
LEMMA RecoverSound ==
    ASSUME Inv, NEW r \in Run, Recover(r)
    PROVE  Sound
<1>1. CASE LoadRecord(r)
  BY <1>1, QuietSound, ExitSound DEF LoadRecord, GoOrErr, Keep
<1>2. CASE ReconcileRead(r)
  BY <1>2, QuietSound, ExitSound DEF ReconcileRead
<1>3. CASE ReconcileRestore(r)
  BY <1>3, QuietSound DEF ReconcileRestore
<1>4. CASE ReconcileStore(r)
  BY <1>4, QuietSound DEF ReconcileStore, Store
<1>5. CASE ReconcileRemove(r)
  BY <1>5, QuietSound, ExitSound DEF ReconcileRemove, GoOrErr
<1>6. CASE Inventory(r)
  BY <1>6, QuietSound, ExitSound DEF Inventory
<1>7. CASE AcquireLock(r)
  <2>1. CASE Exit(r, "err") /\ UNCHANGED <<disk, host, approved, budget>>
    BY <2>1, ExitSound
  <2>2. CASE /\ lock' = r
             /\ history' = [history EXCEPT ![r] = trust]
             /\ Go(r, "resolve")
             /\ UNCHANGED <<arg, ident, disk, approved>>
    <3>1. /\ pc' = [pc EXCEPT ![r] = "resolve"] /\ pc \in [Run -> PC]
          /\ history \in [Run -> [Plugin -> Identity \cup {None}] \cup {None}]
          /\ lock = None
      BY <1>7, <2>2, Typed DEF Inv, AcquireLock, Go
    <3>2. ASSUME NEW s \in Run PROVE ProcessSafe(s)'
      <4>1. ProcessSafe(s) /\ pc[s] \notin Locked
        BY <3>1, NoneIsFresh DEF Inv, SafeInv, ProcessSafe
      <4>2. CASE s = r
        BY <2>2, <3>1, <4>2 DEF ProcessSafe
      <4>3. CASE s # r
        BY <2>2, <3>1, <4>1, <4>3 DEF ProcessSafe
      <4>4. QED
        BY <4>2, <4>3
    <3>3. TrustIsReviewed'
      BY <2>2 DEF Inv, SafeInv, TrustIsReviewed
    <3>4. Confirmed = None /\ Confirmed' = None
      BY <2>2, <3>1 DEF Confirmed
    <3>5. Promise!TrustNext
      BY <2>2, <3>1, <3>4 DEF Promise!TrustNext, Promise!Acquire
    <3>6. DecidedAdvance
      BY <3>1 DEF DecidedAdvance
    <3>7. QED
      BY <2>2, <3>2, <3>3, <3>5, <3>6 DEF Sound, SafeInv, OwnChange
  <2>3. QED
    BY <1>7, <2>1, <2>2 DEF AcquireLock
<1>8. CASE LockBusy(r)
  BY <1>8, ExitSound DEF LockBusy
<1>9. QED
  BY <1>1, <1>2, <1>3, <1>4, <1>5, <1>6, <1>7, <1>8 DEF Recover

\* Only an approval moves the chain here; the preview decision is not relied on.
LEMMA ReviewSound ==
    ASSUME Inv, NEW r \in Run, Review(r)
    PROVE  Sound
<1>1. CASE NothingToUpdate(r)
  BY <1>1, ExitSound DEF NothingToUpdate
<1>2. CASE ResolveCandidate(r)
  BY <1>2, QuietSound DEF ResolveCandidate
<1>3. CASE CandidateRefused(r)
  BY <1>3, ExitSound DEF CandidateRefused
<1>4. CASE Evaluate(r)
  <2>1. /\ pc[r] = "evaluate" /\ Decide(r, "preview")
        /\ UNCHANGED <<trust, approved>>
    BY <1>4 DEF Evaluate
  <2>2. PICK blocked \in BOOLEAN : GoOrErr(r, ~blocked, "approve")
    BY <1>4 DEF Evaluate
  <2>3. CASE ~blocked
    BY <2>1, <2>2, <2>3, QuietSound DEF GoOrErr
  <2>4. CASE blocked
    BY <2>1, <2>2, <2>4, ExitSound DEF GoOrErr
  <2>5. QED
    BY <2>3, <2>4
<1>5. CASE Approve(r)
  <2>1. /\ pc' = [pc EXCEPT ![r] = "store"] /\ pc \in [Run -> PC]
        /\ pc[r] = "approve" /\ lock = r
        /\ Plug(r) \in Plugin /\ Reviewed(Cand(r)) \in Identity
    BY <1>5, Typed, ReviewedIsIdentity
       DEF Inv, SafeInv, ProcessSafe, Approve, Go
  <2>2. /\ approved' = approved \cup {<<Plug(r), Reviewed(Cand(r))>>}
        /\ UNCHANGED <<arg, ident, history, lock, trust, decision>>
    BY <1>5 DEF Approve
  <2>3. ASSUME NEW s \in Run PROVE ProcessSafe(s)'
    <3>1. ProcessSafe(s) /\ ProcessSafe(r)
      BY DEF Inv, SafeInv
    <3>2. CASE s = r
      BY <2>1, <2>2, <3>1, <3>2 DEF ProcessSafe, Plug, Cand
    <3>3. CASE s # r
      BY <2>1, <2>2, <3>1, <3>3 DEF ProcessSafe, PassedFor, Plug, Cand
    <3>4. QED
      BY <3>2, <3>3
  <2>4. TrustIsReviewed'
    BY <2>2 DEF Inv, SafeInv, TrustIsReviewed
  <2>5. lock # None /\ Confirmed' = Confirmed
    BY <2>1, <2>2 DEF Confirmed
  <2>6. Promise!Approve(Plug(r), Reviewed(Cand(r)))
    BY <2>2, <2>5 DEF Promise!Approve
  <2>7. Promise!TrustNext
    BY <2>1, <2>6 DEF Promise!TrustNext
  <2>8. DecidedAdvance
    BY <2>1 DEF DecidedAdvance
  <2>9. QED
    BY <2>2, <2>3, <2>4, <2>7, <2>8 DEF Sound, SafeInv, OwnChange
<1>6. CASE Reject(r)
  BY <1>6, ExitSound DEF Reject
<1>7. CASE InterruptionCheckpoint(r)
  BY <1>7, ExitSound DEF InterruptionCheckpoint
<1>8. QED
  BY <1>1, <1>2, <1>3, <1>4, <1>5, <1>6, <1>7 DEF Review

\* The native update and what surrounds it leave the chain alone.
LEMMA DelegateSound ==
    ASSUME Inv, NEW r \in Run, Delegate(r)
    PROVE  Sound
<1>1. CASE StoreRecord(r)
  BY <1>1, QuietSound DEF StoreRecord, Store
<1>2. CASE Quiesce(r)
  BY <1>2, QuietSound DEF Quiesce, Keep
<1>3. CASE NotLive(r)
  BY <1>3, QuietSound DEF NotLive
<1>4. CASE StoreQuiesced(r)
  BY <1>4, QuietSound DEF StoreQuiesced, Store
<1>5. CASE StorePhase(r)
  BY <1>5, QuietSound DEF StorePhase, EnterPhase, Store
<1>6. CASE AuditBefore(r)
  BY <1>6, QuietSound DEF AuditBefore
<1>7. CASE WriteBackup(r)
  BY <1>7, QuietSound DEF WriteBackup
<1>8. CASE StorePointer(r)
  BY <1>8, QuietSound DEF StorePointer, Store
<1>9. CASE Harden(r)
  BY <1>9, QuietSound DEF Harden
<1>10. CASE NativeUpdate(r)
  BY <1>10, QuietSound DEF NativeUpdate
<1>11. CASE RestoreConfig(r)
  BY <1>11, QuietSound DEF RestoreConfig
<1>12. CASE ClearPointer(r)
  BY <1>12, QuietSound DEF ClearPointer, Store
<1>13. CASE RemoveBackup(r)
  BY <1>13, QuietSound DEF RemoveBackup
<1>14. CASE TamperedDecision(r)
  BY <1>14, QuietSound DEF TamperedDecision
<1>15. CASE TamperedStore(r)
  BY <1>15, QuietSound DEF TamperedStore, Store
<1>16. CASE TamperedRemove(r)
  BY <1>16, ExitSound DEF TamperedRemove
<1>17. CASE UpdateOutcome(r)
  BY <1>17, QuietSound DEF UpdateOutcome
<1>18. CASE FailDecision(r)
  BY <1>18, QuietSound DEF FailDecision
<1>19. CASE FailStore(r)
  BY <1>19, ExitSound DEF FailStore
<1>20. QED
  BY <1>1, <1>2, <1>3, <1>4, <1>5, <1>6, <1>7, <1>8, <1>9, <1>10, <1>11,
     <1>12, <1>13, <1>14, <1>15, <1>16, <1>17, <1>18, <1>19 DEF Delegate

\* Verification pins the identity, records the decision and advances trust.
LEMMA VerifySound ==
    ASSUME Inv, NEW r \in Run, Verify(r)
    PROVE  Sound
<1>1. CASE Rescan(r)
  BY <1>1, QuietSound DEF Rescan
<1>2. CASE Collect(r)
  <2>1. /\ pc' = [pc EXCEPT ![r] = IF installed[Plug(r)] = Reviewed(Cand(r))
                                   THEN "reaudit" ELSE "fail_decision"]
        /\ pc \in [Run -> PC] /\ pc[r] = "collect" /\ lock = r
        /\ ident' = [ident EXCEPT ![r] = installed[Plug(r)]]
        /\ ident \in [Run -> Identity \cup {None}]
        /\ UNCHANGED <<arg, history, lock, trust, approved, decision>>
    BY <1>2, Typed DEF Inv, SafeInv, ProcessSafe, Collect, Go
  <2>2. ASSUME NEW s \in Run PROVE ProcessSafe(s)'
    <3>1. ProcessSafe(s) /\ ProcessSafe(r)
      BY DEF Inv, SafeInv
    <3>2. CASE s = r
      BY <2>1, <3>1, <3>2 DEF ProcessSafe, Plug, Cand
    <3>3. CASE s # r
      BY <2>1, <3>1, <3>3 DEF ProcessSafe, PassedFor, Plug, Cand
    <3>4. QED
      BY <3>2, <3>3
  <2>3. TrustIsReviewed'
    BY <2>1 DEF Inv, SafeInv, TrustIsReviewed
  <2>4. Confirmed' = Confirmed
    BY <2>1 DEF Confirmed
  <2>5. DecidedAdvance
    BY <2>1 DEF DecidedAdvance
  <2>6. QED
    BY <2>1, <2>2, <2>3, <2>4, <2>5 DEF Sound, SafeInv, OwnChange
<1>3. CASE AuditAfter(r)
  BY <1>3, QuietSound DEF AuditAfter
<1>4. CASE Analyze(r)
  BY <1>4, QuietSound DEF Analyze
<1>5. CASE PersistVerified(r)
  <2>1. /\ pc' = [pc EXCEPT ![r] = "enable"] /\ pc \in [Run -> PC]
        /\ pc[r] = "decide" /\ lock = r /\ Decide(r, "passed")
        /\ decision \in [Plugin -> Decision \cup {None}]
        /\ Plug(r) \in Plugin /\ Cand(r) \in Commit
        /\ UNCHANGED <<arg, ident, history, lock, trust, approved>>
    BY <1>5, Typed DEF Inv, SafeInv, ProcessSafe, PersistVerified, Go
  <2>2. PassedFor(r)'
    BY <2>1 DEF PassedFor, Decide, Plug, Cand
  <2>3. ASSUME NEW s \in Run PROVE ProcessSafe(s)'
    <3>1. ProcessSafe(s) /\ ProcessSafe(r)
      BY DEF Inv, SafeInv
    <3>2. CASE s = r
      BY <2>1, <2>2, <3>1, <3>2 DEF ProcessSafe, Plug, Cand
    <3>3. CASE s # r
      BY <2>1, <3>1, <3>3 DEF ProcessSafe, Plug, Cand
    <3>4. QED
      BY <3>2, <3>3
  <2>4. TrustIsReviewed'
    BY <2>1 DEF Inv, SafeInv, TrustIsReviewed
  <2>5. /\ Confirmed' = <<Plug(r), ident[r]>> /\ lock # None
        /\ ident[r] = Reviewed(Cand(r)) /\ <<Plug(r), ident[r]>> \in approved
        /\ ident[r] \in Identity
    <3>1. ProcessSafe(r)
      BY DEF Inv, SafeInv
    <3>2. Confirmed' = <<Plug(r), ident[r]>>
      BY <2>1, NoneIsFresh DEF Confirmed, Plug
    <3>3. QED
      BY <2>1, <3>1, <3>2, NoneIsFresh, ReviewedIsIdentity DEF ProcessSafe
  <2>6. Promise!Confirm(Plug(r), ident[r])
    BY <2>1, <2>5 DEF Promise!Confirm
  <2>7. Promise!TrustNext
    BY <2>1, <2>5, <2>6 DEF Promise!TrustNext
  <2>8. DecidedAdvance
    BY <2>1 DEF DecidedAdvance
  <2>9. QED
    BY <2>1, <2>3, <2>4, <2>7, <2>8 DEF Sound, SafeInv, OwnChange
<1>6. CASE InterruptedVerified(r)
  BY <1>6, ExitSound DEF InterruptedVerified
<1>7. CASE Enable(r)
  BY <1>7, QuietSound DEF Enable
<1>8. CASE EnableWarning(r)
  BY <1>8, QuietSound DEF EnableWarning
<1>9. CASE Accept(r)
  <2>1. /\ pc' = [pc EXCEPT ![r] = "remove_record"] /\ pc \in [Run -> PC]
        /\ pc[r] = "accept" /\ lock = r /\ Plug(r) \in Plugin
        /\ Cand(r) \in Commit
        /\ trust' = [trust EXCEPT ![Plug(r)] = ident[r]]
        /\ trust \in [Plugin -> Identity \cup {None}]
        /\ UNCHANGED <<arg, ident, history, lock, approved, decision>>
    BY <1>9, Typed DEF Inv, SafeInv, ProcessSafe, Accept, Go
  <2>2. /\ ident[r] = Reviewed(Cand(r)) /\ <<Plug(r), ident[r]>> \in approved
        /\ PassedFor(r) /\ ident[r] \in Identity
    <3>1. ProcessSafe(r)
      BY DEF Inv, SafeInv
    <3>2. QED
      BY <2>1, <3>1, ReviewedIsIdentity DEF ProcessSafe
  <2>3. ASSUME NEW s \in Run PROVE ProcessSafe(s)'
    <3>1. ProcessSafe(s) /\ ProcessSafe(r)
      BY DEF Inv, SafeInv
    <3>2. CASE s = r
      BY <2>1, <3>1, <3>2 DEF ProcessSafe
    <3>3. CASE s # r
      BY <2>1, <3>1, <3>3 DEF ProcessSafe
    <3>4. QED
      BY <3>2, <3>3
  <2>4. TrustIsReviewed'
    BY <2>1, <2>2 DEF Inv, SafeInv, TrustIsReviewed
  <2>5. Confirmed = <<Plug(r), ident[r]>> /\ Confirmed' = None
    BY <2>1 DEF Confirmed
  <2>6. Promise!Advance(Plug(r), ident[r])
    BY <2>1, <2>5 DEF Promise!Advance
  <2>7. Promise!TrustNext
    BY <2>1, <2>2, <2>6 DEF Promise!TrustNext
  <2>8. OwnChange
    BY <2>1 DEF OwnChange
  <2>9. DecidedAdvance
    BY <2>1, <2>2 DEF DecidedAdvance, PassedFor
  <2>10. QED
    BY <2>3, <2>4, <2>7, <2>8, <2>9 DEF Sound, SafeInv
<1>10. CASE RemoveRecord(r)
  BY <1>10, QuietSound DEF RemoveRecord
<1>11. CASE RemoveStaleBackup(r)
  BY <1>11, ExitSound DEF RemoveStaleBackup
<1>12. QED
  BY <1>1, <1>2, <1>3, <1>4, <1>5, <1>6, <1>7, <1>8, <1>9, <1>10, <1>11 DEF
     Verify

\* Faults stop a process or send it to a refusal.
LEMMA FaultSound ==
    ASSUME Inv, NEW r \in Run, Fault(r)
    PROVE  Sound
<1>1. CASE Signal(r)
  BY <1>1, OutsideSound DEF Signal
<1>2. CASE Die(r)
  BY <1>2, ExitSound DEF Die
<1>3. CASE RestoreFailed(r)
  BY <1>3, QuietSound DEF RestoreFailed
<1>4. CASE EvidenceUnavailable(r)
  BY <1>4, QuietSound DEF EvidenceUnavailable
<1>5. QED
  BY <1>1, <1>2, <1>3, <1>4 DEF Fault

\* Only a rebaseline, which needs the lock free, touches trust.
LEMMA OutsideActorSound ==
    ASSUME Inv, NEW p \in Plugin, Outside(p)
    PROVE  Sound
<1>1. CASE OrphanFinishes(p)
  BY <1>1, OutsideSound DEF OrphanFinishes
<1>2. CASE ForeignEdit(p)
  BY <1>2, OutsideSound DEF ForeignEdit
<1>3. CASE Rebaseline(p)
  <2>1. /\ lock = None /\ trust' = [trust EXCEPT ![p] = installed[p]]
        /\ approved' = approved \cup {<<p, installed[p]>>}
        /\ trust \in [Plugin -> Identity \cup {None}]
        /\ installed[p] \in Identity
        /\ UNCHANGED <<pc, arg, ident, history, lock, decision>>
    BY <1>3, Typed DEF Inv, Rebaseline
  <2>2. ASSUME NEW s \in Run PROVE ProcessSafe(s)'
    <3>1. ProcessSafe(s) /\ pc[s] \notin Locked
      BY <2>1, NoneIsFresh DEF Inv, SafeInv, ProcessSafe
    <3>2. QED
      BY <2>1, <3>1 DEF ProcessSafe
  <2>3. TrustIsReviewed'
    BY <2>1 DEF Inv, SafeInv, TrustIsReviewed
  <2>4. Confirmed' = Confirmed
    BY <2>1 DEF Confirmed
  <2>5. Promise!AcceptDirectly(p, installed[p])
    BY <2>1, <2>4 DEF Promise!AcceptDirectly
  <2>6. Promise!TrustNext
    BY <2>1, <2>5 DEF Promise!TrustNext
  <2>7. OwnChange
    BY <2>1 DEF OwnChange
  <2>8. DecidedAdvance
    BY <2>1 DEF DecidedAdvance
  <2>9. QED
    BY <2>2, <2>3, <2>6, <2>7, <2>8 DEF Sound, SafeInv
<1>4. QED
  BY <1>1, <1>2, <1>3 DEF Outside

\* An invocation that begins knows nothing yet.
LEMMA BeginSound ==
    ASSUME Inv, NEW r \in Run, Begin(r)
    PROVE  Sound
<1>1. PICK p \in Plugin, c \in Commit : Start(r, p, c)
  BY DEF Begin
<1>2. /\ pc' = [pc EXCEPT ![r] = "load"] /\ pc \in [Run -> PC]
      /\ pc[r] = "idle" /\ lock # r
      /\ arg' = [arg EXCEPT ![r] = [plugin |-> p, cand |-> c]]
      /\ arg \in [Run -> Arguments \cup {None}]
      /\ UNCHANGED <<ident, history, lock, trust, approved, decision>>
  BY <1>1, Typed DEF Inv, SafeInv, ProcessSafe, Start, Go
<1>3. ASSUME NEW s \in Run PROVE ProcessSafe(s)'
  <2>1. ProcessSafe(s) /\ ProcessSafe(r)
    BY DEF Inv, SafeInv
  <2>2. CASE s = r
    BY <1>2, <2>1, <2>2 DEF ProcessSafe
  <2>3. CASE s # r
    BY <1>2, <2>1, <2>3 DEF ProcessSafe, PassedFor, Plug, Cand
  <2>4. QED
    BY <2>2, <2>3
<1>4. TrustIsReviewed'
  BY <1>2 DEF Inv, SafeInv, TrustIsReviewed
<1>5. Confirmed' = Confirmed
  BY <1>2, Typed DEF Inv, Confirmed, Plug
<1>6. DecidedAdvance
  BY <1>2 DEF DecidedAdvance
<1>7. QED
  BY <1>2, <1>3, <1>4, <1>5, <1>6 DEF Sound, SafeInv, OwnChange

\* Every step, whoever takes it.
LEMMA NextSound == Inv /\ [Next]_vars => Sound
<1>1. SUFFICES ASSUME Inv, [Next]_vars PROVE Sound
  OBVIOUS
<1>2. CASE UNCHANGED vars
  BY <1>1, <1>2, OutsideSound DEF vars
<1>3. ASSUME NEW r \in Run, Begin(r) \/ Step(r) \/ Fault(r) PROVE Sound
  BY <1>1, <1>3, BeginSound, RecoverSound, ReviewSound, DelegateSound,
     VerifySound, FaultSound DEF Step
<1>4. ASSUME NEW p \in Plugin, Outside(p) PROVE Sound
  BY <1>1, <1>4, OutsideActorSound
<1>5. QED
  BY <1>1, <1>2, <1>3, <1>4 DEF Next, Finished

LEMMA InitSafe == Init => SafeInv
<1>1. SUFFICES ASSUME Init PROVE SafeInv
  OBVIOUS
<1>2. TrustIsReviewed
  BY <1>1 DEF Init, TrustIsReviewed
<1>3. ASSUME NEW r \in Run PROVE ProcessSafe(r)
  BY <1>1, NoneIsFresh DEF Init, ProcessSafe
<1>4. QED
  BY <1>2, <1>3 DEF SafeInv

LEMMA InvHolds == Spec => []Inv
<1>1. Init => Inv
  BY InitTyped, InitSafe DEF Inv
<1>2. Inv /\ [Next]_vars => Inv'
  BY NextTyped, NextSound DEF Inv, Sound
<1>3. QED
  BY <1>1, <1>2, PTL DEF Spec

\* No baseline ever rests on content nobody reviewed, for any number of
\* overlapping invocations, kills, signals, orphaned updaters, foreign writes
\* and rebaselines.
THEOREM TrustReviewed == Spec => []TrustIsReviewed
<1>1. Inv => TrustIsReviewed
  BY DEF Inv, SafeInv
<1>2. QED
  BY <1>1, InvHolds, PTL

\* Rewriting the whole history file never loses or changes another plugin's
\* baseline: what a run writes back is, but for its own plugin, what is there.
THEOREM NoTrustIsLost == Spec => TrustChangesAreOwn
<1>1. Inv /\ [Next]_vars => [OwnChange]_vars
  BY NextSound DEF Sound
<1>2. Spec => [][OwnChange]_vars
  BY <1>1, InvHolds, PTL DEF Spec
<1>3. QED
  BY <1>2 DEF OwnChange, TrustChangesAreOwn

\* Trust advances only under a passed decision for that very commit, which is
\* still the latest one recorded for the plugin.
THEOREM AdvanceDecided == Spec => AdvanceIsDecided
<1>1. Inv /\ [Next]_vars => [DecidedAdvance]_vars
  BY NextSound DEF Sound
<1>2. Spec => [][DecidedAdvance]_vars
  BY <1>1, InvHolds, PTL DEF Spec
<1>3. QED
  BY <1>2 DEF DecidedAdvance, AdvanceIsDecided

\* The detailed command implements the abstract protocol of trust.
THEOREM Implements == Spec => ImplementsReviewedTrust
<1>1. Init => Promise!TrustInit
  <2>1. SUFFICES ASSUME Init PROVE Promise!TrustInit
    OBVIOUS
  <2>2. lock = None /\ Confirmed = None /\ approved = {}
    BY <2>1 DEF Init, Confirmed
  <2>3. trust \in [Plugin -> Identity \cup {None}]
    BY <2>1, InitTyped, Typed
  <2>4. QED
    BY <2>2, <2>3 DEF Promise!TrustInit
<1>2. Inv /\ [Next]_vars => [Promise!TrustNext]_(Promise!trustVars)
  BY NextSound DEF Sound, Promise!trustVars
<1>3. QED
  BY <1>1, <1>2, InvHolds, PTL
     DEF Spec, ImplementsReviewedTrust, Promise!TrustSpec

(***************************************************************************)
(* What ReviewUpdate promises while invocations do not overlap in time     *)
(* (MaxActive = 1): the recovery record, the backup and the hardened       *)
(* config, whatever is killed, interrupted or written from outside in      *)
(* between, and however many invocations follow one another.               *)
(***************************************************************************)

-----------------------------------------------------------------------------
(* The invariant.  Who is under way knows the record on disk, whether it    *)
(* points to the backup, what the backup is, and that a config was put      *)
(* back; of one that is not under way nothing is known but what is on disk. *)

Lonely == \A r, s \in Run : Active(r) /\ Active(s) => r = s

Recovering == {"reconcile_read", "reconcile_restore", "reconcile_store",
               "reconcile_remove"}
Admitted   == {"inventory", "lock", "resolve", "evaluate", "approve", "store"}
Working    == BeforeVerified \cup Verified
Owning     == Working \cup {"remove_record"}
Pointed    == {"reconcile_read", "reconcile_restore", "reconcile_store",
               "harden", "update", "restore", "clear_pointer",
               "tampered_decision", "tampered_store"}
Unpointed  == {"reconcile_remove", "inventory", "lock", "resolve", "evaluate",
               "approve", "store", "quiesce", "store_quiesced",
               "store_auditing", "audit", "store_delegating", "backup",
               "store_pointer", "remove_backup", "outcome", "store_verifying",
               "rescan", "collect", "reaudit", "analyze", "tampered_remove",
               "decide", "enable", "enable_failed", "accept", "remove_record"}
Restored   == {"reconcile_store", "clear_pointer", "tampered_decision",
               "tampered_store"}

\* The record of an invocation as it has it in memory, and on disk.
OwnRecord(r) ==
    /\ flow \in FlowRecord /\ flow.plugin = Plug(r) /\ flow.by = r
    /\ rec[r].plugin = Plug(r) /\ rec[r].by = r
    /\ rec[r].pointer = flow.pointer

ProcessAlone(r) ==
    /\ pc[r] \in Recovering => flow \in FlowRecord /\ rec[r] = flow
    /\ pc[r] \in Admitted =>
          \/ flow = None
          \/ flow \in FlowRecord /\ flow.plugin = Plug(r)
    /\ pc[r] \in Working => OwnRecord(r)
    /\ pc[r] \in Owning => flow \in FlowRecord /\ flow.plugin = Plug(r)
    /\ pc[r] \in Pointed => flow.pointer
    /\ pc[r] \in Unpointed => (flow \in FlowRecord => ~flow.pointer)
    /\ pc[r] = "remove_stale_backup" => flow = None
    /\ pc[r] \in HasOriginal =>
          /\ original[r] = backup /\ backup # None
          /\ backup # Hardened(flow.plugin)
    /\ pc[r] \in Restored => config[flow.plugin] # Hardened(flow.plugin)

PointerIsGood ==
    flow \in FlowRecord /\ flow.pointer =>
        backup # None /\ backup # Hardened(flow.plugin)

HardenedIsPointedTo ==
    \A p \in Plugin : config[p] = Hardened(p) =>
        flow \in FlowRecord /\ flow.plugin = p /\ flow.pointer

AloneInv == /\ Lonely /\ PointerIsGood /\ HardenedIsPointedTo
            /\ \A r \in Run : ProcessAlone(r)

\* UnresolvedRecordKept, without its box.
RecordKept ==
    flow # None /\ flow' # flow =>
        /\ flow \in FlowRecord
        /\ \/ flow' \in FlowRecord /\ flow'.plugin = flow.plugin
           \/ flow' = None /\ \E r \in Run :
                  At(r, "remove_record") /\ Plug(r) = flow.plugin

\* The parts of TypeInv this rests on.
LEMMA AloneTyped ==
    ASSUME TypeInv
    PROVE  /\ pc \in [Run -> PC]
           /\ rec \in [Run -> FlowRecord \cup {None}]
           /\ original \in [Run -> Bytes \cup {None}]
           /\ flow \in FlowRecord \cup {None, Unreadable}
           /\ backup \in Bytes \cup {None}
           /\ config \in [Plugin -> Bytes]
           /\ \A r \in Run : Active(r) => Plug(r) \in Plugin
           /\ \A r \in Run : pc[r] \in HasRecord => rec[r] \in FlowRecord
           /\ \A r \in Run : pc[r] \in HasOriginal => original[r] \in Bytes
  BY DEF TypeInv, TypeOK, ControlTyped, MemoryTyped, DiskTyped, HostTyped,
         Equipped, Active, Arguments, Plug

\* Nothing is known of a process that is not under way.
LEMMA InactiveIsFree ==
    ASSUME NEW r \in Run, pc[r] \in {"idle"} \cup Ended
    PROVE  ProcessAlone(r)
  BY DEF ProcessAlone, Recovering, Admitted, Working, Owning, Pointed,
         Unpointed, Restored, HasOriginal, BeforeVerified, Verified, Ended

\* One process moves: only what is known of that one has to be shown.
LEMMA OneMoves ==
    ASSUME TypeInv, AloneInv, NEW r \in Run, Active(r), NEW q \in PC,
           pc' = [pc EXCEPT ![r] = q],
           ProcessAlone(r)', PointerIsGood', HardenedIsPointedTo'
    PROVE  AloneInv'
<1>1. pc \in [Run -> PC] BY AloneTyped
<1>2. ASSUME NEW s \in Run, s # r PROVE pc'[s] = pc[s] /\ ~Active(s)
  BY <1>1, <1>2 DEF AloneInv, Lonely
<1>3. Lonely'
  BY <1>2 DEF Lonely, Active
<1>4. ASSUME NEW s \in Run PROVE ProcessAlone(s)'
  <2>1. CASE s = r
    BY <2>1
  <2>2. CASE s # r
    <3>1. pc'[s] \in {"idle"} \cup Ended
      BY <1>2, <2>2 DEF Active
    <3>2. QED
      BY <3>1 DEF ProcessAlone, Recovering, Admitted, Working, Owning,
                  Pointed, Unpointed, Restored, HasOriginal, BeforeVerified,
                  Verified, Ended
  <2>3. QED
    BY <2>1, <2>2
<1>5. QED
  BY <1>3, <1>4 DEF AloneInv

\* A process that ends leaves the disk, and no more, to the next one.
LEMMA ExitAlone ==
    ASSUME TypeInv, AloneInv, NEW r \in Run, Active(r), NEW how \in Ended,
           Exit(r, how), PointerIsGood', HardenedIsPointedTo'
    PROVE  AloneInv'
<1>1. pc' = [pc EXCEPT ![r] = how] /\ how \in PC
  BY DEF Exit, PC
<1>2. pc'[r] = how
  BY <1>1, AloneTyped
<1>3. ProcessAlone(r)'
  BY <1>2 DEF ProcessAlone, Recovering, Admitted, Working, Owning,
              Pointed, Unpointed, Restored, HasOriginal, BeforeVerified,
              Verified, Ended
<1>4. QED
  BY <1>1, <1>3, OneMoves

\* Where a process goes without touching record, backup and config, it may
\* give up what it knew, never gain it.
Forgets(from, to) ==
    /\ to \in Recovering => from \in Recovering
    /\ to \in Admitted => from \in Admitted
    /\ to \in Working => from \in Working
    /\ to \in Owning => from \in Owning
    /\ to \in Pointed => from \in Pointed
    /\ to \in Unpointed => from \in Unpointed
    /\ to # "remove_stale_backup"
    /\ to \in HasOriginal => from \in HasOriginal
    /\ to \in Restored => from \in Restored

DiskStays == UNCHANGED <<flow, backup, config>>

LEMMA GoAlone ==
    ASSUME TypeInv, AloneInv, NEW r \in Run, Active(r), NEW q \in PC,
           Go(r, q), Forgets(pc[r], q), DiskStays,
           UNCHANGED <<arg, rec, original>>
    PROVE  AloneInv' /\ RecordKept
<1>1. pc' = [pc EXCEPT ![r] = q] /\ pc'[r] = q
  BY AloneTyped DEF Go
<1>2. PointerIsGood' /\ HardenedIsPointedTo'
  BY DEF AloneInv, PointerIsGood, HardenedIsPointedTo, DiskStays
<1>3. ProcessAlone(r)
  BY DEF AloneInv
<1>4. ProcessAlone(r)'
  BY <1>1, <1>3 DEF ProcessAlone, Forgets, DiskStays, OwnRecord, Plug
<1>5. QED
  BY <1>1, <1>2, <1>4, OneMoves DEF RecordKept, DiskStays

LEMMA EndAlone ==
    ASSUME TypeInv, AloneInv, NEW r \in Run, Active(r), NEW how \in Ended,
           Exit(r, how), DiskStays
    PROVE  AloneInv' /\ RecordKept
<1>1. PointerIsGood' /\ HardenedIsPointedTo'
  BY DEF AloneInv, PointerIsGood, HardenedIsPointedTo, DiskStays
<1>2. QED
  BY <1>1, ExitAlone DEF RecordKept, DiskStays

\* A step that touches neither a process nor record, backup and config.
LEMMA NothingAlone ==
    ASSUME TypeInv, AloneInv, UNCHANGED <<pc, arg, rec, original>>, DiskStays
    PROVE  AloneInv' /\ RecordKept
  BY DEF AloneInv, Lonely, PointerIsGood, HardenedIsPointedTo, ProcessAlone,
         OwnRecord, Active, Plug, DiskStays, RecordKept

\* A record without pointer is stored only when no config is hardened.
LEMMA UnpointAlone ==
    ASSUME TypeInv, AloneInv, NEW r \in Run, Active(r), NEW q \in Working,
           q \in Unpointed, q \notin HasOriginal, q \notin Restored,
           NEW f \in FlowRecord, f.plugin = Plug(r), f.by = r, ~f.pointer,
           Store(r, f), Go(r, q), UNCHANGED <<arg, original, backup, config>>,
           \/ flow = None
           \/ flow \in FlowRecord /\ flow.plugin = Plug(r),
           flow \in FlowRecord /\ flow.pointer =>
               config[Plug(r)] # Hardened(Plug(r))
    PROVE  AloneInv' /\ RecordKept
<1>1. /\ pc' = [pc EXCEPT ![r] = q] /\ pc'[r] = q /\ q \in PC
      /\ flow' = f /\ rec'[r] = f
  BY AloneTyped DEF Go, Store, PC, Working, Locked
<1>2. PointerIsGood'
  BY <1>1 DEF PointerIsGood
<1>3. \A p \in Plugin : config[p] # Hardened(p)
  BY NoneIsFresh DEF AloneInv, HardenedIsPointedTo
<1>4. HardenedIsPointedTo'
  BY <1>3 DEF HardenedIsPointedTo
<1>5. /\ q \notin Recovering \cup Admitted \cup Pointed
      /\ q # "remove_stale_backup"
  BY DEF Working, Unpointed, BeforeVerified, Verified, Recovering, Admitted,
         Pointed
<1>6. ProcessAlone(r)'
  BY <1>1, <1>5 DEF ProcessAlone, OwnRecord, Plug
<1>7. RecordKept
  BY <1>1 DEF RecordKept
<1>8. QED
  BY <1>1, <1>2, <1>4, <1>6, <1>7, OneMoves

\* A run that gives up rewrites its record in place and leaves it.
LEMMA LeaveAlone ==
    ASSUME TypeInv, AloneInv, NEW r \in Run, pc[r] \in Working,
           NEW ph \in Phase, flow' = [rec[r] EXCEPT !.phase = ph],
           Exit(r, "err"), UNCHANGED <<backup, config>>
    PROVE  AloneInv' /\ RecordKept
<1>0. pc[r] \in HasRecord /\ Active(r)
  BY DEF Active, Working, BeforeVerified, Verified, Ended, HasRecord
<1>1. /\ OwnRecord(r) /\ PointerIsGood /\ HardenedIsPointedTo
      /\ rec[r] \in FlowRecord
  BY <1>0, AloneTyped DEF AloneInv, ProcessAlone
<1>2. /\ flow' \in FlowRecord /\ flow'.plugin = flow.plugin
      /\ flow'.pointer = flow.pointer /\ flow \in FlowRecord
  BY <1>1 DEF OwnRecord, FlowRecord
<1>3. PointerIsGood' /\ HardenedIsPointedTo' /\ RecordKept
  BY <1>1, <1>2 DEF PointerIsGood, HardenedIsPointedTo, RecordKept
<1>4. QED
  BY <1>0, <1>3, ExitAlone DEF Ended

-----------------------------------------------------------------------------
(* Each step.                                                              *)

\* Reading the record, reconciling, pre-flight and lock.
LEMMA RecoverAlone ==
    ASSUME TypeInv, AloneInv, NEW r \in Run, Recover(r)
    PROVE  AloneInv' /\ RecordKept
<1> USE AloneTyped
<1> DEFINE Held == AloneInv' /\ RecordKept
<1>0. ProcessAlone(r) /\ PointerIsGood /\ HardenedIsPointedTo
  BY DEF AloneInv
<1>1. CASE LoadRecord(r)
  <2>0. Active(r) /\ pc[r] = "load"
    BY <1>1 DEF LoadRecord, At, Active, Ended
  <2>1. UNCHANGED <<disk, host>>
    BY <1>1 DEF LoadRecord
  <2>2. DiskStays /\ RecordKept /\ PointerIsGood' /\ HardenedIsPointedTo'
    BY <1>0, <2>1 DEF disk, host, DiskStays, RecordKept, PointerIsGood,
                      HardenedIsPointedTo
  <2>3. CASE Exit(r, "err")
    BY <2>0, <2>2, <2>3, EndAlone DEF Ended
  <2>4. CASE ~Exit(r, "err")
    <3>1. \/ /\ pc' = [pc EXCEPT ![r] = "inventory"] /\ UNCHANGED locals
             /\ \/ flow = None
                \/ /\ flow \in FlowRecord /\ ~flow.pointer
                   /\ flow.plugin = Plug(r)
          \/ /\ pc' = [pc EXCEPT ![r] = "reconcile_read"]
             /\ flow \in FlowRecord /\ flow.pointer
             /\ rec' = [rec EXCEPT ![r] = flow] /\ UNCHANGED arg
      BY <1>1, <2>4 DEF LoadRecord, Go, GoOrErr, Keep
    <3>2. pc'[r] = "inventory" \/ pc'[r] = "reconcile_read"
      BY <3>1
    <3>3. ProcessAlone(r)'
      <4>1. CASE pc'[r] = "inventory"
        <5>1. /\ arg' = arg
              /\ \/ flow = None
                 \/ /\ flow \in FlowRecord /\ ~flow.pointer
                    /\ flow.plugin = Plug(r)
          BY <3>1, <4>1 DEF locals, Plug
        <5>2. /\ pc'[r] \notin Recovering \cup Working \cup Owning
              /\ pc'[r] \notin Pointed \cup HasOriginal \cup Restored
              /\ pc'[r] # "remove_stale_backup"
          BY <4>1 DEF Recovering, Working, Owning, Pointed, HasOriginal,
                      Restored, BeforeVerified, Verified
        <5>3. flow' = flow
          BY <2>2 DEF DiskStays
        <5>4. flow' \in FlowRecord => ~flow'.pointer
          BY NoneIsFresh, <5>1, <5>3
        <5>5. \/ flow' = None
              \/ flow' \in FlowRecord /\ flow'.plugin = Plug(r)'
          BY <5>1, <5>3 DEF Plug
        <5>6. QED
          BY <5>2, <5>4, <5>5 DEF ProcessAlone
      <4>2. CASE pc'[r] = "reconcile_read"
        <5>1. flow \in FlowRecord /\ flow.pointer /\ rec'[r] = flow
          BY <3>1, <4>2
        <5>2. QED
          BY <2>2, <4>2, <5>1 DEF ProcessAlone, DiskStays, Recovering,
             Admitted, Working, Owning, Pointed, Unpointed, Restored,
             HasOriginal, BeforeVerified, Verified
      <4>3. QED
        BY <3>2, <4>1, <4>2
    <3>4. QED
      BY <2>0, <2>2, <3>1, <3>3, OneMoves DEF PC, Unlocked
  <2>5. QED
    BY <2>3, <2>4
<1>2. CASE ReconcileRead(r)
  <2>0. Active(r) /\ pc[r] = "reconcile_read"
    BY <1>2 DEF ReconcileRead, At, Active, Ended
  <2>1. UNCHANGED <<disk, host>>
    BY <1>2 DEF ReconcileRead
  <2>2. DiskStays /\ RecordKept /\ PointerIsGood' /\ HardenedIsPointedTo'
    BY <1>0, <2>1 DEF disk, host, DiskStays, RecordKept, PointerIsGood,
                      HardenedIsPointedTo
  <2>3. CASE Exit(r, "err")
    BY <2>0, <2>2, <2>3, EndAlone DEF Ended
  <2>4. CASE ~Exit(r, "err")
    <3>1. /\ pc' = [pc EXCEPT ![r] = "reconcile_restore"]
          /\ backup # None /\ original' = [original EXCEPT ![r] = backup]
          /\ UNCHANGED <<arg, rec>>
      BY <1>2, <2>4 DEF ReconcileRead, Go
    <3>2. ProcessAlone(r)'
      BY <1>0, <2>0, <2>2, <3>1 DEF ProcessAlone, DiskStays, Recovering,
         Admitted, Working, Owning, Pointed, Unpointed, Restored, HasOriginal,
         BeforeVerified, Verified, PointerIsGood
    <3>3. QED
      BY <2>0, <2>2, <3>1, <3>2, OneMoves DEF PC, Unlocked
  <2>5. QED
    BY <2>3, <2>4
<1>3. CASE ReconcileRestore(r)
  <2>0. Active(r) /\ pc[r] = "reconcile_restore"
    BY <1>3 DEF ReconcileRestore, At, Active, Ended
  <2>1. /\ pc' = [pc EXCEPT ![r] = "reconcile_store"]
        /\ config' = [config EXCEPT ![rec[r].plugin] = original[r]]
        /\ UNCHANGED <<arg, rec, original, flow, backup>>
    BY <1>3 DEF ReconcileRestore, WriteConfig, Go, locals, disk
  <2>2. /\ flow \in FlowRecord /\ rec[r] = flow /\ flow.pointer
        /\ original[r] = backup /\ backup # Hardened(flow.plugin)
        /\ flow.plugin \in Plugin
    BY <1>0, <2>0 DEF ProcessAlone, Recovering, Pointed, HasOriginal,
                      FlowRecord
  <2>3. config'[flow.plugin] # Hardened(flow.plugin)
    BY <2>1, <2>2
  <2>4. PointerIsGood' /\ HardenedIsPointedTo'
    BY <1>0, <2>1, <2>2, <2>3 DEF PointerIsGood, HardenedIsPointedTo
  <2>5. ProcessAlone(r)'
    BY <1>0, <2>0, <2>1, <2>2, <2>3 DEF ProcessAlone, Recovering,
       Admitted, Working, Owning, Pointed, Unpointed, Restored, HasOriginal,
       BeforeVerified, Verified
  <2>6. QED
    BY <2>0, <2>1, <2>4, <2>5, OneMoves DEF PC, Unlocked, RecordKept
<1>4. CASE ReconcileStore(r)
  <2>0. Active(r) /\ pc[r] = "reconcile_store"
    BY <1>4 DEF ReconcileStore, At, Active, Ended
  <2>1. /\ pc' = [pc EXCEPT ![r] = "reconcile_remove"]
        /\ flow' = [rec[r] EXCEPT !.pointer = FALSE]
        /\ rec' = [rec EXCEPT ![r] = [rec[r] EXCEPT !.pointer = FALSE]]
        /\ UNCHANGED <<arg, original, config, backup>>
    BY <1>4 DEF ReconcileStore, Store, Go, host
  <2>2. /\ flow \in FlowRecord /\ rec[r] = flow
        /\ config[flow.plugin] # Hardened(flow.plugin)
    BY <1>0, <2>0 DEF ProcessAlone, Recovering, Restored
  <2>3. /\ flow' \in FlowRecord /\ ~flow'.pointer
        /\ flow'.plugin = flow.plugin /\ rec'[r] = flow'
    <3>1. flow' = [flow EXCEPT !.pointer = FALSE] /\ rec'[r] = flow'
      BY <2>1, <2>2
    <3>2. QED
      BY <2>2, <3>1 DEF FlowRecord
  <2>4. PointerIsGood' /\ HardenedIsPointedTo'
    BY <1>0, <2>1, <2>2, <2>3 DEF PointerIsGood, HardenedIsPointedTo
  <2>5. ProcessAlone(r)'
    BY <2>1, <2>3 DEF ProcessAlone, Recovering, Admitted, Working, Owning,
       Pointed, Unpointed, Restored, HasOriginal, BeforeVerified, Verified
  <2>6. QED
    BY <2>0, <2>1, <2>2, <2>3, <2>4, <2>5, OneMoves
       DEF PC, Unlocked, RecordKept
<1>5. CASE ReconcileRemove(r)
  <2>0. Active(r) /\ pc[r] = "reconcile_remove"
    BY <1>5 DEF ReconcileRemove, At, Active, Ended
  <2>1. UNCHANGED <<flow, config>>
    BY <1>5 DEF ReconcileRemove, host
  <2>2. flow \in FlowRecord /\ rec[r] = flow /\ ~flow.pointer
    BY <1>0, <2>0 DEF ProcessAlone, Recovering, Unpointed
  <2>3. PointerIsGood' /\ HardenedIsPointedTo' /\ RecordKept
    BY <1>0, <2>1, <2>2 DEF PointerIsGood, HardenedIsPointedTo, RecordKept
  <2>4. CASE Exit(r, "err")
    BY <2>0, <2>3, <2>4, ExitAlone DEF Ended
  <2>5. CASE ~Exit(r, "err")
    <3>1. /\ pc' = [pc EXCEPT ![r] = "inventory"]
          /\ rec[r].plugin = Plug(r) /\ UNCHANGED locals
      BY <1>5, <2>5 DEF ReconcileRemove, GoOrErr, Go
    <3>2. ProcessAlone(r)'
      BY <2>1, <2>2, <3>1 DEF ProcessAlone, Recovering, Admitted, Working,
         Owning, Pointed, Unpointed, Restored, HasOriginal, BeforeVerified,
         Verified, locals, Plug
    <3>3. QED
      BY <2>0, <2>3, <3>1, <3>2, OneMoves DEF PC, Unlocked
  <2>6. QED
    BY <2>4, <2>5
<1>6. CASE Inventory(r) \/ AcquireLock(r) \/ LockBusy(r)
  <2>1. /\ Active(r) /\ DiskStays
        /\ \/ Exit(r, "err")
           \/ /\ UNCHANGED <<arg, rec, original>>
              /\ \/ pc[r] = "inventory" /\ Go(r, "lock")
                 \/ pc[r] = "lock" /\ Go(r, "resolve")
    BY <1>6 DEF Inventory, AcquireLock, LockBusy, At, Active, Ended, DiskStays,
                disk, host
  <2>2. CASE Exit(r, "err")
    BY <2>1, <2>2, EndAlone DEF Ended
  <2>3. CASE ~Exit(r, "err")
    BY <2>1, <2>3, GoAlone DEF Forgets, Recovering, Admitted, Working, Owning,
       Pointed, Unpointed, Restored, HasOriginal, BeforeVerified, Verified,
       PC, Unlocked, Locked
  <2>4. QED
    BY <2>2, <2>3
<1>7. QED
  BY <1>1, <1>2, <1>3, <1>4, <1>5, <1>6 DEF Recover

\* Nothing of the record moves while the candidate is reviewed.
LEMMA ReviewAlone ==
    ASSUME TypeInv, AloneInv, NEW r \in Run, Review(r)
    PROVE  AloneInv' /\ RecordKept
<1>1. Active(r) /\ DiskStays
  BY DEF Review, NothingToUpdate, ResolveCandidate, CandidateRefused, Evaluate,
         Approve, Reject, InterruptionCheckpoint, At, Active, Ended, DiskStays,
         disk, host
<1>2. \/ Exit(r, "ok") \/ Exit(r, "err")
      \/ /\ UNCHANGED <<arg, rec, original>>
         /\ \/ pc[r] = "resolve" /\ Go(r, "evaluate")
            \/ pc[r] = "evaluate" /\ Go(r, "approve")
            \/ pc[r] = "approve" /\ Go(r, "store")
  BY DEF Review, NothingToUpdate, ResolveCandidate, CandidateRefused, Evaluate,
         Approve, Reject, InterruptionCheckpoint, At, GoOrErr, locals
<1>3. CASE Exit(r, "ok") \/ Exit(r, "err")
  BY <1>1, <1>3, EndAlone DEF Ended
<1>4. CASE ~Exit(r, "ok") /\ ~Exit(r, "err")
  BY <1>1, <1>2, <1>4, GoAlone DEF Forgets, Recovering, Admitted, Working,
     Owning, Pointed, Unpointed, Restored, HasOriginal, BeforeVerified,
     Verified, PC, Unlocked, Locked
<1>5. QED
  BY <1>3, <1>4

\* Quiescing, hardening, updating, restoring, and the way out of each.
LEMMA DelegateAlone ==
    ASSUME TypeInv, AloneInv, NEW r \in Run, Delegate(r)
    PROVE  AloneInv' /\ RecordKept
<1> USE AloneTyped
<1>0. ProcessAlone(r) /\ PointerIsGood /\ HardenedIsPointedTo
  BY DEF AloneInv
<1>1. CASE StoreRecord(r)
  <2> DEFINE f == [plugin |-> Plug(r), by |-> r, phase |-> "quiescing",
                   pointer |-> FALSE, quiesced |-> FALSE]
  <2>1. pc[r] = "store" /\ Active(r)
    BY <1>1 DEF StoreRecord, At, Active, Ended
  <2>2. f \in FlowRecord /\ f.plugin = Plug(r) /\ f.by = r /\ ~f.pointer
    BY <2>1 DEF FlowRecord, Phase
  <2>3. /\ \/ flow = None
           \/ flow \in FlowRecord /\ flow.plugin = Plug(r)
        /\ flow \in FlowRecord => ~flow.pointer
    BY <1>0, <2>1 DEF ProcessAlone, Admitted, Unpointed
  <2>4. /\ Store(r, f) /\ Go(r, "quiesce")
        /\ UNCHANGED <<arg, original, backup, config>>
    BY <1>1 DEF StoreRecord, host
  <2> HIDE DEF f
  <2>5. QED
    BY <2>1, <2>2, <2>3, <2>4, UnpointAlone
       DEF Working, BeforeVerified, Unpointed, HasOriginal, Restored
<1>2. CASE Quiesce(r)
  <2>1. pc[r] = "quiesce" /\ Active(r) /\ DiskStays
    BY <1>2 DEF Quiesce, At, Active, Ended, DiskStays, disk
  <2>2. OwnRecord(r) /\ ~flow.pointer /\ rec[r] \in FlowRecord
    BY <1>0, <2>1 DEF ProcessAlone, OwnRecord, Working, BeforeVerified,
                      Unpointed, HasRecord
  <2>3. PICK q \in {"store_quiesced", "fail_store"} : Go(r, q)
    BY <1>2 DEF Quiesce
  <2>4. pc' = [pc EXCEPT ![r] = q] /\ pc'[r] = q /\ q \in PC
    BY <2>3 DEF Go, PC, Locked, BeforeVerified
  <2>5. /\ rec'[r] = [rec[r] EXCEPT !.quiesced = TRUE]
        /\ UNCHANGED <<arg, original>>
    BY <1>2 DEF Quiesce, Keep
  <2>6. /\ rec'[r].plugin = rec[r].plugin /\ rec'[r].by = rec[r].by
        /\ rec'[r].pointer = rec[r].pointer
    BY <2>2, <2>5 DEF FlowRecord
  <2>7. OwnRecord(r)'
    BY <2>1, <2>2, <2>5, <2>6 DEF OwnRecord, DiskStays, Plug
  <2>8. /\ q \in Working
        /\ q \notin Recovering \cup Admitted \cup Pointed \cup HasOriginal
        /\ q \notin Restored /\ q # "remove_stale_backup"
    BY DEF Working, BeforeVerified, Recovering, Admitted, Pointed,
           HasOriginal, Restored
  <2>9. ProcessAlone(r)'
    BY <2>1, <2>2, <2>4, <2>7, <2>8
       DEF ProcessAlone, OwnRecord, DiskStays
  <2>10. PointerIsGood' /\ HardenedIsPointedTo' /\ RecordKept
    BY <1>0, <2>1 DEF DiskStays, PointerIsGood, HardenedIsPointedTo,
                      RecordKept
  <2>11. QED
    BY <2>1, <2>4, <2>9, <2>10, OneMoves
<1>3. CASE NotLive(r) \/ AuditBefore(r) \/ NativeUpdate(r)
           \/ TamperedDecision(r) \/ UpdateOutcome(r) \/ FailDecision(r)
  <2>1. /\ Active(r) /\ DiskStays /\ UNCHANGED <<arg, rec, original>>
        /\ \/ pc[r] = "quiesce" /\ Go(r, "store_auditing")
           \/ pc[r] = "audit" /\ Go(r, "store_delegating")
           \/ pc[r] = "audit" /\ Go(r, "fail_store")
           \/ pc[r] = "update" /\ Go(r, "restore")
           \/ pc[r] = "tampered_decision" /\ Go(r, "tampered_store")
           \/ pc[r] = "outcome" /\ Go(r, "store_verifying")
           \/ pc[r] = "outcome" /\ Go(r, "fail_decision")
           \/ pc[r] = "fail_decision" /\ Go(r, "fail_store")
    BY <1>3 DEF NotLive, AuditBefore, NativeUpdate, TamperedDecision,
       UpdateOutcome, FailDecision, At, Active, Ended, DiskStays, disk, host,
       locals
  <2>2. QED
    BY <2>1, GoAlone DEF Forgets, Recovering, Admitted, Working, Owning,
       Pointed, Unpointed, Restored, HasOriginal, BeforeVerified, Verified,
       PC, Locked
<1>4. CASE StoreQuiesced(r) \/ StorePhase(r)
  <2>1. PICK f \in FlowRecord, q \in {"store_auditing", "audit", "backup",
                                      "rescan"} :
          /\ f.plugin = Plug(r) /\ f.by = r /\ ~f.pointer
          /\ Store(r, f) /\ Go(r, q)
    <3>1. pc[r] \in {"store_quiesced", "store_auditing", "store_delegating",
                     "store_verifying"}
      BY <1>4 DEF StoreQuiesced, StorePhase, EnterPhase, At
    <3>2. OwnRecord(r) /\ ~flow.pointer /\ rec[r] \in FlowRecord
      BY <1>0, <3>1 DEF ProcessAlone, OwnRecord, Working, BeforeVerified,
                        Unpointed, HasRecord
    <3>3. CASE StoreQuiesced(r)
      BY <3>2, <3>3 DEF StoreQuiesced, OwnRecord
    <3>4. CASE StorePhase(r)
      <4>1. PICK ph \in {"auditing", "delegating", "verifying"},
                 q \in {"audit", "backup", "rescan"} :
              Store(r, [rec[r] EXCEPT !.phase = ph]) /\ Go(r, q)
        BY <3>4 DEF StorePhase, EnterPhase
      <4> DEFINE f == [rec[r] EXCEPT !.phase = ph]
      <4>2. /\ f \in FlowRecord /\ f.plugin = Plug(r) /\ f.by = r
            /\ ~f.pointer
        BY <3>2 DEF FlowRecord, OwnRecord, Phase
      <4> HIDE DEF f
      <4>3. Store(r, f)
        BY <4>1 DEF f
      <4>4. QED
        BY <4>1, <4>2, <4>3
    <3>5. QED
      BY <1>4, <3>3, <3>4
  <2>2. /\ Active(r) /\ UNCHANGED <<arg, original, backup, config>>
        /\ pc[r] \in Working /\ pc[r] \in Unpointed
    BY <1>4 DEF StoreQuiesced, StorePhase, EnterPhase, At, Active, Ended,
                host, Working, BeforeVerified, Unpointed
  <2>3. flow \in FlowRecord /\ flow.plugin = Plug(r) /\ ~flow.pointer
    BY <1>0, <2>2 DEF ProcessAlone, OwnRecord
  <2>4. /\ q \in Working /\ q \in Unpointed
        /\ q \notin HasOriginal /\ q \notin Restored
    BY DEF Working, BeforeVerified, Unpointed, HasOriginal, Restored
  <2>5. QED
    BY <2>1, <2>2, <2>3, <2>4, UnpointAlone
<1>5. CASE ClearPointer(r)
  <2> DEFINE f == [rec[r] EXCEPT !.pointer = FALSE]
  <2>1. /\ pc[r] = "clear_pointer" /\ Active(r)
        /\ UNCHANGED <<arg, original, backup, config>>
    BY <1>5 DEF ClearPointer, At, Active, Ended, host
  <2>2. /\ OwnRecord(r) /\ rec[r] \in FlowRecord
        /\ config[flow.plugin] # Hardened(flow.plugin)
    BY <1>0, <2>1 DEF ProcessAlone, Working, BeforeVerified, Restored,
                      HasRecord
  <2>3. f \in FlowRecord /\ f.plugin = Plug(r) /\ f.by = r /\ ~f.pointer
    BY <2>2 DEF FlowRecord, OwnRecord
  <2>4. Store(r, f) /\ Go(r, "remove_backup")
    BY <1>5 DEF ClearPointer
  <2> HIDE DEF f
  <2>5. QED
    BY <2>1, <2>2, <2>3, <2>4, UnpointAlone DEF OwnRecord,
       Working, BeforeVerified, Unpointed, HasOriginal, Restored
<1>6. CASE TamperedStore(r)
  <2> DEFINE f == [rec[r] EXCEPT !.pointer = FALSE, !.phase = "failed"]
  <2>1. /\ pc[r] = "tampered_store" /\ Active(r)
        /\ UNCHANGED <<arg, original, backup, config>>
    BY <1>6 DEF TamperedStore, At, Active, Ended, host
  <2>2. /\ OwnRecord(r) /\ rec[r] \in FlowRecord
        /\ config[flow.plugin] # Hardened(flow.plugin)
    BY <1>0, <2>1 DEF ProcessAlone, Working, BeforeVerified, Restored,
                      HasRecord
  <2>3. f \in FlowRecord /\ f.plugin = Plug(r) /\ f.by = r /\ ~f.pointer
    BY <2>2 DEF FlowRecord, OwnRecord, Phase
  <2>4. Store(r, f) /\ Go(r, "tampered_remove")
    BY <1>6 DEF TamperedStore
  <2> HIDE DEF f
  <2>5. QED
    BY <2>1, <2>2, <2>3, <2>4, UnpointAlone DEF OwnRecord,
       Working, BeforeVerified, Unpointed, HasOriginal, Restored
<1>7. CASE WriteBackup(r)
  <2>1. pc[r] = "backup" /\ Active(r)
    BY <1>7 DEF WriteBackup, At, Active, Ended
  <2>2. /\ pc' = [pc EXCEPT ![r] = "store_pointer"]
        /\ original' = [original EXCEPT ![r] = config[Plug(r)]]
        /\ backup' = config[Plug(r)] /\ UNCHANGED <<arg, rec, flow, config>>
    BY <1>7 DEF WriteBackup, Go, host
  <2>3. OwnRecord(r) /\ ~flow.pointer /\ Plug(r) \in Plugin
    BY <1>0, <2>1, AloneTyped DEF ProcessAlone, OwnRecord, Working,
                                  BeforeVerified, Unpointed
  <2>4. /\ backup' \in Bytes /\ backup' # None /\ original'[r] = backup'
        /\ backup' # Hardened(flow.plugin)
    BY <1>0, <2>2, <2>3, NoneIsFresh DEF HardenedIsPointedTo, OwnRecord
  <2>5. PointerIsGood' /\ HardenedIsPointedTo' /\ RecordKept
    BY <1>0, <2>2, <2>3 DEF PointerIsGood, HardenedIsPointedTo, RecordKept
  <2>6. /\ pc'[r] = "store_pointer" /\ "store_pointer" \in PC
        /\ "store_pointer" \notin Recovering \cup Admitted \cup Pointed
        /\ "store_pointer" \notin Restored
    BY <2>2 DEF PC, Locked, BeforeVerified, Recovering, Admitted, Pointed,
                Restored
  <2>7. OwnRecord(r)'
    BY <2>2, <2>3 DEF OwnRecord, Plug
  <2>8. ProcessAlone(r)'
    BY <2>2, <2>3, <2>4, <2>6, <2>7 DEF ProcessAlone, OwnRecord
  <2>9. QED
    BY <2>1, <2>2, <2>5, <2>6, <2>8, OneMoves
<1>8. CASE StorePointer(r)
  <2>1. pc[r] = "store_pointer" /\ Active(r)
    BY <1>8 DEF StorePointer, At, Active, Ended
  <2>2. /\ pc' = [pc EXCEPT ![r] = "harden"]
        /\ flow' = [rec[r] EXCEPT !.pointer = TRUE] /\ rec'[r] = flow'
        /\ UNCHANGED <<arg, original, config, backup>>
    BY <1>8 DEF StorePointer, Store, Go, host
  <2>3. /\ OwnRecord(r) /\ ~flow.pointer /\ rec[r] \in FlowRecord
        /\ original[r] = backup /\ backup # None
        /\ backup # Hardened(flow.plugin)
    BY <1>0, <2>1 DEF ProcessAlone, OwnRecord, Working, BeforeVerified,
                      Unpointed, HasRecord, HasOriginal
  <2>4. /\ flow' \in FlowRecord /\ flow'.pointer /\ flow'.plugin = Plug(r)
        /\ flow'.by = r
    BY <2>2, <2>3 DEF FlowRecord, OwnRecord
  <2>5. PointerIsGood' /\ HardenedIsPointedTo' /\ RecordKept
    BY <1>0, <2>2, <2>3, <2>4 DEF PointerIsGood, HardenedIsPointedTo,
                                  RecordKept, OwnRecord
  <2>6. /\ pc'[r] = "harden" /\ "harden" \in PC
        /\ "harden" \notin Recovering \cup Admitted \cup Unpointed
        /\ "harden" \notin Restored
    BY <2>2 DEF PC, Locked, BeforeVerified, Recovering, Admitted, Unpointed,
                Restored
  <2>7. OwnRecord(r)'
    BY <2>2, <2>4 DEF OwnRecord, Plug
  <2>8. ProcessAlone(r)'
    BY <2>2, <2>3, <2>4, <2>6, <2>7 DEF ProcessAlone, OwnRecord
  <2>9. QED
    BY <2>1, <2>2, <2>5, <2>6, <2>8, OneMoves
<1>9. CASE Harden(r)
  <2>1. pc[r] = "harden" /\ Active(r)
    BY <1>9 DEF Harden, At, Active, Ended
  <2>2. /\ pc' = [pc EXCEPT ![r] = "update"]
        /\ config' = [config EXCEPT ![Plug(r)] = Hardened(Plug(r))]
        /\ UNCHANGED <<arg, rec, original, flow, backup>>
    BY <1>9 DEF Harden, Go, locals, disk
  <2>3. OwnRecord(r) /\ flow.pointer
    BY <1>0, <2>1 DEF ProcessAlone, Working, BeforeVerified, Pointed
  <2>4. PointerIsGood' /\ HardenedIsPointedTo' /\ RecordKept
    BY <1>0, <2>2, <2>3 DEF PointerIsGood, HardenedIsPointedTo, RecordKept,
                            OwnRecord
  <2>5. /\ pc'[r] = "update" /\ "update" \in PC
        /\ "update" \notin Recovering \cup Admitted \cup Unpointed
        /\ "update" \notin Restored
    BY <2>2 DEF PC, Locked, BeforeVerified, Recovering, Admitted, Unpointed,
                Restored
  <2>6. OwnRecord(r)' /\ original'[r] = backup'
    BY <1>0, <2>1, <2>2, <2>3 DEF OwnRecord, Plug, ProcessAlone, HasOriginal
  <2>7. ProcessAlone(r)'
    BY <1>0, <2>1, <2>2, <2>3, <2>5, <2>6
       DEF ProcessAlone, OwnRecord, HasOriginal
  <2>8. QED
    BY <2>1, <2>2, <2>4, <2>5, <2>7, OneMoves
<1>10. CASE RestoreConfig(r)
  <2>1. pc[r] = "restore" /\ Active(r)
    BY <1>10 DEF RestoreConfig, At, Active, Ended
  <2>2. PICK q \in {"tampered_decision", "clear_pointer"} : Go(r, q)
    BY <1>10 DEF RestoreConfig
  <2>3. /\ pc' = [pc EXCEPT ![r] = q] /\ pc'[r] = q
        /\ config' = [config EXCEPT ![Plug(r)] = original[r]]
        /\ UNCHANGED <<arg, rec, original, flow, backup>>
    BY <1>10, <2>2 DEF RestoreConfig, WriteConfig, Go, locals, disk
  <2>4. /\ OwnRecord(r) /\ flow.pointer /\ flow.plugin \in Plugin
        /\ original[r] = backup /\ backup # Hardened(flow.plugin)
    BY <1>0, <2>1 DEF ProcessAlone, OwnRecord, Working, BeforeVerified,
                      Pointed, HasOriginal, FlowRecord
  <2>5. config'[flow.plugin] # Hardened(flow.plugin)
    BY <2>3, <2>4 DEF OwnRecord
  <2>6. PointerIsGood' /\ HardenedIsPointedTo' /\ RecordKept
    BY <1>0, <2>3, <2>4, <2>5 DEF PointerIsGood, HardenedIsPointedTo,
                                  RecordKept, OwnRecord
  <2>7. /\ q \in PC
        /\ q \notin Recovering \cup Admitted \cup Unpointed \cup HasOriginal
        /\ q # "remove_stale_backup"
    BY DEF PC, Locked, BeforeVerified, Recovering, Admitted, Unpointed,
           HasOriginal
  <2>8. OwnRecord(r)'
    BY <2>3, <2>4 DEF OwnRecord, Plug
  <2>9. ProcessAlone(r)'
    BY <2>3, <2>4, <2>5, <2>7, <2>8 DEF ProcessAlone, OwnRecord
  <2>10. QED
    BY <2>1, <2>3, <2>6, <2>7, <2>9, OneMoves
<1>11. CASE RemoveBackup(r)
  <2>1. pc[r] = "remove_backup" /\ Active(r)
    BY <1>11 DEF RemoveBackup, At, Active, Ended
  <2>2. /\ pc' = [pc EXCEPT ![r] = "outcome"]
        /\ UNCHANGED <<arg, rec, original, flow, config>>
    BY <1>11 DEF RemoveBackup, Go, locals, host
  <2>3. OwnRecord(r) /\ ~flow.pointer
    BY <1>0, <2>1 DEF ProcessAlone, OwnRecord, Working, BeforeVerified,
                      Unpointed
  <2>4. PointerIsGood' /\ HardenedIsPointedTo' /\ RecordKept
    BY <1>0, <2>2, <2>3 DEF PointerIsGood, HardenedIsPointedTo, RecordKept
  <2>5. /\ pc'[r] = "outcome" /\ "outcome" \in PC
        /\ "outcome" \notin Recovering \cup Admitted \cup Pointed
        /\ "outcome" \notin Restored \cup HasOriginal
    BY <2>2 DEF PC, Locked, BeforeVerified, Recovering, Admitted, Pointed,
                Restored, HasOriginal
  <2>6. OwnRecord(r)'
    BY <2>2, <2>3 DEF OwnRecord, Plug
  <2>7. ProcessAlone(r)'
    BY <2>2, <2>3, <2>5, <2>6 DEF ProcessAlone, OwnRecord
  <2>8. QED
    BY <2>1, <2>2, <2>4, <2>5, <2>7, OneMoves
<1>12. CASE TamperedRemove(r)
  <2>1. pc[r] = "tampered_remove" /\ Active(r)
    BY <1>12 DEF TamperedRemove, At, Active, Ended
  <2>2. Exit(r, "err") /\ UNCHANGED <<flow, config>>
    BY <1>12 DEF TamperedRemove, host
  <2>3. flow \in FlowRecord /\ ~flow.pointer
    BY <1>0, <2>1 DEF ProcessAlone, OwnRecord, Working, BeforeVerified,
                      Unpointed
  <2>4. PointerIsGood' /\ HardenedIsPointedTo' /\ RecordKept
    BY <1>0, <2>2, <2>3 DEF PointerIsGood, HardenedIsPointedTo, RecordKept
  <2>5. QED
    BY <2>1, <2>2, <2>4, ExitAlone DEF Ended
<1>13. CASE FailStore(r)
  <2>1. /\ pc[r] \in Working /\ flow' = [rec[r] EXCEPT !.phase = "failed"]
        /\ Exit(r, "err") /\ UNCHANGED <<backup, config>>
    BY <1>13 DEF FailStore, At, Working, BeforeVerified, host
  <2>2. QED
    BY <2>1, LeaveAlone DEF Phase
<1>14. QED
  BY <1>1, <1>2, <1>3, <1>4, <1>5, <1>6, <1>7, <1>8, <1>9, <1>10, <1>11,
     <1>12, <1>13 DEF Delegate

\* Postconditions, enable, trust, and the record's removal.
LEMMA VerifyAlone ==
    ASSUME TypeInv, AloneInv, NEW r \in Run, Verify(r)
    PROVE  AloneInv' /\ RecordKept
<1> USE AloneTyped
<1>0. ProcessAlone(r) /\ PointerIsGood /\ HardenedIsPointedTo
  BY DEF AloneInv
<1>1. CASE Rescan(r) \/ Collect(r) \/ AuditAfter(r) \/ Analyze(r)
           \/ PersistVerified(r) \/ Enable(r) \/ EnableWarning(r) \/ Accept(r)
  <2>1. /\ Active(r) /\ DiskStays /\ UNCHANGED <<arg, rec, original>>
        /\ \/ pc[r] = "rescan" /\ Go(r, "collect")
           \/ pc[r] = "rescan" /\ Go(r, "fail_decision")
           \/ pc[r] = "collect" /\ Go(r, "reaudit")
           \/ pc[r] = "collect" /\ Go(r, "fail_decision")
           \/ pc[r] = "reaudit" /\ Go(r, "analyze")
           \/ pc[r] = "reaudit" /\ Go(r, "fail_decision")
           \/ pc[r] = "analyze" /\ Go(r, "decide")
           \/ pc[r] = "analyze" /\ Go(r, "fail_decision")
           \/ pc[r] = "decide" /\ Go(r, "enable")
           \/ pc[r] = "enable" /\ Go(r, "accept")
           \/ pc[r] = "enable" /\ Go(r, "enable_failed")
           \/ pc[r] = "enable_failed" /\ Go(r, "accept")
           \/ pc[r] = "accept" /\ Go(r, "remove_record")
    BY <1>1 DEF Rescan, Collect, AuditAfter, Analyze, PersistVerified, Enable,
       EnableWarning, Accept, At, Active, Ended, DiskStays, disk, host, locals
  <2>2. QED
    BY <2>1, GoAlone DEF Forgets, Recovering, Admitted, Working, Owning,
       Pointed, Unpointed, Restored, HasOriginal, BeforeVerified, Verified,
       PC, Locked
<1>2. CASE InterruptedVerified(r)
  <2>1. /\ pc[r] \in Working /\ flow' = [rec[r] EXCEPT !.phase = "verifying"]
        /\ Exit(r, "err") /\ UNCHANGED <<backup, config>>
    BY <1>2 DEF InterruptedVerified, Working, Verified, host
  <2>2. QED
    BY <2>1, LeaveAlone DEF Phase
<1>3. CASE RemoveRecord(r)
  <2>1. At(r, "remove_record") /\ pc[r] = "remove_record" /\ Active(r)
    BY <1>3 DEF RemoveRecord, At, Active, Ended
  <2>2. /\ pc' = [pc EXCEPT ![r] = "remove_stale_backup"] /\ flow' = None
        /\ UNCHANGED <<backup, config>>
    BY <1>3 DEF RemoveRecord, Go, host
  <2>3. flow \in FlowRecord /\ flow.plugin = Plug(r) /\ ~flow.pointer
    BY <1>0, <2>1 DEF ProcessAlone, Owning, Unpointed
  <2>4. PointerIsGood' /\ HardenedIsPointedTo' /\ RecordKept
    BY <1>0, <2>1, <2>2, <2>3, NoneIsFresh
       DEF PointerIsGood, HardenedIsPointedTo, RecordKept
  <2>5. /\ pc'[r] = "remove_stale_backup" /\ "remove_stale_backup" \in PC
        /\ pc'[r] \notin Recovering \cup Admitted \cup Working \cup Owning
        /\ pc'[r] \notin Pointed \cup Unpointed \cup HasOriginal \cup Restored
    BY <2>2 DEF PC, Locked, Recovering, Admitted, Working, Owning, Pointed,
                Unpointed, Restored, HasOriginal, BeforeVerified, Verified
  <2>6. ProcessAlone(r)'
    BY <2>2, <2>5 DEF ProcessAlone
  <2>7. QED
    BY <2>1, <2>2, <2>4, <2>5, <2>6, OneMoves
<1>4. CASE RemoveStaleBackup(r)
  <2>1. pc[r] = "remove_stale_backup" /\ Active(r)
    BY <1>4 DEF RemoveStaleBackup, At, Active, Ended
  <2>2. Exit(r, "ok") /\ UNCHANGED <<flow, config>>
    BY <1>4 DEF RemoveStaleBackup, host
  <2>3. flow = None
    BY <1>0, <2>1 DEF ProcessAlone
  <2>4. PointerIsGood' /\ HardenedIsPointedTo' /\ RecordKept
    BY <1>0, <2>2, <2>3, NoneIsFresh
       DEF PointerIsGood, HardenedIsPointedTo, RecordKept
  <2>5. QED
    BY <2>1, <2>2, <2>4, ExitAlone DEF Ended
<1>5. QED
  BY <1>1, <1>2, <1>3, <1>4 DEF Verify

\* Signals, kills, a restore that fails, evidence that cannot be had.
LEMMA FaultAlone ==
    ASSUME TypeInv, AloneInv, NEW r \in Run, Fault(r)
    PROVE  AloneInv' /\ RecordKept
<1> USE AloneTyped
<1>0. ProcessAlone(r) /\ PointerIsGood /\ HardenedIsPointedTo
  BY DEF AloneInv
<1>1. CASE Signal(r)
  BY <1>1, NothingAlone DEF Signal, DiskStays, locals, disk, host
<1>2. CASE Die(r)
  BY <1>2, EndAlone DEF Die, DiskStays, disk, Ended
<1>3. CASE RestoreFailed(r)
  <2>1. pc[r] = "restore" /\ Active(r)
    BY <1>3 DEF RestoreFailed, At, Active, Ended
  <2>2. /\ pc' = [pc EXCEPT ![r] = "fail_decision"]
        /\ \/ config' = [config EXCEPT ![Plug(r)] = original[r]]
           \/ UNCHANGED config
        /\ UNCHANGED <<arg, rec, original, flow, backup>>
    BY <1>3 DEF RestoreFailed, WriteConfig, Go, locals, disk
  <2>3. /\ OwnRecord(r) /\ original[r] = backup
        /\ backup # Hardened(flow.plugin)
    BY <1>0, <2>1 DEF ProcessAlone, Working, BeforeVerified, HasOriginal
  <2>4. PointerIsGood' /\ HardenedIsPointedTo' /\ RecordKept
    <3>1. ASSUME NEW p \in Plugin, config'[p] = Hardened(p)
          PROVE  config[p] = Hardened(p)
      BY <2>2, <2>3, <3>1 DEF OwnRecord
    <3>2. QED
      BY <1>0, <2>2, <3>1 DEF PointerIsGood, HardenedIsPointedTo, RecordKept
  <2>5. /\ pc'[r] = "fail_decision" /\ "fail_decision" \in PC
        /\ "fail_decision" \notin Recovering \cup Admitted \cup Pointed
        /\ "fail_decision" \notin Unpointed \cup HasOriginal \cup Restored
    BY <2>2 DEF PC, Locked, Recovering, Admitted, Pointed, Unpointed,
                Restored, HasOriginal, BeforeVerified
  <2>6. OwnRecord(r)'
    BY <2>2, <2>3 DEF OwnRecord, Plug
  <2>7. ProcessAlone(r)'
    BY <2>2, <2>5, <2>6 DEF ProcessAlone, OwnRecord
  <2>8. QED
    BY <2>1, <2>2, <2>4, <2>5, <2>7, OneMoves
<1>4. CASE EvidenceUnavailable(r)
  <2>1. /\ Active(r) /\ DiskStays /\ UNCHANGED <<arg, rec, original>>
        /\ pc[r] \in {"rescan", "collect", "reaudit", "analyze"}
        /\ Go(r, "fail_decision")
    BY <1>4 DEF EvidenceUnavailable, Active, Ended, DiskStays, disk, host,
                locals
  <2>2. QED
    BY <2>1, GoAlone DEF Forgets, Recovering, Admitted, Working, Owning,
       Pointed, Unpointed, Restored, HasOriginal, BeforeVerified, Verified,
       PC, Locked
<1>5. QED
  BY <1>1, <1>2, <1>3, <1>4 DEF Fault

\* Others write content no hardened config has, or leave the config alone.
LEMMA OutsideAlone ==
    ASSUME TypeInv, AloneInv, NEW p \in Plugin, Outside(p)
    PROVE  AloneInv' /\ RecordKept
<1> USE AloneTyped
<1>1. CASE OrphanFinishes(p) \/ Rebaseline(p)
  <2>1. UNCHANGED <<pc, arg, rec, original>> /\ DiskStays
    BY <1>1 DEF OrphanFinishes, Rebaseline, DiskStays, locals, disk, host
  <2>2. QED
    BY <2>1, NothingAlone
<1>2. CASE ForeignEdit(p)
  <2>1. /\ UNCHANGED <<pc, arg, rec, original, flow, backup>>
        /\ \/ config' = [config EXCEPT ![p] = Foreign(p)]
           \/ UNCHANGED config
    BY <1>2 DEF ForeignEdit, WriteConfig, locals, disk
  <2>2. \A q \in Plugin : config'[q] = Hardened(q) => config[q] = Hardened(q)
    BY <2>1 DEF Foreign, Hardened
  <2>3. ASSUME NEW r \in Run PROVE ProcessAlone(r)'
    <3>1. ProcessAlone(r)
      BY DEF AloneInv
    <3>2. pc[r] \in Restored => flow \in FlowRecord /\ flow.plugin \in Plugin
      BY <3>1 DEF ProcessAlone, OwnRecord, Restored, Recovering, Working,
                  BeforeVerified, FlowRecord
    <3>3. QED
      BY <2>1, <2>2, <3>1, <3>2 DEF ProcessAlone, OwnRecord, Plug
  <2>4. Lonely' /\ PointerIsGood' /\ HardenedIsPointedTo'
    BY <2>1, <2>2 DEF AloneInv, Lonely, PointerIsGood, HardenedIsPointedTo,
                      Active
  <2>5. QED
    BY <2>1, <2>3, <2>4 DEF AloneInv, RecordKept
<1>3. QED
  BY <1>1, <1>2 DEF Outside

\* An invocation starts only when none is under way.
LEMMA NoneUnderWay ==
    ASSUME AloneInv, MaxActive = 1, NEW r \in Run, Begin(r)
    PROVE  \A s \in Run : ~Active(s)
<1>1. Cardinality({s \in Run : Active(s)}) < 1
  BY DEF Begin, Start
<1>2. SUFFICES ASSUME NEW s \in Run, Active(s) PROVE FALSE
  OBVIOUS
<1>3. {t \in Run : Active(t)} = {s}
  BY <1>2 DEF AloneInv, Lonely
<1>4. Cardinality({s}) = 1
  BY FS_Singleton
<1>5. QED
  BY <1>1, <1>3, <1>4

\* An invocation that begins finds nobody and knows nothing.
LEMMA BeginAlone ==
    ASSUME TypeInv, AloneInv, MaxActive = 1, NEW r \in Run, Begin(r)
    PROVE  AloneInv' /\ RecordKept
<1> USE AloneTyped
<1>1. PICK p \in Plugin, c \in Commit : Start(r, p, c)
  BY DEF Begin
<1>2. /\ pc' = [pc EXCEPT ![r] = "load"] /\ DiskStays
      /\ Cardinality({s \in Run : Active(s)}) < 1
  BY <1>1 DEF Start, Go, DiskStays, disk, host
<1>3. \A s \in Run : ~Active(s)
  BY NoneUnderWay
<1>4. ASSUME NEW s \in Run PROVE ProcessAlone(s)'
  <2>1. pc'[s] \in {"idle", "load"} \cup Ended
    BY <1>2, <1>3 DEF Active
  <2>2. QED
    BY <2>1 DEF ProcessAlone, Recovering, Admitted, Working, Owning, Pointed,
       Unpointed, Restored, HasOriginal, BeforeVerified, Verified, Ended
<1>5. Lonely'
  BY <1>2, <1>3 DEF Lonely, Active
<1>6. PointerIsGood' /\ HardenedIsPointedTo' /\ RecordKept
  BY <1>2 DEF AloneInv, DiskStays, PointerIsGood, HardenedIsPointedTo,
              RecordKept
<1>7. QED
  BY <1>4, <1>5, <1>6 DEF AloneInv

\* Every step, whoever takes it.
LEMMA NextAlone ==
    MaxActive = 1 => (TypeInv /\ AloneInv /\ [Next]_vars
                         => AloneInv' /\ RecordKept)
<1> SUFFICES ASSUME MaxActive = 1, TypeInv, AloneInv, [Next]_vars
             PROVE  AloneInv' /\ RecordKept
  OBVIOUS
<1>1. CASE \E r \in Run : Begin(r) \/ Step(r) \/ Fault(r)
  BY <1>1, BeginAlone, RecoverAlone, ReviewAlone, DelegateAlone, VerifyAlone,
     FaultAlone DEF Step
<1>2. CASE \E p \in Plugin : Outside(p)
  BY <1>2, OutsideAlone
<1>3. CASE UNCHANGED vars
  BY <1>3, NothingAlone DEF vars, DiskStays, locals, disk, host
<1>4. QED
  BY <1>1, <1>2, <1>3 DEF Next, Finished

LEMMA InitAlone == Init => AloneInv
<1> SUFFICES ASSUME Init PROVE AloneInv
  OBVIOUS
<1>1. /\ \A r \in Run : pc[r] = "idle"
      /\ flow \notin FlowRecord
      /\ \A p \in Plugin : config[p] # Hardened(p)
  BY NoneIsFresh DEF Init, Audited, Hardened
<1>2. \A r \in Run : ProcessAlone(r)
  BY <1>1, InactiveIsFree
<1>3. QED
  BY <1>1, <1>2 DEF AloneInv, Lonely, PointerIsGood, HardenedIsPointedTo,
                    Active

LEMMA AloneHolds ==
    ASSUME MaxActive = 1
    PROVE  Spec => [](TypeInv /\ AloneInv)
<1>1. Init => TypeInv /\ AloneInv
  BY InitTyped, InitAlone
<1>2. TypeInv /\ AloneInv /\ [Next]_vars => (TypeInv /\ AloneInv)'
  BY NextTyped, NextAlone
<1>3. QED
  BY <1>1, <1>2, PTL DEF Spec

-----------------------------------------------------------------------------
(* The record, the backup and the hardened config                          *)

\* Killed wherever it may be, a run leaves a hardened .git/config only with
\* its original on disk and the recovery record pointing to it: the order of
\* swap_to_hardened and of reconcile_config_backup, for any number of runs
\* one after the other, kills, signals, orphaned updaters and foreign writes.
THEOREM HardenedRecoverable ==
    ASSUME MaxActive = 1 PROVE Spec => []HardenedIsRecoverable
<1>1. TypeInv /\ AloneInv => HardenedIsRecoverable
  BY DEF AloneInv, HardenedIsPointedTo, PointerIsGood, HardenedIsRecoverable
<1>2. QED
  BY <1>1, AloneHolds, PTL

\* The record never references a backup that is gone.
THEOREM BackupPresent ==
    ASSUME MaxActive = 1 PROVE Spec => []PointerHasBackup
<1>1. TypeInv /\ AloneInv => PointerHasBackup
  BY DEF AloneInv, PointerIsGood, PointerHasBackup
<1>2. QED
  BY <1>1, AloneHolds, PTL

\* A run between its first mutation and its outcome has its record on disk.
THEOREM MutationCovered ==
    ASSUME MaxActive = 1 PROVE Spec => []RecordCoversMutation
<1>1. TypeInv /\ AloneInv => RecordCoversMutation
  BY DEF AloneInv, ProcessAlone, OwnRecord, Working, RecordCoversMutation
<1>2. QED
  BY <1>1, AloneHolds, PTL

\* No step replaces an unresolved record by another plugin's, and only a run
\* that completed removes one.
THEOREM RecordIsKept ==
    ASSUME MaxActive = 1 PROVE Spec => UnresolvedRecordKept
<1>1. TypeInv /\ AloneInv /\ [Next]_vars => [RecordKept]_vars
  BY NextAlone
<1>2. Spec => [][RecordKept]_vars
  BY <1>1, AloneHolds, PTL DEF Spec
<1>3. QED
  BY <1>2 DEF UnresolvedRecordKept, RecordKept

-----------------------------------------------------------------------------
(* Nothing runs that nobody approved.  What pre-flight saw of the plugin    *)
(* holds until it is quiesced; from then to the verified outcome it is not  *)
(* live; and once its identity was collected it is the candidate.           *)

Waiting == {"lock", "resolve", "evaluate", "approve", "store", "quiesce"}
Quiet   == (BeforeVerified \ {"quiesce", "fail_store"})
             \cup {"decide", "enable"}
ProcessLive(r) ==
    /\ pc[r] \in Waiting => (live[Plug(r)] => seen[r].live)
    /\ pc[r] \in Quiet => ~live[Plug(r)]

LiveInv == \A r \in Run : ProcessLive(r)

\* Only without orphans is what was collected what stays installed.
ProcessFound(r) == pc[r] \in Collected => installed[Plug(r)].head = Cand(r)

ApprovedInv == /\ orphans = {} /\ LiveIsApproved
               /\ \A r \in Run : ProcessFound(r)

\* What every step is shown to do.
StaysApproved ==
    /\ LiveInv'
    /\ ~OrphansSurvive /\ ApprovedInv => ApprovedInv'

\* The parts of TypeInv this rests on.
LEMMA LiveTyped ==
    ASSUME TypeInv
    PROVE  /\ pc \in [Run -> PC]
           /\ arg \in [Run -> Arguments \cup {None}]
           /\ seen \in [Run -> [head : Commit, live : BOOLEAN] \cup {None}]
           /\ installed \in [Plugin -> Identity]
           /\ live \in [Plugin -> BOOLEAN]
           /\ \A r \in Run : Active(r) =>
                 Plug(r) \in Plugin /\ Cand(r) \in Commit
  BY DEF TypeInv, TypeOK, ControlTyped, MemoryTyped, DiskTyped, HostTyped,
         Equipped, Active, Arguments, Plug, Cand

\* What is live stays approved while nothing goes live and no head moves.
Steady ==
    /\ \A p \in Plugin : live'[p] =>
          live[p] /\ installed'[p].head = installed[p].head
    /\ approved \subseteq approved'

LEMMA SteadyApproved ==
    ASSUME LiveIsApproved, Steady PROVE LiveIsApproved'
  BY DEF LiveIsApproved, Steady

\* One process moves: the others are not under way.
LEMMA OneMovesLive ==
    ASSUME TypeInv, AloneInv, NEW r \in Run, Active(r), NEW q \in PC,
           pc' = [pc EXCEPT ![r] = q], ProcessLive(r)', UNCHANGED orphans,
           ApprovedInv => LiveIsApproved' /\ ProcessFound(r)'
    PROVE  StaysApproved
<1>1. ASSUME NEW s \in Run, s # r PROVE pc'[s] \in {"idle"} \cup Ended
  BY <1>1, LiveTyped DEF AloneInv, Lonely, Active
<1>2. ASSUME NEW s \in Run PROVE ProcessLive(s)'
  <2>1. CASE s = r
    BY <2>1
  <2>2. CASE s # r
    BY <1>1, <2>2 DEF ProcessLive, Waiting, Quiet, BeforeVerified, Ended
  <2>3. QED
    BY <2>1, <2>2
<1>3. ASSUME ApprovedInv, NEW s \in Run PROVE ProcessFound(s)'
  <2>1. CASE s = r
    BY <1>3, <2>1
  <2>2. CASE s # r
    BY <1>1, <2>2 DEF ProcessFound, Collected, Verified, Ended
  <2>3. QED
    BY <2>1, <2>2
<1>4. QED
  BY <1>2, <1>3 DEF StaysApproved, LiveInv, ApprovedInv

\* A process that goes on may know less of the plugin, never more.
Learns(from, to) ==
    \/ to \in Waiting /\ from \notin Waiting
    \/ to \in Quiet /\ from \notin Quiet
    \/ to \in Collected /\ from \notin Collected

LEMMA GoLive ==
    ASSUME TypeInv, AloneInv, LiveInv, NEW r \in Run, Active(r), NEW q \in PC,
           Go(r, q), ~Learns(pc[r], q), approved \subseteq approved',
           UNCHANGED <<arg, seen, live, installed, orphans>>
    PROVE  StaysApproved
<1>1. pc' = [pc EXCEPT ![r] = q] /\ pc'[r] = q
  BY LiveTyped DEF Go
<1>2. ProcessLive(r)'
  BY <1>1 DEF LiveInv, ProcessLive, Learns, Plug
<1>3. ApprovedInv => LiveIsApproved' /\ ProcessFound(r)'
  BY <1>1, SteadyApproved
     DEF ApprovedInv, Steady, ProcessFound, Learns, Plug, Cand
<1>4. QED
  BY <1>1, <1>2, <1>3, OneMovesLive

\* A process that ends leaves the plugin as it is.
LEMMA ExitLive ==
    ASSUME TypeInv, AloneInv, NEW r \in Run, Active(r), NEW how \in Ended,
           Exit(r, how), UNCHANGED <<live, installed, orphans, approved>>
    PROVE  StaysApproved
<1>1. pc' = [pc EXCEPT ![r] = how] /\ pc'[r] = how /\ how \in PC
  BY LiveTyped DEF Exit, PC
<1>2. ProcessLive(r)' /\ ProcessFound(r)'
  BY <1>1 DEF ProcessLive, ProcessFound, Waiting, Quiet, Collected,
              BeforeVerified, Verified, Ended
<1>3. ApprovedInv => LiveIsApproved'
  BY SteadyApproved DEF ApprovedInv, Steady
<1>4. QED
  BY <1>1, <1>2, <1>3, OneMovesLive

\* Who is not moved knows what it knew.
LEMMA NothingLive ==
    ASSUME LiveInv, UNCHANGED <<pc, arg, seen, live>>,
           ApprovedInv =>
               /\ orphans' = orphans /\ approved \subseteq approved'
               /\ \A p \in Plugin : installed'[p].head = installed[p].head,
           TypeInv
    PROVE  StaysApproved
<1>1. LiveInv'
  BY DEF LiveInv, ProcessLive, Plug
<1>2. ASSUME ApprovedInv PROVE ApprovedInv'
  <2>1. LiveIsApproved'
    BY <1>2, SteadyApproved DEF ApprovedInv, Steady
  <2>2. ASSUME NEW s \in Run PROVE ProcessFound(s)'
    <3>1. pc[s] \in Collected => Plug(s) \in Plugin
      BY LiveTyped DEF Active, Collected, Verified, Ended
    <3>2. QED
      BY <1>2, <3>1 DEF ApprovedInv, ProcessFound, Plug, Cand
  <2>3. QED
    BY <1>2, <2>1, <2>2 DEF ApprovedInv
<1>3. QED
  BY <1>1, <1>2 DEF StaysApproved

\* Pre-flight reads what is live; reconciling and locking change none of it.
LEMMA RecoverLive ==
    ASSUME TypeInv, AloneInv, LiveInv, NEW r \in Run, Recover(r)
    PROVE  StaysApproved
<1>1. Active(r) /\ UNCHANGED <<live, installed, orphans, approved>>
  BY DEF Recover, LoadRecord, ReconcileRead, ReconcileRestore, ReconcileStore,
         ReconcileRemove, Inventory, AcquireLock, LockBusy, At, Active, Ended,
         disk, host, WriteConfig
<1>2. CASE Exit(r, "err")
  BY <1>1, <1>2, ExitLive DEF Ended
<1>3. CASE ~Exit(r, "err") /\ ~Inventory(r)
  <2>1. /\ UNCHANGED <<arg, seen>>
        /\ \/ Go(r, "reconcile_read") \/ Go(r, "reconcile_restore")
           \/ Go(r, "reconcile_store") \/ Go(r, "reconcile_remove")
           \/ Go(r, "inventory")
           \/ pc[r] = "lock" /\ Go(r, "resolve")
    BY <1>3 DEF Recover, LoadRecord, ReconcileRead, ReconcileRestore,
       ReconcileStore, ReconcileRemove, AcquireLock, LockBusy, At, locals,
       GoOrErr
  <2>2. QED
    BY <1>1, <2>1, GoLive DEF Learns, Waiting, Quiet, Collected,
       BeforeVerified, Verified, PC, Unlocked, Locked
<1>4. CASE ~Exit(r, "err") /\ Inventory(r)
  <2>1. /\ pc' = [pc EXCEPT ![r] = "lock"] /\ UNCHANGED arg
        /\ seen' = [seen EXCEPT ![r] = [head |-> installed[Plug(r)].head,
                                        live |-> live[Plug(r)]]]
    BY <1>4 DEF Inventory, Go
  <2>2. pc'[r] = "lock" /\ "lock" \in PC
    BY <2>1, LiveTyped DEF PC, Unlocked
  <2>3. seen'[r].live = live[Plug(r)]
    BY <2>1, LiveTyped
  <2>4. ProcessLive(r)' /\ ProcessFound(r)'
    BY <1>1, <2>1, <2>2, <2>3 DEF ProcessLive, ProcessFound, Waiting, Quiet,
       Collected, BeforeVerified, Verified, Plug
  <2>5. ApprovedInv => LiveIsApproved'
    BY <1>1, SteadyApproved DEF ApprovedInv, Steady
  <2>6. QED
    BY <1>1, <2>1, <2>2, <2>4, <2>5, OneMovesLive
<1>5. QED
  BY <1>2, <1>3, <1>4

\* The review itself touches nothing of the plugin.
LEMMA ReviewLive ==
    ASSUME TypeInv, AloneInv, LiveInv, NEW r \in Run, Review(r)
    PROVE  StaysApproved
<1>1. /\ Active(r) /\ UNCHANGED <<live, installed, orphans>>
      /\ approved \subseteq approved'
  BY DEF Review, NothingToUpdate, ResolveCandidate, CandidateRefused, Evaluate,
         Approve, Reject, InterruptionCheckpoint, At, Active, Ended, disk, host
<1>2. CASE Exit(r, "ok") \/ Exit(r, "err")
  <2>1. approved' = approved
    BY <1>2, LiveTyped DEF Review, NothingToUpdate, ResolveCandidate,
       CandidateRefused, Evaluate, Approve, Reject, InterruptionCheckpoint,
       At, Go, Exit
  <2>2. QED
    BY <1>1, <1>2, <2>1, ExitLive DEF Ended
<1>3. CASE ~Exit(r, "ok") /\ ~Exit(r, "err")
  <2>1. /\ UNCHANGED <<arg, seen>>
        /\ \/ pc[r] = "resolve" /\ Go(r, "evaluate")
           \/ pc[r] = "evaluate" /\ Go(r, "approve")
           \/ pc[r] = "approve" /\ Go(r, "store")
    BY <1>3 DEF Review, NothingToUpdate, ResolveCandidate, CandidateRefused,
       Evaluate, Approve, Reject, InterruptionCheckpoint, At, GoOrErr, locals
  <2>2. QED
    BY <1>1, <2>1, GoLive DEF Learns, Waiting, Quiet, Collected,
       BeforeVerified, Verified, PC, Locked
<1>4. QED
  BY <1>2, <1>3

\* From quiescing on the plugin is not live while anything is installed.
LEMMA DelegateLive ==
    ASSUME TypeInv, AloneInv, LiveInv, NEW r \in Run, Delegate(r)
    PROVE  StaysApproved
<1>0. ProcessLive(r) /\ Active(r)
  BY DEF LiveInv, Delegate, StoreRecord, Quiesce, NotLive, StoreQuiesced,
     StorePhase, EnterPhase, AuditBefore, WriteBackup, StorePointer, Harden,
     NativeUpdate, RestoreConfig, ClearPointer, RemoveBackup,
     TamperedDecision, TamperedStore, TamperedRemove, UpdateOutcome,
     FailDecision, FailStore, At, Active, Ended
<1>1. CASE Quiesce(r)
  <2>1. PICK works \in BOOLEAN, stops \in BOOLEAN :
          /\ works => stops
          /\ live' = [live EXCEPT ![Plug(r)] = live[Plug(r)] /\ ~stops]
          /\ pc' = [pc EXCEPT ![r] = IF works THEN "store_quiesced"
                                              ELSE "fail_store"]
    BY <1>1 DEF Quiesce, Go
  <2> DEFINE q == IF works THEN "store_quiesced" ELSE "fail_store"
  <2>2. pc'[r] = q /\ q \in PC
    BY <2>1, LiveTyped DEF PC, Locked, BeforeVerified
  <2>3. /\ UNCHANGED <<arg, orphans, installed, approved>>
        /\ Plug(r) \in Plugin /\ live \in [Plugin -> BOOLEAN]
    BY <1>0, <1>1, LiveTyped DEF Quiesce
  <2>4. works => ~live'[Plug(r)]
    BY <2>1, <2>3
  <2>5. ProcessLive(r)' /\ ProcessFound(r)'
    <3>1. CASE works
      BY <2>2, <2>3, <2>4, <3>1 DEF ProcessLive, ProcessFound, Waiting,
         Collected, Verified, Plug
    <3>2. CASE ~works
      BY <2>2, <3>2 DEF ProcessLive, ProcessFound, Waiting, Quiet,
         Collected, Verified
    <3>3. QED
      BY <3>1, <3>2
  <2>6. \A p \in Plugin : live'[p] => live[p]
    BY <2>1, <2>3
  <2>7. ApprovedInv => LiveIsApproved'
    BY <2>3, <2>6, SteadyApproved DEF ApprovedInv, Steady
  <2> HIDE DEF q
  <2>8. pc' = [pc EXCEPT ![r] = q]
    BY <2>1 DEF q
  <2>9. ApprovedInv => LiveIsApproved' /\ ProcessFound(r)'
    BY <2>5, <2>7
  <2>10. ProcessLive(r)' /\ UNCHANGED orphans
    BY <2>3, <2>5
  <2>11. PICK to \in PC : pc' = [pc EXCEPT ![r] = to]
    BY <2>2, <2>8
  <2>12. Active(r)
    BY <1>0
  <2>13. QED
    BY <2>9, <2>10, <2>11, <2>12, OneMovesLive
<1>2. CASE NotLive(r)
  <2>1. /\ pc[r] = "quiesce" /\ ~seen[r].live
        /\ pc' = [pc EXCEPT ![r] = "store_auditing"]
        /\ UNCHANGED <<arg, live, installed, orphans, approved>>
    BY <1>2 DEF NotLive, At, Go, locals, host
  <2>2. pc'[r] = "store_auditing" /\ "store_auditing" \in PC
    BY <2>1, LiveTyped DEF PC, Locked, BeforeVerified
  <2>3. ~live[Plug(r)]
    BY <1>0, <2>1 DEF ProcessLive, Waiting
  <2>4. ProcessLive(r)' /\ ProcessFound(r)'
    BY <2>1, <2>2, <2>3 DEF ProcessLive, ProcessFound, Waiting, Collected,
       Verified, Plug
  <2>5. ApprovedInv => LiveIsApproved'
    BY <2>1, SteadyApproved DEF ApprovedInv, Steady
  <2>6. QED
    BY <1>0, <2>1, <2>2, <2>4, <2>5, OneMovesLive
<1>3. CASE NativeUpdate(r)
  <2>1. /\ pc[r] = "update" /\ pc' = [pc EXCEPT ![r] = "restore"]
        /\ \A p \in Plugin \ {Plug(r)} : installed'[p] = installed[p]
        /\ UNCHANGED <<arg, live, orphans, approved>>
    BY <1>3, LiveTyped DEF NativeUpdate, At, Go
  <2>2. pc'[r] = "restore" /\ "restore" \in PC
    BY <2>1, LiveTyped DEF PC, Locked, BeforeVerified
  <2>3. ~live[Plug(r)]
    BY <1>0, <2>1 DEF ProcessLive, Quiet, BeforeVerified
  <2>4. ProcessLive(r)' /\ ProcessFound(r)'
    BY <2>1, <2>2, <2>3 DEF ProcessLive, ProcessFound, Waiting, Collected,
       Verified, Plug
  <2>5. ApprovedInv => LiveIsApproved'
    BY <2>1, <2>3, SteadyApproved DEF ApprovedInv, Steady
  <2>6. QED
    BY <1>0, <2>1, <2>2, <2>4, <2>5, OneMovesLive
<1>4. CASE TamperedRemove(r) \/ FailStore(r)
  <2>1. Exit(r, "err") /\ UNCHANGED <<live, installed, orphans, approved>>
    BY <1>4 DEF TamperedRemove, FailStore, host
  <2>2. QED
    BY <1>0, <2>1, ExitLive DEF Ended
<1>5. CASE \/ StoreRecord(r) \/ StoreQuiesced(r) \/ StorePhase(r)
           \/ AuditBefore(r) \/ WriteBackup(r) \/ StorePointer(r)
           \/ Harden(r) \/ RestoreConfig(r) \/ ClearPointer(r)
           \/ RemoveBackup(r) \/ TamperedDecision(r) \/ TamperedStore(r)
           \/ UpdateOutcome(r) \/ FailDecision(r)
  <2>1. /\ UNCHANGED <<arg, seen, live, installed, orphans, approved>>
        /\ \/ pc[r] = "store" /\ Go(r, "quiesce")
           \/ /\ pc[r] \in Quiet
              /\ \E q \in Quiet \cup {"fail_store"} :
                    q \in BeforeVerified \ {"reaudit", "analyze"} /\ Go(r, q)
    BY <1>5 DEF StoreRecord, StoreQuiesced, StorePhase, EnterPhase,
       AuditBefore, WriteBackup, StorePointer, Harden, RestoreConfig,
       ClearPointer, RemoveBackup, TamperedDecision, TamperedStore,
       UpdateOutcome, FailDecision, WriteConfig, At, Quiet, BeforeVerified,
       locals, disk, host
  <2>2. CASE pc[r] = "store" /\ Go(r, "quiesce")
    BY <1>0, <2>1, <2>2, GoLive DEF Learns, Waiting, Quiet, Collected,
       BeforeVerified, Verified, PC, Locked
  <2>3. CASE pc[r] # "store"
    <3>1. PICK q \in BeforeVerified \ {"reaudit", "analyze"} :
            /\ pc[r] \in Quiet /\ q \in Quiet \cup {"fail_store"}
            /\ Go(r, q)
      BY <2>1, <2>3
    <3>2. q \in PC /\ ~Learns(pc[r], q)
      BY <3>1 DEF Learns, Waiting, Quiet, Collected, BeforeVerified,
                  Verified, PC, Locked
    <3>3. QED
      BY <1>0, <2>1, <3>1, <3>2, GoLive
  <2>4. QED
    BY <2>1, <2>2, <2>3 DEF Quiet, BeforeVerified
<1>6. QED
  BY <1>1, <1>2, <1>3, <1>4, <1>5 DEF Delegate

\* The plugin goes live again only with the head that was collected.
LEMMA VerifyLive ==
    ASSUME Inv, AloneInv, LiveInv, NEW r \in Run, Verify(r)
    PROVE  StaysApproved
<1> TypeInv
  BY DEF Inv
<1>0. ProcessLive(r) /\ Active(r) /\ ProcessSafe(r)
  BY DEF LiveInv, Inv, SafeInv, Verify, Rescan, Collect, AuditAfter, Analyze,
     PersistVerified, InterruptedVerified, Enable, EnableWarning, Accept,
     RemoveRecord, RemoveStaleBackup, At, Active, Ended
<1>1. CASE Collect(r)
  <2>1. PICK q \in {"reaudit", "fail_decision"} :
          /\ pc[r] = "collect" /\ pc' = [pc EXCEPT ![r] = q]
          /\ q = "reaudit" => installed[Plug(r)] = Reviewed(Cand(r))
    BY <1>1 DEF Collect, At, Go
  <2>2. pc'[r] = q /\ q \in PC
        /\ UNCHANGED <<arg, live, installed, orphans, approved>>
    BY <1>1, <2>1, LiveTyped DEF Collect, PC, Locked, BeforeVerified, host
  <2>3. ~live[Plug(r)]
    BY <1>0, <2>1 DEF ProcessLive, Quiet, BeforeVerified
  <2>4. ProcessLive(r)'
    BY <2>2, <2>3 DEF ProcessLive, Waiting, Plug
  <2>5. ProcessFound(r)'
    BY <2>1, <2>2 DEF ProcessFound, Collected, Verified, Plug, Cand, Reviewed
  <2>6. ApprovedInv => LiveIsApproved'
    BY <2>2, SteadyApproved DEF ApprovedInv, Steady
  <2>7. QED
    BY <1>0, <2>1, <2>2, <2>4, <2>5, <2>6, OneMovesLive
<1>2. CASE Enable(r)
  <2>1. PICK q \in {"accept", "enable_failed"} :
          pc[r] = "enable" /\ pc' = [pc EXCEPT ![r] = q]
    BY <1>2 DEF Enable, At, Go
  <2>2. /\ UNCHANGED <<arg, installed, orphans, approved>>
        /\ \A p \in Plugin \ {Plug(r)} : live'[p] = live[p]
    BY <1>0, <1>2, LiveTyped DEF Enable, locals, disk
  <2>3. pc'[r] = q /\ q \in PC
    BY <2>1, LiveTyped DEF PC, Locked, Verified
  <2>4. ProcessLive(r)'
    BY <2>3 DEF ProcessLive, Waiting, Quiet, BeforeVerified
  <2>5. ASSUME ApprovedInv PROVE LiveIsApproved' /\ ProcessFound(r)'
    <3>1. installed[Plug(r)].head = Cand(r)
      BY <2>1, <2>5 DEF ApprovedInv, ProcessFound, Collected, Verified
    <3>2. /\ <<Plug(r), Reviewed(Cand(r))>> \in approved
          /\ Reviewed(Cand(r)) \in Identity
      BY <1>0, <2>1, LiveTyped, ReviewedIsIdentity
         DEF ProcessSafe, Agreed, Verified
    <3>3. Reviewed(Cand(r)).head = Cand(r)
      BY DEF Reviewed
    <3>4. LiveIsApproved'
      BY <2>2, <2>5, <3>1, <3>2, <3>3 DEF ApprovedInv, LiveIsApproved
    <3>5. ProcessFound(r)'
      BY <2>2, <3>1 DEF ProcessFound, Plug, Cand
    <3>6. QED
      BY <3>4, <3>5
  <2>6. QED
    BY <1>0, <2>1, <2>2, <2>3, <2>4, <2>5, OneMovesLive
<1>3. CASE InterruptedVerified(r) \/ RemoveStaleBackup(r)
  <2>1. /\ Exit(r, "err") \/ Exit(r, "ok")
        /\ UNCHANGED <<live, installed, orphans, approved>>
    BY <1>3 DEF InterruptedVerified, RemoveStaleBackup, host
  <2>2. QED
    BY <1>0, <2>1, ExitLive DEF Ended
<1>4. CASE \/ Rescan(r) \/ AuditAfter(r) \/ Analyze(r) \/ PersistVerified(r)
           \/ EnableWarning(r) \/ Accept(r) \/ RemoveRecord(r)
  <2>1. /\ UNCHANGED <<arg, seen, live, installed, orphans, approved>>
        /\ \/ pc[r] = "rescan" /\ Go(r, "collect")
           \/ pc[r] = "rescan" /\ Go(r, "fail_decision")
           \/ pc[r] = "reaudit" /\ Go(r, "analyze")
           \/ pc[r] = "reaudit" /\ Go(r, "fail_decision")
           \/ pc[r] = "analyze" /\ Go(r, "decide")
           \/ pc[r] = "analyze" /\ Go(r, "fail_decision")
           \/ pc[r] = "decide" /\ Go(r, "enable")
           \/ pc[r] = "enable_failed" /\ Go(r, "accept")
           \/ pc[r] = "accept" /\ Go(r, "remove_record")
           \/ pc[r] = "remove_record" /\ Go(r, "remove_stale_backup")
    BY <1>4 DEF Rescan, AuditAfter, Analyze, PersistVerified, EnableWarning,
       Accept, RemoveRecord, At, disk, host, locals
  <2>2. QED
    BY <1>0, <2>1, GoLive DEF Learns, Waiting, Quiet, Collected,
       BeforeVerified, Verified, PC, Locked
<1>5. QED
  BY <1>1, <1>2, <1>3, <1>4 DEF Verify

\* Of the faults only a kill can leave an updater behind.
LEMMA FaultLive ==
    ASSUME TypeInv, AloneInv, LiveInv, NEW r \in Run, Fault(r)
    PROVE  StaysApproved
<1>1. CASE Signal(r)
  BY <1>1, NothingLive DEF Signal, locals, disk, host
<1>2. CASE Die(r)
  <2>1. /\ Active(r) /\ Exit(r, "dead")
        /\ UNCHANGED <<live, installed, approved>>
    BY <1>2 DEF Die
  <2>2. CASE UNCHANGED orphans
    BY <2>1, <2>2, ExitLive DEF Ended
  <2>3. CASE orphans' # orphans
    <3>1. OrphansSurvive
      BY <1>2, <2>3 DEF Die
    <3>2. LiveInv'
      <4>1. pc' = [pc EXCEPT ![r] = "dead"]
        BY <2>1 DEF Exit
      <4>2. \A s \in Run : pc'[s] \in {"idle"} \cup Ended
        BY <2>1, <4>1, LiveTyped DEF AloneInv, Lonely, Active, Ended
      <4>3. QED
        BY <4>2 DEF LiveInv, ProcessLive, Waiting, Quiet, BeforeVerified,
                    Ended
    <3>3. QED
      BY <3>1, <3>2 DEF StaysApproved
  <2>4. QED
    BY <2>2, <2>3
<1>3. CASE RestoreFailed(r) \/ EvidenceUnavailable(r)
  <2>1. /\ Active(r) /\ Go(r, "fail_decision")
        /\ pc[r] \in {"restore", "rescan", "collect", "reaudit", "analyze"}
        /\ UNCHANGED <<arg, seen, live, installed, orphans, approved>>
    BY <1>3 DEF RestoreFailed, EvidenceUnavailable, WriteConfig, At, Active,
                Ended, disk, host, locals
  <2>2. QED
    BY <2>1, GoLive DEF Learns, Waiting, Quiet, Collected, BeforeVerified,
       Verified, PC, Locked
<1>4. QED
  BY <1>1, <1>2, <1>3 DEF Fault

\* Foreign writes move no head; an orphan would.
LEMMA OutsideLive ==
    ASSUME TypeInv, AloneInv, LiveInv, NEW p \in Plugin, Outside(p)
    PROVE  StaysApproved
<1>1. UNCHANGED <<pc, arg, seen, live>>
  BY DEF Outside, OrphanFinishes, ForeignEdit, Rebaseline, WriteConfig,
         locals, disk, host
<1>2. ASSUME ApprovedInv
      PROVE  /\ orphans' = orphans /\ approved \subseteq approved'
             /\ \A q \in Plugin : installed'[q].head = installed[q].head
  <2>1. ~OrphanFinishes(p)
    BY <1>2 DEF ApprovedInv, OrphanFinishes
  <2>2. CASE ForeignEdit(p)
    <3>1. /\ \/ UNCHANGED installed
             \/ \E t \in Tree : installed' = [installed EXCEPT ![p].tree = t]
          /\ UNCHANGED <<orphans, approved>>
      BY <2>2 DEF ForeignEdit, WriteConfig
    <3>2. \A q \in Plugin : installed'[q].head = installed[q].head
      BY <3>1, LiveTyped DEF Identity
    <3>3. QED
      BY <3>1, <3>2
  <2>3. CASE Rebaseline(p)
    BY <2>3 DEF Rebaseline, host
  <2>4. QED
    BY <2>1, <2>2, <2>3 DEF Outside
<1>3. QED
  BY <1>1, <1>2, NothingLive

\* Every step, whoever takes it.
LEMMA NextLive ==
    ASSUME MaxActive = 1, Inv, AloneInv, LiveInv, [Next]_vars
    PROVE  StaysApproved
<1> TypeInv
  BY DEF Inv
<1>1. ASSUME NEW r \in Run, Begin(r) PROVE StaysApproved
  <2>1. PICK p \in Plugin, c \in Commit : Start(r, p, c)
    BY <1>1 DEF Begin
  <2>2. /\ pc' = [pc EXCEPT ![r] = "load"]
        /\ UNCHANGED <<live, installed, orphans, approved>>
    BY <2>1 DEF Start, Go, host
  <2>3. \A s \in Run : pc'[s] \in {"idle", "load"} \cup Ended
    BY <1>1, <2>2, NoneUnderWay, LiveTyped DEF Active
  <2>4. LiveInv' /\ \A s \in Run : ProcessFound(s)'
    BY <2>3 DEF LiveInv, ProcessLive, ProcessFound, Waiting, Quiet,
                Collected, BeforeVerified, Verified, Ended
  <2>5. QED
    BY <2>2, <2>4, SteadyApproved DEF StaysApproved, ApprovedInv, Steady
<1>2. CASE \E r \in Run : Begin(r) \/ Step(r) \/ Fault(r)
  BY <1>1, <1>2, RecoverLive, ReviewLive, DelegateLive, VerifyLive, FaultLive
     DEF Step
<1>3. CASE \E p \in Plugin : Outside(p)
  BY <1>3, OutsideLive
<1>4. CASE UNCHANGED vars
  BY <1>4, NothingLive DEF vars, locals, disk, host
<1>5. QED
  BY <1>2, <1>3, <1>4 DEF Next, Finished

LEMMA InitLive == Init => LiveInv /\ ApprovedInv
<1> SUFFICES ASSUME Init PROVE LiveInv /\ ApprovedInv
  OBVIOUS
<1>1. /\ \A r \in Run : pc[r] = "idle"
      /\ \A p \in Plugin : installed[p].head = Base
      /\ orphans = {}
  BY DEF Init, Reviewed
<1>2. QED
  BY <1>1 DEF LiveInv, ProcessLive, ProcessFound, ApprovedInv, LiveIsApproved,
     Waiting, Quiet, Collected, BeforeVerified, Verified

\* The native updater never runs on a plugin that is live: what pre-flight
\* saw still holds when the run decides whether there is something to stop.
THEOREM UpdatesQuiesced ==
    ASSUME MaxActive = 1 PROVE Spec => []UpdatesAreQuiesced
<1>1. Inv /\ AloneInv /\ LiveInv /\ [Next]_vars => LiveInv'
  BY NextLive DEF StaysApproved
<1>2. LiveInv => UpdatesAreQuiesced
  BY DEF LiveInv, ProcessLive, UpdatesAreQuiesced, At, Quiet, BeforeVerified
<1>3. QED
  BY <1>1, <1>2, InitLive, InvHolds, AloneHolds, PTL DEF Spec

\* Whatever the updater installs and wherever a run is stopped, no plugin is
\* live at a commit that nobody approved.  An updater that outlives its run
\* can break this (it installs into the next run's plugin after that run has
\* verified it), hence the second hypothesis.
THEOREM LiveApproved ==
    ASSUME MaxActive = 1, ~OrphansSurvive PROVE Spec => []LiveIsApproved
<1>1. Inv /\ AloneInv /\ (LiveInv /\ ApprovedInv) /\ [Next]_vars
        => (LiveInv /\ ApprovedInv)'
  BY NextLive DEF StaysApproved
<1>2. ApprovedInv => LiveIsApproved
  BY DEF ApprovedInv
<1>3. QED
  BY <1>1, <1>2, InitLive, InvHolds, AloneHolds, PTL DEF Spec

=============================================================================
