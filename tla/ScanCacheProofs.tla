--------------------------- MODULE ScanCacheProofs ---------------------------
(***************************************************************************)
(* Machine-checked theorems about ScanCache, for any number of scans,      *)
(* readers, contents, state files, changes and faults.                     *)
(***************************************************************************)
EXTENDS ScanCache, TLAPS

USE NoneIsFresh, BoundsAreNaturals

-----------------------------------------------------------------------------
(* Type correctness.  TypeOK is not inductive by itself: a result is typed  *)
(* only because its scan has reserved a number, collected and read before.  *)

Reserving  == {"truncate", "write"}
Witnessing == {"witness_content", "collect", "read", "recheck",
               "recheck_content"}

Equipped(s) ==
    /\ pc[s] \in Reserving \cup {"rename"} => lock = s
    /\ pc[s] \in Reserving \cup {"replace", "rename", "persisted"} =>
         gen[s] \in Number
    /\ pc[s] \in Reserving => gen[s] + 1 \in Number
    /\ pc[s] \in {"read", "replace", "rename"} => content[s] \in Content
    /\ pc[s] \in {"replace", "rename"} => read[s] \in State

Informed(v) ==
    /\ pc[v] \in Witnessing \cup {"witness"} => cached[v] \in Snapshot
    /\ pc[v] \in Witnessing => before[v] \in Witnessed

TypeInv ==
    /\ TypeOK
    /\ \A s \in Scan : Equipped(s)
    /\ \A v \in Reader : Informed(v)

USE DEF TypeInv, TypeOK, ContextTyped, CacheTyped, LocalsTyped, Equipped,
        Informed, Reserving, Witnessing, ScanPC, ReaderPC, ScanEnded,
        ReaderEnded, Process, world, stored, cache, work, check, At, Go

\* The number a reservation finds, and the one it stores, are in range.
LEMMA NextIsNumber ==
    ASSUME counter \in Number \cup {None, Unreadable}, counter # Unreadable,
           NextNumber # MaxGeneration
    PROVE  NextNumber \in Number /\ NextNumber + 1 \in Number
  BY DEF NextNumber, Number

\* What a scan stores is a snapshot with its number, within the limits of its
\* readers or rejected.
LEMMA StoredIsSnapshot ==
    ASSUME TypeInv, NEW s \in Scan, pc[s] = "rename", Store(s)
    PROVE  /\ snapshot' \in Snapshot
           /\ snapshot'.gen = gen[s] /\ snapshot'.at = at[s]
           /\ rejected' \in SUBSET Scan /\ rejected \subseteq rejected'
           /\ snapshot'.fit \/ s \in rejected'
  <1>1. PICK fit \in BOOLEAN :
            /\ snapshot' = Result(s, fit)
            /\ rejected' = IF fit THEN rejected ELSE rejected \cup {s}
    BY DEF Store
  <1>2. /\ Result(s, fit) \in Snapshot /\ Result(s, fit).gen = gen[s]
        /\ Result(s, fit).at = at[s] /\ Result(s, fit).fit = fit
    BY DEF Result, Snapshot
  <1> QED BY <1>1, <1>2

\* A scan that reserves leaves every variable of its type.
LEMMA ReserveTyped ==
    ASSUME TypeInv, NEW s \in Scan, Reserve(s)
    PROVE  TypeInv'
  <1>1. CASE ReserveBusy(s) BY <1>1 DEF ReserveBusy
  <1>2. CASE ReserveRefused(s) BY <1>2 DEF ReserveRefused
  <1>3. CASE ReadCounter(s) BY <1>3, NextIsNumber DEF ReadCounter
  <1>4. CASE TruncateCounter(s) BY <1>4 DEF TruncateCounter
  <1>5. CASE WriteCounter(s) BY <1>5 DEF WriteCounter
  <1>6. CASE WriteCounterFails(s)
    BY <1>6 DEF WriteCounterFails
  <1> QED BY <1>1, <1>2, <1>3, <1>4, <1>5, <1>6 DEF Reserve

\* One more state file read keeps what was read of its type.
LEMMA ReadFileTyped ==
    ASSUME TypeInv, NEW p \in Process, NEW f \in StateFile, ReadFile(p, f)
    PROVE  TypeInv'
  BY DEF ReadFile, State

\* So does a scan that observes its context ...
LEMMA ObserveTyped ==
    ASSUME TypeInv, NEW s \in Scan, Observe(s)
    PROVE  TypeInv'
  <1>1. CASE Collect(s) BY <1>1 DEF Collect
  <1>2. CASE \E f \in StateFile : ReadFile(s, f) BY <1>2, ReadFileTyped
  <1>3. CASE ScanDone(s)
    <2>1. read[s] \in State BY <1>3 DEF ScanDone, AllRead, State
    <2> QED BY <1>3, <2>1 DEF ScanDone
  <1>4. CASE ScanUncached(s) BY <1>4 DEF ScanUncached
  <1> QED BY <1>1, <1>2, <1>3, <1>4 DEF Observe

\* ... that stores its result ...
LEMMA ReplaceTyped ==
    ASSUME TypeInv, NEW s \in Scan, Replace(s)
    PROVE  TypeInv'
  <1>1. CASE ReplaceBusy(s) BY <1>1 DEF ReplaceBusy
  <1>2. CASE Superseded(s) BY <1>2 DEF Superseded
  <1>3. CASE Compare(s) BY <1>3 DEF Compare
  <1>4. CASE Rename(s)
    BY <1>4, StoredIsSnapshot DEF Rename
  <1>5. CASE RenameFails(s)
    BY <1>5, StoredIsSnapshot DEF RenameFails
  <1> QED BY <1>1, <1>2, <1>3, <1>4, <1>5 DEF Replace

\* ... or is killed.
LEMMA KillTyped ==
    ASSUME TypeInv, NEW s \in Scan, Kill(s)
    PROVE  TypeInv'
  BY DEF Kill

\* A reader that validates leaves every variable of its type.
LEMMA ValidateTyped ==
    ASSUME TypeInv, NEW v \in Reader, Validate(v)
    PROVE  TypeInv'
  <1>1. CASE Load(v)
    <2>1. CASE /\ snapshot \in Snapshot
               /\ cached' = [cached EXCEPT ![v] = snapshot]
               /\ Go(v, "witness")
      BY <1>1, <2>1 DEF Load, Loadable
    <2>2. CASE Go(v, "missing") /\ UNCHANGED cached
      BY <1>1, <2>2 DEF Load, Loadable
    <2> QED BY <1>1, <2>1, <2>2 DEF Load, Loadable
  <1>2. CASE Witness(v) BY <1>2 DEF Witness, Witnessed
  <1>3. CASE WitnessContent(v) BY <1>3 DEF WitnessContent, Witnessed
  <1>4. CASE Recollect(v) BY <1>4 DEF Recollect
  <1>5. CASE \E f \in StateFile : ReadFile(v, f) BY <1>5, ReadFileTyped
  <1>6. CASE ContextRead(v) BY <1>6 DEF ContextRead
  <1>7. CASE ValidationUnavailable(v) BY <1>7 DEF ValidationUnavailable
  <1>8. CASE Recheck(v) BY <1>8 DEF Recheck
  <1>9. CASE Answer(v) BY <1>9 DEF Answer
  <1> QED BY <1>1, <1>2, <1>3, <1>4, <1>5, <1>6, <1>7, <1>8, <1>9 DEF Validate

\* The context changes within its type.
LEMMA ChangeTyped ==
    ASSUME TypeInv, Change
    PROVE  TypeInv'
  <1>1. CASE ChangePlugins BY <1>1 DEF ChangePlugins, Time
  <1>2. ASSUME NEW f \in StateFile, ChangeState(f)
        PROVE  TypeInv'
    BY <1>2 DEF ChangeState, Time, State
  <1> QED BY <1>1, <1>2 DEF Change

\* The invariant holds at the start.
LEMMA TypeInit == Init => TypeInv
  BY DEF Init, Blank, Time, State, Number

\* Every step preserves the typed invariant.
LEMMA TypeStep == TypeInv /\ [Next]_vars => TypeInv'
  <1> SUFFICES ASSUME TypeInv, [Next]_vars PROVE TypeInv'
    OBVIOUS
  <1>1. CASE UNCHANGED vars BY <1>1 DEF vars
  <1>2. CASE Finished BY <1>2 DEF Finished, vars
  <1> QED
    BY <1>1, <1>2, ReserveTyped, ObserveTyped, ReplaceTyped, KillTyped,
       ValidateTyped, ChangeTyped DEF Next

\* Every variable keeps its type, in any instance of the model.
THEOREM TypeIsCorrect == Spec => []TypeOK
  <1>1. TypeInv => TypeOK OBVIOUS
  <1> QED BY <1>1, TypeInit, TypeStep, PTL DEF Spec

-----------------------------------------------------------------------------
(* Generations.  A number handed out is below the counter that is stored,   *)
(* and above every other one while the counter is being rewritten.          *)

HasNumber(s) == gen[s] \in Number

Numbers ==
    /\ \A s, t \in Scan :
         s # t /\ HasNumber(s) /\ HasNumber(t) => gen[s] # gen[t]
    /\ \A s \in Scan : HasNumber(s) /\ pc[s] \notin Reserving =>
         counter # None /\ (counter \in Number => gen[s] < counter)
    /\ \A s, t \in Scan :
         pc[s] \in Reserving /\ s # t /\ HasNumber(t) => gen[t] < gen[s]

\* The stored snapshot is below the counter, and below the number of a scan
\* that reserves; so is one that loads below the number of a scan that has been
\* compared.
Order ==
    /\ snapshot \in Snapshot =>
         counter # None /\ (counter \in Number => snapshot.gen < counter)
    /\ \A s \in Scan :
         \/ pc[s] \in Reserving /\ snapshot \in Snapshot
         \/ pc[s] = "rename" /\ Loadable
         => snapshot.gen < gen[s]

\* A scan that reported "persisted" is not above the snapshot that loads, or
\* not above a scan whose result was rejected.
Covered(s) ==
    \/ Loadable /\ gen[s] <= snapshot.gen
    \/ \E t \in rejected : gen[s] <= gen[t]

Reported ==
    /\ \A s \in Scan : pc[s] = "persisted" => Covered(s)
    /\ \A s \in rejected : HasNumber(s) /\ pc[s] \in ScanEnded

\* What a scan has collected is as recent as every scan that began with a
\* smaller number, and so is what is stored.
Recency ==
    /\ \A s, t \in Scan :
         /\ pc[s] \in {"read", "replace", "rename"}
         /\ HasNumber(s) /\ HasNumber(t) /\ gen[t] <= gen[s]
         => began[t] <= at[s]
    /\ \A t \in Scan :
         snapshot \in Snapshot /\ HasNumber(t) /\ gen[t] <= snapshot.gen =>
           began[t] <= snapshot.at
    /\ \A s \in Scan : began[s] <= clock

CacheInv == TypeInv /\ Numbers /\ Order /\ Reported /\ Recency

\* A scan that has ended keeps its number, and what covers it.
LEMMA ReportedUntouched ==
    ASSUME CacheInv, TypeInv', UNCHANGED stored,
           \A s \in Scan : pc[s] \in ScanEnded =>
                            pc'[s] = pc[s] /\ gen'[s] = gen[s],
           \A s \in Scan : pc'[s] = "persisted" => pc[s] = "persisted"
    PROVE  Reported'
  <1> USE DEF CacheInv, HasNumber
  <1>1. \A t \in rejected : /\ pc'[t] = pc[t] /\ pc[t] \in ScanEnded
                             /\ gen'[t] = gen[t] /\ gen[t] \in Number
    BY DEF Reported
  <1>2. ASSUME NEW s \in Scan, pc'[s] = "persisted"
        PROVE  Covered(s)'
    <2>1. Covered(s) /\ gen'[s] = gen[s] BY <1>2 DEF Reported
    <2>2. CASE Loadable /\ gen[s] <= snapshot.gen
      BY <2>1, <2>2 DEF Covered, Loadable
    <2>3. CASE \E t \in rejected : gen[s] <= gen[t]
      BY <1>1, <2>1, <2>3 DEF Covered
    <2> QED BY <2>1, <2>2, <2>3 DEF Covered
  <1> QED BY <1>1, <1>2 DEF Reported

\* Steps that touch none of what CacheInv speaks of besides where a process
\* stands.
LEMMA CacheUntouched ==
    ASSUME CacheInv, TypeInv', UNCHANGED <<cache, work>>, clock <= clock',
           \A s \in Scan :
             \/ pc'[s] = pc[s]
             \/ /\ pc[s] \notin Reserving \cup ScanEnded
                /\ pc'[s] \in {"collect", "unavailable"}
    PROVE  CacheInv'
  <1> USE DEF CacheInv, HasNumber
  <1>1. Numbers' BY DEF Numbers
  <1>2. Order' BY DEF Order, Loadable
  <1>3. Recency'
    <2>1. \A s \in Scan : began[s] <= clock' BY DEF Recency, Time
    <2>2. \A s \in Scan : pc'[s] \in {"read", "replace", "rename"} =>
            pc'[s] = pc[s]
      OBVIOUS
    <2> QED BY <2>1, <2>2 DEF Recency
  <1>4. Reported' BY ReportedUntouched
  <1> QED BY <1>1, <1>2, <1>3, <1>4

\* A reservation keeps numbers distinct and below the counter.
LEMMA CacheReserve ==
    ASSUME CacheInv, TypeInv', NEW s \in Scan, Reserve(s)
    PROVE  CacheInv'
  <1> USE DEF CacheInv, HasNumber
  <1>1. CASE ReserveBusy(s) BY <1>1, CacheUntouched DEF ReserveBusy, Time
  <1>2. CASE ReserveRefused(s)
    BY <1>2, CacheUntouched DEF ReserveRefused, Time
  <1>3. CASE ReadCounter(s)
    <2> USE <1>3 DEF ReadCounter, NextNumber
    <2>1. NextNumber \in Number BY NextIsNumber
    <2>2. \A t \in Scan : pc[t] \notin Reserving \cup {"rename"} OBVIOUS
    <2>3. \A t \in Scan : HasNumber(t) => gen[t] < NextNumber
      BY <2>2 DEF Numbers
    <2>4. snapshot \in Snapshot => snapshot.gen < NextNumber BY DEF Order
    <2>5. Numbers' BY <2>1, <2>2, <2>3 DEF Numbers, Number
    <2>6. Order' BY <2>1, <2>2, <2>4 DEF Order, Loadable
    <2>7. Recency'
      BY <2>1, <2>3, <2>4 DEF Recency, Number, Snapshot
    <2>8. Reported' BY ReportedUntouched
    <2> QED BY <2>5, <2>6, <2>7, <2>8
  <1>4. CASE TruncateCounter(s)
    <2> USE <1>4 DEF TruncateCounter
    <2>1. Numbers' BY DEF Numbers
    <2>2. Order' BY DEF Order, Loadable
    <2>3. Recency' BY DEF Recency
    <2>4. Reported' BY ReportedUntouched
    <2> QED BY <2>1, <2>2, <2>3, <2>4
  <1>5. CASE WriteCounter(s)
    <2> USE <1>5 DEF WriteCounter
    <2>1. Numbers'
      <3>1. \A t \in Scan : t # s /\ HasNumber(t) => gen[t] < gen[s]
        BY DEF Numbers
      <3>2. counter' = gen[s] + 1 /\ gen[s] \in Number OBVIOUS
      <3>3. \A t \in Scan : HasNumber(t) => gen[t] < counter'
        BY <3>1, <3>2 DEF Number
      <3>4. counter' # None /\ \A t \in Scan : pc'[t] \notin Reserving
        BY <3>2 DEF Number
      <3> QED BY <3>3, <3>4 DEF Numbers
    <2>2. Order' BY DEF Order, Loadable, Number, Snapshot
    <2>3. Recency' BY DEF Recency, Numbers, Order, Number, Snapshot, Time
    <2>4. Reported' BY ReportedUntouched
    <2> QED BY <2>1, <2>2, <2>3, <2>4
  <1>6. CASE WriteCounterFails(s)
    <2> USE <1>6 DEF WriteCounterFails
    <2>1. Numbers'
      <3>1. \A t \in Scan : HasNumber(t)' =>
              t # s /\ HasNumber(t) /\ gen'[t] = gen[t] /\ gen[t] < gen[s]
        BY DEF Numbers
      <3>2. counter' # None /\ pc'[s] \notin Reserving BY DEF Number
      <3>3. counter' \in Number => counter' = gen[s] + 1 OBVIOUS
      <3>4. \A t \in Scan : pc'[t] \notin Reserving OBVIOUS
      <3> QED BY <3>1, <3>2, <3>3, <3>4 DEF Numbers, Number
    <2>2. Order' BY DEF Order, Loadable, Number, Snapshot
    <2>3. Recency' BY DEF Recency
    <2>4. Reported' BY ReportedUntouched
    <2> QED BY <2>1, <2>2, <2>3, <2>4
  <1> QED BY <1>1, <1>2, <1>3, <1>4, <1>5, <1>6 DEF Reserve

\* What is collected now is as recent as every scan that has begun.
LEMMA CacheObserve ==
    ASSUME CacheInv, TypeInv', NEW s \in Scan, Observe(s)
    PROVE  CacheInv'
  <1> USE DEF CacheInv, HasNumber
  <1>1. CASE Collect(s)
    <2> USE <1>1 DEF Collect
    <2>1. Numbers' BY DEF Numbers
    <2>2. Order' BY DEF Order, Loadable
    <2>3. Recency' BY DEF Recency
    <2>4. Reported' BY ReportedUntouched
    <2> QED BY <2>1, <2>2, <2>3, <2>4
  <1>2. ASSUME NEW f \in StateFile, ReadFile(s, f) PROVE CacheInv'
    BY <1>2, CacheUntouched DEF ReadFile, Time
  <1>3. CASE ScanDone(s)
    <2> USE <1>3 DEF ScanDone
    <2>1. Numbers' /\ Order' BY DEF Numbers, Order, Loadable
    <2>2. Recency' BY DEF Recency
    <2>3. Reported' BY ReportedUntouched
    <2> QED BY <2>1, <2>2, <2>3
  <1>4. CASE ScanUncached(s)
    BY <1>4, CacheUntouched DEF ScanUncached, Time
  <1> QED BY <1>1, <1>2, <1>3, <1>4 DEF Observe

\* What a scan that stores its result leaves alone.
Unmoved(s) ==
    /\ UNCHANGED <<counter, work, clock>>
    /\ \A t \in Scan \ {s} : pc'[t] = pc[t]
    /\ pc'[s] \in {"persisted", "unavailable"}

\* Under the lock, a snapshot makes room for a newer one only.
LEMMA CacheReplace ==
    ASSUME CacheInv, TypeInv', NEW s \in Scan, Replace(s)
    PROVE  CacheInv'
  <1> USE DEF CacheInv, HasNumber
  <1>1. CASE ReplaceBusy(s) BY <1>1, CacheUntouched DEF ReplaceBusy, Time
  <1>2. CASE Superseded(s)
    <2> USE <1>2 DEF Superseded
    <2>1. Numbers' /\ Order' BY DEF Numbers, Order, Loadable
    <2>2. Recency' BY DEF Recency
    <2>3. ASSUME NEW t \in Scan, pc'[t] = "persisted"
          PROVE  Covered(t)
      BY <2>3 DEF Reported, Covered, Loadable, Snapshot, Number
    <2>4. Reported' BY <2>3 DEF Reported, Covered, Loadable
    <2> QED BY <2>1, <2>2, <2>4
  <1>3. CASE Compare(s)
    <2> USE <1>3 DEF Compare
    <2>1. Numbers' /\ Order' BY DEF Numbers, Order, Loadable
    <2>2. Recency' BY DEF Recency
    <2>3. Reported' BY ReportedUntouched
    <2> QED BY <2>1, <2>2, <2>3
  <1>4. ASSUME pc[s] = "rename", Store(s), Unmoved(s)
        PROVE  CacheInv'
    <2> USE <1>4 DEF Unmoved
    <2>1. /\ snapshot' \in Snapshot
          /\ snapshot'.gen = gen[s] /\ snapshot'.at = at[s]
          /\ rejected \subseteq rejected'
          /\ snapshot'.fit \/ s \in rejected'
          /\ rejected' \subseteq rejected \cup {s}
      BY StoredIsSnapshot DEF Store
    <2>2. \A t \in Scan : t # s => pc[t] \notin Reserving \cup {"rename"}
      OBVIOUS
    <2>3. Numbers' BY DEF Numbers
    <2>4. Order'
      <3>1. counter # None /\ (counter \in Number => gen[s] < counter)
        BY DEF Numbers
      <3> QED BY <2>1, <2>2, <3>1 DEF Order, Loadable
    <2>5. Recency' BY <2>1 DEF Recency
    <2>6. ASSUME NEW t \in Scan, pc'[t] = "persisted"
          PROVE  Covered(t)'
      <3>1. CASE t = s BY <2>1, <3>1 DEF Covered, Loadable, Number
      <3>2. CASE t # s /\ \E u \in rejected : gen[t] <= gen[u]
        BY <2>1, <3>2 DEF Covered
      <3>3. CASE t # s /\ Loadable /\ gen[t] <= snapshot.gen
        <4>1. snapshot.gen < gen[s] /\ snapshot.gen \in Number
          BY <3>3 DEF Order, Loadable, Snapshot
        <4>2. gen[t] \in Number BY <2>6, <3>3
        <4>3. gen[t] <= gen[s] BY <3>3, <4>1, <4>2 DEF Number
        <4> QED BY <2>1, <4>3 DEF Covered, Loadable
      <3> QED BY <2>6, <3>1, <3>2, <3>3 DEF Reported, Covered
    <2>7. \A t \in rejected' : HasNumber(t)' /\ pc'[t] \in ScanEnded
      BY <2>1 DEF Reported
    <2>8. Reported' BY <2>6, <2>7 DEF Reported
    <2> QED BY <2>3, <2>4, <2>5, <2>8
  <1>5. CASE Rename(s)
    <2>1. Unmoved(s) BY <1>5 DEF Rename, Unmoved
    <2> QED BY <1>4, <1>5, <2>1 DEF Rename
  <1>6. CASE RenameFails(s)
    <2>0. Unmoved(s) BY <1>6 DEF RenameFails, Unmoved
    <2>1. CASE Store(s)
      BY <1>4, <1>6, <2>0, <2>1 DEF RenameFails
    <2>2. CASE UNCHANGED stored
      BY <1>6, <2>2, CacheUntouched DEF RenameFails, Time
    <2> QED BY <1>6, <2>1, <2>2 DEF RenameFails
  <1> QED BY <1>1, <1>2, <1>3, <1>5, <1>6 DEF Replace

\* A kill takes a number away at most.
LEMMA CacheKill ==
    ASSUME CacheInv, TypeInv', NEW s \in Scan, Kill(s)
    PROVE  CacheInv'
  <1> USE DEF CacheInv, HasNumber, Kill
  <1>1. Numbers' BY DEF Numbers
  <1>2. Order' BY DEF Order, Loadable
  <1>3. Recency' BY DEF Recency
  <1>4. Reported' BY ReportedUntouched
  <1> QED BY <1>1, <1>2, <1>3, <1>4

\* Nothing is reserved or stored at the start.
LEMMA CacheInit == Init => CacheInv
  BY TypeInit
  DEF CacheInv, Init, Numbers, Order, Reported, Recency, HasNumber, Loadable,
      Number, Time

\* Every step preserves the invariant of the cache.
LEMMA CacheStep == CacheInv /\ [Next]_vars => CacheInv'
  <1> SUFFICES ASSUME CacheInv, [Next]_vars PROVE CacheInv'
    OBVIOUS
  <1>0. TypeInv' BY TypeStep DEF CacheInv
  <1>1. CASE UNCHANGED vars \/ Finished
    BY <1>0, <1>1, CacheUntouched DEF vars, Finished, Time, CacheInv
  <1>2. ASSUME NEW v \in Reader, Validate(v) PROVE CacheInv'
    BY <1>0, <1>2, CacheUntouched
    DEF CacheInv, Time, Validate, Load, Witness, WitnessContent, Recollect,
        ReadFile, ContextRead, ValidationUnavailable, Recheck, Answer
  <1>3. CASE Change
    BY <1>0, <1>3, CacheUntouched
    DEF CacheInv, Time, Change, ChangePlugins, ChangeState
  <1> QED
    BY <1>0, <1>1, <1>2, <1>3, CacheReserve, CacheObserve, CacheReplace,
       CacheKill DEF Next

\* No number is given to two scans that go on with one.
THEOREM GenerationsStayUnique == Spec => []GenerationsAreUnique
  <1>1. CacheInv => GenerationsAreUnique
    BY DEF CacheInv, Numbers, HasNumber, GenerationsAreUnique
  <1> QED BY <1>1, CacheInit, CacheStep, PTL DEF Spec

\* The result that loads is never older than a scan that reported "persisted",
\* unless that scan or a later one stored what no reader admits.
THEOREM PersistedStaysCached == Spec => []PersistedIsCached
  <1>1. ASSUME CacheInv, NEW s \in Scan, pc[s] = "persisted"
        PROVE  \/ Loadable /\ snapshot.at >= began[s]
               \/ \E t \in rejected : gen[t] >= gen[s]
    <2>1. Covered(s) /\ gen[s] \in Number
      BY <1>1 DEF CacheInv, Reported
    <2>2. CASE Loadable /\ gen[s] <= snapshot.gen
      BY <1>1, <2>1, <2>2
      DEF CacheInv, Recency, HasNumber, Loadable, Snapshot, Time
    <2>3. CASE \E t \in rejected : gen[s] <= gen[t]
      BY <1>1, <2>1, <2>3 DEF CacheInv, Reported, HasNumber, Number
    <2> QED BY <2>1, <2>2, <2>3 DEF Covered
  <1>2. CacheInv => PersistedIsCached BY <1>1 DEF PersistedIsCached
  <1> QED BY <1>2, CacheInit, CacheStep, PTL DEF Spec

\* A snapshot that loads is only ever replaced by one with a larger number.
THEOREM SnapshotOnlyAdvances == Spec => SnapshotAdvances
  <1>1. ASSUME CacheInv, [Next]_vars, stored' # stored, Loadable
        PROVE  snapshot' \in Snapshot /\ snapshot'.gen > snapshot.gen
    <2>1. PICK s \in Scan : Rename(s) \/ RenameFails(s)
      BY <1>1 DEF Next, vars, Finished, Reserve, Observe, Replace, Validate,
           Change, ReserveBusy, ReserveRefused, ReadCounter, TruncateCounter,
           WriteCounter, WriteCounterFails, Collect, ReadFile, ScanDone,
           ScanUncached, ReplaceBusy, Superseded, Compare, Load, Witness,
           WitnessContent, Recollect, ContextRead, ValidationUnavailable,
           Recheck, Answer, ChangePlugins, ChangeState, Kill
    <2>2. Store(s) /\ pc[s] = "rename"
      BY <1>1, <2>1 DEF Rename, RenameFails
    <2>3. snapshot' \in Snapshot /\ snapshot'.gen = gen[s]
      BY <1>1, <2>2, StoredIsSnapshot DEF CacheInv
    <2>4. snapshot.gen < gen[s] /\ snapshot.gen \in Number /\ gen[s] \in Number
      BY <1>1, <2>2 DEF CacheInv, Order, Loadable, Snapshot
    <2> QED BY <2>3, <2>4 DEF Number
  <1> QED BY <1>1, CacheInit, CacheStep, PTL DEF Spec, SnapshotAdvances

-----------------------------------------------------------------------------
(* Validation.  As long as the modification times are the ones a reader     *)
(* witnessed, what it has read of the files is what they hold, and if that  *)
(* and the plugins are the cached ones, so they were when it collected.     *)

\* The collected plugins are the cached ones and so are the state files.
Agrees(v, files) ==
    content[v] = cached[v].plugins /\ files = cached[v].state

Observed(v) ==
    /\ pc[v] \in Witnessing =>
         \A f \in StateFile : before[v].mtime[f] <= mtime[f]
    /\ pc[v] \in {"load", "witness", "witness_content", "collect"} =>
         \A f \in StateFile : read[v][f] = None
    /\ pc[v] = "recheck" => read[v] \in State
    /\ pc[v] \in {"read", "recheck"} /\ mtime = before[v].mtime =>
         /\ \A f \in StateFile : read[v][f] # None => read[v][f] = state[f]
         /\ Agrees(v, state) => matched[v]
    /\ pc[v] = "recheck_content" => (Agrees(v, read[v]) => matched[v])
    /\ pc[v] = "valid" => matched[v]

ReaderInv ==
    /\ TypeInv
    /\ \A f \in StateFile : mtime[f] <= clock
    /\ \A v \in Reader : Observed(v)

\* A reader is disturbed neither by a scan nor by another reader.
LEMMA ReaderUntouched ==
    ASSUME ReaderInv, TypeInv', UNCHANGED <<state, mtime, clock>>,
           NEW v \in Reader, UNCHANGED <<pc[v], content[v], read[v], cached[v],
                                         before[v], matched[v]>>
    PROVE  Observed(v)'
  BY DEF ReaderInv, Observed, Agrees

\* A scan changes nothing a reader's answer depends on.
LEMMA ReaderScan ==
    ASSUME ReaderInv, TypeInv', NEW s \in Scan,
           Reserve(s) \/ Observe(s) \/ Replace(s) \/ Kill(s)
    PROVE  ReaderInv'
  <1>1. UNCHANGED <<state, mtime, clock, check>>
    BY DEF Reserve, Observe, Replace, ReserveBusy, ReserveRefused, ReadCounter,
           TruncateCounter, WriteCounter, WriteCounterFails, Collect, ReadFile,
           ScanDone, ScanUncached, ReplaceBusy, Superseded, Compare, Rename,
           RenameFails, Kill
  <1>2. \A v \in Reader : UNCHANGED <<pc[v], content[v], read[v]>>
    BY DEF Reserve, Observe, Replace, ReserveBusy, ReserveRefused, ReadCounter,
           TruncateCounter, WriteCounter, WriteCounterFails, Collect, ReadFile,
           ScanDone, ScanUncached, ReplaceBusy, Superseded, Compare, Rename,
           RenameFails, Kill
  <1> QED BY <1>1, <1>2, ReaderUntouched DEF ReaderInv

\* A step of a validation keeps what it has observed true.
LEMMA ReaderValidate ==
    ASSUME ReaderInv, TypeInv', NEW v \in Reader, Validate(v)
    PROVE  ReaderInv'
  <1> USE DEF ReaderInv
  <1>1. UNCHANGED world
    BY DEF Validate, Load, Witness, WitnessContent, Recollect, ReadFile,
           ContextRead, ValidationUnavailable, Recheck, Answer
  <1>2. ASSUME NEW u \in Reader, u # v
        PROVE  Observed(u)'
    <2>1. UNCHANGED <<pc[u], content[u], read[u], cached[u], before[u],
                      matched[u]>>
      BY <1>2 DEF Validate, Load, Witness, WitnessContent, Recollect, ReadFile,
           ContextRead, ValidationUnavailable, Recheck, Answer
    <2> QED BY <1>1, <2>1, ReaderUntouched
  <1>3. Observed(v)'
    <2> USE <1>1 DEF Observed
    <2>1. CASE Load(v) BY <2>1 DEF Load
    <2>2. CASE Witness(v) BY <2>2 DEF Witness, Witnessed, Time
    <2>3. CASE WitnessContent(v) BY <2>3 DEF WitnessContent
    <2>4. CASE Recollect(v) BY <2>4 DEF Recollect, Agrees
    <2>5. ASSUME NEW f \in StateFile, ReadFile(v, f) PROVE Observed(v)'
      BY <2>5 DEF ReadFile, Agrees, State
    <2>6. CASE ContextRead(v)
      <3>1. read[v] \in State BY <2>6 DEF ContextRead, AllRead, State
      <3> QED BY <2>6, <3>1 DEF ContextRead, Agrees
    <2>7. CASE ValidationUnavailable(v) BY <2>7 DEF ValidationUnavailable
    <2>8. CASE Recheck(v)
      <3>1. CASE mtime # before[v].mtime BY <2>8, <3>1 DEF Recheck
      <3>2. CASE mtime = before[v].mtime
        <4>1. read[v] \in State BY <2>8 DEF Recheck
        <4>2. \A f \in StateFile : read[v][f] = state[f]
          BY <2>8, <3>2, <4>1 DEF Recheck, State
        <4>3. read[v] = state BY <4>1, <4>2 DEF State
        <4> QED BY <2>8, <3>2, <4>3 DEF Recheck, Agrees
      <3> QED BY <3>1, <3>2
    <2>9. CASE Answer(v) BY <2>9 DEF Answer, Agrees
    <2> QED BY <2>1, <2>2, <2>3, <2>4, <2>5, <2>6, <2>7, <2>8, <2>9
            DEF Validate
  <1> QED BY <1>1, <1>2, <1>3

\* A state file that changes is newer than everything witnessed before.
LEMMA ReaderChange ==
    ASSUME ReaderInv, TypeInv', Change
    PROVE  ReaderInv'
  <1> USE DEF ReaderInv
  <1>1. CASE ChangePlugins
    BY <1>1 DEF ChangePlugins, Observed, Agrees, State, Time
  <1>2. ASSUME NEW f \in StateFile, ChangeState(f) PROVE ReaderInv'
    <2> USE <1>2 DEF ChangeState
    <2>1. /\ \A g \in StateFile : mtime[g] <= mtime'[g] /\ mtime'[g] <= clock'
          /\ mtime[f] < mtime'[f]
      BY DEF Time
    <2>2. ASSUME NEW v \in Reader PROVE Observed(v)'
      <3>1. pc[v] \in Witnessing => mtime' # before[v].mtime
        BY <2>1 DEF Observed, Witnessed, Time
      <3>2. pc[v] \in Witnessing =>
              \A g \in StateFile : before[v].mtime[g] <= mtime'[g]
        BY <2>1 DEF Observed, Witnessed, Time
      <3> QED BY <3>1, <3>2 DEF Observed, Agrees
    <2> QED BY <2>1, <2>2
  <1> QED BY <1>1, <1>2 DEF Change

\* No reader has observed anything at the start.
LEMMA ReaderInit == Init => ReaderInv
  BY TypeInit DEF Init, ReaderInv, Observed, Blank

\* Every step preserves the invariant of the readers.
LEMMA ReaderStep == ReaderInv /\ [Next]_vars => ReaderInv'
  <1> SUFFICES ASSUME ReaderInv, [Next]_vars PROVE ReaderInv'
    OBVIOUS
  <1>1. TypeInv' BY TypeStep DEF ReaderInv
  <1>2. CASE UNCHANGED vars \/ Finished
    BY <1>1, <1>2, ReaderUntouched DEF vars, Finished, ReaderInv
  <1> QED
    BY <1>1, <1>2, ReaderScan, ReaderValidate, ReaderChange DEF Next

\* "cached-valid" is only ever said of a context that was the actual one.
THEOREM ValidIsTrue == Spec => []ValidWasTrue
  <1>1. ReaderInv => ValidWasTrue
    BY DEF ReaderInv, Observed, ValidWasTrue
  <1> QED BY <1>1, ReaderInit, ReaderStep, PTL DEF Spec

=============================================================================
