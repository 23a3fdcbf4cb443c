-------------------------- MODULE ScanAlertsProofs --------------------------
(***************************************************************************)
(* Proofs about ScanAlerts and the trust ledger it is composed with, for   *)
(* any number of directories, plugins, contents, commands, scans, edits    *)
(* and faults.                                                             *)
(*                                                                         *)
(* The invariant has three layers, each proved from those before it:       *)
(*  - types, and what a command or a scan has in hand where it stands;     *)
(*  - who holds the flock, and that scans are served one after the other;  *)
(*  - what the ledger, the state file and the state in a scan's memory     *)
(*    have to do with what was confirmed and what was notified.            *)
(***************************************************************************)
EXTENDS ScanAlerts, SequenceTheorems, FiniteSetTheorems, TLAPS

Active  == {"load", "raise", "market", "analyze", "write", "report"}
Loaded  == {"raise", "market", "analyze", "write", "report"}
Writing == {"raise", "market", "analyze", "write"}
Raised  == {"market", "analyze", "write", "report"}
Ahead   == {"idle", "lock"}
Over    == {"done", "aborted"}
Listing == [Dir -> Observed \cup {Gone}]
Fields  == DOMAIN Unstarted
Place   == {"idle", "confirm", "lock", "decide", "write", "done", "failed"}

\* What a command has in hand.
ClientTyped(c) ==
    /\ cpc[c] # "idle" => ccmd[c] \in May[c]
    /\ cpc[c] \in {"confirm", "lock", "decide"} /\ ccmd[c].do = "trust"
          => shown[c] \in Observed
    /\ cpc[c] = "write" => IsLedger(cmem[c])

\* What a scan has in hand.
ScanTyped(r) ==
    /\ DOMAIN r = Fields
    /\ r.pc \in Ahead \cup Active \cup Over
    /\ r.pc \in {"lock"} \cup Active =>
          r.mode \in Mode /\ r.inv \in Listing /\ r.policy \in DOMAIN Policy
    /\ r.pc \in Loaded =>
          /\ IsLedger(r.ledger) /\ IsState(r.state)
          /\ DOMAIN r.state = {"alerts", "events"}
    /\ r.pc \notin Loaded => r.state = None
    /\ r.pc \in Ahead \cup {"load", "raise"} => r.live = {} /\ r.sent = {}
    /\ r.pc \in Ahead \cup {"load"} => ~r.reset
    /\ r.pc \in (Ahead \cup Active) \ {"report"} => ~r.wrote
    /\ \A k \in r.live \cup r.sent : k[1] \in Alert

HostTyped ==
    /\ installed \in Listing
    /\ edits \in 0..MaxEdits /\ damage \in 0..MaxDamage
    /\ ledger = Corrupt \/ IsLedger(ledger)
    /\ state # Corrupt =>
          IsState(state) /\ DOMAIN state = {"alerts", "events"}
    /\ ambient \subseteq Ambient /\ catalog \in Catalog
    /\ policy \in DOMAIN Policy /\ served \in Seq(Scan)

ClientsTyped ==
    /\ DOMAIN cpc = Client /\ DOMAIN ccmd = Client
    /\ DOMAIN shown = Client /\ DOMAIN cmem = Client
    /\ \A c \in Client :
        /\ cpc[c] \in Place
        /\ ccmd[c] \in May[c] \cup {None}
        /\ shown[c] \in Observed \cup {None}
        /\ cmem[c] = None \/ IsLedger(cmem[c])
        /\ ClientTyped(c)

ScansTyped == DOMAIN scan = Scan /\ \A s \in Scan : ScanTyped(scan[s])

\* Whoever is past its lock and has not ended holds it.
LockInv ==
    /\ \A c \in Client : cpc[c] \in {"decide", "write"} => holder = c
    /\ \A s \in Scan : scan[s].pc \in Active => holder = s

TypeInv == HostTyped /\ ClientsTyped /\ ScansTyped /\ LockInv

\* Scans are served one after the other: an active one is the last served.
ServedInv ==
    /\ \A s \in Scan : scan[s].pc \in Active =>
          Len(served) > 0 /\ s = served[Len(served)]
    /\ \A i \in DOMAIN served :
          /\ scan[served[i]].pc \notin Ahead
          /\ i < Len(served) => scan[served[i]].pc \in Over

Grows(l, m) ==
    IsPrefix(l.records, m.records) /\ l.decisions \subseteq m.decisions

\* A command writes the ledger it loaded, or more.
WritesMore ==
    \A c \in Client : cpc[c] = "write" /\ ledger # Corrupt =>
        Grows(ledger, cmem[c])

\* A record is an initial one, one that a command in S confirmed by what it
\* was and what it showed, or an earlier one again.
Confirmed(l, S, command, display) ==
    \A i \in DOMAIN l.records :
        LET r == l.records[i]
        IN  \/ r.accepted = CurrentIdentity(Initial, r.id)
            \/ \E c \in S : /\ command[c].id = r.id
                            /\ command[c].do = "trust"
                            /\ display[c] = r.accepted
            \/ \E c \in S : /\ command[c].id = r.id
                            /\ command[c].do = "rebaseline"
                            /\ command[c].expected = r.accepted.src
            \/ \E j \in 1..(i - 1) : l.records[j] = r

Succeeded == {c \in Client : cpc[c] = "done"}

LedgerInv ==
    /\ WritesMore
    /\ ledger # Corrupt => Confirmed(ledger, Succeeded, ccmd, shown)
    /\ \A c \in Client : cpc[c] = "write" =>
          Confirmed(cmem[c], Succeeded \cup {c}, ccmd, shown)

\* A scan that has compared identities has said all it found, and nothing
\* it says later is about them.
RaisedInv ==
    \A s \in Scan : scan[s].pc \in Raised =>
        /\ CoreKeys(scan[s]) \subseteq scan[s].live
        /\ \A k \in scan[s].live \ CoreKeys(scan[s]) :
              k[1] \in {"market", "provenance", "analysis"}

\* The scans that were served, as far as they have come.
History == [i \in DOMAIN served |-> scan[served[i]]]

\* Scan r has written the state and key k was not live in it: Retired.
Drops(r, k) ==
    /\ r.wrote /\ k \notin r.live
    /\ k[1] = "analysis" => r.mode.analysis

\* Key k has been notified, by one of the first n scans of the history h,
\* and none since has retired it or lost the state.
Known(h, k, n) ==
    \E i \in 1..n :
        /\ k \in h[i].sent
        /\ \A m \in (i + 1)..n : ~Drops(h[m], k) /\ ~h[m].reset

\* What the i-th scan notified need not be remembered after the n-th, or it
\* was retired after at most d scans.
Forgotten(h, k, i, d, n) ==
    \/ ~h[i].wrote
    \/ \E m \in (i + 1)..d : Drops(h[m], k)
    \/ \E m \in (i + 1)..n : h[m].reset

\* Nothing is remembered that was not notified.
KnownInv ==
    /\ state # Corrupt =>
          \A k \in state.alerts : Known(History, k, Len(served))
    /\ \A s \in Scan : scan[s].pc \in Loaded =>
        /\ \A k \in scan[s].state.alerts : Known(History, k, Len(served))
        /\ scan[s].mode.notify => scan[s].live \subseteq scan[s].state.alerts
    /\ \A j \in DOMAIN served :
        History[j].pc = "done" /\ History[j].mode.notify =>
            \A k \in History[j].live : Known(History, k, j)

\* What was notified is remembered.
KeptInv ==
    /\ \A i \in DOMAIN served : \A k \in History[i].sent :
        \/ Forgotten(History, k, i, Len(served), Len(served))
        \/ state = Corrupt \/ k \in state.alerts
    /\ \A s \in Scan : scan[s].pc \in Writing =>
        /\ scan[s].sent \subseteq scan[s].live \cap scan[s].state.alerts
        /\ \A i \in 1..(Len(served) - 1) : \A k \in History[i].sent :
              \/ Forgotten(History, k, i, Len(served), Len(served))
              \/ k \in scan[s].state.alerts
    /\ \A i, j \in DOMAIN served : i < j =>
        \A k \in History[i].sent \cap History[j].sent :
            Forgotten(History, k, i, j - 1, j)

-----------------------------------------------------------------------------
(* Lemmas about the operators of the ledger.                               *)

\* A nonempty set of naturals has a least element.
LEMMA LeastNatural ==
  ASSUME NEW T \in SUBSET Nat, T # {}
  PROVE  \E k \in T : \A m \in T : k <= m
  <1> DEFINE Less == OpToRel(<, Nat)
  <1>1. IsWellFoundedOn(Less, Nat)
    BY NatLessThanWellFounded
  <1>2. \A a, b \in Nat : a < b => <<a, b>> \in Less
    BY DEF OpToRel
  <1> HIDE DEF Less
  <1>3. PICK k \in T : \A m \in T : ~ (<<m, k>> \in Less)
    BY <1>1, WFMin, Zenon
  <1>4. ASSUME NEW m \in T PROVE k <= m
    <2>1. m \in Nat /\ k \in Nat
      OBVIOUS
    <2>2. <<m, k>> \notin Less
      BY <1>3
    <2>3. ~(m < k)
      BY <1>2, <2>1, <2>2
    <2> QED BY <2>1, <2>3
  <1> QED BY <1>4

\* The first copy of a plugin is one of its copies.
LEMMA FirstCopyIsOne ==
  ASSUME NEW inv \in Listing, NEW id, Copies(inv, id) # {}
  PROVE  /\ FirstCopy(inv, id) \in Present(inv)
         /\ IdOf[FirstCopy(inv, id)] = id
         /\ inv[FirstCopy(inv, id)] \in Observed
  <1>1. Copies(inv, id) \in SUBSET Nat
    BY WalkListsEveryDirectory DEF Copies
  <1>2. \E k \in Copies(inv, id) : \A m \in Copies(inv, id) : k <= m
    BY <1>1, LeastNatural
  <1>3. Min(Copies(inv, id)) \in Copies(inv, id)
    BY <1>2 DEF Min
  <1>4. FirstCopy(inv, id) \in Dir
    BY <1>3, WalkListsEveryDirectory DEF FirstCopy, Copies
  <1>5. inv[FirstCopy(inv, id)] # Gone /\ IdOf[FirstCopy(inv, id)] = id
    BY <1>3 DEF FirstCopy, Copies
  <1> QED BY <1>4, <1>5 DEF Present, Listing

\* What a plugin is now: an identity, or nothing.
LEMMA IdentityTyped ==
  ASSUME NEW inv \in Listing, NEW id
  PROVE  /\ CurrentIdentity(inv, id) \in Observed \cup {None}
         /\ Copies(inv, id) # {} =>
               CurrentIdentity(inv, id) = inv[FirstCopy(inv, id)]
  BY FirstCopyIsOne DEF CurrentIdentity

\* An appended sequence begins with what it was appended to.
LEMMA AppendGrows ==
  ASSUME NEW S, NEW s \in Seq(S), NEW x \in S
  PROVE  /\ Append(s, x) \in Seq(S) /\ Len(Append(s, x)) = Len(s) + 1
         /\ \A i \in 1..Len(s) : Append(s, x)[i] = s[i]
         /\ Append(s, x)[Len(s) + 1] = x
         /\ IsPrefix(s, Append(s, x))
  <1>1. /\ Append(s, x) \in Seq(S) /\ Len(Append(s, x)) = Len(s) + 1
        /\ \A i \in 1..Len(s) : Append(s, x)[i] = s[i]
        /\ Append(s, x)[Len(s) + 1] = x
    BY AppendProperties
  <1>2. Len(s) \in Nat BY LenProperties
  <1>3. SubSeq(s, 1, Len(s)) = SubSeq(Append(s, x), 1, Len(s))
    BY <1>1, <1>2
  <1> QED BY <1>1, <1>2, <1>3 DEF IsPrefix

\* A ledger grows into itself.
LEMMA GrowsItself ==
  ASSUME NEW l, IsLedger(l)
  PROVE  Grows(l, l)
  <1>1. Len(l.records) \in Nat BY LenProperties DEF IsLedger
  <1> QED BY <1>1 DEF Grows, IsPrefix

\* A command names a plugin, and acknowledge and exclude a scope.
LEMMA CommandTyped ==
  ASSUME NEW k \in Command
  PROVE  /\ k.id \in Id
         /\ k.do \in {"trust", "rebaseline", "restore", "untrust",
                      "acknowledge", "exclude"}
  BY DEF Command

\* What a command makes of a ledger: it keeps every record and decision and
\* appends at most one record, of what it showed, of what its operator
\* named, or of an earlier record.
LEMMA DecidedExtends ==
  ASSUME NEW l, l # Corrupt => IsLedger(l), NEW c \in Client,
         ccmd[c] \in Command, installed \in Listing,
         ccmd[c].do = "trust" => shown[c] \in Observed,
         NEW m \in Decided(c, l)
  PROVE  /\ l # Corrupt /\ IsLedger(m) /\ Grows(l, m)
         /\ \/ m.records = l.records
            \/ \E a \in Observed :
                 /\ m.records =
                       Append(l.records, [id |-> ccmd[c].id, accepted |-> a])
                 /\ \/ ccmd[c].do = "trust" /\ shown[c] = a
                    \/ ccmd[c].do = "rebaseline" /\ ccmd[c].expected = a.src
                    \/ \E i \in DOMAIN l.records :
                          l.records[i] = [id |-> ccmd[c].id, accepted |-> a]
  <1> DEFINE k == ccmd[c]
             now == CurrentIdentity(installed, k.id)
             Note(action, scope) ==
               [l EXCEPT !.decisions = @ \cup {<<k.id, action, scope>>}]
  <1>1. k.id \in Id /\ k.do \in {"trust", "rebaseline", "restore", "untrust",
                                 "acknowledge", "exclude"}
    BY CommandTyped
  <1>2. l # Corrupt /\ IsLedger(l)
    BY DEF Decided
  <1>3. ASSUME NEW a \in Observed, m = Accept(l, k.id, a)
        PROVE  /\ IsLedger(m) /\ Grows(l, m)
               /\ m.records = Append(l.records, [id |-> k.id, accepted |-> a])
    <2> DEFINE r == [id |-> k.id, accepted |-> a]
    <2>1. r \in Record BY <1>1 DEF Record
    <2>2. m.records = Append(l.records, r) /\ m.decisions = l.decisions
          /\ m.revoked = l.revoked \ {k.id} /\ DOMAIN m = DOMAIN Empty
      BY <1>3 DEF Accept, Empty
    <2> HIDE DEF r
    <2>3. m.records \in Seq(Record) /\ IsPrefix(l.records, m.records)
      BY <1>2, <2>1, <2>2, AppendGrows DEF IsLedger
    <2>4. IsLedger(m) BY <1>2, <2>2, <2>3 DEF IsLedger
    <2>5. Grows(l, m) BY <2>2, <2>3 DEF Grows
    <2> QED BY <2>2, <2>4, <2>5 DEF r
  <1>4. ASSUME NEW action, NEW scope
        PROVE  LET n == Note(action, scope) IN
               /\ IsLedger(n) /\ Grows(l, n) /\ n.records = l.records
               /\ IsLedger(Revoke(n, k.id)) /\ Grows(l, Revoke(n, k.id))
               /\ Revoke(n, k.id).records = l.records
    <2> DEFINE n == Note(action, scope)
               q == Revoke(n, k.id)
    <2>1. /\ n.records = l.records /\ n.revoked = l.revoked
          /\ DOMAIN n = DOMAIN Empty
          /\ n.decisions = l.decisions \cup {<<k.id, action, scope>>}
      BY <1>2 DEF IsLedger, Empty
    <2> HIDE DEF n
    <2>2. /\ q.records = l.records /\ q.revoked = l.revoked \cup {k.id}
          /\ DOMAIN q = DOMAIN Empty
          /\ q.decisions = l.decisions \cup {<<k.id, action, scope>>}
      BY <1>2, <2>1 DEF IsLedger, Empty, Revoke
    <2> HIDE DEF q
    <2>3. \A t \in l.decisions \cup {<<k.id, action, scope>>} : t[1] \in Id
      BY <1>1, <1>2 DEF IsLedger
    <2>4. Grows(l, l) BY <1>2, GrowsItself
    <2>5. IsLedger(n) /\ Grows(l, n)
      BY <1>2, <2>1, <2>3, <2>4 DEF IsLedger, Grows
    <2>6. IsLedger(q) /\ Grows(l, q)
      BY <1>1, <1>2, <2>2, <2>3, <2>4 DEF IsLedger, Grows
    <2> QED BY <2>1, <2>2, <2>5, <2>6 DEF n, q
  <1>5. CASE k.do = "trust"
    <2>1. m = Accept(l, k.id, shown[c]) BY <1>2, <1>5 DEF Decided
    <2> QED BY <1>2, <1>3, <1>5, <2>1
  <1>6. CASE k.do = "rebaseline"
    <2>1. m = Accept(l, k.id, now) /\ now # None /\ now.src = k.expected
      BY <1>2, <1>6 DEF Decided
    <2>2. now \in Observed BY <2>1, IdentityTyped
    <2> QED BY <1>2, <1>3, <1>6, <2>1, <2>2
  <1>7. CASE k.do = "restore"
    <2>1. PICK i \in RecordNumber(l, k.id, k.index) :
             m = Accept(l, k.id, l.records[i].accepted)
      BY <1>2, <1>7 DEF Decided
    <2>2. i \in DOMAIN l.records /\ l.records[i].id = k.id
      BY <2>1 DEF RecordNumber, RecordsOf
    <2>3. l.records[i] \in Record BY <1>2, <2>2 DEF IsLedger
    <2>4. /\ l.records[i].accepted \in Observed
          /\ l.records[i] = [id |-> k.id, accepted |-> l.records[i].accepted]
      BY <2>2, <2>3 DEF Record
    <2> QED BY <1>2, <1>3, <2>1, <2>2, <2>4
  <1>8. CASE k.do = "untrust"
    <2>1. m = Revoke(Note("untrust", "trust-baseline"), k.id)
      BY <1>2, <1>8 DEF Decided
    <2> QED BY <1>2, <1>4, <2>1
  <1>9. CASE k.do \in {"acknowledge", "exclude"}
    <2>1. m = Note(k.do, k.scope) BY <1>2, <1>9 DEF Decided
    <2> QED BY <1>2, <1>4, <2>1
  <1> QED BY <1>1, <1>5, <1>6, <1>7, <1>8, <1>9

-----------------------------------------------------------------------------
(* Lemmas about what a scan raises.                                        *)

Told(r, keys) == IF r.mode.notify THEN keys \ r.state.alerts ELSE {}

\* What raising alerts leaves alone.
Keeps(r, q) ==
    /\ q.mode = r.mode /\ q.inv = r.inv /\ q.ambient = r.ambient
    /\ q.policy = r.policy /\ q.ledger = r.ledger /\ q.lost = r.lost
    /\ q.reset = r.reset /\ q.wrote = r.wrote

\* Scan r raises keys and becomes q.
Raises(r, q, keys) ==
    /\ DOMAIN q = Fields /\ DOMAIN q.state = {"alerts", "events"}
    /\ q.live = r.live \cup keys
    /\ q.sent = r.sent \cup Told(r, keys)
    /\ q.state.alerts = r.state.alerts \cup Told(r, keys)
    /\ Keeps(r, q)

LEMMA FieldNames ==
  Fields = {"pc", "mode", "inv", "ambient", "policy", "ledger", "state",
            "lost", "reset", "live", "fresh", "sent", "dirty", "wrote",
            "compared", "findings"}
  BY DEF Fields, Unstarted

\* Emit raises; so does Emit that moves on, and one that remembers events.
LEMMA EmitRaises ==
  ASSUME NEW r, DOMAIN r = Fields, DOMAIN r.state = {"alerts", "events"},
         NEW keys
  PROVE  LET q == Emit(r, keys)
         IN  Raises(r, q, keys) /\ q.state.events = r.state.events
  <1> DEFINE q == Emit(r, keys)
  <1>1. DOMAIN q = Fields /\ Keeps(r, q)
    BY FieldNames DEF Emit, Keeps
  <1>2. q.live = r.live \cup keys /\ q.sent = r.sent \cup Told(r, keys)
    BY FieldNames DEF Emit, Told
  <1>3. q.state = [r.state EXCEPT !.alerts = @ \cup Told(r, keys)]
    BY FieldNames DEF Emit, Told
  <1> QED BY <1>1, <1>2, <1>3 DEF Raises

LEMMA MoveRaises ==
  ASSUME NEW r, NEW e, NEW keys, Raises(r, e, keys), NEW p
  PROVE  LET q == [e EXCEPT !.pc = p]
         IN  Raises(r, q, keys) /\ q.pc = p /\ q.state = e.state
  BY FieldNames DEF Raises, Keeps

LEMMA RememberRaises ==
  ASSUME NEW r, NEW e, NEW keys, Raises(r, e, keys), NEW out
  PROVE  LET q == Remember(e, out)
         IN  /\ Raises(r, q, keys)
             /\ q.state.events =
                   [p \in Id |-> IF p \in Analysed(e) /\ out[p] # None
                                 THEN NewEvent(e, p, out[p])
                                 ELSE e.state.events[p]]
  <1> DEFINE q == Remember(e, out)
             events == [p \in Id |-> IF p \in Analysed(e) /\ out[p] # None
                                 THEN NewEvent(e, p, out[p])
                                 ELSE e.state.events[p]]
  <1>1. /\ DOMAIN q = Fields /\ Keeps(e, q)
        /\ q.live = e.live /\ q.sent = e.sent
    BY FieldNames DEF Remember, Raises, Keeps
  <1>2. q.state = [e.state EXCEPT !.events = events]
    BY FieldNames DEF Remember, Raises
  <1> HIDE DEF q, events
  <1>3. /\ q.state.events = events /\ q.state.alerts = e.state.alerts
        /\ DOMAIN q.state = {"alerts", "events"}
    BY <1>2 DEF Raises
  <1>4. Raises(r, q, keys)
    BY <1>1, <1>3 DEF Raises, Keeps
  <1> QED BY <1>3, <1>4 DEF q, events

\* The first component of a key says which check raised it.
LEMMA KeysAreAlerts ==
  ASSUME NEW r, NEW c, NEW out
  PROVE  /\ \A k \in CoreKeys(r) : k[1] \in {"history", "coverage", "partial",
                                            "drift", "missing", "ambient"}
         /\ \A k \in MarketKeys(r, c) : k[1] \in {"market", "provenance"}
         /\ \A k \in AnalysisKeys(r, out) : k[1] = "analysis"
  <1>1. ASSUME NEW k \in CoreKeys(r)
        PROVE  k[1] \in {"history", "coverage", "partial",
                         "drift", "missing", "ambient"}
    BY <1>1 DEF CoreKeys, DriftKey
  <1>2. ASSUME NEW k \in MarketKeys(r, c)
        PROVE  k[1] \in {"market", "provenance"}
    BY <1>2 DEF MarketKeys
  <1>3. ASSUME NEW p, NEW prev, NEW e,
               NEW k \in GrowthKeys(p, prev, e) \cup ClassKeys(p, prev, e)
        PROVE  k[1] = "analysis"
    <2>1. CASE k \in GrowthKeys(p, prev, e)
      BY <2>1 DEF GrowthKeys
    <2>2. CASE k \in ClassKeys(p, prev, e)
      <3>1. CASE Class(prev, e) = "policy-update"
        BY <2>2, <3>1 DEF ClassKeys
      <3>2. CASE Class(prev, e) = "instability"
        BY <2>2, <3>2 DEF ClassKeys
      <3>3. CASE Class(prev, e) \notin {"policy-update", "instability"}
        BY <2>2, <3>3 DEF ClassKeys
      <3> QED BY <3>1, <3>2, <3>3
    <2> QED BY <1>3, <2>1, <2>2
  <1>4. ASSUME NEW k \in AnalysisKeys(r, out) PROVE k[1] = "analysis"
    BY <1>3, <1>4 DEF AnalysisKeys
  <1> QED BY <1>1, <1>2, <1>4

\* What a scan finds by comparing identities is settled when it has loaded.
LEMMA CoreKeysStay ==
  ASSUME NEW r, NEW q, q.inv = r.inv, q.ambient = r.ambient,
         q.ledger = r.ledger, q.lost = r.lost
  PROVE  CoreKeys(q) = CoreKeys(r)
  <1>1. /\ Blind(q) = Blind(r)
        /\ \A p, scope : Excluded(q, p, scope) = Excluded(r, p, scope)
        /\ \A d : DriftKey(q, d) = DriftKey(r, d)
    BY DEF Blind, Excluded, DriftKey
  <1> QED BY <1>1 DEF CoreKeys

-----------------------------------------------------------------------------
(* The initial states.                                                     *)

\* A finite set of records, put in some order, is a sequence of them.
LEMMA SequenceOfSet ==
  ASSUME NEW S, IsFiniteSet(S)
  PROVE  SetToSeq(S) \in Seq(S)
  <1>1. Cardinality(S) \in Nat /\ ExistsBijection(1..Cardinality(S), S)
    BY FS_CardinalityType
  <1>2. PICK f \in Bijection(1..Cardinality(S), S) : TRUE
    BY <1>1 DEF ExistsBijection
  <1>3. f \in [1..Cardinality(S) -> S] /\ IsInjective(f)
    BY <1>2 DEF Bijection, Injection, IsInjective
  <1>4. SetToSeq(S) \in [1..Cardinality(S) -> S]
    BY <1>3 DEF SetToSeq
  <1> QED BY <1>1, <1>4

\* What was trusted at first is a ledger of initial identities.
LEMMA FirstLedger ==
  ASSUME NEW trusted \in SUBSET Id
  PROVE  LET l == [Empty EXCEPT !.records =
                    SetToSeq({[id |-> i,
                               accepted |-> CurrentIdentity(Initial, i)] :
                                  i \in {j \in trusted :
                                    CurrentIdentity(Initial, j) # None}})]
         IN  IsLedger(l) /\ \A c, d : Confirmed(l, {}, c, d)
  <1> DEFINE first(i) ==
               [id |-> i, accepted |-> CurrentIdentity(Initial, i)]
             S == {first(i) : i \in {j \in trusted :
                                CurrentIdentity(Initial, j) # None}}
             l == [Empty EXCEPT !.records = SetToSeq(S)]
             n == Len(Walk)
             T == {first(IdOf[Walk[i]]) : i \in 1..n}
             f == [i \in 1..n |-> first(IdOf[Walk[i]])]
  <1>1. n \in Nat /\ DOMAIN Walk = 1..n
    BY WalkListsEveryDirectory
  <1>2. f \in Surjection(1..n, T)
    BY DEF Surjection
  <1>3. IsFiniteSet(T)
    <2>1. IsFiniteSet(1..n) BY <1>1, FS_Interval
    <2> HIDE DEF T, f
    <2> QED BY <1>2, <2>1, FS_Surjection
  <1>4. S \in SUBSET T
    BY <1>1, WalkListsEveryDirectory DEF Id
  <1>5. IsFiniteSet(S)
    <2> HIDE DEF S, T
    <2> QED BY <1>3, <1>4, FS_Subset
  <1>6. SetToSeq(S) \in Seq(S)
    <2> HIDE DEF S
    <2> QED BY <1>5, SequenceOfSet
  <1>7. S \subseteq Record
    <2>1. Initial \in Listing BY WalkListsEveryDirectory DEF Listing
    <2>2. \A i \in trusted : CurrentIdentity(Initial, i) # None =>
             CurrentIdentity(Initial, i) \in Observed
      BY <2>1, IdentityTyped
    <2> QED BY <2>2 DEF Record
  <1>8. /\ DOMAIN l = DOMAIN Empty /\ l.records = SetToSeq(S)
        /\ l.revoked = {} /\ l.decisions = {}
    BY DEF Empty
  <1>9. \A x \in S : x.accepted = CurrentIdentity(Initial, x.id)
    OBVIOUS
  <1> HIDE DEF S, l
  <1>10. l.records \in Seq(Record) /\ l.records \in Seq(S)
    BY <1>6, <1>7, <1>8
  <1>11. IsLedger(l)
    BY <1>8, <1>10 DEF IsLedger
  <1>12. \A i \in DOMAIN l.records : l.records[i] \in S
    BY <1>10
  <1>13. \A c, d : Confirmed(l, {}, c, d)
    BY <1>9, <1>12 DEF Confirmed
  <1> QED BY <1>11, <1>13 DEF l, S

Inv == TypeInv /\ ServedInv /\ LedgerInv /\ RaisedInv /\ KnownInv /\ KeptInv

LEMMA Starts == Init => Inv
  <1> SUFFICES ASSUME Init PROVE Inv
    OBVIOUS
  <1>1. /\ installed \in Listing /\ edits \in 0..MaxEdits
        /\ damage \in 0..MaxDamage /\ holder = Free
    BY WalkListsEveryDirectory DEF Init, LedgerInit, Listing
  <1>2. IsLedger(ledger) /\ \A c, d : Confirmed(ledger, {}, c, d)
    <2>1. PICK trusted \in SUBSET Id :
             ledger = [Empty EXCEPT !.records =
                        SetToSeq({[id |-> i,
                                   accepted |-> CurrentIdentity(Initial, i)] :
                                    i \in {j \in trusted :
                                        CurrentIdentity(Initial, j) # None}})]
      BY DEF Init, LedgerInit
    <2> QED BY <2>1, FirstLedger
  <1>3. /\ DOMAIN cpc = Client /\ DOMAIN ccmd = Client
        /\ DOMAIN shown = Client /\ DOMAIN cmem = Client
        /\ \A c \in Client : cpc[c] = "idle" /\ ccmd[c] = None
                             /\ shown[c] = None /\ cmem[c] = None
    BY DEF Init, LedgerInit
  <1>4. /\ ambient \subseteq Ambient /\ catalog \in Catalog
        /\ policy \in DOMAIN Policy
        /\ served = <<>> /\ served \in Seq(Scan) /\ Len(served) = 0
    BY ScansAreTyped DEF Init
  <1>5. IsState(state) /\ state = NoState /\ DOMAIN state = {"alerts", "events"}
    BY DEF Init, IsState, NoState
  <1>6. /\ DOMAIN scan = Scan
        /\ \A s \in Scan : scan[s] = Unstarted
    BY DEF Init
  <1>7. \A s \in Scan :
          /\ DOMAIN scan[s] = Fields /\ scan[s].pc = "idle"
          /\ scan[s].state = None /\ scan[s].live = {} /\ scan[s].sent = {}
          /\ ~scan[s].reset /\ ~scan[s].wrote
    BY <1>6 DEF Unstarted, Fields
  <1>8. HostTyped
    BY <1>1, <1>2, <1>4, <1>5 DEF HostTyped
  <1>9. \A s \in Scan : ScanTyped(scan[s])
    BY <1>7 DEF ScanTyped, Ahead, Active, Over, Loaded
  <1>10. TypeInv
    <2>1. ClientsTyped
      BY <1>3 DEF ClientsTyped, ClientTyped, Place
    <2>2. LockInv
      BY <1>3, <1>7 DEF LockInv, Active
    <2> QED BY <1>6, <1>8, <1>9, <2>1, <2>2 DEF TypeInv, ScansTyped
  <1>11. ServedInv
    BY <1>4, <1>7 DEF ServedInv, Active
  <1>12. LedgerInv
    <2>1. Confirmed(ledger, Succeeded, ccmd, shown)
      BY <1>2 DEF Confirmed
    <2> QED BY <1>3, <2>1 DEF LedgerInv, WritesMore
  <1>13. RaisedInv
    BY <1>7 DEF RaisedInv, Raised
  <1>14. KnownInv
    BY <1>4, <1>5, <1>7 DEF KnownInv, NoState, Loaded
  <1>15. KeptInv
    BY <1>4, <1>7 DEF KeptInv, Writing
  <1> QED BY <1>10, <1>11, <1>12, <1>13, <1>14, <1>15 DEF Inv

-----------------------------------------------------------------------------
(* Types, and who holds the flock.                                         *)

LEMMA TypesAreRight == TypeInv => TypeOK
  <1> SUFFICES ASSUME TypeInv PROVE TypeOK
    OBVIOUS
  <1>1. HostTyped /\ ClientsTyped /\ ScansTyped /\ LockInv
    BY DEF TypeInv
  <1>2. ASSUME NEW s \in Scan
        PROVE  /\ \A k \in scan[s].live \cup scan[s].sent : k[1] \in Alert
               /\ scan[s].state = None \/ IsState(scan[s].state)
               /\ scan[s].pc \notin {"idle", "lock", "done", "aborted"}
                     => holder = s
    <2>1. ScanTyped(scan[s]) BY <1>1 DEF ScansTyped
    <2>2. scan[s].pc \notin {"idle", "lock", "done", "aborted"}
             => scan[s].pc \in Active
      BY <2>1 DEF ScanTyped, Ahead, Over
    <2> QED BY <1>1, <2>1, <2>2 DEF ScanTyped, LockInv
  <1>3. ASSUME NEW c \in Client
        PROVE  /\ cpc[c] \in {"idle", "confirm", "lock", "decide", "write",
                              "done", "failed"}
               /\ ccmd[c] \in May[c] \cup {None}
               /\ shown[c] \in Observed \cup {None}
               /\ cmem[c] = None \/ IsLedger(cmem[c])
               /\ cpc[c] \in {"decide", "write"} => holder = c
    BY <1>1 DEF ClientsTyped, Place, LockInv
  <1> QED BY <1>1, <1>2, <1>3 DEF TypeOK, HostTyped, Listing

\* The commands change nothing of a scan, and of each other only the lock.
LEMMA ClientKeepsTypes ==
  ASSUME TypeInv, NEW c \in Client, UNCHANGED scanVars,
         \/ Start(c) \/ Confirm(c) \/ TakeLock(c) \/ GiveUp(c)
         \/ Decide(c) \/ DecideNothing(c) \/ WriteLedger(c) \/ Stop(c)
  PROVE  TypeInv'
  <1>1. HostTyped /\ ClientsTyped /\ ScansTyped /\ LockInv
    BY DEF TypeInv
  <1>2. ScansTyped'
    BY <1>1 DEF scanVars, ScansTyped
  <1>3. /\ Free \notin Client /\ Free \notin Scan
        /\ \A s \in Scan : s # c
    BY ProcessesDiffer
  <1>4. ccmd[c] \in May[c] => ccmd[c] \in Command
    BY WalkListsEveryDirectory
  <1>5. CASE Start(c)
    <2>1. PICK k \in May[c] :
            /\ ccmd' = [ccmd EXCEPT ![c] = k]
            /\ \/ /\ k.do # "trust" /\ shown' = shown
                  /\ cpc' = [cpc EXCEPT ![c] = "lock"]
               \/ LET identity == CurrentIdentity(installed, k.id)
                  IN  /\ shown' = [shown EXCEPT ![c] = identity]
                      /\ cpc' = [cpc EXCEPT ![c] =
                                   IF identity = None THEN "failed"
                                                      ELSE "confirm"]
      BY <1>5 DEF Start
    <2>2. CurrentIdentity(installed, k.id) \in Observed \cup {None}
      BY <1>1, IdentityTyped DEF HostTyped
    <2>3. UNCHANGED <<installed, edits, ledger, damage, holder, cmem>>
      BY <1>5 DEF Start
    <2>4. ClientsTyped'
      BY <1>1, <2>1, <2>2, <2>3 DEF ClientsTyped, ClientTyped, Place
    <2>5. LockInv'
      BY <1>1, <2>1, <2>3 DEF ClientsTyped, LockInv, scanVars
    <2> QED BY <1>1, <1>2, <2>3, <2>4, <2>5 DEF TypeInv, HostTyped, scanVars
  <1>6. CASE Confirm(c)
    <2>1. ClientsTyped'
      BY <1>1, <1>6 DEF Confirm, ClientsTyped, ClientTyped, Place
    <2>2. LockInv'
      BY <1>1, <1>6 DEF Confirm, ClientsTyped, LockInv, scanVars
    <2> QED BY <1>1, <1>2, <1>6, <2>1, <2>2
            DEF Confirm, TypeInv, HostTyped, scanVars
  <1>7. CASE TakeLock(c)
    <2>1. ClientsTyped'
      BY <1>1, <1>7 DEF TakeLock, ClientsTyped, ClientTyped, Place
    <2>2. LockInv'
      BY <1>1, <1>3, <1>7 DEF TakeLock, ClientsTyped, LockInv, scanVars
    <2> QED BY <1>1, <1>2, <1>7, <2>1, <2>2
            DEF TakeLock, TypeInv, HostTyped, scanVars
  <1>8. CASE GiveUp(c)
    <2>1. ClientsTyped'
      BY <1>1, <1>8 DEF GiveUp, ClientsTyped, ClientTyped, Place
    <2>2. LockInv'
      BY <1>1, <1>8 DEF GiveUp, ClientsTyped, LockInv, scanVars
    <2> QED BY <1>1, <1>2, <1>8, <2>1, <2>2
            DEF GiveUp, TypeInv, HostTyped, scanVars
  <1>9. CASE Decide(c)
    <2>1. PICK l \in Decided(c, ledger) : cmem' = [cmem EXCEPT ![c] = l]
      BY <1>9 DEF Decide
    <2>2. /\ cpc[c] = "decide" /\ cpc' = [cpc EXCEPT ![c] = "write"]
          /\ UNCHANGED <<installed, edits, ledger, damage, holder,
                         ccmd, shown>>
      BY <1>9 DEF Decide
    <2>3. ccmd[c] \in May[c] /\ ccmd[c] \in Command
          /\ (ccmd[c].do = "trust" => shown[c] \in Observed)
      BY <1>1, <1>4, <2>2 DEF ClientsTyped, ClientTyped
    <2>4. IsLedger(l)
      BY <1>1, <2>3, DecidedExtends DEF HostTyped
    <2>5. ClientsTyped'
      BY <1>1, <2>1, <2>2, <2>3, <2>4 DEF ClientsTyped, ClientTyped, Place
    <2>6. LockInv'
      BY <1>1, <2>2 DEF ClientsTyped, LockInv, scanVars
    <2> QED BY <1>1, <1>2, <2>2, <2>5, <2>6 DEF TypeInv, HostTyped, scanVars
  <1>10. CASE DecideNothing(c) \/ Stop(c)
    <2>1. Fail(c) /\ cpc[c] # "idle"
      BY <1>10 DEF DecideNothing, Stop
    <2>2. ClientsTyped'
      BY <1>1, <2>1 DEF Fail, ClientsTyped, ClientTyped, Place
    <2>3. LockInv'
      BY <1>1, <1>3, <2>1 DEF Fail, ClientsTyped, LockInv, scanVars
    <2> QED BY <1>1, <1>2, <2>1, <2>2, <2>3
            DEF Fail, TypeInv, HostTyped, scanVars
  <1>11. CASE WriteLedger(c)
    <2>1. IsLedger(cmem[c])
      BY <1>1, <1>11 DEF WriteLedger, ClientsTyped, ClientTyped
    <2>2. ClientsTyped'
      BY <1>1, <1>11 DEF WriteLedger, ClientsTyped, ClientTyped, Place
    <2>3. LockInv'
      BY <1>1, <1>3, <1>11 DEF WriteLedger, ClientsTyped, LockInv, scanVars
    <2> QED BY <1>1, <1>2, <1>11, <2>1, <2>2, <2>3
            DEF WriteLedger, TypeInv, HostTyped, scanVars
  <1> QED BY <1>5, <1>6, <1>7, <1>8, <1>9, <1>10, <1>11

\* What is kept of a scan that ends.
LEMMA EndedKeeps ==
  ASSUME NEW r, DOMAIN r = Fields, NEW outcome
  PROVE  LET q == Ended(r, outcome)
         IN  /\ DOMAIN q = Fields /\ q.pc = outcome /\ q.state = None
             /\ q.live = r.live /\ q.sent = r.sent /\ q.mode = r.mode
             /\ q.reset = r.reset /\ q.wrote = r.wrote
  BY FieldNames DEF Ended

\* A step of a scan that leaves it typed, and takes or gives back the lock
\* as it should, leaves everything typed.
LEMMA OneScanTyped ==
  ASSUME TypeInv, NEW s \in Scan, NEW q, Set(s, q), ScanTyped(q),
         UNCHANGED clientVars,
         \/ holder' = holder /\ (q.pc \in Active => scan[s].pc \in Active)
         \/ Release(s) /\ q.pc \in Over
         \/ holder = Free /\ holder' = s
  PROVE  ClientsTyped' /\ ScansTyped' /\ LockInv'
  <1>1. HostTyped /\ ClientsTyped /\ ScansTyped /\ LockInv
    BY DEF TypeInv
  <1>2. ClientsTyped'
    BY <1>1 DEF clientVars, ClientsTyped, ClientTyped
  <1>3. ScansTyped'
    BY <1>1 DEF Set, ScansTyped
  <1>4. /\ Free \notin Client /\ Free \notin Scan
        /\ \A c \in Client : s # c
    BY ProcessesDiffer
  <1>5. /\ scan'[s] = q /\ \A t \in Scan \ {s} : scan'[t] = scan[t]
    BY <1>1 DEF Set, ScansTyped
  <1>6. Over \cap Active = {}
    BY DEF Over, Active
  <1>7. \A c \in Client : cpc[c] \in {"decide", "write"} => holder = c
    BY <1>1 DEF LockInv
  <1>8. \A t \in Scan : scan[t].pc \in Active => holder = t
    BY <1>1 DEF LockInv
  <1>9. cpc' = cpc
    BY DEF clientVars
  <1>10. ASSUME NEW c \in Client, cpc[c] \in {"decide", "write"}
         PROVE  holder' = c
    BY <1>4, <1>7, <1>10 DEF Release
  <1>11. ASSUME NEW t \in Scan, scan'[t].pc \in Active
         PROVE  holder' = t
    <2>1. CASE t = s
      BY <1>4, <1>5, <1>6, <1>8, <1>11, <2>1
    <2>2. CASE t # s
      BY <1>4, <1>5, <1>8, <1>11, <2>2 DEF Release
    <2> QED BY <2>1, <2>2
  <1> QED BY <1>2, <1>3, <1>9, <1>10, <1>11 DEF LockInv, Active

\* A scan that is over is typed.
LEMMA EndedTyped ==
  ASSUME NEW r, ScanTyped(r), NEW outcome \in Over
  PROVE  ScanTyped(Ended(r, outcome))
  <1>1. DOMAIN r = Fields BY DEF ScanTyped
  <1>2. LET q == Ended(r, outcome)
        IN  /\ DOMAIN q = Fields /\ q.pc = outcome /\ q.state = None
            /\ q.live = r.live /\ q.sent = r.sent /\ q.mode = r.mode
            /\ q.reset = r.reset /\ q.wrote = r.wrote
    BY <1>1, EndedKeeps
  <1> DEFINE q == Ended(r, outcome)
  <1> HIDE DEF q
  <1>3. \A k \in q.live \cup q.sent : k[1] \in Alert
    BY <1>2 DEF ScanTyped, q
  <1>4. /\ q.pc \in Over /\ DOMAIN q = Fields /\ q.state = None
    BY <1>2 DEF q
  <1> QED BY <1>3, <1>4
          DEF ScanTyped, q, Ahead, Active, Over, Loaded

LEMMA AbortKeepsTypes ==
  ASSUME TypeInv, NEW s \in Scan, Abort(s, scan[s]), UNCHANGED <<ledger, state>>
  PROVE  TypeInv'
  <1>1. ScanTyped(scan[s]) BY DEF TypeInv, ScansTyped
  <1>2. /\ Set(s, Ended(scan[s], "aborted")) /\ Release(s)
        /\ UNCHANGED <<installed, edits, damage, clientVars,
                       ambient, catalog, policy, served>>
    BY DEF Abort
  <1>3. ScanTyped(Ended(scan[s], "aborted"))
    BY <1>1, EndedTyped DEF Over
  <1>4. Ended(scan[s], "aborted").pc \in Over
    BY <1>1, EndedKeeps DEF ScanTyped, Over
  <1>5. ClientsTyped' /\ ScansTyped' /\ LockInv'
    BY <1>2, <1>3, <1>4, OneScanTyped
  <1> QED BY <1>2, <1>5 DEF TypeInv, HostTyped

\* A scan that raises alerts while it is on its way.
LEMMA RaisesTyped ==
  ASSUME NEW r, ScanTyped(r), r.pc \in Writing, NEW keys,
         \A k \in keys : k[1] \in Alert,
         NEW q, Raises(r, q, keys), q.pc \in {"market", "analyze", "write"},
         IsState(q.state)
  PROVE  ScanTyped(q)
  <1>1. r.pc \in Loaded /\ r.pc \in Active
    BY DEF Writing, Loaded, Active
  <1>2. /\ r.mode \in Mode /\ r.inv \in Listing /\ r.policy \in DOMAIN Policy
        /\ IsLedger(r.ledger) /\ ~r.wrote
        /\ \A k \in r.live \cup r.sent : k[1] \in Alert
    BY <1>1 DEF ScanTyped, Writing, Active
  <1>3. /\ DOMAIN q = Fields /\ DOMAIN q.state = {"alerts", "events"}
        /\ q.mode \in Mode /\ q.inv \in Listing /\ q.policy \in DOMAIN Policy
        /\ IsLedger(q.ledger) /\ ~q.wrote
    BY <1>2 DEF Raises, Keeps
  <1>4. \A k \in q.live \cup q.sent : k[1] \in Alert
    BY <1>2 DEF Raises, Told
  <1> QED BY <1>3, <1>4 DEF ScanTyped, Ahead, Active, Over, Loaded

\* The state keeps its type when keys are added to its alerts.
LEMMA RaisedState ==
  ASSUME NEW r, IsState(r.state), NEW keys, \A k \in keys : k[1] \in Alert,
         NEW q, Raises(r, q, keys),
         q.state.events \in [Id -> Event \cup {None}]
  PROVE  IsState(q.state)
  BY DEF Raises, Told, IsState

\* The first copy of an analysed plugin is listed, and was read.
LEMMA EventTyped ==
  ASSUME TypeInv, NEW r, r.inv \in Listing, r.policy \in DOMAIN Policy,
         IsState(r.state), NEW out \in [Id -> Results \cup {None}],
         \A p \in Id : IF p \in Analysed(r) THEN out[p] \in Outcomes(r, p)
                                            ELSE out[p] = None,
         NEW p \in Id, p \in Analysed(r), out[p] # None
  PROVE  NewEvent(r, p, out[p]) \in Event
  <1> DEFINE d == FirstCopy(r.inv, p)
  <1>1. d \in Dir /\ r.inv[d] \in Observed
    BY FirstCopyIsOne DEF Analysed, Present
  <1>2. out[p] \in Outcomes(r, p)
    OBVIOUS
  <1>3. installed[d] # Gone
    BY <1>2 DEF Outcomes
  <1>4. installed[d] \in Observed
    BY <1>1, <1>3 DEF TypeInv, HostTyped, Listing
  <1>5. \A o \in Observed : o.src \in Source \cup {None}
    BY DEF Observed, Identity, Unscanned
  <1>6. out[p] \in Results
    OBVIOUS
  <1> QED BY <1>1, <1>4, <1>5, <1>6 DEF NewEvent, Event

\* The steps that raise alerts, as one: what the next layers say of a scan
\* they say of any step that raises.
Raising(s) ==
    \E keys : \E q :
        /\ Set(s, q) /\ Raises(scan[s], q, keys)
        /\ q.pc \in {"market", "analyze", "write"} /\ IsState(q.state)
        /\ \/ scan[s].pc = "raise" /\ q.pc = "market"
              /\ keys = CoreKeys(scan[s])
           \/ scan[s].pc \in {"market", "analyze"} /\ q.pc # "market"
              /\ \A k \in keys : k[1] \in {"market", "provenance", "analysis"}

LEMMA RaisingSteps ==
  ASSUME TypeInv, NEW s \in Scan,
         RaiseCore(s) \/ RaiseMarket(s) \/ Analyze(s)
  PROVE  /\ Raising(s)
         /\ UNCHANGED <<ledgerVars, ambient, catalog, policy, state, served>>
  <1> DEFINE r == scan[s]
  <1>1. ScanTyped(r) BY DEF TypeInv, ScansTyped
  <1>2. r.pc \in Loaded
    BY DEF RaiseCore, RaiseMarket, Analyze, At, Loaded
  <1>3. /\ DOMAIN r = Fields /\ DOMAIN r.state = {"alerts", "events"}
        /\ IsState(r.state) /\ r.inv \in Listing /\ r.policy \in DOMAIN Policy
    BY <1>1, <1>2 DEF ScanTyped, Loaded, Active
  <1>4. r.state.events \in [Id -> Event \cup {None}]
    BY <1>3 DEF IsState
  <1> HIDE DEF r
  <1>5. ASSUME NEW keys, NEW p, \A k \in keys : k[1] \in Alert
        PROVE  LET q == [Emit(r, keys) EXCEPT !.pc = p]
               IN  Raises(r, q, keys) /\ q.pc = p /\ IsState(q.state)
    <2> DEFINE e == Emit(r, keys)
               q == [e EXCEPT !.pc = p]
    <2>1. Raises(r, e, keys) /\ e.state.events = r.state.events
      BY <1>3, EmitRaises
    <2> HIDE DEF e
    <2>2. Raises(r, q, keys) /\ q.pc = p /\ q.state = e.state
      BY <2>1, MoveRaises
    <2>3. IsState(e.state)
      BY <1>3, <1>4, <1>5, <2>1, RaisedState
    <2> QED BY <2>2, <2>3 DEF e
  <1>6. CASE RaiseCore(s)
    <2> DEFINE keys == CoreKeys(r)
               q == [Emit(r, keys) EXCEPT !.pc = "market"]
    <2>1. \A k \in keys : k[1] \in Alert
      BY KeysAreAlerts DEF Alert
    <2> HIDE DEF keys
    <2>2. Raises(r, q, keys) /\ q.pc = "market" /\ IsState(q.state)
      BY <1>5, <2>1
    <2>3. Set(s, q) /\ scan[s].pc = "raise"
      BY <1>6 DEF RaiseCore, At, r, keys
    <2> HIDE DEF q
    <2>4. Raising(s)
      BY <2>2, <2>3 DEF Raising, r, keys
    <2> QED BY <1>6, <2>4 DEF RaiseCore
  <1>7. CASE RaiseMarket(s)
    <2>1. PICK c \in {None, catalog} \ {Corrupt} :
            Set(s, [Emit(r, MarketKeys(r, c)) EXCEPT
                  !.pc = IF r.mode.analysis THEN "analyze" ELSE "write"])
      BY <1>7 DEF RaiseMarket, r
    <2> DEFINE keys == MarketKeys(r, c)
               p == IF r.mode.analysis THEN "analyze" ELSE "write"
               q == [Emit(r, keys) EXCEPT !.pc = p]
    <2>2. \A k \in keys : k[1] \in {"market", "provenance", "analysis"}
      BY KeysAreAlerts
    <2>3. p \in {"analyze", "write"} /\ \A k \in keys : k[1] \in Alert
      BY <2>2 DEF Alert
    <2>4. Set(s, q) /\ scan[s].pc = "market"
      BY <1>7, <2>1 DEF RaiseMarket, At
    <2> HIDE DEF keys, p
    <2>5. Raises(r, q, keys) /\ q.pc = p /\ IsState(q.state)
      BY <1>5, <2>3
    <2> HIDE DEF q
    <2>6. Raising(s)
      BY <2>2, <2>3, <2>4, <2>5 DEF Raising, r
    <2> QED BY <1>7, <2>6 DEF RaiseMarket
  <1>8. CASE Analyze(s)
    <2>1. PICK out \in [Id -> Results \cup {None}] :
            /\ \A p \in Id : IF p \in Analysed(r) THEN out[p] \in Outcomes(r, p)
                                                  ELSE out[p] = None
            /\ Set(s, [Remember(Emit(r, AnalysisKeys(r, out)), out)
                         EXCEPT !.pc = "write"])
      BY <1>8 DEF Analyze, r
    <2> DEFINE keys == AnalysisKeys(r, out)
               e == Emit(r, keys)
               m == Remember(e, out)
               q == [m EXCEPT !.pc = "write"]
    <2>2. \A k \in keys : k[1] = "analysis"
      BY KeysAreAlerts
    <2>3. \A k \in keys : k[1] \in Alert
      BY <2>2 DEF Alert
    <2>4. Set(s, q) /\ scan[s].pc = "analyze"
      BY <1>8, <2>1 DEF Analyze, At
    <2> HIDE DEF keys
    <2>5. Raises(r, e, keys) /\ e.state.events = r.state.events
      BY <1>3, EmitRaises
    <2> HIDE DEF e
    <2>6. /\ Raises(r, m, keys)
          /\ m.state.events =
                   [p \in Id |-> IF p \in Analysed(e) /\ out[p] # None
                                 THEN NewEvent(e, p, out[p])
                                 ELSE e.state.events[p]]
      BY <2>5, RememberRaises
    <2>7. /\ Analysed(e) = Analysed(r)
          /\ \A p : NewEvent(e, p, out[p]) = NewEvent(r, p, out[p])
      BY <2>5 DEF Raises, Keeps, Analysed, NewEvent
    <2>8. \A p \in Id : p \in Analysed(r) /\ out[p] # None =>
             NewEvent(r, p, out[p]) \in Event
      BY <1>3, <2>1, EventTyped
    <2>9. m.state.events \in [Id -> Event \cup {None}]
      BY <1>4, <2>5, <2>6, <2>7, <2>8
    <2>10. IsState(m.state)
      BY <1>3, <2>3, <2>6, <2>9, RaisedState
    <2> HIDE DEF m
    <2>11. Raises(r, q, keys) /\ q.pc = "write" /\ q.state = m.state
      BY <2>6, MoveRaises
    <2> HIDE DEF q
    <2>12. Raising(s)
      BY <2>2, <2>4, <2>10, <2>11 DEF Raising, r
    <2> QED BY <1>8, <2>12 DEF Analyze
  <1> QED BY <1>6, <1>7, <1>8

LEMMA RaisingKeepsTypes ==
  ASSUME TypeInv, NEW s \in Scan, Raising(s),
         UNCHANGED <<ledgerVars, ambient, catalog, policy, state, served>>
  PROVE  TypeInv'
  <1>1. PICK keys, q :
          /\ Set(s, q) /\ Raises(scan[s], q, keys)
          /\ q.pc \in {"market", "analyze", "write"} /\ IsState(q.state)
          /\ scan[s].pc \in {"raise", "market", "analyze"}
          /\ \/ keys = CoreKeys(scan[s])
             \/ \A k \in keys : k[1] \in {"market", "provenance", "analysis"}
    BY DEF Raising
  <1>2. ScanTyped(scan[s]) BY DEF TypeInv, ScansTyped
  <1>3. \A k \in keys : k[1] \in Alert
    BY <1>1, KeysAreAlerts DEF Alert
  <1>4. scan[s].pc \in Writing /\ scan[s].pc \in Active
    BY <1>1 DEF Writing, Active
  <1>5. ScanTyped(q)
    BY <1>1, <1>2, <1>3, <1>4, RaisesTyped
  <1>6. ClientsTyped' /\ ScansTyped' /\ LockInv'
    BY <1>1, <1>4, <1>5, OneScanTyped DEF ledgerVars, clientVars
  <1> QED BY <1>6 DEF TypeInv, HostTyped, ledgerVars

\* What Retain keeps.
Kept(r) == {k \in r.state.alerts :
              IF k[1] = "analysis" THEN r.mode.analysis => k \in r.live
                                   ELSE k \in r.live}

LEMMA RetainKeeps ==
  ASSUME NEW r, DOMAIN r = Fields, DOMAIN r.state = {"alerts", "events"}
  PROVE  LET q == Retain(r)
         IN  /\ DOMAIN q = Fields /\ Keeps(r, q) /\ q.pc = r.pc
             /\ q.live = r.live /\ q.sent = r.sent /\ q.dirty = r.dirty
             /\ DOMAIN q.state = {"alerts", "events"}
             /\ q.state.alerts = Kept(r) /\ q.state.events = r.state.events
  <1> DEFINE q == Retain(r)
  <1>1. /\ DOMAIN q = Fields /\ Keeps(r, q) /\ q.pc = r.pc
        /\ q.live = r.live /\ q.sent = r.sent /\ q.dirty = r.dirty
    BY FieldNames DEF Retain, Keeps
  <1>2. q.state = [r.state EXCEPT !.alerts = Kept(r)]
    BY FieldNames DEF Retain, Kept
  <1> HIDE DEF q
  <1>3. /\ DOMAIN q.state = {"alerts", "events"}
        /\ q.state.alerts = Kept(r) /\ q.state.events = r.state.events
    BY <1>2
  <1> QED BY <1>1, <1>3 DEF q

\* WriteState, as what it makes of the scan and of the file.
Writes(s, q) ==
    LET r == scan[s]
    IN  /\ r.pc = "write" /\ Set(s, q) /\ q.pc = "report"
        /\ DOMAIN q = Fields /\ DOMAIN q.state = {"alerts", "events"}
        /\ q.mode = r.mode /\ q.inv = r.inv /\ q.ambient = r.ambient
        /\ q.policy = r.policy /\ q.ledger = r.ledger /\ q.lost = r.lost
        /\ q.reset = r.reset /\ q.live = r.live /\ q.sent = r.sent
        /\ q.state.alerts = Kept(r) /\ q.state.events = r.state.events
        /\ \/ q.wrote /\ state' = q.state
           \/ ~q.wrote /\ state' = state

LEMMA WriteSteps ==
  ASSUME TypeInv, NEW s \in Scan, WriteState(s)
  PROVE  \E q : Writes(s, q)
  <1> DEFINE r == scan[s]
             e == Retain(r)
             w == e.mode.notify \/ e.dirty
             q == [e EXCEPT !.pc = "report", !.wrote = w]
  <1>1. r.pc = "write" /\ Set(s, q)
        /\ state' = IF w THEN e.state ELSE state
    BY DEF WriteState, At
  <1>2. DOMAIN r = Fields /\ DOMAIN r.state = {"alerts", "events"}
    BY <1>1 DEF TypeInv, ScansTyped, ScanTyped, Loaded
  <1> HIDE DEF r
  <1>3. /\ DOMAIN e = Fields /\ Keeps(r, e) /\ e.live = r.live
        /\ e.sent = r.sent /\ DOMAIN e.state = {"alerts", "events"}
        /\ e.state.alerts = Kept(r) /\ e.state.events = r.state.events
    BY <1>2, RetainKeeps
  <1> HIDE DEF e, w
  <1>4. /\ DOMAIN q = Fields /\ q.pc = "report" /\ q.state = e.state
        /\ q.wrote = w /\ q.live = e.live /\ q.sent = e.sent
        /\ q.mode = e.mode /\ q.inv = e.inv /\ q.ambient = e.ambient
        /\ q.policy = e.policy /\ q.ledger = e.ledger /\ q.lost = e.lost
        /\ q.reset = e.reset
    BY <1>3, FieldNames
  <1> HIDE DEF q
  <1>5. \/ q.wrote /\ state' = q.state
        \/ ~q.wrote /\ state' = state
    BY <1>1, <1>4
  <1>6. Writes(s, q)
    BY <1>1, <1>3, <1>4, <1>5 DEF Writes, Keeps, r
  <1> QED BY <1>6

\* Load, as what it makes of the scan and of the files.
Loads(s, q) ==
    LET r == scan[s]
    IN  /\ r.pc = "load" /\ Set(s, q) /\ q.pc = "raise"
        /\ DOMAIN q = Fields /\ DOMAIN q.state = {"alerts", "events"}
        /\ q.mode = r.mode /\ q.inv = r.inv /\ q.policy = r.policy
        /\ q.live = r.live /\ q.sent = r.sent /\ q.wrote = r.wrote
        /\ q.ledger = ledger'
        /\ \/ ledger = Corrupt /\ ledger' = Empty
           \/ ledger # Corrupt /\ ledger' = ledger
        /\ \/ /\ state = Corrupt /\ q.reset /\ q.state = NoState
              /\ state' \in {NoState, Corrupt}
           \/ /\ state # Corrupt /\ ~q.reset /\ q.state = state
              /\ state' = state

LEMMA LoadSteps ==
  ASSUME TypeInv, NEW s \in Scan, Load(s)
  PROVE  \E q : Loads(s, q)
  <1> DEFINE r == scan[s]
             lost == ledger = Corrupt
             reset == state = Corrupt
             t == IF reset THEN NoState ELSE state
             q == [r EXCEPT !.pc = "raise", !.lost = lost, !.reset = reset,
                            !.ledger = ledger', !.state = t]
  <1>1. /\ r.pc = "load" /\ Set(s, q)
        /\ ledger' = IF lost THEN Empty ELSE ledger
        /\ state' \in IF reset THEN {NoState, Corrupt} ELSE {state}
    BY DEF Load, At
  <1>2. DOMAIN r = Fields
    BY DEF TypeInv, ScansTyped, ScanTyped
  <1>3. DOMAIN t = {"alerts", "events"}
    BY DEF NoState, TypeInv, HostTyped
  <1> HIDE DEF r, lost, reset, t
  <1>4. /\ DOMAIN q = Fields /\ q.pc = "raise" /\ q.state = t
        /\ q.ledger = ledger' /\ q.reset = reset
        /\ q.mode = r.mode /\ q.inv = r.inv /\ q.policy = r.policy
        /\ q.live = r.live /\ q.sent = r.sent /\ q.wrote = r.wrote
    BY <1>2, FieldNames
  <1> HIDE DEF q
  <1>5. \/ ledger = Corrupt /\ ledger' = Empty
        \/ ledger # Corrupt /\ ledger' = ledger
    BY <1>1 DEF lost
  <1>6. \/ /\ state = Corrupt /\ q.reset /\ q.state = NoState
           /\ state' \in {NoState, Corrupt}
        \/ /\ state # Corrupt /\ ~q.reset /\ q.state = state
           /\ state' = state
    BY <1>1, <1>4 DEF reset, t
  <1>7. Loads(s, q)
    BY <1>1, <1>3, <1>4, <1>5, <1>6 DEF Loads, r
  <1> QED BY <1>7

\* A scan that ends: it may have notified some more of what it was about to
\* raise, and gives the lock back.
Ends(s, q) ==
    LET r == scan[s]
    IN  /\ r.pc \in Active \cup {"lock"} /\ Set(s, q) /\ Release(s)
        /\ DOMAIN q = Fields /\ q.pc \in Over /\ q.state = None
        /\ q.pc = "done" => r.pc = "report"
        /\ q.live = r.live /\ q.mode = r.mode
        /\ q.reset = r.reset /\ q.wrote = r.wrote
        /\ r.sent \subseteq q.sent
        /\ q.sent \subseteq r.sent
              \cup IF r.pc = "raise" THEN CoreKeys(r) \ r.state.alerts ELSE {}
        /\ r.pc # "raise" => q.sent = r.sent

LEMMA EndSteps ==
  ASSUME TypeInv, NEW s \in Scan,
         \/ LockBusyScan(s) \/ MarketFails(s) \/ WriteFails(s)
         \/ Report(s) \/ KillScan(s)
  PROVE  /\ \E q : Ends(s, q)
         /\ UNCHANGED <<installed, edits, ledger, clientVars,
                        ambient, catalog, policy, state, served>>
         /\ damage' \in 0..MaxDamage
  <1> DEFINE r == scan[s]
  <1>1. DOMAIN r = Fields
    BY DEF TypeInv, ScansTyped, ScanTyped
  <1>2. damage \in 0..MaxDamage /\ MaxDamage \in Nat
    BY WalkListsEveryDirectory DEF TypeInv, HostTyped
  <1> HIDE DEF r
  <1>3. CASE LockBusyScan(s) \/ MarketFails(s) \/ WriteFails(s)
    <2> DEFINE q == Ended(r, "aborted")
    <2>1. /\ r.pc \in {"lock", "market", "write"} /\ Abort(s, r)
          /\ UNCHANGED <<ledger, state>>
      BY <1>3 DEF LockBusyScan, MarketFails, WriteFails, At, r
    <2>2. /\ DOMAIN q = Fields /\ q.pc = "aborted" /\ q.state = None
          /\ q.live = r.live /\ q.sent = r.sent /\ q.mode = r.mode
          /\ q.reset = r.reset /\ q.wrote = r.wrote
      BY <1>1, EndedKeeps
    <2>3. /\ Set(s, q) /\ Release(s)
          /\ UNCHANGED <<installed, edits, damage, clientVars,
                         ambient, catalog, policy, served>>
      BY <2>1 DEF Abort
    <2> HIDE DEF q
    <2>4. Ends(s, q)
      BY <2>1, <2>2, <2>3 DEF Ends, Active, Over, r
    <2> QED BY <1>2, <2>1, <2>3, <2>4
  <1>4. CASE Report(s)
    <2> DEFINE found == IF r.mode.onlyNew THEN r.fresh ELSE r.live
               f == [r EXCEPT !.findings = found # {}]
               q == Ended(f, "done")
    <2>1. /\ r.pc = "report" /\ Set(s, q) /\ Release(s)
          /\ UNCHANGED <<installed, edits, ledger, damage, clientVars,
                         ambient, catalog, policy, state, served>>
      BY <1>4 DEF Report, At, r
    <2>2. /\ DOMAIN f = Fields /\ f.live = r.live /\ f.sent = r.sent
          /\ f.mode = r.mode /\ f.reset = r.reset /\ f.wrote = r.wrote
      BY <1>1, FieldNames
    <2> HIDE DEF f
    <2>3. /\ DOMAIN q = Fields /\ q.pc = "done" /\ q.state = None
          /\ q.live = f.live /\ q.sent = f.sent /\ q.mode = f.mode
          /\ q.reset = f.reset /\ q.wrote = f.wrote
      BY <2>2, EndedKeeps
    <2> HIDE DEF q
    <2>4. Ends(s, q)
      BY <2>1, <2>2, <2>3 DEF Ends, Active, Over, r
    <2> QED BY <1>2, <2>1, <2>4
  <1>5. CASE KillScan(s)
    <2>1. PICK partly \in SUBSET
                 IF r.mode.notify /\ r.pc = "raise"
                 THEN CoreKeys(r) \ r.state.alerts ELSE {} :
            Set(s, Ended([r EXCEPT !.sent = @ \cup partly], "aborted"))
      BY <1>5 DEF KillScan, At, r
    <2>2. /\ r.pc \in Active /\ Release(s) /\ damage' = damage + 1
          /\ damage < MaxDamage
          /\ UNCHANGED <<installed, edits, ledger, clientVars,
                         ambient, catalog, policy, state, served>>
      BY <1>5 DEF KillScan, r, Active
    <2> DEFINE f == [r EXCEPT !.sent = @ \cup partly]
               q == Ended(f, "aborted")
    <2>3. /\ DOMAIN f = Fields /\ f.live = r.live /\ f.mode = r.mode
          /\ f.sent = r.sent \cup partly
          /\ f.reset = r.reset /\ f.wrote = r.wrote
      BY <1>1, FieldNames
    <2>4. Set(s, q) BY <2>1
    <2> HIDE DEF f
    <2>5. /\ DOMAIN q = Fields /\ q.pc = "aborted" /\ q.state = None
          /\ q.live = f.live /\ q.sent = f.sent /\ q.mode = f.mode
          /\ q.reset = f.reset /\ q.wrote = f.wrote
      BY <2>3, EndedKeeps
    <2> HIDE DEF q
    <2>6. partly \subseteq IF r.pc = "raise"
                           THEN CoreKeys(r) \ r.state.alerts ELSE {}
      OBVIOUS
    <2>7. Ends(s, q)
      BY <2>2, <2>3, <2>4, <2>5, <2>6 DEF Ends, Over, r
    <2>8. damage' \in 0..MaxDamage
      BY <1>2, <2>2
    <2> QED BY <2>2, <2>7, <2>8
  <1> QED BY <1>3, <1>4, <1>5

\* A scan that begins, and one that gets the lock.
Begins(s, q) ==
    LET r == scan[s]
    IN  /\ r.pc = "idle" /\ Set(s, q) /\ DOMAIN q = Fields
        /\ q.pc = "lock" /\ q.mode \in Mode
        /\ q.inv = installed /\ q.policy = policy /\ q.state = r.state
        /\ q.live = r.live /\ q.sent = r.sent
        /\ q.reset = r.reset /\ q.wrote = r.wrote

Locks(s, q) ==
    LET r == scan[s]
    IN  /\ r.pc = "lock" /\ Set(s, q) /\ DOMAIN q = Fields
        /\ q.pc = "load" /\ q.mode = r.mode
        /\ q.inv = r.inv /\ q.policy = r.policy /\ q.state = r.state
        /\ q.live = r.live /\ q.sent = r.sent
        /\ q.reset = r.reset /\ q.wrote = r.wrote
        /\ holder = Free /\ holder' = s /\ served' = Append(served, s)

LEMMA FirstSteps ==
  ASSUME TypeInv, NEW s \in Scan
  PROVE  /\ BeginScan(s) => \E q : Begins(s, q)
         /\ LockScan(s) => \E q : Locks(s, q)
  <1>1. DOMAIN scan[s] = Fields
    BY DEF TypeInv, ScansTyped, ScanTyped
  <1>2. ASSUME BeginScan(s) PROVE \E q : Begins(s, q)
    <2>1. PICK m \in Mode :
            Set(s, [scan[s] EXCEPT !.pc = "lock", !.mode = m,
                       !.inv = installed, !.ambient = ambient,
                       !.policy = policy])
      BY <1>2 DEF BeginScan
    <2> DEFINE q == [scan[s] EXCEPT !.pc = "lock", !.mode = m,
                       !.inv = installed, !.ambient = ambient,
                       !.policy = policy]
    <2>2. scan[s].pc = "idle" BY <1>2 DEF BeginScan, At
    <2>3. Begins(s, q)
      BY <1>1, <2>1, <2>2, FieldNames DEF Begins
    <2> QED BY <2>3
  <1>3. ASSUME LockScan(s) PROVE \E q : Locks(s, q)
    <2> DEFINE q == [scan[s] EXCEPT !.pc = "load"]
    <2>1. /\ scan[s].pc = "lock" /\ Set(s, q) /\ holder = Free
          /\ holder' = s /\ served' = Append(served, s)
      BY <1>3 DEF LockScan, At, Move
    <2>2. Locks(s, q)
      BY <1>1, <2>1, FieldNames DEF Locks
    <2> QED BY <2>2
  <1> QED BY <1>2, <1>3

LEMMA ScanKeepsTypes ==
  ASSUME TypeInv, NEW s \in Scan, ScanStep(s)
  PROVE  TypeInv'
  <1>1. HostTyped /\ ScanTyped(scan[s])
    BY DEF TypeInv, ScansTyped
  <1>2. CASE BeginScan(s)
    <2>1. PICK q : Begins(s, q) BY <1>2, FirstSteps
    <2>2. UNCHANGED <<ledgerVars, ambient, catalog, policy, state, served>>
      BY <1>2 DEF BeginScan
    <2>3. ScanTyped(q)
      BY <1>1, <2>1 DEF Begins, ScanTyped, HostTyped,
                        Ahead, Active, Over, Loaded
    <2>4. Set(s, q) /\ q.pc \notin Active
      BY <2>1 DEF Begins, Active
    <2>5. ClientsTyped' /\ ScansTyped' /\ LockInv'
      BY <2>2, <2>3, <2>4, OneScanTyped DEF ledgerVars, clientVars
    <2> QED BY <1>1, <2>2, <2>5 DEF TypeInv, HostTyped, ledgerVars
  <1>3. CASE LockScan(s)
    <2>1. PICK q : Locks(s, q) BY <1>3, FirstSteps
    <2>2. UNCHANGED <<installed, edits, ledger, damage, clientVars,
                      ambient, catalog, policy, state>>
      BY <1>3 DEF LockScan
    <2>3. ScanTyped(q)
      BY <1>1, <2>1 DEF Locks, ScanTyped, Ahead, Active, Over, Loaded
    <2>4. Set(s, q) /\ holder = Free /\ holder' = s
      BY <2>1 DEF Locks
    <2>5. ClientsTyped' /\ ScansTyped' /\ LockInv'
      BY <2>2, <2>3, <2>4, OneScanTyped DEF clientVars
    <2>6. served' \in Seq(Scan)
      BY <1>1, <2>1, AppendProperties DEF Locks, HostTyped
    <2> QED BY <1>1, <2>2, <2>5, <2>6 DEF TypeInv, HostTyped
  <1>4. CASE Load(s)
    <2>1. PICK q : Loads(s, q) BY <1>4, LoadSteps
    <2>2. UNCHANGED <<installed, edits, damage, holder, clientVars,
                      ambient, catalog, policy, served>>
      BY <1>4 DEF Load
    <2>3. IsLedger(Empty)
      BY DEF IsLedger, Empty
    <2>4. IsState(NoState) /\ DOMAIN NoState = {"alerts", "events"}
      BY DEF IsState, NoState
    <2>5. IsLedger(ledger')
      BY <1>1, <2>1, <2>3 DEF Loads, HostTyped
    <2>6. IsState(q.state) /\ DOMAIN q.state = {"alerts", "events"}
      BY <1>1, <2>1, <2>4 DEF Loads, HostTyped
    <2>7. ScanTyped(q)
      BY <1>1, <2>1, <2>5, <2>6
         DEF Loads, ScanTyped, Ahead, Active, Over, Loaded
    <2>8. Set(s, q) /\ scan[s].pc \in Active
      BY <2>1 DEF Loads, Active
    <2>9. ClientsTyped' /\ ScansTyped' /\ LockInv'
      BY <2>2, <2>7, <2>8, OneScanTyped DEF clientVars
    <2>10. state' # Corrupt =>
             IsState(state') /\ DOMAIN state' = {"alerts", "events"}
      BY <1>1, <2>1, <2>4 DEF Loads, HostTyped
    <2>11. HostTyped'
      BY <1>1, <2>2, <2>5, <2>10 DEF HostTyped
    <2> QED BY <2>9, <2>11 DEF TypeInv
  <1>5. CASE RaiseCore(s) \/ RaiseMarket(s) \/ Analyze(s)
    BY <1>5, RaisingSteps, RaisingKeepsTypes
  <1>6. CASE WriteState(s)
    <2>1. PICK q : Writes(s, q) BY <1>6, WriteSteps
    <2>2. UNCHANGED <<ledgerVars, ambient, catalog, policy, served>>
      BY <1>6 DEF WriteState
    <2>3. scan[s].pc \in Loaded /\ scan[s].pc \in Active
      BY <2>1 DEF Writes, Loaded, Active
    <2>4. IsState(q.state) /\ DOMAIN q.state = {"alerts", "events"}
      BY <1>1, <2>1, <2>3 DEF Writes, ScanTyped, IsState, Kept
    <2>5. ScanTyped(q)
      BY <1>1, <2>1, <2>3, <2>4
         DEF Writes, ScanTyped, Ahead, Active, Over, Loaded
    <2>6. Set(s, q) BY <2>1 DEF Writes
    <2>7. ClientsTyped' /\ ScansTyped' /\ LockInv'
      BY <2>2, <2>3, <2>5, <2>6, OneScanTyped DEF ledgerVars, clientVars
    <2>8. state' # Corrupt =>
             IsState(state') /\ DOMAIN state' = {"alerts", "events"}
      BY <1>1, <2>1, <2>4 DEF Writes, HostTyped
    <2>9. HostTyped'
      BY <1>1, <2>2, <2>8 DEF HostTyped, ledgerVars
    <2> QED BY <2>7, <2>9 DEF TypeInv
  <1>7. CASE \/ LockBusyScan(s) \/ MarketFails(s) \/ WriteFails(s)
             \/ Report(s) \/ KillScan(s)
    <2>1. PICK q : Ends(s, q) BY <1>7, EndSteps
    <2>2. /\ UNCHANGED <<installed, edits, ledger, clientVars,
                         ambient, catalog, policy, state, served>>
          /\ damage' \in 0..MaxDamage
      BY <1>7, EndSteps
    <2>3. \A k \in CoreKeys(scan[s]) : k[1] \in Alert
      BY KeysAreAlerts DEF Alert
    <2>4. \A k \in q.live \cup q.sent : k[1] \in Alert
      BY <1>1, <2>1, <2>3 DEF Ends, ScanTyped
    <2>5. ScanTyped(q)
      BY <2>1, <2>4 DEF Ends, ScanTyped, Ahead, Active, Over, Loaded
    <2>6. Set(s, q) /\ Release(s) /\ q.pc \in Over
      BY <2>1 DEF Ends
    <2>7. ClientsTyped' /\ ScansTyped' /\ LockInv'
      BY <2>2, <2>5, <2>6, OneScanTyped
    <2> QED BY <1>1, <2>2, <2>7 DEF TypeInv, HostTyped
  <1> QED BY <1>2, <1>3, <1>4, <1>5, <1>6, <1>7 DEF ScanStep

LEMMA OthersKeepTypes ==
  ASSUME TypeInv,
         \/ (Edit \/ CorruptLedger) /\ UNCHANGED scanVars
         \/ Elsewhere \/ CorruptState \/ UNCHANGED vars
  PROVE  TypeInv'
  <1>1. /\ HostTyped /\ ClientsTyped /\ ScansTyped /\ LockInv
        /\ MaxEdits \in Nat /\ MaxDamage \in Nat
    BY WalkListsEveryDirectory DEF TypeInv
  <1>2. /\ UNCHANGED <<holder, clientVars, scan, served>>
        /\ edits' \in 0..MaxEdits /\ damage' \in 0..MaxDamage
        /\ ledger' = Corrupt \/ ledger' = ledger
        /\ state' = Corrupt \/ state' = state
    BY <1>1 DEF Edit, CorruptLedger, Elsewhere, CorruptState, vars,
                ledgerVars, scanVars, clientVars, HostTyped
  <1>3. ClientsTyped' /\ ScansTyped' /\ LockInv'
    BY <1>1, <1>2
       DEF ClientsTyped, ClientTyped, ScansTyped, LockInv, clientVars
  <1>4. installed' \in Listing
    <2>1. CASE Edit
      BY <1>1, <2>1, WalkListsEveryDirectory DEF Edit, HostTyped, Listing
    <2>2. CASE ~Edit
      BY <1>1, <2>2 DEF CorruptLedger, Elsewhere, CorruptState, vars,
                        ledgerVars, HostTyped
    <2> QED BY <2>1, <2>2
  <1>5. /\ ambient' \subseteq Ambient /\ catalog' \in Catalog
        /\ policy' \in DOMAIN Policy
    BY <1>1 DEF Elsewhere, CorruptState, vars, scanVars, HostTyped
  <1>6. HostTyped'
    BY <1>1, <1>2, <1>4, <1>5 DEF HostTyped
  <1> QED BY <1>3, <1>6 DEF TypeInv

LEMMA TypesStay == TypeInv /\ [Next]_vars => TypeInv'
  <1> SUFFICES ASSUME TypeInv, [Next]_vars PROVE TypeInv'
    OBVIOUS
  <1>1. ASSUME NEW s \in Scan, ScanStep(s) PROVE TypeInv'
    BY <1>1, ScanKeepsTypes
  <1>2. CASE LedgerNext /\ UNCHANGED scanVars
    <2>1. ASSUME NEW c \in Client,
            \/ Start(c) \/ Confirm(c) \/ TakeLock(c) \/ GiveUp(c)
            \/ Decide(c) \/ DecideNothing(c) \/ WriteLedger(c) \/ Stop(c)
          PROVE TypeInv'
      BY <1>2, <2>1, ClientKeepsTypes
    <2>2. CASE Edit \/ CorruptLedger
      BY <1>2, <2>2, OthersKeepTypes
    <2> QED BY <1>2, <2>1, <2>2 DEF LedgerNext, ClientNext
  <1>3. CASE Elsewhere \/ CorruptState \/ UNCHANGED vars
    BY <1>3, OthersKeepTypes
  <1> QED BY <1>1, <1>2, <1>3 DEF Next, Finished

-----------------------------------------------------------------------------
(* Scans are served one after the other.                                   *)

\* Every step is one of these to the scans and their state.
LEMMA StepKinds ==
  ASSUME TypeInv, [Next]_vars
  PROVE  \/ /\ UNCHANGED <<scan, served>>
            /\ state' = state \/ state' = Corrupt
         \/ \E s \in Scan : \E q :
              \/ (Loads(s, q) \/ Writes(s, q)) /\ served' = served
              \/ (Begins(s, q) \/ Ends(s, q)) /\ UNCHANGED <<served, state>>
              \/ Locks(s, q) /\ state' = state
         \/ \E s \in Scan : Raising(s) /\ UNCHANGED <<served, state>>
  <1>1. ASSUME NEW s \in Scan, ScanStep(s)
        PROVE  \/ \E q :
                   \/ (Loads(s, q) \/ Writes(s, q)) /\ served' = served
                   \/ (Begins(s, q) \/ Ends(s, q))
                         /\ UNCHANGED <<served, state>>
                   \/ Locks(s, q) /\ state' = state
               \/ Raising(s) /\ UNCHANGED <<served, state>>
    <2>1. CASE BeginScan(s)
      BY <2>1, FirstSteps DEF BeginScan
    <2>2. CASE LockScan(s)
      BY <2>2, FirstSteps DEF LockScan
    <2>3. CASE Load(s)
      BY <2>3, LoadSteps DEF Load
    <2>4. CASE RaiseCore(s) \/ RaiseMarket(s) \/ Analyze(s)
      BY <2>4, RaisingSteps
    <2>5. CASE WriteState(s)
      BY <2>5, WriteSteps DEF WriteState
    <2>6. CASE \/ LockBusyScan(s) \/ MarketFails(s) \/ WriteFails(s)
               \/ Report(s) \/ KillScan(s)
      BY <2>6, EndSteps
    <2> QED BY <1>1, <2>1, <2>2, <2>3, <2>4, <2>5, <2>6 DEF ScanStep
  <1>2. CASE \/ LedgerNext /\ UNCHANGED scanVars
             \/ Elsewhere \/ CorruptState \/ UNCHANGED vars
    BY <1>2 DEF Elsewhere, CorruptState, vars, scanVars
  <1> QED BY <1>1, <1>2 DEF Next, Finished

\* A step of one scan changes no other.
LEMMA OthersStand ==
  ASSUME TypeInv, NEW s \in Scan, NEW q, Set(s, q)
  PROVE  scan'[s] = q /\ \A t \in Scan \ {s} : scan'[t] = scan[t]
  BY DEF TypeInv, ScansTyped, Set

\* An active scan is the last that was served, and it was not served before.
LEMMA LastServed ==
  ASSUME TypeInv, ServedInv, NEW s \in Scan, scan[s].pc \in Active
  PROVE  /\ Len(served) \in Nat /\ Len(served) \in DOMAIN served
         /\ served[Len(served)] = s
         /\ \A i \in DOMAIN served :
               served[i] \in Scan /\ (i # Len(served) <=> served[i] # s)
  <1>1. served \in Seq(Scan)
    BY DEF TypeInv, HostTyped
  <1>2. Len(served) \in Nat /\ DOMAIN served = 1..Len(served)
    BY <1>1
  <1>3. Len(served) > 0 /\ served[Len(served)] = s
    BY DEF ServedInv
  <1>4. ASSUME NEW i \in DOMAIN served, i # Len(served)
        PROVE  served[i] # s
    <2>1. i < Len(served)
      BY <1>2, <1>4
    <2>2. scan[served[i]].pc \in Over
      BY <2>1 DEF ServedInv
    <2> QED BY <2>2 DEF Active, Over
  <1> QED BY <1>1, <1>2, <1>3, <1>4

\* One that has not got the lock was not served.
LEMMA NotServed ==
  ASSUME TypeInv, ServedInv, NEW s \in Scan, scan[s].pc \in Ahead
  PROVE  \A i \in DOMAIN served : served[i] \in Scan \ {s}
  BY DEF TypeInv, HostTyped, ServedInv

LEMMA ServedStays ==
  ASSUME TypeInv, ServedInv, [Next]_vars
  PROVE  ServedInv'
  <1> DEFINE n == Len(served)
  <1>1. served \in Seq(Scan) /\ n \in Nat /\ DOMAIN served = 1..n
    BY DEF TypeInv, HostTyped
  <1>2. Active \cap Ahead = {} /\ Active \cap Over = {} /\ Over \cap Ahead = {}
    BY DEF Active, Ahead, Over
  <1>3. CASE UNCHANGED <<scan, served>>
    BY <1>3 DEF ServedInv, Active, Ahead, Over
  <1>4. ASSUME NEW s \in Scan, NEW q, Set(s, q), served' = served,
               \/ scan[s].pc \in Ahead /\ q.pc \notin Active
               \/ scan[s].pc \in Active /\ q.pc \in Active \cup Over
        PROVE  ServedInv'
    <2>1. scan'[s] = q /\ \A t \in Scan \ {s} : scan'[t] = scan[t]
      BY <1>4, OthersStand
    <2>2. CASE scan[s].pc \in Ahead /\ q.pc \notin Active
      <3>1. \A i \in DOMAIN served : served[i] \in Scan \ {s}
        BY <2>2, NotServed
      <3>2. \A i \in DOMAIN served : scan'[served[i]] = scan[served[i]]
        BY <2>1, <3>1
      <3>3. \A t \in Scan : scan'[t].pc \in Active =>
               n > 0 /\ t = served[n]
        BY <2>1, <2>2 DEF ServedInv
      <3> QED BY <1>4, <3>2, <3>3 DEF ServedInv, Active, Ahead, Over
    <2>3. CASE scan[s].pc \in Active /\ q.pc \in Active \cup Over
      <3>1. /\ n \in DOMAIN served /\ served[n] = s
            /\ \A i \in DOMAIN served :
                  served[i] \in Scan /\ (i # n <=> served[i] # s)
        BY <2>3, LastServed
      <3>2. \A t \in Scan : scan'[t].pc \in Active =>
               n > 0 /\ t = served[n]
        BY <2>1, <2>3 DEF ServedInv
      <3>3. ASSUME NEW i \in DOMAIN served
            PROVE  /\ scan'[served[i]].pc \notin Ahead
                   /\ i < n => scan'[served[i]].pc \in Over
        <4>1. CASE i = n
          BY <1>1, <1>2, <2>1, <2>3, <3>1, <4>1
        <4>2. CASE i # n
          BY <2>1, <3>1, <4>2 DEF ServedInv
        <4> QED BY <4>1, <4>2
      <3> QED BY <1>4, <3>2, <3>3 DEF ServedInv, Active, Ahead, Over
    <2> QED BY <1>4, <2>2, <2>3
  <1>5. ASSUME NEW s \in Scan, NEW q, Locks(s, q)
        PROVE  ServedInv'
    <2>1. /\ scan[s].pc = "lock" /\ Set(s, q) /\ q.pc = "load"
          /\ holder = Free /\ served' = Append(served, s)
      BY <1>5 DEF Locks
    <2>2. scan'[s] = q /\ \A t \in Scan \ {s} : scan'[t] = scan[t]
      BY <2>1, OthersStand
    <2>3. \A t \in Scan : scan[t].pc \notin Active
      BY <2>1, ProcessesDiffer DEF TypeInv, LockInv
    <2>4. \A i \in DOMAIN served : served[i] \in Scan \ {s}
      BY <2>1, NotServed DEF Ahead
    <2>5. \A i \in DOMAIN served : scan'[served[i]].pc \in Over
      BY <2>2, <2>3, <2>4
         DEF ServedInv, TypeInv, ScansTyped, ScanTyped
    <2>6. /\ Len(served') = n + 1 /\ DOMAIN served' = 1..(n + 1)
          /\ served'[n + 1] = s
          /\ \A i \in 1..n : served'[i] = served[i]
      BY <1>1, <2>1, AppendProperties
    <2>7. \A t \in Scan : scan'[t].pc \in Active =>
             Len(served') > 0 /\ t = served'[Len(served')]
      BY <1>1, <2>2, <2>3, <2>6
    <2>8. ASSUME NEW i \in DOMAIN served'
          PROVE  /\ scan'[served'[i]].pc \notin Ahead
                 /\ i < Len(served') => scan'[served'[i]].pc \in Over
      <3>1. CASE i = n + 1
        BY <1>1, <2>1, <2>2, <2>6, <3>1 DEF Ahead
      <3>2. CASE i # n + 1
        <4>1. i \in 1..n BY <1>1, <2>6, <3>2
        <4>2. scan'[served'[i]].pc \in Over
          BY <1>1, <2>5, <2>6, <4>1
        <4> QED BY <1>2, <4>2
      <3> QED BY <3>1, <3>2
    <2> QED BY <2>7, <2>8 DEF ServedInv, Active, Ahead, Over
  <1>6. ASSUME NEW s \in Scan, NEW q, served' = served,
               \/ Begins(s, q) \/ Loads(s, q) \/ Writes(s, q) \/ Ends(s, q)
        PROVE  ServedInv'
    <2>1. Set(s, q)
      BY <1>6 DEF Begins, Loads, Writes, Ends
    <2>2. \/ scan[s].pc \in Ahead /\ q.pc \notin Active
          \/ scan[s].pc \in Active /\ q.pc \in Active \cup Over
      BY <1>6 DEF Begins, Loads, Writes, Ends, Active, Ahead, Over
    <2> QED BY <1>4, <1>6, <2>1, <2>2
  <1>7. ASSUME NEW s \in Scan, Raising(s), served' = served
        PROVE  ServedInv'
    <2>1. PICK q : Set(s, q) /\ q.pc \in {"market", "analyze", "write"}
      BY <1>7 DEF Raising
    <2>2. scan[s].pc \in Active
      BY <1>7 DEF Raising, Active
    <2>3. q.pc \in Active BY <2>1 DEF Active
    <2> QED BY <1>4, <1>7, <2>1, <2>2, <2>3
  <1> QED BY <1>3, <1>5, <1>6, <1>7, StepKinds

-----------------------------------------------------------------------------
(* Nothing is remembered that was not notified.                            *)

LEMMA HistoryTyped ==
  ASSUME TypeInv
  PROVE  /\ Len(served) \in Nat /\ DOMAIN served = 1..Len(served)
         /\ DOMAIN History = 1..Len(served)
         /\ \A i \in 1..Len(served) : History[i] = scan[served[i]]
         /\ \A i \in 1..Len(served) : served[i] \in Scan
  BY DEF TypeInv, HostTyped, History

\* A scan that is not served does not change the history; the one that is
\* being served changes its end; one that gets the lock is added to it.
LEMMA HistoryStands ==
  ASSUME TypeInv, TypeInv', ServedInv, NEW s \in Scan, NEW q, Set(s, q),
         served' = served, scan[s].pc \in Ahead
  PROVE  History' = History
  <1>1. scan'[s] = q /\ \A t \in Scan \ {s} : scan'[t] = scan[t]
    BY OthersStand
  <1>2. \A i \in DOMAIN served : served[i] \in Scan \ {s}
    BY NotServed
  <1> QED BY <1>1, <1>2 DEF History

LEMMA HistoryMoves ==
  ASSUME TypeInv, TypeInv', ServedInv, NEW s \in Scan, NEW q, Set(s, q),
         served' = served, scan[s].pc \in Active
  PROVE  LET n == Len(served)
         IN  /\ n \in Nat /\ n > 0 /\ n \in DOMAIN served /\ served[n] = s
             /\ History[n] = scan[s] /\ History'[n] = q
             /\ \A i \in 1..(n - 1) : History'[i] = History[i]
  <1>1. scan'[s] = q /\ \A t \in Scan \ {s} : scan'[t] = scan[t]
    BY OthersStand
  <1>2. /\ Len(served) \in Nat /\ Len(served) \in DOMAIN served
        /\ served[Len(served)] = s
        /\ \A i \in DOMAIN served :
              served[i] \in Scan /\ (i # Len(served) <=> served[i] # s)
    BY LastServed
  <1>3. DOMAIN served = 1..Len(served)
    BY HistoryTyped
  <1>4. History'[Len(served)] = q /\ History[Len(served)] = scan[s]
    BY <1>1, <1>2 DEF History
  <1>5. \A i \in 1..(Len(served) - 1) : i \in DOMAIN served /\ i # Len(served)
    <2>1. \A n \in Nat : \A i \in 1..(n - 1) : i \in 1..n /\ i # n
      OBVIOUS
    <2> QED BY <1>2, <1>3, <2>1
  <1>6. \A i \in 1..(Len(served) - 1) : History'[i] = History[i]
    BY <1>1, <1>2, <1>5 DEF History
  <1>7. Len(served) > 0
    <2>1. \A n \in Nat : n \in 1..n => n > 0
      OBVIOUS
    <2> QED BY <1>2, <1>3, <2>1
  <1> QED BY <1>2, <1>4, <1>6, <1>7

LEMMA HistoryGrows ==
  ASSUME TypeInv, TypeInv', ServedInv, NEW s \in Scan, NEW q, Locks(s, q)
  PROVE  LET n == Len(served)
         IN  /\ n \in Nat /\ Len(served') = n + 1
             /\ DOMAIN served' = 1..(n + 1)
             /\ History'[n + 1] = q
             /\ \A i \in 1..n : History'[i] = History[i]
             /\ \A t \in Scan : scan[t].pc \notin Active
             /\ \A t \in Scan \ {s} : scan'[t] = scan[t]
             /\ scan'[s] = q
  <1>1. /\ Set(s, q) /\ scan[s].pc \in Ahead
        /\ served' = Append(served, s) /\ holder = Free
    BY DEF Locks, Ahead
  <1>2. scan'[s] = q /\ \A t \in Scan \ {s} : scan'[t] = scan[t]
    BY <1>1, OthersStand
  <1>3. served \in Seq(Scan) /\ Len(served) \in Nat
        /\ DOMAIN served = 1..Len(served)
    BY DEF TypeInv, HostTyped
  <1>4. /\ Len(served') = Len(served) + 1 /\ served'[Len(served) + 1] = s
        /\ DOMAIN served' = 1..(Len(served) + 1)
        /\ \A i \in 1..Len(served) : served'[i] = served[i]
    BY <1>1, <1>3, AppendProperties
  <1>5. \A i \in DOMAIN served : served[i] \in Scan \ {s}
    BY <1>1, NotServed
  <1>6. \A t \in Scan : scan[t].pc \notin Active
    BY <1>1, ProcessesDiffer DEF TypeInv, LockInv
  <1>7. Len(served) + 1 \in 1..(Len(served) + 1)
        /\ \A i \in 1..Len(served) : i \in 1..(Len(served) + 1)
    BY <1>3
  <1>8. History' = [i \in DOMAIN served' |-> scan'[served'[i]]]
    BY DEF History
  <1>9. History'[Len(served) + 1] = q
    BY <1>2, <1>4, <1>7, <1>8
  <1>10. \A i \in 1..Len(served) : History'[i] = History[i]
    BY <1>2, <1>3, <1>4, <1>5, <1>7, <1>8 DEF History
  <1> QED BY <1>2, <1>3, <1>4, <1>6, <1>9, <1>10

\* What is known stays known when no scan takes back what it said, and none
\* retires the key or loses the state.
LEMMA KnownStays ==
  ASSUME NEW n \in Nat, NEW h, NEW g, NEW k, Known(h, k, n),
         \A i \in 1..n : /\ h[i].sent \subseteq g[i].sent
                         /\ Drops(g[i], k) => Drops(h[i], k)
                         /\ g[i].reset => h[i].reset
  PROVE  Known(g, k, n)
  <1>1. PICK i \in 1..n :
          /\ k \in h[i].sent
          /\ \A m \in (i + 1)..n : ~Drops(h[m], k) /\ ~h[m].reset
    BY DEF Known
  <1>2. k \in g[i].sent
    BY <1>1
  <1>3. \A m \in (i + 1)..n : m \in 1..n
    BY <1>1
  <1>4. \A m \in (i + 1)..n : ~Drops(g[m], k) /\ ~g[m].reset
    BY <1>1, <1>3
  <1> QED BY <1>2, <1>4 DEF Known

LEMMA KnownStaysSame ==
  ASSUME NEW n \in Nat, NEW h, NEW g, NEW k, Known(h, k, n),
         \A i \in 1..n : g[i] = h[i]
  PROVE  Known(g, k, n)
  BY KnownStays

\* What the last scan says is known at once.
LEMMA SaidIsKnown ==
  ASSUME NEW n \in Nat \ {0}, NEW h, NEW k, k \in h[n].sent
  PROVE  Known(h, k, n)
  <1>1. n \in 1..n /\ \A m \in (n + 1)..n : FALSE
    OBVIOUS
  <1> QED BY <1>1 DEF Known

\* A scan that neither retires the key nor loses the state leaves it known.
LEMMA KnownLonger ==
  ASSUME NEW n \in Nat, NEW h, NEW g, NEW k, Known(h, k, n),
         \A i \in 1..n : g[i] = h[i],
         ~Drops(g[n + 1], k), ~g[n + 1].reset
  PROVE  Known(g, k, n + 1)
  <1>1. PICK i \in 1..n :
          /\ k \in h[i].sent
          /\ \A m \in (i + 1)..n : ~Drops(h[m], k) /\ ~h[m].reset
    BY DEF Known
  <1>2. \A m \in (i + 1)..(n + 1) : m = n + 1 \/ m \in (i + 1)..n
    BY <1>1
  <1>3. \A m \in (i + 1)..n : m \in 1..n
    BY <1>1
  <1>4. \A m \in (i + 1)..(n + 1) : ~Drops(g[m], k) /\ ~g[m].reset
    BY <1>1, <1>2, <1>3
  <1>5. i \in 1..(n + 1) /\ k \in g[i].sent
    BY <1>1
  <1> QED BY <1>4, <1>5 DEF Known

\* A step of the scan that is served leaves the others, and what is known
\* when an earlier one was over.
LEMMA KnownOfOne ==
  ASSUME TypeInv, TypeInv', ServedInv, KnownInv, NEW s \in Scan, NEW q,
         Set(s, q), served' = served, scan[s].pc \in Active,
         state' # Corrupt =>
            \A k \in state'.alerts : Known(History', k, Len(served)),
         q.pc \in Loaded =>
            /\ \A k \in q.state.alerts : Known(History', k, Len(served))
            /\ q.mode.notify => q.live \subseteq q.state.alerts,
         q.pc = "done" /\ q.mode.notify =>
            \A k \in q.live : Known(History', k, Len(served))
  PROVE  KnownInv'
  <1> DEFINE n == Len(served)
  <1>1. /\ n \in Nat /\ n > 0 /\ served[n] = s /\ History'[n] = q
        /\ \A i \in 1..(n - 1) : History'[i] = History[i]
    BY HistoryMoves
  <1>2. scan'[s] = q /\ \A t \in Scan \ {s} : scan'[t] = scan[t]
    BY OthersStand
  <1>3. DOMAIN served = 1..n
    BY HistoryTyped
  <1>4. ASSUME NEW t \in Scan, scan'[t].pc \in Loaded
        PROVE  t = s
    <2>1. CASE t # s
      <3>1. scan[t].pc \in Active
        BY <1>2, <1>4, <2>1 DEF Loaded, Active
      <3>2. t = served[n]
        BY <3>1 DEF ServedInv
      <3> QED BY <1>1, <2>1, <3>2
    <2> QED BY <2>1
  <1>5. ASSUME NEW j \in DOMAIN served,
               History'[j].pc = "done", History'[j].mode.notify,
               NEW k \in History'[j].live
        PROVE  Known(History', k, j)
    <2>1. CASE j = n
      BY <1>1, <1>5, <2>1
    <2>2. CASE j # n
      <3>1. j \in Nat /\ j \in 1..(n - 1) /\ \A i \in 1..j : i \in 1..(n - 1)
        BY <1>1, <1>3, <2>2
      <3>2. History'[j] = History[j]
        BY <1>1, <3>1
      <3>3. Known(History, k, j)
        BY <1>5, <3>2 DEF KnownInv
      <3>4. \A i \in 1..j : History'[i] = History[i]
        BY <1>1, <3>1
      <3> QED BY <3>1, <3>3, <3>4, KnownStaysSame
    <2> QED BY <2>1, <2>2
  <1>6. \A t \in Scan : scan'[t].pc \in Loaded =>
          /\ \A k \in scan'[t].state.alerts : Known(History', k, Len(served))
          /\ scan'[t].mode.notify => scan'[t].live \subseteq scan'[t].state.alerts
    BY <1>2, <1>4
  <1> QED BY <1>5, <1>6 DEF KnownInv, Loaded

\* Nothing is known less after a step that changes no history.
LEMMA KnownOfNone ==
  ASSUME KnownInv, History' = History, served' = served,
         state' = state \/ state' = Corrupt,
         \A t \in Scan : scan'[t].pc \in Loaded => scan'[t] = scan[t]
  PROVE  KnownInv'
  <1>1. state' # Corrupt =>
          \A k \in state'.alerts : Known(History', k, Len(served'))
    BY DEF KnownInv
  <1>2. \A t \in Scan : scan'[t].pc \in Loaded =>
          /\ \A k \in scan'[t].state.alerts : Known(History', k, Len(served'))
          /\ scan'[t].mode.notify => scan'[t].live \subseteq scan'[t].state.alerts
    BY DEF KnownInv
  <1>3. \A j \in DOMAIN served' :
          History'[j].pc = "done" /\ History'[j].mode.notify =>
            \A k \in History'[j].live : Known(History', k, j)
    BY DEF KnownInv
  <1> QED BY <1>1, <1>2, <1>3 DEF KnownInv, Loaded

\* A key that was known is known after a step of the scan that is served,
\* if that step keeps what it said, does not retire the key and does not
\* find the state lost.
LEMMA KnownAfter ==
  ASSUME TypeInv, TypeInv', ServedInv, NEW s \in Scan, NEW q,
         Set(s, q), served' = served, scan[s].pc \in Active,
         NEW k, Known(History, k, Len(served)),
         scan[s].sent \subseteq q.sent,
         Drops(q, k) => Drops(scan[s], k), q.reset => scan[s].reset
  PROVE  Known(History', k, Len(served))
  <1> DEFINE n == Len(served)
  <1>1. /\ n \in Nat /\ History[n] = scan[s] /\ History'[n] = q
        /\ \A i \in 1..(n - 1) : History'[i] = History[i]
    BY HistoryMoves
  <1>2. ASSUME NEW i \in 1..n
        PROVE  /\ History[i].sent \subseteq History'[i].sent
               /\ Drops(History'[i], k) => Drops(History[i], k)
               /\ History'[i].reset => History[i].reset
    <2>1. CASE i = n
      BY <1>1, <2>1
    <2>2. CASE i # n
      <3>1. i \in 1..(n - 1) BY <1>1, <2>2
      <3>2. History'[i] = History[i] BY <1>1, <3>1
      <3> QED BY <3>2
    <2> QED BY <2>1, <2>2
  <1> HIDE DEF n
  <1>3. Known(History, k, n) BY DEF n
  <1>4. Known(History', k, n)
    BY <1>1, <1>2, <1>3, KnownStays
  <1> QED BY <1>4 DEF n


LEMMA KnownInvStays ==
  ASSUME TypeInv, TypeInv', ServedInv, KnownInv, [Next]_vars
  PROVE  KnownInv'
  <1> DEFINE n == Len(served)
  <1>1. CASE UNCHANGED <<scan, served>> /\ (state' = state \/ state' = Corrupt)
    <2>1. History' = History BY <1>1 DEF History
    <2> QED BY <1>1, <2>1, KnownOfNone
  <1>2. ASSUME NEW s \in Scan, NEW q, UNCHANGED <<served, state>>,
               Begins(s, q) \/ (Ends(s, q) /\ scan[s].pc = "lock")
        PROVE  KnownInv'
    <2>1. Set(s, q) /\ scan[s].pc \in Ahead /\ q.pc \notin Loaded
      BY <1>2 DEF Begins, Ends, Ahead, Loaded, Over
    <2>2. scan'[s] = q /\ \A t \in Scan \ {s} : scan'[t] = scan[t]
      BY <2>1, OthersStand
    <2>3. History' = History
      BY <1>2, <2>1, HistoryStands
    <2>4. \A t \in Scan : scan'[t].pc \in Loaded => scan'[t] = scan[t]
      BY <2>1, <2>2
    <2> QED BY <1>2, <2>3, <2>4, KnownOfNone
  <1>3. ASSUME NEW s \in Scan, NEW q, Locks(s, q), state' = state
        PROVE  KnownInv'
    <2>1. /\ n \in Nat /\ Len(served') = n + 1
          /\ DOMAIN served' = 1..(n + 1) /\ History'[n + 1] = q
          /\ \A i \in 1..n : History'[i] = History[i]
          /\ \A t \in Scan : scan[t].pc \notin Active
          /\ \A t \in Scan \ {s} : scan'[t] = scan[t]
          /\ scan'[s] = q
      BY <1>3, HistoryGrows
    <2>2. ~q.wrote /\ ~q.reset /\ q.pc = "load"
      BY <1>3 DEF Locks, TypeInv, ScansTyped, ScanTyped, Ahead
    <2> HIDE DEF n
    <2>3. ASSUME NEW k, Known(History, k, n) PROVE Known(History', k, n + 1)
      <3>1. ~Drops(History'[n + 1], k) /\ ~History'[n + 1].reset
        BY <2>1, <2>2 DEF Drops
      <3> QED BY <2>1, <2>3, <3>1, KnownLonger
    <2>4. state' # Corrupt =>
            \A k \in state'.alerts : Known(History', k, Len(served'))
      BY <1>3, <2>1, <2>3 DEF KnownInv, n
    <2>5. \A t \in Scan : scan'[t].pc \notin Loaded
      BY <2>1, <2>2 DEF Loaded, Active
    <2>6. ASSUME NEW j \in DOMAIN served',
                 History'[j].pc = "done", History'[j].mode.notify,
                 NEW k \in History'[j].live
          PROVE  Known(History', k, j)
      <3>1. j # n + 1
        BY <2>1, <2>2, <2>6
      <3>2. j \in Nat /\ j \in 1..n /\ \A i \in 1..j : i \in 1..n
        BY <2>1, <3>1
      <3>3. History'[j] = History[j] /\ j \in DOMAIN served
        BY <2>1, <3>2, HistoryTyped DEF n
      <3>4. Known(History, k, j)
        BY <2>6, <3>3 DEF KnownInv
      <3>5. \A i \in 1..j : History'[i] = History[i]
        BY <2>1, <3>2
      <3> QED BY <3>2, <3>4, <3>5, KnownStaysSame
    <2> QED BY <2>4, <2>5, <2>6 DEF KnownInv, Loaded
  <1>4. ASSUME NEW s \in Scan, NEW q, Loads(s, q), served' = served
        PROVE  KnownInv'
    <2>1. /\ Set(s, q) /\ scan[s].pc = "load" /\ scan[s].pc \in Active
          /\ q.pc = "raise" /\ q.sent = scan[s].sent /\ q.live = scan[s].live
      BY <1>4 DEF Loads, Active
    <2>2. ~scan[s].wrote /\ ~q.wrote /\ q.live = {}
      BY <1>4, <2>1 DEF Loads, TypeInv, ScansTyped, ScanTyped, Ahead, Active
    <2>3. CASE state = Corrupt
      <3>1. q.state.alerts = {} /\ (state' # Corrupt => state'.alerts = {})
        BY <1>4, <2>3 DEF Loads, NoState
      <3> QED BY <1>4, <2>1, <2>2, <3>1, KnownOfOne
    <2>4. CASE state # Corrupt
      <3>1. q.state = state /\ state' = state /\ ~q.reset
        BY <1>4, <2>4 DEF Loads
      <3>2. ASSUME NEW k \in state.alerts
            PROVE  Known(History', k, Len(served))
        <4>1. Known(History, k, Len(served))
          BY <2>4 DEF KnownInv
        <4>2. ~Drops(q, k) BY <2>2 DEF Drops
        <4> QED BY <1>4, <2>1, <3>1, <4>1, <4>2, KnownAfter
      <3> QED BY <1>4, <2>1, <2>2, <3>1, <3>2, KnownOfOne
    <2> QED BY <2>3, <2>4
  <1>5. ASSUME NEW s \in Scan, Raising(s), UNCHANGED <<served, state>>
        PROVE  KnownInv'
    <2>1. PICK keys, q :
            /\ Set(s, q) /\ Raises(scan[s], q, keys)
            /\ q.pc \in {"market", "analyze", "write"}
      BY <1>5 DEF Raising
    <2> DEFINE r == scan[s]
    <2>2. /\ r.pc \in Active /\ r.pc \in Loaded /\ r.pc \in Writing
          /\ q.pc \in Loaded
      BY <1>5, <2>1 DEF Raising, Active, Loaded, Writing
    <2>3. ~r.wrote
      BY <1>5 DEF Raising, TypeInv, ScansTyped, ScanTyped, Active
    <2>4. /\ q.sent = r.sent \cup Told(r, keys)
          /\ q.live = r.live \cup keys
          /\ q.state.alerts = r.state.alerts \cup Told(r, keys)
          /\ q.mode = r.mode /\ ~q.wrote /\ q.reset = r.reset
      BY <2>1, <2>3 DEF Raises, Keeps
    <2>5. ASSUME NEW k, Known(History, k, Len(served))
          PROVE  Known(History', k, Len(served))
      <3>1. ~Drops(q, k) BY <2>4 DEF Drops
      <3> QED BY <1>5, <2>1, <2>2, <2>4, <2>5, <3>1, KnownAfter
    <2>6. ASSUME NEW k \in q.sent PROVE Known(History', k, Len(served))
      <3>1. History'[n] = q /\ n \in Nat /\ n > 0
        BY <1>5, <2>1, <2>2, HistoryMoves
      <3>2. n \in Nat \ {0} BY <3>1
      <3> HIDE DEF n
      <3>3. Known(History', k, n)
        BY <2>6, <3>1, <3>2, SaidIsKnown
      <3> QED BY <3>3 DEF n
    <2>7. state' # Corrupt =>
            \A k \in state'.alerts : Known(History', k, Len(served))
      BY <1>5, <2>5 DEF KnownInv
    <2>8. \A k \in q.state.alerts : Known(History', k, Len(served))
      BY <2>2, <2>4, <2>5, <2>6 DEF KnownInv
    <2>9. q.mode.notify => q.live \subseteq q.state.alerts
      BY <2>2, <2>4 DEF KnownInv, Told
    <2>10. q.pc # "done" BY <2>1
    <2> QED BY <1>5, <2>1, <2>2, <2>7, <2>8, <2>9, <2>10, KnownOfOne
  <1>6. ASSUME NEW s \in Scan, NEW q, Writes(s, q), served' = served
        PROVE  KnownInv'
    <2> DEFINE r == scan[s]
    <2>1. /\ Set(s, q) /\ r.pc = "write" /\ q.pc = "report"
          /\ q.sent = r.sent /\ q.live = r.live /\ q.mode = r.mode
          /\ q.reset = r.reset /\ q.state.alerts = Kept(r)
          /\ \/ q.wrote /\ state' = q.state
             \/ ~q.wrote /\ state' = state
      BY <1>6 DEF Writes
    <2>2. r.pc \in Active /\ r.pc \in Loaded /\ q.pc \in Loaded
      BY <2>1 DEF Active, Loaded
    <2>3. ASSUME NEW k, Known(History, k, Len(served)), ~Drops(q, k)
          PROVE  Known(History', k, Len(served))
      BY <1>6, <2>1, <2>2, <2>3, KnownAfter
    <2>4. ASSUME NEW k \in Kept(r) PROVE Known(History', k, Len(served))
      <3>1. k \in r.state.alerts BY DEF Kept
      <3>2. Known(History, k, Len(served)) BY <2>2, <3>1 DEF KnownInv
      <3>3. ~Drops(q, k) BY <2>1, <2>4 DEF Kept, Drops
      <3> QED BY <2>3, <3>2, <3>3
    <2>5. state' # Corrupt =>
            \A k \in state'.alerts : Known(History', k, Len(served))
      <3>1. CASE q.wrote /\ state' = q.state
        BY <2>1, <2>4, <3>1
      <3>2. CASE ~q.wrote /\ state' = state
        <4>1. \A k : ~Drops(q, k) BY <3>2 DEF Drops
        <4> QED BY <2>3, <3>2, <4>1 DEF KnownInv
      <3> QED BY <2>1, <3>1, <3>2
    <2>6. q.mode.notify => q.live \subseteq q.state.alerts
      <3>1. r.mode.notify => r.live \subseteq r.state.alerts
        BY <2>2 DEF KnownInv
      <3> QED BY <2>1, <3>1 DEF Kept
    <2>7. \A k \in q.state.alerts : Known(History', k, Len(served))
      BY <2>1, <2>4
    <2>8. q.pc # "done" BY <2>1
    <2> QED BY <1>6, <2>1, <2>2, <2>5, <2>6, <2>7, <2>8, KnownOfOne
  <1>7. ASSUME NEW s \in Scan, NEW q, Ends(s, q), scan[s].pc \in Active,
               UNCHANGED <<served, state>>
        PROVE  KnownInv'
    <2> DEFINE r == scan[s]
    <2>1. /\ Set(s, q) /\ q.pc \in Over /\ (q.pc = "done" => r.pc = "report")
          /\ q.live = r.live /\ q.mode = r.mode /\ q.reset = r.reset
          /\ q.wrote = r.wrote /\ r.sent \subseteq q.sent
      BY <1>7 DEF Ends
    <2>2. q.pc \notin Loaded BY <2>1 DEF Over, Loaded
    <2>3. ASSUME NEW k, Known(History, k, Len(served))
          PROVE  Known(History', k, Len(served))
      <3>1. Drops(q, k) => Drops(r, k) BY <2>1 DEF Drops
      <3> QED BY <1>7, <2>1, <2>3, <3>1, KnownAfter
    <2>4. state' # Corrupt =>
            \A k \in state'.alerts : Known(History', k, Len(served))
      BY <1>7, <2>3 DEF KnownInv
    <2>5. q.pc = "done" /\ q.mode.notify =>
            \A k \in q.live : Known(History', k, Len(served))
      BY <2>1, <2>3 DEF KnownInv, Loaded
    <2> QED BY <1>7, <2>1, <2>2, <2>4, <2>5, KnownOfOne
  <1>8. ASSUME NEW s \in Scan, NEW q, Ends(s, q)
        PROVE  scan[s].pc = "lock" \/ scan[s].pc \in Active
    BY <1>8 DEF Ends
  <1> HIDE DEF n
  <1>9. ASSUME NEW s \in Scan, NEW q,
               (Begins(s, q) \/ Ends(s, q)) /\ UNCHANGED <<served, state>>
        PROVE  KnownInv'
    BY <1>2, <1>7, <1>8, <1>9
  <1>10. ASSUME NEW s \in Scan, NEW q,
                (Loads(s, q) \/ Writes(s, q)) /\ served' = served
         PROVE  KnownInv'
    BY <1>4, <1>6, <1>10
  <1> QED BY <1>1, <1>3, <1>5, <1>9, <1>10, StepKinds

-----------------------------------------------------------------------------
(* What was notified is remembered.                                        *)

LEMMA ForgottenStays ==
  ASSUME NEW h, NEW g, NEW k, NEW i \in Nat, NEW d \in Nat, NEW e \in Nat,
         NEW n \in Nat, NEW m \in Nat, d <= e, n <= m,
         Forgotten(h, k, i, d, n), g[i].wrote => h[i].wrote,
         \A j \in (i + 1)..d : Drops(h[j], k) => Drops(g[j], k),
         \A j \in (i + 1)..n : h[j].reset => g[j].reset
  PROVE  Forgotten(g, k, i, e, m)
  <1>1. /\ \A j \in (i + 1)..d : j \in (i + 1)..e
        /\ \A j \in (i + 1)..n : j \in (i + 1)..m
    OBVIOUS
  <1> QED BY <1>1 DEF Forgotten

LEMMA ForgottenBefore ==
  ASSUME NEW h, NEW k, NEW i \in Nat, NEW n \in Nat \ {0},
         Forgotten(h, k, i, n, n), ~Drops(h[n], k)
  PROVE  Forgotten(h, k, i, n - 1, n)
  <1>1. \A j \in (i + 1)..n : j = n \/ j \in (i + 1)..(n - 1)
    OBVIOUS
  <1> QED BY <1>1 DEF Forgotten

\* What holds of a step of the scan that is served, and has to be shown.
LEMMA KeptOfOne ==
  ASSUME TypeInv, TypeInv', ServedInv, KeptInv, NEW s \in Scan, NEW q,
         Set(s, q), served' = served, scan[s].pc \in Active,
         \A k : Drops(scan[s], k) => Drops(q, k),
         scan[s].reset => q.reset,
         \A i \in 1..(Len(served) - 1) : \A k \in History[i].sent :
             \/ Forgotten(History', k, i, Len(served), Len(served))
             \/ state' = Corrupt \/ k \in state'.alerts,
         q.wrote => state' = Corrupt \/ q.sent \subseteq state'.alerts,
         q.pc \in Writing =>
            /\ q.sent \subseteq q.live \cap q.state.alerts
            /\ \A i \in 1..(Len(served) - 1) : \A k \in History[i].sent :
                 \/ Forgotten(History', k, i, Len(served), Len(served))
                 \/ k \in q.state.alerts,
         \A i \in 1..(Len(served) - 1) : \A k \in History[i].sent \cap q.sent :
             \/ k \in scan[s].sent
             \/ Forgotten(History, k, i, Len(served), Len(served))
                   /\ ~Drops(scan[s], k)
  PROVE  KeptInv'
  <1> DEFINE n == Len(served)
  <1>1. /\ n \in Nat /\ n > 0 /\ served[n] = s /\ n \in DOMAIN served
        /\ History[n] = scan[s] /\ History'[n] = q
        /\ \A i \in 1..(n - 1) : History'[i] = History[i]
    BY HistoryMoves
  <1>2. scan'[s] = q /\ \A t \in Scan \ {s} : scan'[t] = scan[t]
    BY OthersStand
  <1>3. DOMAIN served = 1..n
    BY HistoryTyped
  <1>4. ASSUME NEW t \in Scan, scan'[t].pc \in Writing
        PROVE  t = s
    <2>1. CASE t # s
      <3>1. scan[t].pc \in Active
        BY <1>2, <1>4, <2>1 DEF Writing, Active
      <3>2. t = served[n]
        BY <3>1 DEF ServedInv
      <3> QED BY <1>1, <2>1, <3>2
    <2> QED BY <2>1
  <1>5. \A t \in Scan : scan'[t].pc \in Writing =>
          /\ scan'[t].sent \subseteq scan'[t].live \cap scan'[t].state.alerts
          /\ \A i \in 1..(n - 1) : \A k \in History'[i].sent :
               \/ Forgotten(History', k, i, n, n)
               \/ k \in scan'[t].state.alerts
    BY <1>1, <1>2, <1>4
  <1>6. ASSUME NEW i \in DOMAIN served, NEW k \in History'[i].sent
        PROVE  \/ Forgotten(History', k, i, n, n)
               \/ state' = Corrupt \/ k \in state'.alerts
    <2>1. CASE i = n
      BY <1>1, <1>6, <2>1 DEF Forgotten
    <2>2. CASE i # n
      <3>1. i \in 1..(n - 1) BY <1>1, <1>3, <2>2
      <3> QED BY <1>1, <1>6, <3>1
    <2> QED BY <2>1, <2>2
  <1>7. ASSUME NEW i \in DOMAIN served, NEW j \in DOMAIN served, i < j,
               NEW k \in History'[i].sent \cap History'[j].sent
        PROVE  Forgotten(History', k, i, j - 1, j)
    <2>1. /\ i \in Nat /\ j \in Nat /\ j - 1 \in Nat /\ i \in 1..(n - 1)
          /\ History'[i] = History[i]
          /\ j - 1 <= j - 1 /\ j <= j
      BY <1>1, <1>3, <1>7
    <2>2. ASSUME NEW h, h = History, Forgotten(h, k, i, j - 1, j)
          PROVE  Forgotten(History', k, i, j - 1, j)
      <3>1. \A m \in (i + 1)..(j - 1) : m \in 1..(n - 1)
        BY <1>1, <1>3, <2>1
      <3>2. \A m \in (i + 1)..(j - 1) : Drops(h[m], k) => Drops(History'[m], k)
        BY <1>1, <2>2, <3>1
      <3>3. \A m \in (i + 1)..j : m \in 1..(n - 1) \/ m = n
        <4>1. \A x, y, z \in Nat : x \in 1..(z - 1) /\ y \in 1..z =>
                 \A m \in (x + 1)..y : m \in 1..(z - 1) \/ m = z
          OBVIOUS
        <4> HIDE DEF n
        <4> QED BY <1>1, <1>3, <2>1, <4>1
      <3>4. \A m \in (i + 1)..j : h[m].reset => History'[m].reset
        BY <1>1, <2>2, <3>3
      <3>5. History'[i].wrote => h[i].wrote
        BY <2>1, <2>2
      <3> HIDE <2>2
      <3> QED BY <2>1, <2>2, <3>2, <3>4, <3>5, ForgottenStays
    <2>3. CASE k \in History[j].sent
      <3>1. Forgotten(History, k, i, j - 1, j)
        BY <1>7, <2>1, <2>3 DEF KeptInv
      <3> QED BY <2>2, <3>1
    <2>4. CASE k \notin History[j].sent
      <3>1. j = n
        <4>1. CASE j # n
          <5>1. j \in 1..(n - 1) BY <1>1, <1>3, <4>1
          <5> QED BY <1>1, <1>7, <2>4, <5>1
        <4> QED BY <4>1
      <3>2. Forgotten(History, k, i, n, n) /\ ~Drops(History[n], k)
        BY <1>1, <1>7, <2>1, <2>4, <3>1
      <3>3. n \in Nat \ {0} BY <1>1
      <3> HIDE DEF n
      <3>4. Forgotten(History, k, i, n - 1, n)
        BY <2>1, <3>2, <3>3, ForgottenBefore
      <3> QED BY <2>2, <3>1, <3>4
    <2> QED BY <2>3, <2>4
  <1> QED BY <1>5, <1>6, <1>7 DEF KeptInv, Writing

LEMMA KeptOfNone ==
  ASSUME KeptInv, History' = History, served' = served,
         state' = state \/ state' = Corrupt,
         \A t \in Scan : scan'[t].pc \in Writing => scan'[t] = scan[t]
  PROVE  KeptInv'
  <1>1. \A i \in DOMAIN served' : \A k \in History'[i].sent :
        \/ Forgotten(History', k, i, Len(served'), Len(served'))
        \/ state' = Corrupt \/ k \in state'.alerts
    BY DEF KeptInv
  <1>2. \A t \in Scan : scan'[t].pc \in Writing =>
        /\ scan'[t].sent \subseteq scan'[t].live \cap scan'[t].state.alerts
        /\ \A i \in 1..(Len(served') - 1) : \A k \in History'[i].sent :
              \/ Forgotten(History', k, i, Len(served'), Len(served'))
              \/ k \in scan'[t].state.alerts
    BY DEF KeptInv
  <1>3. \A i, j \in DOMAIN served' : i < j =>
        \A k \in History'[i].sent \cap History'[j].sent :
            Forgotten(History', k, i, j - 1, j)
    BY DEF KeptInv
  <1> QED BY <1>1, <1>2, <1>3 DEF KeptInv, Writing

\* What was forgotten stays so, whatever the scan that is served does.
LEMMA ForgottenAfter ==
  ASSUME TypeInv, TypeInv', ServedInv, NEW s \in Scan, NEW q,
         Set(s, q), served' = served, scan[s].pc \in Active,
         NEW k, Drops(scan[s], k) => Drops(q, k), scan[s].reset => q.reset,
         NEW i \in 1..(Len(served) - 1),
         Forgotten(History, k, i, Len(served), Len(served))
  PROVE  Forgotten(History', k, i, Len(served), Len(served))
  <1> DEFINE n == Len(served)
  <1>1. /\ n \in Nat /\ n > 0
        /\ History[n] = scan[s] /\ History'[n] = q
        /\ \A j \in 1..(n - 1) : History'[j] = History[j]
    BY HistoryMoves
  <1> HIDE DEF n
  <1>2. i \in Nat /\ n <= n /\ i \in 1..(n - 1)
    BY <1>1 DEF n
  <1>3. \A j \in (i + 1)..n : j \in 1..(n - 1) \/ j = n
    BY <1>1, <1>2
  <1>4. \A j \in (i + 1)..n : Drops(History[j], k) => Drops(History'[j], k)
    BY <1>1, <1>3
  <1>5. \A j \in (i + 1)..n : History[j].reset => History'[j].reset
    BY <1>1, <1>3
  <1>6. History'[i].wrote => History[i].wrote
    BY <1>1, <1>2
  <1>7. Forgotten(History, k, i, n, n)
    BY DEF n
  <1>8. Forgotten(History', k, i, n, n)
    BY <1>1, <1>2, <1>4, <1>5, <1>6, <1>7, ForgottenStays
  <1> QED BY <1>8 DEF n

LEMMA KeptInvStays ==
  ASSUME TypeInv, TypeInv', ServedInv, KeptInv, [Next]_vars
  PROVE  KeptInv'
  <1>1. CASE UNCHANGED <<scan, served>> /\ (state' = state \/ state' = Corrupt)
    <2>1. History' = History BY <1>1 DEF History
    <2> QED BY <1>1, <2>1, KeptOfNone
  <1>2. ASSUME NEW s \in Scan, NEW q, UNCHANGED <<served, state>>,
               Begins(s, q) \/ (Ends(s, q) /\ scan[s].pc = "lock")
        PROVE  KeptInv'
    <2>1. Set(s, q) /\ scan[s].pc \in Ahead /\ q.pc \notin Writing
      BY <1>2 DEF Begins, Ends, Ahead, Writing, Over
    <2>2. scan'[s] = q /\ \A t \in Scan \ {s} : scan'[t] = scan[t]
      BY <2>1, OthersStand
    <2>3. History' = History
      BY <1>2, <2>1, HistoryStands
    <2>4. \A t \in Scan : scan'[t].pc \in Writing => scan'[t] = scan[t]
      BY <2>1, <2>2
    <2> QED BY <1>2, <2>3, <2>4, KeptOfNone
  <1>3. ASSUME NEW s \in Scan, NEW q, Locks(s, q), state' = state
        PROVE  KeptInv'
    <2> DEFINE n == Len(served)
    <2>1. /\ n \in Nat /\ Len(served') = n + 1
          /\ DOMAIN served' = 1..(n + 1) /\ History'[n + 1] = q
          /\ \A i \in 1..n : History'[i] = History[i]
          /\ \A t \in Scan : scan[t].pc \notin Active
          /\ \A t \in Scan \ {s} : scan'[t] = scan[t]
          /\ scan'[s] = q
      BY <1>3, HistoryGrows
    <2>2. ~q.wrote /\ q.pc = "load" /\ q.sent = {}
      BY <1>3 DEF Locks, TypeInv, ScansTyped, ScanTyped, Ahead, Active
    <2>3. \A t \in Scan : scan'[t].pc \notin Writing
      BY <2>1, <2>2 DEF Writing, Active
    <2>4. DOMAIN served = 1..n
      BY HistoryTyped
    <2> HIDE DEF n
    <2>5. ASSUME NEW i \in 1..n, NEW k, NEW d \in Nat, NEW j \in Nat,
                 NEW e \in Nat, NEW m \in Nat,
                 d <= e, j <= m, d <= n, j <= n,
                 Forgotten(History, k, i, d, j)
          PROVE  Forgotten(History', k, i, e, m)
      <3>1. i \in Nat /\ History'[i] = History[i]
        BY <2>1
      <3>2. /\ \A x \in (i + 1)..d : x \in 1..n
            /\ \A x \in (i + 1)..j : x \in 1..n
        BY <2>1, <2>5
      <3>3. \A x \in (i + 1)..d : Drops(History[x], k) => Drops(History'[x], k)
        BY <2>1, <3>2
      <3>4. \A x \in (i + 1)..j : History[x].reset => History'[x].reset
        BY <2>1, <3>2
      <3>5. History'[i].wrote => History[i].wrote
        BY <3>1
      <3> QED BY <2>5, <3>1, <3>3, <3>4, <3>5, ForgottenStays
    <2>6. ASSUME NEW i \in DOMAIN served', NEW k \in History'[i].sent
          PROVE  \/ Forgotten(History', k, i, n + 1, n + 1)
                 \/ state' = Corrupt \/ k \in state'.alerts
      <3>1. i # n + 1 BY <2>1, <2>2, <2>6
      <3>2. i \in 1..n BY <2>1, <3>1
      <3>3. k \in History[i].sent BY <2>1, <2>6, <3>2
      <3>4. CASE Forgotten(History, k, i, n, n)
        <4>1. n <= n + 1 /\ n <= n /\ n + 1 \in Nat BY <2>1
        <4> QED BY <2>1, <2>5, <3>2, <3>4, <4>1
      <3>5. CASE state = Corrupt \/ k \in state.alerts
        BY <1>3, <3>5
      <3> QED BY <2>4, <3>2, <3>3, <3>4, <3>5 DEF KeptInv, n
    <2>7. ASSUME NEW i \in DOMAIN served', NEW j \in DOMAIN served', i < j,
                 NEW k \in History'[i].sent \cap History'[j].sent
          PROVE  Forgotten(History', k, i, j - 1, j)
      <3>1. j # n + 1 BY <2>1, <2>2, <2>7
      <3>2. i \in 1..n /\ j \in 1..n BY <2>1, <2>7, <3>1
      <3>3. k \in History[i].sent \cap History[j].sent
        BY <2>1, <2>7, <3>2
      <3>4. Forgotten(History, k, i, j - 1, j)
        BY <2>4, <2>7, <3>2, <3>3 DEF KeptInv
      <3>5. j \in Nat /\ j - 1 \in Nat /\ j <= n /\ j - 1 <= n
            /\ j <= j /\ j - 1 <= j - 1
        BY <2>1, <3>2
      <3> QED BY <2>5, <3>2, <3>4, <3>5
    <2> QED BY <2>1, <2>3, <2>6, <2>7 DEF KeptInv, Writing
  <1>4. ASSUME NEW s \in Scan, NEW q, Loads(s, q), served' = served
        PROVE  KeptInv'
    <2> DEFINE n == Len(served)
    <2>1. /\ Set(s, q) /\ scan[s].pc = "load" /\ scan[s].pc \in Active
          /\ q.pc = "raise" /\ q.sent = scan[s].sent /\ q.live = scan[s].live
      BY <1>4 DEF Loads, Active
    <2>2. /\ ~scan[s].wrote /\ ~q.wrote /\ q.sent = {}
          /\ ~scan[s].reset
      BY <1>4, <2>1 DEF Loads, TypeInv, ScansTyped, ScanTyped, Ahead, Active
    <2>3. /\ n \in Nat /\ DOMAIN served = 1..n /\ History'[n] = q
      BY <1>4, <2>1, HistoryMoves, HistoryTyped
    <2>4. \A k : Drops(scan[s], k) => Drops(q, k)
      BY <2>2 DEF Drops
    <2>5. ASSUME NEW i \in 1..(n - 1), NEW k \in History[i].sent
          PROVE  \/ Forgotten(History', k, i, n, n)
                 \/ /\ state' = state /\ state # Corrupt
                    /\ k \in state.alerts /\ q.state = state
      <3>1. CASE state = Corrupt
        <4>1. q.reset BY <1>4, <3>1 DEF Loads
        <4>2. n \in (i + 1)..n BY <2>3
        <4> QED BY <2>3, <4>1, <4>2 DEF Forgotten
      <3>2. CASE state # Corrupt
        <4>1. q.state = state /\ state' = state
          BY <1>4, <3>2 DEF Loads
        <4>2. i \in DOMAIN served BY <2>3
        <4>3. Forgotten(History, k, i, n, n) \/ k \in state.alerts
          BY <3>2, <4>2 DEF KeptInv
        <4>4. CASE Forgotten(History, k, i, n, n)
          BY <1>4, <2>1, <2>2, <2>4, <4>4, ForgottenAfter
        <4> QED BY <3>2, <4>1, <4>3, <4>4
      <3> QED BY <3>1, <3>2
    <2>6. \A i \in 1..(n - 1) : \A k \in History[i].sent :
            \/ Forgotten(History', k, i, n, n) \/ k \in q.state.alerts
      BY <2>5
    <2>7. \A i \in 1..(n - 1) : \A k \in History[i].sent :
            \/ Forgotten(History', k, i, n, n)
            \/ state' = Corrupt \/ k \in state'.alerts
      BY <2>5
    <2> QED BY <1>4, <2>1, <2>2, <2>4, <2>6, <2>7, KeptOfOne
  <1>5. ASSUME NEW s \in Scan, Raising(s), UNCHANGED <<served, state>>
        PROVE  KeptInv'
    <2> DEFINE n == Len(served)
               r == scan[s]
    <2>1. PICK keys, q :
            /\ Set(s, q) /\ Raises(r, q, keys)
            /\ q.pc \in {"market", "analyze", "write"}
      BY <1>5 DEF Raising
    <2>2. r.pc \in Active /\ r.pc \in Writing
      BY <1>5 DEF Raising, Active, Writing
    <2>3. ~r.wrote
      BY <1>5 DEF Raising, TypeInv, ScansTyped, ScanTyped, Active
    <2>4. /\ q.sent = r.sent \cup Told(r, keys)
          /\ q.live = r.live \cup keys
          /\ q.state.alerts = r.state.alerts \cup Told(r, keys)
          /\ ~q.wrote /\ (r.reset => q.reset)
      BY <2>1, <2>3 DEF Raises, Keeps
    <2>5. \A k : ~Drops(r, k)
      BY <2>3 DEF Drops
    <2>6. /\ r.sent \subseteq r.live \cap r.state.alerts
          /\ \A i \in 1..(n - 1) : \A k \in History[i].sent :
              Forgotten(History, k, i, n, n) \/ k \in r.state.alerts
      BY <2>2 DEF KeptInv
    <2>7. Told(r, keys) \subseteq keys /\ Told(r, keys) \cap r.state.alerts = {}
      BY DEF Told
    <2>8. q.sent \subseteq q.live \cap q.state.alerts
      BY <2>4, <2>6, <2>7
    <2>9. ASSUME NEW i \in 1..(n - 1), NEW k, Forgotten(History, k, i, n, n)
          PROVE  Forgotten(History', k, i, n, n)
      BY <1>5, <2>1, <2>2, <2>4, <2>5, <2>9, ForgottenAfter
    <2>10. \A i \in 1..(n - 1) : \A k \in History[i].sent :
              Forgotten(History', k, i, n, n) \/ k \in q.state.alerts
      BY <2>4, <2>6, <2>9
    <2>11. \A i \in 1..(n - 1) : i \in DOMAIN served
      BY <1>5, <2>1, <2>2, HistoryTyped, HistoryMoves
    <2>12. \A i \in 1..(n - 1) : \A k \in History[i].sent :
              \/ Forgotten(History', k, i, n, n)
              \/ state' = Corrupt \/ k \in state'.alerts
      BY <1>5, <2>9, <2>11 DEF KeptInv
    <2>13. \A i \in 1..(n - 1) : \A k \in History[i].sent \cap q.sent :
              \/ k \in r.sent
              \/ Forgotten(History, k, i, n, n) /\ ~Drops(r, k)
      BY <2>4, <2>5, <2>6, <2>7
    <2> QED BY <1>5, <2>1, <2>2, <2>4, <2>5, <2>8, <2>10, <2>12, <2>13,
               KeptOfOne
  <1>6. ASSUME NEW s \in Scan, NEW q, Writes(s, q), served' = served
        PROVE  KeptInv'
    <2> DEFINE n == Len(served)
               r == scan[s]
    <2>1. /\ Set(s, q) /\ r.pc = "write" /\ q.pc = "report"
          /\ q.sent = r.sent /\ q.live = r.live /\ q.mode = r.mode
          /\ q.reset = r.reset /\ q.state.alerts = Kept(r)
          /\ \/ q.wrote /\ state' = q.state
             \/ ~q.wrote /\ state' = state
      BY <1>6 DEF Writes
    <2>2. r.pc \in Active /\ r.pc \in Writing /\ q.pc \notin Writing
      BY <2>1 DEF Active, Writing
    <2>3. ~r.wrote
      BY <2>1 DEF TypeInv, ScansTyped, ScanTyped, Active
    <2>4. \A k : Drops(r, k) => Drops(q, k)
      BY <2>3 DEF Drops
    <2>5. /\ r.sent \subseteq r.live \cap r.state.alerts
          /\ \A i \in 1..(n - 1) : \A k \in History[i].sent :
              Forgotten(History, k, i, n, n) \/ k \in r.state.alerts
      BY <2>2 DEF KeptInv
    <2>6. n \in Nat /\ DOMAIN served = 1..n /\ History'[n] = q
      BY <1>6, <2>1, <2>2, HistoryMoves, HistoryTyped
    <2>7. ASSUME NEW i \in 1..(n - 1), NEW k, Forgotten(History, k, i, n, n)
          PROVE  Forgotten(History', k, i, n, n)
      BY <1>6, <2>1, <2>2, <2>4, <2>7, ForgottenAfter
    <2>8. ASSUME NEW i \in 1..(n - 1), NEW k \in History[i].sent
          PROVE  \/ Forgotten(History', k, i, n, n)
                 \/ state' = Corrupt \/ k \in state'.alerts
      <3>1. CASE q.wrote /\ state' = q.state
        <4>1. CASE Forgotten(History, k, i, n, n)
          BY <2>7, <4>1
        <4>2. CASE k \in r.state.alerts /\ k \in Kept(r)
          BY <2>1, <3>1, <4>2
        <4>3. CASE k \in r.state.alerts /\ k \notin Kept(r)
          <5>1. Drops(q, k)
            BY <2>1, <3>1, <4>3 DEF Kept, Drops
          <5>2. n \in (i + 1)..n BY <2>6
          <5> QED BY <2>6, <5>1, <5>2 DEF Forgotten
        <4> QED BY <2>5, <4>1, <4>2, <4>3
      <3>2. CASE ~q.wrote /\ state' = state
        <4>1. i \in DOMAIN served BY <2>6
        <4> QED BY <2>7, <3>2, <4>1 DEF KeptInv
      <3> QED BY <2>1, <3>1, <3>2
    <2>9. q.wrote => q.sent \subseteq state'.alerts
      BY <2>1, <2>5 DEF Kept
    <2>10. \A i \in 1..(n - 1) : \A k \in History[i].sent \cap q.sent :
              k \in r.sent
      BY <2>1
    <2> QED BY <1>6, <2>1, <2>2, <2>4, <2>8, <2>9, <2>10, KeptOfOne
  <1>7. ASSUME NEW s \in Scan, NEW q, Ends(s, q), scan[s].pc \in Active,
               UNCHANGED <<served, state>>
        PROVE  KeptInv'
    <2> DEFINE n == Len(served)
               r == scan[s]
    <2>1. /\ Set(s, q) /\ q.pc \in Over
          /\ q.live = r.live /\ q.mode = r.mode /\ q.reset = r.reset
          /\ q.wrote = r.wrote /\ r.sent \subseteq q.sent
          /\ (r.pc # "raise" => q.sent = r.sent)
          /\ (r.pc = "raise" =>
                q.sent \subseteq r.sent \cup (CoreKeys(r) \ r.state.alerts))
      BY <1>7 DEF Ends
    <2>2. q.pc \notin Writing BY <2>1 DEF Over, Writing
    <2>3. \A k : Drops(r, k) => Drops(q, k)
      BY <2>1 DEF Drops
    <2>4. /\ n \in Nat /\ DOMAIN served = 1..n /\ n \in DOMAIN served
          /\ History[n] = r
      BY <1>7, <2>1, HistoryMoves, HistoryTyped
    <2>5. ASSUME NEW i \in 1..(n - 1), NEW k, Forgotten(History, k, i, n, n)
          PROVE  Forgotten(History', k, i, n, n)
      BY <1>7, <2>1, <2>3, <2>5, ForgottenAfter
    <2>6. \A i \in 1..(n - 1) : i \in DOMAIN served
      BY <2>4
    <2>7. \A i \in 1..(n - 1) : \A k \in History[i].sent :
              \/ Forgotten(History', k, i, n, n)
              \/ state' = Corrupt \/ k \in state'.alerts
      BY <1>7, <2>5, <2>6 DEF KeptInv
    <2>8. ASSUME q.wrote, NEW k \in q.sent, state' # Corrupt
          PROVE  k \in state'.alerts
      <3>1. r.wrote /\ r.pc = "report"
        BY <1>7, <2>1, <2>8 DEF TypeInv, ScansTyped, ScanTyped
      <3>2. k \in History[n].sent
        BY <2>1, <2>4, <2>8, <3>1
      <3>3. \A j \in (n + 1)..n : FALSE
        BY <2>4
      <3>4. ~Forgotten(History, k, n, n, n)
        BY <2>4, <3>1, <3>3 DEF Forgotten
      <3> QED BY <1>7, <2>4, <2>8, <3>2, <3>4 DEF KeptInv
    <2>9. ASSUME NEW i \in 1..(n - 1), NEW k \in History[i].sent \cap q.sent
          PROVE  \/ k \in r.sent
                 \/ Forgotten(History, k, i, n, n) /\ ~Drops(r, k)
      <3>1. CASE r.pc = "raise" /\ k \notin r.sent
        <4>1. k \notin r.state.alerts
          BY <2>1, <2>9, <3>1
        <4>2. Forgotten(History, k, i, n, n)
          BY <2>9, <3>1, <4>1 DEF KeptInv, Writing
        <4>3. ~r.wrote
          BY <3>1 DEF TypeInv, ScansTyped, ScanTyped, Active
        <4> QED BY <4>2, <4>3 DEF Drops
      <3> QED BY <2>1, <2>9, <3>1
    <2> QED BY <1>7, <2>1, <2>2, <2>3, <2>7, <2>8, <2>9, KeptOfOne
  <1>8. ASSUME NEW s \in Scan, NEW q, Ends(s, q)
        PROVE  scan[s].pc = "lock" \/ scan[s].pc \in Active
    BY <1>8 DEF Ends
  <1>9. ASSUME NEW s \in Scan, NEW q,
               (Begins(s, q) \/ Ends(s, q)) /\ UNCHANGED <<served, state>>
        PROVE  KeptInv'
    BY <1>2, <1>7, <1>8, <1>9
  <1>10. ASSUME NEW s \in Scan, NEW q,
                (Loads(s, q) \/ Writes(s, q)) /\ served' = served
         PROVE  KeptInv'
    BY <1>4, <1>6, <1>10
  <1> QED BY <1>1, <1>3, <1>5, <1>9, <1>10, StepKinds

-----------------------------------------------------------------------------
(* What a scan says of identities.                                         *)

LEMMA RaisedStays ==
  ASSUME TypeInv, RaisedInv, [Next]_vars
  PROVE  RaisedInv'
  <1> DEFINE Settled(r) ==
               r.pc \in Raised =>
                  /\ CoreKeys(r) \subseteq r.live
                  /\ \A k \in r.live \ CoreKeys(r) :
                        k[1] \in {"market", "provenance", "analysis"}
  <1>1. \A t \in Scan : Settled(scan[t])
    BY DEF RaisedInv
  <1>2. CASE UNCHANGED scan
    BY <1>2 DEF RaisedInv, Raised
  <1>3. ASSUME NEW s \in Scan, NEW q, Set(s, q), Settled(q)
        PROVE  RaisedInv'
    <2>1. scan'[s] = q /\ \A t \in Scan \ {s} : scan'[t] = scan[t]
      BY <1>3, OthersStand
    <2>2. ASSUME NEW t \in Scan PROVE Settled(scan'[t])
      <3>1. CASE t = s BY <1>3, <2>1, <3>1
      <3>2. CASE t # s BY <1>1, <2>1, <3>2
      <3> QED BY <3>1, <3>2
    <2> QED BY <2>2 DEF RaisedInv, Raised
  <1>4. ASSUME NEW s \in Scan, NEW q,
               Begins(s, q) \/ Locks(s, q) \/ Loads(s, q) \/ Ends(s, q)
        PROVE  RaisedInv'
    <2>1. Set(s, q) /\ q.pc \notin Raised
      BY <1>4 DEF Begins, Locks, Loads, Ends, Raised, Over
    <2> QED BY <1>3, <2>1
  <1>5. ASSUME NEW s \in Scan, NEW q, Writes(s, q) PROVE RaisedInv'
    <2>1. Set(s, q) /\ q.live = scan[s].live /\ scan[s].pc \in Raised
      BY <1>5 DEF Writes, Raised
    <2>2. CoreKeys(q) = CoreKeys(scan[s])
      BY <1>5, CoreKeysStay DEF Writes
    <2>3. Settled(scan[s]) BY <1>1
    <2> QED BY <1>3, <2>1, <2>2, <2>3
  <1>6. ASSUME NEW s \in Scan, Raising(s) PROVE RaisedInv'
    <2> DEFINE r == scan[s]
    <2>1. PICK keys, q :
        /\ Set(s, q) /\ Raises(r, q, keys)
        /\ \/ r.pc = "raise" /\ keys = CoreKeys(r)
           \/ /\ r.pc \in {"market", "analyze"}
              /\ \A k \in keys : k[1] \in {"market", "provenance", "analysis"}
      BY <1>6 DEF Raising
    <2>2. q.live = r.live \cup keys /\ CoreKeys(q) = CoreKeys(r)
      BY <2>1, CoreKeysStay DEF Raises, Keeps
    <2>3. CASE r.pc = "raise" /\ keys = CoreKeys(r)
      <3>1. r.live = {}
        BY <2>3 DEF TypeInv, ScansTyped, ScanTyped
      <3> QED BY <1>3, <2>1, <2>2, <2>3, <3>1
    <2>4. CASE /\ r.pc \in {"market", "analyze"}
               /\ \A k \in keys : k[1] \in {"market", "provenance", "analysis"}
      <3>1. Settled(r) BY <1>1
      <3>2. r.pc \in Raised BY <2>4 DEF Raised
      <3> QED BY <1>3, <2>1, <2>2, <2>4, <3>1, <3>2
    <2> QED BY <2>1, <2>3, <2>4
  <1> QED BY <1>2, <1>4, <1>5, <1>6, StepKinds

-----------------------------------------------------------------------------
(* The ledger only grows, by what was confirmed.                           *)

LEMMA ConfirmedStays ==
  ASSUME NEW l, NEW S, NEW T, S \subseteq T,
         NEW command, NEW display, NEW command2, NEW display2,
         \A c \in S : command2[c] = command[c] /\ display2[c] = display[c],
         Confirmed(l, S, command, display)
  PROVE  Confirmed(l, T, command2, display2)
  BY DEF Confirmed

LEMMA ConfirmedAppend ==
  ASSUME NEW l, NEW m, NEW S, NEW c, NEW command, NEW display,
         IsLedger(l), Confirmed(l, S, command, display), NEW a \in Observed,
         command[c].id \in Id,
         m.records = Append(l.records, [id |-> command[c].id, accepted |-> a]),
         \/ command[c].do = "trust" /\ display[c] = a
         \/ command[c].do = "rebaseline" /\ command[c].expected = a.src
         \/ \E i \in DOMAIN l.records :
               l.records[i] = [id |-> command[c].id, accepted |-> a]
  PROVE  Confirmed(m, S \cup {c}, command, display)
  <1> DEFINE r == [id |-> command[c].id, accepted |-> a]
             n == Len(l.records)
  <1>1. r \in Record /\ r.id = command[c].id /\ r.accepted = a
    BY DEF Record
  <1> HIDE DEF r
  <1>2. l.records \in Seq(Record) /\ n \in Nat /\ DOMAIN l.records = 1..n
    BY DEF IsLedger
  <1>3. /\ m.records \in Seq(Record) /\ Len(m.records) = n + 1
        /\ \A i \in 1..n : m.records[i] = l.records[i]
        /\ m.records[n + 1] = r
    BY <1>1, <1>2, AppendGrows DEF r
  <1> HIDE DEF n
  <1>4. DOMAIN m.records = 1..(n + 1)
    BY <1>2, <1>3
  <1> DEFINE Good(x, i) ==
               \/ x.accepted = CurrentIdentity(Initial, x.id)
               \/ \E d \in S \cup {c} : /\ command[d].id = x.id
                                        /\ command[d].do = "trust"
                                        /\ display[d] = x.accepted
               \/ \E d \in S \cup {c} : /\ command[d].id = x.id
                                        /\ command[d].do = "rebaseline"
                                        /\ command[d].expected = x.accepted.src
               \/ \E j \in 1..(i - 1) : m.records[j] = x
  <1>5. ASSUME NEW i \in 1..n PROVE Good(m.records[i], i)
    <2>1. \A j \in 1..(i - 1) : j \in 1..n BY <1>2
    <2> QED BY <1>2, <1>3, <2>1 DEF Confirmed
  <1>6. Good(m.records[n + 1], n + 1)
    <2>1. (n + 1) - 1 = n BY <1>2
    <2>2. ASSUME NEW i \in DOMAIN l.records,
                 l.records[i] = [id |-> command[c].id, accepted |-> a]
          PROVE  \E j \in 1..((n + 1) - 1) : m.records[j] = r
      BY <1>2, <1>3, <2>1, <2>2 DEF r
    <2> QED BY <1>1, <1>3, <2>2
  <1>7. ASSUME NEW i \in DOMAIN m.records PROVE Good(m.records[i], i)
    <2>1. i \in 1..n \/ i = n + 1 BY <1>2, <1>4
    <2> HIDE DEF Good
    <2> QED BY <1>5, <1>6, <2>1
  <1> QED BY <1>7 DEF Confirmed

\* Every step is one of these to the ledger and the commands.
LEMMA LedgerKinds ==
  ASSUME TypeInv, [Next]_vars
  PROVE  \/ UNCHANGED clientVars /\ (ledger' = ledger \/ ledger' = Corrupt)
         \/ /\ UNCHANGED clientVars /\ ledger = Corrupt /\ ledger' = Empty
            /\ \E s \in Scan : scan[s].pc \in Active
         \/ \E c \in Client :
              \/ Start(c) \/ Confirm(c) \/ TakeLock(c) \/ GiveUp(c)
              \/ Decide(c) \/ DecideNothing(c) \/ WriteLedger(c) \/ Stop(c)
  <1>1. ASSUME NEW s \in Scan, ScanStep(s)
        PROVE  \/ UNCHANGED clientVars /\ ledger' = ledger
               \/ /\ UNCHANGED clientVars /\ ledger = Corrupt
                  /\ ledger' = Empty /\ scan[s].pc \in Active
    <2>1. CASE Load(s)
      <3>1. PICK q : Loads(s, q) BY <2>1, LoadSteps
      <3>2. UNCHANGED clientVars BY <2>1 DEF Load
      <3> QED BY <3>1, <3>2 DEF Loads, Active
    <2>2. CASE RaiseCore(s) \/ RaiseMarket(s) \/ Analyze(s)
      BY <2>2, RaisingSteps DEF ledgerVars, clientVars
    <2>3. CASE \/ LockBusyScan(s) \/ MarketFails(s) \/ WriteFails(s)
               \/ Report(s) \/ KillScan(s)
      BY <2>3, EndSteps
    <2>4. CASE BeginScan(s) \/ LockScan(s) \/ WriteState(s)
      BY <2>4 DEF BeginScan, LockScan, WriteState, ledgerVars, clientVars
    <2> QED BY <1>1, <2>1, <2>2, <2>3, <2>4 DEF ScanStep
  <1>2. CASE \/ (Edit \/ CorruptLedger) /\ UNCHANGED scanVars
             \/ Elsewhere \/ CorruptState \/ UNCHANGED vars
    BY <1>2 DEF Edit, CorruptLedger, Elsewhere, CorruptState, vars,
                ledgerVars, clientVars
  <1> QED BY <1>1, <1>2 DEF Next, Finished, LedgerNext, ClientNext

\* A client's step that writes nothing, and one that is not about to, keeps
\* the ledger and what the others have in hand.
LEMMA LedgerOfOne ==
  ASSUME TypeInv, LedgerInv, NEW c \in Client,
         ledger' = ledger, cpc[c] # "done",
         \A d \in Client \ {c} :
            /\ cpc'[d] = cpc[d] /\ ccmd'[d] = ccmd[d]
            /\ shown'[d] = shown[d] /\ cmem'[d] = cmem[d],
         cpc'[c] # "done",
         cpc'[c] = "write" =>
            /\ ledger # Corrupt => Grows(ledger, cmem'[c])
            /\ Confirmed(cmem'[c], Succeeded \cup {c}, ccmd', shown')
  PROVE  LedgerInv'
  <1>1. Succeeded' = Succeeded /\ \A d \in Succeeded : d \in Client \ {c}
    BY DEF Succeeded
  <1>2. ASSUME NEW d \in Client, cpc'[d] = "write"
        PROVE  /\ ledger' # Corrupt => Grows(ledger', cmem'[d])
               /\ Confirmed(cmem'[d], Succeeded' \cup {d}, ccmd', shown')
    <2>1. CASE d = c BY <1>1, <1>2, <2>1
    <2>2. CASE d # c
      <3>1. cpc[d] = "write" /\ cmem'[d] = cmem[d]
        BY <1>2, <2>2
      <3>2. Confirmed(cmem[d], Succeeded \cup {d}, ccmd, shown)
        BY <3>1 DEF LedgerInv
      <3>3. \A e \in Succeeded \cup {d} :
               ccmd'[e] = ccmd[e] /\ shown'[e] = shown[e]
        BY <1>1, <2>2
      <3>4. Confirmed(cmem[d], Succeeded \cup {d}, ccmd', shown')
        BY <3>2, <3>3, ConfirmedStays
      <3> QED BY <1>1, <3>1, <3>4 DEF LedgerInv, WritesMore
    <2> QED BY <2>1, <2>2
  <1>3. ASSUME ledger' # Corrupt
        PROVE  Confirmed(ledger', Succeeded', ccmd', shown')
    <2>1. Confirmed(ledger, Succeeded, ccmd, shown)
      BY <1>3 DEF LedgerInv
    <2>2. \A e \in Succeeded : ccmd'[e] = ccmd[e] /\ shown'[e] = shown[e]
      BY <1>1
    <2>3. Confirmed(ledger, Succeeded, ccmd', shown')
      BY <2>1, <2>2, ConfirmedStays
    <2> QED BY <1>1, <2>3
  <1> QED BY <1>2, <1>3 DEF LedgerInv, WritesMore

LEMMA LedgerStays ==
  ASSUME TypeInv, LedgerInv, [Next]_vars
  PROVE  LedgerInv'
  <1>1. HostTyped /\ ClientsTyped /\ LockInv
    BY DEF TypeInv
  <1>2. CASE UNCHANGED clientVars /\ (ledger' = ledger \/ ledger' = Corrupt)
    BY <1>2 DEF LedgerInv, WritesMore, Succeeded, clientVars
  <1>3. CASE /\ UNCHANGED clientVars /\ ledger = Corrupt /\ ledger' = Empty
             /\ \E s \in Scan : scan[s].pc \in Active
    <2>1. PICK s \in Scan : holder = s
      BY <1>1, <1>3 DEF LockInv
    <2>2. \A c \in Client : cpc[c] # "write"
      BY <1>1, <2>1, ProcessesDiffer DEF LockInv
    <2>3. cpc' = cpc BY <1>3 DEF clientVars
    <2>4. Confirmed(ledger', Succeeded', ccmd', shown')
      BY <1>3 DEF Confirmed, Empty
    <2> QED BY <2>2, <2>3, <2>4 DEF LedgerInv, WritesMore
  <1>4. ASSUME NEW c \in Client,
               \/ Start(c) \/ Confirm(c) \/ TakeLock(c) \/ GiveUp(c)
               \/ DecideNothing(c) \/ Stop(c)
        PROVE  LedgerInv'
    <2>1. ledger' = ledger /\ cmem' = cmem
      BY <1>4 DEF Start, Confirm, TakeLock, GiveUp, DecideNothing, Stop, Fail
    <2>2. /\ cpc[c] # "done" /\ cpc'[c] \notin {"done", "write"}
          /\ \A d \in Client \ {c} :
                cpc'[d] = cpc[d] /\ ccmd'[d] = ccmd[d] /\ shown'[d] = shown[d]
      <3>1. CASE Start(c)
        <4>1. PICK k \in May[c] :
            /\ ccmd' = [ccmd EXCEPT ![c] = k]
            /\ \/ /\ shown' = shown
                  /\ cpc' = [cpc EXCEPT ![c] = "lock"]
               \/ LET identity == CurrentIdentity(installed, k.id)
                  IN  /\ shown' = [shown EXCEPT ![c] = identity]
                      /\ cpc' = [cpc EXCEPT ![c] =
                                   IF identity = None THEN "failed"
                                                      ELSE "confirm"]
          BY <3>1 DEF Start
        <4>2. cpc[c] = "idle" BY <3>1 DEF Start
        <4> QED BY <1>1, <4>1, <4>2 DEF ClientsTyped
      <3>2. CASE ~Start(c)
        BY <1>1, <1>4, <3>2 DEF Confirm, TakeLock, GiveUp, DecideNothing, Stop,
                                Fail, ClientsTyped
      <3> QED BY <3>1, <3>2
    <2> QED BY <2>1, <2>2, LedgerOfOne
  <1>5. ASSUME NEW c \in Client, Decide(c)
        PROVE  LedgerInv'
    <2>1. /\ cpc[c] = "decide" /\ cpc' = [cpc EXCEPT ![c] = "write"]
          /\ ledger' = ledger /\ ccmd' = ccmd /\ shown' = shown
      BY <1>5 DEF Decide
    <2>2. PICK m \in Decided(c, ledger) : cmem' = [cmem EXCEPT ![c] = m]
      BY <1>5 DEF Decide
    <2>3. /\ ccmd[c] \in Command
          /\ ccmd[c].do = "trust" => shown[c] \in Observed
      BY <1>1, <2>1, WalkListsEveryDirectory DEF ClientsTyped, ClientTyped
    <2>4. ledger # Corrupt => IsLedger(ledger)
      BY <1>1 DEF HostTyped
    <2>5. installed \in Listing
      BY <1>1 DEF HostTyped
    <2>6. /\ ledger # Corrupt /\ Grows(ledger, m)
          /\ \/ m.records = ledger.records
             \/ \E a \in Observed :
                 /\ m.records = Append(ledger.records,
                                       [id |-> ccmd[c].id, accepted |-> a])
                 /\ \/ ccmd[c].do = "trust" /\ shown[c] = a
                    \/ ccmd[c].do = "rebaseline" /\ ccmd[c].expected = a.src
                    \/ \E i \in DOMAIN ledger.records :
                         ledger.records[i] = [id |-> ccmd[c].id, accepted |-> a]
      BY <2>2, <2>3, <2>4, <2>5, DecidedExtends
    <2>7. Confirmed(ledger, Succeeded, ccmd, shown)
      BY <2>6 DEF LedgerInv
    <2>8. Confirmed(m, Succeeded \cup {c}, ccmd, shown)
      <3>1. CASE m.records = ledger.records
        BY <2>7, <3>1 DEF Confirmed
      <3>2. CASE m.records # ledger.records
        <4>1. PICK a \in Observed :
                 /\ m.records = Append(ledger.records,
                                       [id |-> ccmd[c].id, accepted |-> a])
                 /\ \/ ccmd[c].do = "trust" /\ shown[c] = a
                    \/ ccmd[c].do = "rebaseline" /\ ccmd[c].expected = a.src
                    \/ \E i \in DOMAIN ledger.records :
                         ledger.records[i] = [id |-> ccmd[c].id, accepted |-> a]
          BY <2>6, <3>2
        <4>2. ccmd[c].id \in Id BY <2>3, CommandTyped
        <4> QED BY <2>4, <2>6, <2>7, <4>1, <4>2, ConfirmedAppend
      <3> QED BY <3>1, <3>2
    <2>9. /\ cpc'[c] = "write" /\ cmem'[c] = m
          /\ \A d \in Client \ {c} : cpc'[d] = cpc[d] /\ cmem'[d] = cmem[d]
      BY <1>1, <2>1, <2>2 DEF ClientsTyped
    <2> QED BY <2>1, <2>6, <2>8, <2>9, LedgerOfOne
  <1>6. ASSUME NEW c \in Client, WriteLedger(c)
        PROVE  LedgerInv'
    <2>1. /\ cpc[c] = "write" /\ ledger' = cmem[c]
          /\ cpc' = [cpc EXCEPT ![c] = "done"]
          /\ cmem' = [cmem EXCEPT ![c] = None]
          /\ ccmd' = ccmd /\ shown' = shown
      BY <1>6 DEF WriteLedger
    <2>2. \A d \in Client : cpc'[d] # "write"
      BY <1>1, <2>1 DEF LockInv, ClientsTyped
    <2>3. Succeeded' = Succeeded \cup {c}
      BY <1>1, <2>1 DEF Succeeded, ClientsTyped
    <2>4. Confirmed(cmem[c], Succeeded \cup {c}, ccmd, shown)
      BY <2>1 DEF LedgerInv
    <2>5. Confirmed(ledger', Succeeded', ccmd', shown')
      BY <2>1, <2>3, <2>4
    <2> QED BY <2>2, <2>5 DEF LedgerInv, WritesMore
  <1> QED BY <1>2, <1>3, <1>4, <1>5, <1>6, LedgerKinds

-----------------------------------------------------------------------------
(* The theorems.                                                           *)

LEMMA InvHolds == Spec => []Inv
  <1>1. Init => Inv
    BY Starts
  <1>2. Inv /\ [Next]_vars => Inv'
    <2> SUFFICES ASSUME Inv, [Next]_vars PROVE Inv'
      OBVIOUS
    <2>1. TypeInv' BY TypesStay DEF Inv
    <2>2. ServedInv' BY ServedStays DEF Inv
    <2>3. LedgerInv' BY LedgerStays DEF Inv
    <2>4. RaisedInv' BY RaisedStays DEF Inv
    <2>5. KnownInv' BY <2>1, KnownInvStays DEF Inv
    <2>6. KeptInv' BY <2>1, KeptInvStays DEF Inv
    <2> QED BY <2>1, <2>2, <2>3, <2>4, <2>5, <2>6 DEF Inv
  <1> QED BY <1>1, <1>2, PTL DEF Spec

\* No command that rewrites trust-history.json loses a record or a decision
\* that was on disk, however commands, scans, kills and edits interleave
\* (main.rs 701-710).
THEOREM LedgerGrows == Spec => LedgerOnlyGrows
  <1>1. Inv /\ [Next]_vars =>
          [ ledger # Corrupt /\ ledger' # Corrupt =>
              /\ IsPrefix(ledger.records, ledger'.records)
              /\ ledger.decisions \subseteq ledger'.decisions ]_vars
    <2> SUFFICES ASSUME Inv, [Next]_vars, ledger # Corrupt, ledger' # Corrupt
                 PROVE  Grows(ledger, ledger')
      BY DEF Grows
    <2>1. IsLedger(ledger) BY DEF Inv, TypeInv, HostTyped
    <2>2. CASE ledger' = ledger BY <2>1, <2>2, GrowsItself
    <2>3. ASSUME NEW c \in Client, WriteLedger(c)
          PROVE  Grows(ledger, ledger')
      BY <2>3 DEF WriteLedger, Inv, LedgerInv, WritesMore
    <2>4. TypeInv BY DEF Inv
    <2> QED BY <2>2, <2>3, <2>4, LedgerKinds
            DEF Start, Confirm, TakeLock, GiveUp, Decide, DecideNothing,
                Stop, Fail
  <1> QED BY <1>1, InvHolds, PTL DEF Spec, LedgerOnlyGrows

\* The state is of its type; every baseline that was not there at first is
\* what an operator confirmed; and `status` and the scans, which compare
\* identities by code of their own, agree on what has changed and on what
\* was read in part, while an unscannable directory is the scan's alone to
\* tell (baseline.rs acquire_lock, main.rs 5397-5449, 6226-6252, 3216-3350).
THEOREM AcceptedIsRight == Spec => []AcceptedIsConfirmed
  <1>1. Inv => AcceptedIsConfirmed
    <2> SUFFICES ASSUME Inv PROVE AcceptedIsConfirmed
      OBVIOUS
    <2>1. TypeOK BY TypesAreRight DEF Inv
    <2>2. AcceptedWasConfirmed
      BY DEF AcceptedWasConfirmed, Inv, LedgerInv, Confirmed, Succeeded
    <2>3. ASSUME NEW s \in Scan, scan[s].pc = "report",
                 NEW p \in Id, Copies(scan[s].inv, p) # {}
          PROVE  LET r == scan[s]
                     d == FirstCopy(r.inv, p)
                     status == StatusOf(r.ledger, r.inv, p)
                 IN  /\ DriftKey(r, d) \in r.live => status = "changed"
                     /\ status = "changed" =>
                          \/ DriftKey(r, d) \in r.live
                          \/ Excluded(r, p, "source-drift") \/ d \in Blind(r)
                     /\ status = "partial" =>
                          \/ <<"partial", p>> \in r.live
                          \/ Excluded(r, p, "lost-coverage")
                     /\ status = "unchanged" =>
                          \/ r.inv[d].cover = "full"
                          \/ /\ r.inv[d] = Unscanned
                             /\ <<"coverage", p>> \in r.live
                          \/ Excluded(r, p, "lost-coverage")
      <3> DEFINE r == scan[s]
                 d == FirstCopy(r.inv, p)
                 trusted == Latest(r.ledger, p)
                 status == StatusOf(r.ledger, r.inv, p)
      <3>1. r.inv \in Listing
        BY <2>3 DEF Inv, TypeInv, ScansTyped, ScanTyped, Active
      <3>2. /\ d \in Present(r.inv) /\ IdOf[d] = p /\ r.inv[d] \in Observed
            /\ CurrentIdentity(r.inv, p) = r.inv[d]
        BY <2>3, <3>1, FirstCopyIsOne, IdentityTyped
      <3>3. /\ CoreKeys(r) \subseteq r.live
            /\ \A k \in r.live \ CoreKeys(r) :
                  k[1] \in {"market", "provenance", "analysis"}
        BY <2>3 DEF Inv, RaisedInv, Raised
      <3> HIDE DEF r, d
      <3>4. /\ status = "changed" <=> trusted \notin {None, r.inv[d]}
            /\ status = "partial" => r.inv[d].cover = "partial"
            /\ status = "unchanged" => r.inv[d].cover # "partial"
        BY <3>2 DEF StatusOf
      <3> HIDE DEF status
      <3>5. ASSUME DriftKey(r, d) \in r.live PROVE status = "changed"
        <4>1. DriftKey(r, d) = <<"drift", p, trusted, r.inv[d]>>
          BY <3>2 DEF DriftKey
        <4>2. DriftKey(r, d)[1] = "drift" BY <4>1
        <4>3. DriftKey(r, d) \in CoreKeys(r)
          BY <3>3, <3>5, <4>2
        <4>4. PICK e : /\ DriftKey(r, d) = DriftKey(r, e)
                       /\ Latest(r.ledger, IdOf[e]) \notin {None, r.inv[e]}
          BY <4>1, <4>3 DEF CoreKeys
        <4>5. IdOf[e] = p /\ r.inv[e] = r.inv[d]
          BY <4>1, <4>4 DEF DriftKey
        <4> QED BY <3>4, <4>4, <4>5
      <3>6. ASSUME status = "changed", ~Excluded(r, p, "source-drift"),
                   d \notin Blind(r)
            PROVE  DriftKey(r, d) \in r.live
        BY <3>2, <3>3, <3>4, <3>6 DEF CoreKeys
      <3>7. ASSUME status = "partial", ~Excluded(r, p, "lost-coverage")
            PROVE  <<"partial", p>> \in r.live
        <4>1. r.inv[d].cover = "partial" BY <3>4, <3>7
        <4>2. d \in Present(r.inv) \ Blind(r)
          BY <3>2, <4>1 DEF Blind, Unscanned
        <4>3. <<"partial", p>> \in CoreKeys(r)
          BY <3>2, <3>7, <4>1, <4>2 DEF CoreKeys
        <4> QED BY <3>3, <4>3
      <3>8. ASSUME status = "unchanged", ~Excluded(r, p, "lost-coverage"),
                   r.inv[d].cover # "full"
            PROVE  r.inv[d] = Unscanned /\ <<"coverage", p>> \in r.live
        <4>1. r.inv[d] = Unscanned
          BY <3>2, <3>4, <3>8 DEF Observed, Identity
        <4>2. d \in Blind(r) BY <3>2, <3>8, <4>1 DEF Blind
        <4>3. <<"coverage", p>> \in CoreKeys(r)
          BY <3>2, <4>2 DEF CoreKeys
        <4> QED BY <3>3, <4>1, <4>3
      <3> QED BY <3>5, <3>6, <3>7, <3>8 DEF r, d, status
    <2>4. StatusAgreesWithScan
      BY <2>3 DEF StatusAgreesWithScan
    <2> QED BY <2>1, <2>2, <2>4 DEF AcceptedIsConfirmed
  <1> QED BY <1>1, InvHolds, PTL

\* What a completed --notify scan finds outstanding has been handed to
\* notify-send, and no failed or killed scan, lost state or scan without
\* --notify comes in between; what notify-send makes of it is ignored
\* (main.rs 3140-3200, 3420-3560, 4494-4507).
THEOREM StandingAlertsNotified == Spec => []StandingAlertsWereNotified
  <1>1. Inv => StandingAlertsWereNotified
    <2> SUFFICES ASSUME Inv, NEW j \in DOMAIN served,
                        scan[served[j]].pc = "done",
                        scan[served[j]].mode.notify,
                        NEW k \in scan[served[j]].live
                 PROVE  \E i \in 1..j :
                          /\ k \in scan[served[i]].sent
                          /\ \A m \in (i + 1)..j :
                                /\ ~Retired(served[m], k)
                                /\ ~scan[served[m]].reset
      BY DEF StandingAlertsWereNotified
    <2>1. /\ DOMAIN served = 1..Len(served) /\ Len(served) \in Nat
          /\ \A i \in 1..Len(served) : History[i] = scan[served[i]]
      BY HistoryTyped DEF Inv
    <2>2. Known(History, k, j)
      BY <2>1 DEF Inv, KnownInv
    <2>3. PICK i \in 1..j :
            /\ k \in History[i].sent
            /\ \A m \in (i + 1)..j : ~Drops(History[m], k) /\ ~History[m].reset
      BY <2>2 DEF Known
    <2>4. i \in 1..Len(served) /\ \A m \in (i + 1)..j : m \in 1..Len(served)
      BY <2>1
    <2> QED BY <2>1, <2>3, <2>4 DEF Drops, Retired
  <1> QED BY <1>1, InvHolds, PTL

\* An alert is notified twice only if the first scan did not live to write
\* it down, the alert was retired in between, or the state was lost
\* (README.md:54 "Alerts deduplicate").
THEOREM AlertsDeduplicate == Spec => []NotifiedOnce
  <1>1. Inv => NotifiedOnce
    <2> SUFFICES ASSUME Inv, NEW i \in DOMAIN served, NEW j \in DOMAIN served,
                        i < j,
                        NEW k \in scan[served[i]].sent \cap scan[served[j]].sent
                 PROVE  \/ ~scan[served[i]].wrote
                        \/ \E m \in (i + 1)..(j - 1) : Retired(served[m], k)
                        \/ \E m \in (i + 1)..j : scan[served[m]].reset
      BY DEF NotifiedOnce
    <2>1. /\ DOMAIN served = 1..Len(served) /\ Len(served) \in Nat
          /\ \A m \in 1..Len(served) : History[m] = scan[served[m]]
      BY HistoryTyped DEF Inv
    <2>2. Forgotten(History, k, i, j - 1, j)
      BY <2>1 DEF Inv, KeptInv
    <2>3. /\ i \in 1..Len(served) /\ j \in 1..Len(served)
          /\ \A m \in (i + 1)..(j - 1) : m \in 1..Len(served)
          /\ \A m \in (i + 1)..j : m \in 1..Len(served)
      BY <2>1
    <2> QED BY <2>1, <2>2, <2>3 DEF Forgotten, Drops, Retired
  <1> QED BY <1>1, InvHolds, PTL
=============================================================================
