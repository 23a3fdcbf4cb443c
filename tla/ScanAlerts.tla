----------------------------- MODULE ScanAlerts -----------------------------
(***************************************************************************)
(* `omasafe-cli scan [--notify] [--only-new] [--include-analysis]`: the    *)
(* alerts a scan raises, which of them it notifies, and what it remembers  *)
(* of them in scan-state.json for the next scan.  Composed with the trust  *)
(* ledger, whose lock a scan holds from its loading of the ledger to its   *)
(* end, and with everybody who changes the plugin root or upgrades the     *)
(* analyzer.  The snapshot cache a scan also writes is ScanCache.          *)
(*                                                                         *)
(* Simplifications, each one named:                                        *)
(*  - alerts of one kind that differ in nothing but a constant text (bar   *)
(*    replacement, bar conflict, inventory coverage) are ambient alerts;   *)
(*  - the alerts a scan raises between two of its reads are raised in one  *)
(*    step; a kill inside it leaves any part of them notified;             *)
(*  - to notify is to hand an alert to notify-send: a notify-send that     *)
(*    fails or does not start is ignored, its alert is remembered all the  *)
(*    same and nothing depends on it, so what the user gets to see is not  *)
(*    modelled;                                                            *)
(*  - scan-state.lock is taken under the ledger's lock only, by scans;     *)
(*  - severities, messages and the order of the report are left out;       *)
(*  - scans are numbered in the order they are started in;                 *)
(*  - both state files are loaded in one step, under both locks; a rename  *)
(*    of a corrupt ledger that fails is a scan that is aborted.            *)
(***************************************************************************)
EXTENDS TrustLedger

CONSTANTS Scan,        \* scans, 1..n, started in this order
          Mode,        \* the options a scan may have
          Ambient,     \* ambient alerts
          Catalog,     \* states of the cached marketplace catalog
          Policy,      \* analyzer policies, oldest first
          Analysis     \* [Source \cup {None} -> [Policy -> results]]

\* A result is what an analysis observed: [fingerprint, rules, caps].
Results == UNION {Analysis[x][q] :
                     x \in Source \cup {None}, q \in DOMAIN Policy}
Event   == [src : Source \cup {None}, policy : DOMAIN Policy,
            result : Results, of : Source \cup {None}]

\* A flock tells processes apart.
ASSUME ProcessesDiffer ==
    /\ Client \cap Scan = {}
    /\ Free \notin Client \cup Scan

ASSUME ScansAreTyped ==
    /\ Scan = 1..Cardinality(Scan)
    /\ Mode \subseteq [notify : BOOLEAN, analysis : BOOLEAN,
                       onlyNew : BOOLEAN]
    /\ Catalog \subseteq {None, Corrupt}
                 \cup [stale : BOOLEAN, conflicts : SUBSET Id]
    /\ 1 \in DOMAIN Policy

VARIABLES
    ambient,   \* ambient alerts that hold now
    catalog,   \* the cached catalog
    policy,    \* the installed analyzer's policy
    state,     \* scan-state.json: alerts and events, or Corrupt
    scan,      \* each scan: where it stands and what it knows
    served     \* history: the scans that got the lock, in order

scanVars == <<ambient, catalog, policy, state, scan, served>>
vars == <<ledgerVars, scanVars>>

NoState == [alerts |-> {}, events |-> [p \in Id |-> None]]

Unstarted ==
    [pc |-> "idle", mode |-> None, inv |-> None, ambient |-> {},
     policy |-> 0, ledger |-> None, state |-> None, lost |-> FALSE,
     reset |-> FALSE, live |-> {}, fresh |-> {}, sent |-> {},
     dirty |-> FALSE, wrote |-> FALSE, compared |-> {},
     findings |-> FALSE]

-----------------------------------------------------------------------------
(* What a scan raises.                                                     *)

Excluded(r, p, scope) == Decides(r.ledger, p, "exclude", scope)

\* Directories it cannot scan: their other checks are skipped.
Blind(r) == {d \in Present(r.inv) :
                r.inv[d] = Unscanned /\ ~Excluded(r, IdOf[d], "lost-coverage")}

DriftKey(r, d) ==
    <<"drift", IdOf[d], Latest(r.ledger, IdOf[d]), r.inv[d]>>

CoreKeys(r) ==
    LET seen == Present(r.inv) \ Blind(r)
        trusted == {r.ledger.records[i].id : i \in DOMAIN r.ledger.records}
    IN  (IF r.lost THEN {<<"history">>} ELSE {})
        \cup {<<"coverage", IdOf[d]>> : d \in Blind(r)}
        \cup {<<"partial", IdOf[d]>> : d \in {e \in seen :
                  /\ r.inv[e].cover = "partial"
                  /\ ~Excluded(r, IdOf[e], "lost-coverage")}}
        \cup {DriftKey(r, d) : d \in {e \in seen :
                  /\ Latest(r.ledger, IdOf[e]) \notin {None, r.inv[e]}
                  /\ ~Excluded(r, IdOf[e], "source-drift")}}
        \cup {<<"missing", p>> : p \in {q \in trusted \ r.ledger.revoked :
                  /\ Copies(r.inv, q) = {}
                  /\ ~Excluded(r, q, "missing-plugin")}}
        \cup {<<"ambient", a>> : a \in r.ambient}

MarketKeys(r, c) ==
    IF c = None THEN {}
    ELSE (IF c.stale THEN {<<"market">>} ELSE {})
         \cup {<<"provenance", IdOf[d]>> :
                 d \in {e \in Present(r.inv) : IdOf[e] \in c.conflicts}}

\* Mutant: only --only-new notifies.
EmitOnlyNew(r, keys) ==
    LET new == keys \ r.state.alerts
        told == IF r.mode.notify /\ r.mode.onlyNew THEN new ELSE {}
    IN  [r EXCEPT !.live = @ \cup keys,
                  !.fresh = @ \cup new,
                  !.sent = @ \cup told,
                  !.state.alerts = @ \cup told]

\* Mutant: --notify notifies whatever is outstanding.
EmitAlways(r, keys) ==
    LET told == IF r.mode.notify THEN keys ELSE {}
    IN  [r EXCEPT !.live = @ \cup keys,
                  !.fresh = @ \cup (keys \ r.state.alerts),
                  !.sent = @ \cup told,
                  !.state.alerts = @ \cup told]

\* Raise alerts: only a new one counts, and only --notify hands it to
\* notify-send and remembers that, whatever comes of it.
Emit(r, keys) ==
    LET new == keys \ r.state.alerts
        told == IF r.mode.notify THEN new ELSE {}
    IN  [r EXCEPT !.live = @ \cup keys,
                  !.fresh = @ \cup new,
                  !.sent = @ \cup told,
                  !.state.alerts = @ \cup told]

-----------------------------------------------------------------------------
(* The opt-in analysis of one plugin against its stored event.             *)

Class(prev, e) ==
    CASE prev = None -> "baseline"
      [] prev # None /\ prev.src # e.src -> "drift-refresh"
      [] prev # None /\ prev.src = e.src /\ prev.policy # e.policy ->
            "policy-update"
      [] prev # None /\ prev.src = e.src /\ prev.policy = e.policy
            /\ prev.result.fingerprint # e.result.fingerprint ->
            "instability"
      [] OTHER -> "clean"

\* Growth is looked for whenever the source is the one of the last event.
GrowthKeys(p, prev, e) ==
    IF Class(prev, e) \in {"baseline", "drift-refresh"} THEN {}
    ELSE LET caps == e.result.caps \ prev.result.caps
             rules == e.result.rules \ prev.result.rules
         IN  {<<"analysis", p, "new-capability", c>> :
                c \in {caps} \ {{}}}
             \cup {<<"analysis", p, "finding-regression", x>> : x \in rules}

ClassKeys(p, prev, e) ==
    CASE Class(prev, e) = "policy-update" ->
            {<<"analysis", p, "analyzer-policy-update">>}
            \cup IF /\ prev.result.fingerprint = e.result.fingerprint
                    /\ prev.result.rules = e.result.rules
                 THEN {} ELSE {<<"analysis", p, "analyzer-improvement">>}
      [] Class(prev, e) = "instability" ->
            {<<"analysis", p, "fingerprint-instability">>}
      [] OTHER -> {}

\* The source identity is the collected one, the content the present one.
NewEvent(r, p, result) ==
    LET d == FirstCopy(r.inv, p)
    IN  [src |-> r.inv[d].src, policy |-> r.policy, result |-> result,
         of |-> installed[d].src]

\* Plugins of the inventory, and what their first directory now yields.
Analysed(r) == {p \in Id : Copies(r.inv, p) # {}}
Outcomes(r, p) ==
    LET d == FirstCopy(r.inv, p)
    IN  CASE installed[d] = Gone -> {None}
          [] installed[d] = Unscanned /\ installed[d] # Gone ->
                {None} \cup Analysis[None][r.policy]
          [] installed[d] \notin {Gone, Unscanned} ->
                Analysis[installed[d].src][r.policy]

AnalysisKeys(r, out) ==
    {<<"analysis", p, "duplicate-id">> :
        p \in {q \in Analysed(r) : Cardinality(Copies(r.inv, q)) > 1}}
    \cup {<<"analysis", p, "unavailable">> :
            p \in {q \in Analysed(r) : out[q] = None}}
    \cup UNION {LET prev == r.state.events[p]
                    e == NewEvent(r, p, out[p])
                IN  GrowthKeys(p, prev, e) \cup ClassKeys(p, prev, e) :
                p \in {q \in Analysed(r) : out[q] # None}}

\* The comparisons that raised something: <<content then, content now>>.
Compared(r, out) ==
    {<<r.state.events[p].of, NewEvent(r, p, out[p]).of>> :
        p \in {q \in Analysed(r) :
                /\ out[q] # None /\ r.state.events[q] # None
                /\ \/ GrowthKeys(q, r.state.events[q],
                                 NewEvent(r, q, out[q])) # {}
                   \/ Class(r.state.events[q], NewEvent(r, q, out[q]))
                        = "instability"}}

Remember(r, out) ==
    [r EXCEPT !.state.events = [p \in Id |->
                  IF p \in Analysed(r) /\ out[p] # None
                  THEN NewEvent(r, p, out[p]) ELSE @[p]],
              !.dirty = \E p \in Analysed(r) : out[p] # None,
              !.compared = Compared(r, out)]

\* Keys that are no longer live are retired; those of the analysis only by
\* a scan that ran it.
Retain(r) ==
    [r EXCEPT !.state.alerts = {k \in @ :
        IF k[1] = "analysis" THEN r.mode.analysis => k \in r.live
                             ELSE k \in r.live}]
-----------------------------------------------------------------------------
(* A scan.                                                                 *)

At(s, p) == scan[s].pc = p
Set(s, r) == scan' = [scan EXCEPT ![s] = r]
Move(s, p) == Set(s, [scan[s] EXCEPT !.pc = p])

\* What is kept of a scan that has ended: what the history is about.
Ended(r, outcome) ==
    [r EXCEPT !.pc = outcome, !.inv = None, !.ambient = {}, !.policy = 0,
              !.ledger = None, !.state = None, !.fresh = {}, !.dirty = FALSE,
              !.lost = FALSE]

Release(s) == holder' = IF holder = s THEN Free ELSE holder

\* An error return, or a kill: the flocks go with the process.
Abort(s, r) ==
    /\ Set(s, Ended(r, "aborted"))
    /\ Release(s)
    /\ UNCHANGED <<installed, edits, damage, clientVars,
                   ambient, catalog, policy, served>>

\* The inventory is collected before any lock is taken.
BeginScan(s) ==
    /\ At(s, "idle")
    /\ \A t \in Scan : t < s => ~At(t, "idle")
    /\ \E m \in Mode :
        Set(s, [scan[s] EXCEPT !.pc = "lock", !.mode = m,
                               !.inv = installed, !.ambient = ambient,
                               !.policy = policy])
    /\ UNCHANGED <<ledgerVars, ambient, catalog, policy, state, served>>

LockScan(s) ==
    /\ At(s, "lock") /\ holder = Free
    /\ holder' = s
    /\ served' = Append(served, s)
    /\ Move(s, "load")
    /\ UNCHANGED <<installed, edits, ledger, damage, clientVars,
                   ambient, catalog, policy, state>>

LockBusyScan(s) ==
    /\ At(s, "lock") /\ holder # Free
    /\ Abort(s, scan[s])
    /\ UNCHANGED <<ledger, state>>

\* A corrupt ledger is moved aside and the scan goes on without baselines;
\* a corrupt state is moved aside, if that works, and forgotten.
Load(s) ==
    /\ At(s, "load")
    /\ LET lost == ledger = Corrupt
           reset == state = Corrupt
       IN  /\ ledger' = IF lost THEN Empty ELSE ledger
           /\ state' \in IF reset THEN {NoState, Corrupt} ELSE {state}
           /\ Set(s, [scan[s] EXCEPT
                        !.pc = "raise", !.lost = lost, !.reset = reset,
                        !.ledger = ledger',
                        !.state = IF reset THEN NoState ELSE state])
    /\ UNCHANGED <<installed, edits, damage, holder, clientVars,
                   ambient, catalog, policy, served>>

RaiseCore(s) ==
    /\ At(s, "raise")
    /\ Set(s, [Emit(scan[s], CoreKeys(scan[s])) EXCEPT !.pc = "market"])
    /\ UNCHANGED <<ledgerVars, ambient, catalog, policy, state, served>>

\* The catalog is not looked at when the cache was unavailable.
RaiseMarket(s) ==
    /\ At(s, "market")
    /\ \E c \in {None, catalog} \ {Corrupt} :
        Set(s, [Emit(scan[s], MarketKeys(scan[s], c)) EXCEPT
                  !.pc = IF scan[s].mode.analysis THEN "analyze" ELSE "write"])
    /\ UNCHANGED <<ledgerVars, ambient, catalog, policy, state, served>>

\* A catalog that does not load ends the scan: what it notified so far it
\* has not written down.
MarketFails(s) ==
    /\ At(s, "market") /\ catalog = Corrupt
    /\ Abort(s, scan[s])
    /\ UNCHANGED <<ledger, state>>

Analyze(s) ==
    /\ At(s, "analyze")
    /\ \E out \in [Id -> Results \cup {None}] :
        /\ \A p \in Id : IF p \in Analysed(scan[s])
                          THEN out[p] \in Outcomes(scan[s], p)
                          ELSE out[p] = None
        /\ Set(s, [Remember(Emit(scan[s], AnalysisKeys(scan[s], out)), out)
                     EXCEPT !.pc = "write"])
    /\ UNCHANGED <<ledgerVars, ambient, catalog, policy, state, served>>

WriteState(s) ==
    /\ At(s, "write")
    /\ LET r == Retain(scan[s])
           writes == r.mode.notify \/ r.dirty
       IN  /\ state' = IF writes THEN r.state ELSE state
           /\ Set(s, [r EXCEPT !.pc = "report", !.wrote = writes])
    /\ UNCHANGED <<ledgerVars, ambient, catalog, policy, served>>

WriteFails(s) ==
    /\ At(s, "write") /\ (scan[s].mode.notify \/ scan[s].dirty)
    /\ Abort(s, scan[s])
    /\ UNCHANGED <<ledger, state>>

Report(s) ==
    /\ At(s, "report")
    /\ LET r == scan[s]
           found == IF r.mode.onlyNew THEN r.fresh ELSE r.live
       IN  Set(s, Ended([r EXCEPT !.findings = found # {}], "done"))
    /\ Release(s)
    /\ UNCHANGED <<installed, edits, ledger, damage, clientVars,
                   ambient, catalog, policy, state, served>>

\* Killed while it raises alerts: some of them have been notified.
KillScan(s) ==
    /\ scan[s].pc \in {"load", "raise", "market", "analyze", "write", "report"}
    /\ damage < MaxDamage
    /\ \E partly \in SUBSET
            IF scan[s].mode.notify /\ At(s, "raise")
            THEN CoreKeys(scan[s]) \ scan[s].state.alerts ELSE {} :
        Set(s, Ended([scan[s] EXCEPT !.sent = @ \cup partly], "aborted"))
    /\ damage' = damage + 1
    /\ Release(s)
    /\ UNCHANGED <<installed, edits, ledger, clientVars,
                   ambient, catalog, policy, state, served>>

-----------------------------------------------------------------------------
(* Everybody else.                                                         *)

Elsewhere ==
    /\ edits < MaxEdits
    /\ edits' = edits + 1
    /\ \/ /\ \E a \in SUBSET Ambient : ambient' = a
          /\ UNCHANGED <<catalog, policy>>
       \/ /\ catalog' \in Catalog
          /\ UNCHANGED <<ambient, policy>>
       \/ /\ policy + 1 \in DOMAIN Policy /\ policy' = policy + 1
          /\ UNCHANGED <<ambient, catalog>>
    /\ UNCHANGED <<installed, ledger, damage, holder, clientVars,
                   state, scan, served>>

CorruptState ==
    /\ damage < MaxDamage
    /\ damage' = damage + 1
    /\ state' = Corrupt
    /\ UNCHANGED <<installed, edits, ledger, holder, clientVars,
                   ambient, catalog, policy, scan, served>>

Init ==
    /\ LedgerInit
    /\ ambient = {} /\ catalog \in {None} \cap Catalog /\ policy = 1
    /\ state = NoState
    /\ scan = [s \in Scan |-> Unstarted]
    /\ served = <<>>

ScanStep(s) ==
    \/ BeginScan(s) \/ LockScan(s) \/ LockBusyScan(s)
    \/ Load(s) \/ RaiseCore(s) \/ RaiseMarket(s) \/ MarketFails(s) \/ Analyze(s)
    \/ WriteState(s) \/ WriteFails(s) \/ Report(s) \/ KillScan(s)

\* Nothing has to be started.
Finished ==
    /\ \A s \in Scan : scan[s].pc \in {"idle", "done", "aborted"}
    /\ \A c \in Client : cpc[c] \in {"idle", "done", "failed"}
    /\ UNCHANGED vars

Next ==
    \/ \E s \in Scan : ScanStep(s)
    \/ LedgerNext /\ UNCHANGED scanVars
    \/ Elsewhere \/ CorruptState \/ Finished

Spec == Init /\ [][Next]_vars

-----------------------------------------------------------------------------
(* Properties.                                                             *)

Alert == {"history", "coverage", "partial", "drift", "missing", "ambient",
          "market", "provenance", "analysis"}
IsLedger(l) ==
    /\ DOMAIN l = DOMAIN Empty
    /\ l.records \in Seq(Record) /\ l.revoked \subseteq Id
    /\ \A t \in l.decisions : t[1] \in Id
IsState(t) ==
    /\ \A k \in t.alerts : k[1] \in Alert
    /\ t.events \in [Id -> Event \cup {None}]

\* Every variable keeps its type; whoever is past its lock and has not
\* ended holds the flock, and it alone (baseline.rs acquire_lock).
TypeOK ==
    /\ installed \in [Dir -> Observed \cup {Gone}]
    /\ edits \in 0..MaxEdits /\ damage \in 0..MaxDamage
    /\ ledger = Corrupt \/ IsLedger(ledger)
    /\ state = Corrupt \/ IsState(state)
    /\ ambient \subseteq Ambient /\ catalog \in Catalog
    /\ policy \in DOMAIN Policy
    /\ \A c \in Client :
        /\ cpc[c] \in {"idle", "confirm", "lock", "decide", "write",
                       "done", "failed"}
        /\ ccmd[c] \in May[c] \cup {None}
        /\ shown[c] \in Observed \cup {None}
        /\ cmem[c] = None \/ IsLedger(cmem[c])
        /\ cpc[c] \in {"decide", "write"} => holder = c
    /\ \A s \in Scan :
        /\ \A k \in scan[s].live \cup scan[s].sent : k[1] \in Alert
        /\ scan[s].state = None \/ IsState(scan[s].state)
        /\ scan[s].pc \notin {"idle", "lock", "done", "aborted"}
                => holder = s
    /\ served \in Seq(Scan)

\* Only additions: no record and no decision that was once on disk is lost
\* to another command's rewrite of the whole file; only a file found
\* corrupt is started again (trust-history.json, main.rs 701-710).
LedgerOnlyGrows ==
    [][ ledger # Corrupt /\ ledger' # Corrupt =>
          /\ IsPrefix(ledger.records, ledger'.records)
          /\ ledger.decisions \subseteq ledger'.decisions ]_vars

\* Every baseline that is not an initial one is what an operator confirmed:
\* the identity `trust` displayed, the source `rebaseline` names (none, of
\* a directory that cannot be scanned, when it names none), or an earlier
\* record of the same plugin, whatever was installed meanwhile.
AcceptedWasConfirmed ==
    ledger # Corrupt => \A i \in DOMAIN ledger.records :
        LET r == ledger.records[i]
            command(c) == cpc[c] = "done" /\ ccmd[c].id = r.id
        IN  \/ r.accepted = CurrentIdentity(Initial, r.id)
            \/ \E c \in Client : command(c) /\ ccmd[c].do = "trust"
                                 /\ shown[c] = r.accepted
            \/ \E c \in Client : command(c) /\ ccmd[c].do = "rebaseline"
                                 /\ ccmd[c].expected = r.accepted.src
            \/ \E j \in 1..(i - 1) : ledger.records[j] = r

\* What status says of a plugin and what a scan of the same inventory and
\* ledger alerts about agree, whatever was excluded or recovered: "changed"
\* is a drift alert, "partial" one about partial coverage, and "unchanged"
\* is neither.  That a directory could not be scanned only the scan tells:
\* a baseline taken of one that could not be is "unchanged" for status
\* (main.rs:6226-6252 and 3216-3350 judge separately).
StatusAgreesWithScan ==
    \A s \in Scan : scan[s].pc = "report" =>
        LET r == scan[s] IN
        \A p \in {q \in Id : Copies(r.inv, q) # {}} :
            LET d == FirstCopy(r.inv, p)
                status == StatusOf(r.ledger, r.inv, p)
            IN  /\ DriftKey(r, d) \in r.live => status = "changed"
                /\ status = "changed" =>
                      \/ DriftKey(r, d) \in r.live
                      \/ Excluded(r, p, "source-drift") \/ d \in Blind(r)
                /\ status = "partial" =>
                      \/ <<"partial", p>> \in r.live
                      \/ Excluded(r, p, "lost-coverage")
                /\ status = "unchanged" =>
                      \/ r.inv[d].cover = "full"
                      \/ r.inv[d] = Unscanned /\ <<"coverage", p>> \in r.live
                      \/ Excluded(r, p, "lost-coverage")

\* The state is of its type, AcceptedWasConfirmed, and status and the scans
\* judge what was accepted alike.
AcceptedIsConfirmed ==
    TypeOK /\ AcceptedWasConfirmed /\ StatusAgreesWithScan

\* Scan t has retired key k: it wrote the state without k being live.
Retired(t, k) ==
    /\ scan[t].wrote /\ k \notin scan[t].live
    /\ k[1] = "analysis" => scan[t].mode.analysis

\* What a completed --notify scan finds outstanding has been handed to
\* notify-send, by it or by an earlier scan, and since then every scan that
\* could retire the alert has still seen it: no failing or killed scan, no
\* lost state and no scan without --notify keeps a standing alert from
\* notify-send.  A notify-send that fails does: nothing hands it the alert
\* again (main.rs:4494-4507).
StandingAlertsWereNotified ==
    \A j \in DOMAIN served :
        scan[served[j]].pc = "done" /\ scan[served[j]].mode.notify =>
            \A k \in scan[served[j]].live : \E i \in 1..j :
                /\ k \in scan[served[i]].sent
                /\ \A m \in (i + 1)..j : /\ ~Retired(served[m], k)
                                       /\ ~scan[served[m]].reset

\* An alert is handed to notify-send twice only if the first scan never
\* wrote it down (killed or failed), the alert was retired in between, or
\* the state was lost: README.md:54 "Alerts deduplicate".
NotifiedOnce ==
    \A i, j \in DOMAIN served : i < j =>
        \A k \in scan[served[i]].sent \cap scan[served[j]].sent :
            \/ ~scan[served[i]].wrote
            \/ \E m \in (i + 1)..(j - 1) : Retired(served[m], k)
            \/ \E m \in (i + 1)..j : scan[served[m]].reset

\* A growth or instability alert compares two analyses of one content:
\* main.rs:3593-3595 "drift rounds refresh silently and are NEVER eligible
\* for growth alerts".
DriftRoundsRaiseNoGrowth ==
    \A s \in Scan : \A t \in scan[s].compared : t[1] = t[2]
=============================================================================
