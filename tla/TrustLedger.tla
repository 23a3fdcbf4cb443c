---------------------------- MODULE TrustLedger ----------------------------
(***************************************************************************)
(* trust-history.json and the commands that write it: `plugins trust` and  *)
(* `plugins review --action rebaseline | restore | untrust | acknowledge | *)
(* exclude`.  Each element of Client is one invocation.                    *)
(*                                                                         *)
(* A command reads, changes and replaces the whole file under a flock that *)
(* it gives up on after half a second.  `trust` shows the operator an      *)
(* identity before it takes the lock; `rebaseline` collects one under the  *)
(* lock and compares it with the values the operator names, and none named *)
(* matches an identity that has none.                                      *)
(*                                                                         *)
(* Simplifications, each one named:                                        *)
(*  - an identity is a source (repository, HEAD, tree, digest, number of   *)
(*    files) and the limitations of its collection, full or partial;       *)
(*  - a directory that cannot be scanned has an identity without source    *)
(*    and without limitations: its reason is not one of them;              *)
(*  - decisions are a set: every reader asks only whether there is one;    *)
(*  - creation times, notes and reasons are left out.                      *)
(***************************************************************************)
EXTENDS Naturals, SequencesExt

CONSTANTS Dir,        \* directories under the plugin root
          Walk,       \* the order the inventory lists them in
          IdOf,       \* the plugin id of a directory
          Source,     \* contents a directory may have
          Initial,    \* what is installed at first
          Arriving,   \* what may be installed later, by directory
          Client,     \* invocations of trust and review
          May,        \* the commands an invocation may be
          None, Gone, \* nothing; a directory that is not there
          Corrupt,    \* a file that does not parse
          Free,       \* nobody holds the lock
          MaxEdits,   \* changes of the plugin root by others
          MaxDamage   \* corruptions of a state file

Id       == {IdOf[d] : d \in Dir}
Identity == [src : Source, cover : {"full", "partial"}]
Unscanned == [src |-> None, cover |-> "none"]
Observed == Identity \cup {Unscanned}
Scope    == {"source-drift", "missing-plugin", "lost-coverage"}
Command  ==
    [do : {"trust"}, id : Id]
        \cup [do : {"rebaseline"}, id : Id, expected : Source \cup {None}]
        \cup [do : {"restore"}, id : Id, index : Nat]
        \cup [do : {"untrust"}, id : Id]
        \cup [do : {"acknowledge", "exclude"}, id : Id, scope : Scope]

ASSUME WalkListsEveryDirectory ==
    /\ Walk \in Seq(Dir) /\ Dir = {Walk[i] : i \in DOMAIN Walk}
    /\ Initial \in [Dir -> Observed \cup {Gone}]
    /\ Arriving \in [Dir -> SUBSET (Observed \cup {Gone})]
    /\ May \in [Client -> SUBSET Command]
    /\ MaxEdits \in Nat /\ MaxDamage \in Nat

VARIABLES
    installed,  \* the plugin root
    edits,      \* changes of it so far
    ledger,     \* trust-history.json: a ledger or Corrupt
    damage,     \* corruptions so far
    holder,     \* who holds the flock of trust-history.json
    cpc,        \* where each client stands
    ccmd,       \* its command
    shown,      \* the identity `trust` showed its operator
    cmem        \* the ledger it is about to write

ledgerVars == <<installed, edits, ledger, damage, holder,
                cpc, ccmd, shown, cmem>>
clientVars == <<cpc, ccmd, shown, cmem>>

Record  == [id : Id, accepted : Observed]
Ledger  == [records : Seq(Record), revoked : SUBSET Id,
            decisions : Id \X {"acknowledge", "exclude", "untrust"}
                           \X (Scope \cup {"trust-baseline"})]
Empty   == [records |-> <<>>, revoked |-> {}, decisions |-> {}]

-----------------------------------------------------------------------------
(* The ledger's own operations.                                            *)

Accept(l, id, identity) ==
    [records   |-> Append(l.records, [id |-> id, accepted |-> identity]),
     revoked   |-> l.revoked \ {id},
     decisions |-> l.decisions]

Revoke(l, id) == [l EXCEPT !.revoked = @ \cup {id}]

\* The places of a plugin's records in the file.
RecordsOf(l, id) == {i \in DOMAIN l.records : l.records[i].id = id}

\* The baseline: the last record, unless the plugin is revoked.
Latest(l, id) ==
    IF id \in l.revoked \/ RecordsOf(l, id) = {}
    THEN None
    ELSE l.records[Max(RecordsOf(l, id))].accepted

\* The n-th record of a plugin: its place, if there is one.
RecordNumber(l, id, n) ==
    {i \in RecordsOf(l, id) :
        Cardinality({j \in RecordsOf(l, id) : j <= i}) = n}

Decides(l, id, action, scope) == <<id, action, scope>> \in l.decisions

\* The inventory's records for an id, by their place in the walk, and the
\* first of them.
Present(inv) == {d \in Dir : inv[d] # Gone}
Copies(inv, id) ==
    {i \in DOMAIN Walk : IdOf[Walk[i]] = id /\ inv[Walk[i]] # Gone}
FirstCopy(inv, id) == Walk[Min(Copies(inv, id))]
CurrentIdentity(inv, id) ==
    IF Copies(inv, id) = {} THEN None ELSE inv[FirstCopy(inv, id)]

\* status: what the first copy of a plugin is to its baseline.  It asks
\* for limitations, never whether the directory could be scanned.
StatusOf(l, inv, id) ==
    LET trusted == Latest(l, id)
        current == CurrentIdentity(inv, id)
    IN  CASE trusted = None -> "untrusted"
          [] trusted # None /\ trusted = current
             /\ current.cover # "partial" -> "unchanged"
          [] trusted # None /\ trusted = current
             /\ current.cover = "partial" -> "partial"
          [] OTHER -> "changed"

-----------------------------------------------------------------------------
(* Clients.                                                                *)

Start(c) ==
    /\ cpc[c] = "idle"
    /\ \E k \in May[c] :
        /\ ccmd' = [ccmd EXCEPT ![c] = k]
        /\ IF k.do # "trust"
           THEN /\ cpc' = [cpc EXCEPT ![c] = "lock"]
                /\ UNCHANGED shown
           ELSE LET identity == CurrentIdentity(installed, k.id)
                IN  /\ shown' = [shown EXCEPT ![c] = identity]
                    /\ cpc' = [cpc EXCEPT ![c] =
                                 IF identity = None THEN "failed"
                                                    ELSE "confirm"]
    /\ UNCHANGED <<installed, edits, ledger, damage, holder, cmem>>

\* The operator types trust, or the expected values match what was shown.
Confirm(c) ==
    /\ cpc[c] = "confirm"
    /\ \E answer \in {"lock", "failed"} : cpc' = [cpc EXCEPT ![c] = answer]
    /\ UNCHANGED <<installed, edits, ledger, damage, holder,
                   ccmd, shown, cmem>>

\* Mutant: the flock is shared.
TakeLockShared(c) ==
    /\ cpc[c] = "lock"
    /\ holder' = c
    /\ cpc' = [cpc EXCEPT ![c] = "decide"]
    /\ UNCHANGED <<installed, edits, ledger, damage, ccmd, shown, cmem>>

TakeLock(c) ==
    /\ cpc[c] = "lock" /\ holder = Free
    /\ holder' = c
    /\ cpc' = [cpc EXCEPT ![c] = "decide"]
    /\ UNCHANGED <<installed, edits, ledger, damage, ccmd, shown, cmem>>

GiveUp(c) ==
    /\ cpc[c] = "lock" /\ holder # Free
    /\ cpc' = [cpc EXCEPT ![c] = "failed"]
    /\ UNCHANGED <<installed, edits, ledger, damage, holder,
                   ccmd, shown, cmem>>

Fail(c) ==
    /\ cpc' = [cpc EXCEPT ![c] = "failed"]
    /\ holder' = IF holder = c THEN Free ELSE holder
    /\ UNCHANGED <<installed, edits, ledger, damage, ccmd, shown, cmem>>

\* What the command makes of the ledger it loads: a set, empty when the
\* ledger does not parse or the command ends with another error.
\* Mutant: trust appends what is installed by the time it has the lock.
DecidedAnew(c, l) ==
    LET k == ccmd[c]
        now == CurrentIdentity(installed, k.id)
    IN  IF l # Corrupt /\ k.do \in {"trust", "rebaseline"} /\ now # None
        THEN {Accept(l, k.id, now)} ELSE {}

Decided(c, l) ==
    LET k == ccmd[c]
        now == CurrentIdentity(installed, k.id)
        note(action, scope) ==
            [l EXCEPT !.decisions = @ \cup {<<k.id, action, scope>>}]
    IN  CASE l = Corrupt -> {}
          [] l # Corrupt /\ k.do = "trust" -> {Accept(l, k.id, shown[c])}
          [] l # Corrupt /\ k.do = "rebaseline" ->
                IF now # None /\ now.src = k.expected
                THEN {Accept(l, k.id, now)} ELSE {}
          [] l # Corrupt /\ k.do = "restore" ->
                {Accept(l, k.id, l.records[i].accepted) :
                    i \in RecordNumber(l, k.id, k.index)}
          [] l # Corrupt /\ k.do = "untrust" ->
                {Revoke(note("untrust", "trust-baseline"), k.id)}
          [] OTHER -> {note(k.do, k.scope)}

Decide(c) ==
    /\ cpc[c] = "decide"
    /\ \E l \in Decided(c, ledger) : cmem' = [cmem EXCEPT ![c] = l]
    /\ cpc' = [cpc EXCEPT ![c] = "write"]
    /\ UNCHANGED <<installed, edits, ledger, damage, holder, ccmd, shown>>

DecideNothing(c) ==
    /\ cpc[c] = "decide"
    /\ Decided(c, ledger) = {}
    /\ Fail(c)

WriteLedger(c) ==
    /\ cpc[c] = "write"
    /\ ledger' = cmem[c]
    /\ cpc' = [cpc EXCEPT ![c] = "done"]
    /\ cmem' = [cmem EXCEPT ![c] = None]
    /\ holder' = IF holder = c THEN Free ELSE holder
    /\ UNCHANGED <<installed, edits, damage, ccmd, shown>>

\* Killed, or the replace failed: the rename never happened.
Stop(c) ==
    /\ cpc[c] \in {"confirm", "lock", "decide", "write"}
    /\ Fail(c)

-----------------------------------------------------------------------------
(* Everybody else: updates, reinstallations, the operator's editor.        *)

Edit ==
    /\ edits < MaxEdits
    /\ edits' = edits + 1
    /\ \E d \in Dir : \E o \in Arriving[d] :
        installed' = [installed EXCEPT ![d] = o]
    /\ UNCHANGED <<ledger, damage, holder, cpc, ccmd, shown, cmem>>

CorruptLedger ==
    /\ damage < MaxDamage
    /\ damage' = damage + 1
    /\ ledger' = Corrupt
    /\ UNCHANGED <<installed, edits, holder, cpc, ccmd, shown, cmem>>

LedgerInit ==
    /\ installed = Initial
    /\ edits = 0 /\ damage = 0
    /\ \E trusted \in SUBSET Id :
        ledger = [Empty EXCEPT !.records =
                    SetToSeq({[id |-> i,
                               accepted |-> CurrentIdentity(Initial, i)] :
                                  i \in {j \in trusted :
                                    CurrentIdentity(Initial, j) # None}})]
    /\ holder = Free
    /\ cpc = [c \in Client |-> "idle"]
    /\ ccmd = [c \in Client |-> None]
    /\ shown = [c \in Client |-> None]
    /\ cmem = [c \in Client |-> None]

ClientNext == \E c \in Client :
    \/ Start(c) \/ Confirm(c) \/ TakeLock(c) \/ GiveUp(c)
    \/ Decide(c) \/ DecideNothing(c) \/ WriteLedger(c) \/ Stop(c)

LedgerNext == ClientNext \/ Edit \/ CorruptLedger
=============================================================================
