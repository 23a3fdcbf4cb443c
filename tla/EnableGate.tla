----------------------------- MODULE EnableGate -----------------------------
(***************************************************************************)
(* `omasafe-cli plugins enable ID` and the commands that give it its       *)
(* authority: `plugins override create`, `plugins executable-review add`   *)
(* and `revoke`.  Each element of Run is one invocation of one of them.    *)
(*                                                                         *)
(* They meet on three append-only files of the state directory (overrides, *)
(* executable reviews, enforcement history), on the installed tree and on  *)
(* whether Omarchy runs the plugin.  plugins enable takes no lock over its *)
(* steps: the tree, the reviews, the override and the clock are read one   *)
(* after the other, before and again after the native command.             *)
(*                                                                         *)
(* Simplifications, each one named:                                        *)
(*  - one plugin: every file is read through a filter on the plugin id;    *)
(*  - a content stands for head, tree, digests, analysis and limitations   *)
(*    of an installed tree, and ships at most one opaque executable;       *)
(*  - a locked load-append-replace is one step: the flock excludes every   *)
(*    other writer and the replace is a rename.  It fails when the lock    *)
(*    stays busy or the file does not parse, changing nothing;             *)
(*  - parsing of arguments and the prompt are the choice of the command.   *)
(***************************************************************************)
EXTENDS Naturals, Sequences, FiniteSets

CONSTANTS Content,     \* trees that may be installed
          Executable,  \* bytes of opaque executables
          Ships,       \* the opaque executable of a content, or None
          Undigested,  \* contents whose executable could not be hashed
          Flagged,     \* contents with a blocker an override may clear:
                       \* a coverage limitation or an unsupported executable
          Run,         \* invocations
          May,         \* which commands an invocation may be
          None,        \* nothing installed, nothing read yet
          MaxTime,     \* the last second of the clock
          MaxFaults,   \* kills, and failures after the native enable
          MaxEdits     \* changes of the installed tree by others

Mode == {"advisory", "hardened"}
Command ==
    [do : {"enable"}, mode : Mode]
        \cup [do : {"review"}, of : Content, accepted : BOOLEAN,
              expires : 1..MaxTime]
        \cup [do : {"revoke"}, exe : Executable]
        \cup [do : {"override"}, of : Content, expires : 1..MaxTime]

Review   == [of : Content, accepted : BOOLEAN, expires : 1..MaxTime]
Override == [of : Content, expires : 1..MaxTime]
Verdict  == [present : BOOLEAN, valid : BOOLEAN]
Decision == [by : Run, stage : {"pre", "post", "failed"}, of : Content,
             outcome : {"allow", "block"}, basis : {"policy", "override"},
             passed : BOOLEAN]
Event    == [by : Run, completed : BOOLEAN]

ASSUME BoundsAreNaturals ==
    MaxTime \in Nat /\ MaxFaults \in Nat /\ MaxEdits \in Nat

ASSUME ContentsAreTyped ==
    /\ Ships \in [Content -> Executable \cup {None}]
    /\ Undigested \subseteq Content /\ Flagged \subseteq Content
    /\ May \in [Run -> SUBSET Command]

ASSUME NoneIsFresh ==
    None \notin Content /\ None \notin Executable /\ None \notin Command

VARIABLES
    pc,         \* where each invocation stands
    cmd,        \* its command
    before,     \* content it collected before the native command
    after,      \* content it collected afterwards
    passed,     \* installed-tree postconditions
    enabled,    \* what the fresh inventory said: live or not
    active,     \* reviews not revoked when it loaded them, by index
    override,   \* what resolve_override returned
    undone,     \* the undo it tried: "no", "ok", "failed"
    since,      \* history: files and clock at its native enable, or None
    reviews,    \* executable-reviews.json: bindings
    revoked,    \* executable-reviews.json: revocations, by index
    overrides,  \* enforcement-overrides.json
    decisions,  \* enforcement-history.json: decisions
    events,     \* enforcement-history.json: audit events
    installed,  \* the plugin's tree
    live,       \* Omarchy runs the plugin
    clock,      \* seconds
    budget      \* what remains of the bounds

locals == <<cmd, before, after, passed, enabled, active, override, undone>>
files  == <<reviews, revoked, overrides, decisions, events>>
host   == <<installed, live>>
vars   == <<pc, locals, since, files, host, clock, budget>>

Ended == {"ok", "err", "dead"}
Steps == {"idle", "inspect", "collect", "reviews", "resolve", "pre",
          "attempt", "native", "failed", "recollect", "missing",
          "recollect_facts", "recollect_reviews", "reresolve", "post",
          "undo", "complete", "add", "revoke", "create", "audit"} \cup Ended

Witness == [revoked : SUBSET Nat, overrides : Nat, at : 0..MaxTime]

TypeOK ==
    /\ pc \in [Run -> Steps]
    /\ cmd \in [Run -> Command \cup {None}]
    /\ before \in [Run -> Content \cup {None}]
    /\ after \in [Run -> Content \cup {None}]
    /\ passed \in [Run -> BOOLEAN] /\ enabled \in [Run -> BOOLEAN]
    /\ active \in [Run -> SUBSET Nat]
    /\ override \in [Run -> Verdict]
    /\ undone \in [Run -> {"no", "ok", "failed"}]
    /\ since \in [Run -> Witness \cup {None}]
    /\ reviews \in Seq(Review) /\ revoked \subseteq DOMAIN reviews
    /\ overrides \in Seq(Override)
    /\ decisions \subseteq Decision /\ events \subseteq Event
    /\ installed \in Content \cup {None} /\ live \in BOOLEAN
    /\ clock \in 0..MaxTime
    /\ budget \in [faults : 0..MaxFaults, edits : 0..MaxEdits]

Init ==
    /\ pc = [r \in Run |-> "idle"]
    /\ cmd = [r \in Run |-> None]
    /\ before = [r \in Run |-> None] /\ after = [r \in Run |-> None]
    /\ passed = [r \in Run |-> FALSE] /\ enabled = [r \in Run |-> FALSE]
    /\ active = [r \in Run |-> {}]
    /\ override = [r \in Run |-> [present |-> FALSE, valid |-> FALSE]]
    /\ undone = [r \in Run |-> "no"]
    /\ since = [r \in Run |-> None]
    /\ reviews = <<>> /\ revoked = {} /\ overrides = <<>>
    /\ decisions = {} /\ events = {}
    /\ installed \in Content /\ live = FALSE
    /\ clock = 0
    /\ budget = [faults |-> MaxFaults, edits |-> MaxEdits]

-----------------------------------------------------------------------------
(***************************************************************************)
(* The evaluator                                                           *)
(***************************************************************************)
NeedsReview(c) == Ships[c] # None

\* ExecutableReviewHistory::load: the bindings no revocation names.
ActiveReviews == DOMAIN reviews \ revoked

\* ExecutableReviewBinding::authorizes_with_identity
Authorizes(i, c, t) ==
    /\ reviews[i].accepted
    /\ reviews[i].of = c
    /\ reviews[i].expires > t

OpaqueBlocked(c, loaded, t) ==
    NeedsReview(c) /\ ~ \E i \in loaded : Authorizes(i, c, t)

Reasons(mode, c, post, loaded, verdict, t) ==
    {x \in {"flagged"} : mode = "hardened" /\ c \in Flagged}
        \cup {x \in {"postcondition-failed"} : mode = "hardened" /\ ~post}
        \cup {x \in {"opaque-code-review-required"} :
                mode = "hardened" /\ OpaqueBlocked(c, loaded, t)}
        \cup {x \in {"override-expired-or-mismatched"} :
                verdict.present /\ ~verdict.valid}

\* EnforcementPolicy::evaluate: which blocks an override may turn.
OverrideUsable(mode, c, loaded, verdict, t) ==
    /\ verdict.present /\ verdict.valid
    /\ ~(mode = "hardened" /\ OpaqueBlocked(c, loaded, t))

Evaluate(r, stage, c, post) ==
    LET mode   == cmd[r].mode
        why    == Reasons(mode, c, post, active[r], override[r], clock)
        usable == /\ why # {}
                  /\ OverrideUsable(mode, c, active[r], override[r], clock)
    IN  [by |-> r, stage |-> stage, of |-> c, passed |-> post,
         outcome |-> IF why # {} /\ ~usable THEN "block" ELSE "allow",
         basis |-> IF usable THEN "override" ELSE "policy"]

Blocks(r, decision) ==
    cmd[r].mode = "hardened" /\ decision.outcome = "block"

\* OverrideHistory::load, read from the end.
LatestOverride == overrides[Len(overrides)]

\* resolve_override: the latest binding alone counts.  Its policy identity is
\* the hardened one, so it never matches under the advisory policy.
ResolveOverride(r, c) ==
    IF overrides = <<>> THEN [present |-> FALSE, valid |-> FALSE]
    ELSE [present |-> TRUE,
          valid |-> /\ LatestOverride.of = c
                    /\ cmd[r].mode = "hardened"
                    /\ LatestOverride.expires > clock]

-----------------------------------------------------------------------------
\* Every history is append-only: it is loaded, extended and replaced.
RecordDecision(d) == decisions' = decisions \cup {d}
RecordEvent(r, completed) ==
    events' = events \cup {[by |-> r, completed |-> completed]}
RecordReview(binding) == reviews' = Append(reviews, binding)
RecordRevocations(ids) == revoked' = revoked \cup ids
RecordOverride(binding) == overrides' = Append(overrides, binding)

Goto(r, there) == pc' = [pc EXCEPT ![r] = there]

Spend == /\ budget.faults > 0
         /\ budget' = [budget EXCEPT !.faults = @ - 1]

Begin(r) ==
    /\ pc[r] = "idle"
    /\ \E c \in May[r] :
        /\ (c.do \in {"review", "override"}) => c.expires > clock
        /\ cmd' = [cmd EXCEPT ![r] = c]
        /\ Goto(r, CASE c.do = "enable" -> "inspect"
                     [] c.do = "override" -> "inspect"
                     [] c.do = "review" -> "collect"
                     [] c.do = "revoke" -> "revoke")
    /\ UNCHANGED <<before, after, passed, enabled, active, override, undone,
                   since, files, host, clock, budget>>

\* The installed tree is what the operator named and, for a review, ships a
\* hashed opaque executable.
Collectable(c, content) ==
    /\ content # None
    /\ c.do \in {"review", "override"} => content = c.of
    /\ c.do = "review" => NeedsReview(content) /\ content \notin Undigested

\* Bindings that name the executable's path and bytes, of any content.
Revocable(exe) ==
    {i \in ActiveReviews : Ships[reviews[i].of] = exe}

\* Refusals before anything was changed: a plugin that is not provably
\* installed and inactive, a tree that is not the named one, nothing to
\* revoke.  (A read that fails ends the command as Kill does.)
Refuse(r) ==
    /\ \/ pc[r] = "inspect" /\ (live \/ installed = None)
       \/ pc[r] = "collect" /\ ~Collectable(cmd[r], installed)
       \/ pc[r] = "revoke" /\ Revocable(cmd[r].exe) = {}
    /\ Goto(r, "err")
    /\ UNCHANGED <<locals, since, files, host, clock, budget>>

\* query_shell, collect_one and the Git audit.
Inspect(r) ==
    /\ pc[r] = "inspect"
    /\ ~live /\ installed # None
    /\ Goto(r, "collect")
    /\ UNCHANGED <<locals, since, files, host, clock, budget>>

\* collect_enforcement_facts: source_identity and the analysis of the tree.
Collect(r) ==
    /\ pc[r] = "collect"
    /\ Collectable(cmd[r], installed)
    /\ before' = [before EXCEPT ![r] = installed]
    /\ Goto(r, "reviews")
    /\ UNCHANGED <<cmd, after, passed, enabled, active, override, undone,
                   since, files, host, clock, budget>>

\* load_executable_reviews, under the shared lock.
LoadReviews(r) ==
    /\ pc[r] = "reviews"
    /\ active' = [active EXCEPT ![r] = ActiveReviews]
    /\ Goto(r, CASE cmd[r].do = "enable" -> "resolve"
                 [] cmd[r].do = "review" -> "add"
                 [] cmd[r].do = "override" -> "create")
    /\ UNCHANGED <<cmd, before, after, passed, enabled, override, undone,
                   since, files, host, clock, budget>>

Resolve(r) ==
    /\ pc[r] = "resolve"
    /\ override' = [override EXCEPT ![r] = ResolveOverride(r, before[r])]
    /\ Goto(r, "pre")
    /\ UNCHANGED <<cmd, before, after, passed, enabled, active, undone, since,
                   files, host, clock, budget>>

\* The hardened gate: a block ends the command before anything is changed.
Gate(r, decision) == IF Blocks(r, decision) THEN "err" ELSE "native"

PreDecision(r) == Evaluate(r, "pre", before[r], TRUE)

DecidePre(r) ==
    /\ pc[r] = "pre"
    /\ RecordDecision(PreDecision(r))
    /\ Goto(r, IF override[r].present THEN "attempt"
               ELSE Gate(r, PreDecision(r)))
    /\ UNCHANGED <<locals, since, reviews, revoked, overrides, events, host,
                   clock, budget>>

Decided(r, stage) == CHOOSE d \in decisions : d.by = r /\ d.stage = stage

\* Mutant: the audit event of the attempt is left to the end.
SkipAttempt(r) ==
    /\ pc[r] = "attempt"
    /\ Goto(r, Gate(r, Decided(r, "pre")))
    /\ UNCHANGED <<locals, since, files, host, clock, budget>>
\* The attempt goes on record before the native command runs.
AuditAttempt(r) ==
    /\ pc[r] = "attempt"
    /\ RecordEvent(r, FALSE)
    /\ Goto(r, Gate(r, Decided(r, "pre")))
    /\ UNCHANGED <<locals, since, reviews, revoked, overrides, decisions,
                   host, clock, budget>>

\* omarchy_plugin_enable succeeds.
NativeEnable(r) ==
    /\ pc[r] = "native"
    /\ installed # None
    /\ live' = TRUE
    /\ since' = [since EXCEPT ![r] =
          [revoked |-> revoked, overrides |-> Len(overrides), at |-> clock]]
    /\ Goto(r, "recollect")
    /\ UNCHANGED <<locals, files, installed, clock, budget>>

\* omarchy_plugin_enable fails.
NativeFails(r) ==
    /\ pc[r] = "native"
    /\ Goto(r, "failed")
    /\ UNCHANGED <<locals, since, files, host, clock, budget>>

DecideFailed(r) ==
    /\ pc[r] = "failed"
    /\ RecordDecision(Evaluate(r, "failed", before[r], FALSE))
    /\ Goto(r, "err")
    /\ UNCHANGED <<locals, since, reviews, revoked, overrides, events, host,
                   clock, budget>>

\* The fresh inventory.  A shell query that fails reports no live state at
\* all: the postconditions fail and `enabled` reads as false.
Recollect(r) ==
    /\ pc[r] = "recollect"
    /\ \/ /\ enabled' = [enabled EXCEPT ![r] = live]
          /\ UNCHANGED budget
       \/ /\ enabled' = [enabled EXCEPT ![r] = FALSE]
          /\ Spend
    /\ Goto(r, IF installed = None THEN "missing" ELSE "recollect_facts")
    /\ UNCHANGED <<cmd, before, after, passed, active, override, undone,
                   since, files, host, clock>>

\* The plugin is gone: disable, record, refuse.
Missing(r) ==
    /\ pc[r] = "missing"
    /\ \/ /\ live' = FALSE
          /\ undone' = [undone EXCEPT ![r] = "ok"]
          /\ UNCHANGED budget
       \/ /\ undone' = [undone EXCEPT ![r] = "failed"]
          /\ Spend
          /\ UNCHANGED live
    /\ RecordDecision(Evaluate(r, "failed", before[r], FALSE))
    /\ Goto(r, "err")
    /\ UNCHANGED <<cmd, before, after, passed, enabled, active, override,
                   since, reviews, revoked, overrides, events, installed,
                   clock>>

\* collect_enforcement_facts(..).ok(): a tree that cannot be read any more
\* leaves the first facts in use, with the postconditions failed.
RecollectFacts(r) ==
    /\ pc[r] = "recollect_facts"
    /\ after' = [after EXCEPT ![r] = installed]
    /\ Goto(r, IF installed = None THEN "reresolve" ELSE "recollect_reviews")
    /\ UNCHANGED <<cmd, before, passed, enabled, active, override, undone,
                   since, files, host, clock, budget>>

\* Mutant: the reviews loaded before the native command are used again.
ReuseReviews(r) ==
    /\ pc[r] = "recollect_reviews"
    /\ Goto(r, "reresolve")
    /\ UNCHANGED <<locals, since, files, host, clock, budget>>
RecollectReviews(r) ==
    /\ pc[r] = "recollect_reviews"
    /\ \/ /\ active' = [active EXCEPT ![r] = ActiveReviews]
          /\ UNCHANGED <<after, budget>>
       \/ /\ after' = [after EXCEPT ![r] = None]
          /\ Spend
          /\ UNCHANGED active
    /\ Goto(r, "reresolve")
    /\ UNCHANGED <<cmd, before, passed, enabled, override, undone, since,
                   files, host, clock>>

\* The content the post decision is about.
Judged(r) == IF after[r] = None THEN before[r] ELSE after[r]

\* identity_matches and the fresh inventory, then resolve_override again.
Reresolve(r) ==
    /\ pc[r] = "reresolve"
    /\ passed' = [passed EXCEPT ![r] = enabled[r] /\ after[r] = before[r]]
    /\ override' = [override EXCEPT ![r] = ResolveOverride(r, Judged(r))]
    /\ Goto(r, "post")
    /\ UNCHANGED <<cmd, before, after, enabled, active, undone, since, files,
                   host, clock, budget>>

DecidePost(r) ==
    /\ pc[r] = "post"
    /\ LET d == Evaluate(r, "post", Judged(r), passed[r])
       IN  /\ RecordDecision(d)
           /\ Goto(r, IF ~passed[r] \/ Blocks(r, d) THEN "undo"
                      ELSE "complete")
    /\ UNCHANGED <<locals, since, reviews, revoked, overrides, events, host,
                   clock, budget>>

\* resolve_override and both persists return through `?`: the command ends
\* with the plugin as the native command left it.
FailAfterNative(r) ==
    /\ pc[r] \in {"failed", "reresolve", "post", "complete"}
    /\ Spend
    /\ Goto(r, "err")
    /\ UNCHANGED <<locals, since, files, host, clock>>

\* Mutant: the undo trusts the inventory and forgets to run the command.
UndoNothing(r) ==
    /\ pc[r] = "undo"
    /\ Goto(r, "err")
    /\ UNCHANGED <<locals, since, files, host, clock, budget>>
\* "postcondition failed after enable; plugin was left disabled".
Undo(r) ==
    /\ pc[r] = "undo"
    /\ \/ /\ ~enabled[r]
          /\ UNCHANGED <<live, undone, budget>>
       \/ /\ enabled[r]
          /\ live' = FALSE
          /\ undone' = [undone EXCEPT ![r] = "ok"]
          /\ UNCHANGED budget
       \/ /\ enabled[r]
          /\ Spend
          /\ undone' = [undone EXCEPT ![r] = "failed"]
          /\ UNCHANGED live
    /\ Goto(r, "err")
    /\ UNCHANGED <<cmd, before, after, passed, enabled, active, override,
                   since, files, installed, clock>>

Complete(r) ==
    /\ pc[r] = "complete"
    /\ events' = events \cup {[by |-> x, completed |-> TRUE] :
                    x \in {y \in {r} : Decided(y, "post").basis = "override"}}
    /\ Goto(r, "ok")
    /\ UNCHANGED <<locals, since, reviews, revoked, overrides, decisions,
                   host, clock, budget>>

-----------------------------------------------------------------------------
(***************************************************************************)
(* executable-review add and revoke, override create                       *)
(***************************************************************************)
AddReview(r) ==
    /\ pc[r] = "add"
    /\ RecordReview([of |-> before[r], accepted |-> cmd[r].accepted,
                     expires |-> cmd[r].expires])
    /\ Goto(r, "audit")
    /\ UNCHANGED <<locals, since, revoked, overrides, decisions, events, host,
                   clock, budget>>

\* Mutant: the revocation names the entry after the one it means.
RevokeNext(r) ==
    /\ pc[r] = "revoke"
    /\ Revocable(cmd[r].exe) # {}
    /\ RecordRevocations({i + 1 : i \in Revocable(cmd[r].exe)})
    /\ Goto(r, "audit")
    /\ UNCHANGED <<locals, since, reviews, overrides, decisions, events, host,
                   clock, budget>>
\* The latest of them is revoked, whichever content it was made for.
Revoke(r) ==
    /\ pc[r] = "revoke"
    /\ Revocable(cmd[r].exe) # {}
    /\ RecordRevocations({i \in Revocable(cmd[r].exe) :
                            \A j \in Revocable(cmd[r].exe) : j <= i})
    /\ Goto(r, "audit")
    /\ UNCHANGED <<locals, since, reviews, overrides, decisions, events, host,
                   clock, budget>>

CreateOverride(r) ==
    /\ pc[r] = "create"
    /\ RecordOverride([of |-> before[r], expires |-> cmd[r].expires])
    /\ Goto(r, "audit")
    /\ UNCHANGED <<locals, since, reviews, revoked, decisions, events, host,
                   clock, budget>>

\* The audit event is a second write (Kill stands for its failure).
Audit(r) ==
    /\ pc[r] = "audit"
    /\ RecordEvent(r, TRUE)
    /\ Goto(r, "ok")
    /\ UNCHANGED <<locals, since, reviews, revoked, overrides, decisions,
                   host, clock, budget>>

-----------------------------------------------------------------------------
(***************************************************************************)
(* What the read-only commands say of the same files                       *)
(***************************************************************************)
\* Mutant: a review is listed as expired one second late.
ListedLate(i) ==
    IF i \in revoked THEN "revoked"
    ELSE IF ~reviews[i].accepted THEN "rejected"
    ELSE IF reviews[i].expires < clock THEN "expired" ELSE "active"
\* executable-review list
ListedAs(i) ==
    IF i \in revoked THEN "revoked"
    ELSE IF ~reviews[i].accepted THEN "rejected"
    ELSE IF reviews[i].expires <= clock THEN "expired" ELSE "active"

\* override list
OverrideListedAs(k) ==
    IF overrides[k].expires > clock THEN "active" ELSE "expired"

\* coverage_review_status: an analysis report looks at the latest binding of
\* the executable alone, whichever content it was made for.
CoverageStatus(c) ==
    LET same == Revocable(Ships[c]) IN
    IF ~NeedsReview(c) THEN "not-applicable"
    ELSE IF c \in Undigested THEN "digest-unavailable"
    ELSE IF same = {} THEN "unreviewed"
    ELSE LET last == CHOOSE i \in same : \A j \in same : j <= i IN
         IF ~reviews[last].accepted THEN "rejected"
         ELSE IF Authorizes(last, c, clock) THEN "accepted"
         ELSE IF reviews[last].expires <= clock THEN "expired" ELSE "invalid"

-----------------------------------------------------------------------------
Kill(r) ==
    /\ pc[r] \notin Ended \cup {"idle"}
    /\ Spend
    /\ Goto(r, "dead")
    /\ UNCHANGED <<locals, since, files, host, clock>>

\* review-update, the native updater or the user change the tree meanwhile.
Edit ==
    /\ budget.edits > 0
    /\ \E c \in (Content \cup {None}) \ {installed} :
        /\ installed' = c
        /\ live' = (live /\ c # None)
    /\ budget' = [budget EXCEPT !.edits = @ - 1]
    /\ UNCHANGED <<pc, locals, since, files, clock>>

Tick ==
    /\ clock < MaxTime
    /\ clock' = clock + 1
    /\ UNCHANGED <<pc, locals, since, files, host, budget>>

Step(r) ==
    \/ Inspect(r) \/ Collect(r) \/ LoadReviews(r) \/ Resolve(r) \/ DecidePre(r)
    \/ AuditAttempt(r) \/ NativeEnable(r) \/ NativeFails(r)
    \/ DecideFailed(r) \/ Recollect(r) \/ Missing(r) \/ RecollectFacts(r)
    \/ RecollectReviews(r) \/ Reresolve(r) \/ DecidePost(r) \/ Undo(r)
    \/ Complete(r) \/ AddReview(r) \/ Revoke(r) \/ CreateOverride(r)
    \/ Audit(r) \/ Refuse(r)

Finished == (\A r \in Run : pc[r] \in Ended) /\ UNCHANGED vars

Next ==
    \/ \E r \in Run : Begin(r) \/ Step(r) \/ FailAfterNative(r) \/ Kill(r)
    \/ Edit \/ Tick
    \/ Finished

Spec == Init /\ [][Next]_vars

-----------------------------------------------------------------------------
(***************************************************************************)
(* Properties                                                              *)
(***************************************************************************)
Enabled(r)  == since[r] # None

\* A hardened enable that reports success rests on a review of exactly this
\* executable that no one had revoked when the native command ran and that
\* outlasts that moment, and on an override of exactly this content, the latest
\* then or a later one, that outlasts it too, for whatever else blocks: no
\* override replaces a review (enforcement.rs 372-383, main.rs 2866).  Either
\* may have been added between the native command and the second decision;
\* authority that was revoked or ran out before the command never counts.
AuthorisedWhenEnabled ==
    \A r \in Run :
        LET c == before[r]  w == since[r] IN
        pc[r] = "ok" /\ Enabled(r) /\ cmd[r].mode = "hardened" =>
          /\ NeedsReview(c) =>
                \E i \in DOMAIN reviews \ w.revoked : Authorizes(i, c, w.at)
          /\ c \in Flagged =>
                \E k \in DOMAIN overrides :
                    /\ k >= w.overrides
                    /\ overrides[k].of = c /\ overrides[k].expires > w.at

\* Whatever made the plugin live is on record first: its allowing decision,
\* and the attempt when an override is involved, so that a crash in the
\* middle erases neither (enforcement.rs 536-539).  Once the command has ended
\* and nothing failed, so is the decision about what was really enabled.
EnableIsOnRecord ==
    \A r \in Run : Enabled(r) =>
        /\ \E d \in decisions :
            /\ d.by = r /\ d.stage = "pre" /\ d.of = before[r]
            /\ ~Blocks(r, d)
            /\ d.basis = "override" =>
                    [by |-> r, completed |-> FALSE] \in events
        /\ pc[r] \in Ended /\ budget.faults = MaxFaults =>
              \E d \in decisions : d.by = r /\ d.stage # "pre"

\* As long as nothing fails, a refusal after the native command has taken the
\* plugin off again, if it found it live (main.rs 2866-2868, 2916-2929).
RefusalsUndo ==
    \A r \in Run :
        pc[r] = "err" /\ Enabled(r) /\ budget.faults = MaxFaults =>
            undone[r] = "ok" \/ ~enabled[r]

\* What a report calls accepted or a list calls active is what the gate goes
\* by: an accepted executable is not blocked, and whatever lifts a block is
\* listed as active (main.rs 2490-2538, 5635-5647, 6192-6199).
ReportsAgreeWithGate ==
    /\ \A c \in Content :
        /\ CoverageStatus(c) = "accepted" =>
              ~OpaqueBlocked(c, ActiveReviews, clock)
        /\ NeedsReview(c) /\ ~OpaqueBlocked(c, ActiveReviews, clock) =>
              \E i \in DOMAIN reviews :
                  reviews[i].of = c /\ ListedAs(i) = "active"
    /\ \A i \in DOMAIN reviews : ListedAs(i) = "active" =>
          ~OpaqueBlocked(reviews[i].of, ActiveReviews, clock)

\* "immediately fail closed and attempt to undo the live-state transition"
\* (main.rs 2866-2868), whatever makes the command refuse.
RefusedIsUndone ==
    \A r \in Run :
        pc[r] = "err" /\ Enabled(r) => undone[r] # "no" \/ ~live
=============================================================================
