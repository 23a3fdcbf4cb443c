-------------------------- MODULE EnableGateProofs --------------------------
(***************************************************************************)
(* Proofs about EnableGate, for any number of invocations, contents,       *)
(* executables, edits and faults.                                          *)
(*                                                                         *)
(* What an invocation has in hand at which step (Equipped) makes TypeOK    *)
(* inductive.  The two safety properties follow from what every other      *)
(* process leaves alone (Keeps) and from the files only ever growing       *)
(* (Grows), so each step has to be looked at for its own process only.     *)
(***************************************************************************)
EXTENDS EnableGate, WellFoundedInduction, TLAPS

Gated == {"resolve", "pre", "attempt", "native", "failed", "recollect",
          "missing", "recollect_facts", "recollect_reviews", "reresolve",
          "post", "undo", "complete"}

\* Which command stands at which step, and what it has collected by then.
Equipped(r) ==
    /\ pc[r] # "idle" => cmd[r] \in Command
    /\ pc[r] = "inspect" => cmd[r].do \in {"enable", "override"}
    /\ pc[r] \in {"collect", "reviews"} =>
            cmd[r].do \in {"enable", "override", "review"}
    /\ pc[r] \in Gated => cmd[r].do = "enable"
    /\ pc[r] = "add" => cmd[r].do = "review"
    /\ pc[r] = "revoke" => cmd[r].do = "revoke"
    /\ pc[r] = "create" => cmd[r].do = "override"
    /\ pc[r] \in Gated \cup {"reviews", "add", "create"} =>
            before[r] \in Content

TypeInv == TypeOK /\ \A r \in Run : Equipped(r)

LEMMA CommandShapes ==
  ASSUME NEW c \in Command
  PROVE  /\ c.do = "enable" => c.mode \in Mode
         /\ c.do = "review" => c.accepted \in BOOLEAN
                               /\ c.expires \in 1..MaxTime
         /\ c.do = "override" => c.expires \in 1..MaxTime
  BY DEF Command

LEMMA TypeInit == Init => TypeInv
  <1> SUFFICES ASSUME Init PROVE TypeInv
    OBVIOUS
  <1>1. budget \in [faults : 0..MaxFaults, edits : 0..MaxEdits]
    BY BoundsAreNaturals DEF Init
  <1>2. /\ reviews \in Seq(Review) /\ revoked \subseteq DOMAIN reviews
        /\ overrides \in Seq(Override)
    BY DEF Init
  <1>3. /\ decisions \subseteq Decision /\ events \subseteq Event
        /\ installed \in Content \cup {None} /\ clock \in 0..MaxTime
    BY BoundsAreNaturals DEF Init
  <1>7. live \in BOOLEAN BY DEF Init
  <1>4. /\ pc \in [Run -> Steps] /\ cmd \in [Run -> Command \cup {None}]
        /\ before \in [Run -> Content \cup {None}]
        /\ after \in [Run -> Content \cup {None}]
        /\ since \in [Run -> Witness \cup {None}]
    BY DEF Init, Steps
  <1>5. /\ passed \in [Run -> BOOLEAN] /\ enabled \in [Run -> BOOLEAN]
        /\ active \in [Run -> SUBSET Nat]
        /\ override \in [Run -> Verdict]
        /\ undone \in [Run -> {"no", "ok", "failed"}]
    BY DEF Init, Verdict
  <1>6. \A r \in Run : Equipped(r)
    BY DEF Init, Equipped, Gated
  <1> QED BY <1>1, <1>2, <1>3, <1>4, <1>5, <1>6, <1>7 DEF TypeInv, TypeOK

LEMMA TypeBegin ==
  ASSUME TypeInv, NEW r \in Run, Begin(r) PROVE TypeInv'
  <1>1. PICK c \in May[r] :
            /\ cmd' = [cmd EXCEPT ![r] = c]
            /\ Goto(r, CASE c.do = "enable" -> "inspect"
                         [] c.do = "override" -> "inspect"
                         [] c.do = "review" -> "collect"
                         [] c.do = "revoke" -> "revoke")
    BY DEF Begin
  <1>2. c \in Command /\ c.do \in {"enable", "override", "review", "revoke"}
    BY ContentsAreTyped DEF Command
  <1>3. TypeOK'
    BY <1>1, <1>2 DEF Begin, TypeInv, TypeOK, Goto, Steps, locals, files, host
  <1>4. ASSUME NEW s \in Run PROVE Equipped(s)'
    BY <1>1, <1>2 DEF Begin, TypeInv, TypeOK, Equipped, Goto, Steps, Gated
  <1> QED BY <1>3, <1>4 DEF TypeInv

LEMMA TypeSpend ==
  ASSUME TypeOK, Spend
  PROVE  budget' \in [faults : 0..MaxFaults, edits : 0..MaxEdits]
  <1>1. budget.faults \in 1..MaxFaults /\ budget.edits \in 0..MaxEdits
    BY BoundsAreNaturals DEF TypeOK, Spend
  <1>2. budget' = [faults |-> budget.faults - 1, edits |-> budget.edits]
    BY DEF TypeOK, Spend
  <1> QED BY <1>1, <1>2, BoundsAreNaturals

LEMMA TypeEvent ==
  ASSUME TypeOK, NEW r \in Run, NEW done \in BOOLEAN
  PROVE  events \cup {[by |-> r, completed |-> done]} \subseteq Event
  BY DEF TypeOK, Event

\* Steps up to the first decision, and those that record or load nothing.
LEMMA TypeQuiet ==
  ASSUME TypeInv, NEW r \in Run,
         \/ Refuse(r) \/ Inspect(r) \/ Collect(r) \/ LoadReviews(r)
         \/ Resolve(r) \/ NativeEnable(r) \/ NativeFails(r) \/ Recollect(r)
         \/ RecollectFacts(r) \/ RecollectReviews(r) \/ Reresolve(r)
         \/ FailAfterNative(r) \/ Undo(r) \/ Kill(r)
  PROVE  TypeInv'
  <1> USE BoundsAreNaturals DEF TypeInv, TypeOK, Equipped, Goto, Steps, Gated,
        Ended, locals, files, host
  <1>1. CASE Refuse(r) BY <1>1 DEF Refuse
  <1>2. CASE Inspect(r) BY <1>2 DEF Inspect
  <1>3. CASE Collect(r) BY <1>3, NoneIsFresh DEF Collect, Collectable
  <1>4. CASE LoadReviews(r) BY <1>4 DEF LoadReviews, ActiveReviews
  <1>5. CASE Resolve(r) BY <1>5 DEF Resolve, ResolveOverride, Verdict
  <1>6. CASE NativeEnable(r) BY <1>6 DEF NativeEnable, Witness
  <1>7. CASE NativeFails(r) BY <1>7 DEF NativeFails
  <1>8. CASE Recollect(r)
    <2>1. enabled' \in [Run -> BOOLEAN] BY <1>8 DEF Recollect
    <2>2. budget' \in [faults : 0..MaxFaults, edits : 0..MaxEdits]
      BY <1>8, TypeSpend DEF Recollect
    <2> QED BY <1>8, <2>1, <2>2 DEF Recollect
  <1>9. CASE RecollectFacts(r) BY <1>9 DEF RecollectFacts
  <1>10. CASE RecollectReviews(r)
    BY <1>10, TypeSpend DEF RecollectReviews, ActiveReviews
  <1>11. CASE Reresolve(r) BY <1>11 DEF Reresolve, ResolveOverride, Verdict
  <1>12. CASE FailAfterNative(r) BY <1>12, TypeSpend DEF FailAfterNative
  <1>13. CASE Undo(r) BY <1>13, TypeSpend DEF Undo
  <1>14. CASE Kill(r) BY <1>14, TypeSpend DEF Kill
  <1> QED BY <1>1, <1>2, <1>3, <1>4, <1>5, <1>6, <1>7, <1>8, <1>9, <1>10,
             <1>11, <1>12, <1>13, <1>14

LEMMA EvaluateIsDecision ==
  ASSUME NEW r \in Run, NEW stage \in {"pre", "post", "failed"},
         NEW c \in Content, NEW post \in BOOLEAN
  PROVE  Evaluate(r, stage, c, post) \in Decision
  BY DEF Evaluate, Decision

LEMMA TypeRecord ==
  ASSUME TypeInv, NEW r \in Run,
         \/ DecidePre(r) \/ AuditAttempt(r) \/ DecideFailed(r) \/ Missing(r)
         \/ DecidePost(r) \/ Complete(r) \/ AddReview(r) \/ Revoke(r)
         \/ CreateOverride(r) \/ Audit(r)
  PROVE  TypeInv'
  <1> USE BoundsAreNaturals, CommandShapes, EvaluateIsDecision
      DEF TypeInv, TypeOK, Equipped, Goto, Steps, Gated, Ended, locals, files,
        host, RecordDecision, RecordEvent, Gate
  <1>1. CASE DecidePre(r) BY <1>1 DEF DecidePre, PreDecision
  <1>2. CASE AuditAttempt(r) BY <1>2, TypeEvent DEF AuditAttempt
  <1>3. CASE DecideFailed(r) BY <1>3 DEF DecideFailed
  <1>4. CASE Missing(r)
    <2>1. live' \in BOOLEAN BY <1>4 DEF Missing
    <2>2. budget' \in [faults : 0..MaxFaults, edits : 0..MaxEdits]
      BY <1>4, TypeSpend DEF Missing
    <2>3. Evaluate(r, "failed", before[r], FALSE) \in Decision
      BY <1>4 DEF Missing
    <2> QED BY <1>4, <2>1, <2>2, <2>3 DEF Missing
  <1>5. CASE DecidePost(r) BY <1>5 DEF DecidePost, Judged
  <1>6. CASE Complete(r)
    <2>1. events' \subseteq events \cup {[by |-> r, completed |-> TRUE]}
      BY <1>6 DEF Complete
    <2>2. events' \subseteq Event BY <2>1, TypeEvent
    <2> QED BY <1>6, <2>2 DEF Complete
  <1>7. CASE AddReview(r)
    <2>1. PICK b : b = [of |-> before[r], accepted |-> cmd[r].accepted,
                        expires |-> cmd[r].expires]
      OBVIOUS
    <2>2. b \in Review
      BY <1>7, <2>1 DEF AddReview, Review
    <2>3. reviews' \in Seq(Review) /\ revoked' \subseteq DOMAIN reviews'
      BY <1>7, <2>1, <2>2 DEF AddReview, RecordReview
    <2> QED BY <1>7, <2>3 DEF AddReview
  <1>8. CASE Revoke(r)
    BY <1>8 DEF Revoke, RecordRevocations, Revocable, ActiveReviews
  <1>9. CASE CreateOverride(r)
    BY <1>9 DEF CreateOverride, RecordOverride, Override
  <1>10. CASE Audit(r) BY <1>10, TypeEvent DEF Audit
  <1> QED BY <1>1, <1>2, <1>3, <1>4, <1>5, <1>6, <1>7, <1>8, <1>9, <1>10

\* Steps of nobody's: the tree is changed, the clock moves, nothing happens.
LEMMA TypeOutside ==
  ASSUME TypeInv, Edit \/ Tick \/ UNCHANGED vars PROVE TypeInv'
  <1> USE DEF TypeInv, TypeOK, Equipped, locals, files, host
  <1>1. CASE Edit
    <2>1. budget' = [faults |-> budget.faults, edits |-> budget.edits - 1]
          /\ budget.edits \in 1..MaxEdits /\ budget.faults \in 0..MaxFaults
      BY <1>1, BoundsAreNaturals DEF Edit
    <2>2. budget' \in [faults : 0..MaxFaults, edits : 0..MaxEdits]
      BY <2>1, BoundsAreNaturals
    <2>3. live' \in BOOLEAN BY <1>1 DEF Edit
    <2>4. installed' \in Content \cup {None} BY <1>1 DEF Edit
    <2> QED BY <1>1, <2>2, <2>3, <2>4 DEF Edit
  <1>2. CASE Tick BY <1>2, BoundsAreNaturals DEF Tick
  <1>3. CASE UNCHANGED vars BY <1>3 DEF vars
  <1> QED BY <1>1, <1>2, <1>3

LEMMA TypeStep == TypeInv /\ [Next]_vars => TypeInv'
  <1> SUFFICES ASSUME TypeInv, [Next]_vars PROVE TypeInv'
    OBVIOUS
  <1>1. ASSUME NEW r \in Run,
               Begin(r) \/ Step(r) \/ FailAfterNative(r) \/ Kill(r)
        PROVE  TypeInv'
    BY <1>1, TypeBegin, TypeQuiet, TypeRecord DEF Step
  <1> QED BY <1>1, TypeOutside DEF Next, Finished

\* Every variable keeps its type.
THEOREM TypeCorrect == Spec => []TypeOK
  <1>1. TypeInv => TypeOK BY DEF TypeInv
  <1> QED BY <1>1, TypeInit, TypeStep, PTL DEF Spec

-----------------------------------------------------------------------------
(* What the other processes leave alone, and how the files may change.      *)

Longer(was, now) ==
    \A i \in DOMAIN was : i \in DOMAIN now /\ now[i] = was[i]

Grows ==
    /\ Longer(reviews, reviews') /\ Longer(overrides, overrides')
    /\ Len(overrides) <= Len(overrides')
    /\ revoked \subseteq revoked'
    /\ decisions \subseteq decisions' /\ events \subseteq events'
    /\ clock <= clock' /\ budget'.faults <= budget.faults

Keeps(r) ==
    /\ pc'[r] = pc[r] /\ cmd'[r] = cmd[r]
    /\ before'[r] = before[r] /\ after'[r] = after[r]
    /\ passed'[r] = passed[r] /\ enabled'[r] = enabled[r]
    /\ active'[r] = active[r] /\ override'[r] = override[r]
    /\ undone'[r] = undone[r] /\ since'[r] = since[r]
    /\ \A d \in decisions' \ decisions : d.by # r

LEMMA AppendGrows ==
  ASSUME NEW S, NEW s \in Seq(S), NEW x \in S
  PROVE  Longer(s, Append(s, x)) /\ Len(s) <= Len(Append(s, x))
  BY DEF Longer

\* The one decision a step puts on record.
LEMMA Records ==
  ASSUME TypeInv, NEW r \in Run,
         DecidePre(r) \/ DecideFailed(r) \/ Missing(r) \/ DecidePost(r)
  PROVE  \E d : d.by = r /\ decisions' = decisions \cup {d}
  <1>1. ASSUME NEW stage, NEW c, NEW post \in BOOLEAN
        PROVE  Evaluate(r, stage, c, post).by = r
    BY DEF Evaluate
  <1>2. CASE DecidePre(r)
    <2>1. PreDecision(r).by = r BY <1>1 DEF PreDecision
    <2> QED BY <1>2, <2>1 DEF DecidePre, RecordDecision
  <1>3. CASE DecideFailed(r) \/ Missing(r)
    <2>1. Evaluate(r, "failed", before[r], FALSE).by = r BY <1>1
    <2> QED BY <1>3, <2>1 DEF DecideFailed, Missing, RecordDecision
  <1>4. CASE DecidePost(r)
    <2>1. passed[r] \in BOOLEAN BY DEF TypeInv, TypeOK
    <2>2. Evaluate(r, "post", Judged(r), passed[r]).by = r BY <1>1, <2>1
    <2> QED BY <1>4, <2>2 DEF DecidePost, RecordDecision
  <1> QED BY <1>2, <1>3, <1>4

LEMMA StepGrows == TypeInv /\ TypeInv' /\ [Next]_vars => Grows
  <1> SUFFICES ASSUME TypeInv, TypeInv', [Next]_vars PROVE Grows
    OBVIOUS
  <1> USE DEF TypeInv, TypeOK, Grows, Longer, locals, files, host
  <1>1. CASE Edit \/ Tick \/ UNCHANGED vars
    <2>1. CASE Edit BY <2>1, BoundsAreNaturals DEF Edit
    <2>2. CASE Tick BY <2>2, BoundsAreNaturals DEF Tick
    <2>3. CASE UNCHANGED vars BY <2>3, BoundsAreNaturals DEF vars
    <2> QED BY <1>1, <2>1, <2>2, <2>3
  <1>2. ASSUME NEW r \in Run, Begin(r) \/ FailAfterNative(r) \/ Kill(r)
        PROVE  Grows
    BY <1>2, BoundsAreNaturals DEF Begin, FailAfterNative, Kill, Spend
  <1>3. ASSUME NEW r \in Run,
               \/ Refuse(r) \/ Inspect(r) \/ Collect(r) \/ LoadReviews(r)
               \/ Resolve(r) \/ NativeEnable(r) \/ NativeFails(r)
               \/ Recollect(r) \/ RecollectFacts(r) \/ RecollectReviews(r)
               \/ Reresolve(r) \/ Undo(r)
        PROVE  Grows
    BY <1>3, BoundsAreNaturals
    DEF Refuse, Inspect, Collect, LoadReviews, Resolve, NativeEnable,
        NativeFails, Recollect, RecollectFacts, RecollectReviews, Reresolve,
        Undo, Spend
  <1>4. ASSUME NEW r \in Run,
               \/ DecidePre(r) \/ AuditAttempt(r) \/ DecideFailed(r)
               \/ Missing(r) \/ DecidePost(r) \/ Complete(r) \/ Audit(r)
        PROVE  Grows
    <2>1. CASE Missing(r)
      <3>1. budget'.faults <= budget.faults
        BY <2>1, BoundsAreNaturals DEF Missing, Spend
      <3>2. decisions \subseteq decisions' BY <2>1, Records
      <3> QED BY <2>1, <3>1, <3>2, BoundsAreNaturals DEF Missing
    <2>2. CASE DecidePre(r) \/ DecideFailed(r) \/ DecidePost(r)
      <3>1. decisions \subseteq decisions' BY <2>2, Records
      <3>2. UNCHANGED <<reviews, revoked, overrides, events, clock, budget>>
        BY <2>2 DEF DecidePre, DecideFailed, DecidePost, RecordDecision
      <3> QED BY <3>1, <3>2, BoundsAreNaturals
    <2>3. CASE AuditAttempt(r) \/ Complete(r) \/ Audit(r)
      BY <2>3, BoundsAreNaturals
      DEF AuditAttempt, Complete, Audit, RecordEvent
    <2> QED BY <1>4, <2>1, <2>2, <2>3
  <1>5. ASSUME NEW r \in Run, AddReview(r) PROVE Grows
    <2>1. [of |-> before[r], accepted |-> cmd[r].accepted,
           expires |-> cmd[r].expires] \in Review
      BY <1>5, CommandShapes DEF AddReview, Equipped, Gated, Review
    <2> QED BY <1>5, <2>1, AppendGrows DEF AddReview, RecordReview
  <1>6. ASSUME NEW r \in Run, CreateOverride(r) PROVE Grows
    <2>1. [of |-> before[r], expires |-> cmd[r].expires] \in Override
      BY <1>6, CommandShapes DEF CreateOverride, Equipped, Gated, Override
    <2> QED BY <1>6, <2>1, AppendGrows DEF CreateOverride, RecordOverride
  <1>7. ASSUME NEW r \in Run, Revoke(r) PROVE Grows
    BY <1>7 DEF Revoke, RecordRevocations
  <1> QED BY <1>1, <1>2, <1>3, <1>4, <1>5, <1>6, <1>7
          DEF Next, Step, Finished

LEMMA OthersKeep ==
  ASSUME TypeInv, NEW r \in Run, NEW s \in Run, s # r,
         Begin(s) \/ Step(s) \/ FailAfterNative(s) \/ Kill(s)
  PROVE  Keeps(r)
  <1> USE DEF TypeInv, TypeOK, Keeps, Goto, locals, files, host
  <1>1. CASE Begin(s) \/ FailAfterNative(s) \/ Kill(s)
    BY <1>1 DEF Begin, FailAfterNative, Kill
  <1>2. CASE \/ Refuse(s) \/ Inspect(s) \/ Collect(s) \/ LoadReviews(s)
             \/ Resolve(s) \/ NativeEnable(s) \/ NativeFails(s)
    BY <1>2 DEF Refuse, Inspect, Collect, LoadReviews, Resolve, NativeEnable,
                NativeFails
  <1>3. CASE \/ Recollect(s) \/ RecollectFacts(s) \/ RecollectReviews(s)
             \/ Reresolve(s) \/ Undo(s)
    BY <1>3 DEF Recollect, RecollectFacts, RecollectReviews, Reresolve, Undo
  <1>4. CASE \/ DecidePre(s) \/ DecideFailed(s) \/ Missing(s) \/ DecidePost(s)
    <2>1. \A d \in decisions' \ decisions : d.by # r
      <3>1. PICK d : d.by = s /\ decisions' = decisions \cup {d}
        BY <1>4, Records
      <3> QED BY <3>1
    <2> QED BY <1>4, <2>1 DEF DecidePre, DecideFailed, Missing, DecidePost
  <1>5. CASE \/ AuditAttempt(s) \/ Complete(s) \/ Audit(s) \/ AddReview(s)
             \/ Revoke(s) \/ CreateOverride(s)
    BY <1>5 DEF AuditAttempt, Complete, Audit, AddReview, Revoke,
                CreateOverride
  <1> QED BY <1>1, <1>2, <1>3, <1>4, <1>5 DEF Step

-----------------------------------------------------------------------------
(***************************************************************************)
(* What is on record of one invocation.                                    *)
(***************************************************************************)
BeforePre == {"idle", "inspect", "collect", "reviews", "resolve", "pre",
              "add", "revoke", "create", "audit"}
AfterNative == {"recollect", "missing", "recollect_facts",
                "recollect_reviews", "reresolve", "post", "undo", "complete"}
                  \cup Ended

PreOf(r) == {d \in decisions : d.by = r /\ d.stage = "pre"}

OnRecord(r) ==
    \E d \in decisions :
        /\ d.by = r /\ d.stage = "pre" /\ d.of = before[r]
        /\ ~Blocks(r, d)
        /\ d.basis = "override" => [by |-> r, completed |-> FALSE] \in events

NoFault == budget.faults = MaxFaults

\* The gate's decision is the only one of its stage until it is acted on; who
\* has enabled has passed it; whoever ends later, without a fault, has decided
\* again, and has undone what it refuses.
Recorded(r) ==
    /\ pc[r] \in BeforePre => PreOf(r) = {}
    /\ pc[r] = "attempt" => \E d : PreOf(r) = {d} /\ d.of = before[r]
    /\ pc[r] = "native" => OnRecord(r)
    /\ Enabled(r) => pc[r] \in AfterNative /\ OnRecord(r)
    /\ Enabled(r) /\ pc[r] \in Ended \cup {"undo", "complete"} /\ NoFault =>
          \E d \in decisions : d.by = r /\ d.stage # "pre"
    /\ Enabled(r) /\ pc[r] = "err" /\ NoFault =>
          undone[r] = "ok" \/ ~enabled[r]

\* Who has recorded a post decision has recorded one after the first.
LEMMA EvaluationCounts ==
  ASSUME NEW r \in Run, NEW c, NEW post \in BOOLEAN, NEW stage, stage # "pre",
         NEW known, Evaluate(r, stage, c, post) \in known
  PROVE  \E d \in known : d.by = r /\ d.stage # "pre"
  <1>1. /\ Evaluate(r, stage, c, post).by = r
        /\ Evaluate(r, stage, c, post).stage = stage
    BY DEF Evaluate
  <1> QED BY <1>1

\* A spent fault shows.
LEMMA SpendShows == TypeInv /\ Spend => ~NoFault'
  BY BoundsAreNaturals DEF TypeInv, TypeOK, Spend, NoFault

LEMMA FaultsStay == TypeInv /\ TypeInv' /\ Grows /\ NoFault' => NoFault
  BY BoundsAreNaturals DEF TypeInv, TypeOK, Grows, NoFault

LEMMA OnRecordStays ==
  ASSUME NEW r \in Run, Grows, OnRecord(r),
         cmd'[r] = cmd[r], before'[r] = before[r]
  PROVE  OnRecord(r)'
  BY DEF OnRecord, Grows, Blocks

LEMMA RecordedKept ==
  ASSUME TypeInv, TypeInv', NEW r \in Run, Recorded(r), Grows, Keeps(r)
  PROVE  Recorded(r)'
  <1>1. PreOf(r)' = PreOf(r) BY DEF PreOf, Grows, Keeps
  <1>2. OnRecord(r) => OnRecord(r)' BY OnRecordStays DEF Keeps
  <1>3. Enabled(r)' <=> Enabled(r) BY DEF Enabled, Keeps
  <1>4. NoFault' => NoFault BY FaultsStay
  <1>5. (\E d \in decisions : d.by = r /\ d.stage # "pre") =>
            \E d \in decisions' : d.by = r /\ d.stage # "pre"
    BY DEF Grows
  <1> QED BY <1>1, <1>2, <1>3, <1>4, <1>5 DEF Recorded, Keeps

\* Nothing is decided and nothing enabled yet.
LEMMA RecordedEarly ==
  ASSUME NEW r \in Run, Recorded(r), pc[r] \in BeforePre,
         pc'[r] \in BeforePre \cup Ended,
         decisions' = decisions, since' = since
  PROVE  Recorded(r)'
  <1>1. ~Enabled(r) BY DEF Recorded, BeforePre, AfterNative, Ended
  <1>2. ~Enabled(r)' BY <1>1 DEF Enabled
  <1>3. PreOf(r)' = {} BY DEF Recorded, PreOf
  <1> QED BY <1>2, <1>3 DEF Recorded, BeforePre, Ended

\* From the native command on.
LEMMA RecordedLate ==
  ASSUME TypeInv, TypeInv', NEW r \in Run, Recorded(r), Grows,
         pc[r] \in AfterNative, pc'[r] \in AfterNative,
         cmd'[r] = cmd[r], before'[r] = before[r], since' = since,
         pc'[r] \in Ended \cup {"undo", "complete"} /\ NoFault' =>
            \E d \in decisions' : d.by = r /\ d.stage # "pre",
         pc'[r] = "err" /\ NoFault' =>
            (undone[r] = "ok" \/ ~enabled[r])'
  PROVE  Recorded(r)'
  <1>1. Enabled(r)' => OnRecord(r)'
    BY OnRecordStays DEF Recorded, Enabled
  <1> QED BY <1>1 DEF Recorded, AfterNative, BeforePre, Ended

LEMMA RecordedQuiet ==
  ASSUME TypeInv, TypeInv', NEW r \in Run, Recorded(r), Grows,
         \/ Begin(r) \/ Refuse(r) \/ Inspect(r) \/ Collect(r)
         \/ LoadReviews(r) \/ Resolve(r) \/ AddReview(r) \/ Revoke(r)
         \/ CreateOverride(r) \/ Audit(r)
  PROVE  Recorded(r)'
  <1> USE DEF TypeInv, TypeOK, Goto, locals, files, host, BeforePre, Ended
  <1>1. pc[r] \in BeforePre /\ decisions' = decisions /\ since' = since
    BY DEF Begin, Refuse, Inspect, Collect, LoadReviews, Resolve, AddReview,
           Revoke, CreateOverride, Audit
  <1>2. pc'[r] \in BeforePre \cup Ended
    <2>1. CASE Begin(r)
      <3>1. PICK c \in May[r] :
              Goto(r, CASE c.do = "enable" -> "inspect"
                        [] c.do = "override" -> "inspect"
                        [] c.do = "review" -> "collect"
                        [] c.do = "revoke" -> "revoke")
        BY <2>1 DEF Begin
      <3>2. c.do \in {"enable", "override", "review", "revoke"}
        BY ContentsAreTyped DEF Command
      <3> QED BY <3>1, <3>2
    <2>2. CASE LoadReviews(r)
      <3>1. cmd[r].do \in {"enable", "override", "review"}
        BY <2>2 DEF LoadReviews, Equipped
      <3> QED BY <2>2, <3>1 DEF LoadReviews
    <2>3. CASE \/ Refuse(r) \/ Inspect(r) \/ Collect(r) \/ Resolve(r)
               \/ AddReview(r) \/ Revoke(r) \/ CreateOverride(r) \/ Audit(r)
      BY <2>3 DEF Refuse, Inspect, Collect, Resolve, AddReview, Revoke,
                  CreateOverride, Audit
    <2> QED BY <2>1, <2>2, <2>3
  <1> QED BY <1>1, <1>2, RecordedEarly

LEMMA RecordedGate ==
  ASSUME TypeInv, TypeInv', NEW r \in Run, Recorded(r), Grows,
         DecidePre(r) \/ AuditAttempt(r)
  PROVE  Recorded(r)'
  <1> USE DEF TypeInv, TypeOK, Goto, locals, files, host
  <1>1. ~Enabled(r)
    BY DEF Recorded, DecidePre, AuditAttempt, AfterNative, Ended
  <1>2. ~Enabled(r)' BY <1>1 DEF Enabled, DecidePre, AuditAttempt
  <1>3. UNCHANGED <<before, cmd>> BY DEF DecidePre, AuditAttempt
  <1>4. CASE DecidePre(r)
    <2> DEFINE d == PreDecision(r)
    <2>1. /\ d.by = r /\ d.stage = "pre" /\ d.of = before[r]
          /\ d.basis = "override" => override[r].present
      BY DEF PreDecision, Evaluate, OverrideUsable
    <2> HIDE DEF d
    <2>2. /\ decisions' = decisions \cup {d} /\ pc[r] = "pre"
          /\ pc'[r] = IF override[r].present THEN "attempt" ELSE Gate(r, d)
      BY <1>4 DEF DecidePre, RecordDecision, d
    <2>3. PreOf(r)' = {d}
      BY <2>1, <2>2 DEF Recorded, PreOf, BeforePre
    <2>4. pc'[r] \in {"attempt", "err", "native"}
      BY <2>2 DEF Gate
    <2>5. pc'[r] = "native" => OnRecord(r)'
      BY <2>1, <2>2, <1>3 DEF Gate, OnRecord, Blocks
    <2>6. pc'[r] = "attempt" =>
            \E e : PreOf(r)' = {e} /\ e.of = before'[r]
      BY <2>1, <2>3, <1>3
    <2> QED BY <1>2, <2>4, <2>5, <2>6 DEF Recorded, BeforePre
  <1>5. CASE AuditAttempt(r)
    <2>1. PICK d : PreOf(r) = {d} /\ d.of = before[r]
      BY <1>5 DEF AuditAttempt, Recorded
    <2>2. Decided(r, "pre") = d
      BY <2>1 DEF Decided, PreOf
    <2>3. /\ pc'[r] = Gate(r, d) /\ decisions' = decisions
          /\ [by |-> r, completed |-> FALSE] \in events'
      BY <1>5, <2>2 DEF AuditAttempt, RecordEvent
    <2>4. d \in decisions /\ d.by = r /\ d.stage = "pre"
      BY <2>1 DEF PreOf
    <2>5. pc'[r] = "native" => OnRecord(r)'
      BY <2>1, <2>3, <2>4, <1>3 DEF Gate, OnRecord, Blocks
    <2>6. pc'[r] \in {"err", "native"} BY <2>3 DEF Gate
    <2> QED BY <1>2, <2>5, <2>6 DEF Recorded, BeforePre
  <1> QED BY <1>4, <1>5

LEMMA RecordedNative ==
  ASSUME TypeInv, TypeInv', NEW r \in Run, Recorded(r), Grows,
         NativeEnable(r) \/ NativeFails(r) \/ DecideFailed(r)
  PROVE  Recorded(r)'
  <1> USE DEF TypeInv, TypeOK, Goto, locals, files, host
  <1>1. cmd'[r] = cmd[r] /\ before'[r] = before[r]
    BY DEF NativeEnable, NativeFails, DecideFailed
  <1>2. CASE NativeEnable(r)
    <2>1. pc[r] = "native" /\ pc'[r] = "recollect"
      BY <1>2 DEF NativeEnable
    <2>2. OnRecord(r)' BY <2>1, <1>1, OnRecordStays DEF Recorded
    <2> QED BY <2>1, <2>2 DEF Recorded, BeforePre, AfterNative, Ended
  <1>3. CASE NativeFails(r) \/ DecideFailed(r)
    <2>1. /\ pc[r] \in {"native", "failed"} /\ pc'[r] \in {"failed", "err"}
          /\ since' = since
      BY <1>3 DEF NativeFails, DecideFailed
    <2>2. ~Enabled(r)'
      BY <2>1 DEF Recorded, Enabled, AfterNative, Ended
    <2> QED BY <2>1, <2>2 DEF Recorded, BeforePre
  <1> QED BY <1>2, <1>3

LEMMA RecordedFault ==
  ASSUME TypeInv, TypeInv', NEW r \in Run, Recorded(r), Grows,
         FailAfterNative(r) \/ Kill(r)
  PROVE  Recorded(r)'
  <1> USE DEF TypeInv, TypeOK, Goto, locals, files, host
  <1>1. /\ cmd'[r] = cmd[r] /\ before'[r] = before[r] /\ since' = since
        /\ pc'[r] \in {"err", "dead"}
    BY DEF FailAfterNative, Kill
  <1>2. ~NoFault' BY SpendShows DEF FailAfterNative, Kill
  <1>3. Enabled(r)' => OnRecord(r)'
    BY <1>1, OnRecordStays DEF Recorded, Enabled
  <1> QED BY <1>1, <1>2, <1>3 DEF Recorded, AfterNative, BeforePre, Ended

LEMMA RecordedAfter ==
  ASSUME TypeInv, TypeInv', NEW r \in Run, Recorded(r), Grows,
         \/ Recollect(r) \/ Missing(r) \/ RecollectFacts(r)
         \/ RecollectReviews(r) \/ Reresolve(r) \/ DecidePost(r) \/ Undo(r)
         \/ Complete(r)
  PROVE  Recorded(r)'
  <1> USE DEF TypeInv, TypeOK, Goto, locals, files, host, AfterNative, Ended
  <1>1. UNCHANGED <<cmd, before, since>> /\ pc[r] \in AfterNative
    BY DEF Recollect, Missing, RecollectFacts, RecollectReviews, Reresolve,
           DecidePost, Undo, Complete
  <1>2. CASE \/ Recollect(r) \/ RecollectFacts(r) \/ RecollectReviews(r)
             \/ Reresolve(r)
    <2>1. pc'[r] \in {"missing", "recollect_facts", "recollect_reviews",
                      "reresolve", "post"}
      BY <1>2 DEF Recollect, RecollectFacts, RecollectReviews, Reresolve
    <2> QED BY <1>1, <2>1, RecordedLate
  <1>3. CASE Missing(r)
    <2>1. decisions' = decisions \cup {Evaluate(r, "failed", before[r], FALSE)}
          /\ pc'[r] = "err"
      BY <1>3 DEF Missing, RecordDecision
    <2>2. \E d \in decisions' : d.by = r /\ d.stage # "pre"
      <3> DEFINE d == Evaluate(r, "failed", before[r], FALSE)
      <3>1. d.by = r /\ d.stage = "failed" BY DEF Evaluate
      <3>2. d \in decisions' BY <2>1
      <3> HIDE DEF d
      <3> QED BY <3>1, <3>2
    <2>3. undone'[r] = "ok" \/ Spend
      BY <1>3 DEF Missing
    <2>4. Spend => ~NoFault'
      BY SpendShows
    <2>5. NoFault' => undone'[r] = "ok"
      BY <2>3, <2>4
    <2> QED BY <1>1, <2>1, <2>2, <2>5, RecordedLate
  <1>4. CASE DecidePost(r)
    <2>1. /\ decisions' =
                decisions \cup {Evaluate(r, "post", Judged(r), passed[r])}
          /\ pc'[r] \in {"undo", "complete"}
      BY <1>4 DEF DecidePost, RecordDecision
    <2>2. \E d \in decisions' : d.by = r /\ d.stage # "pre"
      <3>1. Evaluate(r, "post", Judged(r), passed[r]) \in decisions' BY <2>1
      <3>2. passed[r] \in BOOLEAN OBVIOUS
      <3> HIDE DEF TypeInv, TypeOK
      <3> QED BY <3>1, <3>2, EvaluationCounts
    <2> QED BY <1>1, <2>1, <2>2, RecordedLate
  <1>5. CASE Undo(r) \/ Complete(r)
    <2>1. /\ pc[r] \in {"undo", "complete"} /\ decisions' = decisions
          /\ pc'[r] \in {"err", "ok"} /\ (pc'[r] = "err" => Undo(r))
      BY <1>5 DEF Undo, Complete
    <2>2. NoFault' => NoFault BY FaultsStay
    <2>3. Undo(r) /\ NoFault' => undone'[r] = "ok" \/ ~enabled'[r]
      BY SpendShows DEF Undo
    <2>4. CASE Enabled(r)
      BY <1>1, <2>1, <2>2, <2>3, <2>4, RecordedLate DEF Recorded
    <2>5. CASE ~Enabled(r)
      BY <1>1, <2>1, <2>5 DEF Recorded, Enabled, BeforePre
    <2> QED BY <2>4, <2>5
  <1> QED BY <1>2, <1>3, <1>4, <1>5

LEMMA RecordedOwn ==
  ASSUME TypeInv, TypeInv', NEW r \in Run, Recorded(r), Grows,
         Begin(r) \/ Step(r) \/ FailAfterNative(r) \/ Kill(r)
  PROVE  Recorded(r)'
  BY RecordedQuiet, RecordedGate, RecordedNative, RecordedFault, RecordedAfter
  DEF Step

LEMMA KeptOutside ==
  ASSUME Edit \/ Tick \/ UNCHANGED vars, NEW r \in Run PROVE Keeps(r)
  BY DEF Edit, Tick, vars, Keeps, locals, files, host

RecordInv == TypeInv /\ \A r \in Run : Recorded(r)

LEMMA RecordStep == RecordInv /\ [Next]_vars => RecordInv'
  <1> SUFFICES ASSUME RecordInv, [Next]_vars PROVE RecordInv'
    OBVIOUS
  <1>1. TypeInv /\ TypeInv' BY TypeStep DEF RecordInv
  <1>2. Grows BY <1>1, StepGrows
  <1>3. ASSUME NEW r \in Run PROVE Recorded(r)'
    <2>1. Recorded(r) BY DEF RecordInv
    <2>2. CASE \E s \in Run : Begin(s) \/ Step(s) \/ FailAfterNative(s)
                                \/ Kill(s)
      <3>1. PICK s \in Run : Begin(s) \/ Step(s) \/ FailAfterNative(s)
                                \/ Kill(s)
        BY <2>2
      <3>2. CASE s = r BY <1>1, <1>2, <2>1, <3>1, <3>2, RecordedOwn
      <3>3. CASE s # r
        <4>1. Keeps(r) BY <1>1, <3>1, <3>3, OthersKeep
        <4> QED BY <1>1, <1>2, <2>1, <4>1, RecordedKept
      <3> QED BY <3>2, <3>3
    <2>3. CASE Edit \/ Tick \/ UNCHANGED vars
      BY <1>1, <1>2, <2>1, <2>3, KeptOutside, RecordedKept
    <2> QED BY <2>2, <2>3 DEF Next, Finished
  <1> QED BY <1>1, <1>3 DEF RecordInv

LEMMA RecordInit == Init => RecordInv
  BY TypeInit DEF Init, RecordInv, Recorded, BeforePre, PreOf, Enabled

\* Whatever was made live is on record first, and once the command has ended
\* without a fault, so is the decision about what was really enabled.
THEOREM EnablesAreRecorded == Spec => []EnableIsOnRecord
  <1>1. RecordInv => EnableIsOnRecord
    BY DEF RecordInv, Recorded, EnableIsOnRecord, OnRecord, NoFault
  <1> QED BY <1>1, RecordInit, RecordStep, PTL DEF Spec

\* As long as nothing fails, a refusal has taken the plugin off again.
THEOREM RefusalsAreUndone == Spec => []RefusalsUndo
  <1>1. RecordInv => RefusalsUndo
    BY DEF RecordInv, Recorded, RefusalsUndo, NoFault
  <1> QED BY <1>1, RecordInit, RecordStep, PTL DEF Spec

-----------------------------------------------------------------------------
(***************************************************************************)
(* What an enable that succeeds was authorised by.                         *)
(***************************************************************************)
\* A review not revoked when the native command ran, nor expired then; it may
\* have been added since.
Reviewed(r) ==
    \E i \in DOMAIN reviews \ since[r].revoked :
        Authorizes(i, before[r], since[r].at)

\* An override that was the latest then, or one made since.
Overridden(r) ==
    \E k \in DOMAIN overrides :
        /\ k >= since[r].overrides
        /\ overrides[k].of = before[r] /\ overrides[k].expires > since[r].at

Lasting(r) ==
    cmd[r].mode = "hardened" =>
        /\ NeedsReview(before[r]) => Reviewed(r)
        /\ before[r] \in Flagged => Overridden(r)

\* What an invocation read after the native command is of a state at or after
\* it; the second decision is taken by what was read then.
Authorised(r) ==
    Enabled(r) =>
        /\ pc[r] \in AfterNative
        /\ since[r].revoked \subseteq revoked
        /\ since[r].overrides <= Len(overrides)
        /\ since[r].at <= clock
        /\ pc[r] \in {"reresolve", "post"} /\ after[r] # None =>
              active[r] \subseteq DOMAIN reviews \ since[r].revoked
        /\ pc[r] = "post" /\ passed[r] => after[r] = before[r]
        /\ pc[r] = "post" /\ passed[r] /\ override[r].valid => Overridden(r)
        /\ pc[r] \in {"complete", "ok"} => Lasting(r)

LEMMA SinceIsTyped ==
  ASSUME TypeInv, NEW r \in Run, Enabled(r)
  PROVE  since[r] \in Witness
  BY DEF TypeInv, TypeOK, Enabled

\* The files only grow, and so does what rests on them.
LEMMA LastingStays ==
  ASSUME TypeInv, TypeInv', Grows, NEW r \in Run, Enabled(r),
         since'[r] = since[r], before'[r] = before[r], cmd'[r] = cmd[r]
  PROVE  /\ Reviewed(r) => Reviewed(r)'
         /\ Overridden(r) => Overridden(r)'
         /\ Lasting(r) => Lasting(r)'
  <1>1. Reviewed(r) => Reviewed(r)'
    BY DEF Reviewed, Authorizes, Grows, Longer
  <1>2. Overridden(r) => Overridden(r)'
    BY DEF Overridden, Grows, Longer
  <1> QED BY <1>1, <1>2 DEF Lasting

LEMMA BoundsStay ==
  ASSUME TypeInv, TypeInv', Grows, NEW r \in Run, Enabled(r), Authorised(r),
         since'[r] = since[r]
  PROVE  /\ since'[r].revoked \subseteq revoked'
         /\ since'[r].overrides <= Len(overrides')
         /\ since'[r].at <= clock'
  <1>1. since[r].overrides \in Nat /\ since[r].at \in Nat
    BY SinceIsTyped, BoundsAreNaturals DEF Witness
  <1>2. /\ Len(overrides) \in Nat /\ Len(overrides') \in Nat
        /\ clock \in Nat /\ clock' \in Nat
    BY BoundsAreNaturals DEF TypeInv, TypeOK
  <1>3. since'[r].overrides <= Len(overrides')
    BY <1>1, <1>2 DEF Authorised, Grows
  <1>4. since'[r].at <= clock' BY <1>1, <1>2 DEF Authorised, Grows
  <1> QED BY <1>3, <1>4 DEF Authorised, Grows

LEMMA AuthorisedKept ==
  ASSUME TypeInv, TypeInv', NEW r \in Run, Authorised(r), Grows, Keeps(r)
  PROVE  Authorised(r)'
  <1> SUFFICES ASSUME Enabled(r)' PROVE Authorised(r)'
    BY DEF Authorised
  <1>1. Enabled(r) BY DEF Enabled, Keeps
  <1>2. since'[r] = since[r] /\ before'[r] = before[r] /\ cmd'[r] = cmd[r]
    BY DEF Keeps
  <1>3. DOMAIN reviews \subseteq DOMAIN reviews' BY DEF Grows, Longer
  <1>4. pc'[r] \in {"reresolve", "post"} /\ after'[r] # None =>
            active'[r] \subseteq DOMAIN reviews' \ since'[r].revoked
    BY <1>1, <1>2, <1>3 DEF Authorised, Keeps
  <1>5. /\ pc'[r] = "post" /\ passed'[r] => after'[r] = before'[r]
        /\ pc'[r] = "post" /\ passed'[r] /\ override'[r].valid
                => Overridden(r)'
        /\ pc'[r] \in {"complete", "ok"} => Lasting(r)'
    BY <1>1, <1>2, LastingStays DEF Authorised, Keeps
  <1>6. pc'[r] \in AfterNative BY <1>1 DEF Authorised, Keeps
  <1> QED BY <1>1, <1>2, <1>4, <1>5, <1>6, BoundsStay DEF Authorised

LEMMA AuthorisedBefore ==
  ASSUME TypeInv, TypeInv', NEW r \in Run, Authorised(r), Grows,
         \/ Begin(r) \/ Refuse(r) \/ Inspect(r) \/ Collect(r)
         \/ LoadReviews(r) \/ Resolve(r) \/ AddReview(r) \/ Revoke(r)
         \/ CreateOverride(r) \/ Audit(r) \/ DecidePre(r) \/ AuditAttempt(r)
         \/ NativeFails(r) \/ DecideFailed(r)
  PROVE  Authorised(r)'
  <1>1. pc[r] \notin AfterNative /\ since' = since
    BY DEF Begin, Refuse, Inspect, Collect, LoadReviews, Resolve, AddReview,
           Revoke, CreateOverride, Audit, DecidePre, AuditAttempt,
           NativeFails, DecideFailed, AfterNative, Ended
  <1> QED BY <1>1 DEF Authorised, Enabled

LEMMA AuthorisedNative ==
  ASSUME TypeInv, TypeInv', NEW r \in Run, NativeEnable(r)
  PROVE  Authorised(r)'
  <1>1. /\ pc'[r] = "recollect"
        /\ since'[r] = [revoked |-> revoked, overrides |-> Len(overrides),
                        at |-> clock]
        /\ UNCHANGED <<revoked, overrides, clock>>
    BY DEF NativeEnable, Goto, TypeInv, TypeOK, files
  <1>2. Len(overrides) \in Nat /\ clock \in Nat
    BY BoundsAreNaturals DEF TypeInv, TypeOK
  <1> QED BY <1>1, <1>2 DEF Authorised, AfterNative

\* A step to a point of no claim but the bounds.
LEMMA AuthorisedElsewhere ==
  ASSUME TypeInv, TypeInv', NEW r \in Run, Authorised(r), Grows,
         since' = since,
         pc'[r] \in {"missing", "recollect_facts", "recollect_reviews",
                     "undo", "err", "dead"}
  PROVE  Authorised(r)'
  <1> SUFFICES ASSUME Enabled(r)' PROVE Authorised(r)'
    BY DEF Authorised
  <1>1. Enabled(r) BY DEF Enabled
  <1> QED BY <1>1, BoundsStay DEF Authorised, AfterNative, Ended

\* The reviews that count are read again.
LEMMA AuthorisedReviews ==
  ASSUME TypeInv, TypeInv', NEW r \in Run, Authorised(r), Grows,
         RecollectReviews(r)
  PROVE  Authorised(r)'
  <1> SUFFICES ASSUME Enabled(r)' PROVE Authorised(r)'
    BY DEF Authorised
  <1>1. pc'[r] = "reresolve" /\ UNCHANGED <<since, reviews, revoked>>
    BY DEF RecollectReviews, Goto, TypeInv, TypeOK, files
  <1>2. Enabled(r) BY <1>1 DEF Enabled
  <1>3. after'[r] # None => active'[r] = DOMAIN reviews \ revoked
    BY DEF RecollectReviews, ActiveReviews, TypeInv, TypeOK
  <1>4. after'[r] # None =>
            active'[r] \subseteq DOMAIN reviews' \ since'[r].revoked
    BY <1>1, <1>2, <1>3 DEF Authorised
  <1> QED BY <1>1, <1>2, <1>4, BoundsStay DEF Authorised, AfterNative

\* A valid latest override is at least as late as the native command.
LEMMA AuthorisedResolved ==
  ASSUME TypeInv, TypeInv', NEW r \in Run, Authorised(r), Grows,
         Reresolve(r)
  PROVE  Authorised(r)'
  <1> SUFFICES ASSUME Enabled(r)' PROVE Authorised(r)'
    BY DEF Authorised
  <1>1. /\ pc[r] = "reresolve" /\ pc'[r] = "post"
        /\ UNCHANGED <<since, reviews, revoked, overrides, clock, after,
                       before, active, cmd>>
    BY DEF Reresolve, Goto, TypeInv, TypeOK, files
  <1>2. Enabled(r) BY <1>1 DEF Enabled
  <1>3. passed'[r] => after[r] = before[r]
    BY DEF Reresolve, TypeInv, TypeOK
  <1>4. after'[r] # None =>
            active'[r] \subseteq DOMAIN reviews' \ since'[r].revoked
    BY <1>1, <1>2 DEF Authorised
  <1>5. override'[r] = ResolveOverride(r, Judged(r))
    BY DEF Reresolve, TypeInv, TypeOK
  <1>6. ASSUME passed'[r], override'[r].valid PROVE Overridden(r)'
    <2>1. Judged(r) = before[r] BY <1>3, <1>6 DEF Judged
    <2>2. /\ overrides # <<>> /\ overrides[Len(overrides)].of = before[r]
          /\ overrides[Len(overrides)].expires > clock
      BY <1>5, <1>6, <2>1 DEF ResolveOverride, LatestOverride
    <2>3. /\ Len(overrides) \in DOMAIN overrides
          /\ overrides[Len(overrides)] \in Override
      BY <2>2 DEF TypeInv, TypeOK
    <2>4. overrides[Len(overrides)].expires \in Nat /\ clock \in Nat
      BY <2>3, BoundsAreNaturals DEF Override, TypeInv, TypeOK
    <2>5. since[r].at \in Nat /\ since[r].at <= clock
          /\ Len(overrides) >= since[r].overrides
      BY <1>2, SinceIsTyped, BoundsAreNaturals DEF Witness, Authorised
    <2>6. overrides[Len(overrides)].expires > since[r].at
      BY <2>2, <2>4, <2>5
    <2> QED BY <1>1, <2>2, <2>3, <2>5, <2>6 DEF Overridden
  <1> QED BY <1>1, <1>2, <1>3, <1>4, <1>6, BoundsStay DEF Authorised,
             AfterNative

\* What the second decision lets stand has its review and its override.
LEMMA PostIsAuthorised ==
  ASSUME TypeInv, NEW r \in Run, Authorised(r), Enabled(r),
         pc[r] = "post", passed[r],
         ~Blocks(r, Evaluate(r, "post", Judged(r), passed[r]))
  PROVE  Lasting(r)
  <1> SUFFICES ASSUME cmd[r].mode = "hardened"
               PROVE  /\ NeedsReview(before[r]) => Reviewed(r)
                      /\ before[r] \in Flagged => Overridden(r)
    BY DEF Lasting
  <1> DEFINE c == before[r]
             why == Reasons("hardened", c, passed[r], active[r], override[r],
                            clock)
             usable == OverrideUsable("hardened", c, active[r], override[r],
                                      clock)
  <1>1. c \in Content BY DEF TypeInv, Equipped, Gated
  <1>2. after[r] = c /\ Judged(r) = c BY DEF Authorised, Judged
  <1>3. active[r] \subseteq DOMAIN reviews \ since[r].revoked
    BY <1>1, <1>2, NoneIsFresh DEF Authorised
  <1>4. why = {} \/ usable
    BY <1>2 DEF Blocks, Evaluate
  <1>5. NeedsReview(c) => Reviewed(r)
    <2> SUFFICES ASSUME NeedsReview(c) PROVE Reviewed(r)
      OBVIOUS
    <2>1. ~OpaqueBlocked(c, active[r], clock)
      BY <1>4 DEF Reasons, OverrideUsable
    <2>2. PICK i \in active[r] : Authorizes(i, c, clock)
      BY <2>1 DEF OpaqueBlocked
    <2>3. i \in DOMAIN reviews \ since[r].revoked /\ reviews[i] \in Review
      BY <2>2, <1>3 DEF TypeInv, TypeOK
    <2>4. since[r].at \in Nat /\ clock \in Nat /\ since[r].at <= clock
          /\ reviews[i].expires \in Nat
      BY <2>3, SinceIsTyped, BoundsAreNaturals
      DEF Witness, Authorised, Review, TypeInv, TypeOK
    <2>5. Authorizes(i, c, since[r].at)
      BY <2>2, <2>4 DEF Authorizes
    <2> QED BY <2>3, <2>5 DEF Reviewed
  <1>6. c \in Flagged => Overridden(r)
    <2> SUFFICES ASSUME c \in Flagged PROVE Overridden(r)
      OBVIOUS
    <2>1. "flagged" \in why BY DEF Reasons
    <2>2. override[r].valid BY <1>4, <2>1 DEF OverrideUsable
    <2> QED BY <2>2 DEF Authorised
  <1> QED BY <1>5, <1>6

LEMMA AuthorisedDecided ==
  ASSUME TypeInv, TypeInv', NEW r \in Run, Authorised(r), Grows,
         DecidePost(r) \/ Complete(r)
  PROVE  Authorised(r)'
  <1> SUFFICES ASSUME Enabled(r)' PROVE Authorised(r)'
    BY DEF Authorised
  <1>1. UNCHANGED <<since, before, cmd>>
    BY DEF DecidePost, Complete, locals
  <1>2. Enabled(r) BY <1>1 DEF Enabled
  <1>3. /\ pc'[r] \in {"undo", "complete", "ok"}
        /\ pc'[r] # "undo" => Lasting(r)
    <2>1. CASE DecidePost(r)
      <3> DEFINE d == Evaluate(r, "post", Judged(r), passed[r])
      <3>1. pc[r] = "post"
            /\ pc'[r] = IF ~passed[r] \/ Blocks(r, d) THEN "undo"
                        ELSE "complete"
        BY <2>1 DEF DecidePost, Goto, TypeInv, TypeOK
      <3>2. CASE ~passed[r] \/ Blocks(r, d) BY <3>1, <3>2
      <3>3. CASE passed[r] /\ ~Blocks(r, d)
        BY <1>2, <3>1, <3>3, PostIsAuthorised
      <3> QED BY <3>2, <3>3
    <2>2. CASE Complete(r)
      BY <1>2, <2>2 DEF Complete, Goto, Authorised, TypeInv, TypeOK
    <2> QED BY <2>1, <2>2
  <1>4. pc'[r] # "undo" => Lasting(r)'
    BY <1>1, <1>2, <1>3, LastingStays
  <1> QED BY <1>1, <1>2, <1>3, <1>4, BoundsStay
          DEF Authorised, AfterNative, Ended

LEMMA AuthorisedOwn ==
  ASSUME TypeInv, TypeInv', NEW r \in Run, Authorised(r), Grows,
         Begin(r) \/ Step(r) \/ FailAfterNative(r) \/ Kill(r)
  PROVE  Authorised(r)'
  <1>1. CASE \/ Recollect(r) \/ Missing(r) \/ Undo(r) \/ FailAfterNative(r)
             \/ Kill(r)
    <2> USE DEF TypeInv, TypeOK, Goto
    <2>1. since' = since
      BY <1>1 DEF Recollect, Missing, Undo, FailAfterNative, Kill
    <2>2. Recollect(r) => pc'[r] \in {"missing", "recollect_facts"}
      BY DEF Recollect
    <2>3. Missing(r) \/ Undo(r) \/ FailAfterNative(r) => pc'[r] = "err"
      BY DEF Missing, Undo, FailAfterNative
    <2>4. Kill(r) => pc'[r] = "dead"
      BY DEF Kill
    <2>5. pc'[r] \in {"missing", "recollect_facts", "err", "dead"}
      BY <1>1, <2>2, <2>3, <2>4
    <2> QED BY <2>1, <2>5, AuthorisedElsewhere
  <1>2. CASE RecollectFacts(r)
    <2>1. since' = since
          /\ \/ pc'[r] = "recollect_reviews"
             \/ pc'[r] = "reresolve" /\ after'[r] = None
      BY <1>2 DEF RecollectFacts, Goto, TypeInv, TypeOK
    <2>2. CASE pc'[r] = "recollect_reviews"
      BY <2>1, <2>2, AuthorisedElsewhere
    <2>3. CASE pc'[r] = "reresolve" /\ after'[r] = None
      <3>1. Enabled(r)' => Enabled(r) BY <2>1 DEF Enabled
      <3> QED BY <2>1, <2>3, <3>1, BoundsStay DEF Authorised, AfterNative
    <2> QED BY <2>1, <2>2, <2>3
  <1> QED BY <1>1, <1>2, AuthorisedBefore, AuthorisedNative,
             AuthorisedReviews, AuthorisedResolved, AuthorisedDecided
          DEF Step

AuthorityInv == TypeInv /\ \A r \in Run : Authorised(r)

LEMMA AuthorityStep == AuthorityInv /\ [Next]_vars => AuthorityInv'
  <1> SUFFICES ASSUME AuthorityInv, [Next]_vars PROVE AuthorityInv'
    OBVIOUS
  <1>1. TypeInv /\ TypeInv' BY TypeStep DEF AuthorityInv
  <1>2. Grows BY <1>1, StepGrows
  <1>3. ASSUME NEW r \in Run PROVE Authorised(r)'
    <2>1. Authorised(r) BY DEF AuthorityInv
    <2>2. CASE \E s \in Run : Begin(s) \/ Step(s) \/ FailAfterNative(s)
                                \/ Kill(s)
      <3>1. PICK s \in Run : Begin(s) \/ Step(s) \/ FailAfterNative(s)
                                \/ Kill(s)
        BY <2>2
      <3>2. CASE s = r BY <1>1, <1>2, <2>1, <3>1, <3>2, AuthorisedOwn
      <3>3. CASE s # r
        <4>1. Keeps(r) BY <1>1, <3>1, <3>3, OthersKeep
        <4> QED BY <1>1, <1>2, <2>1, <4>1, AuthorisedKept
      <3> QED BY <3>2, <3>3
    <2>3. CASE Edit \/ Tick \/ UNCHANGED vars
      BY <1>1, <1>2, <2>1, <2>3, KeptOutside, AuthorisedKept
    <2> QED BY <2>2, <2>3 DEF Next, Finished
  <1> QED BY <1>1, <1>3 DEF AuthorityInv

\* A hardened enable that reports success is authorised by a review that was
\* not revoked, and by an override that was not superseded, when the native
\* command ran, each of them unexpired then; both may have been added after it.
THEOREM EnablesAreAuthorised == Spec => []AuthorisedWhenEnabled
  <1>1. Init => AuthorityInv
    BY TypeInit DEF Init, AuthorityInv, Authorised, Enabled
  <1>2. AuthorityInv => AuthorisedWhenEnabled
    BY DEF AuthorityInv, Authorised, AuthorisedWhenEnabled, Lasting,
           Reviewed, Overridden
  <1> QED BY <1>1, <1>2, AuthorityStep, PTL DEF Spec
-----------------------------------------------------------------------------
(***************************************************************************)
(* What the read-only commands say of the reviews.                         *)
(***************************************************************************)
\* Some natural numbers have a least one.
LEMMA LeastNatural ==
  ASSUME NEW T \in SUBSET Nat, T # {}
  PROVE  \E k \in T : \A m \in T : k <= m
  <1> DEFINE Less == OpToRel(<, Nat)
  <1>1. IsWellFoundedOn(Less, Nat)
    BY NatLessThanWellFounded
  <1>2. \A a, b \in Nat : a < b => <<a, b>> \in Less
    BY DEF OpToRel
  <1> HIDE DEF Less
  <1>3. PICK k \in T : \A m \in T : ~ (<<m, k>> \in Less)
    BY <1>1, WFMin, Zenon
  <1>4. ASSUME NEW m \in T PROVE k <= m
    <2>1. m \in Nat /\ k \in Nat
      OBVIOUS
    <2>2. <<m, k>> \notin Less
      BY <1>3
    <2>3. ~(m < k)
      BY <1>2, <2>1, <2>2
    <2> QED BY <2>1, <2>3
  <1> QED BY <1>4

\* The latest of some reviews of a history is one of them.
LEMMA LatestIsOne ==
  ASSUME TypeOK, NEW S \in SUBSET DOMAIN reviews, S # {}
  PROVE  \E i \in S : \A j \in S : j <= i
  <1> DEFINE n == Len(reviews)
             T == {n - i : i \in S}
  <1>1. n \in Nat /\ \A i \in S : i \in 1..n BY DEF TypeOK
  <1>2. T \in SUBSET Nat /\ T # {} BY <1>1
  <1> HIDE DEF T
  <1>3. PICK k \in T : \A m \in T : k <= m BY <1>2, LeastNatural
  <1> USE DEF T
  <1>4. PICK i \in S : k = n - i BY <1>3
  <1>5. ASSUME NEW j \in S PROVE j <= i
    <2>1. n - i <= n - j BY <1>3, <1>4
    <2> QED BY <1>1, <2>1
  <1> QED BY <1>5

\* A report calls an executable accepted, and a list a review active, only if
\* the gate would not block for want of a review at that moment, and the gate
\* passes no executable whose review is not listed as active.
THEOREM ReportsAgree == Spec => []ReportsAgreeWithGate
  <1>1. ASSUME TypeInv PROVE ReportsAgreeWithGate
    <2> USE <1>1 DEF TypeInv, TypeOK
    <2>1. ASSUME NEW i \in DOMAIN reviews
          PROVE  /\ reviews[i].expires \in Nat /\ clock \in Nat
                 /\ reviews[i].of \in Content
      <3>1. reviews[i] \in Review OBVIOUS
      <3> QED BY <3>1, BoundsAreNaturals DEF Review
    <2>2. ASSUME NEW c \in Content, CoverageStatus(c) = "accepted"
          PROVE  ~OpaqueBlocked(c, ActiveReviews, clock)
      <3> DEFINE same == Revocable(Ships[c])
                 last == CHOOSE i \in same : \A j \in same : j <= i
      <3>1. same # {} /\ Authorizes(last, c, clock)
        BY <2>2 DEF CoverageStatus
      <3>2. same \subseteq ActiveReviews /\ same \subseteq DOMAIN reviews
        BY DEF Revocable, ActiveReviews
      <3>3. last \in same BY <3>1, <3>2, LatestIsOne
      <3> QED BY <3>1, <3>2, <3>3 DEF OpaqueBlocked
    <2>3. ASSUME NEW c \in Content, NeedsReview(c),
                 ~OpaqueBlocked(c, ActiveReviews, clock)
          PROVE  \E i \in DOMAIN reviews :
                    reviews[i].of = c /\ ListedAs(i) = "active"
      <3>1. PICK i \in ActiveReviews : Authorizes(i, c, clock)
        BY <2>3 DEF OpaqueBlocked
      <3>2. i \in DOMAIN reviews /\ i \notin revoked
        BY DEF ActiveReviews
      <3>3. ListedAs(i) = "active"
        BY <2>1, <3>1, <3>2 DEF ListedAs, Authorizes
      <3> QED BY <3>1, <3>2, <3>3 DEF Authorizes
    <2>4. ASSUME NEW i \in DOMAIN reviews, ListedAs(i) = "active"
          PROVE  ~OpaqueBlocked(reviews[i].of, ActiveReviews, clock)
      <3>1. /\ i \in ActiveReviews /\ reviews[i].accepted
            /\ reviews[i].expires > clock
        BY <2>1, <2>4 DEF ListedAs, ActiveReviews
      <3> QED BY <3>1 DEF OpaqueBlocked, Authorizes
    <2> QED BY <2>2, <2>3, <2>4 DEF ReportsAgreeWithGate
  <1> QED BY <1>1, TypeInit, TypeStep, PTL DEF Spec

=============================================================================
