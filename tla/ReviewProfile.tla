---------------------------- MODULE ReviewProfile ----------------------------
(***************************************************************************)
(* The report of an analysis in its two profiles (emit_analysis_report,    *)
(* apply_review_profile and the review summary, in the CLI's main.rs).     *)
(* The full profile shortens only the evidence of a finding.  The review   *)
(* profile caps every list, and then halves one list after another until   *)
(* the serialized report fits its byte limit; every loss is counted in     *)
(* the omission rows, in limitation lines and in the summary.              *)
(*                                                                         *)
(* A finding is its severity, rule, path, number of evidence steps, and    *)
(* how wide its evidence is: 0 fits every cap, 1 exceeds the caps of the   *)
(* review profile, 2 those of the full one as well.  Of the capabilities   *)
(* only the class is listed, and of the invocation edges, coverage gaps    *)
(* and code exposure rows, only ever cut to a prefix, the number.          *)
(* A finding weighs one unit and one more per width, a row of another list *)
(* one unit; the omission lines themselves weigh nothing.                  *)
(***************************************************************************)
EXTENDS Integers, Sequences, FiniteSets, SequencesExt

CONSTANTS Renders,      \* the analyses whose reports are rendered
          ListCap,      \* findings, capabilities and edges of a review report
          GapCap,       \* its coverage gaps
          ExposureCap,  \* its code exposure rows
          ByteLimit     \* its size

\* A finding comes with all of its evidence and is shortened only here.
FindingRecord ==
    [ severity : Nat, rule : Nat, path : Nat, steps : Nat, shown : Nat,
      wide : 0..2, truncated : BOOLEAN ]
ReportRecord ==
    [ findings : Seq(FindingRecord), suppressed : Nat,
      capabilities : Seq(STRING), invocation_edges : Nat,
      coverage_gaps : Nat, code_exposure : Nat, entries : Nat,
      envelope : Nat ]

ASSUME CapsAssumption == {ListCap, GapCap, ExposureCap, ByteLimit} \subseteq Nat
ASSUME RendersAreWhole ==
    /\ Renders \subseteq ReportRecord
    /\ \A d \in Renders : \A i \in DOMAIN d.findings :
          d.findings[i].shown = d.findings[i].steps
          /\ ~d.findings[i].truncated

VARIABLES rendering,    \* see ReviewProfileTypeOK
          render,       \* the analysis: what there is to report
          style,        \* "full" or "review"
          listed,       \* the lists as they stand in the report
          rows,         \* report_profile.omissions: what each list lost
          lines,        \* the limitation lines review-profile-*-omitted
          summary       \* review_summary

profile == <<rendering, render, style, listed, rows, lines, summary>>

ReportLists == {"findings", "capabilities", "invocation_edges",
                "coverage_gaps", "code_exposure"}
Rows == ReportLists \cup {"payload_entries", "evidence_observations"}

(***************************************************************************)
(* Selection: the findings of the highest severity first; within one, the  *)
(* rules take turns, and within a rule its paths do.  What is selected     *)
(* keeps its order.                                                        *)
(***************************************************************************)
SameRule(f, g) == f.severity = g.severity /\ f.rule = g.rule

\* The turn of a path at which its finding i comes.
PathRound(fs, i) ==
    Cardinality({j \in 1..(i - 1) :
                    SameRule(fs[j], fs[i]) /\ fs[j].path = fs[i].path})

\* The turn of a rule at which its finding i comes.
RuleRound(fs, i) ==
    Cardinality({j \in DOMAIN fs :
        /\ SameRule(fs[j], fs[i])
        /\ \/ PathRound(fs, j) < PathRound(fs, i)
           \/ PathRound(fs, j) = PathRound(fs, i)
              /\ fs[j].path < fs[i].path})

Outranks(fs, j, i) ==
    \/ fs[j].severity > fs[i].severity
    \/ /\ fs[j].severity = fs[i].severity
       /\ \/ RuleRound(fs, j) < RuleRound(fs, i)
          \/ RuleRound(fs, j) = RuleRound(fs, i) /\ fs[j].rule < fs[i].rule

SelectFindings(fs, cap) ==
    LET chosen == {i \in DOMAIN fs :
                     Cardinality({j \in DOMAIN fs : Outranks(fs, j, i)}) < cap}
    IN  [n \in 1..Cardinality(chosen) |->
            fs[CHOOSE i \in chosen :
                 Cardinality({j \in chosen : j < i}) = n - 1]]

Least(m, n) == IF m < n THEN m ELSE n

\* The lists under the caps of the review profile.
Capped(lists) ==
    [ findings |-> SelectFindings(lists.findings, ListCap),
      capabilities |-> SubSeq(lists.capabilities, 1,
                              Least(ListCap, Len(lists.capabilities))),
      invocation_edges |-> Least(lists.invocation_edges, ListCap),
      coverage_gaps |-> Least(lists.coverage_gaps, GapCap),
      code_exposure |-> Least(lists.code_exposure, ExposureCap) ]

Length(lists, list) ==
    IF list \in {"findings", "capabilities"} THEN Len(lists[list])
    ELSE lists[list]

(***************************************************************************)
(* Evidence: a finding that exceeds the caps is shortened and marked.  One  *)
(* step is always kept; of two, the second goes.                           *)
(***************************************************************************)
Widest == [full |-> 1, review |-> 0]

Shaped(f, how) ==
    [f EXCEPT !.shown = IF f.wide > Widest[how] THEN Least(@, 1) ELSE @,
              !.truncated = @ \/ f.wide > Widest[how]]

ShapeEvidence(fs, how) == [i \in DOMAIN fs |-> Shaped(fs[i], how)]

\* The observations of some findings that have so many each.
Observations(counts) == UNION {{i} \X (1..counts[i]) : i \in DOMAIN counts}
TotalEvidence(fs) ==
    Cardinality(Observations([i \in DOMAIN fs |-> fs[i].steps]))
ShownEvidence(fs) ==
    Cardinality(Observations([i \in DOMAIN fs |-> fs[i].shown]))

(***************************************************************************)
(* Omission rows, limitation lines and the summary.                        *)
(***************************************************************************)
\* The subtraction saturates.
Row(total, emitted) ==
    [ total |-> total, emitted |-> emitted,
      omitted |-> IF emitted < total THEN total - emitted ELSE 0 ]

\* The row of one list after it was trimmed.
UpdateOmission(row, emitted) == Row(row.total, emitted)

NoteOmissions(r) == [name \in Rows |-> r[name].omitted]

Rules(fs) == {fs[i].rule : i \in DOMAIN fs}
OfRule(fs, rule) == Cardinality({i \in DOMAIN fs : fs[i].rule = rule})
OfClass(cs, class) == Cardinality({i \in DOMAIN cs : cs[i] = class})

\* build_review_summary and enrich_review_summary, before anything is lost.
BuildSummary(d) ==
    [ total |-> Len(d.findings) + d.suppressed,
      active |-> Len(d.findings),
      emitted |-> Len(d.findings),
      by_rule |->
          [rule \in Rules(d.findings) |->
              Row(OfRule(d.findings, rule), OfRule(d.findings, rule))],
      by_class |->
          [class \in ToSet(d.capabilities) |->
              Row(OfClass(d.capabilities, class),
                  OfClass(d.capabilities, class))],
      gaps |-> Row(d.coverage_gaps, d.coverage_gaps),
      presentation_complete |-> TRUE,
      complete |-> TRUE ]

\* update_review_summary: the totals stay, the rest follows the report.
UpdateSummary(s, lists, r) ==
    LET whole ==
            /\ \A name \in Rows : r[name].omitted = 0
            /\ \A i \in DOMAIN lists.findings :
                  /\ ~lists.findings[i].truncated
                  /\ lists.findings[i].shown = lists.findings[i].steps
        emitted == Len(lists.findings)
    IN  [ s EXCEPT
            !.emitted = emitted,
            !.by_rule =
                [rule \in DOMAIN s.by_rule |->
                    Row(s.by_rule[rule].total,
                        OfRule(lists.findings, rule))],
            !.by_class =
                [class \in DOMAIN s.by_class |->
                    Row(s.by_class[class].total,
                        OfClass(lists.capabilities, class))],
            !.gaps = r["coverage_gaps"],
            !.presentation_complete = whole,
            !.complete = whole /\ emitted = s.total ]

(***************************************************************************)
(* Rendering.                                                              *)
(***************************************************************************)
ListsOf(d) ==
    [ findings |-> d.findings, capabilities |-> d.capabilities,
      invocation_edges |-> d.invocation_edges,
      coverage_gaps |-> d.coverage_gaps, code_exposure |-> d.code_exposure ]

\* The report with every list in full and the evidence shaped for it.
FullLists(d) ==
    [ListsOf(d) EXCEPT !.findings = ShapeEvidence(d.findings, "full")]

RowsOf(d, lists, entries) ==
    [name \in Rows |->
        IF name = "payload_entries" THEN Row(d.entries, entries)
        ELSE IF name = "evidence_observations"
        THEN Row(TotalEvidence(d.findings), ShownEvidence(lists.findings))
        ELSE Row(Length(ListsOf(d), name), Length(lists, name))]

NotRendered(d) ==
    /\ render = d
    /\ listed = ListsOf(d)
    /\ rows = RowsOf(d, ListsOf(d), d.entries)
    /\ lines = NoteOmissions(rows)
    /\ summary = BuildSummary(d)

ReviewProfileInit ==
    /\ rendering = "analyzed"
    /\ style \in {"full", "review"}
    /\ \E d \in Renders : NotRendered(d)

Put(lists, r) ==
    /\ listed' = lists
    /\ rows' = r
    /\ lines' = NoteOmissions(r)
    /\ summary' = UpdateSummary(summary, lists, r)

RenderFull ==
    /\ rendering = "analyzed"
    /\ style = "full"
    /\ LET lists == FullLists(render)
       IN  Put(lists, RowsOf(render, lists, render.entries))
    /\ rendering' = "emitted"
    /\ UNCHANGED <<render, style>>

\* The evidence is shaped for the full profile and then again: the payload
\* entries are left out, and the findings are selected before the second.
ApplyReviewProfile ==
    /\ rendering = "analyzed"
    /\ style = "review"
    /\ LET capped == Capped(FullLists(render))
           lists == [capped EXCEPT !.findings =
                                     ShapeEvidence(capped.findings, "review")]
       IN  Put(lists, RowsOf(render, lists, 0))
    /\ rendering' = "sizing"
    /\ UNCHANGED <<render, style>>

SerializedSize ==
    render.envelope
    + FoldLeft(LAMBDA sum, f : sum + 1 + f.wide, 0, listed.findings)
    + Len(listed.capabilities) + listed.invocation_edges + listed.coverage_gaps
    + listed.code_exposure

TooLarge == rendering = "sizing" /\ SerializedSize > ByteLimit

Emit ==
    /\ rendering = "sizing"
    /\ SerializedSize <= ByteLimit
    /\ rendering' = "emitted"
    /\ UNCHANGED <<render, style, listed, rows, lines, summary>>

\* The order in which lists are trimmed.
TrimOrder == << "code_exposure", "coverage_gaps", "capabilities",
                "invocation_edges", "findings" >>

NextToTrim(list) ==
    /\ Length(listed, list) > 0
    /\ \A n \in DOMAIN TrimOrder :
          TrimOrder[n] = list =>
            \A m \in 1..(n - 1) : Length(listed, TrimOrder[m]) = 0

Halved(list) ==
    IF list = "findings"
    THEN SelectFindings(listed.findings, Len(listed.findings) \div 2)
    ELSE IF list = "capabilities"
    THEN SubSeq(listed.capabilities, 1, Len(listed.capabilities) \div 2)
    ELSE listed[list] \div 2

\* Mutant: the summary keeps what it said before the trim.
TrimUnsummarised(list) ==
    /\ TooLarge
    /\ NextToTrim(list)
    /\ LET lists == [listed EXCEPT ![list] = Halved(list)]
           r == [rows EXCEPT ![list] =
                               UpdateOmission(@, Length(lists, list))]
       IN  listed' = lists /\ rows' = r /\ lines' = NoteOmissions(r)
    /\ UNCHANGED <<rendering, render, style, summary>>

Trim(list) ==
    /\ TooLarge
    /\ NextToTrim(list)
    /\ LET lists == [listed EXCEPT ![list] = Halved(list)]
       IN  Put(lists, [rows EXCEPT ![list] =
                                     UpdateOmission(@, Length(lists, list))])
    /\ UNCHANGED <<rendering, render, style>>

RefuseReport ==
    /\ TooLarge
    /\ \A list \in ReportLists : Length(listed, list) = 0
    /\ rendering' = "refused"
    /\ UNCHANGED <<render, style, listed, rows, lines, summary>>

ReviewProfileNext ==
    \/ RenderFull
    \/ ApplyReviewProfile
    \/ Emit
    \/ \E list \in ReportLists : Trim(list)
    \/ RefuseReport

ReviewProfileSpec == ReviewProfileInit /\ [][ReviewProfileNext]_profile

ReviewProfileTypeOK ==
    /\ rendering \in {"analyzed", "sizing", "emitted", "refused"}
    /\ render \in Renders
    /\ style \in {"full", "review"}
    /\ DOMAIN rows = Rows /\ DOMAIN lines = Rows
    /\ \A name \in Rows : lines[name] \in Nat

(***************************************************************************)
(* Properties.                                                             *)
(***************************************************************************)
Lost(list) == Length(ListsOf(render), list) - Length(listed, list)

RowsTellLosses ==
    \A list \in ReportLists :
        /\ rows[list] = Row(Length(ListsOf(render), list),
                            Length(listed, list))
        /\ lines[list] = Lost(list)

SummaryTellsLosses ==
    /\ summary.emitted = Len(listed.findings)
    /\ summary.gaps = rows["coverage_gaps"]
    /\ \A rule \in Rules(render.findings) :
          summary.by_rule[rule] =
            Row(OfRule(render.findings, rule), OfRule(listed.findings, rule))
    /\ \A class \in ToSet(render.capabilities) :
          summary.by_class[class] =
            Row(OfClass(render.capabilities, class),
                OfClass(listed.capabilities, class))

\* The report says it is complete if, and only if, nothing is missing.
CompleteMeansWhole ==
    summary.presentation_complete <=>
        /\ \A list \in ReportLists : Lost(list) = 0
        /\ style = "review" => render.entries = 0
        /\ \A i \in DOMAIN listed.findings :
              listed.findings[i].wide <= Widest[style]

\* However a report was shortened, its omission rows, limitation lines and
\* summary agree with what it still lists, and it claims to be complete only
\* when nothing was left out or shortened (apply_review_profile's exact
\* omission arithmetic, update_review_summary).
OmissionsAddUp ==
    rendering = "emitted" =>
        RowsTellLosses /\ SummaryTellsLosses /\ CompleteMeansWhole

OfFamily(fs, f) == Cardinality({i \in DOMAIN fs : SameRule(fs[i], f)})
Missing(f) == OfFamily(listed.findings, f) < OfFamily(render.findings, f)

\* After any number of halvings the report lists no finding while it omits a
\* more severe one, and omits no whole rule while another of that severity
\* is listed twice (select_findings: a large family cannot erase a small one).
SelectionIsFair ==
    rendering = "emitted" =>
        \A i \in DOMAIN render.findings, j \in DOMAIN listed.findings :
            LET f == render.findings[i]
                g == listed.findings[j]
            IN  /\ Missing(f) => f.severity <= g.severity
                /\ g.severity = f.severity /\ OfFamily(listed.findings, f) = 0
                   => OfFamily(listed.findings, g) <= 1
===============================================================================
