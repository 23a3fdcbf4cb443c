---------------------------- MODULE Suppressions ----------------------------
(***************************************************************************)
(* What a review report hides and where it may come from: suppressions of  *)
(* findings (crates/omasafe-core/src/suppress.rs, fn suppression_review    *)
(* and emit_analysis_report of the CLI), the declarations that let one     *)
(* outlive a release of the analyzer (omasafe-analyzer/src/policy.rs), and *)
(* the cache of the last analysis of a plugin (plugins_analyze,            *)
(* read_analysis_cache, persist_analysis_cache).                           *)
(*                                                                         *)
(* Release k of the analyzer carries declarations 1..k (those of           *)
(* Undeclared are missing: nobody declared them); a declaration is named   *)
(* by a digest of itself, so its baseline is an earlier one.  The policy   *)
(* identity is the release, a content digest the content, the identity of  *)
(* the suppression file the file.  A path is its segments.  Suppress and   *)
(* reinstate read and replace the file under its lock: one step each.      *)
(*                                                                         *)
(* The suppression file is one that can be read and holds no more than     *)
(* ANALYSIS_CACHE_MAX_BYTES: the code keys every larger one by the word    *)
(* "oversized" (and every unreadable one by another), although it loads    *)
(* and applies it; of those files nothing is said here.                    *)
(***************************************************************************)
EXTENDS Integers, Sequences, FiniteSets, SequencesExt

CONSTANTS Analysis,      \* invocations of plugins analyze
          Rule, Scope,
          Subject,       \* the plugin analyzed
          Target,        \* plugins records are made for
          Version,       \* contents the plugin may have
          Findings,      \* Findings[v]: its findings, as <<rule, path>>
          Documents,     \* declarations of the releases
          Undeclared,    \* releases without one
          Nothing,       \* no value
          MaxRecords,    \* bound on suppressions
          MaxMoves,      \* bound on upgrades and changes of the plugin
          MaxAnalyses    \* bound on analyses

ASSUME SuppressionBounds ==
    /\ MaxRecords \in Nat /\ MaxMoves \in Nat /\ MaxAnalyses \in Nat
ASSUME DeclarationsAreTyped ==
    \A d \in Documents :
        /\ Len(d) \in Nat \ {0} /\ DOMAIN d = 1..Len(d)
        /\ \A i \in DOMAIN d : /\ d[i].baseline \in {Nothing} \cup 1..(i - 1)
                              /\ d[i].revisions \in [Rule -> Nat]

VARIABLES
    document,     \* the declarations, in order of release
    release,      \* the release installed
    version,      \* the plugin as it is
    records,      \* suppressions.json
    stored,       \* the cached analysis
    analysis,     \* each invocation
    moves, analyses

suppression == <<document, release, version, records, stored, analysis,
                 moves, analyses>>

(***************************************************************************)
(* Declarations: validate_compatibility_document and the lineage.          *)
(***************************************************************************)
Declared(k) == (1..k) \ Undeclared
Digest(k, r) == document[k].digests[r]
Revision(k, r) == document[k].revisions[r]

SameMeaning(i, j, r) ==
    Digest(i, r) = Digest(j, r) /\ Revision(i, r) = Revision(j, r)

\* Mutant: a rule may change and keep its review revision.
SoundDeclarationKeepsRevision(k, i) ==
    LET d == document[i]
    IN IF d.baseline = Nothing
       THEN d.class = "semantic-change" /\ d.affected # {}
       ELSE /\ d.baseline \in Declared(k)
            /\ IF d.class = "review-compatible"
               THEN d.affected = {}
                    /\ \A r \in Rule : SameMeaning(i, d.baseline, r)
               ELSE /\ d.affected # {}
                    /\ \A r \in Rule :
                          IF r \in d.affected
                          THEN Digest(i, r) # Digest(d.baseline, r)
                          ELSE SameMeaning(i, d.baseline, r)

SoundDeclaration(k, i) ==
    LET d == document[i]
    IN IF d.baseline = Nothing
       THEN d.class = "semantic-change" /\ d.affected # {}
       ELSE /\ d.baseline \in Declared(k)
            /\ IF d.class = "review-compatible"
               THEN d.affected = {}
                    /\ \A r \in Rule : SameMeaning(i, d.baseline, r)
               ELSE /\ d.affected # {}
                    /\ \A r \in Rule :
                          IF r \in d.affected
                          THEN /\ Digest(i, r) # Digest(d.baseline, r)
                               /\ Revision(i, r) > Revision(d.baseline, r)
                          ELSE SameMeaning(i, d.baseline, r)

ValidDocument(k) ==
    Declared(k) # {} /\ \A i \in Declared(k) : SoundDeclaration(k, i)

\* A declaration and all it goes back to.
Lineage[i \in DOMAIN document] ==
    {i} \cup (IF document[i].baseline = Nothing THEN {}
              ELSE Lineage[document[i].baseline])

CurrentDeclaration(k) ==
    IF ValidDocument(k) /\ k \in Declared(k) THEN k ELSE Nothing

SemanticCompatible(r, digest, stored_id, k) ==
    LET current == CurrentDeclaration(k)
    IN /\ current # Nothing /\ stored_id \in Declared(k)
       /\ stored_id \in Lineage[current]
       /\ r \notin document[current].affected
       /\ Digest(stored_id, r) = digest
       /\ Digest(current, r) = digest
       /\ Revision(stored_id, r) = Revision(current, r)

(***************************************************************************)
(* Records and what they cover.                                            *)
(***************************************************************************)
PathMatchesScope(path, scope) == scope = Nothing \/ IsPrefix(scope, path)
ScopeMatches(rec, r, path) ==
    /\ rec.rule = r /\ rec.plugin \in {Nothing, Subject}
    /\ PathMatchesScope(path, rec.scope)

Active(state) == {state[i] : i \in {j \in DOMAIN state : state[j].active}}

Exact(rec, k) == rec.release = k
Compatible(rec, k) ==
    /\ rec.digest = Digest(k, rec.rule)
    /\ CurrentDeclaration(k) # Nothing /\ rec.declaration # Nothing
    /\ SemanticCompatible(rec.rule, rec.digest, rec.declaration, k)

\* Mutant: the digest alone lets a suppression outlive a release.
HidesByDigest(state, f, k) ==
    \E rec \in Active(state) :
        /\ ScopeMatches(rec, f[1], f[2])
        /\ Exact(rec, k) \/ rec.declaration # Nothing
Hides(state, f, k) ==
    \E rec \in Active(state) :
        ScopeMatches(rec, f[1], f[2]) /\ (Exact(rec, k) \/ Compatible(rec, k))
RequiresReconfirmation(state, f, k) ==
    \E rec \in Active(state) :
        ScopeMatches(rec, f[1], f[2]) /\ ~Exact(rec, k) /\ ~Compatible(rec, k)

Report(v, state, k) ==
    [ shown |-> {f \in Findings[v] : ~Hides(state, f, k)},
      stale |-> {f \in Findings[v] : RequiresReconfirmation(state, f, k)} ]

(***************************************************************************)
(* Commands of the operator.                                               *)
(***************************************************************************)
NotAnalyzing == [pc |-> "idle", key |-> Nothing, seen |-> Nothing,
                 report |-> Nothing]

NothingSuppressed ==
    /\ release = 1 /\ version \in Version /\ records = <<>>
    /\ stored = Nothing /\ analysis = [a \in Analysis |-> NotAnalyzing]
    /\ moves = 0 /\ analyses = 0
SuppressionInit == document \in Documents /\ NothingSuppressed

Suppress(r, plugin, scope) ==
    /\ Len(records) < MaxRecords
    /\ records' = Append(records,
          [ rule |-> r, plugin |-> plugin, scope |-> scope,
            release |-> release, digest |-> Digest(release, r),
            declaration |-> CurrentDeclaration(release), active |-> TRUE ])
    /\ UNCHANGED <<document, release, version, stored, analysis, moves,
                   analyses>>

Named(rec, r, plugin, scope) ==
    rec.active /\ rec.rule = r /\ rec.plugin = plugin /\ rec.scope = scope
Reinstate(r, plugin, scope) ==
    /\ \E i \in DOMAIN records : Named(records[i], r, plugin, scope)
    /\ records' = [i \in DOMAIN records |->
          IF Named(records[i], r, plugin, scope)
          THEN [records[i] EXCEPT !.active = FALSE] ELSE records[i]]
    /\ UNCHANGED <<document, release, version, stored, analysis, moves,
                   analyses>>

(***************************************************************************)
(* plugins analyze: identities first, then the tree, then the records.     *)
(***************************************************************************)
Key == [source |-> version, policy |-> release, suppressions |-> records]

\* Mutant: the analyzer's policy is not part of the key.
CachedIgnoresPolicy(key) ==
    /\ stored # Nothing
    /\ [stored.key EXCEPT !.policy = key.policy] = key
Cached(key) == stored # Nothing /\ stored.key = key

BeginAnalysis(a) ==
    /\ analysis[a].pc = "idle"
    /\ analyses < MaxAnalyses /\ analyses' = analyses + 1
    /\ \E refresh \in BOOLEAN :
          analysis' = [analysis EXCEPT ![a] =
              IF ~refresh /\ Cached(Key)
              THEN [NotAnalyzing EXCEPT !.key = Key, !.seen = stored.of,
                                        !.report = stored.report]
              ELSE [NotAnalyzing EXCEPT !.pc = "ingest", !.key = Key]]
    /\ UNCHANGED <<document, release, version, records, stored, moves>>

IngestFilesystem(a) ==
    /\ analysis[a].pc = "ingest"
    /\ analysis' = [analysis EXCEPT ![a].pc = "emit", ![a].seen = version]
    /\ UNCHANGED <<document, release, version, records, stored, moves,
                   analyses>>

\* A report in JSON is stored too; storing it may fail, and nobody minds.
EmitAnalysisReport(a) ==
    LET me == analysis[a]
        result == Report(me.seen, records, me.key.policy)
    IN /\ me.pc = "emit"
       /\ analysis' = [analysis EXCEPT ![a] =
              [me EXCEPT !.pc = "idle", !.report = result]]
       /\ stored' \in {stored,
                       [key |-> me.key, of |-> me.seen, report |-> result]}
       /\ UNCHANGED <<document, release, version, records, moves, analyses>>

Upgrade ==
    /\ moves < MaxMoves /\ moves' = moves + 1
    /\ release' \in DOMAIN document \ {release}
    /\ UNCHANGED <<document, version, records, stored, analysis, analyses>>

PluginChanges ==
    /\ moves < MaxMoves /\ moves' = moves + 1
    /\ version' \in Version \ {version}
    /\ UNCHANGED <<document, release, records, stored, analysis, analyses>>

SuppressionNext ==
    \/ \E r \in Rule, p \in Target, s \in Scope \cup {Nothing} :
          Suppress(r, p, s) \/ Reinstate(r, p, s)
    \/ \E a \in Analysis :
          BeginAnalysis(a) \/ IngestFilesystem(a) \/ EmitAnalysisReport(a)
    \/ Upgrade \/ PluginChanges

SuppressionSpec == SuppressionInit /\ [][SuppressionNext]_suppression

(***************************************************************************)
(* Properties.                                                             *)
(***************************************************************************)
SuppressionTypeOK ==
    /\ release \in DOMAIN document /\ version \in Version
    /\ \A i \in DOMAIN records : records[i].rule \in Rule
    /\ moves \in 0..MaxMoves /\ analyses \in 0..MaxAnalyses

\* A review made under one declaration carries over to another only when the
\* rule meant the same all the way between them: no declaration in between
\* changed it, not even one that a later one took back.  It is the review
\* revision, which may only grow with a change, that tells the second case.
CompatibleMeansUnchanged ==
    \A k \in DOMAIN document : \A i \in 1..k, r \in Rule :
        SemanticCompatible(r, Digest(i, r), i, k) =>
            \A j \in Lineage[k] \cap (i..k) : SameMeaning(i, j, r)

\* CompatibleMeansUnchanged of every document, judged where a behaviour
\* begins: documents do not change.
DeclaredMeansUnchanged == NothingSuppressed => CompatibleMeansUnchanged

\* A finding is left out of a report only for an active record, made for this
\* plugin (or all) and a directory the finding is in, under a release at which
\* the rule meant what it means in the release that reports; and a finding
\* that such a record no longer hides is marked for confirmation.
HiddenOnlyAsMeant ==
    \A a \in Analysis :
        LET me == analysis[a] IN
        me.report # Nothing /\ me.key.suppressions = records =>
            \A f \in Findings[me.seen] :
                LET covering == {rec \in Active(records) :
                                    ScopeMatches(rec, f[1], f[2])}
                IN /\ f \notin me.report.shown =>
                         \E rec \in covering :
                            \/ rec.release = me.key.policy
                            \/ SameMeaning(rec.release, me.key.policy, f[1])
                   /\ covering # {} /\ f \in me.report.shown =>
                         f \in me.report.stale

\* As long as the suppression file is readable and within the size the cache
\* key digests: a report served from the cache, and any other, is the one the
\* analyzed content gets under the policy and the records it was asked under,
\* even when suppressions are made and taken back while an analysis runs: the
\* file it was keyed by never comes back.  The plugin itself can change
\* between the identity and the walk, and can come back: such a report is of
\* other content than its key, which the property leaves out.
CachedReportIsCurrent ==
    \A a \in Analysis :
        LET me == analysis[a] IN
        /\ me.report # Nothing /\ me.key.suppressions = records
        /\ me.seen = me.key.source
        => me.report = Report(me.key.source, records, me.key.policy)

\* README.md:215: analysis entries are accepted only when the source identity
\* matches, stale ones are ignored.  The report says it is of the content that
\* was found; it is of the content that was analyzed.
CachedReportIsOfTarget ==
    \A a \in Analysis :
        analysis[a].report # Nothing =>
            analysis[a].seen = analysis[a].key.source
=============================================================================
