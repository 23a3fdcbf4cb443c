---------------------------- MODULE AnalysisProofs ----------------------------
(***************************************************************************)
(* Proofs about the analysis of a plugin's files, for all limits, trees,   *)
(* edits made meanwhile and objects Git loses.                             *)
(*                                                                         *)
(* What the detectors are given is what was inventoried, whole and under   *)
(* an exact digest.  AnalysisInv is the inductive invariant: a digest      *)
(* called exact is that of a file which was read to its end, and a file    *)
(* that is being read is, as long as nobody touches it, a prefix of what   *)
(* the tree holds.                                                         *)
(*                                                                         *)
(* What is not told of a file is explained by a limitation or a gap.       *)
(* DisclosureInv, below, is the inductive invariant.                       *)
(*                                                                         *)
(* The files seen are never more than the paths there are (CountInv).      *)
(***************************************************************************)
EXTENDS PayloadAnalysis, SequenceTheorems, FiniteSetTheorems, TLAPS

EntryFields == {"kind", "size", "exec", "state", "digest", "sampled", "class",
                "hint", "target"}
ReadFields == {"path", "size", "exec", "body", "got"}
Inventorying == {"walk", "open", "read", "listed"}
Judged == {"Analyzed", "Unreferenced"}

AnalysisTyped ==
    /\ limit \in LimitSets
    /\ tree \in [Path -> {Void} \cup TreeNode]
    /\ DOMAIN found = Path /\ DOMAIN sources = Path
    /\ DOMAIN reading = ReadFields
    /\ todo \subseteq Path
    /\ bytes \in Nat /\ bytes <= limit.total

\* What was read of an untouched file so far is how its content begins.
ReadIsKnown ==
    phase \in {"open", "read"} =>
        /\ reading.path \in Path /\ reading.size \in Nat
        /\ phase = "open" => reading.got = <<>>
        /\ phase = "read" =>
              /\ reading.body \in Seq(STRING) /\ reading.got \in Seq(STRING)
              /\ Untouched(reading.path) =>
                    /\ reading.body = tree[reading.path].body
                    /\ Len(reading.got) <= Len(reading.body)
                    /\ \A i \in 1..Len(reading.got) :
                          reading.got[i] = reading.body[i]

NothingIsJudged == phase \in Inventorying => sources = NothingFound

\* What r says of the content of x.
RecordIsTrue(x, r) ==
    /\ DOMAIN r = EntryFields
    /\ Untouched(x) /\ ExactDigest(r) # Void => ExactDigest(r) = tree[x].body

JudgedAsRecorded(x) ==
    /\ sources[x] # Void =>
          /\ sources[x] = ExactDigest(found[x])
          /\ Len(sources[x]) = found[x].size
    /\ found[x].state \in Judged =>
          sources[x] # Void /\ ~Incomplete(found[x])

EntriesAreTrue ==
    \A x \in Entries \cup todo :
        RecordIsTrue(x, found[x]) /\ JudgedAsRecorded(x)

AnalysisInv ==
    AnalysisTyped /\ ReadIsKnown /\ NothingIsJudged /\ EntriesAreTrue

(***************************************************************************)
(* Records.                                                                *)
(***************************************************************************)
\* An entry e for content of which got was read.
IsContent(e, size, got, state) ==
    /\ DOMAIN e = EntryFields /\ e.size = size /\ e.state = state
    /\ e.digest = got
    /\ state # "Unsupported" => e.sampled = TRUE /\ ExactDigest(e) = Void
    /\ state = "Unsupported" => ExactDigest(e) = got

LEMMA ContentFields ==
  ASSUME NEW x, NEW size, NEW exec, NEW got, NEW state
  PROVE  IsContent(Content(x, size, exec, got, state), size, got, state)
<1> DEFINE e == Content(x, size, exec, got, state)
<1> DEFINE kind == Classify(x, exec, got)
           b == Entered(kind, size, exec, state)
           c == ContentClass(got)
           h == LanguageHint(got)
           some == state # "Unsupported"
<1> HIDE DEF kind, e
<1>1. DOMAIN b = EntryFields /\ b.size = size /\ b.state = state
  BY DEF Entered, EntryFields
<1>2. e = [b EXCEPT !.digest = got, !.sampled = some,
                    !.class = c, !.hint = h]
  BY DEF Content, kind, e
<1>a. some = (state # "Unsupported")
  OBVIOUS
<1> HIDE DEF b, c, h, some
<1>3. /\ DOMAIN e = EntryFields
      /\ e.size = size /\ e.state = state /\ e.digest = got
  BY <1>1, <1>2 DEF EntryFields
<1>4. "sampled" \in DOMAIN b
  BY <1>1 DEF EntryFields
<1>5. e.sampled = (state # "Unsupported")
  BY <1>2, <1>4, <1>a
<1>6. state # "Unsupported" => ExactDigest(e) = Void
  BY <1>5 DEF ExactDigest
<1>7. state = "Unsupported" => ExactDigest(e) = got
  BY <1>3, <1>5 DEF ExactDigest
<1>8. state # "Unsupported" => e.sampled = TRUE
  BY <1>5
<1>9. IsContent(e, size, got, state)
  BY <1>3, <1>6, <1>7, <1>8 DEF IsContent
<1> QED BY <1>9 DEF e

\* A path that is there holds content that can be read.
LEMMA PresentIsNode ==
  ASSUME AnalysisTyped, NEW x \in Path, Exists(x)
  PROVE  tree[x] \in TreeNode /\ tree[x].body \in Seq(STRING)
<1>1. x \in Above[x] /\ x # Top
  BY PathsAreNested DEF Above
<1>2. tree[x] # Void
  BY <1>1 DEF Exists
<1> QED BY <1>2 DEF AnalysisTyped, TreeNode

(***************************************************************************)
(* Kinds of steps.                                                         *)
(***************************************************************************)
\* A step that leaves the inventory and what was judged as they are.
LEMMA AnalysisStands ==
  ASSUME AnalysisInv,
         UNCHANGED <<tree, edited, limit, reading, found, bytes, sources>>,
         todo' \subseteq todo \cup Entries,
         phase' \in {"open", "read"} => phase' = phase,
         phase' \in Inventorying => phase \in Inventorying
  PROVE  AnalysisInv'
<1>1. AnalysisTyped'
  BY DEF AnalysisInv, AnalysisTyped, Entries
<1>2. ReadIsKnown'
  BY DEF AnalysisInv, ReadIsKnown, Untouched
<1>3. NothingIsJudged'
  BY DEF AnalysisInv, NothingIsJudged
<1>4. Entries' = Entries
  BY DEF Entries
<1>5. \A x : /\ RecordIsTrue(x, found[x]) => RecordIsTrue(x, found[x])'
             /\ JudgedAsRecorded(x) => JudgedAsRecorded(x)'
  BY DEF RecordIsTrue, JudgedAsRecorded, Untouched
<1>6. EntriesAreTrue'
  BY <1>4, <1>5 DEF AnalysisInv, EntriesAreTrue
<1> QED BY <1>1, <1>2, <1>3, <1>6 DEF AnalysisInv

\* A step that enters x into the inventory.
LEMMA EntryIsTrue ==
  ASSUME AnalysisInv, phase \in Inventorying, NEW x \in Path, NEW r,
         RecordIsTrue(x, r), r.state \notin Judged,
         found' = [found EXCEPT ![x] = r],
         UNCHANGED <<tree, edited, limit, sources, todo>>,
         DOMAIN reading' = ReadFields,
         bytes' \in Nat, bytes' <= limit.total,
         phase' = "walk"
  PROVE  AnalysisInv'
<1>1. AnalysisTyped'
  BY DEF AnalysisInv, AnalysisTyped
<1>2. ReadIsKnown' /\ NothingIsJudged'
  BY DEF AnalysisInv, ReadIsKnown, NothingIsJudged
<1>3. found'[x] = r /\ \A y \in Path : y # x => found'[y] = found[y]
  BY DEF AnalysisInv, AnalysisTyped
<1>4. RecordIsTrue(x, found[x])' /\ JudgedAsRecorded(x)'
  <2>1. sources'[x] = Void
    BY DEF AnalysisInv, NothingIsJudged, NothingFound
  <2> QED BY <1>3, <2>1 DEF RecordIsTrue, JudgedAsRecorded, Untouched
<1>5. ASSUME NEW y \in (Entries \cup todo)', y # x
      PROVE  RecordIsTrue(y, found[y])' /\ JudgedAsRecorded(y)'
  <2>1. y \in Path /\ y \in Entries \cup todo /\ found'[y] = found[y]
    BY <1>3, <1>5 DEF Entries, AnalysisInv, AnalysisTyped
  <2>2. RecordIsTrue(y, found[y]) /\ JudgedAsRecorded(y)
    BY <2>1 DEF AnalysisInv, EntriesAreTrue
  <2> QED BY <2>1, <2>2 DEF RecordIsTrue, JudgedAsRecorded, Untouched
<1>6. EntriesAreTrue'
  BY <1>4, <1>5 DEF EntriesAreTrue
<1> QED BY <1>1, <1>2, <1>6 DEF AnalysisInv

\* Steps that only move the walk on, or are about what was left out.
LEMMA QuietStepsKeep ==
  ASSUME AnalysisInv,
         \/ NotADirectory \/ OpenDirectory \/ ReturnFromDirectory \/ SkipChild
         \/ ListTree \/ GitFails \/ GitEnds \/ StartAnalysis \/ SkipEntry
         \/ ReportGap \/ BudgetExpires \/ LoseObjects
  PROVE  AnalysisInv'
<1>1. CASE NotADirectory
  BY <1>1, AnalysisStands
     DEF NotADirectory, world, inventoried, outcome, Inventorying
<1>2. CASE OpenDirectory
  <2>1. phase = "walk" /\ phase' \in {"walk", "listed"}
    BY <1>2 DEF OpenDirectory, Walking, Return
  <2> QED
    BY <1>2, <2>1, AnalysisStands
       DEF OpenDirectory, world, outcome, Inventorying
<1>3. CASE ReturnFromDirectory
  BY <1>3, AnalysisStands
     DEF ReturnFromDirectory, Walking, Return, world, outcome, Inventorying
<1>4. CASE SkipChild
  BY <1>4, AnalysisStands DEF SkipChild, world, outcome, Inventorying
<1>5. CASE ListTree
  BY <1>5, AnalysisStands DEF ListTree, world, outcome, Inventorying
<1>6. CASE GitFails
  BY <1>6, AnalysisStands
     DEF GitFails, world, inventoried, outcome, Inventorying
<1>7. CASE GitEnds
  BY <1>7, AnalysisStands
     DEF GitEnds, ReadingTree, Return, world, outcome, Inventorying
<1>8. CASE StartAnalysis
  BY <1>8, AnalysisStands
     DEF StartAnalysis, world, inventoried, Inventorying
<1>9. CASE SkipEntry
  BY <1>9, AnalysisStands
     DEF SkipEntry, Analyzing, world, inventoried, Inventorying
<1>10. CASE ReportGap
  BY <1>10, AnalysisStands
     DEF ReportGap, Analyzing, world, inventoried, Inventorying
<1>11. CASE BudgetExpires
  BY <1>11, AnalysisStands
     DEF BudgetExpires, world, inventoried, outcome, Inventorying
<1>12. CASE LoseObjects
  BY <1>12, AnalysisStands
     DEF LoseObjects, inventoried, outcome, Inventorying
<1> QED BY <1>1, <1>2, <1>3, <1>4, <1>5, <1>6, <1>7, <1>8, <1>9, <1>10,
           <1>11, <1>12

(***************************************************************************)
(* The walk of a directory.                                                *)
(***************************************************************************)
\* An entry of which nothing is read.
LEMMA BareEntryIsTrue ==
  ASSUME NEW x, NEW r, DOMAIN r = EntryFields, r.digest = Void
  PROVE  RecordIsTrue(x, r)
BY DEF RecordIsTrue, ExactDigest

LEMMA VisitsKeep ==
  ASSUME AnalysisInv, VisitDirectory \/ VisitLinkOrSpecial
  PROVE  AnalysisInv'
<1>1. CASE VisitDirectory
  <2>1. PICK x \in Path :
           /\ Visiting(x)
           /\ found' = [found EXCEPT ![x] =
                           Entered("Directory", 0, FALSE, "Unsupported")]
           /\ UNCHANGED <<world, phase, reading, bytes, outcome>>
    BY <1>1 DEF VisitDirectory
  <2>2. PICK r : r = Entered("Directory", 0, FALSE, "Unsupported")
    OBVIOUS
  <2>a. /\ DOMAIN r = EntryFields /\ r.digest = Void
        /\ r.state \in {"Unsupported", "Skipped"}
    BY <2>2 DEF Entered, EntryFields
  <2>3. RecordIsTrue(x, r) /\ r.state \notin Judged
    BY <2>a, BareEntryIsTrue DEF Judged
  <2>4. phase = "walk"
    BY <2>1 DEF Visiting, Walking
  <2> QED
    BY <2>1, <2>2, <2>3, <2>4, EntryIsTrue
       DEF world, outcome, Inventorying, AnalysisInv, AnalysisTyped
<1>2. CASE VisitLinkOrSpecial
  <2>1. PICK x \in Path :
           /\ Visiting(x)
           /\ found' = [found EXCEPT ![x] =
                           IF Is(x, "link")
                           THEN Entered("Symlink", 0, FALSE, "Unsupported")
                           ELSE Entered("Special", 0, FALSE, "Skipped")]
           /\ UNCHANGED <<world, phase, reading, bytes, outcome>>
    BY <1>2 DEF VisitLinkOrSpecial
  <2>2. PICK r : r = IF Is(x, "link")
                     THEN Entered("Symlink", 0, FALSE, "Unsupported")
                     ELSE Entered("Special", 0, FALSE, "Skipped")
    OBVIOUS
  <2>a. /\ DOMAIN r = EntryFields /\ r.digest = Void
        /\ r.state \in {"Unsupported", "Skipped"}
    BY <2>2 DEF Entered, EntryFields
  <2>3. RecordIsTrue(x, r) /\ r.state \notin Judged
    BY <2>a, BareEntryIsTrue DEF Judged
  <2>4. phase = "walk"
    BY <2>1 DEF Visiting, Walking
  <2> QED
    BY <2>1, <2>2, <2>3, <2>4, EntryIsTrue
       DEF world, outcome, Inventorying, AnalysisInv, AnalysisTyped
<1> QED BY <1>1, <1>2

LEMMA VisitFileKeeps ==
  ASSUME AnalysisInv, VisitFile
  PROVE  AnalysisInv'
<1>1. PICK x \in Path :
         /\ Visiting(x) /\ Is(x, "file")
         /\ IF seen' > limit.files
            THEN Return /\ UNCHANGED reading
            ELSE /\ reading' = [NotOpen EXCEPT !.path = x,
                                               !.size = Len(tree[x].body),
                                               !.exec = tree[x].exec]
                 /\ phase' = "open"
         /\ UNCHANGED <<world, found, bytes, outcome>>
  BY DEF VisitFile
<1>2. phase = "walk"
  BY <1>1 DEF Visiting, Walking
<1>3. CASE seen' > limit.files
  BY <1>1, <1>2, <1>3, AnalysisStands
     DEF Return, world, outcome, Inventorying
<1>4. CASE ~(seen' > limit.files)
  <2> DEFINE size == Len(tree[x].body)
             exec == tree[x].exec
  <2>1. size \in Nat
    BY <1>1, PresentIsNode, LenProperties DEF Is, AnalysisInv
  <2>2. reading' = [NotOpen EXCEPT !.path = x, !.size = size, !.exec = exec]
    BY <1>1, <1>4
  <2> HIDE DEF size, exec
  <2>3. /\ DOMAIN reading' = ReadFields
        /\ reading'.path = x /\ reading'.size \in Nat
        /\ reading'.got = <<>>
    BY <2>1, <2>2 DEF NotOpen, ReadFields
  <2>4. phase' = "open"
    BY <1>1, <1>4
  <2>5. AnalysisTyped'
    BY <1>1, <2>3 DEF AnalysisInv, AnalysisTyped, world, outcome
  <2>6. ReadIsKnown'
    BY <1>1, <2>3, <2>4 DEF ReadIsKnown
  <2>7. NothingIsJudged'
    BY <1>1, <1>2 DEF AnalysisInv, NothingIsJudged, outcome, Inventorying
  <2>8. EntriesAreTrue'
    <3>1. /\ Entries' = Entries
          /\ UNCHANGED <<todo, found, sources, tree, edited>>
      BY <1>1 DEF Entries, world, outcome
    <3> QED
      BY <3>1 DEF AnalysisInv, EntriesAreTrue, RecordIsTrue, JudgedAsRecorded,
                  Untouched
  <2> QED BY <2>5, <2>6, <2>7, <2>8 DEF AnalysisInv
<1> QED BY <1>3, <1>4

\* What is read before a read fails is at most what was asked for.
LEMMA UptoIsBounded ==
  ASSUME NEW S, NEW body \in Seq(S), NEW n \in Nat, n <= Len(body)
  PROVE  /\ Upto(body, n) \in Seq(S)
         /\ Len(Upto(body, n)) \in Nat /\ Len(Upto(body, n)) <= n
<1> DEFINE good == {k \in 1..n : "bad" \notin ToSet(SubSeq(body, 1, k))}
<1>1. Upto(body, n) = SubSeq(body, 1, Cardinality(good))
  BY DEF Upto
<1>2. good \in SUBSET (1..n)
  OBVIOUS
<1> HIDE DEF good
<1>3. IsFiniteSet(1..n) /\ Cardinality(1..n) = n
  <2>1. /\ IsFiniteSet(1..n)
        /\ Cardinality(1..n) = IF 1 > n THEN 0 ELSE n - 1 + 1
    BY FS_Interval
  <2> QED BY <2>1
<1>4. IsFiniteSet(good) /\ Cardinality(good) <= n
  BY <1>2, <1>3, FS_Subset
<1>5. PICK m \in Nat : m = Cardinality(good)
  BY <1>4, FS_CardinalityType
<1>6. m <= n /\ Upto(body, n) = SubSeq(body, 1, m)
  BY <1>1, <1>4, <1>5
<1>7. Len(body) \in Nat
  BY LenProperties
<1>8. SubSeq(body, 1, m) \in Seq(S) /\ Len(SubSeq(body, 1, m)) = m
  BY <1>6, <1>7, SubSeqProperties
<1> QED BY <1>6, <1>8

\* Halves of a number of units.
LEMMA HalfIsLess ==
  \A k \in Nat : k \div 2 \in Nat /\ k \div 2 <= k
OBVIOUS

\* The last m units of a body.
LEMMA LastUnits ==
  ASSUME NEW S, NEW body \in Seq(S), NEW m \in Nat, m <= Len(body)
  PROVE  /\ SubSeq(body, Len(body) - m + 1, Len(body)) \in Seq(S)
         /\ Len(SubSeq(body, Len(body) - m + 1, Len(body))) = m
<1>1. PICK n \in Nat : n = Len(body)
  BY LenProperties
<1>2. m = 0 \/ (n - m + 1 \in 1..n /\ n - (n - m + 1) + 1 = m)
  BY <1>1
<1>3. CASE m = 0
  BY <1>1, <1>3, SubSeqProperties
<1>4. CASE m # 0
  BY <1>1, <1>2, <1>4, SubSeqProperties
<1> QED BY <1>3, <1>4

\* A sample is no longer than what the aggregate limit leaves.
LEMMA SampleIsSmall ==
  ASSUME AnalysisTyped, NEW x \in Path, reading.size \in Nat,
         NEW sample, sample = Sample(x)
  PROVE  /\ Len(sample[1] \o sample[2]) \in Nat
         /\ bytes + Len(sample[1] \o sample[2]) <= limit.total
<1> DEFINE allowance == Smaller(SampleBytes, limit.total - bytes)
           head == allowance \div 2
           body == tree[x].body
           n == Smaller(Smaller(head, reading.size), Len(body))
           h == Upto(body, n)
           tail == Smaller(allowance - head, reading.size - Len(h))
           last == SubSeq(body, Len(body) - tail + 1, Len(body))
           t == IF reading.size > Len(h) /\ tail > 0 /\ tail <= Len(body)
                THEN last ELSE <<>>
<1>1. sample = IF Opens(x) /\ allowance > 0 THEN <<h, Upto(t, Len(t))>>
               ELSE << <<>>, <<>> >>
  BY DEF Sample
<1>2. /\ bytes \in Nat /\ limit.total \in Nat /\ bytes <= limit.total
      /\ SampleBytes \in Nat
  BY AnalysisBounds DEF AnalysisTyped
<1>3. /\ allowance \in Nat /\ bytes + allowance <= limit.total
  BY <1>2 DEF Smaller
<1>4. head \in Nat /\ head <= allowance
  <2> HIDE DEF allowance
  <2> QED BY <1>3, HalfIsLess
<1>5. CASE Opens(x) /\ allowance > 0
  <2>1. body \in Seq(STRING)
    BY <1>5, PresentIsNode DEF Opens
  <2> HIDE DEF body, head, allowance
  <2>2. Len(body) \in Nat
    BY <2>1, LenProperties
  <2>3. n \in Nat /\ n <= head /\ n <= Len(body)
    BY <1>4, <2>2 DEF Smaller
  <2> HIDE DEF n
  <2>4. h \in Seq(STRING) /\ Len(h) \in Nat /\ Len(h) <= n
    BY <2>1, <2>3, UptoIsBounded
  <2> HIDE DEF h
  <2>5. tail \in Int /\ tail <= allowance - head
    BY <1>3, <1>4, <2>4 DEF Smaller
  <2> HIDE DEF tail
  <2>6. PICK k \in Nat : /\ t \in Seq(STRING) /\ Len(t) = k
                         /\ k <= allowance - head
    <3>1. CASE reading.size > Len(h) /\ tail > 0 /\ tail <= Len(body)
      <4>1. tail \in Nat /\ t = last
        BY <2>5, <3>1
      <4>2. last \in Seq(STRING) /\ Len(last) = tail
        BY <2>1, <3>1, <4>1, LastUnits
      <4> QED BY <2>5, <4>1, <4>2
    <3>2. CASE ~(reading.size > Len(h) /\ tail > 0 /\ tail <= Len(body))
      <4>1. t = <<>>
        BY <3>2
      <4>2. t \in Seq(STRING) /\ Len(t) = 0
        BY <4>1, EmptySeq
      <4>3. 0 <= allowance - head
        BY <1>3, <1>4
      <4> QED BY <4>2, <4>3
    <3> QED BY <3>1, <3>2
  <2> HIDE DEF t
  <2>7. PICK u : u = Upto(t, Len(t))
    OBVIOUS
  <2>8. u \in Seq(STRING) /\ Len(u) \in Nat /\ Len(u) <= k
    BY <2>6, <2>7, UptoIsBounded
  <2>9. sample[1] = h /\ sample[2] = u
    BY <1>1, <1>5, <2>7
  <2>10. Len(sample[1] \o sample[2]) = Len(h) + Len(u)
    BY <2>4, <2>8, <2>9, ConcatProperties
  <2> QED BY <1>2, <1>3, <1>4, <2>3, <2>4, <2>6, <2>8, <2>10
<1>6. CASE ~(Opens(x) /\ allowance > 0)
  <2>1. sample[1] = <<>> /\ sample[2] = <<>>
    BY <1>1, <1>6
  <2>2. Len(sample[1] \o sample[2]) = 0
    BY <2>1
  <2> QED BY <1>2, <2>2
<1> QED BY <1>5, <1>6

LEMMA SampleFileKeeps ==
  ASSUME AnalysisInv, SampleFile
  PROVE  AnalysisInv'
<1> DEFINE x == reading.path
           sample == Sample(x)
           whole == sample[1] \o sample[2]
           entry == Content(x, reading.size, reading.exec, sample[1],
                            "Skipped")
           r == [entry EXCEPT !.digest = whole]
<1>1. /\ phase = "open" /\ phase' = "walk"
      /\ found' = [found EXCEPT ![x] = r] /\ reading' = NotOpen
      /\ bytes' = bytes + Len(whole)
      /\ UNCHANGED <<world, outcome>>
  BY DEF SampleFile, Enter
<1>2. x \in Path /\ reading.size \in Nat
  BY <1>1 DEF AnalysisInv, ReadIsKnown
<1>3. bytes' \in Nat /\ bytes' <= limit.total
  <2>1. /\ Len(whole) \in Nat /\ bytes + Len(whole) <= limit.total
    BY <1>2, SampleIsSmall DEF AnalysisInv
  <2> HIDE DEF whole
  <2> QED BY <1>1, <2>1 DEF AnalysisInv, AnalysisTyped
<1> HIDE DEF x, sample, whole
<1>a. IsContent(entry, reading.size, sample[1], "Skipped")
  BY ContentFields
<1> HIDE DEF entry
<1>4. /\ DOMAIN entry = EntryFields /\ entry.state = "Skipped"
      /\ entry.sampled = TRUE
  BY <1>a DEF IsContent
<1>5. DOMAIN r = EntryFields /\ r.state = "Skipped" /\ r.sampled = TRUE
  BY <1>4 DEF EntryFields
<1>6. RecordIsTrue(x, r)
  BY <1>4, <1>5 DEF RecordIsTrue, ExactDigest
<1> HIDE DEF r
<1>7. DOMAIN reading' = ReadFields
  BY <1>1 DEF NotOpen, ReadFields
<1> QED
  BY <1>1, <1>2, <1>3, <1>5, <1>6, <1>7, EntryIsTrue
     DEF world, outcome, Inventorying, Judged

LEMMA OpenFileKeeps ==
  ASSUME AnalysisInv, OpenFile
  PROVE  AnalysisInv'
<1> DEFINE x == reading.path
<1>1. /\ phase = "open" /\ UNCHANGED <<world, bytes, outcome>>
      /\ x \in Path /\ reading.size \in Nat
  BY DEF OpenFile, AnalysisInv, ReadIsKnown
<1>2. CASE Opens(x)
  <2> DEFINE content == tree[x].body
  <2>1. /\ reading' = [reading EXCEPT !.body = content]
        /\ phase' = "read" /\ UNCHANGED found
    BY <1>2 DEF OpenFile
  <2>2. content \in Seq(STRING)
    BY <1>1, <1>2, PresentIsNode DEF Opens, AnalysisInv
  <2> HIDE DEF content
  <2>3. /\ DOMAIN reading' = ReadFields
        /\ reading'.path = x /\ reading'.size = reading.size
        /\ reading'.body = content /\ reading'.got = reading.got
    BY <2>1 DEF AnalysisInv, AnalysisTyped, ReadFields
  <2>4. reading.got = <<>>
    BY <1>1 DEF AnalysisInv, ReadIsKnown
  <2>5. reading'.got \in Seq(STRING) /\ Len(reading'.got) = 0
    BY <2>3, <2>4, EmptySeq
  <2>6. AnalysisTyped'
    BY <1>1, <2>1, <2>3 DEF AnalysisInv, AnalysisTyped, world, outcome
  <2>7. ReadIsKnown'
    <3>1. tree' = tree
      BY <1>1 DEF world
    <3>2. tree'[reading'.path].body = content
      BY <2>3, <3>1 DEF content
    <3>3. Len(content) \in Nat
      BY <2>2, LenProperties
    <3>4. 1..Len(reading'.got) = {} /\ Len(reading'.got) <= Len(content)
      BY <2>5, <3>3
    <3> QED BY <1>1, <2>1, <2>2, <2>3, <2>5, <3>2, <3>4 DEF ReadIsKnown
  <2>8. NothingIsJudged'
    BY <1>1 DEF AnalysisInv, NothingIsJudged, outcome, Inventorying
  <2>9. EntriesAreTrue'
    <3>1. /\ Entries' = Entries
          /\ UNCHANGED <<todo, found, sources, tree, edited>>
      BY <1>1, <2>1 DEF Entries, world, outcome
    <3> QED
      BY <3>1 DEF AnalysisInv, EntriesAreTrue, RecordIsTrue, JudgedAsRecorded,
                  Untouched
  <2> QED BY <2>6, <2>7, <2>8, <2>9 DEF AnalysisInv
<1>3. CASE ~Opens(x)
  <2>1. PICK r : r = Entered("Text", reading.size, reading.exec, "Truncated")
    OBVIOUS
  <2>2. /\ found' = [found EXCEPT ![x] = r] /\ reading' = NotOpen
        /\ phase' = "walk"
    BY <1>3, <2>1 DEF OpenFile, Enter
  <2>3. DOMAIN r = EntryFields /\ r.digest = Void /\ r.state = "Truncated"
    BY <2>1 DEF Entered, EntryFields
  <2>4. RecordIsTrue(x, r) /\ r.state \notin Judged
    BY <2>3, BareEntryIsTrue DEF Judged
  <2>5. DOMAIN reading' = ReadFields
    BY <2>2 DEF NotOpen, ReadFields
  <2> QED
    BY <1>1, <2>2, <2>4, <2>5, EntryIsTrue
       DEF world, outcome, Inventorying, AnalysisInv, AnalysisTyped
<1> QED BY <1>2, <1>3

\* One more unit of a prefix.
LEMMA PrefixGrows ==
  ASSUME NEW S, NEW got \in Seq(S), NEW body \in Seq(S),
         Len(got) < Len(body),
         NEW next, next = Append(got, body[Len(got) + 1])
  PROVE  /\ next \in Seq(S) /\ Len(next) <= Len(body)
         /\ (\A i \in 1..Len(got) : got[i] = body[i])
               => \A i \in 1..Len(next) : next[i] = body[i]
<1>1. Len(got) \in Nat /\ Len(body) \in Nat
  BY LenProperties
<1>2. PICK n \in Nat : n = Len(got)
  BY <1>1
<1>3. n + 1 \in 1..Len(body) /\ next = Append(got, body[n + 1])
  BY <1>1, <1>2
<1>4. body[n + 1] \in S
  BY <1>3, ElementOfSeq
<1>5. /\ next \in Seq(S) /\ Len(next) = n + 1
      /\ \A i \in 1..n : next[i] = got[i]
      /\ next[n + 1] = body[n + 1]
  BY <1>2, <1>3, <1>4, AppendProperties
<1>6. \A i \in 1..(n + 1) : i \in 1..n \/ i = n + 1
  BY <1>2
<1> QED BY <1>1, <1>2, <1>3, <1>5, <1>6

LEMMA ReadUnitKeeps ==
  ASSUME AnalysisInv, ReadUnit
  PROVE  AnalysisInv'
<1> DEFINE got == reading.got
           body == reading.body
           next == Append(got, body[Len(got) + 1])
<1>1. /\ phase = "read" /\ Stops = "more"
      /\ reading' = [reading EXCEPT !.got = Append(@, body[Len(@) + 1])]
      /\ bytes' = bytes + 1
      /\ UNCHANGED <<world, phase, found, outcome>>
  BY DEF ReadUnit
<1>2. reading' = [reading EXCEPT !.got = next]
  BY <1>1
<1>3. /\ reading.path \in Path /\ reading.size \in Nat
      /\ body \in Seq(STRING) /\ got \in Seq(STRING)
      /\ Untouched(reading.path) =>
            /\ body = tree[reading.path].body
            /\ \A i \in 1..Len(got) : got[i] = body[i]
  BY <1>1 DEF AnalysisInv, ReadIsKnown
<1>4. Len(got) \in Nat /\ Len(body) \in Nat
  BY <1>3, LenProperties
<1>5. Len(got) < Len(body) /\ ~NoRoom
  BY <1>1, <1>4 DEF Stops
<1>6. /\ next \in Seq(STRING) /\ Len(next) <= Len(body)
      /\ (\A i \in 1..Len(got) : got[i] = body[i])
            => \A i \in 1..Len(next) : next[i] = body[i]
  BY <1>3, <1>5, PrefixGrows
<1> HIDE DEF got, body, next
<1>7. /\ DOMAIN reading' = ReadFields
      /\ reading'.path = reading.path /\ reading'.size = reading.size
      /\ reading'.body = body /\ reading'.got = next
  BY <1>2 DEF AnalysisInv, AnalysisTyped, ReadFields, body
<1>8. AnalysisTyped'
  <2>1. bytes' \in Nat /\ bytes' <= limit.total
    BY <1>1, <1>5, AnalysisBounds DEF NoRoom, AnalysisInv, AnalysisTyped
  <2> QED
    BY <1>1, <1>7, <2>1 DEF AnalysisInv, AnalysisTyped, world, outcome
<1>9. ReadIsKnown'
  <2>1. tree' = tree /\ edited' = edited /\ phase' = "read"
    BY <1>1 DEF world
  <2>2. Untouched(reading.path)' = Untouched(reading.path)
    BY <1>7, <2>1 DEF Untouched
  <2> QED BY <1>3, <1>6, <1>7, <2>1 DEF ReadIsKnown, Untouched
<1>10. NothingIsJudged'
  BY <1>1 DEF AnalysisInv, NothingIsJudged, outcome, Inventorying
<1>11. EntriesAreTrue'
  <2>1. /\ Entries' = Entries
        /\ UNCHANGED <<todo, found, sources, tree, edited>>
    BY <1>1 DEF Entries, world, outcome
  <2> QED
    BY <2>1 DEF AnalysisInv, EntriesAreTrue, RecordIsTrue, JudgedAsRecorded,
                Untouched
<1> QED BY <1>8, <1>9, <1>10, <1>11 DEF AnalysisInv

\* A file whose read came to its end was read whole.
LEMMA FinishFileKeeps ==
  ASSUME AnalysisInv, FinishFile
  PROVE  AnalysisInv'
<1> DEFINE x == reading.path
           state == IF Stops = "end" THEN "Unsupported" ELSE "Truncated"
           r == Content(x, reading.size, reading.exec, reading.got, state)
<1>1. /\ phase = "read" /\ phase' = "walk"
      /\ found' = [found EXCEPT ![x] = r] /\ reading' = NotOpen
      /\ UNCHANGED <<world, bytes, outcome>>
  BY DEF FinishFile, Enter
<1>2. /\ x \in Path
      /\ reading.body \in Seq(STRING) /\ reading.got \in Seq(STRING)
      /\ Untouched(x) =>
            /\ reading.body = tree[x].body
            /\ Len(reading.got) <= Len(reading.body)
            /\ \A i \in 1..Len(reading.got) :
                  reading.got[i] = reading.body[i]
  BY <1>1 DEF AnalysisInv, ReadIsKnown
<1>3. ASSUME Stops = "end", Untouched(x) PROVE reading.got = tree[x].body
  <2>1. Len(reading.got) >= Len(reading.body)
    BY <1>3 DEF Stops
  <2>2. Len(reading.got) \in Nat /\ Len(reading.body) \in Nat
    BY <1>2, LenProperties
  <2>3. Len(reading.got) = Len(reading.body)
    BY <1>2, <1>3, <2>1, <2>2
  <2> QED BY <1>2, <1>3, <2>3, SeqEqual
<1>a. state \in {"Unsupported", "Truncated"}
  OBVIOUS
<1>b. state = "Unsupported" => Stops = "end"
  OBVIOUS
<1> HIDE DEF x, state
<1>4. IsContent(r, reading.size, reading.got, state)
  BY ContentFields
<1> HIDE DEF r
<1>5. RecordIsTrue(x, r) /\ r.state \notin Judged
  BY <1>3, <1>4, <1>a, <1>b DEF IsContent, RecordIsTrue, Judged
<1>6. DOMAIN reading' = ReadFields
  BY <1>1 DEF NotOpen, ReadFields
<1> QED
  BY <1>1, <1>2, <1>5, <1>6, EntryIsTrue
     DEF world, outcome, Inventorying, AnalysisInv, AnalysisTyped

(***************************************************************************)
(* A pinned revision.                                                      *)
(***************************************************************************)
LEMMA GitOtherKeeps ==
  ASSUME AnalysisInv, GitOther
  PROVE  AnalysisInv'
<1>1. PICK x \in Path :
         /\ NextRecord(x)
         /\ IF Depth(x) > limit.depth + 1
            THEN UNCHANGED found
            ELSE IF Is(x, "link")
            THEN found' = [found EXCEPT ![x] =
                     Entered("Symlink", 1, FALSE, "Unsupported")]
            ELSE found' = [found EXCEPT ![x] =
                     Entered("Special", 0, FALSE, "Skipped")]
         /\ UNCHANGED <<world, phase, reading, bytes, outcome>>
  BY DEF GitOther
<1>2. phase = "walk"
  BY <1>1 DEF NextRecord, ReadingTree
<1>3. CASE Depth(x) > limit.depth + 1
  BY <1>1, <1>2, <1>3, AnalysisStands DEF world, outcome, Inventorying
<1>4. CASE ~(Depth(x) > limit.depth + 1)
  <2>1. PICK r : r = IF Is(x, "link")
                     THEN Entered("Symlink", 1, FALSE, "Unsupported")
                     ELSE Entered("Special", 0, FALSE, "Skipped")
    OBVIOUS
  <2>2. /\ DOMAIN r = EntryFields /\ r.digest = Void
        /\ r.state \in {"Unsupported", "Skipped"}
    BY <2>1 DEF Entered, EntryFields
  <2>3. RecordIsTrue(x, r) /\ r.state \notin Judged
    BY <2>2, BareEntryIsTrue DEF Judged
  <2>4. found' = [found EXCEPT ![x] = r]
    BY <1>1, <1>4, <2>1
  <2> QED
    BY <1>1, <1>2, <2>3, <2>4, EntryIsTrue
       DEF world, outcome, Inventorying, AnalysisInv, AnalysisTyped
<1> QED BY <1>3, <1>4

LEMMA GitBlobKeeps ==
  ASSUME AnalysisInv, GitBlob
  PROVE  AnalysisInv'
<1>1. PICK x \in Path :
         /\ NextRecord(x) /\ Is(x, "file")
         /\ LET body == tree[x].body
                size == Len(body)
                room == limit.total - bytes
                sampled == GitOversize(size)
                got == IF sampled
                       THEN SubSeq(body, 1, Smaller(size,
                                              Smaller(SampleBytes, room)))
                       ELSE body
            IN  IF seen' > limit.files
                THEN Return /\ UNCHANGED <<found, bytes>>
                ELSE /\ found' = [found EXCEPT ![x] =
                           Content(x, size, tree[x].exec, got,
                              IF sampled THEN "Skipped" ELSE "Unsupported")]
                     /\ bytes' = bytes + Len(got)
                     /\ UNCHANGED phase
         /\ UNCHANGED <<world, reading, outcome>>
  BY DEF GitBlob
<1> DEFINE body == tree[x].body
           size == Len(body)
           room == limit.total - bytes
           sampled == GitOversize(size)
           n == Smaller(size, Smaller(SampleBytes, room))
           got == IF sampled THEN SubSeq(body, 1, n) ELSE body
           exec == tree[x].exec
           state == IF sampled THEN "Skipped" ELSE "Unsupported"
           r == Content(x, size, exec, got, state)
<1>2. phase = "walk"
  BY <1>1 DEF NextRecord, ReadingTree
<1>3. CASE seen' > limit.files
  <2>1. Return /\ UNCHANGED <<found, bytes>>
    BY <1>1, <1>3
  <2> QED
    BY <1>1, <1>2, <2>1, AnalysisStands
       DEF Return, world, outcome, Inventorying
<1>4. CASE ~(seen' > limit.files)
  <2>1. /\ found' = [found EXCEPT ![x] = r]
        /\ bytes' = bytes + Len(got) /\ UNCHANGED phase
    BY <1>1, <1>4
  <2>2. body \in Seq(STRING)
    BY <1>1, PresentIsNode DEF Is, AnalysisInv
  <2>3. /\ bytes \in Nat /\ limit.total \in Nat /\ bytes <= limit.total
        /\ SampleBytes \in Nat
    BY AnalysisBounds DEF AnalysisInv, AnalysisTyped
  <2>4. size \in Nat
    BY <2>2, LenProperties
  <2>5. room \in Nat /\ bytes + room = limit.total
    BY <2>3
  <2>6. ~sampled => size <= room
    BY <2>3, <2>4 DEF GitOversize
  <2>a. tree[x].body = body
    OBVIOUS
  <2>b. size = Len(body)
    OBVIOUS
  <2> HIDE DEF body, room, size
  <2>7. n \in Nat /\ n <= room /\ n <= size
    BY <2>3, <2>4, <2>5 DEF Smaller
  <2> HIDE DEF n
  <2>8. Len(got) \in Nat /\ Len(got) <= room
    <3>1. CASE sampled
      <4>1. Len(SubSeq(body, 1, n)) = n
        BY <2>2, <2>4, <2>7, <2>b, SubSeqProperties
      <4> QED BY <2>7, <3>1, <4>1
    <3>2. CASE ~sampled
      BY <2>4, <2>6, <2>b, <3>2
    <3> QED BY <3>1, <3>2
  <2>9. state = "Unsupported" => got = body
    OBVIOUS
  <2>10. state \in {"Skipped", "Unsupported"}
    OBVIOUS
  <2> HIDE DEF got, state
  <2>11. bytes' \in Nat /\ bytes' <= limit.total
    BY <2>1, <2>3, <2>5, <2>8
  <2>12. IsContent(r, size, got, state)
    BY ContentFields
  <2> HIDE DEF r
  <2>13. RecordIsTrue(x, r) /\ r.state \notin Judged
    BY <2>9, <2>10, <2>12, <2>a DEF IsContent, RecordIsTrue, Judged
  <2> QED
    BY <1>1, <1>2, <2>1, <2>11, <2>13, EntryIsTrue
       DEF world, outcome, Inventorying, AnalysisInv, AnalysisTyped
<1> QED BY <1>3, <1>4

(***************************************************************************)
(* The analysis.                                                           *)
(***************************************************************************)
\* A step that judges x, or resolves a load of it, and nothing else.
LEMMA JudgingKeeps ==
  ASSUME AnalysisInv, phase' \notin Inventorying,
         UNCHANGED <<tree, edited, limit, reading, bytes>>,
         DOMAIN found' = Path, DOMAIN sources' = Path, todo' \subseteq todo,
         NEW x,
         \A y \in Path : y # x => /\ found'[y] = found[y]
                                 /\ sources'[y] = sources[y],
         RecordIsTrue(x, found[x])' /\ JudgedAsRecorded(x)'
  PROVE  AnalysisInv'
<1>1. AnalysisTyped'
  BY DEF AnalysisInv, AnalysisTyped
<1>2. ReadIsKnown' /\ NothingIsJudged'
  BY DEF ReadIsKnown, NothingIsJudged, Inventorying
<1>3. ASSUME NEW y \in (Entries \cup todo)', y # x
      PROVE  RecordIsTrue(y, found[y])' /\ JudgedAsRecorded(y)'
  <2>1. y \in Path
    BY <1>1, <1>3 DEF Entries, AnalysisTyped
  <2>2. y \in Entries \cup todo /\ found'[y] = found[y]
        /\ sources'[y] = sources[y]
    BY <1>3, <2>1 DEF Entries
  <2>3. RecordIsTrue(y, found[y]) /\ JudgedAsRecorded(y)
    BY <2>2 DEF AnalysisInv, EntriesAreTrue
  <2> QED BY <2>2, <2>3 DEF RecordIsTrue, JudgedAsRecorded, Untouched
<1>4. EntriesAreTrue'
  BY <1>3 DEF EntriesAreTrue
<1> QED BY <1>1, <1>2, <1>4 DEF AnalysisInv

\* What a reader hands over is under the exact digest of the inventory.
LEMMA GivenIsExact ==
  ASSUME NEW x, NEW body \in Given(x), body # Void
  PROVE  /\ body = ExactDigest(found[x]) /\ Len(body) = found[x].size
         /\ found[x].digest # Void
<1>1. body = Reread(x)
  BY DEF Given
<1> QED BY <1>1 DEF Reread, ExactDigest

LEMMA AnalyzeManifestKeeps ==
  ASSUME AnalysisInv, AnalyzeManifest
  PROVE  AnalysisInv'
<1>1. PICK x \in Path :
         /\ Analyzing(x)
         /\ \E body \in Given(x) :
               IF body = Void THEN UNCHANGED sources
               ELSE sources' = [sources EXCEPT ![x] = body]
         /\ UNCHANGED <<world, phase, inventoried>>
  BY DEF AnalyzeManifest
<1>2. PICK body \in Given(x) :
         IF body = Void THEN UNCHANGED sources
         ELSE sources' = [sources EXCEPT ![x] = body]
  BY <1>1
<1>3. phase = "analyze" /\ x \in todo /\ todo' = todo \ {x}
  BY <1>1 DEF Analyzing, First
<1>4. CASE body = Void
  BY <1>1, <1>2, <1>3, <1>4, AnalysisStands
     DEF world, inventoried, Inventorying
<1>5. CASE body # Void
  <2>1. /\ body = ExactDigest(found[x]) /\ Len(body) = found[x].size
        /\ found[x].digest # Void
    BY <1>5, GivenIsExact
  <2>2. sources'[x] = body /\ DOMAIN sources' = Path
        /\ \A y \in Path : y # x => sources'[y] = sources[y]
    BY <1>2, <1>5 DEF AnalysisInv, AnalysisTyped
  <2>3. RecordIsTrue(x, found[x]) /\ JudgedAsRecorded(x)
    BY <1>3 DEF AnalysisInv, EntriesAreTrue
  <2>4. UNCHANGED <<tree, edited, limit, reading, bytes, found, phase>>
    BY <1>1 DEF world, inventoried
  <2>5. RecordIsTrue(x, found[x])' /\ JudgedAsRecorded(x)'
    BY <1>5, <2>1, <2>2, <2>3, <2>4
       DEF RecordIsTrue, JudgedAsRecorded, Untouched
  <2>6. DOMAIN found' = Path
    BY <2>4 DEF AnalysisInv, AnalysisTyped
  <2> QED BY <1>3, <2>2, <2>4, <2>5, <2>6, JudgingKeeps DEF Inventorying
<1> QED BY <1>4, <1>5

LEMMA AnalyzeSourceKeeps ==
  ASSUME AnalysisInv, AnalyzeSource
  PROVE  AnalysisInv'
<1>1. PICK x \in Path :
         /\ Analyzing(x)
         /\ \E body \in Given(x) \ {Void} :
               /\ sources' = [sources EXCEPT ![x] = body]
               /\ found' = [found EXCEPT ![x].state =
                               StateOf(found[x].kind, body)]
         /\ UNCHANGED <<world, phase, reading, bytes>>
  BY DEF AnalyzeSource
<1>2. PICK body \in Given(x) \ {Void} :
         /\ sources' = [sources EXCEPT ![x] = body]
         /\ found' = [found EXCEPT ![x].state =
                         StateOf(found[x].kind, body)]
  BY <1>1
<1>3. phase = "analyze" /\ x \in todo /\ todo' = todo \ {x}
  BY <1>1 DEF Analyzing, First
<1>4. UNCHANGED <<tree, edited, limit, reading, bytes, phase>>
  BY <1>1 DEF world
<1>5. /\ body = ExactDigest(found[x]) /\ Len(body) = found[x].size
      /\ found[x].digest # Void /\ body # Void
  BY GivenIsExact
<1>6. PICK state : state = StateOf(found[x].kind, body)
  OBVIOUS
<1>7. state # "Truncated"
  BY <1>6 DEF StateOf
<1>8. RecordIsTrue(x, found[x]) /\ JudgedAsRecorded(x)
  BY <1>3 DEF AnalysisInv, EntriesAreTrue
<1>9. /\ DOMAIN found' = Path /\ DOMAIN sources' = Path
      /\ sources'[x] = body /\ found'[x] = [found[x] EXCEPT !.state = state]
      /\ \A y \in Path : y # x => /\ found'[y] = found[y]
                                 /\ sources'[y] = sources[y]
  BY <1>2, <1>6 DEF AnalysisInv, AnalysisTyped
<1>10. /\ DOMAIN found'[x] = EntryFields /\ found'[x].state = state
       /\ found'[x].digest = found[x].digest
       /\ found'[x].sampled = found[x].sampled
       /\ found'[x].size = found[x].size
  BY <1>8, <1>9 DEF RecordIsTrue, EntryFields
<1>11. ExactDigest(found'[x]) = ExactDigest(found[x])
  BY <1>10 DEF ExactDigest
<1>12. ~Incomplete(found'[x])
  BY <1>5, <1>7, <1>10 DEF Incomplete
<1>13. RecordIsTrue(x, found[x])'
  BY <1>4, <1>8, <1>10, <1>11 DEF RecordIsTrue, Untouched
<1>14. JudgedAsRecorded(x)'
  BY <1>5, <1>9, <1>10, <1>11, <1>12 DEF JudgedAsRecorded
<1> QED
  BY <1>3, <1>4, <1>9, <1>13, <1>14, JudgingKeeps DEF Inventorying

LEMMA ResolveEdgeKeeps ==
  ASSUME AnalysisInv, ResolveEdge
  PROVE  AnalysisInv'
<1>1. /\ phase = "analyze" /\ todo = {}
      /\ UNCHANGED <<tree, edited, limit, phase, reading, bytes, todo,
                     sources>>
  BY DEF ResolveEdge, world
<1>2. PICK target :
         IF target \in Entries
         THEN found' = [found EXCEPT ![target].target = TRUE]
         ELSE UNCHANGED found
  BY DEF ResolveEdge
<1>3. CASE target \notin Entries
  BY <1>1, <1>2, <1>3, AnalysisStands DEF Inventorying
<1>4. CASE target \in Entries
  <2>1. RecordIsTrue(target, found[target]) /\ JudgedAsRecorded(target)
    BY <1>4 DEF AnalysisInv, EntriesAreTrue
  <2>2. target \in Path
    BY <1>4 DEF Entries
  <2>3. /\ DOMAIN found' = Path /\ DOMAIN sources' = Path
        /\ found'[target] = [found[target] EXCEPT !.target = TRUE]
        /\ \A y \in Path : y # target => found'[y] = found[y]
    BY <1>1, <1>2, <1>4, <2>2 DEF AnalysisInv, AnalysisTyped
  <2>4. /\ DOMAIN found'[target] = EntryFields
        /\ found'[target].state = found[target].state
        /\ found'[target].digest = found[target].digest
        /\ found'[target].sampled = found[target].sampled
        /\ found'[target].size = found[target].size
        /\ found'[target].kind = found[target].kind
    BY <2>1, <2>3 DEF RecordIsTrue, EntryFields
  <2>5. /\ ExactDigest(found'[target]) = ExactDigest(found[target])
        /\ Incomplete(found'[target]) <=> Incomplete(found[target])
    BY <2>4 DEF ExactDigest, Incomplete
  <2>6. RecordIsTrue(target, found[target])'
    BY <1>1, <2>1, <2>4, <2>5 DEF RecordIsTrue, Untouched
  <2>7. JudgedAsRecorded(target)'
    BY <1>1, <2>1, <2>4, <2>5 DEF JudgedAsRecorded
  <2> QED BY <1>1, <2>3, <2>6, <2>7, JudgingKeeps DEF Inventorying
<1> QED BY <1>3, <1>4

LEMMA EndAnalysisKeeps ==
  ASSUME AnalysisInv, EndAnalysis
  PROVE  AnalysisInv'
<1>1. /\ phase' = "reported" /\ todo' = {}
      /\ found' = [x \in Path |->
             IF x \in Entries /\ found[x].kind = "Native"
             THEN [found[x] EXCEPT !.state = "Unsupported"] ELSE found[x]]
      /\ UNCHANGED <<tree, edited, limit, reading, bytes, sources>>
  BY DEF EndAnalysis, world
<1>2. AnalysisTyped'
  BY <1>1 DEF AnalysisInv, AnalysisTyped
<1>3. ReadIsKnown' /\ NothingIsJudged'
  BY <1>1 DEF ReadIsKnown, NothingIsJudged, Inventorying
<1>4. ASSUME NEW y \in Entries'
      PROVE  RecordIsTrue(y, found[y])' /\ JudgedAsRecorded(y)'
  <2>1. y \in Path /\ found'[y] # Void
    BY <1>4 DEF Entries
  <2>2. y \in Entries
    BY <1>1, <2>1 DEF Entries
  <2>3. RecordIsTrue(y, found[y]) /\ JudgedAsRecorded(y)
    BY <2>2 DEF AnalysisInv, EntriesAreTrue
  <2>4. CASE found[y].kind = "Native"
    <3>1. found'[y] = [found[y] EXCEPT !.state = "Unsupported"]
      BY <1>1, <2>1, <2>2, <2>4
    <3>2. /\ DOMAIN found'[y] = EntryFields
          /\ found'[y].state = "Unsupported"
          /\ found'[y].digest = found[y].digest
          /\ found'[y].sampled = found[y].sampled
          /\ found'[y].size = found[y].size
      BY <2>3, <3>1 DEF RecordIsTrue, EntryFields
    <3>3. ExactDigest(found'[y]) = ExactDigest(found[y])
      BY <3>2 DEF ExactDigest
    <3>4. RecordIsTrue(y, found[y])'
      BY <1>1, <2>3, <3>2, <3>3 DEF RecordIsTrue, Untouched
    <3>5. JudgedAsRecorded(y)'
      BY <1>1, <2>3, <3>2, <3>3 DEF JudgedAsRecorded, Judged
    <3> QED BY <3>4, <3>5
  <2>5. CASE found[y].kind # "Native"
    <3>1. found'[y] = found[y]
      BY <1>1, <2>1, <2>5
    <3> QED
      BY <1>1, <2>3, <3>1 DEF RecordIsTrue, JudgedAsRecorded, Untouched
  <2> QED BY <2>4, <2>5
<1>5. EntriesAreTrue'
  BY <1>1, <1>4 DEF EntriesAreTrue
<1> QED BY <1>2, <1>3, <1>5 DEF AnalysisInv

(***************************************************************************)
(* Edits, and all together.                                                *)
(***************************************************************************)
LEMMA EditKeeps ==
  ASSUME AnalysisInv, Edit
  PROVE  AnalysisInv'
<1> DEFINE Edited(x, node) ==
             /\ tree' = [tree EXCEPT ![x] = node]
             /\ edited' = edited \cup {x}
             /\ \/ UNCHANGED reading
                \/ /\ phase = "read" /\ reading.path = x /\ node # Void
                   /\ reading' = [reading EXCEPT !.body = node.body]
             /\ UNCHANGED <<limit, phase, found, bytes, outcome>>
<1>a. PICK x \in Path : \E node \in Edits[x] : Edited(x, node)
  BY DEF Edit
<1>b. PICK node \in Edits[x] : Edited(x, node)
  BY <1>a
<1>1. Edited(x, node)
  BY <1>b
<1>2. node \in {Void} \cup TreeNode
  BY <1>1, TreesAreTyped
<1>3. node # Void => node.body \in Seq(STRING)
  BY <1>2 DEF TreeNode
<1>4. ASSUME NEW y \in Path, Untouched(y)'
      PROVE  Untouched(y) /\ y # x /\ tree'[y] = tree[y]
  <2>1. y \in Above[y]
    BY DEF Above
  <2> QED BY <1>1, <1>4, <2>1 DEF Untouched, AnalysisInv, AnalysisTyped
<1>5. /\ DOMAIN reading' = ReadFields
      /\ reading'.path = reading.path /\ reading'.size = reading.size
      /\ reading'.got = reading.got
      /\ \/ reading'.body = reading.body
         \/ reading'.body \in Seq(STRING) /\ reading.path = x
  <2>1. CASE UNCHANGED reading
    BY <2>1 DEF AnalysisInv, AnalysisTyped
  <2>2. CASE ~UNCHANGED reading
    <3> DEFINE body == node.body
    <3>1. /\ reading.path = x /\ body \in Seq(STRING)
          /\ reading' = [reading EXCEPT !.body = body]
      BY <1>1, <1>3, <2>2
    <3> HIDE DEF body
    <3> QED BY <3>1 DEF AnalysisInv, AnalysisTyped, ReadFields
  <2> QED BY <2>1, <2>2
<1>6. AnalysisTyped'
  BY <1>1, <1>2, <1>5 DEF AnalysisInv, AnalysisTyped, outcome
<1>7. ReadIsKnown'
  <2>1. SUFFICES ASSUME phase \in {"open", "read"} PROVE ReadIsKnown'
    BY <1>1 DEF ReadIsKnown
  <2>2. /\ reading.path \in Path /\ reading.size \in Nat
        /\ phase = "open" => reading.got = <<>>
        /\ phase = "read" => /\ reading.body \in Seq(STRING)
                             /\ reading.got \in Seq(STRING)
    BY <2>1 DEF AnalysisInv, ReadIsKnown
  <2>3. ASSUME Untouched(reading.path)', phase = "read"
        PROVE  /\ reading'.body = tree'[reading.path].body
               /\ Len(reading.got) <= Len(reading'.body)
               /\ \A i \in 1..Len(reading.got) :
                     reading.got[i] = reading'.body[i]
    <3>1. Untouched(reading.path)
      BY <1>1, <2>3, <1>5 DEF Untouched
    <3>2. reading.path # x /\ tree'[reading.path] = tree[reading.path]
      <4>1. Above[reading.path] \cap edited' = {}
        BY <1>5, <2>3 DEF Untouched
      <4>2. reading.path \in Above[reading.path]
        BY <2>2 DEF Above
      <4> QED
        BY <1>1, <2>2, <4>1, <4>2 DEF AnalysisInv, AnalysisTyped
    <3> QED BY <1>5, <2>3, <3>1, <3>2 DEF AnalysisInv, ReadIsKnown
  <2> QED BY <1>1, <1>5, <2>2, <2>3 DEF ReadIsKnown, Untouched
<1>8. NothingIsJudged'
  BY <1>1 DEF AnalysisInv, NothingIsJudged, outcome
<1>9. EntriesAreTrue'
  <2>1. /\ Entries' = Entries
        /\ UNCHANGED <<todo, found, sources>>
    BY <1>1 DEF Entries, outcome
  <2>2. ASSUME NEW y \in Entries \cup todo
        PROVE  RecordIsTrue(y, found[y])' /\ JudgedAsRecorded(y)'
    <3>1. y \in Path
      BY DEF Entries, AnalysisInv, AnalysisTyped
    <3>2. RecordIsTrue(y, found[y]) /\ JudgedAsRecorded(y)
      BY DEF AnalysisInv, EntriesAreTrue
    <3> QED BY <1>4, <2>1, <3>1, <3>2 DEF RecordIsTrue, JudgedAsRecorded
  <2> QED BY <2>1, <2>2 DEF EntriesAreTrue
<1> QED BY <1>6, <1>7, <1>8, <1>9 DEF AnalysisInv

LEMMA AnalysisHolds == AnalysisSpec => []AnalysisInv
<1>1. AnalysisInit => AnalysisInv
  <2> SUFFICES ASSUME AnalysisInit PROVE AnalysisInv
    OBVIOUS
  <2>1. /\ tree \in Trees /\ limit \in LimitSets /\ phase = "walk"
        /\ reading = NotOpen /\ found = NothingFound /\ bytes = 0
        /\ todo = {} /\ sources = NothingFound
    BY DEF AnalysisInit, NothingAnalyzed
  <2>2. limit.total \in Nat
    BY <2>1, AnalysisBounds
  <2>3. AnalysisTyped
    BY <2>1, <2>2, TreesAreTyped
       DEF AnalysisTyped, NothingFound, NotOpen, ReadFields
  <2>4. ReadIsKnown /\ NothingIsJudged
    BY <2>1 DEF ReadIsKnown, NothingIsJudged
  <2>5. Entries \cup todo = {}
    BY <2>1 DEF Entries, NothingFound
  <2> QED BY <2>3, <2>4, <2>5 DEF AnalysisInv, EntriesAreTrue
<1>2. AnalysisInv /\ [AnalysisNext]_payload => AnalysisInv'
  <2> SUFFICES ASSUME AnalysisInv, [AnalysisNext]_payload
               PROVE  AnalysisInv'
    OBVIOUS
  <2>1. CASE UNCHANGED payload
    BY <2>1, AnalysisStands
       DEF payload, world, inventoried, outcome, Inventorying
  <2>2. CASE AnalysisNext
    BY <2>2, QuietStepsKeep, VisitsKeep, VisitFileKeeps, SampleFileKeeps,
       OpenFileKeeps, ReadUnitKeeps, FinishFileKeeps, GitOtherKeeps,
       GitBlobKeeps, AnalyzeManifestKeeps, AnalyzeSourceKeeps,
       ResolveEdgeKeeps, EndAnalysisKeeps, EditKeeps
       DEF AnalysisNext
  <2> QED BY <2>1, <2>2
<1> QED BY <1>1, <1>2, PTL DEF AnalysisSpec

\* What the detectors of analyze and scan-plugin were given is, file by file,
\* what the inventory recorded in full under an exact digest; no more was
\* read than the aggregate limit; a file is called analyzed only when its
\* bytes were given; and an exact digest is that of the whole content of a
\* file nobody touched: for every tree, every limit, every point at which
\* the time runs out, and whatever is edited or lost meanwhile.
THEOREM AnalysisReadsInventory == AnalysisSpec => []ReadsAreOfInventory
<1>1. AnalysisInv => ReadsAreOfInventory
  <2> SUFFICES ASSUME AnalysisInv PROVE ReadsAreOfInventory
    OBVIOUS
  <2>1. \A x \in Entries : RecordIsTrue(x, found[x]) /\ JudgedAsRecorded(x)
    BY DEF AnalysisInv, EntriesAreTrue
  <2>2. bytes <= limit.total
    BY DEF AnalysisInv, AnalysisTyped
  <2> QED
    BY <2>1, <2>2
       DEF ReadsAreOfInventory, RecordIsTrue, JudgedAsRecorded, Judged
<1> QED BY <1>1, AnalysisHolds, PTL

(***************************************************************************)
(* Nothing is lost silently.  Of every file of the logical root that was   *)
(* never touched, the report will say what it holds: the walk has yet to   *)
(* come to it, or to a directory above it; or it is being read; or it is   *)
(* recorded whole, and then yet to be analyzed, or judged.  What keeps     *)
(* this is the shape of the walk: the frames are the directories from the  *)
(* one being walked up to the base, as deep as they are many.              *)
(***************************************************************************)
WalkFrame == [dir : Path \cup {Top}, listed : BOOLEAN, rest : SUBSET Path]
InWalk == {"walk", "open", "read"}
InTree(d) == d = base \/ InBase(d)

\* Above what is untouched and there, there are directories.
TreeIsNested ==
    \A x \in Path : Untouched(x) /\ Exists(x) =>
        \A y \in Above[x] \ {x, Top} : tree[y].type = "dir"

FramesNest ==
    /\ base \in Path \cup {Top} /\ front \in {"git", "filesystem"}
    /\ frames \in Seq(WalkFrame)
    /\ phase \in InWalk => frames # <<>>
    /\ phase \in {"listed", "analyze", "reported"} => frames = <<>>
    /\ \A i \in DOMAIN frames :
          /\ InTree(frames[i].dir) /\ Depth(frames[i].dir) = Len(frames) - i
          /\ front = "filesystem" =>
                \A y \in frames[i].rest : Parent[y] = frames[i].dir

Owed(x) == InBase(x) /\ Is(x, "file") /\ Untouched(x) /\ ~OfGit(x)

Awaits(f, x) ==
    IF ~f.listed THEN f.dir \in Above[x] \ {x}
    ELSE IF front = "git" THEN x \in f.rest
    ELSE f.rest \cap Above[x] # {}

AwaitedIn(x) == \E i \in DOMAIN frames : Awaits(frames[i], x)
BeingRead(x) == phase \in {"open", "read"} /\ reading.path = x

\* What lstat said of a file that is being read is so.
ReadingIsOwed ==
    /\ phase = "read" => reading.size <= limit.file
    /\ \A x \in Path : Owed(x) /\ BeingRead(x) =>
          reading.size = Len(tree[x].body) /\ reading.exec = tree[x].exec

\* The entry of x is of all it holds.
Recorded(x) ==
    /\ found[x] \in EntryRecord
    /\ found[x].kind = Classify(x, tree[x].exec, tree[x].body)
    /\ found[x].size = Len(tree[x].body) /\ found[x].size <= limit.file
    /\ found[x].exec = tree[x].exec
    /\ found[x].digest = tree[x].body /\ ~found[x].sampled
    /\ found[x].class = ContentClass(tree[x].body)
    /\ found[x].hint = LanguageHint(tree[x].body)

\* What it holds was reported.
JudgedInFull(x) ==
    LET body == tree[x].body
    IN  IF Spelled[x] = "manifest"
        THEN Holds("evil", body) => <<x, "manifest">> \in results
        ELSE HasDetector(found[x].kind) =>
                /\ Holds("evil", body) => <<x, "evil">> \in results
                /\ Holds("ref", body) => \E e \in edges : e[1] = x

BinaryIsNamed(x) ==
    found[x].kind = "Native" /\ found[x].target =>
        <<x, "bundled-binary">> \in results

Accounted(x) ==
    \/ Explained(x)
    \/ phase \in InWalk /\ (BeingRead(x) \/ AwaitedIn(x))
    \/ phase \in InWalk \cup {"listed"} /\ Recorded(x)
    \/ phase = "analyze" /\ Recorded(x) /\ (x \in todo \/ JudgedInFull(x))
    \/ phase = "reported" /\ Recorded(x) /\ JudgedInFull(x) /\ BinaryIsNamed(x)

DisclosureInv ==
    /\ TreeIsNested /\ FramesNest /\ ReadingIsOwed
    /\ phase # "failed" => \A x \in Path : Owed(x) => Accounted(x)

(***************************************************************************)
(* Paths.                                                                  *)
(***************************************************************************)
LEMMA AboveHas ==
  ASSUME NEW x \in Path \cup {Top}
  PROVE  /\ x \in Above[x] /\ Above[x] \subseteq Path \cup {Top}
         /\ \A y \in Above[x] : Above[y] \subseteq Above[x]
         /\ \A y \in Above[x] \cap Path : Parent[y] \in Above[x]
<1>1. x \in Above[x] /\ Above[x] \subseteq Path \cup {Top}
  BY DEF Above
<1>2. ASSUME NEW y \in Above[x], NEW z \in Above[y] PROVE z \in Above[x]
  <2>1. y \in Path \cup {Top} /\ z \in Path \cup {Top}
    BY <1>1 DEF Above
  <2>2. \A c \in Upward : x \in c => z \in c
    BY <2>1 DEF Above
  <2> QED BY <2>1, <2>2 DEF Above
<1>3. ASSUME NEW y \in Above[x] \cap Path PROVE Parent[y] \in Above[x]
  <2>1. Parent[y] \in Path \cup {Top}
    BY PathsAreNested
  <2>2. \A c \in Upward : x \in c => Parent[y] \in c
    BY DEF Above, Upward
  <2> QED BY <2>1, <2>2 DEF Above
<1> QED BY <1>1, <1>2, <1>3

\* A path lies in itself, its directory, and where that lies.
LEMMA AboveIs ==
  ASSUME NEW x \in Path
  PROVE  Above[x] = {x} \cup Above[Parent[x]] /\ x \notin Above[Parent[x]]
<1> DEFINE c == {x} \cup Above[Parent[x]]
<1>1. Parent[x] \in Path \cup {Top} /\ x \notin Above[Parent[x]]
  BY PathsAreNested
<1>2. c \subseteq Above[x]
  BY <1>1, AboveHas
<1>3. c \in Upward
  <2>1. c \subseteq Path \cup {Top}
    BY <1>1, AboveHas
  <2>2. \A y \in c \cap Path : Parent[y] \in c
    BY <1>1, AboveHas
  <2> QED BY <2>1, <2>2 DEF Upward
<1>4. Above[x] \subseteq c
  BY <1>3 DEF Above
<1> QED BY <1>1, <1>2, <1>4

\* Between a path and a directory it lies in there is an entry of the
\* directory.
LEMMA AboveChild ==
  ASSUME NEW x \in Path, NEW d \in Above[x], d # x
  PROVE  \E y \in Above[x] \cap Path : Parent[y] = d
<1> DEFINE c == Above[x] \ {d}
<1> SUFFICES ASSUME \A y \in Above[x] \cap Path : Parent[y] # d PROVE FALSE
  OBVIOUS
<1>1. c \in Upward
  BY AboveHas DEF Upward
<1>2. x \in c
  BY AboveHas
<1> QED BY <1>1, <1>2 DEF Above

\* No two paths lie in one another.
LEMMA AboveOneWay ==
  ASSUME NEW x \in Path \cup {Top}, NEW y \in Above[x], x \in Above[y]
  PROVE  x = y
<1>1. CASE x = Top
  <2>1. {Top} \in Upward
    BY PathsAreNested DEF Upward
  <2> QED BY <1>1, <2>1 DEF Above
<1>2. CASE x \in Path /\ x # y
  <2>1. y \in Above[Parent[x]] /\ x \notin Above[Parent[x]]
    BY <1>2, AboveIs
  <2>2. Above[y] \subseteq Above[Parent[x]]
    BY <1>2, <2>1, AboveHas, PathsAreNested
  <2> QED BY <2>1, <2>2
<1> QED BY <1>1, <1>2

Between(x) == {y \in Above[x] : InBase(y)}

LEMMA BetweenIsFinite ==
  ASSUME NEW x \in Path \cup {Top}
  PROVE  /\ IsFiniteSet(Between(x)) /\ Depth(x) = Cardinality(Between(x))
         /\ Depth(x) \in Nat
<1>1. Between(x) \subseteq Path
  BY AboveHas DEF Between, InBase
<1>2. IsFiniteSet(Between(x))
  BY <1>1, PathsAreNested, FS_Subset
<1> QED BY <1>2, FS_CardinalityType DEF Between, Depth

\* The base is at depth none, and an entry of a directory one deeper than it.
LEMMA DepthOfBase ==
  ASSUME base \in Path \cup {Top}
  PROVE  Depth(base) = 0
<1>1. Between(base) = {}
  BY AboveOneWay DEF Between, InBase
<1> QED BY <1>1, BetweenIsFinite, FS_EmptySet

LEMMA DepthOfEntry ==
  ASSUME base \in Path \cup {Top}, NEW x \in Path, InTree(Parent[x])
  PROVE  InBase(x) /\ Depth(x) = Depth(Parent[x]) + 1
<1>1. Parent[x] \in Path \cup {Top} /\ x # Top
  BY PathsAreNested
<1>2. Above[x] = {x} \cup Above[Parent[x]] /\ x \notin Above[Parent[x]]
  BY AboveIs
<1>3. base \in Above[Parent[x]]
  BY AboveHas DEF InTree, InBase
<1>4. InBase(x)
  BY <1>1, <1>2, <1>3 DEF InBase
<1>5. Between(x) = Between(Parent[x]) \cup {x} /\ x \notin Between(Parent[x])
  BY <1>2, <1>4 DEF Between
<1>6. IsFiniteSet(Between(Parent[x])) /\ Depth(Parent[x]) \in Nat
      /\ Depth(Parent[x]) = Cardinality(Between(Parent[x]))
      /\ Depth(x) = Cardinality(Between(x))
  BY <1>1, BetweenIsFinite
<1>7. Cardinality(Between(Parent[x]) \cup {x})
         = Cardinality(Between(Parent[x])) + 1
  BY <1>5, <1>6, FS_AddElement
<1> QED BY <1>4, <1>5, <1>6, <1>7

\* What lies in a directory is deeper than it.
LEMMA DepthBelow ==
  ASSUME NEW x \in Path, InBase(x), NEW d \in Above[x], d # x
  PROVE  Depth(d) \in Nat /\ Depth(x) \in Nat /\ Depth(x) >= Depth(d) + 1
<1>1. d \in Path \cup {Top} /\ x \notin Above[d]
  BY AboveHas, AboveOneWay
<1>2. Between(d) \cup {x} \subseteq Between(x) /\ x \notin Between(d)
  BY <1>1, AboveHas DEF Between
<1>3. /\ IsFiniteSet(Between(d)) /\ IsFiniteSet(Between(x))
      /\ Depth(d) = Cardinality(Between(d)) /\ Depth(d) \in Nat
      /\ Depth(x) = Cardinality(Between(x)) /\ Depth(x) \in Nat
  BY <1>1, BetweenIsFinite
<1>4. /\ IsFiniteSet(Between(d) \cup {x})
      /\ Cardinality(Between(d) \cup {x}) = Cardinality(Between(d)) + 1
  BY <1>2, <1>3, FS_AddElement
<1>5. Cardinality(Between(d) \cup {x}) <= Cardinality(Between(x))
  BY <1>2, <1>3, FS_Subset
<1> QED BY <1>3, <1>4, <1>5

(***************************************************************************)
(* What stays owed, explained and recorded.                                *)
(***************************************************************************)
LEMMA ExplainedStays ==
  ASSUME UNCHANGED <<tree, limit, base>>, notes \subseteq notes',
         gaps \subseteq gaps', NEW x
  PROVE  Explained(x) => Explained(x)'
<1>1. \A n : Explains(n, x)' <=> Explains(n, x)
  BY DEF Explains, Depth, InBase, Odd
<1> QED BY <1>1 DEF Explained

LEMMA OwedStays ==
  ASSUME UNCHANGED <<tree, base, front, edited>>, NEW x
  PROVE  Owed(x)' <=> Owed(x)
BY DEF Owed, InBase, Is, Exists, Untouched, OfGit

LEMMA RecordedStays ==
  ASSUME UNCHANGED <<tree, limit>>, NEW x, found'[x] = found[x]
  PROVE  Recorded(x)' <=> Recorded(x)
BY DEF Recorded

\* What is owed is a file, and all above it that is not the top is a
\* directory that nobody touched.
LEMMA OwedIs ==
  ASSUME DisclosureInv, NEW x \in Path, Owed(x)
  PROVE  /\ x \notin {Top, base} /\ base \in Above[x] /\ Exists(x)
         /\ tree[x].type = "file"
         /\ \A y \in Above[x] \cap Path :
               /\ Exists(y)
               /\ y # x => tree[y].type = "dir"
<1>1. /\ x \notin {Top, base} /\ base \in Above[x] /\ Exists(x)
      /\ tree[x].type = "file" /\ Untouched(x)
  BY DEF Owed, InBase, Is
<1>2. ASSUME NEW y \in Above[x] \cap Path PROVE Exists(y)
  BY <1>1, AboveHas DEF Exists
<1>3. \A y \in Above[x] \cap Path : y # x => tree[y].type = "dir"
  BY <1>1, PathsAreNested DEF DisclosureInv, TreeIsNested
<1> QED BY <1>1, <1>2, <1>3

LEMMA TreeStaysNested ==
  ASSUME DisclosureInv, UNCHANGED <<tree, edited>>
  PROVE  TreeIsNested'
BY DEF DisclosureInv, TreeIsNested, Untouched, Exists

(***************************************************************************)
(* The frames.                                                             *)
(***************************************************************************)
\* What lies in a frame's directory is in the tree, one deeper.
LEMMA EntryOfFrame ==
  ASSUME FramesNest, front = "filesystem", NEW i \in DOMAIN frames,
         NEW y \in frames[i].rest
  PROVE  /\ y \in Path /\ Parent[y] = frames[i].dir /\ InBase(y)
         /\ Depth(y) = Len(frames) - i + 1
<1>1. frames[i] \in WalkFrame
  BY DEF FramesNest
<1>2. y \in Path /\ Parent[y] = frames[i].dir /\ InTree(frames[i].dir)
      /\ Depth(frames[i].dir) = Len(frames) - i
  BY <1>1 DEF FramesNest, WalkFrame
<1> QED BY <1>2, DepthOfEntry DEF FramesNest

\* The innermost directory is done with, or given up.
LEMMA ReturnKeeps ==
  ASSUME FramesNest, phase = "walk", Return, UNCHANGED <<base, front>>
  PROVE  /\ FramesNest' /\ phase' \in {"walk", "listed"}
         /\ \A x : AwaitedIn(x) =>
               \/ Awaits(frames[1], x)
               \/ phase' = "walk" /\ AwaitedIn(x)'
<1>1. /\ frames \in Seq(WalkFrame) /\ frames # <<>>
      /\ frames' = Tail(frames)
      /\ phase' = IF Len(frames) = 1 THEN "listed" ELSE phase
  BY DEF FramesNest, Return, InWalk
<1>2. PICK n \in Nat : n = Len(frames)
  BY <1>1, LenProperties
<1>3. /\ frames' \in Seq(WalkFrame) /\ Len(frames') = n - 1 /\ n # 0
      /\ \A i \in 1..(n - 1) : frames'[i] = frames[i + 1]
      /\ DOMAIN frames = 1..n /\ DOMAIN frames' = 1..(n - 1)
  <2>1. n # 0 /\ DOMAIN frames = 1..n
    BY <1>1, <1>2, LenProperties, EmptySeq
  <2>2. /\ Tail(frames) \in Seq(WalkFrame) /\ Len(Tail(frames)) = n - 1
        /\ \A i \in 1..(n - 1) : Tail(frames)[i] = frames[i + 1]
    BY <1>1, <1>2, HeadTailProperties
  <2>3. DOMAIN frames' = 1..(n - 1)
    BY <1>1, <2>2, LenProperties
  <2> QED BY <1>1, <2>1, <2>2, <2>3
<1>4. /\ n = 1 => frames' = <<>> /\ phase' = "listed"
      /\ n # 1 => frames' # <<>> /\ phase' = "walk"
  <2>1. phase' = IF n = 1 THEN "listed" ELSE "walk"
    BY <1>1, <1>2
  <2>2. n = 1 => frames' = <<>>
    BY <1>3, EmptySeq
  <2>3. n # 1 => frames' # <<>>
    BY <1>3, EmptySeq
  <2> QED BY <2>1, <2>2, <2>3
<1>5. ASSUME NEW i \in DOMAIN frames'
      PROVE  /\ InTree(frames'[i].dir) /\ Depth(frames'[i].dir) = n - 1 - i
             /\ front = "filesystem" =>
                  \A y \in frames'[i].rest : Parent[y] = frames'[i].dir
  <2>1. i \in 1..(n - 1) /\ i + 1 \in DOMAIN frames
        /\ frames'[i] = frames[i + 1] /\ n - (i + 1) = n - 1 - i
    BY <1>3
  <2>2. /\ InTree(frames[i + 1].dir)
        /\ Depth(frames[i + 1].dir) = n - (i + 1)
        /\ front = "filesystem" =>
             \A y \in frames[i + 1].rest : Parent[y] = frames[i + 1].dir
    BY <1>2, <2>1 DEF FramesNest
  <2> QED BY <2>1, <2>2
<1>6. FramesNest'
  <2>1. \A d : InTree(d)' = InTree(d) /\ Depth(d)' = Depth(d)
    BY DEF InTree, InBase, Depth
  <2>2. /\ (phase' \in InWalk => frames' # <<>>)
        /\ (phase' \in {"listed", "analyze", "reported"} => frames' = <<>>)
    BY <1>4 DEF InWalk
  <2>3. base' \in Path \cup {Top} /\ front' \in {"git", "filesystem"}
    BY DEF FramesNest
  <2> HIDE DEF InTree, Depth
  <2> QED BY <1>3, <1>5, <2>1, <2>2, <2>3 DEF FramesNest
<1>7. ASSUME NEW x, AwaitedIn(x), ~Awaits(frames[1], x)
      PROVE  phase' = "walk" /\ AwaitedIn(x)'
  <2>1. PICK j \in DOMAIN frames : Awaits(frames[j], x)
    BY <1>7 DEF AwaitedIn
  <2>2. j # 1
    BY <1>7, <2>1
  <2>3. j - 1 \in 1..(n - 1) /\ (j - 1) + 1 = j
    BY <1>3, <2>2
  <2>4. j - 1 \in DOMAIN frames' /\ frames'[j - 1] = frames[j]
    BY <1>3, <2>3
  <2> QED BY <1>3, <1>4, <2>1, <2>3, <2>4 DEF AwaitedIn, Awaits
<1> QED BY <1>4, <1>6, <1>7

\* The innermost frame has other entries left.
LEMMA RestKeeps ==
  ASSUME FramesNest, phase = "walk", phase' \in InWalk,
         UNCHANGED <<base, front>>, NEW f \in WalkFrame,
         frames' = [frames EXCEPT ![1] = f], f.dir = frames[1].dir,
         front = "filesystem" => \A y \in f.rest : Parent[y] = f.dir
  PROVE  /\ FramesNest'
         /\ \A x : AwaitedIn(x) /\ (Awaits(frames[1], x) => Awaits(f, x))
                      => AwaitedIn(x)'
<1>1. /\ frames \in Seq(WalkFrame) /\ frames # <<>>
  BY DEF FramesNest, InWalk
<1>2. PICK n \in Nat : n = Len(frames)
  BY <1>1, LenProperties
<1>3. n # 0 /\ DOMAIN frames = 1..n /\ 1 \in 1..n
      /\ \A i \in 1..n : frames[i] \in WalkFrame
  BY <1>1, <1>2, LenProperties, EmptySeq
<1>4. /\ frames' \in Seq(WalkFrame) /\ Len(frames') = n
      /\ DOMAIN frames' = 1..n /\ frames'[1] = f /\ frames' # <<>>
      /\ \A i \in 1..n : i # 1 => frames'[i] = frames[i]
  <2>1. frames' \in [1..n -> WalkFrame] /\ frames'[1] = f
        /\ \A i \in 1..n : i # 1 => frames'[i] = frames[i]
    BY <1>1, <1>2, <1>3
  <2>2. frames' \in Seq(WalkFrame) /\ Len(frames') = n
    BY <1>1, <1>2, <1>3, ExceptSeq
  <2> QED BY <1>3, <2>1, <2>2, EmptySeq, LenProperties
<1>5. ASSUME NEW i \in DOMAIN frames'
      PROVE  /\ InTree(frames'[i].dir) /\ Depth(frames'[i].dir) = n - i
             /\ front = "filesystem" =>
                  \A y \in frames'[i].rest : Parent[y] = frames'[i].dir
  <2>1. i \in DOMAIN frames /\ frames'[i].dir = frames[i].dir
    BY <1>3, <1>4
  <2>2. /\ InTree(frames[i].dir) /\ Depth(frames[i].dir) = n - i
        /\ front = "filesystem" =>
             \A y \in frames[i].rest : Parent[y] = frames[i].dir
    BY <1>2, <2>1 DEF FramesNest
  <2> QED BY <1>3, <1>4, <2>1, <2>2
<1>6. FramesNest'
  <2>1. \A d : InTree(d)' = InTree(d) /\ Depth(d)' = Depth(d)
    BY DEF InTree, InBase, Depth
  <2>2. /\ (phase' \in InWalk => frames' # <<>>)
        /\ (phase' \in {"listed", "analyze", "reported"} => frames' = <<>>)
    BY <1>4 DEF InWalk
  <2>3. base' \in Path \cup {Top} /\ front' \in {"git", "filesystem"}
    BY DEF FramesNest
  <2> HIDE DEF InTree, Depth
  <2> QED BY <1>4, <1>5, <2>1, <2>2, <2>3 DEF FramesNest
<1>7. ASSUME NEW x, AwaitedIn(x), Awaits(frames[1], x) => Awaits(f, x)
      PROVE  AwaitedIn(x)'
  <2>1. PICK j \in DOMAIN frames : Awaits(frames[j], x)
    BY <1>7 DEF AwaitedIn
  <2>2. j \in DOMAIN frames' /\ Awaits(frames'[j], x)
    BY <1>3, <1>4, <1>7, <2>1
  <2> QED BY <2>2 DEF AwaitedIn, Awaits
<1> QED BY <1>6, <1>7

\* Two elements before a sequence.
LEMMA TwoBefore ==
  ASSUME NEW S, NEW a \in S, NEW b \in S, NEW t \in Seq(S),
         NEW n \in Nat, Len(t) = n
  PROVE  /\ <<a, b>> \o t \in Seq(S) /\ Len(<<a, b>> \o t) = n + 2
         /\ (<<a, b>> \o t)[1] = a /\ (<<a, b>> \o t)[2] = b
         /\ \A i \in 1..n : (<<a, b>> \o t)[i + 2] = t[i]
<1>1. /\ <<a, b>> \in Seq(S) /\ Len(<<a, b>>) = 2
      /\ <<a, b>>[1] = a /\ <<a, b>>[2] = b
  OBVIOUS
<1>2. PICK h \in Seq(S) : h = <<a, b>>
  BY <1>1
<1>3. /\ h \o t \in Seq(S) /\ Len(h \o t) = Len(h) + Len(t)
      /\ \A i \in 1..(Len(h) + Len(t)) : (h \o t)[i] =
            IF i <= Len(h) THEN h[i] ELSE t[i - Len(h)]
  BY ConcatProperties
<1>4. Len(h) = 2 /\ h[1] = a /\ h[2] = b
  BY <1>1, <1>2
<1>5. \A i \in 1..(2 + n) : (h \o t)[i] = IF i <= 2 THEN h[i] ELSE t[i - 2]
  BY <1>3, <1>4
<1>6. (h \o t)[1] = a /\ (h \o t)[2] = b
  <2>1. 1 \in 1..(2 + n) /\ 2 \in 1..(2 + n) /\ 1 <= 2 /\ 2 <= 2
    OBVIOUS
  <2>2. (h \o t)[1] = h[1] /\ (h \o t)[2] = h[2]
    BY <1>5, <2>1
  <2> QED BY <1>4, <2>2
<1>7. ASSUME NEW i \in 1..n PROVE (h \o t)[i + 2] = t[i]
  <2>1. i + 2 \in 1..(2 + n) /\ ~(i + 2 <= 2) /\ (i + 2) - 2 = i
    OBVIOUS
  <2> QED BY <1>5, <2>1
<1>8. Len(h \o t) = n + 2
  BY <1>3, <1>4
<1> QED BY <1>2, <1>3, <1>6, <1>7, <1>8

\* A directory is entered, beside the other entries of the one it is in.
LEMMA PushKeepsFrames ==
  ASSUME FramesNest, phase = "walk", front = "filesystem",
         UNCHANGED <<base, front, phase>>, NEW y \in frames[1].rest,
         NEW f \in WalkFrame, f.dir = frames[1].dir,
         f.rest = frames[1].rest \ {y}, f.listed = frames[1].listed,
         frames' = <<Unlisted(y), f>> \o Tail(frames)
  PROVE  /\ FramesNest'
         /\ \A x \in Path : AwaitedIn(x) /\ x # y => AwaitedIn(x)'
<1>1. /\ frames \in Seq(WalkFrame) /\ frames # <<>>
  BY DEF FramesNest, InWalk
<1>2. PICK n \in Nat : n = Len(frames)
  BY <1>1, LenProperties
<1>3. /\ n # 0 /\ DOMAIN frames = 1..n /\ 1 \in 1..n
      /\ Tail(frames) \in Seq(WalkFrame) /\ Len(Tail(frames)) = n - 1
      /\ \A i \in 1..(n - 1) : Tail(frames)[i] = frames[i + 1]
  BY <1>1, <1>2, HeadTailProperties, LenProperties, EmptySeq
<1>4. /\ y \in Path /\ Parent[y] = frames[1].dir /\ InBase(y)
      /\ Depth(y) = n
  BY <1>2, <1>3, EntryOfFrame
<1>5. PICK g : g = Unlisted(y)
  OBVIOUS
<1>6. g \in WalkFrame /\ g.dir = y /\ g.rest = {} /\ g.listed = FALSE
  BY <1>4, <1>5 DEF Unlisted, WalkFrame
<1>7. /\ frames' \in Seq(WalkFrame) /\ Len(frames') = n + 1
      /\ DOMAIN frames' = 1..(n + 1) /\ frames' # <<>>
      /\ frames'[1] = g /\ frames'[2] = f
      /\ \A i \in 1..n : i # 1 => frames'[i + 1] = frames[i]
  <2>1. PICK t \in Seq(WalkFrame) : t = Tail(frames)
    BY <1>3
  <2>2. PICK m \in Nat : m = n - 1
    BY <1>3
  <2>3. frames' = <<g, f>> \o t /\ Len(t) = m
        /\ \A i \in 1..m : t[i] = frames[i + 1]
    BY <1>3, <1>5, <2>1, <2>2
  <2>4. /\ frames' \in Seq(WalkFrame) /\ Len(frames') = m + 2
        /\ frames'[1] = g /\ frames'[2] = f
        /\ \A i \in 1..m : frames'[i + 2] = t[i]
    <3>1. /\ <<g, f>> \o t \in Seq(WalkFrame) /\ Len(<<g, f>> \o t) = m + 2
          /\ (<<g, f>> \o t)[1] = g /\ (<<g, f>> \o t)[2] = f
          /\ \A i \in 1..m : (<<g, f>> \o t)[i + 2] = t[i]
      BY <1>6, <2>3, TwoBefore
    <3> QED BY <2>3, <3>1
  <2>5. ASSUME NEW i \in 1..n, i # 1 PROVE frames'[i + 1] = frames[i]
    <3>1. i - 1 \in 1..m /\ (i - 1) + 2 = i + 1 /\ (i - 1) + 1 = i
      BY <2>2, <2>5
    <3> QED BY <2>3, <2>4, <3>1
  <2>6. Len(frames') = n + 1
    BY <2>2, <2>4
  <2> QED BY <2>4, <2>5, <2>6, LenProperties, EmptySeq
<1>8. ASSUME NEW i \in DOMAIN frames'
      PROVE  /\ InTree(frames'[i].dir) /\ Depth(frames'[i].dir) = n + 1 - i
             /\ \A z \in frames'[i].rest : Parent[z] = frames'[i].dir
  <2>1. CASE i = 1
    BY <1>4, <1>6, <1>7, <2>1 DEF InTree
  <2>2. CASE i = 2
    <3>1. /\ InTree(frames[1].dir) /\ Depth(frames[1].dir) = n - 1
          /\ \A z \in frames[1].rest : Parent[z] = frames[1].dir
      BY <1>2, <1>3 DEF FramesNest
    <3> QED BY <1>7, <2>2, <3>1
  <2>3. CASE i \notin {1, 2}
    <3>1. i - 1 \in 1..n /\ i - 1 # 1 /\ (i - 1) + 1 = i
      BY <1>7, <2>3
    <3>2. frames'[i] = frames[i - 1]
      BY <1>7, <3>1
    <3>3. /\ InTree(frames[i - 1].dir)
          /\ Depth(frames[i - 1].dir) = n - (i - 1)
          /\ \A z \in frames[i - 1].rest : Parent[z] = frames[i - 1].dir
      BY <1>2, <1>3, <3>1 DEF FramesNest
    <3> QED BY <3>1, <3>2, <3>3
  <2> QED BY <2>1, <2>2, <2>3
<1>9. FramesNest'
  <2>1. \A d : InTree(d)' = InTree(d) /\ Depth(d)' = Depth(d)
    BY DEF InTree, InBase, Depth
  <2>2. ASSUME NEW i \in DOMAIN frames'
        PROVE  /\ InTree(frames[i].dir)'
               /\ Depth(frames[i].dir)' = Len(frames') - i
               /\ \A z \in frames'[i].rest : Parent[z] = frames'[i].dir
    BY <1>3, <1>7, <1>8, <2>1
  <2>3. /\ base' \in Path \cup {Top} /\ front' \in {"git", "filesystem"}
        /\ phase' = "walk" /\ frames' \in Seq(WalkFrame) /\ frames' # <<>>
    BY <1>2, <1>7 DEF FramesNest
  <2> QED BY <2>2, <2>3 DEF FramesNest, InWalk
<1>10. ASSUME NEW x \in Path, AwaitedIn(x), x # y
       PROVE  AwaitedIn(x)'
  <2>1. PICK j \in DOMAIN frames : Awaits(frames[j], x)
    BY <1>10 DEF AwaitedIn
  <2>2. CASE j # 1
    <3>1. j + 1 \in DOMAIN frames' /\ frames'[j + 1] = frames[j]
      BY <1>3, <1>7, <2>2
    <3> QED BY <2>1, <3>1 DEF AwaitedIn, Awaits
  <2>3. CASE j = 1
    <3>1. /\ 1 \in DOMAIN frames' /\ frames'[1] = g
          /\ 2 \in DOMAIN frames' /\ frames'[2] = f
      BY <1>3, <1>7
    <3>2. CASE y \in Above[x]
      <4>1. g.dir \in Above[x] \ {x} /\ ~g.listed
        BY <1>6, <1>10, <3>2
      <4> QED BY <3>1, <4>1 DEF AwaitedIn, Awaits
    <3>3. CASE y \notin Above[x]
      <4>1. Awaits(f, x)
        BY <1>10, <2>1, <2>3, <3>3 DEF Awaits
      <4>2. Awaits(f, x)'
        BY <4>1 DEF Awaits
      <4> QED BY <3>1, <4>2 DEF AwaitedIn, Awaits
    <3> QED BY <3>2, <3>3
  <2> QED BY <2>2, <2>3
<1> QED BY <1>9, <1>10

(***************************************************************************)
(* The entry of a file that was read to its end.                           *)
(***************************************************************************)
LEMMA ContentIsRecorded ==
  ASSUME AnalysisTyped, NEW x \in Path, Exists(x),
         UNCHANGED <<tree, limit>>, Len(tree[x].body) <= limit.file,
         found'[x] = Content(x, Len(tree[x].body), tree[x].exec, tree[x].body,
                             "Unsupported")
  PROVE  Recorded(x)'
<1> DEFINE body == tree[x].body
           exec == tree[x].exec
           size == Len(body)
           kind == Classify(x, exec, body)
           b == Entered(kind, size, exec, "Unsupported")
           c == ContentClass(body)
           h == LanguageHint(body)
           some == "Unsupported" # "Unsupported"
<1>1. body \in Seq(STRING) /\ exec \in BOOLEAN /\ size \in Nat
  BY PresentIsNode, LenProperties DEF TreeNode
<1>2. found'[x] = [b EXCEPT !.digest = body, !.sampled = some, !.class = c,
                            !.hint = h]
  BY DEF Content
<1>3. /\ kind \in EntryKinds /\ c \in {"Archive", "Unknown"}
      /\ h \in BOOLEAN /\ some = FALSE
  <2>1. kind \in EntryKinds
    BY DEF Classify, EntryKinds
  <2>2. c \in {"Archive", "Unknown"}
    BY DEF ContentClass
  <2>3. h \in BOOLEAN
    BY Zenon DEF LanguageHint, Starts
  <2> QED BY <2>1, <2>2, <2>3
<1> HIDE DEF kind, c, h, some, size, exec, body
<1>4. /\ b = [kind |-> kind, size |-> size, exec |-> exec,
               state |-> "Unsupported", digest |-> Void, sampled |-> FALSE,
               class |-> "Unknown", hint |-> FALSE, target |-> FALSE]
      /\ b \in EntryRecord
      /\ b.kind = kind /\ b.size = size /\ b.exec = exec
  <2>1. b = [kind |-> kind, size |-> size, exec |-> exec,
             state |-> "Unsupported", digest |-> Void, sampled |-> FALSE,
             class |-> "Unknown", hint |-> FALSE, target |-> FALSE]
    BY DEF Entered, b
  <2> HIDE DEF b
  <2>2. b \in EntryRecord
    BY <1>1, <1>3, <2>1 DEF EntryRecord
  <2> QED BY <2>1, <2>2
<1> HIDE DEF b
<1>5. /\ found'[x] \in EntryRecord
      /\ found'[x].kind = kind /\ found'[x].size = size
      /\ found'[x].exec = exec /\ found'[x].digest = body
      /\ found'[x].class = c /\ found'[x].hint = h
      /\ found'[x].sampled = some
  BY <1>1, <1>2, <1>3, <1>4 DEF EntryRecord
<1>6. /\ tree'[x].body = body /\ tree'[x].exec = exec
      /\ limit'.file = limit.file /\ size <= limit.file
  BY DEF body, exec, size
<1>7. found'[x].sampled = FALSE
  BY <1>3, <1>5
<1>8. /\ found'[x].kind = Classify(x, exec, body)
      /\ found'[x].size = Len(body)
      /\ found'[x].class = ContentClass(body)
      /\ found'[x].hint = LanguageHint(body)
  BY <1>5 DEF kind, size, c, h
<1> QED BY <1>5, <1>6, <1>7, <1>8 DEF Recorded, size

(***************************************************************************)
(* Steps of the walk.                                                      *)
(***************************************************************************)
LEMMA WalkMoves ==
  ASSUME DisclosureInv, phase \in InWalk, phase' \in InWalk \cup {"listed"},
         UNCHANGED <<tree, edited, front, base, limit, gaps>>,
         notes \subseteq notes', FramesNest', ReadingIsOwed',
         \A x \in Path :
            /\ Owed(x)
            /\ BeingRead(x) \/ AwaitedIn(x) \/ Recorded(x)
            => Accounted(x)'
  PROVE  DisclosureInv'
<1>1. TreeIsNested'
  BY TreeStaysNested
<1>2. ASSUME NEW x \in Path, Owed(x)' PROVE Accounted(x)'
  <2>1. Owed(x)
    BY <1>2, OwedStays
  <2>2. Accounted(x)
    BY <2>1 DEF DisclosureInv, InWalk
  <2>3. CASE Explained(x)
    <3>1. Explained(x)'
      BY <2>3, ExplainedStays
    <3> QED BY <3>1 DEF Accounted
  <2>4. CASE ~Explained(x)
    BY <2>1, <2>2, <2>4 DEF Accounted, InWalk
  <2> QED BY <2>3, <2>4
<1> QED BY <1>1, <1>2 DEF DisclosureInv

\* Steps that leave the frames as they are.
LEMMA FramesStay ==
  ASSUME FramesNest, UNCHANGED <<base, front, frames>>,
         phase \in InWalk /\ phase' \in InWalk
  PROVE  FramesNest' /\ \A x : AwaitedIn(x)' <=> AwaitedIn(x)
<1>1. \A d : InTree(d)' = InTree(d) /\ Depth(d)' = Depth(d)
  BY DEF InTree, InBase, Depth
<1>2. FramesNest'
  BY <1>1 DEF FramesNest, InWalk
<1>3. \A x : AwaitedIn(x)' <=> AwaitedIn(x)
  BY DEF AwaitedIn, Awaits
<1> QED BY <1>2, <1>3

\* Nothing is being read.
LEMMA NoneIsRead ==
  ASSUME phase' \notin {"open", "read"}
  PROVE  ReadingIsOwed'
BY DEF ReadingIsOwed, BeingRead

\* What an entry for y does to the others, and to what is not in y.
LEMMA OthersRecorded ==
  ASSUME AnalysisTyped, UNCHANGED <<tree, limit>>, NEW y, NEW r,
         found' = [found EXCEPT ![y] = r], NEW x \in Path, x # y, Recorded(x)
  PROVE  Recorded(x)'
<1>1. found'[x] = found[x]
  BY DEF AnalysisTyped
<1> QED BY <1>1, RecordedStays

\* A limitation that is about all there is.
General == {"time_budget_exhausted", "file_limit_exceeded",
            "directory_entry_limit_exceeded", "aggregate_byte_limit_reached",
            "analysis_time_budget_exhausted"}

LEMMA GeneralExplains ==
  ASSUME NEW n \in General, n \in notes', NEW x
  PROVE  Explained(x)'
<1>1. Explains(n, x)'
  BY DEF Explains, General
<1> QED BY <1>1 DEF Explained

\* The innermost directory is done with: what was awaited in it is
\* explained.
LEMMA ReturnAccounts ==
  ASSUME DisclosureInv, phase = "walk", Return, notes \subseteq notes',
         UNCHANGED <<tree, edited, front, base, limit, gaps, found>>,
         \A x \in Path : Owed(x) /\ Awaits(frames[1], x) => Explained(x)'
  PROVE  DisclosureInv'
<1>1. FramesNest /\ phase \in InWalk
  BY DEF DisclosureInv, InWalk
<1>2. /\ FramesNest' /\ phase' \in {"walk", "listed"}
      /\ \A x : AwaitedIn(x) =>
            Awaits(frames[1], x) \/ (phase' = "walk" /\ AwaitedIn(x)')
  BY <1>1, ReturnKeeps
<1>3. ReadingIsOwed'
  BY <1>2, NoneIsRead
<1>4. ASSUME NEW x \in Path, Owed(x),
             BeingRead(x) \/ AwaitedIn(x) \/ Recorded(x)
      PROVE  Accounted(x)'
  <2>1. ~BeingRead(x)
    BY DEF BeingRead
  <2>2. CASE AwaitedIn(x)
    BY <1>2, <1>4, <2>2 DEF Accounted, InWalk
  <2>3. CASE Recorded(x)
    <3>1. Recorded(x)'
      BY <2>3, RecordedStays
    <3> QED BY <1>2, <3>1 DEF Accounted, InWalk
  <2> QED BY <1>4, <2>1, <2>2, <2>3
<1>5. phase' \in InWalk \cup {"listed"}
  BY <1>2 DEF InWalk
<1> QED BY <1>1, <1>2, <1>3, <1>4, <1>5, WalkMoves

\* The innermost frame has other entries left: what was awaited in it still
\* is, or is accounted for.
LEMMA RestAccounts ==
  ASSUME DisclosureInv, phase = "walk", phase' \in InWalk, ReadingIsOwed',
         notes \subseteq notes',
         UNCHANGED <<tree, edited, front, base, limit, gaps>>,
         NEW f \in WalkFrame, frames' = [frames EXCEPT ![1] = f],
         f.dir = frames[1].dir,
         front = "filesystem" => \A y \in f.rest : Parent[y] = f.dir,
         \A x \in Path : Owed(x) =>
            /\ Awaits(frames[1], x) => Awaits(f, x) \/ Accounted(x)'
            /\ Recorded(x) => Accounted(x)'
  PROVE  DisclosureInv'
<1>1. FramesNest /\ phase \in InWalk
  BY DEF DisclosureInv, InWalk
<1>2. /\ FramesNest'
      /\ \A x : AwaitedIn(x) /\ (Awaits(frames[1], x) => Awaits(f, x))
                   => AwaitedIn(x)'
  BY <1>1, RestKeeps
<1>3. ASSUME NEW x \in Path, Owed(x),
             BeingRead(x) \/ AwaitedIn(x) \/ Recorded(x)
      PROVE  Accounted(x)'
  <2>1. ~BeingRead(x)
    BY DEF BeingRead
  <2>2. CASE AwaitedIn(x) /\ (Awaits(frames[1], x) => Awaits(f, x))
    BY <1>2, <2>2 DEF Accounted
  <2> QED BY <1>3, <2>1, <2>2
<1> QED BY <1>1, <1>2, <1>3, WalkMoves

(***************************************************************************)
(* The walk of a directory.                                                *)
(***************************************************************************)
LEMMA OpenDirectoryTells ==
  ASSUME AnalysisTyped, DisclosureInv, OpenDirectory
  PROVE  DisclosureInv'
<1> DEFINE d == frames[1].dir
           children == Under(d)
           refusal == Refusal(children)
<1>1. /\ phase = "walk" /\ front = "filesystem" /\ frames[1].listed = FALSE
      /\ UNCHANGED <<tree, edited, front, base, limit, gaps, reading, found>>
      /\ FramesNest
  <2>1. frames[1] \in WalkFrame
    <3>1. frames \in Seq(WalkFrame) /\ frames # <<>>
      BY DEF OpenDirectory, Walking, DisclosureInv, FramesNest, InWalk
    <3>2. Len(frames) \in Nat \ {0}
      BY <3>1, EmptySeq
    <3> QED BY <3>1, <3>2, LenProperties
  <2>2. frames[1].listed \in BOOLEAN
    BY <2>1 DEF WalkFrame
  <2> QED
    BY <2>2 DEF OpenDirectory, Walking, world, outcome, DisclosureInv
<1>2. /\ d \in Path \cup {Top} /\ Len(frames) \in Nat \ {0}
      /\ 1 \in DOMAIN frames /\ frames[1] \in WalkFrame
      /\ Depth(d) = Len(frames) - 1
  <2>1. frames \in Seq(WalkFrame) /\ frames # <<>>
    BY <1>1 DEF FramesNest, InWalk
  <2>2. Len(frames) \in Nat \ {0}
    BY <2>1, EmptySeq
  <2>3. 1 \in DOMAIN frames /\ frames[1] \in WalkFrame
    BY <2>1, <2>2, LenProperties
  <2> QED BY <1>1, <2>2, <2>3 DEF FramesNest, WalkFrame
<1>3. CASE refusal = "none"
  <2> DEFINE f == [frames[1] EXCEPT !.listed = TRUE, !.rest = children]
  <2>1. /\ frames' = [frames EXCEPT ![1].listed = TRUE, ![1].rest = children]
        /\ UNCHANGED <<phase, notes>>
    BY <1>3 DEF OpenDirectory
  <2>2. frames' = [frames EXCEPT ![1] = f]
    BY <1>2, <2>1
  <2> HIDE DEF d
  <2>3. children \in SUBSET Path
    BY DEF Under
  <2>4. /\ f \in WalkFrame /\ f.dir = frames[1].dir /\ f.listed = TRUE
        /\ f.rest = children
    <3> HIDE DEF children
    <3> QED BY <1>2, <2>3 DEF WalkFrame
  <2> HIDE DEF f
  <2>5. \A y \in f.rest : Parent[y] = f.dir
    BY <2>4 DEF Under, d
  <2>6. ASSUME NEW x \in Path, Owed(x), Awaits(frames[1], x)
        PROVE  Awaits(f, x)
    <3>1. d \in Above[x] /\ d # x
      BY <1>1, <2>6 DEF Awaits, d
    <3>2. PICK y \in Above[x] \cap Path : Parent[y] = d
      BY <3>1, AboveChild
    <3>3. Exists(y)
      BY <2>6, <3>2, OwedIs
    <3>4. InBase(y)
      BY <1>1, <1>2, <3>2, DepthOfEntry DEF FramesNest, d
    <3>5. Spelled[y] # "git"
      BY <1>1, <2>6, <3>2, <3>4 DEF Owed, OfGit
    <3>6. y \in children
      BY <3>2, <3>3, <3>5 DEF Under
    <3> QED BY <1>1, <2>4, <3>2, <3>6 DEF Awaits
  <2>7. ASSUME NEW x \in Path, Recorded(x) PROVE Accounted(x)'
    <3>1. Recorded(x)'
      BY <1>1, <2>7, RecordedStays
    <3> QED BY <1>1, <2>1, <3>1 DEF Accounted, InWalk
  <2>8. ReadingIsOwed'
    BY <1>1, <2>1, NoneIsRead
  <2> QED
    BY <1>1, <2>1, <2>2, <2>4, <2>5, <2>6, <2>7, <2>8, RestAccounts DEF InWalk
<1>4. CASE refusal # "none"
  <2>1. Return /\ notes' = notes \cup {refusal}
    BY <1>4 DEF OpenDirectory, Note
  <2>2. \/ refusal \in General
        \/ refusal = "tree_depth_limit_exceeded"
              /\ Len(frames) - 1 > limit.depth
    BY <1>4 DEF Refusal, General
  <2> HIDE DEF refusal
  <2>3. ASSUME NEW x \in Path, Owed(x), Awaits(frames[1], x)
        PROVE  Explained(x)'
    <3>1. CASE refusal \in General
      BY <2>1, <3>1, GeneralExplains
    <3>2. CASE refusal = "tree_depth_limit_exceeded"
               /\ Len(frames) - 1 > limit.depth
      <4>1. d \in Above[x] /\ d # x /\ InBase(x)
        BY <1>1, <2>3 DEF Awaits, d, Owed
      <4>2. Depth(d) \in Nat /\ Depth(x) \in Nat /\ Depth(x) >= Depth(d) + 1
        BY <4>1, DepthBelow
      <4>3. Depth(x)' = Depth(x) /\ limit' = limit
        BY <1>1 DEF Depth, InBase
      <4>4. Explains("tree_depth_limit_exceeded", x)'
                = (Depth(x) > limit.depth + 1)
        BY <4>3 DEF Explains
      <4>5. limit.depth \in Int => Depth(x) > limit.depth + 1
        <5> HIDE DEF d
        <5> QED BY <1>2, <3>2, <4>2
      <4>6. limit.depth \in Int
        BY AnalysisBounds DEF AnalysisTyped
      <4> QED BY <2>1, <3>2, <4>4, <4>5, <4>6 DEF Explained
    <3> QED BY <2>2, <3>1, <3>2
  <2> QED BY <1>1, <2>1, <2>3, ReturnAccounts
<1> QED BY <1>3, <1>4

LEMMA ReturnTells ==
  ASSUME DisclosureInv, ReturnFromDirectory \/ GitEnds
  PROVE  DisclosureInv'
<1>1. /\ phase = "walk" /\ Return /\ frames[1].listed
      /\ UNCHANGED <<tree, edited, front, base, limit, gaps, found>>
      /\ notes \subseteq notes'
      /\ front \in {"git", "filesystem"}
      /\ \/ frames[1].rest = {}
         \/ "time_budget_exhausted" \in notes'
  BY DEF ReturnFromDirectory, GitEnds, Walking, ReadingTree, Note, world,
         outcome, DisclosureInv, FramesNest
<1>2. ASSUME NEW x \in Path, Awaits(frames[1], x) PROVE Explained(x)'
  <2>1. frames[1].rest # {}
    BY <1>1, <1>2 DEF Awaits
  <2> QED BY <1>1, <2>1, GeneralExplains DEF General
<1> QED BY <1>1, <1>2, ReturnAccounts

\* An entry of a directory is dealt with: those that lie in it are not, and
\* it is itself accounted for.
LEMMA WalkedAccounts ==
  ASSUME DisclosureInv, phase = "walk", phase' \in InWalk, ReadingIsOwed',
         notes \subseteq notes',
         UNCHANGED <<tree, edited, front, base, limit, gaps>>,
         frames[1].listed, NEW y \in frames[1].rest, Walked(y),
         \A x \in Path : Owed(x) =>
            /\ y \in Above[x] /\ (front = "git" => x = y) => Accounted(x)'
            /\ Recorded(x) => Accounted(x)'
  PROVE  DisclosureInv'
<1> DEFINE rest == frames[1].rest \ {y}
           f == [frames[1] EXCEPT !.rest = rest]
<1>1. frames \in Seq(WalkFrame) /\ frames # <<>>
  BY DEF DisclosureInv, FramesNest, InWalk
<1>2. Len(frames) \in Nat \ {0}
  BY <1>1, EmptySeq
<1>3. 1 \in DOMAIN frames /\ frames[1] \in WalkFrame
  BY <1>1, <1>2, LenProperties
<1>4. frames' = [frames EXCEPT ![1] = f]
  BY <1>1, <1>3 DEF Walked, WalkFrame
<1>5. rest \in SUBSET Path /\ frames[1].listed = TRUE
  BY <1>3 DEF WalkFrame
<1> HIDE DEF rest
<1>6. /\ f \in WalkFrame /\ f.dir = frames[1].dir /\ f.listed = TRUE
      /\ f.rest = rest
  BY <1>3, <1>5 DEF WalkFrame
<1> HIDE DEF f
<1>7. front = "filesystem" => \A z \in f.rest : Parent[z] = f.dir
  BY <1>3, <1>6 DEF rest, DisclosureInv, FramesNest
<1>8. ASSUME NEW x \in Path, Awaits(frames[1], x),
             ~(y \in Above[x] /\ (front = "git" => x = y))
      PROVE  Awaits(f, x)
  <2>1. CASE front = "git"
    <3>1. x \in frames[1].rest /\ x # y
      BY <1>5, <1>8, <2>1, AboveHas DEF Awaits
    <3> QED BY <1>6, <2>1, <3>1 DEF Awaits, rest
  <2>2. CASE front # "git"
    BY <1>5, <1>6, <1>8, <2>2 DEF Awaits, rest
  <2> QED BY <2>1, <2>2
<1>9. \A x \in Path : Owed(x) =>
          /\ Awaits(frames[1], x) => Awaits(f, x) \/ Accounted(x)'
          /\ Recorded(x) => Accounted(x)'
  BY <1>8
<1> QED BY <1>4, <1>6, <1>7, <1>9, RestAccounts

\* The entry that is visited lies in the innermost directory.
LEMMA VisitedIs ==
  ASSUME DisclosureInv, NEW y \in Path, Visiting(y)
  PROVE  /\ phase = "walk" /\ front = "filesystem" /\ frames[1].listed
         /\ y \in frames[1].rest /\ InBase(y)
<1>1. /\ phase = "walk" /\ front = "filesystem" /\ frames[1].listed
      /\ y \in frames[1].rest
  BY DEF Visiting, Walking, First
<1>2. frames \in Seq(WalkFrame) /\ frames # <<>>
  BY <1>1 DEF DisclosureInv, FramesNest, InWalk
<1>3. Len(frames) \in Nat \ {0}
  BY <1>2, EmptySeq
<1>4. 1 \in DOMAIN frames
  BY <1>2, <1>3, LenProperties
<1> QED BY <1>1, <1>4, EntryOfFrame DEF DisclosureInv

LEMMA SkipChildTells ==
  ASSUME DisclosureInv, SkipChild
  PROVE  DisclosureInv'
<1>1. PICK y \in Path :
        /\ Visiting(y) /\ Walked(y)
        /\ \/ Spelled[y] = "odd" /\ Note("non_utf8_entry_name_skipped")
           \/ ~Exists(y) /\ Note("metadata_unavailable")
  BY DEF SkipChild
<1>2. /\ phase = "walk" /\ frames[1].listed /\ y \in frames[1].rest
      /\ InBase(y)
  BY <1>1, VisitedIs
<1>3. /\ UNCHANGED <<tree, edited, front, base, limit, gaps, found, phase>>
      /\ notes \subseteq notes'
  BY <1>1 DEF SkipChild, world, outcome, Note
<1>4. ASSUME NEW x \in Path, Owed(x), y \in Above[x] PROVE Explained(x)'
  <2>1. Exists(y)
    BY <1>4, OwedIs
  <2>2. Spelled[y] = "odd" /\ "non_utf8_entry_name_skipped" \in notes'
    BY <1>1, <2>1 DEF Note
  <2>3. Odd(x)'
    BY <1>2, <1>3, <1>4, <2>2 DEF Odd, InBase
  <2>4. Explains("non_utf8_entry_name_skipped", x)'
    BY <2>3 DEF Explains
  <2> QED BY <2>2, <2>4 DEF Explained
<1>5. ASSUME NEW x \in Path, Recorded(x) PROVE Accounted(x)'
  <2>1. Recorded(x)'
    BY <1>3, <1>5, RecordedStays
  <2> QED BY <1>2, <1>3, <2>1 DEF Accounted, InWalk
<1>6. ASSUME NEW x \in Path, Owed(x)
      PROVE  /\ y \in Above[x] => Accounted(x)'
             /\ Recorded(x) => Accounted(x)'
  BY <1>4, <1>5, <1>6 DEF Accounted
<1>7. ReadingIsOwed'
  BY <1>2, <1>3, NoneIsRead
<1>8. phase' \in InWalk
  BY <1>2, <1>3 DEF InWalk
<1> QED BY <1>1, <1>2, <1>3, <1>6, <1>7, <1>8, WalkedAccounts

\* An entry of which nothing is read is of nothing that is owed.
LEMMA VisitLinkOrSpecialTells ==
  ASSUME AnalysisTyped, DisclosureInv, VisitLinkOrSpecial
  PROVE  DisclosureInv'
<1>1. PICK y \in Path :
        /\ Visiting(y) /\ Walked(y) /\ (Is(y, "link") \/ Is(y, "special"))
        /\ found' = [found EXCEPT ![y] =
                        IF Is(y, "link")
                        THEN Entered("Symlink", 0, FALSE, "Unsupported")
                        ELSE Entered("Special", 0, FALSE, "Skipped")]
        /\ IF Is(y, "link") THEN UNCHANGED notes
           ELSE Note("special_file_present")
  BY DEF VisitLinkOrSpecial
<1>2. /\ phase = "walk" /\ frames[1].listed /\ y \in frames[1].rest
  BY <1>1, VisitedIs
<1>3. /\ UNCHANGED <<tree, edited, front, base, limit, gaps, phase>>
      /\ notes \subseteq notes'
  BY <1>1 DEF VisitLinkOrSpecial, world, outcome, Note
<1>4. PICK r : found' = [found EXCEPT ![y] = r]
  BY <1>1
<1>5. ASSUME NEW x \in Path, Owed(x) PROVE y \notin Above[x] /\ y # x
  <2>1. x \in Above[x]
    BY AboveHas
  <2> QED BY <1>1, <1>5, <2>1, OwedIs DEF Is
<1>6. ASSUME NEW x \in Path, Owed(x), Recorded(x) PROVE Accounted(x)'
  <2>1. Recorded(x)'
    BY <1>3, <1>4, <1>5, <1>6, OthersRecorded
  <2> QED BY <1>2, <1>3, <2>1 DEF Accounted, InWalk
<1>7. ReadingIsOwed'
  BY <1>2, <1>3, NoneIsRead
<1>8. phase' \in InWalk
  BY <1>2, <1>3 DEF InWalk
<1> QED BY <1>1, <1>2, <1>3, <1>5, <1>6, <1>7, <1>8, WalkedAccounts

LEMMA VisitDirectoryTells ==
  ASSUME AnalysisTyped, DisclosureInv, VisitDirectory
  PROVE  DisclosureInv'
<1>1. PICK y \in Path :
        /\ Visiting(y) /\ Is(y, "dir")
        /\ found' = [found EXCEPT ![y] =
                        Entered("Directory", 0, FALSE, "Unsupported")]
        /\ frames' = << Unlisted(y), [frames[1] EXCEPT !.rest = @ \ {y}] >>
                         \o Tail(frames)
  BY DEF VisitDirectory
<1>2. /\ phase = "walk" /\ front = "filesystem" /\ y \in frames[1].rest
  BY <1>1, VisitedIs
<1>3. UNCHANGED <<tree, edited, front, base, limit, gaps, phase, notes>>
  BY <1>1 DEF VisitDirectory, world, outcome
<1> DEFINE rest == frames[1].rest \ {y}
           f == [frames[1] EXCEPT !.rest = rest]
<1>4. frames[1] \in WalkFrame
  <2>1. frames \in Seq(WalkFrame) /\ frames # <<>>
    BY <1>2 DEF DisclosureInv, FramesNest, InWalk
  <2>2. Len(frames) \in Nat \ {0}
    BY <2>1, EmptySeq
  <2> QED BY <2>1, <2>2, LenProperties
<1>5. /\ rest \in SUBSET Path
      /\ [frames[1] EXCEPT !.rest = @ \ {y}] = f
  BY <1>4 DEF WalkFrame
<1> HIDE DEF rest
<1>6. /\ f \in WalkFrame /\ f.dir = frames[1].dir
      /\ f.listed = frames[1].listed /\ f.rest = rest
  BY <1>4, <1>5 DEF WalkFrame
<1> HIDE DEF f
<1>7. frames' = <<Unlisted(y), f>> \o Tail(frames)
  BY <1>1, <1>5
<1>8. f.rest = frames[1].rest \ {y}
  BY <1>6 DEF rest
<1>9. /\ FramesNest'
      /\ \A x \in Path : AwaitedIn(x) /\ x # y => AwaitedIn(x)'
  BY <1>2, <1>3, <1>6, <1>7, <1>8, PushKeepsFrames DEF DisclosureInv
<1>10. PICK r : found' = [found EXCEPT ![y] = r]
  BY <1>1
<1>11. ASSUME NEW x \in Path, Owed(x),
              BeingRead(x) \/ AwaitedIn(x) \/ Recorded(x)
       PROVE  Accounted(x)'
  <2>1. x # y /\ ~BeingRead(x)
    BY <1>1, <1>2, <1>11, OwedIs DEF Is, BeingRead
  <2>2. CASE AwaitedIn(x)
    BY <1>2, <1>3, <1>9, <2>1, <2>2 DEF Accounted, InWalk
  <2>3. CASE Recorded(x)
    <3>1. Recorded(x)'
      BY <1>3, <1>10, <2>1, <2>3, OthersRecorded
    <3> QED BY <1>2, <1>3, <3>1 DEF Accounted, InWalk
  <2> QED BY <1>11, <2>1, <2>2, <2>3
<1>12. ReadingIsOwed'
  BY <1>2, <1>3, NoneIsRead
<1>13. phase \in InWalk /\ phase' \in InWalk \cup {"listed"}
  BY <1>2, <1>3 DEF InWalk
<1> QED BY <1>3, <1>9, <1>11, <1>12, <1>13, WalkMoves

LEMMA VisitFileTells ==
  ASSUME DisclosureInv, VisitFile
  PROVE  DisclosureInv'
<1>1. PICK y \in Path :
        /\ Visiting(y) /\ Is(y, "file")
        /\ IF seen' > limit.files
           THEN Return /\ Note("file_limit_exceeded") /\ UNCHANGED reading
           ELSE /\ reading' = [NotOpen EXCEPT !.path = y,
                                              !.size = Len(tree[y].body),
                                              !.exec = tree[y].exec]
                /\ Walked(y)
                /\ phase' = "open"
                /\ UNCHANGED notes
  BY DEF VisitFile
<1>2. /\ phase = "walk" /\ frames[1].listed /\ y \in frames[1].rest
  BY <1>1, VisitedIs
<1>3. UNCHANGED <<tree, edited, front, base, limit, gaps, found>>
  BY DEF VisitFile, world, outcome
<1>4. CASE seen' > limit.files
  <2>1. Return /\ "file_limit_exceeded" \in notes' /\ notes \subseteq notes'
    BY <1>1, <1>4 DEF Note
  <2>2. \A x \in Path : Explained(x)'
    BY <2>1, GeneralExplains DEF General
  <2> QED BY <1>2, <1>3, <2>1, <2>2, ReturnAccounts
<1>5. CASE ~(seen' > limit.files)
  <2> DEFINE size == Len(tree[y].body)
             exec == tree[y].exec
  <2>1. /\ reading' = [NotOpen EXCEPT !.path = y, !.size = size,
                                      !.exec = exec]
        /\ Walked(y) /\ phase' = "open" /\ UNCHANGED notes
    BY <1>1, <1>5
  <2> HIDE DEF size, exec
  <2>2. /\ reading'.path = y /\ reading'.size = size /\ reading'.exec = exec
    BY <2>1 DEF NotOpen
  <2>3. ReadingIsOwed'
    <3>1. size = Len(tree'[y].body) /\ exec = tree'[y].exec
      BY <1>3 DEF size, exec
    <3> QED BY <2>1, <2>2, <3>1 DEF ReadingIsOwed, BeingRead
  <2>4. ASSUME NEW x \in Path, Owed(x), y \in Above[x] PROVE Accounted(x)'
    <3>1. x = y
      BY <1>1, <2>4, OwedIs DEF Is
    <3>2. BeingRead(x)'
      BY <2>1, <2>2, <3>1 DEF BeingRead
    <3> QED BY <2>1, <3>2 DEF Accounted, InWalk
  <2>5. ASSUME NEW x \in Path, Recorded(x) PROVE Accounted(x)'
    <3>1. Recorded(x)'
      BY <1>3, <2>5, RecordedStays
    <3> QED BY <2>1, <3>1 DEF Accounted, InWalk
  <2>6. \A x \in Path : Owed(x) => /\ y \in Above[x] => Accounted(x)'
                                   /\ Recorded(x) => Accounted(x)'
    BY <2>4, <2>5
  <2>7. phase' \in InWalk /\ notes \subseteq notes'
    BY <2>1 DEF InWalk
  <2> QED BY <1>2, <1>3, <2>1, <2>3, <2>6, <2>7, WalkedAccounts
<1> QED BY <1>4, <1>5

(***************************************************************************)
(* A file that is read.                                                    *)
(***************************************************************************)
\* The file that was read is entered: what lstat said of it was so.
LEMMA EnteredAccounts ==
  ASSUME AnalysisTyped, DisclosureInv, phase \in {"open", "read"},
         phase' = "walk", notes \subseteq notes',
         UNCHANGED <<tree, edited, front, base, limit, gaps, frames>>,
         NEW r, found' = [found EXCEPT ![reading.path] = r],
         \A x \in Path :
            Owed(x) /\ reading.path = x /\ reading.size = Len(tree[x].body)
               /\ reading.exec = tree[x].exec
            => Explained(x)' \/ Recorded(x)'
  PROVE  DisclosureInv'
<1>1. phase \in InWalk /\ phase' \in InWalk /\ FramesNest
  BY DEF InWalk, DisclosureInv
<1>2. FramesNest' /\ \A x : AwaitedIn(x)' <=> AwaitedIn(x)
  BY <1>1, FramesStay
<1>3. ReadingIsOwed'
  BY NoneIsRead
<1>4. ASSUME NEW x \in Path, Owed(x),
             BeingRead(x) \/ AwaitedIn(x) \/ Recorded(x)
      PROVE  Accounted(x)'
  <2>1. CASE AwaitedIn(x)
    BY <1>1, <1>2, <2>1 DEF Accounted
  <2>2. CASE reading.path = x
    <3>1. reading.size = Len(tree[x].body) /\ reading.exec = tree[x].exec
      BY <1>4, <2>2 DEF DisclosureInv, ReadingIsOwed, BeingRead
    <3> QED BY <1>1, <1>4, <2>2, <3>1 DEF Accounted
  <2>3. CASE Recorded(x) /\ reading.path # x
    <3>1. Recorded(x)'
      BY <2>3, OthersRecorded
    <3> QED BY <1>1, <3>1 DEF Accounted
  <2> QED BY <1>4, <2>1, <2>2, <2>3 DEF BeingRead
<1> QED BY <1>1, <1>2, <1>3, <1>4, WalkMoves

LEMMA SampleFileTells ==
  ASSUME AnalysisTyped, DisclosureInv, SampleFile
  PROVE  DisclosureInv'
<1> DEFINE x == reading.path
           sample == Sample(x)
           entry == Content(x, reading.size, reading.exec, sample[1],
                            "Skipped")
           whole == sample[1] \o sample[2]
           r == [entry EXCEPT !.digest = whole]
<1>1. /\ phase = "open" /\ phase' = "walk" /\ found' = [found EXCEPT ![x] = r]
      /\ UNCHANGED <<tree, edited, front, base, limit, gaps, frames>>
      /\ notes \subseteq notes'
      /\ IF Oversize THEN "oversize_file_skipped" \in notes'
         ELSE "aggregate_byte_limit_reached" \in notes'
  BY DEF SampleFile, Enter, world, outcome
<1> HIDE DEF r
<1>2. ASSUME NEW y \in Path, reading.size = Len(tree[y].body)
      PROVE  Explained(y)'
  <2>1. CASE Oversize
    <3>1. Len(tree'[y].body) > limit'.file
      BY <1>1, <1>2, <2>1 DEF Oversize
    <3>2. Explains("oversize_file_skipped", y)'
      BY <3>1 DEF Explains
    <3> QED BY <1>1, <2>1, <3>2 DEF Explained
  <2>2. CASE ~Oversize
    BY <1>1, <2>2, GeneralExplains DEF General
  <2> QED BY <2>1, <2>2
<1> QED BY <1>1, <1>2, EnteredAccounts

\* The same file is still read, after lstat.
LEMMA ReadsOn ==
  ASSUME DisclosureInv, phase \in {"open", "read"}, phase' = "read",
         UNCHANGED <<tree, edited, front, base, limit, gaps, frames, notes,
                     found>>,
         reading'.path = reading.path, reading'.size = reading.size,
         reading'.exec = reading.exec, reading.size <= limit.file
  PROVE  DisclosureInv'
<1>1. phase \in InWalk /\ phase' \in InWalk /\ FramesNest
  BY DEF InWalk, DisclosureInv
<1>2. FramesNest' /\ \A x : AwaitedIn(x)' <=> AwaitedIn(x)
  BY <1>1, FramesStay
<1>3. \A x : /\ Owed(x)' <=> Owed(x)
             /\ BeingRead(x)' <=> BeingRead(x)
  BY OwedStays DEF BeingRead
<1>4. ReadingIsOwed'
  BY <1>3 DEF ReadingIsOwed, DisclosureInv
<1>5. ASSUME NEW x \in Path, BeingRead(x) \/ AwaitedIn(x) \/ Recorded(x)
      PROVE  Accounted(x)'
  <2>1. CASE Recorded(x)
    <3>1. Recorded(x)'
      BY <2>1, RecordedStays
    <3> QED BY <1>1, <3>1 DEF Accounted
  <2> QED BY <1>1, <1>2, <1>3, <1>5, <2>1 DEF Accounted
<1> QED BY <1>1, <1>2, <1>4, <1>5, WalkMoves

LEMMA OpenFileTells ==
  ASSUME AnalysisInv, DisclosureInv, OpenFile
  PROVE  DisclosureInv'
<1> DEFINE x == reading.path
<1>1. /\ phase = "open" /\ reading.size \in Nat /\ x \in Path
      /\ ~(reading.size > limit.file)
      /\ UNCHANGED <<tree, edited, front, base, limit, gaps, frames>>
      /\ limit.file \in Nat /\ DOMAIN reading = ReadFields
  BY AnalysisBounds
     DEF OpenFile, Oversize, world, outcome, AnalysisInv, ReadIsKnown,
         AnalysisTyped
<1>2. CASE Opens(x)
  <2> DEFINE content == tree[x].body
  <2>1. /\ reading' = [reading EXCEPT !.body = content]
        /\ phase' = "read" /\ UNCHANGED <<found, notes>>
    BY <1>2 DEF OpenFile
  <2> HIDE DEF content
  <2>2. /\ reading'.path = reading.path /\ reading'.size = reading.size
        /\ reading'.exec = reading.exec
    BY <1>1, <2>1 DEF ReadFields
  <2> QED BY <1>1, <2>1, <2>2, ReadsOn
<1>3. CASE ~Opens(x)
  <2>1. PICK r : r = Entered("Text", reading.size, reading.exec, "Truncated")
    OBVIOUS
  <2>2. /\ found' = [found EXCEPT ![x] = r] /\ phase' = "walk"
        /\ notes' = notes \cup {"unreadable_file"}
    BY <1>3, <2>1 DEF OpenFile, Enter, Note
  <2>3. ASSUME NEW y \in Path, Owed(y), x = y PROVE Explained(y)'
    <3>1. ~tree'[y].opens
      BY <1>1, <1>3, <2>3 DEF Opens, Owed, Is
    <3>2. Explains("unreadable_file", y)'
      BY <3>1 DEF Explains
    <3> QED BY <2>2, <3>2 DEF Explained
  <2> QED BY <1>1, <2>2, <2>3, EnteredAccounts DEF AnalysisInv
<1> QED BY <1>2, <1>3

LEMMA ReadUnitTells ==
  ASSUME AnalysisInv, DisclosureInv, ReadUnit
  PROVE  DisclosureInv'
<1> DEFINE got == Append(reading.got, reading.body[Len(reading.got) + 1])
<1>1. /\ phase = "read" /\ phase' = "read"
      /\ reading' = [reading EXCEPT !.got = got]
      /\ UNCHANGED <<tree, edited, front, base, limit, gaps, frames, notes,
                     found>>
      /\ DOMAIN reading = ReadFields
  BY DEF ReadUnit, world, outcome, AnalysisInv, AnalysisTyped, ReadFields
<1> HIDE DEF got
<1>2. /\ reading'.path = reading.path /\ reading'.size = reading.size
      /\ reading'.exec = reading.exec
  BY <1>1 DEF ReadFields
<1>3. reading.size <= limit.file
  BY <1>1 DEF DisclosureInv, ReadingIsOwed
<1> QED BY <1>1, <1>2, <1>3, ReadsOn

LEMMA FinishFileTells ==
  ASSUME AnalysisInv, DisclosureInv, FinishFile
  PROVE  DisclosureInv'
<1>0. PICK x \in Path : x = reading.path
  BY DEF FinishFile, AnalysisInv, ReadIsKnown
<1> DEFINE state == IF Stops = "end" THEN "Unsupported" ELSE "Truncated"
           r == Content(x, reading.size, reading.exec, reading.got, state)
<1>1. /\ phase = "read" /\ phase' = "walk"
      /\ found' = [found EXCEPT ![x] = r]
      /\ UNCHANGED <<tree, edited, front, base, limit, gaps, frames>>
      /\ IF Stops = "end" THEN UNCHANGED notes ELSE Note(Stops)
      /\ Stops # "more"
  BY <1>0 DEF FinishFile, Enter, world, outcome
<1>2. /\ reading.body \in Seq(STRING) /\ reading.got \in Seq(STRING)
      /\ Untouched(x) =>
            /\ reading.body = tree[x].body
            /\ Len(reading.got) <= Len(reading.body)
            /\ \A i \in 1..Len(reading.got) :
                  reading.got[i] = reading.body[i]
  BY <1>0, <1>1 DEF AnalysisInv, ReadIsKnown
<1>3. Len(reading.got) \in Nat /\ Len(reading.body) \in Nat
  BY <1>2, LenProperties
<1>4. reading.size <= limit.file
  BY <1>1 DEF DisclosureInv, ReadingIsOwed
<1>5. ASSUME Owed(x), reading.size = Len(tree[x].body),
             reading.exec = tree[x].exec
      PROVE  Explained(x)' \/ Recorded(x)'
  <2>1. Untouched(x) /\ Exists(x)
    BY <1>5 DEF Owed, Is
  <2>2. CASE Stops = "end"
    <3>1. Len(reading.got) >= Len(reading.body)
      BY <2>2 DEF Stops
    <3>2. Len(reading.got) = Len(reading.body)
      BY <1>2, <1>3, <2>1, <3>1
    <3>3. reading.got = tree[x].body
      BY <1>2, <2>1, <3>2, SeqEqual
    <3>4. r = Content(x, Len(tree[x].body), tree[x].exec, tree[x].body,
                      "Unsupported")
      BY <1>5, <2>2, <3>3
    <3>5. AnalysisTyped /\ found'[x] = r
      BY <1>1 DEF AnalysisInv, AnalysisTyped
    <3>6. Len(tree[x].body) <= limit.file
      BY <1>4, <1>5
    <3> HIDE DEF r
    <3>7. Recorded(x)'
      BY <1>1, <2>1, <3>4, <3>5, <3>6, ContentIsRecorded
    <3> QED BY <3>7
  <2>3. CASE Stops = "read_error"
    <3>1. /\ ~(Len(reading.got) >= Len(reading.body))
          /\ reading.body[Len(reading.got) + 1] = "bad"
      BY <2>3 DEF Stops
    <3>2. Len(reading.got) + 1 \in 1..Len(reading.body)
      BY <1>3, <3>1
    <3>3. Len(reading.got) + 1 \in DOMAIN reading.body
      BY <1>2, <3>2, LenProperties
    <3>4. Holds("bad", reading.body)
      BY <3>1, <3>3 DEF Holds, ToSet
    <3>5. Holds("bad", tree'[x].body)
      BY <1>1, <1>2, <2>1, <3>4
    <3>6. Explains("read_error", x)' /\ "read_error" \in notes'
      BY <1>1, <2>3, <3>5 DEF Explains, Note, Holds
    <3> QED BY <3>6 DEF Explained
  <2>4. CASE Stops \notin {"end", "read_error"}
    <3>1. Stops \in {"time_budget_exhausted", "aggregate_byte_limit_reached"}
      BY <1>1, <2>4 DEF Stops
    <3>2. Stops \in notes' /\ Stops \in General
      BY <1>1, <2>4, <3>1 DEF Note, General
    <3> QED BY <3>2, GeneralExplains
  <2> QED BY <2>2, <2>3, <2>4
<1>6. notes \subseteq notes'
  BY <1>1 DEF Note
<1> HIDE DEF r
<1>7. \A y \in Path :
         Owed(y) /\ reading.path = y /\ reading.size = Len(tree[y].body)
            /\ reading.exec = tree[y].exec
         => Explained(y)' \/ Recorded(y)'
  BY <1>0, <1>5
<1>8. found' = [found EXCEPT ![reading.path] = r]
  BY <1>0, <1>1
<1> QED BY <1>1, <1>6, <1>7, <1>8, EnteredAccounts DEF AnalysisInv

(***************************************************************************)
(* A pinned revision.                                                      *)
(***************************************************************************)
LEMMA ListTreeTells ==
  ASSUME DisclosureInv, ListTree
  PROVE  DisclosureInv'
<1>1. /\ phase = "walk" /\ phase' = "walk" /\ front = "git"
      /\ frames' = [frames EXCEPT ![1].listed = TRUE, ![1].rest = Records]
      /\ UNCHANGED <<tree, edited, front, base, limit, gaps, found, notes>>
  BY DEF ListTree, ReadingTree, world, outcome
<1>2. 1 \in DOMAIN frames /\ frames[1] \in WalkFrame
  <2>1. frames \in Seq(WalkFrame) /\ frames # <<>>
    BY <1>1 DEF DisclosureInv, FramesNest, InWalk
  <2>2. Len(frames) \in Nat \ {0}
    BY <2>1, EmptySeq
  <2> QED BY <2>1, <2>2, LenProperties
<1> DEFINE f == [frames[1] EXCEPT !.listed = TRUE, !.rest = Records]
<1>3. frames' = [frames EXCEPT ![1] = f]
  BY <1>1, <1>2
<1>4. Records \in SUBSET Path
  BY DEF Records
<1>5. /\ f \in WalkFrame /\ f.dir = frames[1].dir /\ f.listed = TRUE
      /\ f.rest = Records
  BY <1>2, <1>4 DEF WalkFrame
<1> HIDE DEF f
<1>6. ASSUME NEW x \in Path, Owed(x) PROVE Awaits(f, x)
  <2>1. x \in Records
    BY <1>6 DEF Records, Owed, Is, IsDirectory, InBase
  <2> QED BY <1>1, <1>5, <2>1 DEF Awaits
<1>7. ASSUME NEW x \in Path, Recorded(x) PROVE Accounted(x)'
  <2>1. Recorded(x)'
    BY <1>1, <1>7, RecordedStays
  <2> QED BY <1>1, <2>1 DEF Accounted, InWalk
<1>8. ReadingIsOwed' /\ phase' \in InWalk
  BY <1>1, NoneIsRead DEF InWalk
<1> QED BY <1>1, <1>3, <1>5, <1>6, <1>7, <1>8, RestAccounts

\* The next record of the listing.
LEMMA RecordIs ==
  ASSUME DisclosureInv, NEW y \in Path, NextRecord(y)
  PROVE  /\ phase = "walk" /\ front = "git" /\ frames[1].listed
         /\ y \in frames[1].rest
BY DEF NextRecord, ReadingTree, First

LEMMA GitOtherTells ==
  ASSUME AnalysisTyped, DisclosureInv, GitOther
  PROVE  DisclosureInv'
<1>1. PICK y \in Path :
        /\ NextRecord(y) /\ Walked(y)
        /\ Depth(y) > limit.depth + 1 \/ ~Is(y, "file")
        /\ IF Depth(y) > limit.depth + 1
           THEN /\ notes' = notes \cup OddNames(y)
                                  \cup {"tree_depth_limit_exceeded"}
                /\ UNCHANGED found
           ELSE IF Is(y, "link")
           THEN /\ found' = [found EXCEPT ![y] =
                      Entered("Symlink", 1, FALSE, "Unsupported")]
                /\ notes' = notes \cup OddNames(y)
           ELSE /\ found' = [found EXCEPT ![y] =
                      Entered("Special", 0, FALSE, "Skipped")]
                /\ notes' = notes \cup OddNames(y)
                                  \cup {"submodule_present_not_followed"}
  BY DEF GitOther
<1>2. /\ phase = "walk" /\ front = "git" /\ frames[1].listed
      /\ y \in frames[1].rest
  BY <1>1, RecordIs
<1>3. /\ UNCHANGED <<tree, edited, front, base, limit, gaps, phase>>
  BY DEF GitOther, world, outcome
<1>4. notes \subseteq notes'
  BY <1>1
<1>5. ASSUME Owed(y) PROVE Explained(y)'
  <2>1. Depth(y) > limit.depth + 1
    BY <1>1, <1>5 DEF Owed
  <2>2. "tree_depth_limit_exceeded" \in notes'
    BY <1>1, <2>1
  <2>3. Depth(y)' = Depth(y)
    BY <1>3 DEF Depth, InBase
  <2>4. Explains("tree_depth_limit_exceeded", y)'
    BY <1>3, <2>1, <2>3 DEF Explains
  <2> QED BY <2>2, <2>4 DEF Explained
<1>6. (\E r : found' = [found EXCEPT ![y] = r]) \/ UNCHANGED found
  BY <1>1
<1>7. ASSUME NEW x \in Path, Owed(x), Recorded(x) PROVE Accounted(x)'
  <2>1. CASE x = y
    BY <1>5, <1>7, <2>1 DEF Accounted
  <2>2. CASE x # y
    <3>1. Recorded(x)'
      BY <1>3, <1>6, <1>7, <2>2, OthersRecorded, RecordedStays
    <3> QED BY <1>2, <1>3, <3>1 DEF Accounted, InWalk
  <2> QED BY <2>1, <2>2
<1>8. \A x \in Path : Owed(x) =>
         /\ y \in Above[x] /\ (front = "git" => x = y) => Accounted(x)'
         /\ Recorded(x) => Accounted(x)'
  BY <1>2, <1>5, <1>7 DEF Accounted
<1>9. ReadingIsOwed' /\ phase' \in InWalk
  BY <1>2, <1>3, NoneIsRead DEF InWalk
<1> QED BY <1>1, <1>2, <1>3, <1>4, <1>8, <1>9, WalkedAccounts

LEMMA GitBlobTells ==
  ASSUME AnalysisTyped, DisclosureInv, GitBlob
  PROVE  DisclosureInv'
<1> DEFINE Size(y) == Len(tree[y].body)
           Sampled(y) == GitOversize(Size(y))
           Got(y) == IF Sampled(y)
                     THEN SubSeq(tree[y].body, 1,
                                 Smaller(Size(y), Smaller(SampleBytes,
                                                    limit.total - bytes)))
                     ELSE tree[y].body
<1>1. PICK y \in Path :
        /\ NextRecord(y) /\ Is(y, "file")
        /\ IF seen' > limit.files
           THEN /\ Return
                /\ notes' = notes \cup OddNames(y)
                                  \cup {"file_limit_exceeded"}
                /\ UNCHANGED found
           ELSE /\ found' = [found EXCEPT ![y] =
                      Content(y, Size(y), tree[y].exec, Got(y),
                         IF Sampled(y) THEN "Skipped" ELSE "Unsupported")]
                /\ notes' = notes \cup OddNames(y) \cup
                      IF Size(y) > limit.file THEN {"oversize_file_skipped"}
                      ELSE IF Sampled(y)
                      THEN {"aggregate_byte_limit_reached"} ELSE {}
                /\ Walked(y)
                /\ UNCHANGED phase
  BY DEF GitBlob
<1>2. /\ phase = "walk" /\ front = "git" /\ frames[1].listed
      /\ y \in frames[1].rest
  BY <1>1, RecordIs
<1>3. UNCHANGED <<tree, edited, front, base, limit, gaps>>
  BY DEF GitBlob, world, outcome
<1>4. notes \subseteq notes'
  BY <1>1
<1>5. CASE seen' > limit.files
  <2>1. Return /\ UNCHANGED found /\ "file_limit_exceeded" \in notes'
    BY <1>1, <1>5
  <2>2. \A x \in Path : Explained(x)'
    BY <2>1, GeneralExplains DEF General
  <2> QED BY <1>2, <1>3, <1>4, <2>1, <2>2, ReturnAccounts
<1>6. CASE ~(seen' > limit.files)
  <2>1. /\ found' = [found EXCEPT ![y] =
              Content(y, Size(y), tree[y].exec, Got(y),
                 IF Sampled(y) THEN "Skipped" ELSE "Unsupported")]
        /\ Size(y) > limit.file => "oversize_file_skipped" \in notes'
        /\ ~(Size(y) > limit.file) /\ Sampled(y) =>
              "aggregate_byte_limit_reached" \in notes'
        /\ Walked(y) /\ phase' = phase
    BY <1>1, <1>6
  <2>2. Size(y) \in Nat /\ limit.file \in Nat /\ Exists(y)
    BY <1>1, PresentIsNode, LenProperties, AnalysisBounds
       DEF Is, AnalysisTyped
  <2>3. Explained(y)' \/ Recorded(y)'
    <3>1. CASE Size(y) > limit.file
      <4>1. Explains("oversize_file_skipped", y)'
        BY <1>3, <3>1 DEF Explains
      <4> QED BY <2>1, <3>1, <4>1 DEF Explained
    <3>2. CASE ~(Size(y) > limit.file) /\ Sampled(y)
      BY <2>1, <3>2, GeneralExplains DEF General
    <3>3. CASE ~(Size(y) > limit.file) /\ ~Sampled(y)
      <4>1. found'[y] = Content(y, Len(tree[y].body), tree[y].exec,
                                tree[y].body, "Unsupported")
        BY <2>1, <3>3 DEF AnalysisTyped
      <4>2. Len(tree[y].body) <= limit.file
        BY <2>2, <3>3
      <4> QED BY <1>3, <2>2, <4>1, <4>2, ContentIsRecorded
    <3> QED BY <3>1, <3>2, <3>3
  <2> HIDE DEF Size, Sampled, Got
  <2>4. PICK r : found' = [found EXCEPT ![y] = r]
    BY <2>1
  <2>5. Accounted(y)'
    BY <1>2, <2>1, <2>3 DEF Accounted, InWalk
  <2>6. ASSUME NEW x \in Path, Recorded(x) PROVE Accounted(x)'
    <3>1. CASE x # y
      <4>1. Recorded(x)'
        BY <1>3, <2>4, <2>6, <3>1, OthersRecorded
      <4> QED BY <1>2, <2>1, <4>1 DEF Accounted, InWalk
    <3> QED BY <2>5, <3>1
  <2>7. \A x \in Path : Owed(x) =>
           /\ y \in Above[x] /\ (front = "git" => x = y) => Accounted(x)'
           /\ Recorded(x) => Accounted(x)'
    BY <1>2, <2>5, <2>6
  <2>8. ReadingIsOwed' /\ phase' \in InWalk
    BY <1>2, <2>1, NoneIsRead DEF InWalk
  <2> QED BY <1>2, <1>3, <1>4, <2>1, <2>7, <2>8, WalkedAccounts
<1> QED BY <1>5, <1>6

\* Without an inventory there is no report.
LEMMA FailureTells ==
  ASSUME DisclosureInv, NotADirectory \/ GitFails
  PROVE  DisclosureInv'
<1>1. /\ phase' = "failed"
      /\ UNCHANGED <<tree, edited, front, base, limit, frames>>
  BY DEF NotADirectory, GitFails, world, inventoried
<1>2. TreeIsNested'
  BY <1>1, TreeStaysNested
<1>3. FramesNest'
  <2>1. \A d : InTree(d)' = InTree(d) /\ Depth(d)' = Depth(d)
    BY <1>1 DEF InTree, InBase, Depth
  <2> QED BY <1>1, <2>1 DEF DisclosureInv, FramesNest, InWalk
<1>4. ReadingIsOwed'
  BY <1>1, NoneIsRead
<1> QED BY <1>1, <1>2, <1>3, <1>4 DEF DisclosureInv

(***************************************************************************)
(* What is judged.                                                         *)
(***************************************************************************)
\* Of the entry of x only the state or that it is a target changed.
LEMMA RecordedKeeps ==
  ASSUME UNCHANGED <<tree, limit>>, NEW x, Recorded(x),
         found'[x] \in EntryRecord,
         found'[x].kind = found[x].kind, found'[x].size = found[x].size,
         found'[x].exec = found[x].exec, found'[x].digest = found[x].digest,
         found'[x].sampled = found[x].sampled,
         found'[x].class = found[x].class, found'[x].hint = found[x].hint
  PROVE  Recorded(x)'
BY DEF Recorded

LEMMA JudgedStays ==
  ASSUME UNCHANGED tree, NEW x, found'[x].kind = found[x].kind,
         results \subseteq results',
         \A e \in edges : \E g \in edges' : g[1] = e[1]
  PROVE  JudgedInFull(x) => JudgedInFull(x)'
<1> SUFFICES ASSUME JudgedInFull(x) PROVE JudgedInFull(x)'
  OBVIOUS
<1>1. (\E e \in edges : e[1] = x) => (\E e \in edges' : e[1] = x)
  OBVIOUS
<1> QED BY <1>1 DEF JudgedInFull, Holds

LEMMA JudgingMoves ==
  ASSUME DisclosureInv, phase = "analyze",
         phase' \in {"analyze", "reported"},
         UNCHANGED <<tree, edited, front, base, limit, frames>>,
         notes \subseteq notes', gaps \subseteq gaps',
         \A x \in Path :
            Owed(x) /\ Recorded(x) /\ (x \in todo \/ JudgedInFull(x))
            => Accounted(x)'
  PROVE  DisclosureInv'
<1>1. TreeIsNested'
  BY TreeStaysNested
<1>2. FramesNest'
  <2>1. \A d : InTree(d)' = InTree(d) /\ Depth(d)' = Depth(d)
    BY DEF InTree, InBase, Depth
  <2> QED BY <2>1 DEF DisclosureInv, FramesNest, InWalk
<1>3. ReadingIsOwed'
  BY NoneIsRead
<1>4. ASSUME NEW x \in Path, Owed(x)' PROVE Accounted(x)'
  <2>1. Owed(x)
    BY <1>4, OwedStays
  <2>2. Accounted(x)
    BY <2>1 DEF DisclosureInv
  <2>3. CASE Explained(x)
    <3>1. Explained(x)'
      BY <2>3, ExplainedStays
    <3> QED BY <3>1 DEF Accounted
  <2>4. CASE ~Explained(x)
    BY <2>1, <2>2, <2>4 DEF Accounted, InWalk
  <2> QED BY <2>3, <2>4
<1> QED BY <1>1, <1>2, <1>3, <1>4 DEF DisclosureInv

\* An entry is analyzed or passed over; the others stay as they are.
LEMMA EntryJudged ==
  ASSUME DisclosureInv, NEW y \in Path, Analyzing(y), phase' = phase,
         UNCHANGED <<tree, edited, front, base, limit, frames, notes>>,
         gaps \subseteq gaps', results \subseteq results',
         edges \subseteq edges',
         \A x \in Path : x # y => found'[x] = found[x],
         Owed(y) /\ Recorded(y) => Accounted(y)'
  PROVE  DisclosureInv'
<1>1. /\ phase = "analyze" /\ phase' \in {"analyze", "reported"}
      /\ todo' = todo \ {y}
  BY DEF Analyzing
<1>2. ASSUME NEW x \in Path, Owed(x), Recorded(x),
             x \in todo \/ JudgedInFull(x), x # y
      PROVE  Accounted(x)'
  <2>1. Recorded(x)'
    BY <1>2, RecordedStays
  <2>2. CASE x \in todo
    BY <1>1, <1>2, <2>1, <2>2 DEF Accounted
  <2>3. CASE JudgedInFull(x)
    <3>1. JudgedInFull(x)'
      BY <1>2, <2>3, JudgedStays
    <3> QED BY <1>1, <2>1, <3>1 DEF Accounted
  <2> QED BY <1>2, <2>2, <2>3
<1>3. \A x \in Path :
         Owed(x) /\ Recorded(x) /\ (x \in todo \/ JudgedInFull(x))
         => Accounted(x)'
  BY <1>2
<1> QED BY <1>1, <1>3, JudgingMoves

LEMMA GapExplains ==
  ASSUME NEW x, NEW reason, gaps' = gaps \cup {<<x, reason>>}
  PROVE  Accounted(x)' /\ gaps \subseteq gaps'
<1>1. <<x, reason>> \in gaps' /\ <<x, reason>>[1] = x
  OBVIOUS
<1> QED BY <1>1 DEF Accounted, Explained

\* What the readers give of a file that is recorded is what it holds.
LEMMA GivenIsAll ==
  ASSUME NEW x, Recorded(x), NEW body \in Given(x), body # Void
  PROVE  body = tree[x].body
BY DEF Given, Reread, Recorded

LEMMA AnalyzeManifestTells ==
  ASSUME DisclosureInv, AnalyzeManifest
  PROVE  DisclosureInv'
<1>1. PICK y \in Path :
        /\ Analyzing(y) /\ Spelled[y] = "manifest"
        /\ \E body \in Given(y) :
              IF body = Void
              THEN /\ gaps' = gaps \cup {<<y, "content_unavailable">>}
                   /\ UNCHANGED results
              ELSE IF Holds("junk", body)
                   THEN /\ gaps' = gaps \cup {<<y, "manifest-unreadable">>}
                        /\ UNCHANGED results
                   ELSE /\ results' = IF Holds("evil", body)
                                      THEN results \cup {<<y, "manifest">>}
                                      ELSE results
                        /\ UNCHANGED gaps
  BY DEF AnalyzeManifest
<1>2. /\ UNCHANGED <<tree, edited, front, base, limit, frames, notes, found,
                     edges, phase>>
  BY DEF AnalyzeManifest, world, inventoried
<1>3. PICK body \in Given(y) :
         \/ /\ \E reason : gaps' = gaps \cup {<<y, reason>>}
            /\ UNCHANGED results
         \/ /\ body # Void /\ UNCHANGED gaps
            /\ results' = IF Holds("evil", body)
                          THEN results \cup {<<y, "manifest">>}
                          ELSE results
  BY <1>1
<1>4. CASE \E reason : gaps' = gaps \cup {<<y, reason>>}
  <2>1. Accounted(y)' /\ gaps \subseteq gaps' /\ results \subseteq results'
    BY <1>3, <1>4, GapExplains
  <2> QED BY <1>1, <1>2, <2>1, EntryJudged
<1>5. CASE /\ body # Void /\ UNCHANGED gaps
           /\ results' = IF Holds("evil", body)
                         THEN results \cup {<<y, "manifest">>} ELSE results
  <2>1. ASSUME Recorded(y) PROVE Accounted(y)'
    <3>1. body = tree[y].body
      BY <1>5, <2>1, GivenIsAll
    <3>2. JudgedInFull(y)'
      BY <1>1, <1>2, <1>5, <3>1 DEF JudgedInFull, Holds
    <3>3. Recorded(y)'
      BY <1>2, <2>1, RecordedStays
    <3>4. phase' = "analyze"
      BY <1>1, <1>2 DEF Analyzing
    <3> QED BY <3>2, <3>3, <3>4 DEF Accounted
  <2>2. gaps \subseteq gaps' /\ results \subseteq results'
    BY <1>5
  <2> QED BY <1>1, <1>2, <2>1, <2>2, EntryJudged
<1> QED BY <1>3, <1>4, <1>5

\* What is passed over holds nothing that a detector reports.
LEMMA SkipEntryTells ==
  ASSUME AnalysisTyped, DisclosureInv, SkipEntry
  PROVE  DisclosureInv'
<1>1. PICK y \in Path : Analyzing(y) /\ PassOver(y)
  BY DEF SkipEntry
<1>2. /\ UNCHANGED <<tree, edited, front, base, limit, frames, notes, found,
                     results, gaps, edges, phase>>
  BY DEF SkipEntry, world, inventoried
<1>3. ASSUME Recorded(y) PROVE Accounted(y)'
  <2>1. Recorded(y)'
    BY <1>2, <1>3, RecordedStays
  <2>2. /\ found[y].size <= limit.file /\ found[y].size \in Nat
        /\ limit.file \in Nat
    BY <1>3, AnalysisBounds DEF Recorded, EntryRecord, AnalysisTyped
  <2>3. Spelled[y] # "manifest" /\ ~HasDetector(found'[y].kind)
    BY <1>1, <1>2, <2>2 DEF PassOver
  <2>a. JudgedInFull(y)'
    BY <2>3 DEF JudgedInFull
  <2>4. phase' = "analyze"
    BY <1>1, <1>2 DEF Analyzing
  <2> QED BY <2>1, <2>a, <2>4 DEF Accounted
<1> QED BY <1>1, <1>2, <1>3, EntryJudged

LEMMA ReportGapTells ==
  ASSUME DisclosureInv, ReportGap
  PROVE  DisclosureInv'
<1>1. PICK y \in Path :
         Analyzing(y) /\ \E reason : gaps' = gaps \cup {<<y, reason>>}
  BY DEF ReportGap
<1>2. /\ UNCHANGED <<tree, edited, front, base, limit, frames, notes, found,
                     results, edges, phase>>
  BY DEF ReportGap, world, inventoried
<1>3. Accounted(y)' /\ gaps \subseteq gaps'
  BY <1>1, GapExplains
<1> QED BY <1>1, <1>2, <1>3, EntryJudged

LEMMA AnalyzeSourceTells ==
  ASSUME AnalysisTyped, DisclosureInv, AnalyzeSource
  PROVE  DisclosureInv'
<1>1. PICK y \in Path :
        /\ Analyzing(y) /\ Spelled[y] # "manifest"
        /\ \E body \in Given(y) \ {Void} :
              /\ results' = IF Holds("evil", body)
                            THEN results \cup {<<y, "evil">>} ELSE results
              /\ gaps' = IF Holds("junk", body)
                         THEN gaps \cup {<<y, "parser">>} ELSE gaps
              /\ edges' = IF Holds("ref", body)
                          THEN edges \cup {<<y, "pending">>} ELSE edges
              /\ found' = [found EXCEPT ![y].state =
                              StateOf(found[y].kind, body)]
  BY DEF AnalyzeSource
<1>2. PICK body \in Given(y) \ {Void} :
              /\ results' = IF Holds("evil", body)
                            THEN results \cup {<<y, "evil">>} ELSE results
              /\ gaps' = IF Holds("junk", body)
                         THEN gaps \cup {<<y, "parser">>} ELSE gaps
              /\ edges' = IF Holds("ref", body)
                          THEN edges \cup {<<y, "pending">>} ELSE edges
              /\ found' = [found EXCEPT ![y].state =
                              StateOf(found[y].kind, body)]
  BY <1>1
<1>3. UNCHANGED <<tree, edited, front, base, limit, frames, notes, phase>>
  BY DEF AnalyzeSource, world
<1>4. /\ gaps \subseteq gaps' /\ results \subseteq results'
      /\ edges \subseteq edges'
  BY <1>2
<1>5. PICK s : s = StateOf(found[y].kind, body)
  OBVIOUS
<1>6. s \in {"Partial", "Analyzed", "Unreferenced"}
  BY <1>5 DEF StateOf
<1>7. /\ found'[y] = [found[y] EXCEPT !.state = s]
      /\ \A x \in Path : x # y => found'[x] = found[x]
  BY <1>2, <1>5 DEF AnalysisTyped
<1>8. ASSUME Recorded(y) PROVE Accounted(y)'
  <2>1. found[y] \in EntryRecord
    BY <1>8 DEF Recorded
  <2>2. Recorded(y)'
    <3>1. /\ found'[y] \in EntryRecord
          /\ found'[y].kind = found[y].kind
          /\ found'[y].size = found[y].size
          /\ found'[y].exec = found[y].exec
          /\ found'[y].digest = found[y].digest
          /\ found'[y].sampled = found[y].sampled
          /\ found'[y].class = found[y].class
          /\ found'[y].hint = found[y].hint
      BY <1>6, <1>7, <2>1 DEF EntryRecord
    <3> QED BY <1>3, <1>8, <3>1, RecordedKeeps
  <2>3. body = tree[y].body
    BY <1>8, GivenIsAll
  <2>4. JudgedInFull(y)'
    <3>1. Holds("evil", tree'[y].body) => <<y, "evil">> \in results'
      BY <1>2, <1>3, <2>3 DEF Holds
    <3>2. Holds("ref", tree'[y].body) => <<y, "pending">> \in edges'
      BY <1>2, <1>3, <2>3 DEF Holds
    <3>3. <<y, "pending">>[1] = y
      OBVIOUS
    <3> QED BY <1>1, <3>1, <3>2, <3>3 DEF JudgedInFull, Holds
  <2>5. phase' = "analyze"
    BY <1>1, <1>3 DEF Analyzing
  <2> QED BY <2>2, <2>4, <2>5 DEF Accounted
<1> QED BY <1>1, <1>3, <1>4, <1>7, <1>8, EntryJudged

LEMMA ResolveEdgeTells ==
  ASSUME AnalysisTyped, DisclosureInv, ResolveEdge
  PROVE  DisclosureInv'
<1>1. /\ phase = "analyze" /\ todo = {} /\ phase' = "analyze"
      /\ UNCHANGED <<tree, edited, front, base, limit, frames, notes, gaps,
                     results>>
  BY DEF ResolveEdge, world
<1>2. PICK y \in Path : \E target :
         /\ edges' = (edges \ {<<y, "pending">>}) \cup {<<y, target>>}
         /\ IF target \in Entries
            THEN found' = [found EXCEPT ![target].target = TRUE]
            ELSE UNCHANGED found
  BY DEF ResolveEdge
<1>3. PICK target :
         /\ edges' = (edges \ {<<y, "pending">>}) \cup {<<y, target>>}
         /\ IF target \in Entries
            THEN found' = [found EXCEPT ![target].target = TRUE]
            ELSE UNCHANGED found
  BY <1>2
<1>4. \A e \in edges : \E g \in edges' : g[1] = e[1]
  <2> SUFFICES ASSUME NEW e \in edges PROVE \E g \in edges' : g[1] = e[1]
    OBVIOUS
  <2>1. CASE e = <<y, "pending">>
    <3>1. <<y, target>> \in edges' /\ <<y, target>>[1] = e[1]
      BY <1>3, <2>1
    <3> QED BY <3>1
  <2>2. CASE e # <<y, "pending">>
    BY <1>3, <2>2
  <2> QED BY <2>1, <2>2
<1>5. ASSUME NEW x \in Path, Recorded(x)
      PROVE  Recorded(x)' /\ found'[x].kind = found[x].kind
  <2>1. CASE found'[x] = found[x]
    BY <1>1, <1>5, <2>1, RecordedStays
  <2>2. CASE found'[x] # found[x]
    <3>1. target = x /\ found'[x] = [found[x] EXCEPT !.target = TRUE]
      BY <1>3, <2>2 DEF AnalysisTyped, Entries
    <3>2. found[x] \in EntryRecord
      BY <1>5 DEF Recorded
    <3>3. /\ found'[x] \in EntryRecord
          /\ found'[x].kind = found[x].kind
          /\ found'[x].size = found[x].size
          /\ found'[x].exec = found[x].exec
          /\ found'[x].digest = found[x].digest
          /\ found'[x].sampled = found[x].sampled
          /\ found'[x].class = found[x].class
          /\ found'[x].hint = found[x].hint
      BY <3>1, <3>2 DEF EntryRecord
    <3> QED BY <1>1, <1>5, <3>3, RecordedKeeps
  <2> QED BY <2>1, <2>2
<1>6. ASSUME NEW x \in Path, Recorded(x), x \in todo \/ JudgedInFull(x)
      PROVE  Accounted(x)'
  <2>1. JudgedInFull(x)
    BY <1>1, <1>6
  <2>2. JudgedInFull(x)'
    BY <1>1, <1>4, <1>5, <1>6, <2>1, JudgedStays
  <2> QED BY <1>1, <1>5, <1>6, <2>2 DEF Accounted
<1> QED BY <1>1, <1>6, JudgingMoves

LEMMA EndAnalysisTells ==
  ASSUME AnalysisTyped, DisclosureInv, EndAnalysis
  PROVE  DisclosureInv'
<1>1. /\ phase = "analyze" /\ phase' = "reported"
      /\ UNCHANGED <<tree, edited, front, base, limit, frames, gaps>>
      /\ results' = results \cup
            {<<x, "bundled-binary">> :
                x \in {y \in Entries : /\ found[y].kind = "Native"
                                       /\ found[y].target}}
      /\ found' = [x \in Path |->
            IF x \in Entries /\ found[x].kind = "Native"
            THEN [found[x] EXCEPT !.state = "Unsupported"] ELSE found[x]]
      /\ edges' = edges \ Pending
      /\ IF todo # {} \/ Pending # {}
         THEN Note("analysis_time_budget_exhausted") ELSE UNCHANGED notes
  BY DEF EndAnalysis, world
<1>2. notes \subseteq notes'
  BY <1>1 DEF Note
<1>3. CASE todo # {} \/ Pending # {}
  <2>1. "analysis_time_budget_exhausted" \in notes'
    BY <1>1, <1>3 DEF Note
  <2>2. \A x \in Path : Accounted(x)'
    BY <2>1, GeneralExplains DEF General, Accounted
  <2> QED BY <1>1, <1>2, <2>2, JudgingMoves
<1>4. CASE todo = {} /\ Pending = {}
  <2>1. ASSUME NEW x \in Path, Recorded(x), x \in todo \/ JudgedInFull(x)
        PROVE  Accounted(x)'
    <3>1. found[x] \in EntryRecord /\ x \in Entries
      BY <2>1, VoidIsNothing DEF Recorded, Entries
    <3>2. /\ found'[x] \in EntryRecord
          /\ found'[x].kind = found[x].kind
          /\ found'[x].size = found[x].size
          /\ found'[x].exec = found[x].exec
          /\ found'[x].digest = found[x].digest
          /\ found'[x].sampled = found[x].sampled
          /\ found'[x].class = found[x].class
          /\ found'[x].hint = found[x].hint
          /\ found'[x].target = found[x].target
      <4>1. found'[x] = IF found[x].kind = "Native"
                        THEN [found[x] EXCEPT !.state = "Unsupported"]
                        ELSE found[x]
        BY <1>1, <3>1
      <4> QED BY <3>1, <4>1 DEF EntryRecord
    <3>3. Recorded(x)'
      BY <1>1, <2>1, <3>2, RecordedKeeps
    <3>4. JudgedInFull(x)'
      BY <1>1, <1>4, <2>1, <3>2, JudgedStays
    <3>5. BinaryIsNamed(x)'
      BY <1>1, <3>1, <3>2 DEF BinaryIsNamed
    <3> QED BY <1>1, <3>3, <3>4, <3>5 DEF Accounted
  <2> QED BY <1>1, <1>2, <2>1, JudgingMoves
<1> QED BY <1>3, <1>4

LEMMA StartAnalysisTells ==
  ASSUME DisclosureInv, StartAnalysis
  PROVE  DisclosureInv'
<1>1. /\ phase = "listed" /\ phase' = "analyze" /\ todo' = Entries
      /\ UNCHANGED <<tree, edited, front, base, limit, frames, gaps, notes,
                     found>>
  BY DEF StartAnalysis, world, inventoried
<1>2. TreeIsNested'
  BY <1>1, TreeStaysNested
<1>3. FramesNest'
  <2>1. \A d : InTree(d)' = InTree(d) /\ Depth(d)' = Depth(d)
    BY <1>1 DEF InTree, InBase, Depth
  <2> QED BY <1>1, <2>1 DEF DisclosureInv, FramesNest, InWalk
<1>4. ReadingIsOwed'
  BY <1>1, NoneIsRead
<1>5. ASSUME NEW x \in Path, Owed(x)' PROVE Accounted(x)'
  <2>1. Accounted(x)
    BY <1>1, <1>5, OwedStays DEF DisclosureInv
  <2>2. CASE Explained(x)
    <3>1. Explained(x)'
      BY <1>1, <2>2, ExplainedStays
    <3> QED BY <3>1 DEF Accounted
  <2>3. CASE Recorded(x)
    <3>1. Recorded(x)' /\ x \in todo'
      BY <1>1, <2>3, RecordedStays, VoidIsNothing DEF Recorded, Entries
    <3> QED BY <1>1, <3>1 DEF Accounted
  <2> QED BY <1>1, <2>1, <2>2, <2>3 DEF Accounted, InWalk
<1> QED BY <1>2, <1>3, <1>4, <1>5 DEF DisclosureInv

(***************************************************************************)
(* The world.                                                              *)
(***************************************************************************)
\* Time runs out, or objects are lost: nothing that is owed changes.
LEMMA DisclosureStands ==
  ASSUME DisclosureInv,
         UNCHANGED <<tree, edited, front, base, limit, phase, frames, reading,
                     found, notes, todo, results, gaps, edges>>
  PROVE  DisclosureInv'
<1>1. TreeIsNested'
  BY TreeStaysNested
<1>2. FramesNest'
  <2>1. \A d : InTree(d)' = InTree(d) /\ Depth(d)' = Depth(d)
    BY DEF InTree, InBase, Depth
  <2> QED BY <2>1 DEF DisclosureInv, FramesNest
<1>3. \A x : /\ Owed(x)' <=> Owed(x)
             /\ BeingRead(x)' <=> BeingRead(x)
  BY OwedStays DEF BeingRead
<1>4. ReadingIsOwed'
  BY <1>3 DEF DisclosureInv, ReadingIsOwed
<1>5. ASSUME NEW x, Accounted(x) PROVE Accounted(x)'
  <2>1. Explained(x) => Explained(x)'
    BY ExplainedStays
  <2>2. Recorded(x) => Recorded(x)'
    BY RecordedStays
  <2>3. AwaitedIn(x) => AwaitedIn(x)'
    BY DEF AwaitedIn, Awaits
  <2>4. JudgedInFull(x) => JudgedInFull(x)'
    BY JudgedStays
  <2>5. BinaryIsNamed(x) => BinaryIsNamed(x)'
    BY DEF BinaryIsNamed
  <2> QED BY <1>3, <1>5, <2>1, <2>2, <2>3, <2>4, <2>5 DEF Accounted
<1> QED BY <1>1, <1>2, <1>3, <1>4, <1>5 DEF DisclosureInv

LEMMA EditTells ==
  ASSUME AnalysisTyped, DisclosureInv, Edit
  PROVE  DisclosureInv'
<1>1. PICK z \in Path : \E node :
        /\ tree' = [tree EXCEPT ![z] = node]
        /\ edited' = edited \cup {z}
        /\ \/ UNCHANGED reading
           \/ /\ reading.path = z
              /\ reading' = [reading EXCEPT !.body = node.body]
  BY DEF Edit
<1>2. UNCHANGED <<front, base, limit, phase, frames, found, notes, todo,
                  results, gaps, edges>>
  BY DEF Edit, outcome
<1>3. \A x \in Path : x # z => tree'[x] = tree[x]
  BY <1>1 DEF AnalysisTyped
<1>4. reading'.path = reading.path /\ reading'.size = reading.size
      /\ reading'.exec = reading.exec
  <2>1. PICK body : \/ UNCHANGED reading
                    \/ reading' = [reading EXCEPT !.body = body]
    BY <1>1
  <2> QED BY <2>1 DEF AnalysisTyped, ReadFields
<1>5. ASSUME NEW x \in Path, Untouched(x)'
      PROVE  /\ Untouched(x) /\ \A y \in Above[x] \ {Top} : tree'[y] = tree[y]
             /\ tree'[x] = tree[x]
             /\ Exists(x)' <=> Exists(x)
  <2>1. z \notin Above[x] /\ x \in Above[x]
        /\ Above[x] \subseteq Path \cup {Top}
    BY <1>1, <1>5, AboveHas DEF Untouched
  <2>2. Untouched(x)
    BY <1>1, <1>5 DEF Untouched
  <2>3. \A y \in Above[x] \ {Top} : tree'[y] = tree[y]
    BY <1>3, <2>1
  <2>4. tree'[x] = tree[x]
    BY <1>3, <2>1
  <2>5. Exists(x)' <=> Exists(x)
    BY <2>3 DEF Exists
  <2> QED BY <2>2, <2>3, <2>4, <2>5
<1>6. TreeIsNested'
  BY <1>5 DEF DisclosureInv, TreeIsNested
<1>7. FramesNest'
  <2>1. \A d : InTree(d)' = InTree(d) /\ Depth(d)' = Depth(d)
    BY <1>2 DEF InTree, InBase, Depth
  <2> QED BY <1>2, <2>1 DEF DisclosureInv, FramesNest
<1>8. \A x \in Path : Owed(x)' => Owed(x) /\ tree'[x] = tree[x]
  BY <1>2, <1>5 DEF Owed, InBase, Is, OfGit
<1>9. \A x : BeingRead(x)' <=> BeingRead(x)
  BY <1>2, <1>4 DEF BeingRead
<1>10. ReadingIsOwed'
  BY <1>2, <1>4, <1>8, <1>9 DEF DisclosureInv, ReadingIsOwed
<1>11. ASSUME NEW x \in Path, Owed(x)', Accounted(x) PROVE Accounted(x)'
  <2>1. tree'[x] = tree[x]
    BY <1>8, <1>11
  <2>2. Explained(x) => Explained(x)'
    <3>1. \A n : Explains(n, x)' <=> Explains(n, x)
      BY <1>2, <2>1 DEF Explains, Depth, InBase, Odd
    <3> QED BY <1>2, <3>1 DEF Explained
  <2>3. Recorded(x) => Recorded(x)'
    BY <1>2, <2>1 DEF Recorded
  <2>4. AwaitedIn(x) => AwaitedIn(x)'
    BY <1>2 DEF AwaitedIn, Awaits
  <2>5. JudgedInFull(x) => JudgedInFull(x)'
    BY <1>2, <2>1 DEF JudgedInFull, Holds
  <2>6. BinaryIsNamed(x) => BinaryIsNamed(x)'
    BY <1>2 DEF BinaryIsNamed
  <2> QED BY <1>2, <1>9, <1>11, <2>2, <2>3, <2>4, <2>5, <2>6 DEF Accounted
<1> QED BY <1>2, <1>6, <1>7, <1>8, <1>10, <1>11 DEF DisclosureInv

(***************************************************************************)
(* From the start to the report.                                           *)
(***************************************************************************)
LEMMA DisclosureStarts ==
  ASSUME AnalysisInit
  PROVE  DisclosureInv
<1>1. /\ tree \in Trees /\ base \in Path \cup {Top} /\ phase = "walk"
      /\ front \in {"git", "filesystem"} /\ frames = <<Unlisted(base)>>
  BY PathsAreNested DEF AnalysisInit, NothingAnalyzed
<1>2. TreeIsNested
  <2>1. SUFFICES ASSUME NEW x \in Path, Exists(x),
                        NEW y \in Above[x] \ {x, Top}
                 PROVE  tree[y].type = "dir"
    BY DEF TreeIsNested
  <2> DEFINE c == {z \in Above[x] : z \in {x, Top} \/ tree[z].type = "dir"}
  <2>2. c \subseteq Path \cup {Top} /\ x \in c
    BY AboveHas
  <2>3. ASSUME NEW z \in c \cap Path PROVE Parent[z] \in c
    <3>1. /\ z # Top /\ z \in Above[x] /\ Parent[z] \in Above[x]
      BY PathsAreNested, AboveHas
    <3>2. tree[z] # Void
      BY <2>1, <3>1 DEF Exists
    <3>3. Parent[z] = Top \/ tree[Parent[z]].type = "dir"
      BY <1>1, <3>2, TreesAreTyped
    <3> QED BY <3>1, <3>3
  <2>4. c \in Upward
    BY <2>2, <2>3 DEF Upward
  <2>5. y \in c
    BY <2>2, <2>4 DEF Above
  <2> QED BY <2>5
<1>3. PICK g : g = Unlisted(base)
  OBVIOUS
<1>4. g \in WalkFrame /\ g.dir = base /\ g.listed = FALSE /\ g.rest = {}
  BY <1>1, <1>3 DEF Unlisted, WalkFrame
<1>5. /\ frames \in Seq(WalkFrame) /\ Len(frames) = 1 /\ frames # <<>>
      /\ DOMAIN frames = {1} /\ frames[1] = g
  <2>1. frames = <<g>>
    BY <1>1, <1>3
  <2> QED BY <1>4, <2>1
<1>6. FramesNest
  <2>1. Depth(base) = 1 - 1 /\ InTree(base)
    BY <1>1, DepthOfBase DEF InTree
  <2> QED BY <1>1, <1>4, <1>5, <2>1 DEF FramesNest
<1>7. ReadingIsOwed
  BY <1>1 DEF ReadingIsOwed, BeingRead
<1>8. ASSUME NEW x \in Path, Owed(x) PROVE Accounted(x)
  <2>1. base \in Above[x] \ {x}
    BY <1>8 DEF Owed, InBase
  <2>2. AwaitedIn(x)
    BY <1>4, <1>5, <2>1 DEF AwaitedIn, Awaits
  <2> QED BY <1>1, <2>2 DEF Accounted, InWalk
<1> QED BY <1>2, <1>6, <1>7, <1>8 DEF DisclosureInv

LEMMA DisclosureHolds == AnalysisSpec => []DisclosureInv
<1>1. AnalysisInit => DisclosureInv
  BY DisclosureStarts
<1>2. AnalysisInv /\ DisclosureInv /\ [AnalysisNext]_payload
         => DisclosureInv'
  <2> SUFFICES ASSUME AnalysisInv, DisclosureInv, [AnalysisNext]_payload
               PROVE  DisclosureInv'
    OBVIOUS
  <2>1. AnalysisTyped
    BY DEF AnalysisInv
  <2>2. CASE UNCHANGED payload \/ BudgetExpires \/ LoseObjects
    BY <2>2, DisclosureStands
       DEF payload, world, inventoried, outcome, BudgetExpires, LoseObjects
  <2>3. CASE NotADirectory \/ GitFails
    BY <2>3, FailureTells
  <2>4. CASE ReturnFromDirectory \/ GitEnds
    BY <2>4, ReturnTells
  <2>5. CASE \/ OpenDirectory \/ SkipChild \/ VisitDirectory
             \/ VisitLinkOrSpecial \/ VisitFile
    BY <2>1, <2>5, OpenDirectoryTells, SkipChildTells, VisitDirectoryTells,
       VisitLinkOrSpecialTells, VisitFileTells
  <2>6. CASE SampleFile \/ OpenFile \/ ReadUnit \/ FinishFile
    BY <2>1, <2>6, SampleFileTells, OpenFileTells, ReadUnitTells,
       FinishFileTells
  <2>7. CASE ListTree \/ GitOther \/ GitBlob
    BY <2>1, <2>7, ListTreeTells, GitOtherTells, GitBlobTells
  <2>8. CASE StartAnalysis \/ AnalyzeManifest \/ SkipEntry \/ ReportGap
    BY <2>1, <2>8, StartAnalysisTells, AnalyzeManifestTells, SkipEntryTells,
       ReportGapTells
  <2>9. CASE AnalyzeSource \/ ResolveEdge \/ EndAnalysis \/ Edit
    BY <2>1, <2>9, AnalyzeSourceTells, ResolveEdgeTells, EndAnalysisTells,
       EditTells
  <2> QED
    BY <2>2, <2>3, <2>4, <2>5, <2>6, <2>7, <2>8, <2>9 DEF AnalysisNext
<1> QED BY <1>1, <1>2, AnalysisHolds, PTL DEF AnalysisSpec

\* What was recorded whole and judged, the report tells.
LEMMA JudgedIsTold ==
  ASSUME NEW x \in Path, Recorded(x), JudgedInFull(x), BinaryIsNamed(x)
  PROVE  Told(x)
<1> DEFINE body == tree[x].body
           exec == tree[x].exec
           kind == Classify(x, exec, body)
           r == found[x]
<1>1. /\ r # Void /\ r.kind = kind /\ r.exec = exec
      /\ r.class = ContentClass(body) /\ r.hint = LanguageHint(body)
  BY VoidIsNothing DEF Recorded
<1>2. kind = "Native" => Opaque(r)
  BY <1>1 DEF Opaque
<1>3. Starts(body, {"zip"}) => Opaque(r)
  BY <1>1 DEF Opaque, ContentClass
<1>4. kind = "Executable" => Opaque(r)
  <2>1. kind = "Executable" => exec
    BY DEF Classify
  <2> QED BY <1>1, <2>1 DEF Opaque
<1>5. r.target /\ kind = "Native" => <<x, "bundled-binary">> \in results
  BY <1>1 DEF BinaryIsNamed
<1>6. r.target /\ Starts(body, {"node"}) => Opaque(r) \/ HasDetector(kind)
  <2>1. SUFFICES ASSUME r.target, Starts(body, {"node"})
                 PROVE  Opaque(r) \/ HasDetector(kind)
    OBVIOUS
  <2>2. /\ ~Starts(body, {"elf"}) /\ ~Starts(body, {"sh"})
        /\ ~Starts(body, {"zip"}) /\ Starts(body, {"sh", "node"})
    BY <2>1 DEF Starts
  <2>3. HasDetector(kind) \/ kind \in {"Executable", "Text"}
    BY <2>2 DEF Classify, HasDetector
  <2>4. r.hint
    BY <1>1, <2>2 DEF LanguageHint
  <2> HIDE DEF kind, r
  <2> QED BY <1>1, <1>4, <2>1, <2>3, <2>4 DEF Opaque
<1>7. IF Spelled[x] = "manifest"
      THEN Holds("evil", body) => <<x, "manifest">> \in results
      ELSE HasDetector(kind) =>
              /\ Holds("evil", body) => <<x, "evil">> \in results
              /\ Holds("ref", body) => \E e \in edges : e[1] = x
  BY <1>1 DEF JudgedInFull
<1> HIDE DEF kind
<1> QED BY <1>1, <1>2, <1>3, <1>4, <1>5, <1>6, <1>7 DEF Told, kind

(***************************************************************************)
(* Nothing that a directory has under the name .git comes into the walk.   *)
(***************************************************************************)
Clean ==
    {f \in WalkFrame : ~OfGit(f.dir) /\ \A y \in f.rest : ~OfGit(y)}
GitStaysOut ==
    front = "filesystem" =>
        /\ frames \in Seq(Clean)
        /\ phase \in {"open", "read"} => ~OfGit(reading.path)
        /\ \A x \in Path : OfGit(x) => found[x] = Void /\ x \notin todo

\* A step that enters into the inventory and into what is to be analyzed
\* nothing that lies in a .git, and walks as before.
LEMMA GitIsLeft ==
  ASSUME GitStaysOut, UNCHANGED <<base, front>>,
         frames' = frames \/ (front = "filesystem" => frames' \in Seq(Clean)),
         front = "filesystem" /\ phase' \in {"open", "read"} =>
             ~OfGit(reading'.path),
         \A x \in Path : front = "filesystem" /\ OfGit(x) /\ found[x] = Void =>
             found'[x] = Void,
         \A x \in Path : x \in todo' => x \in todo \/ found[x] # Void
  PROVE  GitStaysOut'
<1>1. \A x : OfGit(x)' <=> OfGit(x)
  BY DEF OfGit, InBase
<1>2. \A f : f \in Clean' <=> f \in Clean
  BY <1>1 DEF Clean, WalkFrame
<1>3. Clean' = Clean
  BY <1>2
<1> QED BY <1>1, <1>3 DEF GitStaysOut

LEMMA GitIsPassedOver ==
  ASSUME AnalysisInv, DisclosureInv, GitStaysOut, [AnalysisNext]_payload
  PROVE  GitStaysOut'
<1>1. UNCHANGED <<base, front>>
  <2>1. CASE \/ NotADirectory \/ OpenDirectory \/ ReturnFromDirectory
             \/ SkipChild \/ VisitDirectory \/ VisitLinkOrSpecial \/ VisitFile
    BY <2>1 DEF world, NotADirectory, OpenDirectory, ReturnFromDirectory,
                SkipChild, VisitDirectory, VisitLinkOrSpecial, VisitFile
  <2>4. CASE SampleFile \/ OpenFile \/ ReadUnit \/ FinishFile
    BY <2>4 DEF world, SampleFile, OpenFile, ReadUnit, FinishFile
  <2>2. CASE \/ ListTree \/ GitFails \/ GitEnds \/ GitOther \/ GitBlob
             \/ StartAnalysis \/ AnalyzeManifest \/ SkipEntry \/ ReportGap
             \/ AnalyzeSource \/ ResolveEdge \/ EndAnalysis
    BY <2>2 DEF world, ListTree, GitFails, GitEnds, GitOther, GitBlob,
                StartAnalysis, AnalyzeManifest, SkipEntry, ReportGap,
                AnalyzeSource, ResolveEdge, EndAnalysis
  <2>3. CASE \/ BudgetExpires \/ Edit \/ LoseObjects \/ UNCHANGED payload
    BY <2>3 DEF payload, world, BudgetExpires, Edit, LoseObjects
  <2> QED BY <2>1, <2>2, <2>3, <2>4 DEF AnalysisNext
<1>2. CASE front = "git"
  BY <1>1, <1>2 DEF GitStaysOut
<1> SUFFICES ASSUME front = "filesystem" PROVE GitStaysOut'
  BY <1>2 DEF DisclosureInv, FramesNest
<1>3. /\ frames \in Seq(Clean) /\ FramesNest
      /\ \A f \in Clean : f \in WalkFrame /\ ~OfGit(f.dir)
                            /\ \A y \in f.rest : ~OfGit(y)
  BY DEF GitStaysOut, DisclosureInv, Clean
<1>4. /\ DOMAIN found = Path /\ DOMAIN reading = ReadFields
      /\ todo \subseteq Path
  BY DEF AnalysisInv, AnalysisTyped
<1>5. phase = "walk" => /\ 1 \in DOMAIN frames /\ frames[1] \in Clean
                        /\ Tail(frames) \in Seq(Clean)
  <2> SUFFICES ASSUME phase = "walk"
               PROVE  /\ 1 \in DOMAIN frames /\ frames[1] \in Clean
                      /\ Tail(frames) \in Seq(Clean)
    OBVIOUS
  <2>1. frames # <<>>
    BY <1>3 DEF FramesNest, InWalk
  <2>2. Len(frames) \in Nat \ {0}
    BY <1>3, <2>1, EmptySeq
  <2>3. 1 \in DOMAIN frames
    BY <1>3, <2>2, LenProperties
  <2> QED BY <1>3, <2>1, <2>3, HeadTailProperties
<1>6. CASE \/ UNCHANGED payload \/ BudgetExpires \/ LoseObjects \/ Edit
           \/ NotADirectory \/ ReadUnit \/ AnalyzeManifest \/ SkipEntry
           \/ ReportGap \/ StartAnalysis
  <2>1. /\ UNCHANGED <<frames, found>> /\ todo' \subseteq todo \cup Entries
        /\ phase' \in {"open", "read"} =>
              phase = phase' /\ reading'.path = reading.path
    BY <1>4, <1>6
       DEF payload, world, inventoried, outcome, BudgetExpires, LoseObjects,
           Edit, NotADirectory, ReadUnit, AnalyzeManifest, SkipEntry,
           ReportGap, StartAnalysis, Analyzing, ReadFields
  <2> QED BY <1>1, <2>1, GitIsLeft DEF Entries, GitStaysOut
<1>7. CASE OpenDirectory
  <2> DEFINE d == frames[1].dir
             f == [frames[1] EXCEPT !.listed = TRUE, !.rest = Under(d)]
  <2>1. /\ phase = "walk" /\ UNCHANGED <<found, reading, todo>>
        /\ \/ frames' = [frames EXCEPT ![1].listed = TRUE,
                                       ![1].rest = Under(d)]
              /\ phase' = phase
           \/ Return
    BY <1>7 DEF OpenDirectory, Walking, outcome
  <2>2. /\ d \in Path \cup {Top} /\ ~OfGit(d) /\ InTree(d)
    BY <1>3, <1>5, <2>1 DEF FramesNest, WalkFrame
  <2>3. ASSUME NEW y \in Under(d) PROVE y \in Path /\ ~OfGit(y)
    <3>1. y \in Path /\ Parent[y] = d /\ Spelled[y] # "git"
      BY DEF Under
    <3>2. Above[y] = {y} \cup Above[d]
      BY <3>1, AboveIs
    <3> QED BY <2>2, <3>1, <3>2 DEF OfGit
  <2> HIDE DEF d
  <2>4. f \in Clean
    <3>1. f \in WalkFrame /\ f.dir = frames[1].dir /\ f.rest = Under(d)
      BY <1>3, <1>5, <2>1 DEF WalkFrame, Under
    <3> HIDE DEF f
    <3> QED BY <2>2, <2>3, <3>1 DEF Clean, d
  <2>5. [frames EXCEPT ![1].listed = TRUE, ![1].rest = Under(d)]
           = [frames EXCEPT ![1] = f]
    BY <1>5, <2>1
  <2> HIDE DEF f
  <2>6. [frames EXCEPT ![1] = f] \in Seq(Clean)
    BY <1>3, <1>5, <2>1, <2>4
  <2>7. frames' \in Seq(Clean) /\ phase' \notin {"open", "read"}
    BY <1>5, <2>1, <2>5, <2>6 DEF Return
  <2> QED BY <1>1, <2>1, <2>7, GitIsLeft
<1>8. CASE ReturnFromDirectory
  <2>1. /\ phase = "walk" /\ UNCHANGED <<found, reading, todo>> /\ Return
    BY <1>8 DEF ReturnFromDirectory, Walking, outcome
  <2>2. frames' \in Seq(Clean) /\ phase' \notin {"open", "read"}
    BY <1>5, <2>1 DEF Return
  <2> QED BY <1>1, <2>1, <2>2, GitIsLeft
<1>9. CASE SkipChild \/ VisitDirectory \/ VisitLinkOrSpecial \/ VisitFile
  <2>1. PICK x \in Path :
          /\ Visiting(x) /\ UNCHANGED todo
          /\ \/ Walked(x) /\ UNCHANGED <<phase, reading>>
             \/ /\ frames' = << Unlisted(x),
                                [frames[1] EXCEPT !.rest = @ \ {x}] >>
                                  \o Tail(frames)
                /\ UNCHANGED <<phase, reading>>
             \/ Return /\ UNCHANGED reading
             \/ Walked(x) /\ phase' = "open" /\ reading'.path = x
          /\ found' = found \/ \E r : found' = [found EXCEPT ![x] = r]
    <3>1. CASE SkipChild
      BY <3>1 DEF SkipChild, outcome
    <3>2. CASE VisitDirectory
      BY <3>2 DEF VisitDirectory, outcome
    <3>3. CASE VisitLinkOrSpecial
      BY <3>3 DEF VisitLinkOrSpecial, outcome
    <3>4. CASE VisitFile
      BY <3>4 DEF VisitFile, outcome, NotOpen
    <3> QED BY <1>9, <3>1, <3>2, <3>3, <3>4
  <2>2. phase = "walk" /\ x \in frames[1].rest
    BY <2>1 DEF Visiting, Walking, First
  <2>3. ~OfGit(x)
    BY <1>3, <1>5, <2>2
  <2> DEFINE f == [frames[1] EXCEPT !.rest = @ \ {x}]
  <2>4. f \in Clean
    BY <1>3, <1>5, <2>2 DEF Clean, WalkFrame
  <2>5. Walked(x) => frames' = [frames EXCEPT ![1] = f]
    BY <1>5, <2>2 DEF Walked
  <2>6. Unlisted(x) \in Clean
    BY <2>3 DEF Unlisted, Clean, WalkFrame
  <2> HIDE DEF f
  <2>7. Walked(x) => frames' \in Seq(Clean)
    BY <1>3, <1>5, <2>2, <2>4, <2>5
  <2>8. <<Unlisted(x), f>> \o Tail(frames) \in Seq(Clean)
    <3>1. Tail(frames) \in Seq(Clean)
      BY <1>5, <2>2
    <3>2. Len(Tail(frames)) \in Nat
      BY <3>1, LenProperties
    <3>3. PICK n \in Nat : n = Len(Tail(frames))
      BY <3>2
    <3>4. PICK t \in Seq(Clean) : t = Tail(frames)
      BY <3>1
    <3>5. PICK g : g = Unlisted(x)
      OBVIOUS
    <3> QED BY <2>4, <2>6, <3>3, <3>4, <3>5, TwoBefore
  <2>9. frames' \in Seq(Clean)
    BY <1>5, <2>1, <2>2, <2>7, <2>8 DEF Return, f
  <2>10. phase' \in {"open", "read"} => reading'.path = x
    BY <2>1, <2>2 DEF Return
  <2>11. \A z \in Path : OfGit(z) => found'[z] = found[z]
    BY <1>4, <2>1, <2>3
  <2> QED BY <1>1, <2>1, <2>3, <2>9, <2>10, <2>11, GitIsLeft
<1>10. CASE SampleFile \/ OpenFile \/ FinishFile
  <2>1. /\ phase \in {"open", "read"} /\ UNCHANGED <<frames, todo>>
        /\ \/ phase' = "read" /\ reading'.path = reading.path
              /\ UNCHANGED found
           \/ /\ phase' = "walk"
              /\ \E r : found' = [found EXCEPT ![reading.path] = r]
    BY <1>4, <1>10 DEF SampleFile, OpenFile, FinishFile, Enter, outcome,
                       ReadFields
  <2>2. ~OfGit(reading.path)
    BY <2>1 DEF GitStaysOut
  <2>3. \A z \in Path : OfGit(z) => found'[z] = found[z]
    BY <1>4, <2>1, <2>2
  <2> QED BY <1>1, <2>1, <2>2, <2>3, GitIsLeft
<1>11. CASE AnalyzeSource
  <2>1. PICK x \in Path :
           /\ Analyzing(x) /\ UNCHANGED <<phase, frames>>
           /\ \E r : found' = [found EXCEPT ![x] = r]
    BY <1>11 DEF AnalyzeSource
  <2>2. x \in todo /\ todo' \subseteq todo
        /\ phase' \notin {"open", "read"}
    BY <2>1 DEF Analyzing, First
  <2>3. \A z \in Path : OfGit(z) => found'[z] = found[z]
    BY <1>4, <2>1, <2>2 DEF GitStaysOut
  <2> QED BY <1>1, <2>1, <2>2, <2>3, GitIsLeft
<1>12. CASE ResolveEdge
  <2>1. /\ UNCHANGED <<phase, frames, todo>> /\ phase = "analyze"
        /\ \/ UNCHANGED found
           \/ \E y \in Entries : \E r : found' = [found EXCEPT ![y] = r]
    BY <1>12 DEF ResolveEdge
  <2>2. \A z \in Path : found[z] = Void => found'[z] = found[z]
    BY <1>4, <2>1 DEF Entries
  <2> QED BY <1>1, <2>1, <2>2, GitIsLeft
<1>13. CASE EndAnalysis
  <2>1. /\ UNCHANGED frames /\ todo' = {} /\ phase' = "reported"
        /\ found' = [x \in Path |->
              IF x \in Entries /\ found[x].kind = "Native"
              THEN [found[x] EXCEPT !.state = "Unsupported"] ELSE found[x]]
    BY <1>13 DEF EndAnalysis
  <2>2. \A z \in Path : found[z] = Void => found'[z] = found[z]
    BY <2>1 DEF Entries
  <2> QED BY <1>1, <2>1, <2>2, GitIsLeft
<1>14. CASE ListTree \/ GitFails \/ GitEnds \/ GitOther \/ GitBlob
  BY <1>14 DEF ListTree, GitFails, GitEnds, GitOther, GitBlob, NextRecord,
               ReadingTree
<1> QED BY <1>6, <1>7, <1>8, <1>9, <1>10, <1>11, <1>12, <1>13, <1>14
        DEF AnalysisNext

LEMMA GitStays == AnalysisSpec => []GitStaysOut
<1>1. AnalysisInit => GitStaysOut
  <2> SUFFICES ASSUME AnalysisInit PROVE GitStaysOut
    OBVIOUS
  <2>1. /\ base \in Path \cup {Top} /\ phase = "walk" /\ todo = {}
        /\ frames = <<Unlisted(base)>> /\ found = NothingFound
    BY PathsAreNested DEF AnalysisInit, NothingAnalyzed
  <2>2. ~OfGit(base)
    BY <2>1, AboveOneWay DEF OfGit, InBase
  <2>3. PICK g : g = Unlisted(base)
    OBVIOUS
  <2>4. g \in Clean
    BY <2>1, <2>2, <2>3 DEF Unlisted, Clean, WalkFrame
  <2>5. frames \in Seq(Clean)
    BY <2>1, <2>3, <2>4
  <2> QED BY <2>1, <2>5 DEF GitStaysOut, NothingFound
<1>2. AnalysisInv /\ DisclosureInv /\ GitStaysOut /\ [AnalysisNext]_payload
         => GitStaysOut'
  BY GitIsPassedOver
<1> QED BY <1>1, <1>2, AnalysisHolds, DisclosureHolds, PTL DEF AnalysisSpec

\* Of every file of the analyzed root that nobody touched, the report of
\* analyze and scan-plugin tells what it contains, or carries a limitation or
\* a gap that explains the loss, whatever the tree, its depth and size, the
\* limits, what is edited meanwhile and where the time runs out; but of what
\* is named .git in a directory, and all below it, it has no entry at all.
THEOREM AnalysisDisclosesLoss == AnalysisSpec => []LossIsDisclosed
<1>1. DisclosureInv /\ GitStaysOut => LossIsDisclosed
  <2>0. SUFFICES ASSUME DisclosureInv, GitStaysOut, phase = "reported",
                        NEW x \in Path, ~OfGit(x),
                        InBase(x), Is(x, "file"), Untouched(x), ~Explained(x)
                 PROVE  Told(x)
    BY DEF LossIsDisclosed, GitStaysOut, OfGit
  <2>1. Owed(x)
    BY <2>0 DEF Owed
  <2>2. Accounted(x)
    BY <2>0, <2>1 DEF DisclosureInv
  <2>3. Recorded(x) /\ JudgedInFull(x) /\ BinaryIsNamed(x)
    BY <2>0, <2>2 DEF Accounted, InWalk
  <2> QED BY <2>3, JudgedIsTold
<1> QED BY <1>1, DisclosureHolds, GitStays, PTL

(***************************************************************************)
(* Types.  The count of the files seen is bounded because the walk comes   *)
(* to no path twice: what one frame waits for no other does (ApartInv),    *)
(* and whatever was seen, no frame waits for any more.                     *)
(***************************************************************************)
\* Of two directories above a path, one lies above the other.
LEMMA AboveCompares ==
  ASSUME NEW x \in Path \cup {Top}, NEW a \in Above[x], NEW b \in Above[x]
  PROVE  a \in Above[b] \/ b \in Above[a]
<1> DEFINE c == {z \in Above[x] : z \in Above[a] \/ a \in Above[z]}
<1>1. Above[x] \subseteq Path \cup {Top} /\ x \in c
  BY AboveHas
<1>2. ASSUME NEW z \in c \cap Path PROVE Parent[z] \in c
  <2>1. Parent[z] \in Above[x] /\ z \in Path
    BY <1>1, AboveHas
  <2>2. CASE z \in Above[a]
    <3>1. Parent[z] \in Above[a]
      BY <1>1, <2>1, <2>2, AboveHas
    <3> QED BY <2>1, <3>1
  <2>3. CASE a \in Above[z] /\ a # z
    <3>1. Above[z] = {z} \cup Above[Parent[z]]
      BY <2>1, AboveIs
    <3> QED BY <2>1, <2>3, <3>1
  <2>4. CASE a = z
    <3>1. Parent[z] \in Above[a]
      BY <2>1, <2>4, AboveHas
    <3> QED BY <2>1, <3>1
  <2> QED BY <2>2, <2>3, <2>4
<1>3. c \in Upward
  BY <1>1, <1>2 DEF Upward
<1>4. Above[x] \subseteq c
  BY <1>1, <1>3 DEF Above
<1> QED BY <1>4

\* The entries of a directory have nothing below them in common.
LEMMA SiblingsApart ==
  ASSUME NEW x \in Path, NEW a \in Above[x] \cap Path,
         NEW b \in Above[x] \cap Path, Parent[a] = Parent[b]
  PROVE  a = b
<1>1. ASSUME NEW y \in Path, NEW z \in Path, Parent[y] = Parent[z],
             y \in Above[z]
      PROVE  y = z
  BY <1>1, AboveIs
<1> QED BY <1>1, AboveCompares

GitIsFlat == front = "git" =>
    Len(frames) <= 1 /\ \A i \in DOMAIN frames : frames[i].dir = base
ApartInv ==
    \A i, j \in DOMAIN frames, x \in Path :
        Awaits(frames[i], x) /\ Awaits(frames[j], x) => i = j
Passed == {x \in Path : ~AwaitedIn(x)}
CountInv ==
    GitIsFlat /\ ApartInv /\ seen \in Nat /\ seen <= Cardinality(Passed)

\* No frame waits for more than before; and of a file that is seen, none any
\* more.
LEMMA CountKeeps ==
  ASSUME CountInv, GitIsFlat', ApartInv', seen' = seen,
         \A x \in Path : AwaitedIn(x)' => AwaitedIn(x)
  PROVE  CountInv'
<1>1. PICK P : P = Passed
  OBVIOUS
<1>2. PICK Q : Q = Passed'
  OBVIOUS
<1>3. P \subseteq Q /\ Q \subseteq Path
  BY <1>1, <1>2 DEF Passed
<1>4. IsFiniteSet(Q)
  BY <1>3, PathsAreNested, FS_Subset
<1>5. Cardinality(P) <= Cardinality(Q) /\ Cardinality(P) \in Nat
      /\ Cardinality(Q) \in Nat
  BY <1>3, <1>4, FS_Subset, FS_CardinalityType
<1>6. seen \in Nat /\ seen <= Cardinality(P)
  BY <1>1 DEF CountInv
<1>7. seen' \in Nat /\ seen' <= Cardinality(Q)
  BY <1>5, <1>6
<1> QED BY <1>2, <1>7 DEF CountInv

LEMMA CountGrows ==
  ASSUME CountInv, GitIsFlat', ApartInv', seen' = seen + 1,
         \A x \in Path : AwaitedIn(x)' => AwaitedIn(x),
         NEW y \in Path, AwaitedIn(y), ~AwaitedIn(y)'
  PROVE  CountInv'
<1>1. PICK P : P = Passed
  OBVIOUS
<1>2. PICK Q : Q = Passed'
  OBVIOUS
<1>3. P \cup {y} \subseteq Q /\ Q \subseteq Path /\ y \notin P
  BY <1>1, <1>2 DEF Passed
<1>4. IsFiniteSet(Q) /\ IsFiniteSet(P)
  BY <1>3, PathsAreNested, FS_Subset
<1>5. /\ Cardinality(P \cup {y}) = Cardinality(P) + 1
      /\ Cardinality(P) \in Nat
  BY <1>3, <1>4, FS_AddElement, FS_CardinalityType
<1>6. Cardinality(P \cup {y}) <= Cardinality(Q) /\ Cardinality(Q) \in Nat
  BY <1>3, <1>4, FS_Subset, FS_CardinalityType
<1>7. seen \in Nat /\ seen <= Cardinality(P)
  BY <1>1 DEF CountInv
<1>8. seen' \in Nat /\ seen' <= Cardinality(Q)
  BY <1>5, <1>6, <1>7
<1> QED BY <1>2, <1>8 DEF CountInv

\* The frames.
LEMMA FramesAre ==
  ASSUME FramesNest, frames # <<>>
  PROVE  /\ frames \in Seq(WalkFrame) /\ Len(frames) \in Nat \ {0}
         /\ DOMAIN frames = 1..Len(frames) /\ 1 \in DOMAIN frames
         /\ frames[1] \in WalkFrame
         /\ \A i \in DOMAIN frames : frames[i] \in WalkFrame
<1>1. frames \in Seq(WalkFrame) /\ frames # <<>>
  BY DEF FramesNest
<1>2. Len(frames) \in Nat \ {0}
  BY <1>1, EmptySeq
<1> QED BY <1>1, <1>2, LenProperties

\* The innermost directory ends.
LEMMA DropIsApart ==
  ASSUME FramesNest, frames # <<>>, GitIsFlat, ApartInv,
         frames' = Tail(frames), UNCHANGED <<front, base>>
  PROVE  /\ GitIsFlat' /\ ApartInv'
         /\ \A x \in Path : AwaitedIn(x)' =>
               AwaitedIn(x) /\ ~Awaits(frames[1], x)
<1>1. /\ frames \in Seq(WalkFrame) /\ Len(frames) \in Nat \ {0}
      /\ DOMAIN frames = 1..Len(frames) /\ 1 \in DOMAIN frames
  BY FramesAre
<1>2. /\ DOMAIN frames' = 1..(Len(frames) - 1)
      /\ Len(frames') = Len(frames) - 1
      /\ \A i \in DOMAIN frames' : frames'[i] = frames[i + 1]
  BY <1>1, HeadTailProperties
<1>3. \A i \in DOMAIN frames' : i + 1 \in DOMAIN frames /\ i + 1 # 1
  BY <1>1, <1>2
<1>4. \A i \in DOMAIN frames', x \in Path :
         Awaits(frames[i], x)' => Awaits(frames[i + 1], x)
  BY <1>2 DEF Awaits
<1>5. GitIsFlat'
  BY <1>1, <1>2, <1>3 DEF GitIsFlat
<1>6. ApartInv'
  <2> SUFFICES ASSUME NEW i \in DOMAIN frames', NEW j \in DOMAIN frames',
                      NEW x \in Path,
                      Awaits(frames[i], x)', Awaits(frames[j], x)'
               PROVE  i = j
    BY DEF ApartInv
  <2>1. i + 1 = j + 1
    BY <1>3, <1>4 DEF ApartInv
  <2> QED BY <1>2, <2>1
<1>7. ASSUME NEW x \in Path, AwaitedIn(x)'
      PROVE  AwaitedIn(x) /\ ~Awaits(frames[1], x)
  <2>1. PICK i \in DOMAIN frames' : Awaits(frames[i], x)'
    BY <1>7 DEF AwaitedIn
  <2>2. i + 1 \in DOMAIN frames /\ i + 1 # 1 /\ Awaits(frames[i + 1], x)
    BY <1>3, <1>4, <2>1
  <2> QED BY <1>1, <2>2 DEF ApartInv, AwaitedIn
<1> QED BY <1>5, <1>6, <1>7

\* The innermost directory is opened, or one of its entries was visited.
LEMMA FirstIsApart ==
  ASSUME FramesNest, frames # <<>>, GitIsFlat, ApartInv,
         NEW f \in WalkFrame, f.dir = frames[1].dir,
         frames' = [frames EXCEPT ![1] = f], UNCHANGED <<front, base>>,
         \A x \in Path : Awaits(f, x) => Awaits(frames[1], x)
  PROVE  /\ GitIsFlat' /\ ApartInv'
         /\ \A x \in Path : AwaitedIn(x)' =>
               AwaitedIn(x) /\ (Awaits(frames[1], x) => Awaits(f, x))
<1>1. /\ frames \in Seq(WalkFrame) /\ Len(frames) \in Nat \ {0}
      /\ DOMAIN frames = 1..Len(frames) /\ 1 \in DOMAIN frames
  BY FramesAre
<1>2. /\ DOMAIN frames' = DOMAIN frames /\ Len(frames') = Len(frames)
      /\ \A i \in DOMAIN frames : frames'[i] = IF i = 1 THEN f ELSE frames[i]
  BY <1>1, ExceptSeq
<1>3. \A i \in DOMAIN frames, x \in Path :
         Awaits(frames[i], x)' <=> IF i = 1 THEN Awaits(f, x)
                                   ELSE Awaits(frames[i], x)
  BY <1>2 DEF Awaits
<1>4. \A i \in DOMAIN frames, x \in Path :
         Awaits(frames[i], x)' => Awaits(frames[i], x)
  BY <1>3
<1>5. GitIsFlat'
  BY <1>2 DEF GitIsFlat
<1>6. ApartInv'
  BY <1>2, <1>4 DEF ApartInv
<1>7. ASSUME NEW x \in Path, AwaitedIn(x)'
      PROVE  AwaitedIn(x) /\ (Awaits(frames[1], x) => Awaits(f, x))
  <2>1. PICK i \in DOMAIN frames : Awaits(frames[i], x)'
    BY <1>2, <1>7 DEF AwaitedIn
  <2>2. Awaits(frames[i], x)
    BY <1>4, <2>1
  <2>3. Awaits(frames[1], x) => i = 1
    BY <1>1, <2>2 DEF ApartInv
  <2> QED BY <1>3, <2>1, <2>2, <2>3 DEF AwaitedIn
<1> QED BY <1>5, <1>6, <1>7

\* A directory is entered: what it holds is below one entry of the frame.
LEMMA PushIsApart ==
  ASSUME FramesNest, frames # <<>>, front = "filesystem", GitIsFlat, ApartInv,
         frames[1].listed = TRUE, NEW y \in frames[1].rest,
         NEW f \in WalkFrame, f.dir = frames[1].dir,
         f.rest = frames[1].rest \ {y}, f.listed = TRUE,
         frames' = <<Unlisted(y), f>> \o Tail(frames),
         UNCHANGED <<front, base>>
  PROVE  /\ GitIsFlat' /\ ApartInv'
         /\ \A x \in Path : AwaitedIn(x)' => AwaitedIn(x)
<1>1. /\ frames \in Seq(WalkFrame) /\ Len(frames) \in Nat \ {0}
      /\ DOMAIN frames = 1..Len(frames) /\ 1 \in DOMAIN frames
  BY FramesAre
<1>2. /\ y \in Path /\ \A z \in frames[1].rest : Parent[z] = Parent[y]
      /\ frames[1].rest \subseteq Path
  BY <1>1, EntryOfFrame
<1> DEFINE u == Unlisted(y)
<1>3. /\ u \in WalkFrame /\ u.dir = y /\ u.listed = FALSE
  BY <1>2 DEF Unlisted, WalkFrame
<1>a. Len(frames) - 1 \in Nat
  BY <1>1
<1>4. PICK n \in Nat : n = Len(frames) - 1
  BY <1>a
<1>5. /\ Tail(frames) \in Seq(WalkFrame) /\ Len(Tail(frames)) = n
      /\ \A i \in 1..n : Tail(frames)[i] = frames[i + 1]
  BY <1>1, <1>4, HeadTailProperties
<1> HIDE DEF u
<1>6. /\ frames' \in Seq(WalkFrame) /\ Len(frames') = n + 2
      /\ frames'[1] = u /\ frames'[2] = f
      /\ \A i \in 1..n : frames'[i + 2] = Tail(frames)[i]
  BY <1>3, <1>5, TwoBefore DEF u
<1>7. DOMAIN frames' = 1..(n + 2)
  BY <1>6
<1>8. \A i \in DOMAIN frames' : i \in Nat /\
         \/ i = 1
         \/ i = 2
         \/ i - 1 \in DOMAIN frames /\ i - 1 > 1 /\ frames'[i] = frames[i - 1]
  <2> TAKE i \in DOMAIN frames'
  <2>1. i \in Nat /\ i >= 1 /\ i <= n + 2
    BY <1>7
  <2>2. CASE i > 2
    <3>1. PICK k \in 1..n : k = i - 2
      BY <2>1, <2>2
    <3>2. frames'[k + 2] = frames[k + 1]
      BY <1>5, <1>6, <3>1
    <3>3. k + 2 = i /\ k + 1 = i - 1
      BY <2>1, <3>1
    <3> QED BY <1>1, <1>4, <2>1, <2>2, <3>2, <3>3
  <2>3. CASE ~(i > 2)
    BY <2>1, <2>3
  <2> QED BY <2>2, <2>3
<1>9. ASSUME NEW x \in Path
      PROVE  /\ Awaits(u, x) => y \in Above[x] \ {x} /\ Awaits(frames[1], x)
             /\ Awaits(f, x) => y \notin Above[x] /\ Awaits(frames[1], x)
  <2>1. Awaits(u, x) <=> y \in Above[x] \ {x}
    BY <1>3 DEF Awaits
  <2>2. Awaits(f, x) <=> (frames[1].rest \ {y}) \cap Above[x] # {}
    BY DEF Awaits
  <2>3. Awaits(frames[1], x) <=> frames[1].rest \cap Above[x] # {}
    BY DEF Awaits
  <2>4. ASSUME NEW r \in (frames[1].rest \ {y}) \cap Above[x],
               y \in Above[x]
        PROVE  FALSE
    BY <1>2, <2>4, SiblingsApart
  <2> QED BY <2>1, <2>2, <2>3, <2>4
<1> DEFINE Old(i) == IF i <= 2 THEN 1 ELSE i - 1
<1>10. ASSUME NEW i \in DOMAIN frames', NEW x \in Path, Awaits(frames[i], x)'
       PROVE  /\ Old(i) \in DOMAIN frames /\ Awaits(frames[Old(i)], x)
              /\ i = 1 => y \in Above[x]
              /\ i = 2 => y \notin Above[x]
  <2>1. CASE i = 1
    <3>1. Awaits(u, x)
      BY <1>6, <1>10, <2>1 DEF Awaits
    <3> QED BY <1>1, <1>9, <2>1, <3>1
  <2>2. CASE i = 2
    <3>1. Awaits(f, x)
      BY <1>6, <1>10, <2>2 DEF Awaits
    <3> QED BY <1>1, <1>9, <2>2, <3>1
  <2>3. CASE i # 1 /\ i # 2
    <3>1. /\ i \in Nat /\ i - 1 \in DOMAIN frames /\ i - 1 > 1
          /\ frames'[i] = frames[i - 1]
      BY <1>8, <2>3
    <3>2. Old(i) = i - 1
      BY <3>1
    <3>3. Awaits(frames[i - 1], x)
      BY <1>10, <3>1 DEF Awaits
    <3> QED BY <2>3, <3>1, <3>2, <3>3
  <2> QED BY <2>1, <2>2, <2>3
<1>11. GitIsFlat'
  BY DEF GitIsFlat
<1>12. ApartInv'
  <2> SUFFICES ASSUME NEW i \in DOMAIN frames', NEW j \in DOMAIN frames',
                      NEW x \in Path,
                      Awaits(frames[i], x)', Awaits(frames[j], x)'
               PROVE  i = j
    BY DEF ApartInv
  <2>1. Old(i) = Old(j) /\ ~(i = 1 /\ j = 2) /\ ~(i = 2 /\ j = 1)
    BY <1>10 DEF ApartInv
  <2>2. i \in Nat /\ j \in Nat /\ i >= 1 /\ j >= 1
    BY <1>7
  <2> QED BY <2>1, <2>2
<1>13. ASSUME NEW x \in Path, AwaitedIn(x)' PROVE AwaitedIn(x)
  <2>1. PICK i \in DOMAIN frames' : Awaits(frames[i], x)'
    BY <1>13 DEF AwaitedIn
  <2>2. Old(i) \in DOMAIN frames /\ Awaits(frames[Old(i)], x)
    BY <1>10, <2>1
  <2> HIDE DEF Old
  <2> QED BY <2>2 DEF AwaitedIn
<1> QED BY <1>11, <1>12, <1>13

\* What a frame waits for once it is listed, or once an entry was visited.
LEMMA ListingNarrows ==
  ASSUME FramesNest, frames # <<>>, front = "filesystem",
         NEW f \in WalkFrame, f.listed = TRUE, ~frames[1].listed,
         \A y \in f.rest : Parent[y] = frames[1].dir
  PROVE  \A x \in Path : Awaits(f, x) => Awaits(frames[1], x)
<1> SUFFICES ASSUME NEW x \in Path, NEW r \in f.rest \cap Above[x]
             PROVE  frames[1].dir \in Above[x] \ {x}
  BY DEF Awaits
<1>1. r \in Path
  BY DEF WalkFrame
<1>2. Parent[r] \in Above[x] /\ Above[r] \subseteq Above[x]
  BY <1>1, AboveHas
<1>3. Parent[r] # x
  BY <1>1, AboveIs
<1> QED BY <1>2, <1>3

LEMMA VisitingNarrows ==
  ASSUME FramesNest, frames # <<>>, frames[1].listed = TRUE,
         NEW y \in frames[1].rest, NEW f \in WalkFrame, f.listed = TRUE,
         f.rest = frames[1].rest \ {y}
  PROVE  /\ y \in Path /\ Awaits(frames[1], y) /\ ~Awaits(f, y)
         /\ \A x \in Path : Awaits(f, x) => Awaits(frames[1], x)
<1>1. frames[1] \in WalkFrame /\ 1 \in DOMAIN frames
  BY FramesAre
<1>2. y \in Path /\ y \in Above[y]
  BY <1>1, AboveHas DEF WalkFrame
<1>3. ASSUME front # "git" PROVE f.rest \cap Above[y] = {}
  <2>1. \A r \in frames[1].rest : r \in Path /\ Parent[r] = Parent[y]
    BY <1>1, <1>3, EntryOfFrame DEF FramesNest
  <2>2. \A r \in f.rest \cap Above[y] : r = y
    BY <1>2, <2>1, SiblingsApart
  <2> QED BY <2>2
<1> QED BY <1>2, <1>3 DEF Awaits

\* Steps of the count: nothing moves, a directory is done with, an entry of
\* it is dealt with.
LEMMA CountStands ==
  ASSUME CountInv, UNCHANGED <<front, base, frames, seen>>
  PROVE  CountInv'
<1>1. \A f, x : Awaits(f, x)' <=> Awaits(f, x)
  BY DEF Awaits
<1>2. GitIsFlat' /\ ApartInv'
  BY <1>1 DEF CountInv, GitIsFlat, ApartInv, Awaits
<1>3. \A x : AwaitedIn(x)' <=> AwaitedIn(x)
  BY DEF AwaitedIn, Awaits
<1> QED BY <1>2, <1>3, CountKeeps

LEMMA ReturnCounts ==
  ASSUME FramesNest, phase = "walk", CountInv, Return,
         UNCHANGED <<front, base>>,
         \/ seen' = seen
         \/ seen' = seen + 1 /\ \E y \in Path : Awaits(frames[1], y)
  PROVE  CountInv'
<1>1. frames # <<>> /\ frames' = Tail(frames)
  BY DEF FramesNest, InWalk, Return
<1>2. /\ GitIsFlat' /\ ApartInv'
      /\ \A x \in Path : AwaitedIn(x)' =>
            AwaitedIn(x) /\ ~Awaits(frames[1], x)
  BY <1>1, DropIsApart DEF CountInv
<1>3. CASE seen' = seen
  BY <1>2, <1>3, CountKeeps
<1>4. CASE seen' # seen
  <2>1. PICK y \in Path : Awaits(frames[1], y)
    BY <1>4
  <2>2. AwaitedIn(y) /\ ~AwaitedIn(y)'
    BY <1>1, <1>2, <2>1, FramesAre DEF AwaitedIn
  <2> QED BY <1>2, <1>4, <2>2, CountGrows
<1> QED BY <1>3, <1>4

LEMMA WalkedCounts ==
  ASSUME FramesNest, phase = "walk", CountInv, frames[1].listed,
         NEW y \in frames[1].rest, Walked(y), UNCHANGED <<front, base>>,
         seen' = seen \/ seen' = seen + 1
  PROVE  CountInv'
<1> DEFINE rest == frames[1].rest \ {y}
           f == [frames[1] EXCEPT !.rest = rest]
<1>1. frames # <<>>
  BY DEF FramesNest, InWalk
<1>2. frames \in Seq(WalkFrame) /\ 1 \in DOMAIN frames
      /\ frames[1] \in WalkFrame
  BY <1>1, FramesAre
<1>3. frames' = [frames EXCEPT ![1] = f]
  BY <1>2 DEF Walked, WalkFrame
<1>4. rest \in SUBSET Path /\ frames[1].listed = TRUE
  BY <1>2 DEF WalkFrame
<1>a. rest = frames[1].rest \ {y}
  OBVIOUS
<1> HIDE DEF rest
<1>5. /\ f \in WalkFrame /\ f.dir = frames[1].dir /\ f.listed = TRUE
      /\ f.rest = rest
  BY <1>2, <1>4 DEF WalkFrame
<1> HIDE DEF f
<1>6. /\ y \in Path /\ Awaits(frames[1], y) /\ ~Awaits(f, y)
      /\ \A x \in Path : Awaits(f, x) => Awaits(frames[1], x)
  BY <1>1, <1>4, <1>5, <1>a, VisitingNarrows
<1>7. /\ GitIsFlat' /\ ApartInv'
      /\ \A x \in Path : AwaitedIn(x)' =>
            AwaitedIn(x) /\ (Awaits(frames[1], x) => Awaits(f, x))
  BY <1>1, <1>3, <1>5, <1>6, FirstIsApart DEF CountInv
<1>8. AwaitedIn(y) /\ ~AwaitedIn(y)'
  BY <1>2, <1>6, <1>7 DEF AwaitedIn
<1>9. \A x \in Path : AwaitedIn(x)' => AwaitedIn(x)
  BY <1>7
<1>10. CASE seen' = seen
  BY <1>7, <1>9, <1>10, CountKeeps
<1>11. CASE seen' = seen + 1
  BY <1>6, <1>7, <1>8, <1>9, <1>11, CountGrows
<1> QED BY <1>10, <1>11

\* The innermost directory is listed.
LEMMA ListedCounts ==
  ASSUME FramesNest, phase = "walk", CountInv, ~frames[1].listed,
         NEW children \in SUBSET Path,
         frames' = [frames EXCEPT ![1].listed = TRUE, ![1].rest = children],
         UNCHANGED <<front, base, seen>>,
         \/ front = "filesystem" /\ children = Under(frames[1].dir)
         \/ front = "git" /\ children = Records
  PROVE  CountInv'
<1> DEFINE f == [frames[1] EXCEPT !.listed = TRUE, !.rest = children]
<1>1. frames # <<>>
  BY DEF FramesNest, InWalk
<1>2. frames \in Seq(WalkFrame) /\ 1 \in DOMAIN frames
      /\ frames[1] \in WalkFrame
  BY <1>1, FramesAre
<1>3. frames' = [frames EXCEPT ![1] = f]
  BY <1>2
<1>4. /\ f \in WalkFrame /\ f.dir = frames[1].dir /\ f.listed = TRUE
      /\ f.rest = children
  BY <1>2 DEF WalkFrame
<1> HIDE DEF f
<1>5. \A x \in Path : Awaits(f, x) => Awaits(frames[1], x)
  <2>1. CASE front = "filesystem" /\ children = Under(frames[1].dir)
    <3>1. \A y \in f.rest : Parent[y] = frames[1].dir
      BY <1>4, <2>1 DEF Under
    <3> QED BY <1>1, <1>4, <2>1, <3>1, ListingNarrows
  <2>2. CASE front = "git" /\ children = Records
    <3>1. frames[1].dir = base
      BY <1>2, <2>2 DEF CountInv, GitIsFlat
    <3>2. \A x \in Records : base \in Above[x] \ {x}
      BY DEF Records, InBase
    <3> QED BY <1>4, <2>2, <3>1, <3>2 DEF Awaits
  <2> QED BY <2>1, <2>2
<1>6. /\ GitIsFlat' /\ ApartInv'
      /\ \A x \in Path : AwaitedIn(x)' => AwaitedIn(x)
  BY <1>1, <1>3, <1>4, <1>5, FirstIsApart DEF CountInv
<1> QED BY <1>6, CountKeeps

LEMMA AnalysisCounts ==
  ASSUME DisclosureInv, CountInv, [AnalysisNext]_payload
  PROVE  CountInv'
<1>1. FramesNest
  BY DEF DisclosureInv
<1>2. CASE \/ UNCHANGED payload
           \/ NotADirectory \/ SampleFile \/ OpenFile \/ ReadUnit \/ FinishFile
           \/ GitFails \/ StartAnalysis \/ AnalyzeManifest \/ SkipEntry
           \/ ReportGap \/ AnalyzeSource \/ ResolveEdge \/ EndAnalysis
           \/ BudgetExpires \/ Edit \/ LoseObjects
  <2>1. UNCHANGED <<front, base, frames, seen>>
    BY <1>2 DEF payload, world, inventoried, NotADirectory, SampleFile,
                OpenFile, ReadUnit, FinishFile, GitFails, StartAnalysis,
                AnalyzeManifest, SkipEntry, ReportGap, AnalyzeSource,
                ResolveEdge, EndAnalysis, BudgetExpires, Edit, LoseObjects
  <2> QED BY <2>1, CountStands
<1>3. CASE OpenDirectory
  <2>1. /\ phase = "walk" /\ front = "filesystem" /\ ~frames[1].listed
        /\ UNCHANGED <<front, base, seen>>
    BY <1>3 DEF OpenDirectory, Walking, world
  <2>2. \/ frames' = [frames EXCEPT ![1].listed = TRUE,
                                    ![1].rest = Under(frames[1].dir)]
        \/ Return
    BY <1>3 DEF OpenDirectory
  <2>3. Under(frames[1].dir) \in SUBSET Path
    BY DEF Under
  <2> QED BY <1>1, <2>1, <2>2, <2>3, ListedCounts, ReturnCounts
<1>4. CASE ReturnFromDirectory \/ GitEnds
  BY <1>1, <1>4, ReturnCounts
     DEF ReturnFromDirectory, GitEnds, Walking, ReadingTree, world
<1>5. CASE SkipChild \/ VisitLinkOrSpecial \/ GitOther
  <2>1. PICK x \in Path : /\ phase = "walk" /\ frames[1].listed
                          /\ x \in frames[1].rest /\ Walked(x)
    BY <1>5 DEF SkipChild, VisitLinkOrSpecial, GitOther, Visiting, NextRecord,
                Walking, ReadingTree, First
  <2>2. UNCHANGED <<front, base, seen>>
    BY <1>5 DEF SkipChild, VisitLinkOrSpecial, GitOther, world
  <2> QED BY <1>1, <2>1, <2>2, WalkedCounts
<1>6. CASE VisitDirectory
  <2>1. PICK x \in Path :
           /\ Visiting(x)
           /\ frames' = << Unlisted(x), [frames[1] EXCEPT !.rest = @ \ {x}] >>
                           \o Tail(frames)
           /\ UNCHANGED <<world, seen>>
    BY <1>6 DEF VisitDirectory
  <2>2. /\ phase = "walk" /\ front = "filesystem" /\ frames[1].listed
        /\ x \in frames[1].rest /\ UNCHANGED <<front, base, seen>>
    BY <2>1 DEF Visiting, Walking, First, world
  <2>3. frames # <<>>
    BY <1>1, <2>2 DEF FramesNest, InWalk
  <2>4. frames[1] \in WalkFrame
    BY <1>1, <2>3, FramesAre
  <2>5. PICK f : f = [frames[1] EXCEPT !.rest = @ \ {x}]
    OBVIOUS
  <2>6. /\ f \in WalkFrame /\ f.dir = frames[1].dir /\ f.listed = TRUE
        /\ f.rest = frames[1].rest \ {x} /\ frames[1].listed = TRUE
    BY <2>2, <2>4, <2>5 DEF WalkFrame
  <2>7. frames' = <<Unlisted(x), f>> \o Tail(frames)
    BY <2>1, <2>5
  <2>8. /\ GitIsFlat' /\ ApartInv'
        /\ \A z \in Path : AwaitedIn(z)' => AwaitedIn(z)
    BY <1>1, <2>2, <2>3, <2>6, <2>7, PushIsApart DEF CountInv
  <2> QED BY <2>2, <2>8, CountKeeps
<1>7. CASE VisitFile \/ GitBlob
  <2>1. PICK x \in Path :
           /\ phase = "walk" /\ frames[1].listed /\ x \in frames[1].rest
           /\ seen' = seen + 1 /\ (Return \/ Walked(x))
    BY <1>7 DEF VisitFile, GitBlob, Visiting, NextRecord, Walking,
                ReadingTree, First
  <2>2. UNCHANGED <<front, base>>
    BY <1>7 DEF VisitFile, GitBlob, world
  <2>3. Awaits(frames[1], x)
    BY <2>1, AboveHas DEF Awaits
  <2> QED BY <1>1, <2>1, <2>2, <2>3, WalkedCounts, ReturnCounts
<1>8. CASE ListTree
  <2>1. /\ phase = "walk" /\ front = "git" /\ ~frames[1].listed
        /\ frames' = [frames EXCEPT ![1].listed = TRUE, ![1].rest = Records]
        /\ UNCHANGED <<front, base, seen>>
    BY <1>8 DEF ListTree, ReadingTree, world
  <2>2. Records \in SUBSET Path
    BY DEF Records
  <2> QED BY <1>1, <2>1, <2>2, ListedCounts
<1> QED BY <1>2, <1>3, <1>4, <1>5, <1>6, <1>7, <1>8 DEF AnalysisNext

\* What is seen of the files is a number of paths.
LEMMA CountStarts ==
  ASSUME AnalysisInit
  PROVE  CountInv
<1>1. base \in Path \cup {Top} /\ frames = <<Unlisted(base)>> /\ seen = 0
  BY PathsAreNested DEF AnalysisInit, NothingAnalyzed
<1>2. PICK g : g = Unlisted(base)
  OBVIOUS
<1>3. frames = <<g>> /\ g.dir = base
  BY <1>1, <1>2 DEF Unlisted
<1>4. Len(frames) = 1 /\ DOMAIN frames = {1} /\ frames[1] = g
  BY <1>3
<1>5. GitIsFlat /\ ApartInv
  BY <1>3, <1>4 DEF GitIsFlat, ApartInv
<1>6. Cardinality(Passed) \in Nat
  <2>1. Passed \subseteq Path
    BY DEF Passed
  <2> QED BY <2>1, PathsAreNested, FS_Subset, FS_CardinalityType
<1> QED BY <1>1, <1>5, <1>6 DEF CountInv

(***************************************************************************)
(* The rest of the type.                                                   *)
(***************************************************************************)
EntryStates == {"Unsupported", "Skipped", "Truncated", "Partial", "Analyzed",
                "Unreferenced"}

AnalysisShape ==
    /\ phase \in {"walk", "open", "read", "listed", "analyze", "reported",
                  "failed"}
    /\ edited \subseteq Path /\ reading.path \in Path \cup {Void}
    /\ (reading.path = Void) = (phase \notin {"open", "read"})
    /\ phase # "analyze" => todo = {}
    /\ todo \subseteq Entries
    /\ \A x \in Entries : found[x].state \in EntryStates

\* Steps that leave the inventory as it is.
LEMMA ShapeStands ==
  ASSUME AnalysisShape, UNCHANGED <<found, edited>>,
         reading'.path = reading.path,
         \/ phase' = phase
         \/ phase' \in {"walk", "listed", "failed"}
               /\ phase \in {"walk", "listed"}
         \/ phase = "open" /\ phase' = "read",
         todo' \subseteq todo
  PROVE  AnalysisShape'
<1>1. Entries' = Entries
  BY DEF Entries
<1> QED BY <1>1 DEF AnalysisShape

\* An entry is made.
LEMMA EntryHasShape ==
  ASSUME AnalysisTyped, AnalysisShape, NEW x \in Path, NEW r,
         r.state \in EntryStates, found' = [found EXCEPT ![x] = r],
         phase \in InWalk, phase' = "walk", reading'.path = Void,
         UNCHANGED <<edited, todo>>
  PROVE  AnalysisShape'
<1>1. \A y \in Path : found'[y] = IF y = x THEN r ELSE found[y]
  BY DEF AnalysisTyped
<1>2. todo' = {}
  BY DEF AnalysisShape, InWalk
<1>3. \A y \in Entries' : found'[y].state \in EntryStates
  BY <1>1 DEF AnalysisShape, Entries
<1> QED BY <1>2, <1>3 DEF AnalysisShape

LEMMA WalkHasShape ==
  ASSUME AnalysisTyped, AnalysisShape,
         \/ NotADirectory \/ OpenDirectory \/ ReturnFromDirectory \/ SkipChild
         \/ VisitDirectory \/ VisitLinkOrSpecial \/ VisitFile
  PROVE  AnalysisShape'
<1>1. phase = "walk" /\ UNCHANGED <<edited, todo>>
  BY DEF NotADirectory, OpenDirectory, ReturnFromDirectory, SkipChild,
         VisitDirectory, VisitLinkOrSpecial, VisitFile, Visiting, Walking,
         world, outcome
<1>2. reading.path = Void
  BY <1>1 DEF AnalysisShape
<1>3. CASE NotADirectory \/ OpenDirectory \/ ReturnFromDirectory \/ SkipChild
  <2>1. /\ UNCHANGED <<found, reading>>
        /\ phase' \in {"walk", "listed", "failed"}
    BY <1>1, <1>3 DEF NotADirectory, OpenDirectory, ReturnFromDirectory,
                      SkipChild, Return, inventoried
  <2> QED BY <1>1, <2>1, ShapeStands
<1>4. CASE VisitDirectory
  <2>1. PICK x \in Path : found' = [found EXCEPT ![x] =
           Entered("Directory", 0, FALSE, "Unsupported")]
    BY <1>4 DEF VisitDirectory
  <2>2. Entered("Directory", 0, FALSE, "Unsupported").state \in EntryStates
    BY DEF Entered, EntryStates
  <2>3. UNCHANGED <<phase, reading>>
    BY <1>4 DEF VisitDirectory
  <2> QED BY <1>1, <1>2, <2>1, <2>2, <2>3, EntryHasShape DEF InWalk
<1>5. CASE VisitLinkOrSpecial
  <2>1. PICK x \in Path : found' = [found EXCEPT ![x] =
           IF Is(x, "link")
           THEN Entered("Symlink", 0, FALSE, "Unsupported")
           ELSE Entered("Special", 0, FALSE, "Skipped")]
    BY <1>5 DEF VisitLinkOrSpecial
  <2>2. PICK r : r = IF Is(x, "link")
                     THEN Entered("Symlink", 0, FALSE, "Unsupported")
                     ELSE Entered("Special", 0, FALSE, "Skipped")
    OBVIOUS
  <2>3. r.state \in EntryStates
    BY <2>2 DEF Entered, EntryStates
  <2>4. UNCHANGED <<phase, reading>>
    BY <1>5 DEF VisitLinkOrSpecial
  <2> QED BY <1>1, <1>2, <2>1, <2>2, <2>3, <2>4, EntryHasShape DEF InWalk
<1>6. CASE VisitFile
  <2>1. PICK x \in Path :
           /\ found' = found
           /\ \/ Return /\ UNCHANGED reading
              \/ /\ reading' = [NotOpen EXCEPT !.path = x,
                                               !.size = Len(tree[x].body),
                                               !.exec = tree[x].exec]
                 /\ phase' = "open"
    BY <1>6 DEF VisitFile
  <2>2. CASE Return /\ UNCHANGED reading
    <3>1. phase' \in {"walk", "listed"}
      BY <1>1, <2>2 DEF Return
    <3> QED BY <1>1, <2>1, <2>2, <3>1, ShapeStands
  <2>3. CASE ~(Return /\ UNCHANGED reading)
    <3>1. reading'.path = x /\ phase' = "open"
      BY <2>1, <2>3 DEF NotOpen
    <3>2. x # Void
      BY VoidIsNothing
    <3>3. Entries' = Entries
      BY <2>1 DEF Entries
    <3> QED BY <1>1, <2>1, <3>1, <3>2, <3>3 DEF AnalysisShape
  <2> QED BY <2>2, <2>3
<1> QED BY <1>3, <1>4, <1>5, <1>6

LEMMA ReadingHasShape ==
  ASSUME AnalysisTyped, AnalysisShape,
         SampleFile \/ OpenFile \/ ReadUnit \/ FinishFile
  PROVE  AnalysisShape'
<1>1. phase \in {"open", "read"} /\ UNCHANGED <<edited, todo>>
  BY DEF SampleFile, OpenFile, ReadUnit, FinishFile, world, outcome
<1>2. reading.path \in Path /\ DOMAIN reading = ReadFields
  BY <1>1 DEF AnalysisShape, AnalysisTyped
<1>3. NotOpen.path = Void
  BY DEF NotOpen
<1>4. CASE SampleFile
  <2>1. PICK got, whole :
           /\ Enter(reading.path,
                [Content(reading.path, reading.size, reading.exec, got,
                         "Skipped") EXCEPT !.digest = whole])
           /\ phase' = "walk"
    BY <1>4 DEF SampleFile
  <2>2. PICK e : e = Content(reading.path, reading.size, reading.exec, got,
                             "Skipped")
    OBVIOUS
  <2>a. IsContent(e, reading.size, got, "Skipped")
    BY <2>2, ContentFields
  <2>3. e.state = "Skipped" /\ DOMAIN e = EntryFields
    BY <2>a DEF IsContent
  <2>4. PICK r : r = [e EXCEPT !.digest = whole]
    OBVIOUS
  <2>5. r.state \in EntryStates
    BY <2>3, <2>4 DEF EntryStates, EntryFields
  <2>6. found' = [found EXCEPT ![reading.path] = r] /\ reading' = NotOpen
    BY <2>1, <2>2, <2>4 DEF Enter
  <2> QED BY <1>1, <1>2, <1>3, <2>1, <2>5, <2>6, EntryHasShape DEF InWalk
<1>5. CASE OpenFile
  <2>1. phase = "open"
    BY <1>5 DEF OpenFile
  <2>2. CASE Opens(reading.path)
    <3>1. PICK body : reading' = [reading EXCEPT !.body = body]
      BY <1>5, <2>2 DEF OpenFile
    <3>2. reading'.path = reading.path
      BY <1>2, <3>1 DEF ReadFields
    <3>3. phase' = "read" /\ UNCHANGED found
      BY <1>5, <2>2 DEF OpenFile
    <3> QED BY <1>1, <2>1, <3>2, <3>3, ShapeStands
  <2>3. CASE ~Opens(reading.path)
    <3>1. PICK r : r = Entered("Text", reading.size, reading.exec,
                               "Truncated")
      OBVIOUS
    <3>2. r.state \in EntryStates
      BY <3>1 DEF Entered, EntryStates
    <3>3. /\ found' = [found EXCEPT ![reading.path] = r]
          /\ reading' = NotOpen /\ phase' = "walk"
      BY <1>5, <2>3, <3>1 DEF OpenFile, Enter
    <3> QED BY <1>1, <1>2, <1>3, <3>2, <3>3, EntryHasShape DEF InWalk
  <2> QED BY <2>2, <2>3
<1>6. CASE ReadUnit
  <2>1. PICK got : reading' = [reading EXCEPT !.got = got]
    BY <1>6 DEF ReadUnit
  <2>2. reading'.path = reading.path
    BY <1>2, <2>1 DEF ReadFields
  <2>3. UNCHANGED <<phase, found>>
    BY <1>6 DEF ReadUnit
  <2> QED BY <1>1, <2>2, <2>3, ShapeStands
<1>7. CASE FinishFile
  <2>1. PICK state \in {"Unsupported", "Truncated"} :
           /\ Enter(reading.path, Content(reading.path, reading.size,
                                     reading.exec, reading.got, state))
           /\ phase' = "walk"
    BY <1>7 DEF FinishFile
  <2>2. PICK r : r = Content(reading.path, reading.size, reading.exec,
                             reading.got, state)
    OBVIOUS
  <2>a. IsContent(r, reading.size, reading.got, state)
    BY <2>2, ContentFields
  <2>3. r.state \in EntryStates
    BY <2>a DEF IsContent, EntryStates
  <2>4. found' = [found EXCEPT ![reading.path] = r] /\ reading' = NotOpen
    BY <2>1, <2>2 DEF Enter
  <2> QED BY <1>1, <1>2, <1>3, <2>1, <2>3, <2>4, EntryHasShape DEF InWalk
<1> QED BY <1>4, <1>5, <1>6, <1>7

LEMMA GitHasShape ==
  ASSUME AnalysisTyped, AnalysisShape,
         ListTree \/ GitFails \/ GitEnds \/ GitOther \/ GitBlob
  PROVE  AnalysisShape'
<1>1. phase = "walk" /\ UNCHANGED <<edited, todo, reading>>
  BY DEF ListTree, GitFails, GitEnds, GitOther, GitBlob, NextRecord,
         ReadingTree, world, outcome, inventoried
<1>2. reading.path = Void
  BY <1>1 DEF AnalysisShape
<1>3. CASE ListTree \/ GitFails \/ GitEnds
  <2>1. UNCHANGED found /\ phase' \in {"walk", "listed", "failed"}
    BY <1>1, <1>3 DEF ListTree, GitFails, GitEnds, Return, inventoried
  <2> QED BY <1>1, <2>1, ShapeStands
<1>4. CASE GitOther
  <2>1. UNCHANGED phase
    BY <1>4 DEF GitOther
  <2>2. PICK x \in Path, r \in {Entered("Symlink", 1, FALSE, "Unsupported"),
                                Entered("Special", 0, FALSE, "Skipped")} :
           found' = [found EXCEPT ![x] = r] \/ UNCHANGED found
    BY <1>4 DEF GitOther
  <2>3. r.state \in EntryStates
    BY <2>2 DEF Entered, EntryStates
  <2>4. CASE UNCHANGED found
    BY <1>1, <2>1, <2>4, ShapeStands
  <2>5. CASE found' = [found EXCEPT ![x] = r]
    BY <1>1, <1>2, <2>1, <2>3, <2>5, EntryHasShape DEF InWalk
  <2> QED BY <2>2, <2>4, <2>5
<1>5. CASE GitBlob
  <2>1. PICK x, size, exec, got, state :
           /\ x \in Path /\ state \in {"Unsupported", "Skipped"}
           /\ \/ Return /\ UNCHANGED found
              \/ /\ found' = [found EXCEPT ![x] =
                                 Content(x, size, exec, got, state)]
                 /\ UNCHANGED phase
    BY <1>5 DEF GitBlob
  <2>2. PICK r : r = Content(x, size, exec, got, state)
    OBVIOUS
  <2>a. IsContent(r, size, got, state)
    BY <2>2, ContentFields
  <2>3. r.state \in EntryStates
    BY <2>1, <2>a DEF IsContent, EntryStates
  <2>4. CASE Return /\ UNCHANGED found
    <3>1. phase' \in {"walk", "listed"}
      BY <1>1, <2>4 DEF Return
    <3> QED BY <1>1, <2>4, <3>1, ShapeStands
  <2>5. CASE ~(Return /\ UNCHANGED found)
    BY <1>1, <1>2, <2>1, <2>2, <2>3, <2>5, EntryHasShape DEF InWalk
  <2> QED BY <2>4, <2>5
<1> QED BY <1>3, <1>4, <1>5

\* An entry is judged.
LEMMA JudgedHasShape ==
  ASSUME AnalysisTyped, AnalysisShape, phase = "analyze", NEW x \in Entries,
         NEW r, r.state \in EntryStates, found' = [found EXCEPT ![x] = r],
         UNCHANGED <<phase, reading, edited>>, todo' \subseteq todo \ {x}
  PROVE  AnalysisShape'
<1>1. x \in Path /\ \A y \in Path : found'[y] = IF y = x THEN r ELSE found[y]
  BY DEF AnalysisTyped, Entries
<1>2. todo' \subseteq Entries'
  BY <1>1 DEF AnalysisShape, Entries
<1>3. \A y \in Entries' : found'[y].state \in EntryStates
  BY <1>1 DEF AnalysisShape, Entries
<1> QED BY <1>2, <1>3 DEF AnalysisShape

LEMMA JudgingHasShape ==
  ASSUME AnalysisInv, AnalysisShape,
         \/ StartAnalysis \/ AnalyzeManifest \/ SkipEntry \/ ReportGap
         \/ AnalyzeSource \/ ResolveEdge \/ EndAnalysis
  PROVE  AnalysisShape'
<1>t. /\ AnalysisTyped
      /\ \A x \in Entries \cup todo : DOMAIN found[x] = EntryFields
  BY DEF AnalysisInv, EntriesAreTrue, RecordIsTrue
<1>1. CASE StartAnalysis
  <2>1. /\ phase = "listed" /\ phase' = "analyze" /\ todo' = Entries
        /\ UNCHANGED <<found, reading, edited>>
    BY <1>1 DEF StartAnalysis, world, inventoried
  <2>2. Entries' = Entries
    BY <2>1 DEF Entries
  <2> QED BY <2>1, <2>2 DEF AnalysisShape
<1>2. CASE AnalyzeManifest \/ SkipEntry \/ ReportGap
  <2>1. UNCHANGED <<found, reading, edited, phase>> /\ todo' \subseteq todo
    BY <1>2 DEF AnalyzeManifest, SkipEntry, ReportGap, Analyzing, world,
                inventoried
  <2> QED BY <2>1, ShapeStands
<1>3. CASE AnalyzeSource
  <2>1. PICK x, body :
           /\ x \in Path /\ Analyzing(x)
           /\ found' = [found EXCEPT ![x].state = StateOf(found[x].kind, body)]
    BY <1>3 DEF AnalyzeSource
  <2>2. UNCHANGED <<reading, edited, phase>>
    BY <1>3 DEF AnalyzeSource, world
  <2>3. x \in todo /\ todo' = todo \ {x}
    BY <2>1 DEF Analyzing, First
  <2>4. x \in Entries
    BY <2>3 DEF AnalysisShape
  <2>5. PICK s : s = StateOf(found[x].kind, body)
    OBVIOUS
  <2>6. s \in EntryStates
    BY <2>5 DEF StateOf, EntryStates
  <2>7. PICK r : r = [found[x] EXCEPT !.state = s]
    OBVIOUS
  <2>8. found' = [found EXCEPT ![x] = r]
    BY <1>t, <2>1, <2>5, <2>7 DEF AnalysisTyped
  <2>9. r.state = s /\ DOMAIN r = EntryFields
    BY <1>t, <2>4, <2>7 DEF EntryFields
  <2>10. phase = "analyze"
    BY <2>1 DEF Analyzing
  <2>11. todo' \subseteq todo \ {x}
    BY <2>3
  <2> QED
    BY <1>t, <2>2, <2>4, <2>6, <2>8, <2>9, <2>10, <2>11, JudgedHasShape
<1>4. CASE ResolveEdge
  <2>1. PICK target :
           IF target \in Entries
           THEN found' = [found EXCEPT ![target].target = TRUE]
           ELSE UNCHANGED found
    BY <1>4 DEF ResolveEdge
  <2>2. UNCHANGED <<reading, edited, phase, todo>>
    BY <1>4 DEF ResolveEdge, world
  <2>3. CASE target \notin Entries
    BY <2>1, <2>2, <2>3, ShapeStands
  <2>4. CASE target \in Entries
    <3>1. PICK r : r = [found[target] EXCEPT !.target = TRUE]
      OBVIOUS
    <3>2. r.state = found[target].state
      BY <1>t, <2>4, <3>1 DEF EntryFields
    <3>3. r.state \in EntryStates
      BY <2>4, <3>2 DEF AnalysisShape
    <3>4. found' = [found EXCEPT ![target] = r]
      BY <1>t, <2>1, <2>4, <3>1 DEF AnalysisTyped
    <3>5. phase = "analyze" /\ todo = {}
      BY <1>4 DEF ResolveEdge
    <3>6. todo' \subseteq todo \ {target}
      BY <2>2, <3>5
    <3> QED BY <1>t, <2>2, <2>4, <3>3, <3>4, <3>5, <3>6, JudgedHasShape
  <2> QED BY <2>3, <2>4
<1>5. CASE EndAnalysis
  <2>1. /\ phase = "analyze" /\ phase' = "reported" /\ todo' = {}
        /\ found' = [x \in Path |->
               IF x \in Entries /\ found[x].kind = "Native"
               THEN [found[x] EXCEPT !.state = "Unsupported"] ELSE found[x]]
        /\ UNCHANGED <<edited, reading>>
    BY <1>5 DEF EndAnalysis, world
  <2>2. ASSUME NEW x \in Entries'
        PROVE  found'[x].state \in EntryStates
    <3>1. x \in Path /\ found'[x] # Void
      BY <2>2 DEF Entries
    <3>2. x \in Entries
      BY <2>1, <3>1 DEF Entries
    <3>3. CASE found[x].kind = "Native"
      <4>1. found'[x] = [found[x] EXCEPT !.state = "Unsupported"]
        BY <2>1, <3>1, <3>2, <3>3
      <4>2. found'[x].state = "Unsupported"
        BY <1>t, <3>2, <4>1 DEF EntryFields
      <4> QED BY <4>2 DEF EntryStates
    <3>4. CASE found[x].kind # "Native"
      <4>1. found'[x] = found[x]
        BY <2>1, <3>1, <3>4
      <4> QED BY <3>2, <4>1 DEF AnalysisShape
    <3> QED BY <3>3, <3>4
  <2> QED BY <2>1, <2>2 DEF AnalysisShape
<1> QED BY <1>1, <1>2, <1>3, <1>4, <1>5

LEMMA WorldHasShape ==
  ASSUME AnalysisTyped, AnalysisShape, BudgetExpires \/ Edit \/ LoseObjects
  PROVE  AnalysisShape'
<1>1. UNCHANGED <<phase, found, todo>>
  BY DEF BudgetExpires, Edit, LoseObjects, inventoried, outcome
<1>2. edited' \subseteq Path
  BY DEF BudgetExpires, Edit, LoseObjects, world, AnalysisShape
<1>3. reading'.path = reading.path
  <2>1. PICK body : \/ UNCHANGED reading
                    \/ reading' = [reading EXCEPT !.body = body]
    BY DEF BudgetExpires, Edit, LoseObjects, inventoried
  <2> QED BY <2>1 DEF AnalysisTyped, ReadFields
<1>4. Entries' = Entries
  BY <1>1 DEF Entries
<1> QED BY <1>1, <1>2, <1>3, <1>4 DEF AnalysisShape

\* Whatever happens, no more files are seen than there are paths, nothing is
\* open but the file that is read, only entries are to be analyzed, and each
\* has a state.
THEOREM AnalysisTypes == AnalysisSpec => []AnalysisTypeOK
<1>1. AnalysisInit => AnalysisShape /\ CountInv
  <2> SUFFICES ASSUME AnalysisInit PROVE AnalysisShape /\ CountInv
    OBVIOUS
  <2>1. /\ edited = {} /\ phase = "walk" /\ reading = NotOpen
        /\ found = NothingFound /\ todo = {}
    BY DEF AnalysisInit, NothingAnalyzed
  <2>2. reading.path = Void /\ Entries = {}
    BY <2>1 DEF NotOpen, Entries, NothingFound
  <2>3. AnalysisShape
    BY <2>1, <2>2 DEF AnalysisShape
  <2> QED BY <2>3, CountStarts
<1>2. /\ AnalysisInv /\ DisclosureInv /\ AnalysisShape /\ CountInv
      /\ [AnalysisNext]_payload
      => AnalysisShape' /\ CountInv'
  <2> SUFFICES ASSUME AnalysisInv, DisclosureInv, AnalysisShape, CountInv,
                      [AnalysisNext]_payload
               PROVE  AnalysisShape' /\ CountInv'
    OBVIOUS
  <2>1. AnalysisTyped
    BY DEF AnalysisInv
  <2>4. CountInv'
    BY AnalysisCounts
  <2> SUFFICES AnalysisShape'
    BY <2>4
  <2>2. CASE UNCHANGED payload
    <3>1. UNCHANGED <<phase, found, edited, reading, todo>>
      BY <2>2 DEF payload, world, inventoried, outcome
    <3>2. reading'.path = reading.path /\ todo' \subseteq todo
      BY <3>1
    <3> QED BY <3>1, <3>2, ShapeStands
  <2>3. CASE AnalysisNext
    <3>1. CASE \/ NotADirectory \/ OpenDirectory \/ ReturnFromDirectory
               \/ SkipChild \/ VisitDirectory \/ VisitLinkOrSpecial
               \/ VisitFile
      BY <2>1, <3>1, WalkHasShape
    <3>2. CASE SampleFile \/ OpenFile \/ ReadUnit \/ FinishFile
      BY <2>1, <3>2, ReadingHasShape
    <3>3. CASE ListTree \/ GitFails \/ GitEnds \/ GitOther \/ GitBlob
      BY <2>1, <3>3, GitHasShape
    <3>4. CASE \/ StartAnalysis \/ AnalyzeManifest \/ SkipEntry \/ ReportGap
               \/ AnalyzeSource \/ ResolveEdge \/ EndAnalysis
      BY <3>4, JudgingHasShape
    <3>5. CASE BudgetExpires \/ Edit \/ LoseObjects
      BY <2>1, <3>5, WorldHasShape
    <3> QED BY <2>3, <3>1, <3>2, <3>3, <3>4, <3>5 DEF AnalysisNext
  <2> QED BY <2>2, <2>3
<1>3. AnalysisInv /\ AnalysisShape /\ CountInv => AnalysisTypeOK
  <2> SUFFICES ASSUME AnalysisInv, AnalysisShape, CountInv
               PROVE  AnalysisTypeOK
    OBVIOUS
  <2>1. PICK P : P = Passed
    OBVIOUS
  <2>2. Cardinality(P) <= Cardinality(Path) /\ Cardinality(P) \in Nat
        /\ Cardinality(Path) \in Nat
    <3>1. P \subseteq Path
      BY <2>1 DEF Passed
    <3> QED BY <3>1, PathsAreNested, FS_Subset, FS_CardinalityType
  <2>3. seen \in Nat /\ seen <= Cardinality(P)
    BY <2>1 DEF CountInv
  <2>4. limit.files \in Nat
    BY AnalysisBounds DEF AnalysisInv, AnalysisTyped
  <2>5. seen <= limit.files + Cardinality(Path)
    BY <2>2, <2>3, <2>4
  <2> QED BY <2>5 DEF AnalysisShape, AnalysisTypeOK, EntryStates
<1> QED
  BY <1>1, <1>2, <1>3, AnalysisHolds, DisclosureHolds, PTL DEF AnalysisSpec
===============================================================================
