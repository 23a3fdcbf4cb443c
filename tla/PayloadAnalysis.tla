--------------------------- MODULE PayloadAnalysis ---------------------------
(***************************************************************************)
(* The analysis of a plugin's files (analyze and scan-plugin): the bounded *)
(* inventory of a directory (ingest.rs, Walker) or of a pinned Git tree    *)
(* (ingest_pinned_tree_at_root), the detectors over what it lists          *)
(* (analyze_inventory), which read each file again and only accept the     *)
(* bytes that were inventoried, and the coverage rows of the report.       *)
(*                                                                         *)
(* While a directory is analyzed its files change, are replaced or vanish; *)
(* a repository may lose objects.  The time budget of either pass may run  *)
(* out between any two steps.  The inventory of a directory passes over    *)
(* whatever is named .git, at any depth: that is no content of a plugin    *)
(* to it, and no limitation tells of it.                                   *)
(*                                                                         *)
(* Content is a sequence of units of one read each.  A digest is what was  *)
(* read.  The first unit decides what a file is: "elf" is a native binary, *)
(* "sh" and "node" name an interpreter with and one without a detector,    *)
(* "zip" is an archive.  "evil" is what a detector reports, "ref" a        *)
(* literal load of a path, "junk" what no parser accepts, "bad" a failing  *)
(* read.  A sample is taken in one step; the tree of a Git repository is   *)
(* listed in full; a FIFO that replaces a file (whose open blocks) and     *)
(* objects that do not have the size Git states are left out.              *)
(***************************************************************************)
EXTENDS Integers, Sequences, FiniteSets, SequencesExt

CONSTANTS Path,         \* the paths of the tree below
          Order,        \* them in the order in which they are sorted
          Parent,       \* the directory of a path
          Top,          \* the directory that is not a path
          Spelled,      \* what its name says: "qml", "script", "manifest",
                        \* "git" (.git), "other" (neither, no extension),
                        \* "odd" (not UTF-8)
          Candidates,   \* where a load in a file is looked for, in order
          Trees,        \* the trees a command finds
          Edits,        \* what a path may become while it runs
          Bases,        \* the logical roots analyzed
          LimitSets,    \* records of limits: files, file, total, depth
          ChildCap,     \* entries of a directory
          SampleBytes,  \* units of a sample
          MaxEdits,
          Void        \* no entry, no digest, no content

\* What a path may hold, and what is recorded of it.
TreeNode ==
    [type : STRING, body : Seq(STRING), exec : BOOLEAN, opens : BOOLEAN]
EntryKinds == {"Native", "qml", "script", "Executable", "Data", "Text",
               "Symlink", "Directory", "Special"}
EntryRecord ==
    [ kind : EntryKinds, size : Nat, exec : BOOLEAN,
      state : {"Unsupported", "Skipped", "Truncated", "Partial", "Analyzed",
               "Unreferenced"},
      digest : {Void} \cup Seq(STRING), sampled : BOOLEAN,
      class : {"Archive", "Unknown"}, hint : BOOLEAN, target : BOOLEAN ]

\* The directories a path lies in, and itself: what every set has that has
\* it and the directory of each path in the set.
Upward == {c \in SUBSET (Path \cup {Top}) : \A y \in c \cap Path :
                                              Parent[y] \in c}
Above == [x \in Path \cup {Top} |->
            {y \in Path \cup {Top} : \A c \in Upward : x \in c => y \in c}]

ASSUME PathsAreNested ==
    /\ IsFiniteSet(Path) /\ Top \notin Path
    /\ \A x \in Path :
          Parent[x] \in Path \cup {Top} /\ x \notin Above[Parent[x]]
    /\ Bases \subseteq Path \cup {Top}
ASSUME VoidIsNothing ==
    Void \notin Path \cup TreeNode \cup EntryRecord \cup Seq(STRING)
ASSUME TreesAreTyped ==
    /\ Trees \subseteq [Path -> {Void} \cup TreeNode]
    /\ \A x \in Path : Edits[x] \subseteq {Void} \cup TreeNode
    /\ \A t \in Trees : \A x \in Path :
          t[x] # Void /\ Parent[x] # Top =>
             t[Parent[x]] # Void /\ t[Parent[x]].type = "dir"
ASSUME AnalysisBounds ==
    /\ SampleBytes \in Nat
    /\ LimitSets \subseteq [files : Nat, file : Nat, total : Nat, depth : Nat]

VARIABLES tree,         \* what every path holds, or Void
          edited,       \* the paths that changed since the command began
          lost,         \* the repository lost objects
          front,        \* "filesystem" or "git"
          base, limit,  \* the logical root, the limits
          phase,        \* see AnalysisTypeOK
          frames,       \* the directories being walked, innermost first
          reading,      \* the file being read
          found,        \* the inventory
          seen, bytes,  \* files seen, units read
          notes,        \* limitations that name no path
          expired,      \* the time budget of the running pass is spent
          todo,         \* entries not yet analyzed
          sources,      \* what the detectors were given
          results,      \* findings: path and rule
          gaps,         \* coverage gaps and limitations that name a path
          edges         \* literal loads: pending, resolved or rejected

inventoried == <<frames, reading, found, seen, bytes>>
outcome == <<todo, sources, results, gaps, edges>>
world == <<tree, edited, lost, front, base, limit>>
payload == <<world, phase, inventoried, notes, expired, outcome>>

NotOpen == [path |-> Void, size |-> 0, exec |-> FALSE, body |-> Void,
            got |-> <<>>]
Smaller(m, n) == IF m < n THEN m ELSE n

(***************************************************************************)
(* The tree.                                                               *)
(***************************************************************************)
Exists(x) == \A y \in Above[x] \ {Top} : tree[y] # Void
Is(x, type) == Exists(x) /\ tree[x].type = type
IsDirectory(x) == IF x = Top THEN TRUE ELSE Is(x, "dir")
InBase(x) == x \notin {Top, base} /\ base \in Above[x]

\* Components of a path below the root that is analyzed.
Depth(x) == Cardinality({y \in Above[x] : InBase(y)})

\* What walk_dir lists: no entry with the name of Git's directory.
Under(d) == {x \in Path : Parent[x] = d /\ Exists(x) /\ Spelled[x] # "git"}

\* ls-tree -r below the logical root: everything but directories.
Records == {x \in Path : InBase(x) /\ Exists(x) /\ ~IsDirectory(x)}

\* The first of some paths, as they are sorted.
First(x, paths) ==
    /\ x \in paths
    /\ \A i, j \in DOMAIN Order :
          Order[j] = x /\ i < j => Order[i] \notin paths

(***************************************************************************)
(* Classification (payload.rs).                                            *)
(***************************************************************************)
Starts(head, units) == head # <<>> /\ head[1] \in units

Classify(x, exec, head) ==
    IF Starts(head, {"elf"}) THEN "Native"
    ELSE IF Spelled[x] \in {"qml", "script"} THEN Spelled[x]
    ELSE IF Starts(head, {"sh"}) THEN "script"
    ELSE IF exec /\ (Starts(head, {"node"})
                       \/ Spelled[x] \in {"git", "other"})
    THEN "Executable"
    ELSE IF Starts(head, {"zip"}) THEN "Data"
    ELSE IF exec THEN "Executable" ELSE "Text"

HasDetector(kind) == kind \in {"qml", "script"}

\* payload_coverage_with_metadata: whether a person has to look at it.
Opaque(r) ==
    \/ r.kind = "Native"
    \/ r.class = "Archive"
    \/ r.kind = "Executable" /\ (r.exec \/ r.target)
    \/ r.kind = "Text" /\ r.target /\ r.hint

ExactDigest(r) == IF r.sampled THEN Void ELSE r.digest

Incomplete(r) ==
    \/ r.state = "Truncated"
    \/ r.digest = Void /\ r.kind \notin {"Symlink", "Directory", "Special"}

(***************************************************************************)
(* Inventory.                                                              *)
(***************************************************************************)
Entered(kind, size, exec, state) ==
    [ kind |-> kind, size |-> size, exec |-> exec, state |-> state,
      digest |-> Void, sampled |-> FALSE, class |-> "Unknown",
      hint |-> FALSE, target |-> FALSE ]

\* language_hint: an interpreter line names a language.
LanguageHint(got) == Starts(got, {"sh", "node"})

\* content_class: what no detector looks into is told apart by its magic.
ContentClass(got) == IF Starts(got, {"zip"}) THEN "Archive" ELSE "Unknown"

\* An entry for content of which `got` was read.
Content(x, size, exec, got, state) ==
    [ Entered(Classify(x, exec, got), size, exec, state) EXCEPT
        !.digest = got,
        !.sampled = state # "Unsupported",
        !.class = ContentClass(got),
        !.hint = LanguageHint(got) ]

Unlisted(d) == [dir |-> d, listed |-> FALSE, rest |-> {}]
NothingFound == [x \in Path |-> Void]
Entries == {x \in Path : found[x] # Void}

Note(n) == notes' = notes \cup {n}

\* The walk of the innermost directory ends.
Return ==
    /\ frames' = Tail(frames)
    /\ phase' = IF Len(frames) = 1 THEN "listed" ELSE phase

Walked(x) == frames' = [frames EXCEPT ![1].rest = @ \ {x}]

Walking(rest) ==
    /\ phase = "walk"
    /\ front = "filesystem"
    /\ rest

NotADirectory ==
    /\ Walking(~frames[1].listed)
    /\ ~IsDirectory(frames[1].dir)
    /\ frames[1].dir = base \/ (Len(frames) - 1 <= limit.depth /\ ~expired)
    /\ phase' = "failed"
    /\ UNCHANGED <<world, inventoried, notes, expired, outcome>>

\* Why a directory is left unlisted, if it is.
Refusal(children) ==
    IF Len(frames) - 1 > limit.depth THEN "tree_depth_limit_exceeded"
    ELSE IF expired THEN "time_budget_exhausted"
    ELSE IF \/ Cardinality(children) > ChildCap
            \/ children # {} /\ Cardinality(Entries) >= ChildCap
    THEN "directory_entry_limit_exceeded"
    ELSE IF Cardinality(Entries) >= ChildCap
    THEN "file_limit_exceeded" ELSE "none"

OpenDirectory ==
    /\ Walking(~frames[1].listed)
    /\ frames[1].dir # base /\ Len(frames) - 1 <= limit.depth /\ ~expired
          => IsDirectory(frames[1].dir)
    /\ frames[1].dir = base => IsDirectory(base)
    /\ LET children == Under(frames[1].dir)
           refusal == Refusal(children)
       IN  IF refusal = "none"
           THEN /\ frames' = [frames EXCEPT ![1].listed = TRUE,
                                            ![1].rest = children]
                /\ UNCHANGED <<phase, notes>>
           ELSE Return /\ Note(refusal)
    /\ UNCHANGED <<world, reading, found, seen, bytes, expired, outcome>>

ReturnFromDirectory ==
    /\ Walking(frames[1].listed /\ (frames[1].rest = {} \/ expired))
    /\ Return
    /\ IF frames[1].rest = {} THEN UNCHANGED notes
       ELSE Note("time_budget_exhausted")
    /\ UNCHANGED <<world, reading, found, seen, bytes, expired, outcome>>

Visiting(x) ==
    /\ Walking(frames[1].listed)
    /\ ~expired
    /\ First(x, frames[1].rest)

SkipChild ==
    /\ \E x \in Path :
          /\ Visiting(x)
          /\ \/ Spelled[x] = "odd" /\ Note("non_utf8_entry_name_skipped")
             \/ /\ Spelled[x] # "odd" /\ ~Exists(x)
                /\ Note("metadata_unavailable")
          /\ Walked(x)
    /\ UNCHANGED <<world, phase, reading, found, seen, bytes, expired,
                   outcome>>

Visible(x) == Spelled[x] # "odd" /\ Exists(x)

VisitDirectory ==
    \E x \in Path :
        /\ Visiting(x) /\ Visible(x) /\ Is(x, "dir")
        /\ found' = [found EXCEPT ![x] =
                        Entered("Directory", 0, FALSE, "Unsupported")]
        /\ frames' = << Unlisted(x), [frames[1] EXCEPT !.rest = @ \ {x}] >>
                         \o Tail(frames)
        /\ UNCHANGED <<world, phase, reading, seen, bytes, notes, expired,
                       outcome>>

VisitLinkOrSpecial ==
    \E x \in Path :
        /\ Visiting(x) /\ Visible(x) /\ (Is(x, "link") \/ Is(x, "special"))
        /\ found' = [found EXCEPT ![x] =
                        IF Is(x, "link")
                        THEN Entered("Symlink", 0, FALSE, "Unsupported")
                        ELSE Entered("Special", 0, FALSE, "Skipped")]
        /\ IF Is(x, "link") THEN UNCHANGED notes
           ELSE Note("special_file_present")
        /\ Walked(x)
        /\ UNCHANGED <<world, phase, reading, seen, bytes, expired, outcome>>

\* What lstat says is kept; too many files end the walk of this directory.
VisitFile ==
    \E x \in Path :
        /\ Visiting(x) /\ Visible(x) /\ Is(x, "file")
        /\ seen' = seen + 1
        /\ IF seen' > limit.files
           THEN /\ Return
                /\ Note("file_limit_exceeded")
                /\ UNCHANGED reading
           ELSE /\ reading' = [NotOpen EXCEPT !.path = x,
                                              !.size = Len(tree[x].body),
                                              !.exec = tree[x].exec]
                /\ Walked(x)
                /\ phase' = "open"
                /\ UNCHANGED notes
        /\ UNCHANGED <<world, found, bytes, expired, outcome>>

\* What an open of the path yields now: a link that replaced it is followed.
Opens(x) == Exists(x) /\ tree[x].opens
Upto(body, n) ==
    SubSeq(body, 1,
           Cardinality({k \in 1..n : "bad" \notin ToSet(SubSeq(body, 1, k))}))

Enter(x, record) ==
    /\ found' = [found EXCEPT ![x] = record]
    /\ reading' = NotOpen

Oversize == reading.size > limit.file
NoRoom == bytes >= limit.total

Sample(x) ==
    LET allowance == Smaller(SampleBytes, limit.total - bytes)
        head == allowance \div 2
        body == tree[x].body
        h == Upto(body, Smaller(Smaller(head, reading.size), Len(body)))
        tail == Smaller(allowance - head, reading.size - Len(h))
        t == IF reading.size > Len(h) /\ tail > 0 /\ tail <= Len(body)
             THEN SubSeq(body, Len(body) - tail + 1, Len(body)) ELSE <<>>
    IN  IF Opens(x) /\ allowance > 0 THEN <<h, Upto(t, Len(t))>>
        ELSE << <<>>, <<>> >>

SampleFile ==
    /\ phase = "open"
    /\ Oversize \/ NoRoom
    /\ LET x == reading.path
           sample == Sample(x)
           whole == sample[1] \o sample[2]
           entry == Content(x, reading.size, reading.exec, sample[1],
                            "Skipped")
       IN  /\ Enter(x, [entry EXCEPT !.digest = whole])
           /\ bytes' = bytes + Len(whole)
           /\ notes' = notes
                \cup {IF Oversize THEN "oversize_file_skipped"
                      ELSE "aggregate_byte_limit_reached"}
                \cup IF bytes < limit.total /\ ~Opens(x)
                     THEN {"unreadable_file"} ELSE {}
    /\ phase' = "walk"
    /\ UNCHANGED <<world, frames, seen, expired, outcome>>

OpenFile ==
    /\ phase = "open"
    /\ ~Oversize /\ ~NoRoom
    /\ LET x == reading.path
       IN  IF Opens(x)
           THEN /\ reading' = [reading EXCEPT !.body = tree[x].body]
                /\ phase' = "read"
                /\ UNCHANGED <<found, notes>>
           ELSE /\ Enter(x, Entered("Text", reading.size, reading.exec,
                                  "Truncated"))
                /\ phase' = "walk"
                /\ Note("unreadable_file")
    /\ UNCHANGED <<world, frames, seen, bytes, expired, outcome>>

\* Why the read stops before the end of the file, if it does.
Stops ==
    IF expired THEN "time_budget_exhausted"
    ELSE IF NoRoom THEN "aggregate_byte_limit_reached"
    ELSE IF Len(reading.got) >= Len(reading.body) THEN "end"
    ELSE IF reading.body[Len(reading.got) + 1] = "bad" THEN "read_error"
    ELSE "more"

ReadUnit ==
    /\ phase = "read"
    /\ Stops = "more"
    /\ reading' = [reading EXCEPT
                    !.got = Append(@, reading.body[Len(@) + 1])]
    /\ bytes' = bytes + 1
    /\ UNCHANGED <<world, phase, frames, found, seen, notes, expired, outcome>>

FinishFile ==
    /\ phase = "read"
    /\ Stops # "more"
    /\ Enter(reading.path,
           Content(reading.path, reading.size, reading.exec, reading.got,
                   IF Stops = "end" THEN "Unsupported" ELSE "Truncated"))
    /\ IF Stops = "end" THEN UNCHANGED notes ELSE Note(Stops)
    /\ phase' = "walk"
    /\ UNCHANGED <<world, frames, seen, bytes, expired, outcome>>

(***************************************************************************)
(* A pinned revision: raw objects, read one after the other.               *)
(***************************************************************************)
ReadingTree == phase = "walk" /\ front = "git"

ListTree ==
    /\ ReadingTree
    /\ ~frames[1].listed
    /\ ~expired
    /\ frames' = [frames EXCEPT ![1].listed = TRUE, ![1].rest = Records]
    /\ UNCHANGED <<world, phase, reading, found, seen, bytes, notes, expired,
                   outcome>>

\* Out of time before Git is asked, or Git fails: no inventory at all.
GitFails ==
    /\ ReadingTree
    /\ ~frames[1].listed \/ frames[1].rest # {}
    /\ expired \/ lost
    /\ phase' = "failed"
    /\ UNCHANGED <<world, inventoried, notes, expired, outcome>>

GitEnds ==
    /\ ReadingTree
    /\ frames[1].listed /\ (frames[1].rest = {} \/ expired)
    /\ Return
    /\ IF expired THEN Note("time_budget_exhausted") ELSE UNCHANGED notes
    /\ UNCHANGED <<world, reading, found, seen, bytes, expired, outcome>>

NextRecord(x) ==
    /\ ReadingTree
    /\ frames[1].listed
    /\ ~expired
    /\ First(x, frames[1].rest)

OddNames(x) ==
    IF \E y \in Above[x] : InBase(y) /\ Spelled[y] = "odd"
    THEN {"non_utf8_path_lossily_named"} ELSE {}

GitOther ==
    \E x \in Path :
        /\ NextRecord(x)
        /\ Depth(x) > limit.depth + 1 \/ ~Is(x, "file")
        /\ Walked(x)
        /\ IF Depth(x) > limit.depth + 1
           THEN /\ notes' = notes \cup OddNames(x)
                                  \cup {"tree_depth_limit_exceeded"}
                /\ UNCHANGED found
           ELSE IF Is(x, "link")
           THEN /\ found' = [found EXCEPT ![x] =
                      Entered("Symlink", 1, FALSE, "Unsupported")]
                /\ notes' = notes \cup OddNames(x)
           ELSE /\ found' = [found EXCEPT ![x] =
                      Entered("Special", 0, FALSE, "Skipped")]
                /\ notes' = notes \cup OddNames(x)
                                  \cup {"submodule_present_not_followed"}
        /\ UNCHANGED <<world, phase, reading, seen, bytes, expired, outcome>>

GitOversize(size) == size > limit.file \/ size > limit.total - bytes

GitBlob ==
    \E x \in Path :
        /\ NextRecord(x) /\ Is(x, "file") /\ Depth(x) <= limit.depth + 1
        /\ seen' = seen + 1
        /\ LET body == tree[x].body
               size == Len(body)
               room == limit.total - bytes
               sampled == GitOversize(size)
               got == IF sampled
                      THEN SubSeq(body, 1, Smaller(size,
                                             Smaller(SampleBytes, room)))
                      ELSE body
           IN  IF seen' > limit.files
               THEN /\ Return
                    /\ notes' = notes \cup OddNames(x)
                                      \cup {"file_limit_exceeded"}
                    /\ UNCHANGED <<found, bytes>>
               ELSE /\ found' = [found EXCEPT ![x] =
                          Content(x, size, tree[x].exec, got,
                             IF sampled THEN "Skipped" ELSE "Unsupported")]
                    /\ bytes' = bytes + Len(got)
                    /\ notes' = notes \cup OddNames(x) \cup
                          IF size > limit.file THEN {"oversize_file_skipped"}
                          ELSE IF sampled
                          THEN {"aggregate_byte_limit_reached"} ELSE {}
                    /\ Walked(x)
                    /\ UNCHANGED phase
        /\ UNCHANGED <<world, reading, expired, outcome>>

(***************************************************************************)
(* Analysis.  It has a time budget of its own.                             *)
(***************************************************************************)
StartAnalysis ==
    /\ phase = "listed"
    /\ phase' = "analyze"
    /\ expired' = FALSE
    /\ todo' = Entries
    /\ UNCHANGED <<world, inventoried, notes, sources, results, gaps, edges>>

\* Mutant: what is read is not compared with the inventory.
RereadUnverified(x) ==
    IF found[x].digest = Void \/ found[x].sampled \/ ~Is(x, "file")
    THEN Void ELSE tree[x].body

\* The readers: never through a link, at most the recorded size and one unit
\* more, and only what has the digest of the inventory.
Reread(x) ==
    IF \/ found[x].digest = Void \/ found[x].sampled
       \/ ~Is(x, "file")
       \/ ~Opens(x)
    THEN Void
    ELSE LET got == SubSeq(tree[x].body, 1,
                           Smaller(found[x].size + 1, Len(tree[x].body)))
         IN  IF Len(got) = found[x].size /\ got = found[x].digest
             THEN got ELSE Void

Analyzing(x) ==
    /\ phase = "analyze"
    /\ ~expired
    /\ First(x, todo)
    /\ todo' = todo \ {x}

Holds(unit, body) == unit \in ToSet(body)

\* Objects that were lost since cannot be read either.
Given(x) == {Reread(x)} \cup IF lost THEN {Void} ELSE {}

AnalyzeManifest ==
    \E x \in Path :
        /\ Analyzing(x)
        /\ Spelled[x] = "manifest"
        /\ found[x].size <= limit.file
        /\ \E body \in Given(x) :
              IF body = Void
              THEN /\ gaps' = gaps \cup {<<x, "content_unavailable">>}
                   /\ UNCHANGED <<sources, results>>
              ELSE /\ sources' = [sources EXCEPT ![x] = body]
                   /\ IF Holds("junk", body)
                      THEN /\ gaps' = gaps \cup {<<x, "manifest-unreadable">>}
                           /\ UNCHANGED results
                      ELSE /\ results' = IF Holds("evil", body)
                                         THEN results \cup {<<x, "manifest">>}
                                         ELSE results
                           /\ UNCHANGED gaps
        /\ UNCHANGED <<world, phase, inventoried, notes, expired, edges>>

PassOver(x) ==
    IF Spelled[x] = "manifest" THEN found[x].size > limit.file
    ELSE ~HasDetector(found[x].kind)

SkipEntry ==
    /\ \E x \in Path : Analyzing(x) /\ PassOver(x)
    /\ UNCHANGED <<world, phase, inventoried, notes, expired, sources, results,
                   gaps, edges>>

GapReason(x) ==
    CASE found[x].state = "Skipped" -> "payload-skipped"
      [] found[x].state = "Truncated" -> "payload-truncated"
      [] OTHER -> "file-size-limit"

NotRead(x) == found[x].state # "Unsupported" \/ found[x].size > limit.file

ReportGap ==
    \E x \in Path :
        /\ Analyzing(x)
        /\ Spelled[x] # "manifest" /\ HasDetector(found[x].kind)
        /\ \/ NotRead(x) /\ gaps' = gaps \cup {<<x, GapReason(x)>>}
           \/ /\ ~NotRead(x) /\ Void \in Given(x)
              /\ gaps' = gaps \cup {<<x, "content-unavailable">>}
        /\ UNCHANGED <<world, phase, inventoried, notes, expired, sources,
                       results, edges>>

\* A script is never called analyzed: no match says nothing about it.
StateOf(kind, body) ==
    IF kind = "script" \/ Holds("junk", body) THEN "Partial"
    ELSE IF Holds("evil", body) \/ Holds("ref", body) THEN "Analyzed"
    ELSE "Unreferenced"

AnalyzeSource ==
    \E x \in Path :
        /\ Analyzing(x)
        /\ Spelled[x] # "manifest" /\ HasDetector(found[x].kind)
        /\ ~NotRead(x)
        /\ \E body \in Given(x) \ {Void} :
              /\ sources' = [sources EXCEPT ![x] = body]
              /\ results' = IF Holds("evil", body)
                            THEN results \cup {<<x, "evil">>} ELSE results
              /\ gaps' = IF Holds("junk", body)
                         THEN gaps \cup {<<x, "parser">>} ELSE gaps
              /\ edges' = IF Holds("ref", body)
                          THEN edges \cup {<<x, "pending">>} ELSE edges
              /\ found' = [found EXCEPT ![x].state =
                              StateOf(found[x].kind, body)]
        /\ UNCHANGED <<world, phase, frames, reading, seen, bytes, notes,
                       expired>>

\* resolve_reference: the first candidate that is inventoried decides.
ResolveReference(x) ==
    LET named == SelectSeq(Candidates[x], LAMBDA y : y \in Entries)
    IN  IF \/ named = <<>>
           \/ found[named[1]].kind \in {"Symlink", "Directory", "Special"}
        THEN "rejected" ELSE named[1]

ResolveEdge ==
    /\ phase = "analyze" /\ todo = {} /\ ~expired
    /\ \E x \in Path :
          /\ First(x, {y \in Path : <<y, "pending">> \in edges})
          /\ LET target == ResolveReference(x)
             IN  /\ edges' = (edges \ {<<x, "pending">>}) \cup {<<x, target>>}
                 /\ IF target \in Entries
                    THEN found' = [found EXCEPT ![target].target = TRUE]
                    ELSE UNCHANGED found
    /\ UNCHANGED <<world, phase, frames, reading, seen, bytes, notes, expired,
                   todo, sources, results, gaps>>

Pending == {e \in edges : e[2] = "pending"}

\* The pass over the native binaries ends the analysis, and the report
\* follows; with the time spent, what is left is not looked at.
EndAnalysis ==
    /\ phase = "analyze"
    /\ expired \/ (todo = {} /\ Pending = {})
    /\ IF todo # {} \/ Pending # {}
       THEN Note("analysis_time_budget_exhausted") ELSE UNCHANGED notes
    /\ results' = results \cup
            {<<x, "bundled-binary">> :
                x \in {y \in Entries : /\ found[y].kind = "Native"
                                       /\ found[y].target}}
    /\ found' = [x \in Path |->
            IF x \in Entries /\ found[x].kind = "Native"
            THEN [found[x] EXCEPT !.state = "Unsupported"] ELSE found[x]]
    /\ todo' = {}
    /\ edges' = edges \ Pending
    /\ phase' = "reported"
    /\ UNCHANGED <<world, frames, reading, seen, bytes, expired, sources,
                   gaps>>

(***************************************************************************)
(* The world.                                                              *)
(***************************************************************************)
Running == phase \notin {"reported", "failed"}

BudgetExpires ==
    /\ phase \in {"walk", "open", "read", "analyze"}
    /\ expired' = TRUE
    /\ UNCHANGED <<world, phase, inventoried, notes, outcome>>

\* A file is rewritten in place, which an open descriptor sees, or replaced.
Edit ==
    /\ Running /\ front = "filesystem"
    /\ Cardinality(edited) < MaxEdits
    /\ \E x \in Path \ edited : \E node \in Edits[x] \ {tree[x]} :
          /\ Exists(x)
          /\ tree' = [tree EXCEPT ![x] = node]
          /\ edited' = edited \cup {x}
          /\ \/ UNCHANGED reading
             \/ /\ phase = "read" /\ reading.path = x
                /\ node # Void
                /\ tree[x].type = "file" /\ node.type = "file"
                /\ reading' = [reading EXCEPT !.body = node.body]
    /\ UNCHANGED <<lost, front, base, limit, phase, frames, found, seen, bytes,
                   notes, expired, outcome>>

LoseObjects ==
    /\ Running /\ front = "git"
    /\ ~lost
    /\ lost' = TRUE
    /\ UNCHANGED <<tree, edited, front, base, limit, phase, inventoried, notes,
                   expired, outcome>>

NothingAnalyzed ==
    /\ edited = {} /\ lost = FALSE /\ phase = "walk"
    /\ frames = << Unlisted(base) >>
    /\ reading = NotOpen /\ found = NothingFound /\ seen = 0 /\ bytes = 0
    /\ notes = {} /\ expired = FALSE /\ todo = {} /\ sources = NothingFound
    /\ results = {} /\ gaps = {} /\ edges = {}

AnalysisInit ==
    /\ tree \in Trees
    /\ front \in {"filesystem", "git"}
    /\ base \in Bases
    /\ limit \in LimitSets
    /\ front = "git" =>
          \A x \in Path : tree[x] # Void =>
                tree[x].opens /\ "bad" \notin ToSet(tree[x].body)
    /\ NothingAnalyzed

AnalysisNext ==
    \/ NotADirectory \/ OpenDirectory \/ ReturnFromDirectory \/ SkipChild
    \/ VisitDirectory \/ VisitLinkOrSpecial \/ VisitFile
    \/ SampleFile \/ OpenFile \/ ReadUnit \/ FinishFile
    \/ ListTree \/ GitFails \/ GitEnds \/ GitOther \/ GitBlob
    \/ StartAnalysis \/ AnalyzeManifest \/ SkipEntry \/ ReportGap
    \/ AnalyzeSource \/ ResolveEdge \/ EndAnalysis
    \/ BudgetExpires \/ Edit \/ LoseObjects

AnalysisSpec == AnalysisInit /\ [][AnalysisNext]_payload

AnalysisTypeOK ==
    /\ phase \in {"walk", "open", "read", "listed", "analyze", "reported",
                  "failed"}
    /\ edited \subseteq Path /\ reading.path \in Path \cup {Void}
    /\ (reading.path = Void) = (phase \notin {"open", "read"})
    /\ \A x \in Entries :
          found[x].state \in {"Unsupported", "Skipped", "Truncated", "Partial",
                              "Analyzed", "Unreferenced"}
    /\ seen <= limit.files + Cardinality(Path) /\ todo \subseteq Entries

(***************************************************************************)
(* Properties.                                                             *)
(***************************************************************************)
Untouched(x) == Above[x] \cap edited = {}

\* What the detectors judged is, file by file, what the inventory recorded
\* in full, and no more was read than the aggregate limit; whatever changes
\* meanwhile, a digest called exact is that of the whole file as lstat saw
\* it, or the file's entry is not called analyzed (verify_entry_bytes).
ReadsAreOfInventory ==
    /\ bytes <= limit.total
    /\ \A x \in Entries :
          /\ sources[x] # Void =>
                /\ sources[x] = ExactDigest(found[x])
                /\ Len(sources[x]) = found[x].size
          /\ found[x].state \in {"Analyzed", "Unreferenced"} =>
                sources[x] # Void /\ ~Incomplete(found[x])
          /\ Untouched(x) /\ ExactDigest(found[x]) # Void =>
                ExactDigest(found[x]) = tree[x].body

Odd(x) == \E y \in Above[x] : InBase(y) /\ Spelled[y] = "odd"

\* A limitation that explains why x may be missing from the findings.
Explains(n, x) ==
    CASE n = "tree_depth_limit_exceeded" -> Depth(x) > limit.depth + 1
      [] n = "non_utf8_entry_name_skipped" -> Odd(x)
      [] n = "unreadable_file" -> ~tree[x].opens
      [] n = "read_error" -> Holds("bad", tree[x].body)
      [] n = "oversize_file_skipped" -> Len(tree[x].body) > limit.file
      [] OTHER -> n \in {"time_budget_exhausted", "file_limit_exceeded",
                         "directory_entry_limit_exceeded",
                         "aggregate_byte_limit_reached",
                         "analysis_time_budget_exhausted"}

Explained(x) == (\E n \in notes : Explains(n, x)) \/ (\E g \in gaps : g[1] = x)

\* The report says of x what its content calls for.
Told(x) ==
    LET body == tree[x].body
        kind == Classify(x, tree[x].exec, body)
        r == found[x]
    IN  /\ r # Void
        /\ IF Spelled[x] = "manifest"
           THEN Holds("evil", body) => <<x, "manifest">> \in results
           ELSE /\ HasDetector(kind) =>
                      /\ Holds("evil", body) => <<x, "evil">> \in results
                      /\ Holds("ref", body) => \E e \in edges : e[1] = x
                /\ kind = "Native" => Opaque(r)
        /\ Starts(body, {"zip"}) \/ kind = "Executable" => Opaque(r)
        /\ r.target /\ kind = "Native" => <<x, "bundled-binary">> \in results
        /\ r.target /\ Starts(body, {"node"}) => Opaque(r) \/ HasDetector(kind)

\* Whether x is, or lies below, something named .git in a directory.
OfGit(x) ==
    /\ front = "filesystem"
    /\ \E y \in Above[x] : InBase(y) /\ Spelled[y] = "git"

\* Of every file that did not change under the analysis, the report tells
\* what it contains, or carries a limitation or a coverage gap that explains
\* the loss (ingest.rs: coverage loss is always visible in `limitations`).
\* The one silent exception is what is named .git in a directory: nothing in
\* it is told, listed or explained (ingest.rs:185-192), whatever it holds.
LossIsDisclosed ==
    phase = "reported" =>
        \A x \in Path :
            IF OfGit(x) THEN found[x] = Void
            ELSE InBase(x) /\ Is(x, "file") /\ Untouched(x) =>
                    Told(x) \/ Explained(x)
===============================================================================
