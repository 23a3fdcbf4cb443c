--------------------------- MODULE ContentIdentity ---------------------------
(***************************************************************************)
(* The identity of an installed plugin (omasafe-plugin-trust, lib.rs): the *)
(* walk of ContentCollector over its directory and over the inputs of Git  *)
(* that can run code, under limits of depth, entries, bytes and time, and  *)
(* the entries and limitations source_identity digests.                    *)
(*                                                                         *)
(* Content is a sequence of units; sizes and limits count units.  A digest *)
(* is the entries it is taken of.  Files change while the walk goes on.    *)
(* A "dirlink" is a link that leads to a directory; what lies below it is  *)
(* what that directory has, wherever it is.                                *)
(*                                                                         *)
(* Directory entries whose reading fails, names that only differ in how    *)
(* they are normalised, a FIFO that replaces a file and a file that        *)
(* shrinks under its sample are left out.                                  *)
(***************************************************************************)
EXTENDS Integers, Sequences, FiniteSets, SequencesExt

CONSTANTS Item,         \* the paths of a plugin
          Sorted,       \* them in the order in which they are visited
          Within,       \* the directory of a path
          PluginRoot,   \* the directory that is not a path
          NameOf,        \* ".git", "config", "HEAD", "packed-refs", "hooks",
                        \* or "any"
          Disks,        \* what a collection finds
          Becomes,      \* what a path may become while it runs
          CapSets,      \* records of limits: files, total, file, metadata,
                        \* depth, listed
          MaxSample,    \* units of a sample's beginning
          MaxTouched,   \* changes during a collection
          Gone          \* no file, no entry, no path

ASSUME LimitsAreNumbers ==
    /\ MaxSample \in Nat
    /\ \A c \in CapSets : /\ c.files \in Nat /\ c.total \in Nat
                           /\ c.file \in Nat /\ c.metadata \in Nat
                           /\ c.depth \in Nat /\ c.listed \in Nat

\* What a path holds.
FileNode ==
    [ type : {"file", "dir", "dirlink", "link", "special"}, body : Seq(Nat),
      mode : Nat, opens : BOOLEAN ]
ASSUME PluginsAreFiles ==
    /\ IsFiniteSet(Item)
    /\ Gone \notin Item \cup FileNode
    /\ Disks \subseteq [Item -> {Gone} \cup FileNode]
    /\ \A x \in Item : Becomes[x] \subseteq {Gone} \cup FileNode

\* The paths a path lies in, and itself: what every set has that has it and
\* the directory of each path in the set.
Ascending == {c \in SUBSET (Item \cup {PluginRoot}) :
                \A y \in c \cap Item : Within[y] \in c}
Up == [x \in Item \cup {PluginRoot} |->
         {y \in Item : \A c \in Ascending : x \in c => y \in c}]
ASSUME ItemsAreNested ==
    /\ PluginRoot \notin Item
    /\ \A x \in Item : Within[x] \in Item \cup {PluginRoot}
    /\ \A c \in Ascending : c # {} => PluginRoot \in c

\* The parts of a repository, each with a name of its own.
GitFiles == {"config", "HEAD", "packed-refs"}
ASSUME GitHasItsParts ==
    \A git \in Item : NameOf[git] = ".git" =>
        \A name \in GitFiles \cup {"hooks"} :
            \E x \in Item :
                {y \in Item : Within[y] = git /\ NameOf[y] = name} = {x}

VARIABLES caps,         \* the limits
          disk,         \* what every path holds, or Gone
          touched,      \* the paths that changed
          stack,        \* directories being collected, innermost first
          current,      \* the file that was looked at and is read next
          totalBytes,   \* total_bytes: what the entries retain, and samples
          digested,     \* the entries: what is digested
          limitations,
          stopped       \* "no", or why out_of_budget holds

copy == <<caps, disk, touched>>
identity == <<copy, stack, current, totalBytes, digested, limitations,
              stopped>>

NoneCurrent == [path |-> Gone, kind |-> "f", mode |-> 0, size |-> 0]
Least2(m, n) == IF m < n THEN m ELSE n

(***************************************************************************)
(* The plugin's directory.  The system finds a path, and lists a directory *)
(* (read_dir), through links.                                              *)
(***************************************************************************)
LeadsOn(y) == disk[y] # Gone /\ disk[y].type \in {"dir", "dirlink"}
Reachable(x) == \A y \in Up[x] \ {x} : LeadsOn(y)
Present(x) == disk[x] # Gone /\ Reachable(x)
Holding(x, type) == Present(x) /\ disk[x].type = type
In(d) == {x \in Item : Within[x] = d /\ Present(x)}
Listable(d) == d = PluginRoot \/ (Present(d) /\ LeadsOn(d) /\ disk[d].opens)
Part(git, name) == CHOOSE x \in Item : Within[x] = git /\ NameOf[x] = name

\* The first of some paths.
Foremost(x, paths) ==
    /\ x \in paths
    /\ \A i \in DOMAIN Sorted :
          Sorted[i] = x => \A j \in 1..(i - 1) : Sorted[j] \notin paths

\* A directory to be opened, and one that was, with what is left of it.
Unopened(d, depth) ==
    [dir |-> d, depth |-> depth, kind |-> "tree", opened |-> FALSE,
     rest |-> {}]
Opened(d, kind, rest) ==
    [dir |-> d, depth |-> 0, kind |-> kind, opened |-> TRUE, rest |-> rest]

(***************************************************************************)
(* The collector.                                                          *)
(***************************************************************************)
Collected == {x \in Item : digested[x] # Gone}
Full == Cardinality(Collected) >= caps.files
Limit(l) == limitations' = limitations \cup {l}
Record(x, kind, mode, data) ==
    digested' = [digested EXCEPT ![x] =
                    [kind |-> kind, mode |-> mode, data |-> data]]
Advance(x) == stack' = [stack EXCEPT ![1].rest = @ \ {x}]
Leave == stack' = Tail(stack)

Collecting(kinds) ==
    /\ stack # <<>>
    /\ stack[1].kind \in kinds
    /\ current = NoneCurrent

\* Why the next child, or the directory, is not looked at, if it is not.
Halt ==
    IF stack[1].kind # "git" /\ Full THEN "file_limit"
    ELSE IF stopped # "no" THEN stopped
    ELSE IF Full THEN "file_limit" ELSE "no"

Unlistable(d, depth) ==
    IF stopped # "no" THEN stopped
    ELSE IF depth > caps.depth THEN "tree_depth_limit"
    ELSE IF Full THEN "file_limit"
    ELSE IF ~Listable(d) THEN "unreadable_directory"
    ELSE IF Cardinality(In(d)) > caps.listed THEN "directory_entry_limit"
    ELSE "no"

CollectDir ==
    /\ Collecting({"tree"})
    /\ ~stack[1].opened
    /\ LET why == Unlistable(stack[1].dir, stack[1].depth)
       IN  IF why = "no"
           THEN /\ stack' = [stack EXCEPT ![1].opened = TRUE,
                                          ![1].rest = In(stack[1].dir)]
                /\ UNCHANGED limitations
           ELSE Leave /\ Limit(why)
    /\ UNCHANGED <<copy, current, totalBytes, digested, stopped>>

EndDir ==
    /\ Collecting({"tree", "hooks"})
    /\ stack[1].opened
    /\ stack[1].rest # {} => Halt # "no"
    /\ Leave
    /\ IF stack[1].rest = {} THEN UNCHANGED limitations ELSE Limit(Halt)
    /\ UNCHANGED <<copy, current, totalBytes, digested, stopped>>

Child(x) ==
    /\ Foremost(x, stack[1].rest)
    /\ Halt = "no"

Looking(x) == Collecting({"tree"}) /\ Child(x)

Vanished ==
    \E x \in Item :
        /\ Looking(x)
        /\ ~Present(x)
        /\ Limit("metadata_unavailable")
        /\ Advance(x)
        /\ UNCHANGED <<copy, current, totalBytes, digested, stopped>>

CollectLinkOrSpecial ==
    \E x \in Item :
        /\ Looking(x)
        /\ NameOf[x] # ".git"
        /\ Present(x) /\ disk[x].type \in {"link", "dirlink", "special"}
        /\ IF disk[x].type # "special"
           THEN /\ Record(x, "l", disk[x].mode, disk[x].body)
                /\ UNCHANGED limitations
           ELSE /\ Record(x, "x", disk[x].mode, <<>>)
                /\ Limit("special_file")
        /\ Advance(x)
        /\ UNCHANGED <<copy, current, totalBytes, stopped>>

Enters(x, frame) ==
    stack' = <<frame>> \o [stack EXCEPT ![1].rest = @ \ {x}]

CollectSubdirectory ==
    \E x \in Item :
        /\ Looking(x)
        /\ Holding(x, "dir")
        /\ IF NameOf[x] = ".git"
           THEN /\ Enters(x, Opened(x, "git",
                                    {Part(x, name) : name \in GitFiles}))
                /\ UNCHANGED digested
           ELSE /\ Enters(x, Unopened(x, stack[1].depth + 1))
                /\ Record(x, "d", disk[x].mode, <<>>)
        /\ UNCHANGED <<copy, current, totalBytes, limitations, stopped>>

Looked(x, kind) ==
    current' = [ path |-> x, kind |-> kind, mode |-> disk[x].mode,
                 size |-> Len(disk[x].body) ]

LookAtFile ==
    \E x \in Item :
        /\ Looking(x)
        /\ NameOf[x] # ".git"
        /\ Holding(x, "file")
        /\ Looked(x, "f")
        /\ Advance(x)
        /\ UNCHANGED <<copy, totalBytes, digested, limitations, stopped>>

\* Half of a sample may exceed what the aggregate limit leaves.
SkippedFileDigest(body, size, opens) ==
    LET limit == Least2(MaxSample, caps.total - totalBytes)
        first == SubSeq(body, 1, Least2(limit, Len(body)))
        tail == IF size > limit /\ limit > 1 THEN limit \div 2 ELSE 0
        last == SubSeq(body, Len(body) - tail + 1, Len(body))
    IN  IF opens THEN <<first, last>> ELSE << <<>>, <<>> >>

Sentinel(limit, data, sampled) ==
    /\ Record(current.path, "x", current.mode, data)
    /\ Limit(limit)
    /\ totalBytes' = totalBytes + sampled

ReadFile ==
    /\ current.kind = "f" /\ current # NoneCurrent
    /\ LET x == current.path
           body == IF Present(x) THEN disk[x].body ELSE <<>>
           opens == Present(x) /\ disk[x].opens
           sample == SkippedFileDigest(body, current.size, opens)
           sampled == Len(sample[1]) + Len(sample[2])
       IN  CASE totalBytes >= caps.total ->
                    Sentinel("aggregate_byte_limit", <<current.size>>, 0)
             [] totalBytes < caps.total /\ current.size > caps.file ->
                    Sentinel("oversize_file", <<current.size, sample>>,
                             sampled)
             [] /\ totalBytes < caps.total /\ current.size <= caps.file
                /\ totalBytes + current.size > caps.total ->
                    Sentinel("aggregate_byte_limit",
                             <<current.size, sample>>, sampled)
             [] OTHER ->
                    IF opens
                    THEN /\ Record(x, "f", current.mode, body)
                         /\ totalBytes' = totalBytes + Len(body)
                         /\ UNCHANGED limitations
                    ELSE Sentinel("unreadable_file", <<>>, 0)
    /\ current' = NoneCurrent
    /\ UNCHANGED <<copy, stack, stopped>>

(***************************************************************************)
(* The inputs of Git: config, HEAD, packed-refs (which may be missing) and *)
(* every hook.  A .git that is not a directory is read like them.          *)
(***************************************************************************)
GitKind == IF stack[1].kind = "hooks" THEN "h" ELSE "g"
Unreadable(kind) ==
    IF kind = "h" THEN "git_hook_unreadable" ELSE "git_metadata_unreadable"
OversizeOf(kind) ==
    IF kind = "h" THEN "git_hook_oversize" ELSE "git_metadata_oversize"

\* NotFound is passed over for packed-refs of a directory that is there.
NotFound(x) ==
    /\ stack[1].kind = "git" /\ NameOf[x] = "packed-refs"
    /\ \E y \in Up[x] : disk[y] = Gone /\ Reachable(y)

GitFileNext(x) ==
    /\ stack # <<>> /\ current = NoneCurrent
    /\ Foremost(x, stack[1].rest)
    /\ stack[1].kind = "tree" =>
          NameOf[x] = ".git" /\ Present(x) /\ disk[x].type # "dir"
    /\ stack[1].kind # "git" => Halt = "no"

CollectGitFile ==
    \E x \in Item :
        /\ GitFileNext(x)
        /\ IF Halt # "no" THEN Limit(Halt) /\ UNCHANGED current
           ELSE IF Holding(x, "file")
           THEN Looked(x, GitKind) /\ UNCHANGED limitations
           ELSE /\ IF NotFound(x) THEN UNCHANGED limitations
                   ELSE Limit(Unreadable(GitKind))
                /\ UNCHANGED current
        /\ Advance(x)
        /\ UNCHANGED <<copy, totalBytes, digested, stopped>>

ReadGitFile ==
    /\ current.kind \in {"g", "h"}
    /\ LET x == current.path
           kind == current.kind
           body == IF Present(x) THEN disk[x].body ELSE <<>>
           data == SubSeq(body, 1, Least2(caps.metadata, Len(body)))
           cut == IF Len(body) > caps.metadata THEN {OversizeOf(kind)} ELSE {}
       IN  CASE totalBytes >= caps.total ->
                    Sentinel("aggregate_byte_limit", <<current.size>>, 0)
             [] totalBytes < caps.total /\ ~(Present(x) /\ disk[x].opens) ->
                    /\ Limit(Unreadable(kind))
                    /\ UNCHANGED <<digested, totalBytes>>
             [] OTHER ->
                    IF totalBytes + Len(data) > caps.total
                    THEN /\ Record(x, "x", current.mode, <<Len(data)>>)
                         /\ limitations' = limitations \cup cut
                                            \cup {"aggregate_byte_limit"}
                         /\ UNCHANGED totalBytes
                    ELSE /\ Record(x, kind, current.mode, data)
                         /\ limitations' = limitations \cup cut
                         /\ totalBytes' = totalBytes + Len(data)
    /\ current' = NoneCurrent
    /\ UNCHANGED <<copy, stack, stopped>>

\* Mutant: a .git without hooks is not told from one that has none.
ListHooksQuietly ==
    /\ Collecting({"git"})
    /\ stack[1].rest = {}
    /\ LET hooks == Part(stack[1].dir, "hooks")
       IN  IF Listable(hooks)
           THEN stack' = [stack EXCEPT ![1] =
                            Opened(hooks, "hooks", In(hooks))]
           ELSE Leave
    /\ UNCHANGED <<copy, current, totalBytes, digested, limitations, stopped>>

ListHooks ==
    /\ Collecting({"git"})
    /\ stack[1].rest = {}
    /\ LET hooks == Part(stack[1].dir, "hooks")
           why == IF ~Listable(hooks) THEN "git_hooks_unreadable"
                  ELSE IF Cardinality(In(hooks)) > caps.listed
                  THEN "directory_entry_limit"
                  ELSE IF In(hooks) # {} THEN stopped ELSE "no"
       IN  IF why = "no"
           THEN /\ stack' = [stack EXCEPT ![1] =
                                Opened(hooks, "hooks", In(hooks))]
                /\ UNCHANGED limitations
           ELSE Leave /\ Limit(why)
    /\ UNCHANGED <<copy, current, totalBytes, digested, stopped>>

(***************************************************************************)
(* The world.                                                              *)
(***************************************************************************)
OutOfBudget ==
    /\ stack # <<>>
    /\ \/ stopped = "no" /\ stopped' = "collection_time_budget"
       \/ stopped # "collection_interrupted"
             /\ stopped' = "collection_interrupted"
    /\ UNCHANGED <<copy, stack, current, totalBytes, digested, limitations>>

Touch ==
    /\ stack # <<>>
    /\ Cardinality(touched) < MaxTouched
    /\ \E x \in Item \ touched : \E node \in Becomes[x] \ {disk[x]} :
          /\ Present(x)
          /\ disk' = [disk EXCEPT ![x] = node]
          /\ touched' = touched \cup {x}
    /\ UNCHANGED <<caps, stack, current, totalBytes, digested, limitations,
                   stopped>>

NothingCollected ==
    /\ touched = {} /\ current = NoneCurrent /\ totalBytes = 0
    /\ digested = [x \in Item |-> Gone] /\ limitations = {} /\ stopped = "no"

IdentityInit ==
    /\ caps \in CapSets
    /\ disk \in Disks
    /\ stack = << Unopened(PluginRoot, 0) >>
    /\ NothingCollected

IdentityNext ==
    \/ CollectDir \/ EndDir \/ Vanished \/ CollectLinkOrSpecial
    \/ CollectSubdirectory \/ LookAtFile \/ ReadFile
    \/ CollectGitFile \/ ReadGitFile \/ ListHooks
    \/ OutOfBudget \/ Touch

IdentitySpec == IdentityInit /\ [][IdentityNext]_identity

IdentityTypeOK ==
    /\ touched \subseteq Item
    /\ current.path \in Item \cup {Gone}
    /\ (current = NoneCurrent) = (current.path = Gone)
    /\ \A i \in DOMAIN stack : stack[i].dir \in Item \cup {PluginRoot}
    /\ \A x \in Collected : digested[x].kind \in {"f", "d", "l", "x", "g", "h"}

(***************************************************************************)
(* Properties.                                                             *)
(***************************************************************************)
SameAsFound(x) == Up[x] \cap touched = {}
GitOf(x) == {y \in Up[x] : NameOf[y] = ".git"}
IsRepository(x) == x \in Item /\ GitOf(x) = {x}
IsHooks(x) == x \in Item /\ NameOf[x] = "hooks" /\ IsRepository(Within[x])
IsHook(x) == IsHooks(Within[x])

\* Whether an identity speaks of x at all.
Covered(x) ==
    \/ GitOf(x) = {}
    \/ IsRepository(x) /\ ~Holding(x, "dir")
    \/ IsRepository(Within[x]) /\ NameOf[x] \in GitFiles
    \/ IsHook(x)

\* Whether x is in the plugin's own directories.  A .git may take its hooks
\* from a directory that is elsewhere: collect_git_metadata lists it through
\* the link, and no limitation says so.
InOwn(y) ==
    LeadsOn(y) /\ (disk[y].type = "dir" \/ IsHooks(y))
OfTree(x) == \A y \in Up[x] \ {x} : InOwn(y)

\* The entry of x in an identity that nothing limited.
WholeEntry(x) ==
    LET kind == IF IsHook(x) THEN "h"
                ELSE IF GitOf(x) # {} THEN "g"
                ELSE IF disk[x].type = "dir" THEN "d"
                ELSE IF disk[x].type \in {"link", "dirlink"} THEN "l"
                ELSE "f"
    IN  [ kind |-> kind, mode |-> disk[x].mode,
          data |-> IF kind = "d" THEN <<>> ELSE disk[x].body ]

Deep(x) == Cardinality(Up[x]) > caps.depth + 1
Crowded(x) ==
    \E y \in Up[x] :
        Cardinality({z \in Item : Within[z] = Within[y]
                                    /\ (Present(z) \/ z \in touched)})
            > caps.listed

\* A limitation that explains why the entry of x is not its WholeEntry.
AccountsFor(l, x) ==
    \/ l = "special_file" /\ Holding(x, "special")
    \/ l = "oversize_file" /\ Len(disk[x].body) > caps.file
    \/ l = "unreadable_file" /\ ~disk[x].opens
    \/ l = "unreadable_directory" /\ \E y \in Up[x] \ {x} : ~Listable(y)
    \/ l = "tree_depth_limit" /\ Deep(x)
    \/ l = "directory_entry_limit" /\ Crowded(x)
    \/ /\ l \in {"git_metadata_oversize", "git_hook_oversize"}
       /\ GitOf(x) # {} /\ Len(disk[x].body) > caps.metadata
    \/ /\ l \in {"git_metadata_unreadable", "git_hook_unreadable"}
       /\ GitOf(x) # {} /\ ~(Holding(x, "file") /\ disk[x].opens)
    \/ l = "git_hooks_unreadable" /\ GitOf(x) # {} /\ ~Listable(Within[x])
    \/ l \in {"aggregate_byte_limit", "file_limit",
              "collection_time_budget", "collection_interrupted"}

\* lib.rs: every bound is a visible coverage loss in `limitations`, never a
\* silent gap.  Of each path that did not change under the walk, a finished
\* identity holds the whole entry or a limitation that explains what is
\* missing, and it holds no entry that is not of the tree, except the hooks
\* that a .git takes through a link from a directory outside of it.
IdentityIsOfTree ==
    stack = <<>> =>
        \A x \in Item :
            SameAsFound(x) =>
                IF Present(x) /\ OfTree(x) /\ Covered(x)
                THEN \/ digested[x] = WholeEntry(x)
                     \/ \E l \in limitations : AccountsFor(l, x)
                ELSE digested[x] = Gone

\* Limitations that may explain the loss of anything.
AnyLoss == {"aggregate_byte_limit", "file_limit", "directory_entry_limit",
            "tree_depth_limit", "unreadable_directory",
            "collection_time_budget", "collection_interrupted"}

\* What Git gives every repository.
IsAPart(x) ==
    /\ IsRepository(Within[x]) /\ Holding(Within[x], "dir") /\ OfTree(x)
    /\ NameOf[x] \in {"config", "HEAD", "hooks"}

\* A repository without the files or the hooks directory that Git gives each
\* one is told from a repository that has them by a limitation of its own.
GitIsWhole ==
    stack = <<>> =>
        \A x \in Item :
            SameAsFound(x) /\ IsAPart(x) /\ ~Present(x) =>
                limitations \cap (AnyLoss \cup
                    {IF NameOf[x] = "hooks" THEN "git_hooks_unreadable"
                     ELSE "git_metadata_unreadable"}) # {}

\* An identity has no more entries than the limit, and of a tree that stands
\* still it holds no more bytes than the limit and half a sample, however
\* many oversized files there are.
KeptIsBounded ==
    /\ Cardinality(Collected) <= caps.files
    /\ touched = {} => totalBytes <= caps.total + MaxSample \div 2
===============================================================================
