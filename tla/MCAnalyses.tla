------------------------------ MODULE MCAnalyses ------------------------------
(***************************************************************************)
(* Instances for the analysis of a plugin: the trees it walks and what     *)
(* their files may become, the same for its identity and for the inventory *)
(* of all plugins, the analyses whose reports are rendered, and the        *)
(* candidates of scan-plugin.                                              *)
(***************************************************************************)
EXTENDS PayloadAnalysis, ReviewProfile, PinnedCache, ContentIdentity,
        PluginInventory

(***************************************************************************)
(* PayloadAnalysis: a directory of two files, three files beside it, and a *)
(* .git with a script.  The loads in "main" and in "d/run" are of "d/bin". *)
(***************************************************************************)
Paths3 == << "d", "d/.git", "d/.git/h", "d/bin", "d/run", "main", "manifest",
             "odd" >>
InDirectory ==
    [x \in ToSet(Paths3) |->
        CASE x \in {"d/bin", "d/run", "d/.git"} -> "d"
          [] x = "d/.git/h" -> "d/.git"
          [] OTHER -> "top"]
Spelling ==
    [x \in ToSet(Paths3) |->
        CASE x = "main" -> "qml"
          [] x = "d/.git" -> "git"
          [] x \in {"manifest", "odd"} -> x
          [] OTHER -> "other"]
Loads == [x \in ToSet(Paths3) |-> << "d/bin" >>]

Anything(type, body, exec, opens) ==
    [type |-> type, body |-> body, exec |-> exec, opens |-> opens]
File(body) == Anything("file", body, FALSE, TRUE)
Program(body) == Anything("file", body, TRUE, TRUE)
Closed(body) == Anything("file", body, FALSE, FALSE)
Special(type) == Anything(type, << "plain" >>, FALSE, TRUE)

Tree(bin, run, main, manifest, odd) ==
    [x \in ToSet(Paths3) |->
        CASE x = "d" -> Special("dir")
          [] x = "d/bin" -> bin
          [] x = "d/run" -> run
          [] x = "main" -> main
          [] x = "manifest" -> manifest
          [] x = "odd" -> odd
          [] OTHER -> Void]
\* The repository of a directory.
Cloned(plain) == [plain EXCEPT !["d/.git"] = Special("dir"),
                               !["d/.git/h"] = File(<<"sh", "evil">>)]
AllTrees ==
    { Tree(File(<<"elf">>), File(<<"sh", "ref">>), File(<<"ref", "evil">>),
           Void, Void),
      Tree(Program(<<"elf", "plain", "plain">>), Program(<<"sh", "evil">>),
           File(<<"ref">>), File(<<"evil">>), Void),
      Tree(File(<<"zip">>), Special("special"), File(<<"junk", "evil">>),
           File(<<"junk">>), File(<<"evil">>)),
      Tree(File(<<"node">>), File(<<"plain">>),
           File(<<"evil", "ref", "plain">>), Void, Void),
      Cloned(Tree(Program(<<"node", "plain">>), Void, File(<<"ref">>), Void,
                  Void)),
      Tree(Special("link"), Void, File(<<"ref", "evil">>), File(<<"evil">>),
           Void),
      Tree(Program(<<"plain">>), Closed(<<"sh", "evil">>),
           File(<<"plain", "bad", "evil">>), Void, Void) }
AllEdits ==
    [x \in ToSet(Paths3) |->
        CASE x = "d" -> {Void}
          [] x = "main" -> { Void, File(<<"plain", "evil">>),
                             File(<<"evil", "plain", "plain">>),
                             Special("link") }
          [] x = "d/bin" -> {File(<<"elf">>), File(<<"sh", "evil">>)}
          [] x = "d/run" -> {File(<<"plain">>)}
          [] OTHER -> {}]
Limited(files, file, total, depth) ==
    [files |-> files, file |-> file, total |-> total, depth |-> depth]
AllLimits == { Limited(9, 2, 9, 1), Limited(2, 3, 9, 1), Limited(9, 2, 3, 1),
               Limited(9, 3, 9, 0) }

(***************************************************************************)
(* ReviewProfile: up to five findings of six kinds, in canonical order.    *)
(***************************************************************************)
Finding(severity, rule, path, steps, wide) ==
    [ severity |-> severity, rule |-> rule, path |-> path, steps |-> steps,
      shown |-> steps, wide |-> wide, truncated |-> FALSE ]
Kinds == << Finding(2, 1, 1, 1, 0), Finding(2, 1, 1, 2, 1),
            Finding(2, 2, 1, 2, 2), Finding(2, 1, 2, 1, 0),
            Finding(1, 1, 1, 1, 1), Finding(1, 2, 2, 1, 0) >>
Bags ==
    {m \in [1..6 -> 0..2] :
        /\ m[1] + m[2] + m[3] + m[4] + m[5] + m[6] \in {0, 1, 4, 5}
        /\ m[2] = 0 \/ m[3] = 0
        /\ m[5] # 1}
ListOf(m) == FlattenSeq([k \in 1..6 |-> [n \in 1..m[k] |-> Kinds[k]]])
Rendered(findings, suppressed, classes, edge, gap, entries, envelope) ==
    [ findings |-> findings, suppressed |-> suppressed,
      capabilities |-> classes, invocation_edges |-> edge,
      coverage_gaps |-> gap, code_exposure |-> 2, entries |-> entries,
      envelope |-> envelope ]
AllReports ==
    {Rendered(ListOf(m), 0, c, 2, 2, 1, 0) :
        m \in Bags, c \in {<<>>, << "x", "y", "x" >>}}
    \cup
    {Rendered(<<Kinds[k]>>, n, <<>>, e, g, n, v) :
        k \in {1, 2}, n \in 0..1, e \in {0, 5}, g \in 0..1, v \in {0, 4}}

(***************************************************************************)
(* PinnedCache: two sources that share a revision, one of them with one of *)
(* either format.  A revision is asked of a source that never had it.      *)
(***************************************************************************)
Formats == [r \in Pin |-> IF r = "r3" THEN "sha256" ELSE "sha1"]
EverHas == [u \in Source |-> IF u = "a" THEN {"r1", "r2"} ELSE {"r1", "r3"}]
ManifestsOf == [r \in Pin |-> {[root |-> "x", plugin |-> "suite"]}]
Wish(how, source, rev, plugin) ==
    [how |-> how, source |-> source, rev |-> rev, plugin |-> plugin]
Asking(flags, host) ==
    [ how |-> "request", plugin |-> Unmade,
      request |->
        [ command |-> "add", flags |-> flags,
          url |-> [ scheme |-> "https", host |-> host, segments |-> 2,
                    query |-> FALSE, slashes |-> 1, git |-> 1,
                    source |-> "a" ] ] ]
AllWishes ==
    { Wish("exact", "a", "r3", Unmade), Wish("listing", "b", "r3", "suite"),
      Asking(<<"yes", "enable">>, "github.com"),
      Asking(<<"yes", "yes">>, "github.com"), Asking(<<>>, "forge") }

(***************************************************************************)
(* ContentIdentity: a repository with two hooks, a directory and two files *)
(* beside it.                                                              *)
(***************************************************************************)
Items11 == << "git", "git/HEAD", "git/config", "git/hooks", "git/hooks/h",
              "git/hooks/i", "git/packed", "lib", "lib/x", "qml", "sub" >>
Visits == [Items11 EXCEPT ![2] = "git/config", ![3] = "git/HEAD"]
ItemIn ==
    [x \in ToSet(Items11) |->
        CASE x \in {"git/HEAD", "git/config", "git/hooks", "git/packed"} ->
                "git"
          [] x \in {"git/hooks/h", "git/hooks/i"} -> "git/hooks"
          [] x = "lib/x" -> "lib"
          [] OTHER -> "root"]
ItemNames ==
    [x \in ToSet(Items11) |->
        CASE x = "git" -> ".git"
          [] x = "git/HEAD" -> "HEAD"
          [] x = "git/config" -> "config"
          [] x = "git/hooks" -> "hooks"
          [] x = "git/packed" -> "packed-refs"
          [] OTHER -> "any"]

Thing(type, body, opens) ==
    [type |-> type, body |-> body, mode |-> 1, opens |-> opens]
Folder == Thing("dir", <<>>, TRUE)
Text(body) == Thing("file", body, TRUE)
Locked(body) == Thing("file", body, FALSE)
Link(body) == Thing("link", body, TRUE)
Elsewhere(body) == Thing("dirlink", body, TRUE)

Disk(things) ==
    [x \in ToSet(Items11) |->
        things[CHOOSE k \in DOMAIN Items11 : Items11[k] = x]]
AllDisks ==
    { Disk(<< Folder, Text(<<1>>), Text(<<2>>), Folder, Text(<<3>>), Gone,
              Gone, Folder, Text(<<4>>), Text(<<5, 6>>), Gone >>),
      Disk(<< Folder, Text(<<1, 2, 3>>), Locked(<<2>>), Folder,
              Text(<<3, 4, 5>>), Locked(<<3>>), Text(<<6>>), Folder,
              Link(<<4>>), Locked(<<5>>), Thing("special", <<>>, TRUE) >>),
      Disk(<< Text(<<7>>), Gone, Gone, Gone, Gone, Gone, Gone,
              Thing("dir", <<>>, FALSE), Text(<<4>>), Text(<<5, 6, 7, 8>>),
              Text(<<9, 9>>) >>),
      Disk(<< Folder, Text(<<1>>), Gone, Gone, Gone, Gone, Gone, Folder,
              Text(<<1, 2, 3, 4>>), Text(<<5, 6, 7>>), Text(<<9, 9>>) >>),
      Disk(<< Elsewhere(<<1>>), Text(<<1>>), Gone, Gone, Gone, Gone, Gone,
              Elsewhere(<<3>>), Text(<<4>>), Link(<<2>>), Gone >>),
      Disk(<< Folder, Text(<<1>>), Text(<<1>>), Elsewhere(<<1>>), Text(<<3>>),
              Gone, Text(<<1>>), Gone, Gone, Text(<<2>>), Gone >>),
      Disk(<< Folder, Link(<<1>>), Text(<<1>>), Folder, Folder, Text(<<1>>),
              Gone, Gone, Gone, Text(<<5, 6>>), Text(<<7>>) >>) }
AllBecomes ==
    [x \in ToSet(Items11) |->
        CASE x = "qml" -> {Gone, Text(<<5, 6, 7>>), Link(<<5>>)}
          [] x = "lib" -> {Gone, Elsewhere(<<1>>)}
          [] x = "git/hooks/h" -> {Gone, Text(<<1>>), Locked(<<1>>)}
          [] x = "git/hooks" -> {Gone}
          [] x = "git" -> {Gone, Text(<<1>>)}
          [] OTHER -> {}]
Caps(files, total, file, metadata, depth, most) ==
    [ files |-> files, total |-> total, file |-> file, metadata |-> metadata,
      depth |-> depth, listed |-> most ]
AllCaps == { Caps(9, 6, 3, 2, 1, 4), Caps(9, 4, 2, 1, 0, 4),
             Caps(9, 9, 3, 3, 1, 3), Caps(3, 9, 3, 3, 1, 4),
             Caps(9, 9, 9, 9, 1, 1) }

(***************************************************************************)
(* PluginInventory: two directories and a backup.                          *)
(***************************************************************************)
Installed(type, id, sound, kinds, git, limited) ==
    [ type |-> type, id |-> id, sound |-> sound, kinds |-> kinds, git |-> git,
      limited |-> limited ]
OfX == Installed("dir", "x", TRUE, "bar", "none", FALSE)
Behind == Installed("link", "x", TRUE, "bar", "none", FALSE)
Copies ==
    { OfX, Behind, NoFolder,
      Installed("dir", "y", TRUE, "none", "whole", TRUE),
      Installed("dir", "y", FALSE, "bar", "none", FALSE),
      Installed("dir", NoFolder, FALSE, "none", "none", FALSE),
      Installed("dir", "z", TRUE, "other", "headless", FALSE) }
AllLayouts ==
    {w \in [{"x", "y", "x.bak"} -> Copies] : w["x.bak"] \in {OfX, NoFolder}}
AllRedeployed ==
    [n \in {"x", "y", "x.bak"} |->
        IF n = "x"
        THEN { OfX, Behind,
               Installed("gone", NoFolder, FALSE, "none", "none", FALSE) }
        ELSE {}]
Says(active, bar, firstParty, cloned) ==
    [ active |-> active, bar |-> bar, firstParty |-> firstParty,
      cloned |-> cloned ]
AllAnswers ==
    {Silent} \cup [{"x"} -> {Says(TRUE, TRUE, FALSE, "url")}] \cup
    [{"x", "y"} -> { Says(TRUE, TRUE, FALSE, "url"),
                     Says(FALSE, TRUE, TRUE, "none"),
                     Says(TRUE, FALSE, FALSE, "empty") }]
===============================================================================
