------------------------------ MODULE MCServices ------------------------------
(***************************************************************************)
(* The services around the plugin commands, which share no state with one  *)
(* another, checked side by side: a behaviour is one of a single service,  *)
(* chosen at the start, and each invariant is judged where its service     *)
(* runs.  The checks of a posture scan and the declarations of a release   *)
(* are judged on every host and document of the sets below, without steps. *)
(***************************************************************************)
EXTENDS Posture, MCPostureHosts, Schedule, ReviewWorkspace, BoundedProcess,
        CatalogCache, Suppressions, MCAnalyses, TLC

CONSTANTS p, q,         \* processes of any service
          solo,         \* one that runs alone
          sweepP, sweepQ,
          com1, com2, com3, com4, fork,
          pluginA, pluginB,
          ruleA, ruleB,
          older, newer

VARIABLE part

(***************************************************************************)
(* ReviewWorkspace: a runtime directory of every kind, or none and a cache *)
(* that is in order, does not exist yet, or of which one part is not safe. *)
(***************************************************************************)
DirectoryKind == {"missing", "private", "ours", "open", "link"}
OrdinaryCache == [cache |-> "ours", cacheOmasafe |-> "ours",
                  cacheTmp |-> "private"]
Caches ==
    { OrdinaryCache, [k \in DOMAIN OrdinaryCache |-> "missing"] }
    \cup {[OrdinaryCache EXCEPT ![k] = d] :
            k \in DOMAIN OrdinaryCache, d \in {"open", "link"}}
AllPlaces ==
    { OrdinaryCache @@ [runtime |-> "private", runtimeBase |-> b] :
        b \in DirectoryKind }
    \cup { OrdinaryCache @@ [runtime |-> d, runtimeBase |-> "missing"] :
            d \in DirectoryKind \ {"open"} }
    \cup { c @@ [runtime |-> Nobody, runtimeBase |-> "missing"] :
            c \in Caches }

(***************************************************************************)
(* CatalogCache: four commits in a row, the last not a catalog, and a fork *)
(* of the first.  Listings differ in how they spell one repository.        *)
(***************************************************************************)
Url(scheme, site, git, slashes) ==
    [ scheme |-> scheme, credentials |-> FALSE, host |-> site, www |-> FALSE,
      name |-> "o/r", segments |-> 2, query |-> FALSE, git |-> git,
      slashes |-> slashes ]
Entry(id, repo, listing, layout) ==
    [id |-> id, repo |-> repo, listing |-> listing, layout |-> layout]
History ==
    [c \in Commit |->
        CASE c = com1 -> {com1}
          [] c = com2 -> {com1, com2}
          [] c = com3 -> {com1, com2, com3}
          [] c = com4 -> {com1, com2, com3, com4}
          [] c = fork -> {com1, fork}]
SuiteB(scheme, git, slashes, layout) ==
    Entry(pluginB, Url(scheme, "forge", git, slashes), "h2", layout)
RootA(scheme, git, slashes, layout) ==
    Entry(pluginA, Url(scheme, "github.com", git, slashes), "h1", layout)
Lists ==
    [c \in Commit |->
        CASE c = com1 -> << RootA("scp", 1, 0, "root-plugin"),
                            SuiteB("https", 1, 1, "suite") >>
          [] c = com2 -> << RootA("https", 0, 1, "root-plugin"),
                            RootA("ssh", 0, 0, "root-plugin"),
                            SuiteB("http", 1, 1, "suite") >>
          [] c = com3 -> << RootA("https", 2, 1, "root-plugin"),
                            SuiteB("https", 0, 0, "monorepo") >>
          [] c = com4 -> Garbage
          [] c = fork -> << RootA("scp", 1, 0, "theme"),
                            SuiteB("https", 1, 1, "suite") >>]

(***************************************************************************)
(* Suppressions: two plugins' findings in two directories, and releases    *)
(* whose declarations change a rule, change it back, or leave it.          *)
(***************************************************************************)
Declaration(baseline, class, affected, a, b) ==
    [ baseline |-> baseline, class |-> class, affected |-> affected,
      digests |-> [r \in Rule |-> IF r = ruleA THEN a[1] ELSE b[1]],
      revisions |-> [r \in Rule |-> IF r = ruleA THEN a[2] ELSE b[2]] ]
Root == Declaration(Nothing, "semantic-change", Rule, <<1, 1>>, <<1, 1>>)
Successors(i) ==
    {Declaration(b, k[1], k[2], <<d, n>>, <<1, 1>>) :
        b \in 1..i, d \in 1..2, n \in 1..3,
        k \in {<<"review-compatible", {}>>, <<"semantic-change", {ruleA}>>}}
OtherRule ==
    { Declaration(1, "semantic-change", {ruleB}, <<1, 1>>, <<2, 2>>),
      Declaration(1, "review-compatible", {}, <<1, 1>>, <<1, 2>>) }
EveryDocument ==
    {<<Root, d2, d3, d4>> : d2 \in Successors(1) \cup OtherRule,
                            d3 \in Successors(2), d4 \in Successors(3)}
Changed(baseline, a) ==
    Declaration(baseline, "semantic-change", {ruleA}, a, <<1, 1>>)
Unchanged(baseline, a) ==
    Declaration(baseline, "review-compatible", {}, a, <<1, 1>>)
SomeDocuments ==
    { << Root, Unchanged(1, <<1, 1>>), Changed(2, <<2, 2>>),
         Changed(3, <<1, 3>>) >> }
AllDocuments == SomeDocuments \cup EveryDocument
Shows ==
    [v \in Version |->
        IF v = older
        THEN {<<ruleA, <<"ui", "x">>>>, <<ruleB, <<"uix">>>>}
        ELSE {<<ruleA, <<"uix">>>>}]
Directories == {<<"ui">>}

(***************************************************************************)
(* The parts.                                                              *)
(***************************************************************************)
\* A posture scan may begin on a host where every check is at its best.
ASSUME HealthyIsAHost == Healthy \in Host

NoProfile ==
    rendering = "emitted" /\ style = "full" /\ NotRendered(Rendered(
        <<>>, 0, <<>>, 0, 0, 0, 0))
NoAnalysis ==
    /\ tree = [x \in Path |-> Void]
    /\ front = "git" /\ base = Top /\ limit = Limited(9, 2, 9, 1)
    /\ NothingAnalyzed
NoIdentity ==
    /\ caps = Caps(9, 9, 9, 9, 1, 1)
    /\ disk = [x \in Item |-> Gone]
    /\ stack = <<>>
    /\ NothingCollected
NoInventory ==
    /\ folders = [name \in FolderName |-> NoFolder]
    /\ answer = Silent /\ target = Everything
    /\ NothingListed

Init ==
    /\ part \in {"checks", "posture", "schedule", "workspace", "process",
                 "catalog", "declarations", "reports", "profile", "analysis",
                 "pins", "identity", "inventory"}
    /\ IF part = "checks" THEN PostureInit
       ELSE /\ host = IF part = "posture" THEN Healthy ELSE None
            /\ NoScanYet
    /\ CASE part = "declarations" -> SuppressionInit /\ version = older
         [] part = "reports" -> document \in SomeDocuments
                               /\ NothingSuppressed
         [] OTHER -> document = <<Root>> /\ version = older
                     /\ NothingSuppressed
    /\ place \in IF part = "workspace" THEN Places
                 ELSE {CHOOSE x \in Places : TRUE}
    /\ IF part = "profile" THEN ReviewProfileInit ELSE NoProfile
    /\ IF part = "analysis" THEN AnalysisInit ELSE NoAnalysis
    /\ IF part = "identity" THEN IdentityInit ELSE NoIdentity
    /\ IF part = "inventory" THEN InventoryInit ELSE NoInventory
    /\ ScheduleInit /\ (part # "schedule" => metadata = Absent)
    /\ WorkspaceInit /\ BoundedInit /\ CatalogInit /\ PinsInit

hostSide == <<posture, schedule, workspace, bounded>>
pluginSide == <<catalogs, suppression, profile, payload, pins, identity,
                inventory>>

InPosture == part = "posture" /\ PostureNext
             /\ UNCHANGED <<schedule, workspace, bounded, pluginSide, part>>
InSchedule == part = "schedule" /\ ScheduleNext
              /\ UNCHANGED <<posture, workspace, bounded, pluginSide, part>>
InWorkspace == part = "workspace" /\ WorkspaceNext
               /\ UNCHANGED <<posture, schedule, bounded, pluginSide, part>>
InProcess == part = "process" /\ BoundedNext
             /\ UNCHANGED <<posture, schedule, workspace, pluginSide, part>>
InCatalog == part = "catalog" /\ CatalogNext
             /\ UNCHANGED <<hostSide, suppression, profile, payload, pins,
                            identity, inventory, part>>
InReports == part = "reports" /\ SuppressionNext
             /\ UNCHANGED <<hostSide, catalogs, profile, payload, pins,
                            identity, inventory, part>>
InProfile == part = "profile" /\ ReviewProfileNext
             /\ UNCHANGED <<hostSide, catalogs, suppression, payload, pins,
                            identity, inventory, part>>
InAnalysis == part = "analysis" /\ AnalysisNext
              /\ UNCHANGED <<hostSide, catalogs, suppression, profile, pins,
                             identity, inventory, part>>
InPins == part = "pins" /\ PinsNext
          /\ UNCHANGED <<hostSide, catalogs, suppression, profile, payload,
                         identity, inventory, part>>
InIdentity == part = "identity" /\ IdentityNext
              /\ UNCHANGED <<hostSide, catalogs, suppression, profile, payload,
                             pins, inventory, part>>
InInventory == part = "inventory" /\ InventoryNext
               /\ UNCHANGED <<hostSide, catalogs, suppression, profile,
                              payload, pins, identity, part>>

Next == InPosture \/ InSchedule \/ InWorkspace \/ InProcess \/ InCatalog
        \/ InReports \/ InProfile \/ InAnalysis \/ InPins \/ InIdentity
        \/ InInventory

services == <<hostSide, pluginSide, part>>
Spec == Init /\ [][Next]_services

Symmetric == Permutations({p, q}) \cup Permutations(Sweeper)

\* Every service keeps its state in its type.
ServicesTypeOK ==
    /\ part \in {"checks", "posture"} => PostureTypeOK
    /\ part = "schedule" => ScheduleTypeOK
    /\ part = "workspace" => WorkspaceTypeOK
    /\ part = "process" => BoundedTypeOK
    /\ part = "catalog" => CatalogTypeOK
    /\ part = "profile" => ReviewProfileTypeOK
    /\ part = "analysis" => AnalysisTypeOK
    /\ part = "pins" => PinsTypeOK
    /\ part = "identity" => IdentityTypeOK
    /\ part = "inventory" => InventoryTypeOK
    /\ part \in {"declarations", "reports"} => SuppressionTypeOK

\* VerdictsAreTrue and LossOnlyHides of every host.
ChecksAreSound == part = "checks" => VerdictsAreTrue /\ LossOnlyHides

\* OmissionsAddUp and SelectionIsFair of every rendered analysis.
ReportsAddUp == part = "profile" => OmissionsAddUp /\ SelectionIsFair

\* What is collected of plugin directories: ReadsAreOfInventory and
\* LossIsDisclosed of the analysis of one; IdentityIsOfTree, GitIsWhole and
\* KeptIsBounded of its identity; InventoryFollowsShell and BarsAreCounted of
\* the inventory of all.
WalksAreHonest ==
    /\ part = "analysis" => ReadsAreOfInventory /\ LossIsDisclosed
    /\ part = "identity" => IdentityIsOfTree /\ GitIsWhole /\ KeptIsBounded
    /\ part = "inventory" => InventoryFollowsShell /\ BarsAreCounted
===============================================================================
