---------------------------- MODULE ServicesProofs ----------------------------
(***************************************************************************)
(* The services side by side, as MCServices runs them: a behaviour of all  *)
(* is one of the service chosen at its start, and no other moves.  So what *)
(* is proved of a service alone holds here where the service runs, for     *)
(* every value of the constants.                                           *)
(***************************************************************************)
EXTENDS MCServices, AnalysisProofs, PluginServicesProofs, HostServicesProofs

\* The service that was chosen stays chosen.
LEMMA PartStays == [Next]_services => UNCHANGED part
BY DEF Next, services, InPosture, InSchedule, InWorkspace, InProcess,
       InCatalog, InReports, InProfile, InAnalysis, InPins, InIdentity,
       InInventory

\* A step of one service is a step of no other.
LEMMA NoneMovesAnother ==
  [Next]_services =>
     /\ part # "checks" \/ UNCHANGED posture
     /\ part # "posture" \/ [PostureNext]_posture
     /\ [ScheduleNext]_schedule /\ [WorkspaceNext]_workspace
     /\ [BoundedNext]_bounded /\ [CatalogNext]_catalogs
     /\ [SuppressionNext]_suppression /\ [ReviewProfileNext]_profile
     /\ [AnalysisNext]_payload /\ [PinsNext]_pins /\ [IdentityNext]_identity
     /\ [InventoryNext]_inventory
BY DEF Next, services, hostSide, pluginSide, InPosture, InSchedule,
       InWorkspace, InProcess, InCatalog, InReports, InProfile, InAnalysis,
       InPins, InIdentity, InInventory

LEMMA ChecksAlone ==
  Spec => \/ []~(part = "checks")
          \/ [](part = "checks") /\ PostureSpec
<1>1. Init /\ part = "checks" => PostureInit
  BY DEF Init
<1>2. [Next]_services /\ part = "checks" => [PostureNext]_posture
  BY NoneMovesAnother
<1>3. [Next]_services => ((part = "checks") <=> (part = "checks")')
  BY PartStays
<1> QED BY <1>1, <1>2, <1>3, PTL DEF Spec, PostureSpec

LEMMA AnalysisAlone ==
  Spec => \/ []~(part = "analysis")
          \/ [](part = "analysis") /\ AnalysisSpec
<1>1. Init /\ part = "analysis" => AnalysisInit
  BY DEF Init
<1>2. [Next]_services => [AnalysisNext]_payload
  BY NoneMovesAnother
<1>3. [Next]_services => ((part = "analysis") <=> (part = "analysis")')
  BY PartStays
<1> QED BY <1>1, <1>2, <1>3, PTL DEF Spec, AnalysisSpec

LEMMA IdentityAlone ==
  Spec => \/ []~(part = "identity")
          \/ [](part = "identity") /\ IdentitySpec
<1>1. Init /\ part = "identity" => IdentityInit
  BY DEF Init
<1>2. [Next]_services => [IdentityNext]_identity
  BY NoneMovesAnother
<1>3. [Next]_services => ((part = "identity") <=> (part = "identity")')
  BY PartStays
<1> QED BY <1>1, <1>2, <1>3, PTL DEF Spec, IdentitySpec

LEMMA InventoryAlone ==
  Spec => \/ []~(part = "inventory")
          \/ [](part = "inventory") /\ InventorySpec
<1>1. Init /\ part = "inventory" => InventoryInit
  BY DEF Init
<1>2. [Next]_services => [InventoryNext]_inventory
  BY NoneMovesAnother
<1>3. [Next]_services => ((part = "inventory") <=> (part = "inventory")')
  BY PartStays
<1> QED BY <1>1, <1>2, <1>3, PTL DEF Spec, InventorySpec

LEMMA ProfileAlone ==
  Spec => \/ []~(part = "profile")
          \/ [](part = "profile") /\ ReviewProfileSpec
<1>1. Init /\ part = "profile" => ReviewProfileInit
  BY DEF Init
<1>2. [Next]_services => [ReviewProfileNext]_profile
  BY NoneMovesAnother
<1>3. [Next]_services => ((part = "profile") <=> (part = "profile")')
  BY PartStays
<1> QED BY <1>1, <1>2, <1>3, PTL DEF Spec, ReviewProfileSpec

\* What is collected of plugin directories is what is there, or what is
\* missing is told: the analysis of a plugin, its identity and the inventory.
THEOREM WalksHonest == Spec => []WalksAreHonest
<1>1. AnalysisSpec => [](ReadsAreOfInventory /\ LossIsDisclosed)
  BY AnalysisReadsInventory, AnalysisDisclosesLoss, PTL
<1>2. IdentitySpec => [](IdentityIsOfTree /\ GitIsWhole /\ KeptIsBounded)
  BY IdentityTellsTree, RepositoryIsWhole, IdentityIsBounded, PTL
<1>3. InventorySpec => [](InventoryFollowsShell /\ BarsAreCounted)
  BY ShellIsFollowed, BarsAreRight, PTL
<1>4. Spec => []((part = "analysis") => ReadsAreOfInventory /\ LossIsDisclosed)
  BY <1>1, AnalysisAlone, PTL
<1>5. Spec => []((part = "identity") =>
                    IdentityIsOfTree /\ GitIsWhole /\ KeptIsBounded)
  BY <1>2, IdentityAlone, PTL
<1>6. Spec => []((part = "inventory") =>
                    InventoryFollowsShell /\ BarsAreCounted)
  BY <1>3, InventoryAlone, PTL
<1> QED BY <1>4, <1>5, <1>6, PTL DEF WalksAreHonest

\* A rendered analysis tells exactly what it leaves out, lists no finding while
\* it leaves out a more severe one, and no rule twice while another of that
\* severity is not listed at all.
THEOREM ReportsHonest == Spec => []ReportsAddUp
<1>1. ReviewProfileSpec => [](OmissionsAddUp /\ SelectionIsFair)
  BY OmissionsAreTold, SelectionsAreFair, PTL
<1> QED BY <1>1, ProfileAlone, PTL DEF ReportsAddUp

\* On every host whose tools say what is so where they say anything, each
\* verdict says what the host is, and a command that cannot be run makes none
\* pass.
THEOREM ChecksSound == Spec => []ChecksAreSound
<1>1. PostureSpec => [](VerdictsAreTrue /\ LossOnlyHides)
  BY VerdictsHold, LossIsHidden, PTL
<1> QED BY <1>1, ChecksAlone, PTL DEF ChecksAreSound

\* Where the posture scan runs, it runs on a host that is healthy at first.
LEMMA PostureAlone ==
  Spec => \/ []~(part = "posture")
          \/ [](part = "posture") /\ PostureSpec
<1>1. Init /\ part = "posture" => PostureInit
  BY HealthyIsAHost DEF Init, PostureInit
<1>2. [Next]_services /\ part = "posture" => [PostureNext]_posture
  BY NoneMovesAnother
<1>3. [Next]_services => ((part = "posture") <=> (part = "posture")')
  BY PartStays
<1> QED BY <1>1, <1>2, <1>3, PTL DEF Spec, PostureSpec

\* Services that begin in the same states whichever was chosen.
LEMMA OthersAlone ==
  Spec => /\ ScheduleSpec /\ WorkspaceSpec /\ BoundedSpec
          /\ CatalogSpec /\ PinsSpec
<1>1. Init => /\ ScheduleInit /\ WorkspaceInit /\ BoundedInit
              /\ CatalogInit /\ PinsInit
  BY DEF Init
<1>2. [Next]_services => /\ [ScheduleNext]_schedule
                         /\ [WorkspaceNext]_workspace
                         /\ [BoundedNext]_bounded /\ [CatalogNext]_catalogs
                         /\ [PinsNext]_pins
  BY NoneMovesAnother
<1> QED BY <1>1, <1>2, PTL DEF Spec, ScheduleSpec, WorkspaceSpec,
                               BoundedSpec, CatalogSpec, PinsSpec

\* The reports are made of suppressions, declared beforehand.
Declaring == part \in {"declarations", "reports"}

LEMMA DeclarationsTyped == Spec => [](Declaring => SuppressionTypeOK)
<1>1. Init => (Declaring => SuppressionTypeOK)
  <2> SUFFICES ASSUME Init, Declaring PROVE SuppressionTypeOK
    OBVIOUS
  <2>1. NothingSuppressed
    BY DEF Init, Declaring, SuppressionInit
  <2>2. document \in Documents \/ document \in SomeDocuments
    BY DEF Init, Declaring, SuppressionInit
  <2>3. 1 \in DOMAIN document
    <3>1. CASE document \in Documents
      <4>1. Len(document) \in Nat \ {0} /\ DOMAIN document = 1..Len(document)
        BY <3>1, DeclarationsAreTyped
      <4> QED BY <4>1
    <3>2. CASE document \in SomeDocuments
      <4>1. PICK a, b, c, d : document = <<a, b, c, d>>
        BY <3>2 DEF SomeDocuments
      <4> QED BY <4>1
    <3> QED BY <2>2, <3>1, <3>2
  <2> QED BY <2>1, <2>3, SuppressionBounds
          DEF NothingSuppressed, SuppressionTypeOK
<1>2. (Declaring => SuppressionTypeOK) /\ [Next]_services
         => (Declaring => SuppressionTypeOK)'
  BY NoneMovesAnother, PartStays, SuppressionTyping DEF Declaring
<1> QED BY <1>1, <1>2, PTL DEF Spec

\* Each service keeps its state in its type, for every value of the
\* constants.
THEOREM ServicesTyped == Spec => []ServicesTypeOK
<1>1. Spec => [](/\ ScheduleTypeOK /\ WorkspaceTypeOK /\ BoundedTypeOK
                 /\ CatalogTypeOK /\ PinsTypeOK)
  BY OthersAlone, ScheduleTypes, WorkspaceTypes, BoundedTypes, CatalogTyping,
     PinsComplete, PTL
<1>2. Spec => []((part = "checks") \/ (part = "posture") => PostureTypeOK)
  BY ChecksAlone, PostureAlone, PostureTypes, PTL
<1>3. Spec => []((part = "profile") => ReviewProfileTypeOK)
  BY ProfileAlone, ProfileTypes, PTL
<1>4. Spec => []((part = "analysis") => AnalysisTypeOK)
  BY AnalysisAlone, AnalysisTypes, PTL
<1>5. Spec => []((part = "identity") => IdentityTypeOK)
  BY IdentityAlone, IdentityTypes, PTL
<1>6. Spec => []((part = "inventory") => InventoryTypeOK)
  BY InventoryAlone, InventoryTypes, PTL
<1>7. /\ ScheduleTypeOK /\ WorkspaceTypeOK /\ BoundedTypeOK
      /\ CatalogTypeOK /\ PinsTypeOK
      /\ (part = "checks") \/ (part = "posture") => PostureTypeOK
      /\ (part = "profile") => ReviewProfileTypeOK
      /\ (part = "analysis") => AnalysisTypeOK
      /\ (part = "identity") => IdentityTypeOK
      /\ (part = "inventory") => InventoryTypeOK
      /\ Declaring => SuppressionTypeOK
      => ServicesTypeOK
  BY DEF ServicesTypeOK, Declaring
<1> QED BY <1>1, <1>2, <1>3, <1>4, <1>5, <1>6, <1>7, DeclarationsTyped, PTL
===============================================================================
