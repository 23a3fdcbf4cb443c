------------------------- MODULE PluginServicesProofs -------------------------
(***************************************************************************)
(* Proofs about what stands around the plugin commands: the catalog        *)
(* (CatalogInv), the declarations of a release (LineageIsSound), the       *)
(* suppressions with the cached reports (SuppressionInv), the pinned       *)
(* revisions of candidate sources and the quota of their cache (PinInv,    *)
(* QuotaInv), the inventory of plugins (InventoryInv), the bounds of an    *)
(* identity (IdentityInv) and what it tells of a tree (TreeInv), and how a *)
(* report is shortened (ProfileInv), each for any number of actors,        *)
(* documents, revisions, files, faults and findings.  They share no state. *)
(***************************************************************************)
EXTENDS CatalogCache, Suppressions, PinnedCache, PluginInventory,
        ContentIdentity, ReviewProfile, SequenceTheorems, FiniteSetTheorems,
        WellFoundedInduction, TLAPS

\* The least of some natural numbers.
LEMMA LeastNatural ==
  ASSUME NEW T \in SUBSET Nat, T # {}
  PROVE  \E k \in T : \A m \in T : k <= m
  <1> DEFINE Less == OpToRel(<, Nat)
  <1>1. IsWellFoundedOn(Less, Nat)
    BY NatLessThanWellFounded
  <1>2. \A a, b \in Nat : a < b => <<a, b>> \in Less
    BY DEF OpToRel
  <1> HIDE DEF Less
  <1>3. PICK k \in T : \A m \in T : ~ (<<m, k>> \in Less)
    BY <1>1, WFMin, Zenon
  <1>4. ASSUME NEW m \in T PROVE k <= m
    <2>1. m \in Nat /\ k \in Nat
      OBVIOUS
    <2>2. <<m, k>> \notin Less
      BY <1>3
    <2>3. ~(m < k)
      BY <1>2, <2>1, <2>2
    <2> QED BY <2>1, <2>3
  <1> QED BY <1>4

(***************************************************************************)
(* CatalogCache.  The metadata names a commit that was recorded, and a     *)
(* reader judges what it read by it; while nothing overlaps and the record *)
(* is whole, the record is of the last commit accepted.                    *)
(***************************************************************************)
CatalogTyped ==
    /\ accepted \in Seq(Commit)
    /\ DOMAIN refresh = Refresh /\ DOMAIN reader = Reader
    /\ \A r \in Refresh :
          refresh[r].pc # "idle" => refresh[r].commit \in Commit

FilesAreRecorded ==
    /\ meta \notin {NoFile, Garbage} => meta.commit \in Range(accepted)
    /\ \A r \in Reader :
          /\ reader[r].pc = "catalog" =>
                reader[r].meta.commit \in Range(accepted)
          /\ reader[r].snapshot # NoFile /\ reader[r].snapshot.verified =>
                /\ reader[r].snapshot.entries
                      = Contents[reader[r].snapshot.commit]
                /\ reader[r].snapshot.entries # Garbage
                /\ reader[r].snapshot.commit \in Range(accepted)

LastIsRecorded ==
    /\ \A q, r \in Refresh :
          refresh[q].pc # "idle" /\ refresh[r].pc # "idle" => q = r
    /\ \A i, j \in DOMAIN accepted :
          i < j => accepted[i] \in Precedes[accepted[j]]
    /\ accepted # <<>> =>
          meta \notin {NoFile, Garbage} /\ meta.commit = Last(accepted)
    /\ \A r \in Refresh : refresh[r].pc \in {"catalog", "meta"} =>
          accepted = <<>> \/ Last(accepted) \in Precedes[refresh[r].commit]

CatalogInv == CatalogTyped /\ FilesAreRecorded /\ (~raced => LastIsRecorded)

\* A listing resolved in a catalog is the only one of its plugin there, and
\* correlates with it.
LEMMA ResolvedIsListed ==
  ASSUME NEW c \in Commit, Contents[c] # Garbage, NEW p, NEW s,
         s.entries = Contents[c],
         ResolveCandidate(s, p) # NoFile
  PROVE  LET found == ResolveCandidate(s, p)
         IN /\ \E i \in DOMAIN s.entries :
                  /\ Listed(s.entries, p) = {i}
                  /\ found.entry = s.entries[i]
            /\ found.url.scheme = "https"
            /\ Correlate(p, found.url, found.entry.listing, s.entries)
                 = "listed"
<1> DEFINE all == s.entries
           found == ResolveCandidate(s, p)
<1>1. all \in Seq(ListedPlugin)
  BY CatalogsAreTyped
<1>2. /\ Cardinality(Listed(all, p)) = 1
      /\ LET entry == all[Min(Listed(all, p))]
         IN /\ entry.repo # NoFile
            /\ EffectiveRepositoryUrl(entry.repo) # NoFile
            /\ entry.listing # NoFile
            /\ entry.layout \in {"root-plugin", "monorepo", "suite"}
            /\ found = [entry |-> entry,
                        url |-> EffectiveRepositoryUrl(entry.repo)]
  BY DEF ResolveCandidate
<1>3. IsFiniteSet(Listed(all, p))
  <2>1. DOMAIN all = 1..Len(all) /\ Len(all) \in Nat
    BY <1>1
  <2>2. IsFiniteSet(1..Len(all))
    BY <2>1, FS_Interval
  <2>3. Listed(all, p) \subseteq 1..Len(all)
    BY <2>1 DEF Listed
  <2> QED BY <2>2, <2>3, FS_Subset
<1>4. PICK i : Listed(all, p) = {i}
  BY <1>2, <1>3, FS_Singleton
<1>5. i \in DOMAIN all /\ i \in Nat /\ all[i] \in ListedPlugin
  BY <1>1, <1>4 DEF Listed
<1>6. Min({i}) = i
  BY <1>5 DEF Min
<1> DEFINE url == EffectiveRepositoryUrl(all[i].repo)
<1>7. /\ all[i].repo \in UrlParts /\ url # NoFile
      /\ all[i].repo # NoFile
      /\ all[i].listing # NoFile
      /\ all[i].layout \in {"root-plugin", "monorepo", "suite"}
      /\ found = [entry |-> all[i], url |-> url]
  BY <1>2, <1>4, <1>5, <1>6 DEF ListedPlugin
<1>8. /\ url = [all[i].repo EXCEPT !.scheme = "https", !.credentials = FALSE,
                                  !.git = 1, !.slashes = 0]
      /\ all[i].repo.scheme \in {"https", "ssh", "scp"}
      /\ all[i].repo.scheme = "https" => ~all[i].repo.credentials
  BY <1>7 DEF EffectiveRepositoryUrl
<1>9. url.scheme = "https"
  BY <1>7, <1>8 DEF UrlParts
<1>10. NormalizeRepository(url) = NormalizeRepository(all[i].repo)
  <2>1. /\ url.credentials = FALSE /\ url.host = all[i].repo.host
        /\ url.name = all[i].repo.name
        /\ url.segments = all[i].repo.segments
        /\ url.query = all[i].repo.query
    BY <1>7, <1>8 DEF UrlParts
  <2>2. (all[i].repo.scheme \in {"https", "http"} /\ all[i].repo.credentials)
           = FALSE
    BY <1>7, <1>8 DEF UrlParts
  <2>3. (url.scheme \in {"https", "http"} /\ url.credentials) = FALSE
    BY <2>1, <1>9
  <2> QED BY <1>8, <1>9, <2>1, <2>2, <2>3 DEF NormalizeRepository
<1> HIDE DEF url, all
<1> DEFINE Same(e) == IF url = NoFile \/ e.repo = NoFile THEN url = e.repo
                      ELSE NormalizeRepository(e.repo)
                             = NormalizeRepository(url)
           matches == {j \in Listed(all, p) : Same(all[j])}
<1>11. matches = {i}
  BY <1>4, <1>7, <1>10
<1>12. Cardinality({i}) = 1
  BY FS_Singleton
<1>13. Correlate(p, url, all[i].listing, all) = "listed"
  <2>1. Correlate(p, url, all[i].listing, all)
          = IF Cardinality(matches) # 1
            THEN IF Listed(all, p) = {} THEN "unlisted" ELSE "conflict"
            ELSE IF all[Min(matches)].layout \notin
                      {"root-plugin", "monorepo", "suite", NoFile}
            THEN "incomplete"
            ELSE IF /\ all[i].listing # NoFile
                    /\ all[Min(matches)].listing
                          \notin {NoFile, all[i].listing}
            THEN "installed-differs"
            ELSE "listed"
    BY DEF Correlate
  <2> QED BY <1>6, <1>7, <1>11, <1>12, <2>1
<1> QED BY <1>4, <1>5, <1>7, <1>9, <1>13 DEF all

\* No refresh, no file: the invariant holds of nothing.
LEMMA CatalogInitial == CatalogInit => CatalogInv
<1> SUFFICES ASSUME CatalogInit PROVE CatalogInv
  OBVIOUS
<1>1. /\ accepted = <<>> /\ meta = NoFile
      /\ \A r \in Refresh : refresh[r].pc = "idle"
      /\ \A r \in Reader : reader[r].pc = "idle"
                           /\ reader[r].snapshot = NoFile
      /\ DOMAIN refresh = Refresh /\ DOMAIN reader = Reader
  BY DEF CatalogInit, NotRefreshing, NotReading
<1> QED BY <1>1 DEF CatalogInv, CatalogTyped, FilesAreRecorded, LastIsRecorded

\* What a refresh and a reader are, and that only commits are recorded.
LEMMA CatalogTypes ==
  CatalogInv /\ [CatalogNext]_catalogs => CatalogTyped'
<1> SUFFICES ASSUME CatalogInv, [CatalogNext]_catalogs PROVE CatalogTyped'
  OBVIOUS
<1> USE DEF CatalogInv, CatalogTyped, NotRefreshing, NotReading
<1>1. ASSUME NEW r \in Refresh, NEW c \in Commit, Fetch(r, c)
      PROVE  CatalogTyped'
  BY <1>1 DEF Fetch
<1>2. ASSUME NEW r \in Refresh, CheckRollback(r) PROVE CatalogTyped'
  BY <1>2 DEF CheckRollback
<1>3. ASSUME NEW r \in Refresh, WriteCatalog(r) PROVE CatalogTyped'
  BY <1>3 DEF WriteCatalog
<1>4. ASSUME NEW r \in Refresh, WriteMeta(r) PROVE CatalogTyped'
  BY <1>4, AppendProperties DEF WriteMeta
<1>5. ASSUME NEW r \in Refresh, RefreshStops(r) PROVE CatalogTyped'
  BY <1>5 DEF RefreshStops
<1>6. ASSUME NEW r \in Reader, ReadMeta(r) \/ ReadCatalog(r)
      PROVE  CatalogTyped'
  BY <1>6 DEF ReadMeta, ReadCatalog
<1>7. CASE Damage
  BY <1>7 DEF Damage
<1>8. CASE UNCHANGED catalogs
  BY <1>8 DEF catalogs
<1> QED BY <1>1, <1>2, <1>3, <1>4, <1>5, <1>6, <1>7, <1>8 DEF CatalogNext

\* What the files say: a commit is recorded when its metadata is written, a
\* reader keeps what it read, and only a digest that agrees makes it verified.
LEMMA CatalogFiles ==
  CatalogInv /\ [CatalogNext]_catalogs => FilesAreRecorded'
<1> SUFFICES ASSUME CatalogInv, [CatalogNext]_catalogs PROVE FilesAreRecorded'
  OBVIOUS
<1>0. Commit \subseteq Commit /\ CatalogTyped /\ FilesAreRecorded
  BY DEF CatalogInv
<1> USE <1>0 DEF NotReading, CatalogTyped
<1>1. ASSUME NEW r \in Refresh, NEW c \in Commit, Fetch(r, c)
      PROVE  FilesAreRecorded'
  BY <1>1 DEF Fetch, FilesAreRecorded
<1>2. ASSUME NEW r \in Refresh, CheckRollback(r) PROVE FilesAreRecorded'
  BY <1>2 DEF CheckRollback, FilesAreRecorded
<1>3. ASSUME NEW r \in Refresh, WriteCatalog(r) PROVE FilesAreRecorded'
  BY <1>3 DEF WriteCatalog, FilesAreRecorded
<1>4. ASSUME NEW r \in Refresh, WriteMeta(r) PROVE FilesAreRecorded'
  <2> DEFINE c == refresh[r].commit
  <2>1. /\ c \in Commit /\ accepted' = Append(accepted, c)
        /\ meta' = [commit |-> c, digest |-> Contents[c]]
        /\ reader' = reader
    BY <1>4 DEF WriteMeta
  <2>2. Range(accepted') = Range(accepted) \cup {c}
    <3>1. /\ DOMAIN accepted' = 1..(Len(accepted) + 1)
          /\ DOMAIN accepted = 1..Len(accepted) /\ Len(accepted) \in Nat
          /\ accepted'[Len(accepted) + 1] = c
          /\ \A i \in 1..Len(accepted) : accepted'[i] = accepted[i]
      BY <2>1, AppendProperties
    <3> QED BY <3>1 DEF Range
  <2> QED BY <2>1, <2>2 DEF FilesAreRecorded
<1>5. ASSUME NEW r \in Refresh, RefreshStops(r) PROVE FilesAreRecorded'
  BY <1>5 DEF RefreshStops, FilesAreRecorded
<1>6. ASSUME NEW r \in Reader, ReadMeta(r) PROVE FilesAreRecorded'
  BY <1>6 DEF ReadMeta, FilesAreRecorded
<1>7. ASSUME NEW r \in Reader, ReadCatalog(r) PROVE FilesAreRecorded'
  <2>1. CASE catalog \in {NoFile, Garbage}
    BY <1>7, <2>1 DEF ReadCatalog, FilesAreRecorded
  <2>2. CASE catalog \notin {NoFile, Garbage}
    <3> DEFINE m == reader[r].meta
    <3>1. /\ m.commit \in Range(accepted) /\ accepted' = accepted
          /\ meta' = meta /\ catalog # Garbage
          /\ reader' = [reader EXCEPT ![r] =
                [pc |-> "idle", meta |-> m,
                 snapshot |-> [commit |-> m.commit, entries |-> catalog,
                               verified |-> Verified(m)]]]
      BY <1>7, <2>2 DEF ReadCatalog, FilesAreRecorded
    <3>2. Verified(m) => Contents[m.commit] = catalog
      BY DEF Verified
    <3> HIDE DEF m
    <3> QED BY <3>1, <3>2 DEF FilesAreRecorded
  <2> QED BY <2>1, <2>2
<1>8. CASE Damage
  BY <1>8 DEF Damage, FilesAreRecorded
<1>9. CASE UNCHANGED catalogs
  BY <1>9 DEF catalogs, FilesAreRecorded
<1> QED BY <1>1, <1>2, <1>3, <1>4, <1>5, <1>6, <1>7, <1>8, <1>9
        DEF CatalogNext

\* While no two refreshes overlap, each is checked against the record of the
\* last commit, so that no other one can be recorded after it.
LEMMA CatalogForward ==
  CatalogInv /\ [CatalogNext]_catalogs => (~raced => LastIsRecorded)'
<1> SUFFICES ASSUME CatalogInv, [CatalogNext]_catalogs, ~raced'
             PROVE  LastIsRecorded'
  OBVIOUS
<1>0. CatalogTyped
  BY DEF CatalogInv
<1> USE <1>0 DEF NotRefreshing, CatalogTyped
<1>1. ASSUME NEW r \in Refresh, NEW c \in Commit, Fetch(r, c)
      PROVE  LastIsRecorded'
  <2>1. LastIsRecorded /\ \A q \in Refresh : refresh[q].pc = "idle"
    BY <1>1 DEF Fetch, CatalogInv
  <2> QED BY <1>1, <2>1 DEF Fetch, LastIsRecorded
<1>2. ASSUME NEW r \in Refresh, CheckRollback(r) PROVE LastIsRecorded'
  <2> DEFINE c == refresh[r].commit
  <2>1. LastIsRecorded /\ c \in Commit /\ raced' = raced
    BY <1>2 DEF CheckRollback, CatalogInv
  <2>2. ~Rollback(c) /\ accepted # <<>> => Last(accepted) \in Precedes[c]
    BY <2>1, PrecedesIsAncestry DEF Rollback, LastIsRecorded
  <2>3. \/ refresh' = [refresh EXCEPT ![r] = NotRefreshing]
        \/ ~Rollback(c) /\ refresh' = [refresh EXCEPT ![r].pc = "catalog"]
    BY <1>2 DEF CheckRollback
  <2>4. UNCHANGED <<meta, accepted>>
    BY <1>2 DEF CheckRollback
  <2>5. refresh[r].pc # "idle"
    BY <1>2 DEF CheckRollback
  <2>6. CASE refresh' = [refresh EXCEPT ![r] = NotRefreshing]
    BY <2>1, <2>4, <2>6 DEF LastIsRecorded
  <2>7. CASE ~Rollback(c) /\ refresh' = [refresh EXCEPT ![r].pc = "catalog"]
    BY <2>1, <2>2, <2>4, <2>5, <2>7 DEF LastIsRecorded
  <2> QED BY <2>3, <2>6, <2>7
<1>3. ASSUME NEW r \in Refresh, WriteCatalog(r) PROVE LastIsRecorded'
  BY <1>3 DEF WriteCatalog, LastIsRecorded, CatalogInv
<1>4. ASSUME NEW r \in Refresh, WriteMeta(r) PROVE LastIsRecorded'
  <2> DEFINE c == refresh[r].commit
             n == Len(accepted)
  <2>1. /\ LastIsRecorded /\ c \in Commit
        /\ accepted' = Append(accepted, c)
        /\ meta' = [commit |-> c, digest |-> Contents[c]]
        /\ refresh' = [refresh EXCEPT ![r] = NotRefreshing]
        /\ refresh[r].pc = "meta"
    BY <1>4 DEF WriteMeta, CatalogInv
  <2>2. meta' \notin {NoFile, Garbage} /\ meta'.commit = c
    BY <2>1, FilesAreTold
  <2>3. /\ n \in Nat /\ DOMAIN accepted = 1..n
        /\ DOMAIN accepted' = 1..(n + 1) /\ Len(accepted') = n + 1
        /\ accepted'[n + 1] = c
        /\ \A i \in 1..n : accepted'[i] = accepted[i]
        /\ \A i \in 1..n : accepted[i] \in Commit
    BY <2>1, AppendProperties
  <2>4. Last(accepted') = c
    BY <2>3 DEF Last
  <2>5. \A q \in Refresh : refresh'[q].pc = "idle"
    BY <2>1 DEF LastIsRecorded
  <2>6. ASSUME NEW i \in 1..n PROVE accepted[i] \in Precedes[c]
    <3>1. accepted # <<>> /\ Last(accepted) = accepted[n] /\ n \in 1..n
      BY <2>3 DEF Last
    <3>2. accepted[n] \in Precedes[c]
      BY <2>1, <3>1 DEF LastIsRecorded
    <3>3. CASE i = n
      BY <3>2, <3>3
    <3>4. CASE i # n
      <4> HIDE DEF n
      <4>0. \A k \in Nat : \A x \in 1..k : x # k => x < k
        OBVIOUS
      <4>1. i < n /\ i \in DOMAIN accepted /\ n \in DOMAIN accepted
        BY <2>3, <3>1, <3>4, <4>0
      <4>2. accepted[i] \in Precedes[accepted[n]]
        BY <2>1, <4>1 DEF LastIsRecorded
      <4> QED BY <2>1, <3>2, <4>2, PrecedesIsAncestry
    <3> QED BY <3>3, <3>4
  <2>7. ASSUME NEW i \in 1..(n + 1), NEW j \in 1..(n + 1), i < j
        PROVE  accepted'[i] \in Precedes[accepted'[j]]
    <3>1. CASE j = n + 1
      <4>1. i \in 1..n
        BY <2>3, <2>7
      <4> QED BY <2>3, <2>6, <3>1, <4>1
    <3>2. CASE j # n + 1
      <4>1. i \in 1..n /\ j \in 1..n
        BY <2>3, <2>7, <3>2
      <4> QED BY <2>1, <2>3, <2>7, <4>1 DEF LastIsRecorded
    <3> QED BY <3>1, <3>2
  <2>8. \A i, j \in DOMAIN accepted' :
          i < j => accepted'[i] \in Precedes[accepted'[j]]
    BY <2>3, <2>7
  <2> HIDE DEF c, n
  <2> QED BY <2>2, <2>4, <2>5, <2>8 DEF LastIsRecorded
<1>5. ASSUME NEW r \in Refresh, RefreshStops(r) PROVE LastIsRecorded'
  BY <1>5 DEF RefreshStops, LastIsRecorded, CatalogInv
<1>6. ASSUME NEW r \in Reader, ReadMeta(r) \/ ReadCatalog(r)
      PROVE  LastIsRecorded'
  BY <1>6 DEF ReadMeta, ReadCatalog, LastIsRecorded, CatalogInv
<1>7. CASE Damage
  BY <1>7 DEF Damage, LastIsRecorded, CatalogInv
<1>8. CASE UNCHANGED catalogs
  BY <1>8 DEF catalogs, LastIsRecorded, CatalogInv
<1> QED BY <1>1, <1>2, <1>3, <1>4, <1>5, <1>6, <1>7, <1>8 DEF CatalogNext

\* The invariant of the catalog and its cache.
LEMMA CatalogHolds == CatalogSpec => []CatalogInv
<1>1. CatalogInv /\ [CatalogNext]_catalogs => CatalogInv'
  BY CatalogTypes, CatalogFiles, CatalogForward DEF CatalogInv
<1> QED BY <1>1, CatalogInitial, PTL DEF CatalogSpec

\* Whatever refreshes overlap, are killed or damaged: a snapshot that says it
\* is verified is the catalog of a commit some refresh accepted, what is
\* resolved in it is what the registry lists, and commits only go forward.
THEOREM VerifiedListed == CatalogSpec => []VerifiedIsListed
<1>1. CatalogInv => VerifiedIsListed
  <2> SUFFICES ASSUME CatalogInv PROVE VerifiedIsListed
    OBVIOUS
  <2>1. ASSUME NEW r \in Reader, reader[r].snapshot # NoFile,
               reader[r].snapshot.verified
        PROVE  LET s == reader[r].snapshot
               IN /\ s.entries = Contents[s.commit]
                  /\ s.commit \in Range(accepted)
                  /\ \A p \in Plugin :
                        LET found == ResolveCandidate(s, p)
                        IN found # NoFile =>
                              /\ \E i \in DOMAIN s.entries :
                                    /\ Listed(s.entries, p) = {i}
                                    /\ found.entry = s.entries[i]
                              /\ found.url.scheme = "https"
                              /\ Correlate(p, found.url, found.entry.listing,
                                           s.entries) = "listed"
    <3> DEFINE s == reader[r].snapshot
    <3>1. /\ s.entries = Contents[s.commit] /\ s.entries # Garbage
          /\ s.commit \in Range(accepted)
      BY <2>1 DEF CatalogInv, FilesAreRecorded
    <3>2. s.commit \in Commit
      BY <3>1 DEF CatalogInv, CatalogTyped, Range
    <3> HIDE DEF s
    <3>3. ASSUME NEW p \in Plugin, ResolveCandidate(s, p) # NoFile
          PROVE  LET found == ResolveCandidate(s, p)
                 IN /\ \E i \in DOMAIN s.entries :
                          /\ Listed(s.entries, p) = {i}
                          /\ found.entry = s.entries[i]
                    /\ found.url.scheme = "https"
                    /\ Correlate(p, found.url, found.entry.listing,
                                 s.entries) = "listed"
      <4>1. Contents[s.commit] # Garbage
        BY <3>1
      <4> QED BY <3>1, <3>2, <3>3, <4>1, ResolvedIsListed
    <3> QED BY <3>1, <3>3 DEF s
  <2>2. ~raced => \A i, j \in DOMAIN accepted :
          i < j => accepted[i] \in Precedes[accepted[j]]
    BY DEF CatalogInv, LastIsRecorded
  <2> QED BY <2>1, <2>2 DEF VerifiedIsListed
<1> QED BY <1>1, CatalogHolds, PTL

(***************************************************************************)
(* Declarations.  A lineage is the least set that holds a declaration and  *)
(* the baseline of all it holds; along a valid one a review revision never *)
(* falls, and grows wherever the meaning changes.                          *)
(***************************************************************************)
Releases == DOMAIN document
Baseline(i) == document[i].baseline
ClosedUnderBaseline(S) ==
    \A m \in S : Baseline(m) # Nothing => Baseline(m) \in S

\* The lineage the code walks is the least closed set: a recursive function
\* whose recursion ends, because a baseline is an earlier declaration.
LEMMA LineageIsRecursive ==
  ASSUME document \in Documents
  PROVE  \A i \in Releases :
            Lineage[i] = {i} \cup (IF Baseline(i) = Nothing THEN {}
                                   ELSE Lineage[Baseline(i)])
<1> DEFINE L == [i \in Releases |->
                   {j \in Releases : \A S \in SUBSET Releases :
                       i \in S /\ ClosedUnderBaseline(S) => j \in S}]
<1>1. \A i \in Releases : Baseline(i) # Nothing => Baseline(i) \in Releases
  BY DeclarationsAreTyped DEF Releases, Baseline
<1>2. \A i \in Releases : i \in L[i] /\ L[i] \in SUBSET Releases
                          /\ ClosedUnderBaseline(L[i])
  BY <1>1 DEF ClosedUnderBaseline
<1>3. ASSUME NEW i \in Releases, NEW S \in SUBSET Releases,
             i \in S, ClosedUnderBaseline(S)
      PROVE  L[i] \subseteq S
  BY <1>3
<1> HIDE DEF L
<1>4. ASSUME NEW i \in Releases
      PROVE  L[i] = {i} \cup (IF Baseline(i) = Nothing THEN {}
                              ELSE L[Baseline(i)])
  <2>1. CASE Baseline(i) = Nothing
    <3>1. L[i] \subseteq {i}
      <4>1. /\ {i} \in SUBSET Releases /\ i \in {i}
            /\ ClosedUnderBaseline({i})
        BY <2>1 DEF ClosedUnderBaseline
      <4> QED BY <1>3, <4>1
    <3> QED BY <1>2, <2>1, <3>1
  <2>2. CASE Baseline(i) # Nothing
    <3> DEFINE b == Baseline(i)
               S == {i} \cup L[b]
    <3>1. b \in Releases
      BY <1>1, <2>2
    <3>2. b \in L[b] /\ L[b] \subseteq Releases /\ ClosedUnderBaseline(L[b])
      BY <1>2, <3>1
    <3>3. S \in SUBSET Releases /\ i \in S /\ ClosedUnderBaseline(S)
      BY <3>2 DEF ClosedUnderBaseline
    <3>4. L[i] \subseteq S
      BY <1>3, <3>3
    <3>5. b \in L[i]
      BY <1>2, <2>2 DEF ClosedUnderBaseline
    <3>6. L[b] \subseteq L[i]
      BY <1>2, <1>3, <3>1, <3>5
    <3> QED BY <1>2, <2>2, <3>4, <3>6
  <2> QED BY <2>1, <2>2
<1> DEFINE Goes(M) == [i \in DOMAIN document |->
              {i} \cup (IF document[i].baseline = Nothing THEN {}
                        ELSE M[document[i].baseline])]
<1>5. L = Goes(L)
  <2>1. L = [i \in Releases |-> L[i]]
    BY DEF L
  <2> QED BY <1>4, <2>1 DEF Releases, Baseline
<1>6. \E M : M = Goes(M)
  BY <1>5
<1>7. Lineage = CHOOSE M : M = Goes(M)
  BY DEF Lineage
<1>8. Lineage = Goes(Lineage)
  BY <1>6, <1>7
<1> QED BY <1>8 DEF Releases, Baseline

\* What the declarations of a valid document have in common.
LineageIsSound(k, m) ==
    /\ Lineage[m] \subseteq Declared(k) \cap (1..m)
    /\ \A i, j \in Lineage[m] : i <= j => i \in Lineage[j]
    /\ \A j \in Lineage[m], r \in Rule :
          SameMeaning(j, m, r) \/ Revision(j, r) < Revision(m, r)

\* By the least declaration for which it failed: its baseline is earlier, and
\* the document was checked from there on.
LEMMA LineagesAreSound ==
  ASSUME document \in Documents, NEW k \in Releases, ValidDocument(k)
  PROVE  \A m \in Declared(k) : LineageIsSound(k, m)
<1> DEFINE Bad == {m \in Declared(k) : ~LineageIsSound(k, m)}
<1>1. /\ Len(document) \in Nat /\ Releases = 1..Len(document)
      /\ \A i \in Releases : Baseline(i) \in {Nothing} \cup 1..(i - 1)
      /\ \A i \in Releases, r \in Rule : Revision(i, r) \in Nat
  BY DeclarationsAreTyped DEF Releases, Baseline, Revision
<1>2. Declared(k) \subseteq Releases /\ Declared(k) \subseteq Nat
  BY <1>1 DEF Declared
<1>3. \A i \in Declared(k) :
         Baseline(i) # Nothing =>
            /\ Baseline(i) \in Declared(k)
            /\ \A r \in Rule : \/ SameMeaning(i, Baseline(i), r)
                               \/ Revision(i, r) > Revision(Baseline(i), r)
  BY DEF ValidDocument, SoundDeclaration, Baseline
<1>4. ASSUME NEW m \in Declared(k),
             \A b \in Declared(k) : b < m => LineageIsSound(k, b)
      PROVE  LineageIsSound(k, m)
  <2>1. m \in Nat /\ m \in Releases /\ m \in 1..m
    BY <1>1, <1>2
  <2>2. CASE Baseline(m) = Nothing
    <3>1. Lineage[m] = {m}
      BY <2>1, <2>2, LineageIsRecursive
    <3> QED BY <2>1, <3>1 DEF LineageIsSound, SameMeaning
  <2>3. CASE Baseline(m) # Nothing
    <3>1. PICK b \in Declared(k) : b = Baseline(m)
      BY <1>3, <2>3
    <3>2. b \in 1..(m - 1) /\ b \in Nat /\ b < m
      BY <1>1, <2>1, <2>3, <3>1
    <3>3. Lineage[m] = {m} \cup Lineage[b]
      BY <2>1, <2>3, <3>1, LineageIsRecursive
    <3>4. /\ Lineage[b] \subseteq Declared(k) \cap (1..b)
          /\ \A i, j \in Lineage[b] : i <= j => i \in Lineage[j]
          /\ \A j \in Lineage[b], r \in Rule :
                SameMeaning(j, b, r) \/ Revision(j, r) < Revision(b, r)
      BY <1>4, <3>2 DEF LineageIsSound
    <3>5. Lineage[m] \subseteq Declared(k) \cap (1..m)
      BY <2>1, <3>2, <3>3, <3>4
    <3>6. ASSUME NEW i \in Lineage[m], NEW j \in Lineage[m], i <= j
          PROVE  i \in Lineage[j]
      <4>1. CASE j = m
        BY <4>1
      <4>2. CASE j # m
        <5>1. j \in Lineage[b] /\ j \in 1..b
          BY <3>3, <3>4, <4>2
        <5>2. i # m
          BY <2>1, <3>2, <3>6, <5>1
        <5> QED BY <3>3, <3>4, <3>6, <5>1, <5>2
      <4> QED BY <4>1, <4>2
    <3>7. ASSUME NEW j \in Lineage[m], NEW r \in Rule
          PROVE  SameMeaning(j, m, r) \/ Revision(j, r) < Revision(m, r)
      <4>1. CASE j = m
        BY <4>1 DEF SameMeaning
      <4>2. CASE j # m
        <5>1. j \in Lineage[b]
          BY <3>3, <4>2
        <5>2. /\ Revision(j, r) \in Nat /\ Revision(b, r) \in Nat
              /\ Revision(m, r) \in Nat
          BY <1>1, <1>2, <2>1, <3>5
        <5>3. SameMeaning(j, b, r) \/ Revision(j, r) < Revision(b, r)
          BY <3>4, <5>1
        <5>4. SameMeaning(m, b, r) \/ Revision(m, r) > Revision(b, r)
          BY <1>3, <2>3, <3>1
        <5> QED BY <5>2, <5>3, <5>4 DEF SameMeaning
      <4> QED BY <4>1, <4>2
    <3> QED BY <3>5, <3>6, <3>7 DEF LineageIsSound
  <2> QED BY <2>2, <2>3
<1>5. ASSUME Bad # {} PROVE FALSE
  <2>1. Bad \in SUBSET Nat
    BY <1>2
  <2>2. PICK m \in Bad : \A b \in Bad : m <= b
    BY <1>5, <2>1, LeastNatural
  <2>3. ASSUME NEW b \in Declared(k), b < m PROVE LineageIsSound(k, b)
    BY <1>2, <2>2, <2>3
  <2> QED BY <1>4, <2>2, <2>3
<1> QED BY <1>5

\* Compatible under a valid document: the same digest at both ends of a
\* lineage along which revisions never fall leaves no room for a change and a
\* change back between them.
LEMMA CompatibleIsUnchanged ==
  ASSUME document \in Documents PROVE CompatibleMeansUnchanged
<1> SUFFICES ASSUME NEW k \in Releases, NEW i \in 1..k, NEW r \in Rule,
                    SemanticCompatible(r, Digest(i, r), i, k),
                    NEW j \in Lineage[k] \cap (i..k)
             PROVE  SameMeaning(i, j, r)
  BY DEF CompatibleMeansUnchanged, Releases
<1>1. /\ ValidDocument(k) /\ k \in Declared(k) /\ i \in Lineage[k]
      /\ Revision(i, r) = Revision(k, r)
  BY DEF SemanticCompatible, CurrentDeclaration
<1>2. \A m \in Declared(k) : LineageIsSound(k, m)
  BY <1>1, LineagesAreSound
<1>3. /\ k \in Nat /\ Declared(k) \subseteq Releases
      /\ \A m \in Releases, q \in Rule : Revision(m, q) \in Nat
  BY DeclarationsAreTyped DEF Releases, Revision, Declared
<1>4. i \in Declared(k) /\ j \in Declared(k) /\ i <= j
  BY <1>1, <1>2, <1>3 DEF LineageIsSound
<1>5. i \in Lineage[j]
  BY <1>1, <1>2, <1>4 DEF LineageIsSound
<1>6. /\ SameMeaning(j, k, r) \/ Revision(j, r) < Revision(k, r)
      /\ SameMeaning(i, j, r) \/ Revision(i, r) < Revision(j, r)
  BY <1>1, <1>2, <1>4, <1>5 DEF LineageIsSound
<1>7. Revision(i, r) \in Nat /\ Revision(j, r) \in Nat
      /\ Revision(k, r) \in Nat
  BY <1>3, <1>4
<1> QED BY <1>1, <1>6, <1>7 DEF SameMeaning

\* What a release declares compatible with an earlier one did not change its
\* meaning, there or on the way: a rule that was changed and changed back is
\* not compatible.
THEOREM DeclarationsMean ==
  SuppressionSpec => [](CompatibleMeansUnchanged /\ DeclaredMeansUnchanged)
<1>1. SuppressionInit => document \in Documents
  BY DEF SuppressionInit
<1>2. document \in Documents /\ [SuppressionNext]_suppression
         => (document \in Documents)'
  BY DEF SuppressionNext, Suppress, Reinstate, BeginAnalysis,
     IngestFilesystem, EmitAnalysisReport, Upgrade, PluginChanges, suppression
<1>3. document \in Documents =>
         CompatibleMeansUnchanged /\ DeclaredMeansUnchanged
  BY CompatibleIsUnchanged DEF DeclaredMeansUnchanged
<1> QED BY <1>1, <1>2, <1>3, PTL DEF SuppressionSpec

(***************************************************************************)
(* Suppressions.  The file only grows and only loses active records, so    *)
(* that a content it has left never comes back: a report keyed by what the *)
(* file is now was made of what the file is now.                           *)
(***************************************************************************)
Suppressed ==
    [rule : Rule, plugin : Target, scope : Scope \cup {Nothing},
     release : Releases, digest : {Digest(k, r) : k \in Releases, r \in Rule},
     declaration : Releases \cup {Nothing}, active : BOOLEAN]

\* File a is what file b was, or is.
Was(a, b) ==
    /\ Len(a) <= Len(b)
    /\ \A i \in 1..Len(a) : b[i].active => a[i].active

RecordsAreOwn ==
    \A i \in DOMAIN records :
        /\ records[i].digest = Digest(records[i].release, records[i].rule)
        /\ records[i].declaration \in {Nothing, records[i].release}

SuppressionTyped ==
    /\ document \in Documents /\ release \in Releases
    /\ records \in Seq(Suppressed)
    /\ DOMAIN analysis = Analysis
    /\ \A a \in Analysis : DOMAIN analysis[a] = DOMAIN NotAnalyzing

\* A report on what the file was.
ReportWas(of, key, report) ==
    /\ key.suppressions \in Seq(Suppressed) /\ Was(key.suppressions, records)
    /\ key.suppressions = records => report = Report(of, records, key.policy)

ReportsAreTrue ==
    /\ stored # Nothing => ReportWas(stored.of, stored.key, stored.report)
    /\ \A a \in Analysis :
          /\ analysis[a].pc \in {"ingest", "emit"} =>
                /\ analysis[a].key.suppressions \in Seq(Suppressed)
                /\ Was(analysis[a].key.suppressions, records)
                /\ analysis[a].report = Nothing
          /\ analysis[a].report # Nothing =>
                ReportWas(analysis[a].seen, analysis[a].key,
                          analysis[a].report)

SuppressionInv == SuppressionTyped /\ RecordsAreOwn /\ ReportsAreTrue

\* An empty file, and no analysis.
LEMMA SuppressionInitial == SuppressionInit => SuppressionInv
<1> SUFFICES ASSUME SuppressionInit PROVE SuppressionInv
  OBVIOUS
<1>1. /\ document \in Documents /\ release = 1 /\ records = <<>>
      /\ stored = Nothing /\ analysis = [a \in Analysis |-> NotAnalyzing]
  BY DEF SuppressionInit, NothingSuppressed
<1>2. 1 \in Releases
  BY <1>1, DeclarationsAreTyped DEF Releases
<1> QED BY <1>1, <1>2 DEF SuppressionInv, SuppressionTyped, RecordsAreOwn,
           ReportsAreTrue, NotAnalyzing

\* A step that changes the file makes it one it never was.
LEMMA FileMoves ==
  ASSUME SuppressionTyped, SuppressionTyped', UNCHANGED document,
         NEW old \in Seq(Suppressed), Was(old, records),
         \/ /\ Len(records') = Len(records) + 1
            /\ \A i \in DOMAIN records : records'[i] = records[i]
         \/ /\ Len(records') = Len(records)
            /\ \A i \in DOMAIN records :
                  records'[i].active => records[i].active
            /\ \E i \in DOMAIN records :
                  records[i].active /\ ~records'[i].active
  PROVE  Was(old, records') /\ old # records'
<1> DEFINE n == Len(records)
<1>1. /\ Len(old) \in Nat /\ n \in Nat /\ Len(old) <= n
      /\ DOMAIN records = 1..n /\ DOMAIN old = 1..Len(old)
      /\ \A i \in 1..Len(old) : records[i].active => old[i].active
  BY DEF Was, SuppressionTyped
<1>2. \A i \in 1..Len(old) : i \in 1..n
  BY <1>1
<1>3. CASE /\ Len(records') = n + 1
           /\ \A i \in DOMAIN records : records'[i] = records[i]
  <2>1. Len(records') = n + 1 /\ Len(old) <= n + 1 /\ Len(old) # n + 1
    <3>1. \A a, b \in Nat : a <= b => a <= b + 1 /\ a # b + 1
      OBVIOUS
    <3> HIDE DEF n
    <3> QED BY <1>1, <1>3, <3>1
  <2>2. \A i \in 1..Len(old) : records'[i] = records[i]
    BY <1>1, <1>2, <1>3
  <2> HIDE DEF n
  <2> QED BY <1>1, <2>1, <2>2 DEF Was
<1>4. CASE /\ Len(records') = n
           /\ \A i \in DOMAIN records :
                 records'[i].active => records[i].active
           /\ \E i \in DOMAIN records :
                 records[i].active /\ ~records'[i].active
  <2>1. Was(old, records')
    BY <1>1, <1>2, <1>4 DEF Was
  <2>2. PICK i \in 1..n : records[i].active /\ ~records'[i].active
    BY <1>1, <1>4
  <2>3. ASSUME old = records' PROVE FALSE
    <3>1. Len(old) = n
      BY <1>4, <2>3
    <3>2. i \in 1..Len(old)
      BY <3>1
    <3>3. old[i].active /\ ~old[i].active
      BY <1>1, <2>2, <2>3, <3>2
    <3> QED BY <3>3
  <2> QED BY <2>1, <2>3
<1> QED BY <1>3, <1>4

\* Records are appended or lose their activity, and nothing else happens to
\* the file: what it was it never is again.
LEMMA SuppressionTypes ==
  SuppressionInv /\ [SuppressionNext]_suppression =>
    /\ SuppressionTyped' /\ RecordsAreOwn' /\ document' = document
    /\ records' # records =>
          \A old \in Seq(Suppressed) :
             Was(old, records) => Was(old, records') /\ old # records'
<1> SUFFICES ASSUME SuppressionInv, [SuppressionNext]_suppression
    PROVE /\ SuppressionTyped' /\ RecordsAreOwn' /\ document' = document
          /\ records' # records =>
                \A old \in Seq(Suppressed) :
                   Was(old, records) => Was(old, records') /\ old # records'
  OBVIOUS
<1>0. SuppressionTyped /\ RecordsAreOwn
  BY DEF SuppressionInv
<1>s. ASSUME document' = document
      PROVE  Suppressed' = Suppressed /\ Releases' = Releases
  BY <1>s DEF Suppressed, Releases, Digest
<1>1. ASSUME NEW r \in Rule, NEW p \in Target, NEW s \in Scope \cup {Nothing},
             Suppress(r, p, s)
      PROVE  /\ SuppressionTyped' /\ RecordsAreOwn' /\ document' = document
             /\ \A old \in Seq(Suppressed) :
                  Was(old, records) => Was(old, records') /\ old # records'
  <2> DEFINE new == [ rule |-> r, plugin |-> p, scope |-> s,
                      release |-> release, digest |-> Digest(release, r),
                      declaration |-> CurrentDeclaration(release),
                      active |-> TRUE ]
             n == Len(records)
  <2>1. /\ records' = Append(records, new)
        /\ UNCHANGED <<document, release, analysis>>
    BY <1>1 DEF Suppress
  <2>2. CurrentDeclaration(release) \in {Nothing, release}
    BY DEF CurrentDeclaration
  <2>3. new \in Suppressed
    BY <1>0, <2>2 DEF SuppressionTyped, Suppressed
  <2>4. /\ n \in Nat /\ Len(records') = n + 1 /\ records' \in Seq(Suppressed)
        /\ DOMAIN records = 1..n /\ DOMAIN records' = 1..(n + 1)
        /\ \A i \in 1..n : records'[i] = records[i]
        /\ records'[n + 1] = new
    BY <1>0, <2>1, <2>3, AppendProperties DEF SuppressionTyped
  <2>5. SuppressionTyped'
    BY <1>0, <1>s, <2>1, <2>4 DEF SuppressionTyped
  <2>6. RecordsAreOwn'
    <3>1. ASSUME NEW i \in 1..(n + 1)
          PROVE  /\ records'[i].digest
                        = Digest(records'[i].release, records'[i].rule)
                 /\ records'[i].declaration
                        \in {Nothing, records'[i].release}
      <4>1. CASE i = n + 1
        BY <2>2, <2>4, <4>1
      <4>2. CASE i # n + 1
        <5>1. i \in 1..n
          BY <2>4, <4>2
        <5> QED BY <1>0, <2>4, <5>1 DEF RecordsAreOwn
      <4> QED BY <4>1, <4>2
    <3> QED BY <2>1, <2>4, <3>1 DEF RecordsAreOwn, Digest
  <2>7. ASSUME NEW old \in Seq(Suppressed), Was(old, records)
        PROVE  Was(old, records') /\ old # records'
    BY <1>0, <2>1, <2>4, <2>5, <2>7, FileMoves
  <2> QED BY <2>1, <2>5, <2>6, <2>7
<1>2. ASSUME NEW r \in Rule, NEW p \in Target, NEW s \in Scope \cup {Nothing},
             Reinstate(r, p, s)
      PROVE  /\ SuppressionTyped' /\ RecordsAreOwn' /\ document' = document
             /\ \A old \in Seq(Suppressed) :
                  Was(old, records) => Was(old, records') /\ old # records'
  <2> DEFINE n == Len(records)
             hit(i) == Named(records[i], r, p, s)
  <2>1. /\ records' = [i \in DOMAIN records |->
              IF hit(i) THEN [records[i] EXCEPT !.active = FALSE]
              ELSE records[i]]
        /\ UNCHANGED <<document, release, analysis>>
        /\ \E i \in DOMAIN records : hit(i)
    BY <1>2 DEF Reinstate
  <2>2. /\ n \in Nat /\ DOMAIN records = 1..n
        /\ \A i \in 1..n : records[i] \in Suppressed
    BY <1>0 DEF SuppressionTyped
  <2>3. \A i \in 1..n : [records[i] EXCEPT !.active = FALSE] \in Suppressed
    <3> DEFINE digests == {Digest(k, q) : k \in Releases, q \in Rule}
    <3>1. Suppressed = [rule : Rule, plugin : Target,
              scope : Scope \cup {Nothing}, release : Releases,
              digest : digests, declaration : Releases \cup {Nothing},
              active : BOOLEAN]
      BY DEF Suppressed
    <3> HIDE DEF digests
    <3> QED BY <2>2, <3>1
  <2>4. /\ \A i \in 1..n : records'[i] \in Suppressed
        /\ DOMAIN records' = 1..n
    BY <2>1, <2>2, <2>3
  <2>5. records' \in Seq(Suppressed) /\ Len(records') = n
    <3>1. records' = [i \in 1..n |-> records'[i]]
      BY <2>1, <2>2
    <3> QED BY <2>2, <2>4, <3>1
  <2>6. SuppressionTyped'
    BY <1>0, <1>s, <2>1, <2>5 DEF SuppressionTyped
  <2>7. \A i \in 1..n :
          /\ records'[i].digest = records[i].digest
          /\ records'[i].release = records[i].release
          /\ records'[i].rule = records[i].rule
          /\ records'[i].declaration = records[i].declaration
          /\ records'[i].active => records[i].active
          /\ hit(i) => records[i].active /\ ~records'[i].active
    <3>1. \A i \in 1..n : hit(i) => records[i].active
      BY DEF Named
    <3> HIDE DEF hit
    <3> QED BY <2>1, <2>2, <3>1 DEF Suppressed
  <2>8. RecordsAreOwn'
    BY <1>0, <2>1, <2>2, <2>4, <2>7 DEF RecordsAreOwn, Digest
  <2>9. ASSUME NEW old \in Seq(Suppressed), Was(old, records)
        PROVE  Was(old, records') /\ old # records'
    <3>1. \E i \in DOMAIN records : records[i].active /\ ~records'[i].active
      BY <2>1, <2>2, <2>7
    <3>2. \A i \in DOMAIN records : records'[i].active => records[i].active
      BY <2>2, <2>7
    <3> QED BY <1>0, <2>1, <2>5, <2>6, <2>9, <3>1, <3>2, FileMoves
  <2> QED BY <2>1, <2>6, <2>8, <2>9
<1>3. ASSUME NEW a \in Analysis, BeginAnalysis(a)
      PROVE  SuppressionTyped' /\ UNCHANGED <<document, records>>
  BY <1>0, <1>3, <1>s DEF BeginAnalysis, SuppressionTyped, NotAnalyzing
<1>4. ASSUME NEW a \in Analysis, IngestFilesystem(a)
      PROVE  SuppressionTyped' /\ UNCHANGED <<document, records>>
  BY <1>0, <1>4, <1>s DEF IngestFilesystem, SuppressionTyped, NotAnalyzing
<1>5. ASSUME NEW a \in Analysis, EmitAnalysisReport(a)
      PROVE  SuppressionTyped' /\ UNCHANGED <<document, records>>
  BY <1>0, <1>5, <1>s DEF EmitAnalysisReport, SuppressionTyped, NotAnalyzing
<1>6. ASSUME Upgrade \/ PluginChanges \/ UNCHANGED suppression
      PROVE  SuppressionTyped' /\ UNCHANGED <<document, records>>
  BY <1>0, <1>6, <1>s
     DEF Upgrade, PluginChanges, suppression, SuppressionTyped, Releases
<1>7. ASSUME SuppressionTyped', UNCHANGED <<document, records>>
      PROVE  /\ SuppressionTyped' /\ RecordsAreOwn' /\ document' = document
             /\ records' = records
  BY <1>0, <1>7 DEF RecordsAreOwn, Digest
<1> QED BY <1>1, <1>2, <1>3, <1>4, <1>5, <1>6, <1>7 DEF SuppressionNext

\* A report in memory or in the cache keeps saying what its key stands for: as
\* long as the file is what the key says it was, and any file it is not was
\* left for good.
LEMMA ReportsStayTrue ==
  SuppressionInv /\ [SuppressionNext]_suppression => ReportsAreTrue'
<1> SUFFICES ASSUME SuppressionInv, [SuppressionNext]_suppression
             PROVE  ReportsAreTrue'
  OBVIOUS
<1>0. /\ SuppressionTyped /\ ReportsAreTrue
      /\ SuppressionTyped' /\ document' = document
      /\ records' # records =>
            \A old \in Seq(Suppressed) :
               Was(old, records) => Was(old, records') /\ old # records'
  BY SuppressionTypes DEF SuppressionInv
<1>s. Suppressed' = Suppressed
  BY <1>0 DEF Suppressed, Releases, Digest
<1>t. records \in Seq(Suppressed) /\ Was(records, records)
  BY <1>0 DEF SuppressionTyped, Was
<1>r. \A v, f, k : Report(v, f, k)' = Report(v, f, k)
  BY <1>0 DEF Report, Hides, RequiresReconfirmation, Compatible, Digest,
     CurrentDeclaration, ValidDocument, Declared, SoundDeclaration,
     SameMeaning, Revision, SemanticCompatible, Lineage, Active, Exact,
     ScopeMatches, PathMatchesScope
<1>k. ASSUME NEW of, NEW key, NEW report, ReportWas(of, key, report)
      PROVE  ReportWas(of, key, report)'
  <2>1. CASE records' = records
    <3>1. Report(of, records, key.policy)' = Report(of, records, key.policy)
      BY <1>r, <2>1
    <3> QED BY <1>k, <1>s, <2>1, <3>1 DEF ReportWas, Was
  <2>2. CASE records' # records
    BY <1>0, <1>k, <1>s, <2>2 DEF ReportWas
  <2> QED BY <2>1, <2>2
<1>w. ASSUME NEW old \in Seq(Suppressed), Was(old, records)
      PROVE  old \in Seq(Suppressed)' /\ Was(old, records)'
  <2>1. CASE records' = records
    BY <1>s, <1>w, <2>1 DEF Was
  <2>2. CASE records' # records
    BY <1>0, <1>s, <1>w, <2>2
  <2> QED BY <2>1, <2>2
<1>1. CASE UNCHANGED <<stored, analysis>>
  BY <1>0, <1>k, <1>w, <1>1 DEF ReportsAreTrue
<1>o. ASSUME NEW a \in Analysis, UNCHANGED records,
             stored' # Nothing =>
                ReportWas(stored.of, stored.key, stored.report)',
             \A b \in Analysis \ {a} : analysis'[b] = analysis[b],
             analysis'[a].pc \in {"ingest", "emit"} =>
                /\ analysis'[a].key.suppressions \in Seq(Suppressed)
                /\ Was(analysis'[a].key.suppressions, records)
                /\ analysis'[a].report = Nothing,
             analysis'[a].report # Nothing =>
                ReportWas(analysis[a].seen, analysis[a].key,
                          analysis[a].report)'
      PROVE  ReportsAreTrue'
  <2>1. ASSUME NEW b \in Analysis
        PROVE  /\ analysis'[b].pc \in {"ingest", "emit"} =>
                    /\ analysis'[b].key.suppressions \in Seq(Suppressed)'
                    /\ Was(analysis[b].key.suppressions, records)'
                    /\ analysis'[b].report = Nothing
               /\ analysis'[b].report # Nothing =>
                    ReportWas(analysis[b].seen, analysis[b].key,
                              analysis[b].report)'
    <3>1. CASE b = a
      BY <1>o, <1>s, <3>1 DEF Was
    <3>2. CASE b # a
      <4>1. PICK me : me = analysis[b] /\ me = analysis'[b]
        BY <1>o, <3>2
      <4>2. /\ me.pc \in {"ingest", "emit"} =>
                  /\ me.key.suppressions \in Seq(Suppressed)
                  /\ Was(me.key.suppressions, records)
                  /\ me.report = Nothing
            /\ me.report # Nothing => ReportWas(me.seen, me.key, me.report)
        BY <1>0, <4>1 DEF ReportsAreTrue
      <4>3. me.report # Nothing => ReportWas(me.seen, me.key, me.report)'
        BY <1>k, <4>2
      <4> QED BY <1>o, <1>s, <4>1, <4>2, <4>3 DEF Was, ReportWas
    <3> QED BY <3>1, <3>2
  <2> QED BY <1>o, <2>1 DEF ReportsAreTrue
<1>2. ASSUME NEW a \in Analysis, BeginAnalysis(a) PROVE ReportsAreTrue'
  <2>1. UNCHANGED <<document, records, stored>>
    BY <1>2 DEF BeginAnalysis
  <2>2. Key.suppressions = records
    BY DEF Key
  <2>3. stored' # Nothing =>
          ReportWas(stored.of, stored.key, stored.report)'
    BY <1>0, <1>k, <2>1 DEF ReportsAreTrue
  <2>4. CASE /\ Cached(Key)
             /\ analysis' = [analysis EXCEPT ![a] =
                   [NotAnalyzing EXCEPT !.key = Key, !.seen = stored.of,
                                        !.report = stored.report]]
    <3>1. PICK of, key, report :
             of = stored.of /\ key = Key /\ report = stored.report
      OBVIOUS
    <3>2. /\ analysis'[a].pc = "idle" /\ analysis'[a].key = key
          /\ analysis'[a].seen = of /\ analysis'[a].report = report
          /\ \A b \in Analysis \ {a} : analysis'[b] = analysis[b]
      BY <1>0, <2>4, <3>1 DEF SuppressionTyped, NotAnalyzing
    <3>3. ReportWas(of, key, report)
      BY <1>0, <2>4, <3>1 DEF Cached, ReportsAreTrue
    <3>4. ReportWas(of, key, report)'
      BY <1>k, <3>3
    <3>5. ReportWas(analysis[a].seen, analysis[a].key, analysis[a].report)'
      BY <3>2, <3>4 DEF ReportWas
    <3> QED BY <1>o, <2>1, <2>3, <3>2, <3>5
  <2>5. CASE analysis' = [analysis EXCEPT ![a] =
                  [NotAnalyzing EXCEPT !.pc = "ingest", !.key = Key]]
    <3>1. /\ analysis'[a].key = Key /\ analysis'[a].report = Nothing
          /\ \A b \in Analysis \ {a} : analysis'[b] = analysis[b]
      BY <1>0, <2>5 DEF SuppressionTyped, NotAnalyzing
    <3> QED BY <1>o, <1>t, <2>1, <2>2, <2>3, <3>1
  <2> QED BY <1>2, <2>4, <2>5 DEF BeginAnalysis
<1>3. ASSUME NEW a \in Analysis, IngestFilesystem(a) PROVE ReportsAreTrue'
  <2>1. /\ UNCHANGED <<document, records, stored>>
        /\ analysis[a].pc = "ingest"
        /\ analysis' = [analysis EXCEPT ![a].pc = "emit", ![a].seen = version]
    BY <1>3 DEF IngestFilesystem
  <2>2. stored' # Nothing =>
          ReportWas(stored.of, stored.key, stored.report)'
    BY <1>0, <1>k, <2>1 DEF ReportsAreTrue
  <2>3. /\ analysis'[a].key = analysis[a].key
        /\ analysis'[a].report = analysis[a].report
        /\ \A b \in Analysis \ {a} : analysis'[b] = analysis[b]
    BY <1>0, <2>1 DEF SuppressionTyped, NotAnalyzing
  <2>4. /\ analysis[a].key.suppressions \in Seq(Suppressed)
        /\ Was(analysis[a].key.suppressions, records)
        /\ analysis[a].report = Nothing
    BY <1>0, <2>1 DEF ReportsAreTrue
  <2> QED BY <1>o, <2>1, <2>2, <2>3, <2>4
<1>4. ASSUME NEW a \in Analysis, EmitAnalysisReport(a) PROVE ReportsAreTrue'
  <2>1. PICK of, key, report :
           /\ of = analysis[a].seen /\ key = analysis[a].key
           /\ report = Report(of, records, key.policy)
    OBVIOUS
  <2>2. /\ UNCHANGED <<document, records>>
        /\ analysis[a].pc = "emit"
        /\ analysis' = [analysis EXCEPT ![a] =
              [analysis[a] EXCEPT !.pc = "idle", !.report = report]]
        /\ stored' \in {stored, [key |-> key, of |-> of, report |-> report]}
    BY <1>4, <2>1 DEF EmitAnalysisReport
  <2>3. ReportWas(of, key, report)
    BY <1>0, <2>1, <2>2 DEF ReportsAreTrue, ReportWas
  <2>4. ReportWas(of, key, report)'
    BY <1>k, <2>3
  <2>5. stored' # Nothing =>
          ReportWas(stored.of, stored.key, stored.report)'
    <3>1. CASE stored' = stored
      BY <1>0, <1>k, <3>1 DEF ReportsAreTrue
    <3>2. CASE stored' = [key |-> key, of |-> of, report |-> report]
      BY <2>4, <3>2 DEF ReportWas
    <3> QED BY <2>2, <3>1, <3>2
  <2>6. /\ analysis'[a].pc = "idle" /\ analysis'[a].seen = of
        /\ analysis'[a].key = key /\ analysis'[a].report = report
        /\ \A b \in Analysis \ {a} : analysis'[b] = analysis[b]
    BY <1>0, <2>1, <2>2 DEF SuppressionTyped, NotAnalyzing
  <2>7. ReportWas(analysis[a].seen, analysis[a].key, analysis[a].report)'
    BY <2>4, <2>6 DEF ReportWas
  <2> QED BY <1>o, <2>2, <2>5, <2>6, <2>7
<1>5. ASSUME NEW r \in Rule, NEW p \in Target, NEW s \in Scope \cup {Nothing},
             Suppress(r, p, s) \/ Reinstate(r, p, s)
      PROVE  UNCHANGED <<stored, analysis>>
  BY <1>5 DEF Suppress, Reinstate
<1>6. Upgrade \/ PluginChanges \/ UNCHANGED suppression
        => UNCHANGED <<stored, analysis>>
  BY DEF Upgrade, PluginChanges, suppression
<1> QED BY <1>1, <1>2, <1>3, <1>4, <1>5, <1>6 DEF SuppressionNext

\* The invariant of suppressions and their reports.
LEMMA SuppressionHolds == SuppressionSpec => []SuppressionInv
<1>1. SuppressionInv /\ [SuppressionNext]_suppression => SuppressionInv'
  BY SuppressionTypes, ReportsStayTrue DEF SuppressionInv
<1> QED BY <1>1, SuppressionInitial, PTL DEF SuppressionSpec

\* A report from the analysis cache is the one that an analysis would make
\* now, of the same contents under the same policy, as long as the suppression
\* file is the one in its key: a report stored under a file that was changed
\* since is never taken for one of the file that is there.
THEOREM ReportIsCurrent == SuppressionSpec => []CachedReportIsCurrent
<1>1. SuppressionInv => CachedReportIsCurrent
  BY DEF SuppressionInv, ReportsAreTrue, ReportWas, CachedReportIsCurrent
<1> QED BY <1>1, SuppressionHolds, PTL

\* A finding that a report hides is covered by an active suppression of its
\* rule and scope, recorded under the release in use or one in which the rule
\* means the same; one that is covered and shown asks for reconfirmation.
THEOREM HiddenAsMeant == SuppressionSpec => []HiddenOnlyAsMeant
<1>1. ASSUME SuppressionInv, NEW a \in Analysis,
             analysis[a].report # Nothing,
             analysis[a].key.suppressions = records,
             NEW f \in Findings[analysis[a].seen]
      PROVE  LET covering == {rec \in Active(records) :
                                ScopeMatches(rec, f[1], f[2])}
                 me == analysis[a]
             IN /\ f \notin me.report.shown =>
                      \E rec \in covering :
                         \/ rec.release = me.key.policy
                         \/ SameMeaning(rec.release, me.key.policy, f[1])
                /\ covering # {} /\ f \in me.report.shown =>
                      f \in me.report.stale
  <2> DEFINE k == analysis[a].key.policy
             of == analysis[a].seen
             covering == {rec \in Active(records) :
                             ScopeMatches(rec, f[1], f[2])}
  <2>1. analysis[a].report = Report(of, records, k)
    BY <1>1 DEF SuppressionInv, ReportsAreTrue, ReportWas
  <2>2. /\ f \in analysis[a].report.shown <=> ~Hides(records, f, k)
        /\ f \in analysis[a].report.stale
              <=> RequiresReconfirmation(records, f, k)
    BY <1>1, <2>1 DEF Report
  <2>3. ASSUME f \notin analysis[a].report.shown
        PROVE  \E rec \in covering :
                  rec.release = k \/ SameMeaning(rec.release, k, f[1])
    <3>1. PICK rec \in Active(records) :
             /\ ScopeMatches(rec, f[1], f[2])
             /\ Exact(rec, k) \/ Compatible(rec, k)
      BY <2>2, <2>3 DEF Hides
    <3>2. rec.rule = f[1]
      BY <3>1 DEF ScopeMatches
    <3>3. PICK i \in DOMAIN records : rec = records[i]
      BY <3>1 DEF Active
    <3>4. CASE Exact(rec, k)
      BY <3>1, <3>4 DEF Exact
    <3>5. CASE Compatible(rec, k)
      <4>1. /\ rec.digest = Digest(k, rec.rule) /\ rec.declaration # Nothing
            /\ SemanticCompatible(rec.rule, rec.digest, rec.declaration, k)
            /\ CurrentDeclaration(k) # Nothing
        BY <3>5 DEF Compatible
      <4>2. CurrentDeclaration(k) = k
        BY <4>1 DEF CurrentDeclaration
      <4>3. rec.declaration = rec.release
        BY <1>1, <3>3, <4>1 DEF SuppressionInv, RecordsAreOwn
      <4>4. SameMeaning(rec.release, k, f[1])
        BY <3>2, <4>1, <4>2, <4>3 DEF SemanticCompatible, SameMeaning
      <4> QED BY <3>1, <4>4
    <3> QED BY <3>1, <3>4, <3>5
  <2>4. ASSUME covering # {}, f \in analysis[a].report.shown
        PROVE  f \in analysis[a].report.stale
    BY <2>2, <2>4 DEF Hides, RequiresReconfirmation
  <2> QED BY <2>3, <2>4
<1>2. SuppressionInv => HiddenOnlyAsMeant
  BY <1>1 DEF HiddenOnlyAsMeant
<1> QED BY <1>2, SuppressionHolds, PTL

(***************************************************************************)
(* Pinned revisions.  What the lock's holder found or fetched stays there  *)
(* while it holds the lock, and a repository has nothing its source never  *)
(* had as long as nobody changed it under a scan.                          *)
(***************************************************************************)
LockHeld == {"open", "init", "validate", "probe", "remove", "reinit",
            "origin", "fetch", "account"}
Unanswered == {"measure", "lock"} \cup (LockHeld \ {"account"})
Answered == {"account", "discover", "read", "reported"}
PinPhase == {"asleep", "failed", "cut", "resolve"} \cup Unanswered \cup Answered
OverNet(s) == scan[s].wish.how \in {"request", "head"}

PinTyped ==
    /\ DOMAIN repository = Source /\ DOMAIN scan = Scan
    /\ \A u \in Source :
          /\ repository[u] \in BareRepository \cup {Unmade}
          /\ upstream[u].head \in Ever[u] /\ upstream[u].has \subseteq Ever[u]
    /\ \A s \in Scan :
          /\ DOMAIN scan[s] = DOMAIN Asleep
          /\ scan[s].rev \in Pin \cup {Unmade}
          /\ scan[s].got \subseteq Pin \X Objects
          /\ scan[s].at \in PinPhase
          /\ scan[s].at \notin {"asleep", "failed"} =>
                scan[s].source \in Source
          /\ scan[s].at \in Unanswered \cup Answered => scan[s].rev \in Pin
    /\ DOMAIN upstream = Source

LockIsHeld ==
    /\ cacheLock \in Scan \cup {Unmade}
    /\ \A s \in Scan : cacheLock = s <=> scan[s].at \in LockHeld

\* How far a scan is, what it knows of the revision, and what the lock keeps.
GoesWell(s) ==
    /\ scan[s].at = "asleep" => scan[s] = Asleep
    /\ scan[s].at = "resolve" => ~scan[s].contacted /\ OverNet(s)
    /\ scan[s].at \in {"resolve", "measure", "lock", "open", "init",
                      "validate", "probe", "remove", "reinit", "fetch"} =>
          ~scan[s].hit
    /\ scan[s].at \in Unanswered => scan[s].contacted = OverNet(s)
    /\ scan[s].at \in Answered => scan[s].contacted = Network(s)
    /\ scan[s].at \in Unanswered \cup {"resolve", "account", "discover"}
          => scan[s].got = {}
    /\ scan[s].at = "read" => scan[s].got \subseteq {<<scan[s].rev, "commit">>}
    /\ scan[s].at = "reported" => scan[s].got = {scan[s].rev} \X Objects

Secured(s) ==
    /\ /\ \/ scan[s].at = "account"
          \/ scan[s].at = "origin" /\ scan[s].hit
       /\ ~scan[s].disturbed
       => HasWhole(Mine(s), scan[s].rev)
    /\ scan[s].at = "fetch" /\ ~scan[s].disturbed =>
          Mine(s) = Unmade \/ Mine(s).origin = scan[s].source
    /\ /\ \/ scan[s].at \in Answered
          \/ scan[s].at = "origin" /\ scan[s].hit
       /\ Undisturbed(scan[s].source)
       => scan[s].rev \in Ever[scan[s].source]

OwnOnly ==
    \A u \in Source :
        repository[u] # Unmade /\ Undisturbed(u) =>
            \A x \in repository[u].objects : x[1] \in Ever[u]

PinInv == /\ PinTyped /\ LockIsHeld /\ OwnOnly
          /\ \A s \in Scan : GoesWell(s) /\ Secured(s)

\* A step of a scan touches the scan, and its repository under the lock.
Only(s) ==
    /\ \A t \in Scan \ {s} : scan'[t] = scan[t]
    /\ scan'[s].source = scan[s].source \/ scan[s].at = "asleep"
    /\ scan'[s].disturbed = scan[s].disturbed
    /\ \A u \in Source \ {scan[s].source} : repository'[u] = repository[u]
    /\ scan[s].at \notin LockHeld =>
          \A u \in Source : repository'[u] = repository[u]

ScanStep(s) ==
    \/ Ask(s) \/ ResolveRemoteHead(s) \/ MeasureCache(s)
    \/ TakeCacheLock(s) \/ LockTimesOut(s) \/ OpenRepository(s)
    \/ InitRepository(s) \/ ValidateRepository(s) \/ ProbeRevision(s)
    \/ RemoveRepository(s) \/ SetOrigin(s) \/ FetchRevision(s)
    \/ AccountFetch(s) \/ DiscoverManifestRoots(s) \/ ReadObject(s)
    \/ KillScan(s)

FetchedInto(s, rec) ==
    /\ scan' = [scan EXCEPT ![s] = rec] /\ UNCHANGED cacheLock
    /\ repository' = [repository EXCEPT ![scan[s].source] = WithFetched(s)]
    /\ CanFetch(s)
    /\ DOMAIN rec = DOMAIN Asleep /\ rec.at = "account"
    /\ rec.source = scan[s].source /\ rec.disturbed = scan[s].disturbed
    /\ rec.wish = scan[s].wish /\ rec.got = scan[s].got
    /\ rec.hit = scan[s].hit /\ rec.rev = scan[s].rev
    /\ rec.contacted = TRUE

WithOrigin(repo, u) == [repo EXCEPT !.origin = u]
WithObjects(repo, x) == [repo EXCEPT !.objects = x]
WithRedirect(repo) == [repo EXCEPT !.redirect = TRUE]

LEMMA TwoObjects == IsFiniteSet(Objects) /\ Cardinality(Objects) = 2
<1>1. IsFiniteSet({"commit"}) /\ Cardinality({"commit"}) = 1
  BY FS_Singleton
<1>2. Objects = {"commit"} \cup {"rest"} /\ "rest" \notin {"commit"}
  BY DEF Objects
<1> QED BY <1>1, <1>2, FS_AddElement

\* Repositories, and what is changed of one.
LEMMA RepositoryRecords ==
  /\ \A repo \in BareRepository :
        /\ repo # Unmade /\ repo.objects \in SUBSET (Pin \X Objects)
        /\ repo.litter \in Nat
        /\ Partial(repo) \in BareRepository
        /\ Partial(repo).objects = repo.objects
        /\ Partial(repo).litter = repo.litter /\ ~Partial(repo).whole
        /\ Littered(repo) \in BareRepository
        /\ Littered(repo).objects = repo.objects
        /\ Littered(repo).litter = repo.litter + 2
        /\ WithRedirect(repo) \in BareRepository
        /\ WithRedirect(repo).objects = repo.objects
        /\ WithRedirect(repo).litter = repo.litter
  /\ \A repo \in BareRepository : \A u \in Source :
        /\ WithOrigin(repo, u) \in BareRepository
        /\ WithOrigin(repo, u).whole = repo.whole
        /\ WithOrigin(repo, u).objects = repo.objects
        /\ WithOrigin(repo, u).litter = repo.litter
        /\ WithOrigin(repo, u).origin = u
  /\ \A repo \in BareRepository : \A x \in SUBSET (Pin \X Objects) :
        /\ WithObjects(repo, x) \in BareRepository
        /\ WithObjects(repo, x).whole = repo.whole
        /\ WithObjects(repo, x).objects = x
        /\ WithObjects(repo, x).litter = repo.litter
        /\ WithObjects(repo, x).origin = repo.origin
  /\ \A rev \in Pin : /\ Initialized(rev) \in BareRepository
                      /\ Initialized(rev).objects = {}
                      /\ Initialized(rev).litter = 0
<1> DEFINE Formats == {Format[rev] : rev \in Pin}
           all == SUBSET (Pin \X Objects)
<1>1. BareRepository =
        [ whole : BOOLEAN, origin : Source \cup {Unmade},
          redirect : BOOLEAN, format : Formats, objects : all, litter : Nat ]
  BY DEF BareRepository
<1>2. Cardinality(Objects) = 2
  BY TwoObjects
<1>3. {} \in all /\ \A rev \in Pin : Format[rev] \in Formats
  OBVIOUS
<1> HIDE DEF Formats
<1>4. \A rev \in Pin : /\ Initialized(rev) \in BareRepository
                      /\ Initialized(rev).objects = {}
                      /\ Initialized(rev).litter = 0
  BY <1>1, <1>3 DEF Initialized
<1> HIDE DEF all
<1>5. ASSUME NEW repo \in BareRepository
      PROVE  /\ Partial(repo) \in BareRepository
             /\ Partial(repo).objects = repo.objects
             /\ Partial(repo).litter = repo.litter /\ ~Partial(repo).whole
             /\ WithRedirect(repo) \in BareRepository
             /\ WithRedirect(repo).objects = repo.objects
             /\ WithRedirect(repo).litter = repo.litter
             /\ repo.objects \in all /\ repo # Unmade
             /\ repo.litter \in Nat
  BY <1>1, UnmadeIsNothing DEF Partial, WithRedirect
<1>6. ASSUME NEW repo \in BareRepository, NEW u \in Source
      PROVE  /\ WithOrigin(repo, u) \in BareRepository
             /\ WithOrigin(repo, u).whole = repo.whole
             /\ WithOrigin(repo, u).objects = repo.objects
             /\ WithOrigin(repo, u).litter = repo.litter
             /\ WithOrigin(repo, u).origin = u
  BY <1>1 DEF WithOrigin
<1>7. ASSUME NEW repo \in BareRepository, NEW x \in all
      PROVE  /\ WithObjects(repo, x) \in BareRepository
             /\ WithObjects(repo, x).whole = repo.whole
             /\ WithObjects(repo, x).objects = x
             /\ WithObjects(repo, x).litter = repo.litter
             /\ WithObjects(repo, x).origin = repo.origin
  BY <1>1 DEF WithObjects
<1>8. ASSUME NEW repo \in BareRepository
      PROVE  /\ Littered(repo) \in BareRepository
             /\ Littered(repo).objects = repo.objects
             /\ Littered(repo).litter = repo.litter + 2
  <2>1. repo.litter \in Nat
    BY <1>1
  <2>2. repo.litter + 2 \in Nat
    BY <2>1
  <2> QED BY <1>1, <1>2, <2>2 DEF Littered
<1> QED BY <1>4, <1>5, <1>6, <1>7, <1>8 DEF all

\* What a scan is after the first steps.
ScanAsked(s, rec) ==
    /\ scan' = [scan EXCEPT ![s] = rec]
    /\ DOMAIN rec = DOMAIN Asleep /\ rec.rev \in Pin \cup {Unmade}
    /\ rec.disturbed = Asleep.disturbed
    /\ rec.got = {} /\ rec.hit = FALSE /\ rec.contacted = FALSE
    /\ rec.at \in {"failed", "resolve", "measure"}
    /\ rec.at # "failed" =>
          /\ rec.source \in Source
          /\ rec.at = "resolve" \/ rec.rev \in Pin
          /\ rec.at = "resolve" <=> rec.wish.how \in {"request", "head"}
ScanResolved(s, rec) ==
    /\ scan' = [scan EXCEPT ![s] = rec]
    /\ DOMAIN rec = DOMAIN Asleep
    /\ rec.disturbed = scan[s].disturbed
    /\ rec.source = scan[s].source
    /\ rec.wish = scan[s].wish /\ rec.got = scan[s].got
    /\ rec.hit = scan[s].hit
    /\ \/ rec.at = "measure" /\ rec.contacted = TRUE /\ rec.rev \in Pin
       \/ rec.at = "failed" /\ rec.rev = scan[s].rev

\* What a scan knows when it was asked for: its source, and the revision
\* unless it must be resolved over the network.
LEMMA AskMakes ==
  ASSUME PinTyped, NEW s \in Scan, GoesWell(s), Ask(s)
  PROVE  /\ UNCHANGED <<repository, cacheLock, upstream>> /\ scan[s] = Asleep
         /\ \E rec : ScanAsked(s, rec)
<1>1. PICK wish \in Wishes :
        LET source == IF wish.how = "request"
                      THEN ParseCandidateRequest(wish.request)
                      ELSE wish.source
        IN  /\ Step(s, "asleep",
                [Asleep EXCEPT
                    !.at = IF source = Unmade THEN "failed"
                           ELSE IF wish.how \in {"request", "head"}
                           THEN "resolve" ELSE "measure",
                    !.wish = wish, !.source = source,
                    !.rev = IF wish.how \in {"request", "head"} THEN Unmade
                            ELSE wish.rev])
            /\ UNCHANGED cacheLock /\ Keep
  BY DEF Ask
<1> DEFINE source == IF wish.how = "request"
                     THEN ParseCandidateRequest(wish.request)
                     ELSE wish.source
           phase == IF source = Unmade THEN "failed"
                    ELSE IF wish.how \in {"request", "head"}
                    THEN "resolve" ELSE "measure"
           rev == IF wish.how \in {"request", "head"} THEN Unmade
                  ELSE wish.rev
           rec == [Asleep EXCEPT !.at = phase, !.wish = wish,
                                 !.source = source, !.rev = rev]
<1>2. /\ scan' = [scan EXCEPT ![s] = rec] /\ scan[s].at = "asleep"
      /\ UNCHANGED <<repository, cacheLock, upstream>>
  BY <1>1, Zenon DEF Step, Keep, Rest
<1>3. scan[s] = Asleep
  BY <1>2 DEF GoesWell
<1>4. /\ phase \in {"failed", "resolve", "measure"}
      /\ phase # "failed" =>
            /\ source # Unmade
            /\ phase = "resolve" <=> wish.how \in {"request", "head"}
  OBVIOUS
<1>5. /\ source \in Source \cup {Unmade} /\ rev \in Pin \cup {Unmade}
      /\ phase = "measure" => rev \in Pin
  BY WishesName DEF ParseCandidateRequest, CanonicalPublicGithubUrl
<1> HIDE DEF source, phase, rev
<1>6. /\ DOMAIN rec = DOMAIN Asleep /\ rec.at = phase /\ rec.source = source
      /\ rec.wish = wish /\ rec.disturbed = Asleep.disturbed
      /\ rec.rev = rev
      /\ rec.got = {} /\ rec.hit = FALSE /\ rec.contacted = FALSE
  BY DEF Asleep
<1> HIDE DEF rec
<1>7. ScanAsked(s, rec)
  BY <1>2, <1>4, <1>5, <1>6 DEF ScanAsked
<1> QED BY <1>2, <1>3, <1>7

\* What it knows when the remote named a head.
LEMMA ResolveMakes ==
  ASSUME PinTyped, NEW s \in Scan, ResolveRemoteHead(s)
  PROVE  /\ UNCHANGED <<repository, cacheLock, upstream>>
         /\ scan[s].at = "resolve"
         /\ \E rec : ScanResolved(s, rec)
<1> DEFINE me == scan[s]
           rec == [me EXCEPT !.at = "measure", !.contacted = TRUE,
                             !.rev = upstream[scan[s].source].head]
           end == [me EXCEPT !.at = "failed"]
<1>1. /\ scan' = [scan EXCEPT ![s] = rec] \/ scan' = [scan EXCEPT ![s] = end]
      /\ scan[s].at = "resolve"
      /\ UNCHANGED <<repository, cacheLock, upstream>>
  BY DEF ResolveRemoteHead, Step, Stop, Keep, Rest
<1>2. /\ DOMAIN rec = DOMAIN Asleep /\ rec.at = "measure"
      /\ rec.source = me.source /\ rec.disturbed = me.disturbed
      /\ rec.wish = me.wish /\ rec.got = me.got /\ rec.hit = me.hit
      /\ rec.contacted = TRUE /\ rec.rev = upstream[me.source].head
      /\ DOMAIN end = DOMAIN Asleep /\ end.at = "failed"
      /\ end.source = me.source /\ end.disturbed = me.disturbed
      /\ end.wish = me.wish /\ end.got = me.got /\ end.hit = me.hit
      /\ end.rev = me.rev
  BY DEF PinTyped, Asleep
<1> HIDE DEF rec, end
<1>3. upstream[me.source].head \in Pin
  BY <1>1, SourcesHavePins DEF PinTyped
<1>4. ScanResolved(s, rec) \/ ScanResolved(s, end)
  BY <1>1, <1>2, <1>3 DEF ScanResolved
<1> QED BY <1>1, <1>4

\* What is in a repository with what was fetched into it.
LEMMA FetchedIs ==
  ASSUME PinTyped, NEW s \in Scan, scan[s].source \in Source,
         scan[s].rev \in Pin, CanFetch(s)
  PROVE  /\ Mine(s) \in BareRepository /\ Mine(s) # Unmade /\ Mine(s).whole
         /\ WithFetched(s) \in BareRepository /\ WithFetched(s) # Unmade
         /\ WithFetched(s).objects =
               Mine(s).objects \cup Fetched(scan[s].rev)
         /\ WithFetched(s).whole = Mine(s).whole
         /\ WithFetched(s).litter = Mine(s).litter
<1>1. Mine(s) \in BareRepository /\ Mine(s) # Unmade /\ Mine(s).whole
  BY DEF PinTyped, CanFetch, Usable, Mine
<1>2. Mine(s).objects \cup Fetched(scan[s].rev) \in SUBSET (Pin \X Objects)
  <2>1. Mine(s).objects \in SUBSET (Pin \X Objects)
    BY <1>1, RepositoryRecords
  <2> QED BY <2>1 DEF Fetched
<1>3. WithFetched(s) =
         WithObjects(Mine(s), Mine(s).objects \cup Fetched(scan[s].rev))
  BY DEF WithObjects, WithFetched
<1>4. PICK all : all = Mine(s).objects \cup Fetched(scan[s].rev)
  OBVIOUS
<1>5. /\ WithObjects(Mine(s), all) \in BareRepository
      /\ WithObjects(Mine(s), all).whole = Mine(s).whole
      /\ WithObjects(Mine(s), all).objects = all
      /\ WithObjects(Mine(s), all).litter = Mine(s).litter
  <2>1. PICK repo \in BareRepository : repo = Mine(s)
    BY <1>1
  <2>2. all \in SUBSET (Pin \X Objects)
    BY <1>2, <1>4
  <2>3. /\ WithObjects(repo, all) \in BareRepository
        /\ WithObjects(repo, all).whole = repo.whole
        /\ WithObjects(repo, all).objects = all
        /\ WithObjects(repo, all).litter = repo.litter
    <3> HIDE DEF PinTyped
    <3> QED BY <2>2, RepositoryRecords
  <2> QED BY <2>1, <2>3
<1> QED BY <1>1, <1>3, <1>4, <1>5, UnmadeIsNothing

\* A fetch that succeeds.
LEMMA FetchMakes ==
  ASSUME PinTyped, NEW s \in Scan, FetchRevision(s), ~StepFails(s)
  PROVE  \E rec : FetchedInto(s, rec)
<1>1. /\ scan[s].source \in Source /\ DOMAIN scan[s] = DOMAIN Asleep
      /\ scan[s].at = "fetch" /\ CanFetch(s)
      /\ scan' = [scan EXCEPT ![s] = [Going(s, "account") EXCEPT
                                          !.contacted = TRUE]]
      /\ repository' =
            [repository EXCEPT ![scan[s].source] = WithFetched(s)]
      /\ UNCHANGED cacheLock
  BY DEF PinTyped, FetchRevision
<1> DEFINE rec == [scan[s] EXCEPT !.at = "account", !.contacted = TRUE]
<1>2. scan' = [scan EXCEPT ![s] = rec]
  BY <1>1 DEF Going
<1>3. /\ DOMAIN rec = DOMAIN scan[s] /\ rec.at = "account"
      /\ rec.source = scan[s].source /\ rec.disturbed = scan[s].disturbed
      /\ rec.wish = scan[s].wish /\ rec.got = scan[s].got
      /\ rec.hit = scan[s].hit /\ rec.rev = scan[s].rev
      /\ rec.contacted = TRUE
  BY <1>1 DEF Asleep
<1> HIDE DEF rec
<1>4. FetchedInto(s, rec)
  BY <1>1, <1>2, <1>3 DEF FetchedInto
<1> QED BY <1>4

\* How a scan ends when a step of it fails or it is killed.
Ends(s) ==
    /\ LeaveHalfDone(s)
    /\ DOMAIN scan' = Scan /\ \A t \in Scan \ {s} : scan'[t] = scan[t]
    /\ DOMAIN scan'[s] = DOMAIN Asleep /\ scan'[s].at \in {"failed", "cut"}
    /\ scan'[s].source = scan[s].source /\ scan'[s].rev = scan[s].rev
    /\ scan'[s].got = scan[s].got
    /\ scan'[s].disturbed = scan[s].disturbed

LEMMA EndsSo ==
  ASSUME PinTyped, NEW s \in Scan
  PROVE  /\ StepFails(s) => /\ Ends(s) /\ cacheLock' = Unmade
                            /\ \/ UNCHANGED repository
                               \/ scan[s].at # "fetch"
                               \/ scan'[s].at = "cut"
         /\ KillScan(s) => /\ Ends(s) /\ scan'[s].at = "failed"
                           /\ scan[s].at \notin {"asleep", "failed"}
<1>2. ASSUME NEW to \in {"failed", "cut"},
             scan' = [scan EXCEPT ![s] = [scan[s] EXCEPT !.at = to]]
      PROVE  /\ DOMAIN scan' = Scan
             /\ \A t \in Scan \ {s} : scan'[t] = scan[t]
             /\ DOMAIN scan'[s] = DOMAIN Asleep /\ scan'[s].at = to
             /\ scan'[s].source = scan[s].source
             /\ scan'[s].rev = scan[s].rev /\ scan'[s].got = scan[s].got
             /\ scan'[s].disturbed = scan[s].disturbed
  BY <1>2 DEF PinTyped, Asleep
<1>3. ASSUME StepFails(s)
      PROVE  /\ Ends(s) /\ cacheLock' = Unmade
             /\ \/ UNCHANGED repository \/ scan[s].at # "fetch"
                \/ scan'[s].at = "cut"
  <2> DEFINE to == IF scan[s].at = "fetch" /\ repository' # repository
                   THEN "cut" ELSE "failed"
  <2>1. /\ scan' = [scan EXCEPT ![s] = [scan[s] EXCEPT !.at = to]]
        /\ LeaveHalfDone(s) /\ cacheLock' = Unmade
        /\ to \in {"failed", "cut"}
    BY <1>3 DEF StepFails, Going
  <2>2. /\ to = "cut" <=> scan[s].at = "fetch" /\ repository' # repository
        /\ to = "failed" <=> ~(/\ scan[s].at = "fetch"
                               /\ repository' # repository)
    OBVIOUS
  <2> HIDE DEF to
  <2> QED BY <1>2, <2>1, <2>2 DEF Ends
<1>4. ASSUME KillScan(s)
      PROVE  /\ Ends(s) /\ scan'[s].at = "failed"
             /\ scan[s].at \notin {"asleep", "failed"}
  <2>1. /\ scan' = [scan EXCEPT ![s] = [scan[s] EXCEPT !.at = "failed"]]
        /\ LeaveHalfDone(s) /\ scan[s].at \notin {"asleep", "failed"}
    BY <1>4 DEF KillScan, Stop
  <2> QED BY <1>2, <2>1 DEF Ends
<1> QED BY <1>3, <1>4

\* What is left of the repository then.
HalfDone(s) ==
    /\ DOMAIN repository' = Source
    /\ \A u \in Source \ {scan[s].source} : repository'[u] = repository[u]
    /\ repository'[scan[s].source] \in BareRepository \cup {Unmade}
    /\ \/ repository' = repository
       \/ /\ scan[s].at \in {"init", "reinit"}
          /\ repository'[scan[s].source] = Partial(Initialized(scan[s].rev))
       \/ /\ scan[s].at = "remove" /\ Mine(s) # Unmade
          /\ repository'[scan[s].source] = Partial(Mine(s))
       \/ /\ scan[s].at = "fetch" /\ Mine(s) # Unmade
          /\ repository'[scan[s].source] = Littered(Mine(s))
       \/ /\ scan[s].at = "fetch" /\ CanFetch(s)
          /\ repository'[scan[s].source] = WithFetched(s)

LEMMA HalfDoneIs ==
  ASSUME PinTyped, NEW s \in Scan, scan[s].source \in Source,
         LeaveHalfDone(s)
  PROVE  HalfDone(s)
<1> USE DEF PinTyped
<1>1. Mine(s) \in BareRepository \cup {Unmade}
      /\ (scan[s].at \in LockHeld => scan[s].rev \in Pin)
  BY DEF Mine, LockHeld, Unanswered, Answered
<1>2. CASE UNCHANGED repository
  BY <1>2 DEF HalfDone
<1>3. CASE /\ scan[s].at \in {"init", "reinit"}
           /\ repository' = [repository EXCEPT ![scan[s].source] =
                                Partial(Initialized(scan[s].rev))]
  <2>1. Partial(Initialized(scan[s].rev)) \in BareRepository
    BY <1>1, <1>3, RepositoryRecords DEF LockHeld
  <2> QED BY <1>3, <2>1 DEF HalfDone
<1>4. CASE /\ scan[s].at = "remove" /\ Mine(s) # Unmade
           /\ repository' =
                 [repository EXCEPT ![scan[s].source] = Partial(@)]
  <2>1. Partial(Mine(s)) \in BareRepository
    BY <1>1, <1>4, RepositoryRecords
  <2>2. repository' = [repository EXCEPT ![scan[s].source] = Partial(Mine(s))]
    BY <1>4 DEF Mine
  <2> QED BY <1>4, <2>1, <2>2 DEF HalfDone
<1>5. CASE /\ scan[s].at = "fetch" /\ Mine(s) # Unmade
           /\ repository' =
                 [repository EXCEPT ![scan[s].source] = Littered(@)]
  <2>1. Littered(Mine(s)) \in BareRepository
    BY <1>1, <1>5, RepositoryRecords
  <2>2. repository' =
           [repository EXCEPT ![scan[s].source] = Littered(Mine(s))]
    BY <1>5 DEF Mine
  <2> QED BY <1>5, <2>1, <2>2 DEF HalfDone
<1>6. CASE /\ scan[s].at = "fetch" /\ CanFetch(s)
           /\ repository' =
                 [repository EXCEPT ![scan[s].source] = WithFetched(s)]
  <2>1. WithFetched(s) \in BareRepository
    BY <1>1, <1>6, FetchedIs DEF LockHeld
  <2> QED BY <1>6, <2>1 DEF HalfDone
<1> QED BY <1>2, <1>3, <1>4, <1>5, <1>6 DEF LeaveHalfDone

\* Every step of a scan leaves the other scans alone, and every repository but
\* the one it locked.
LEMMA StepsAreOwn ==
  ASSUME PinTyped, LockIsHeld, NEW s \in Scan, GoesWell(s), ScanStep(s)
  PROVE  PinTyped' /\ LockIsHeld' /\ Only(s)
<1>f. ASSUME StepFails(s), scan[s].at \in LockHeld
      PROVE  Ends(s) /\ cacheLock' = Unmade /\ cacheLock = s
  BY <1>f, EndsSo DEF LockIsHeld
<1>k. ASSUME KillScan(s)
      PROVE  /\ Ends(s) /\ scan[s].at \notin {"asleep", "failed"}
             /\ cacheLock' = IF cacheLock = s THEN Unmade ELSE cacheLock
             /\ UNCHANGED upstream
  BY <1>k, EndsSo DEF KillScan
<1>e. ASSUME Ends(s), UNCHANGED upstream,
             scan[s].at \notin {"asleep", "failed"},
             cacheLock' = IF cacheLock = s THEN Unmade ELSE cacheLock
      PROVE  PinTyped' /\ LockIsHeld' /\ Only(s)
  <2>1. HalfDone(s)
    BY <1>e, HalfDoneIs DEF Ends, PinTyped
  <2>2. /\ DOMAIN repository' = Source
        /\ \A u \in Source \ {scan[s].source} : repository'[u] = repository[u]
        /\ repository'[scan[s].source] \in BareRepository \cup {Unmade}
        /\ scan[s].at \notin LockHeld => repository' = repository
    BY <2>1 DEF HalfDone, LockHeld
  <2>3. /\ DOMAIN scan' = Scan /\ \A t \in Scan \ {s} : scan'[t] = scan[t]
        /\ DOMAIN scan'[s] = DOMAIN Asleep
        /\ scan'[s].at \in {"failed", "cut"}
        /\ scan'[s].source = scan[s].source /\ scan'[s].rev = scan[s].rev
        /\ scan'[s].got = scan[s].got
        /\ scan'[s].disturbed = scan[s].disturbed
        /\ scan[s].source \in Source
    BY <1>e DEF Ends, PinTyped
  <2>4. {"failed", "cut"} \subseteq
           PinPhase \ (LockHeld \cup Unanswered \cup Answered \cup {"asleep"})
    BY DEF PinPhase, LockHeld, Unanswered, Answered
  <2>5. LockIsHeld'
    BY <1>e, <2>3, <2>4, UnmadeIsNothing DEF LockIsHeld
  <2>6. PinTyped'
    <3>1. ASSUME NEW t \in Scan
          PROVE  /\ DOMAIN scan'[t] = DOMAIN Asleep
                 /\ scan'[t].rev \in Pin \cup {Unmade}
                 /\ scan'[t].got \subseteq Pin \X Objects
                 /\ scan'[t].at \in PinPhase
                 /\ scan'[t].at \notin {"asleep", "failed"} =>
                       scan'[t].source \in Source
                 /\ scan'[t].at \in Unanswered \cup Answered =>
                       scan'[t].rev \in Pin
      BY <2>3, <2>4 DEF PinTyped
    <3>2. \A u \in Source : repository'[u] \in BareRepository \cup {Unmade}
      BY <2>2 DEF PinTyped
    <3> QED BY <1>e, <2>2, <2>3, <3>1, <3>2 DEF PinTyped
  <2> QED BY <2>2, <2>3, <2>5, <2>6 DEF Only
<1> USE UnmadeIsNothing, WishesName DEF PinTyped, LockIsHeld, Only,
        Step, Going, Stop, Rest, Keep, LockHeld, Unanswered, Answered,
        PinPhase, Asleep
<1>0. ASSUME NEW rec, scan' = [scan EXCEPT ![s] = rec],
             UNCHANGED <<repository, cacheLock, upstream>>,
             DOMAIN rec = DOMAIN Asleep, rec.disturbed = scan[s].disturbed,
             scan[s].at \notin LockHeld, rec.at \in PinPhase \ LockHeld,
             rec.at \notin {"asleep", "failed"} => rec.source \in Source,
             rec.source = scan[s].source \/ scan[s].at = "asleep",
             rec.rev \in Pin \cup {Unmade}, rec.got \subseteq Pin \X Objects,
             rec.at \in Unanswered \cup Answered => rec.rev \in Pin
      PROVE  PinTyped' /\ LockIsHeld' /\ Only(s)
  BY <1>0
<1>1. CASE Ask(s)
  <2>1. UNCHANGED <<repository, cacheLock, upstream>> /\ scan[s] = Asleep
        /\ \E rec : ScanAsked(s, rec)
    BY <1>1, AskMakes, Zenon
  <2>2. PICK rec : ScanAsked(s, rec)
    BY <2>1
  <2>3. scan[s].at = "asleep" /\ scan[s].disturbed = rec.disturbed
    BY <2>1, <2>2 DEF ScanAsked
  <2>4. /\ scan' = [scan EXCEPT ![s] = rec] /\ DOMAIN rec = DOMAIN Asleep
        /\ rec.at \in {"failed", "resolve", "measure"}
        /\ rec.at # "failed" => rec.source \in Source
        /\ rec.rev \in Pin \cup {Unmade} /\ rec.got = {}
        /\ rec.at = "measure" => rec.rev \in Pin
    BY <2>2 DEF ScanAsked
  <2> QED BY <1>0, <2>1, <2>3, <2>4
<1>2. CASE ResolveRemoteHead(s)
  <2>1. UNCHANGED <<repository, cacheLock, upstream>>
        /\ scan[s].at = "resolve" /\ \E rec : ScanResolved(s, rec)
    BY <1>2, ResolveMakes, Zenon
  <2>2. PICK rec : ScanResolved(s, rec)
    BY <2>1
  <2> QED BY <1>0, <2>1, <2>2 DEF ScanResolved
<1>3. CASE MeasureCache(s)
  BY <1>3 DEF MeasureCache
<1>4. CASE TakeCacheLock(s)
  BY <1>4 DEF TakeCacheLock
<1>5. CASE LockTimesOut(s)
  BY <1>5 DEF LockTimesOut
<1>6. CASE OpenRepository(s)
  BY <1>6 DEF OpenRepository, FailLocked
<1>7. CASE InitRepository(s)
  <2>1. /\ scan[s].at \in {"init", "reinit"} /\ scan[s].source \in Source
        /\ scan[s].rev \in Pin
    BY <1>7 DEF InitRepository
  <2>2. Initialized(scan[s].rev) \in BareRepository
    BY <2>1, RepositoryRecords
  <2>3. CASE StepFails(s)
    BY <1>7, <1>e, <1>f, <2>1, <2>3 DEF InitRepository
  <2>4. CASE ~StepFails(s)
    BY <1>7, <2>1, <2>2, <2>4 DEF InitRepository
  <2> QED BY <2>3, <2>4
<1>8. CASE ValidateRepository(s)
  <2>1. CASE StepFails(s)
    BY <1>8, <1>e, <1>f, <2>1 DEF ValidateRepository
  <2>2. CASE ~StepFails(s)
    BY <1>8, <2>2 DEF ValidateRepository
  <2> QED BY <2>1, <2>2
<1>9. CASE ProbeRevision(s)
  BY <1>9 DEF ProbeRevision
<1>10. CASE RemoveRepository(s)
  <2>1. CASE StepFails(s)
    BY <1>10, <1>e, <1>f, <2>1 DEF RemoveRepository
  <2>2. CASE ~StepFails(s)
    BY <1>10, <2>2 DEF RemoveRepository
  <2> QED BY <2>1, <2>2
<1>11. CASE SetOrigin(s)
  <2>1. scan[s].at = "origin" /\ scan[s].source \in Source
        /\ repository[scan[s].source] = Mine(s)
    BY <1>11 DEF SetOrigin, Mine
  <2>2. Mine(s) # Unmade =>
          [Mine(s) EXCEPT !.origin = scan[s].source] \in BareRepository
    <3>1. Mine(s) # Unmade =>
            WithOrigin(Mine(s), scan[s].source) \in BareRepository
      BY <2>1, RepositoryRecords
    <3> QED BY <3>1 DEF WithOrigin
  <2>3. CASE StepFails(s)
    BY <1>11, <1>e, <1>f, <2>1, <2>3 DEF SetOrigin
  <2>4. CASE ~StepFails(s)
    BY <1>11, <2>1, <2>2, <2>4 DEF SetOrigin, Usable
  <2> QED BY <2>3, <2>4
<1>12. CASE FetchRevision(s)
  <2>1. scan[s].at = "fetch" /\ scan[s].source \in Source /\ cacheLock = s
        /\ UNCHANGED upstream
    BY <1>12 DEF FetchRevision
  <2>2. CASE StepFails(s)
    BY <1>e, <1>f, <2>1, <2>2
  <2>3. CASE ~StepFails(s)
    <3>1. PICK rec : FetchedInto(s, rec)
      BY <1>12, <2>3, FetchMakes, Zenon
    <3>2. WithFetched(s) \in BareRepository
      BY <2>1, <3>1, FetchedIs DEF FetchedInto
    <3> QED BY <2>1, <3>1, <3>2 DEF FetchedInto
  <2> QED BY <2>2, <2>3
<1>13. CASE AccountFetch(s)
  <2>1. Mine(s) \in BareRepository => Partial(Mine(s)) \in BareRepository
    BY RepositoryRecords
  <2> QED BY <1>13, <2>1 DEF AccountFetch, FailLocked, Mine
<1>14. CASE DiscoverManifestRoots(s)
  BY <1>14 DEF DiscoverManifestRoots
<1>15. CASE ReadObject(s)
  <2>1. \A object \in Objects :
           <<scan[s].rev, object>> \in Pin \X Objects \/ scan[s].at # "read"
    OBVIOUS
  <2> QED BY <1>15, <2>1 DEF ReadObject, Objects
<1>16. CASE KillScan(s)
  BY <1>16, <1>e, <1>k
<1> QED
  BY <1>1, <1>2, <1>3, <1>4, <1>5, <1>6, <1>7, <1>8, <1>9, <1>10, <1>11, <1>12,
     <1>13, <1>14, <1>15, <1>16
     DEF ScanStep

\* How far a scan is, it is by the book.
LEMMA StepsGoWell ==
  ASSUME PinTyped, NEW s \in Scan, GoesWell(s), ScanStep(s)
  PROVE  GoesWell(s)'
<1> USE DEF PinTyped, Step, Going, Stop, LockHeld, Unanswered, Answered,
        OverNet, Network, GoesWell, FailLocked, Asleep, Objects
<1>e. ASSUME StepFails(s) \/ KillScan(s)
      PROVE  scan'[s].at \in {"failed", "cut"}
  <2> HIDE DEF PinTyped, GoesWell, Asleep
  <2> QED BY <1>e, EndsSo DEF Ends
<1>1. CASE Ask(s)
  <2>1. PICK rec : ScanAsked(s, rec)
    <3> HIDE DEF PinTyped, GoesWell, Asleep
    <3> QED BY <1>1, AskMakes
  <2>2. /\ scan'[s] = rec /\ rec.got = {}
        /\ rec.hit = FALSE /\ rec.contacted = FALSE
        /\ rec.at \in {"failed", "resolve", "measure"}
        /\ rec.at # "failed" =>
              (rec.at = "resolve" <=> rec.wish.how \in {"request", "head"})
    BY <2>1 DEF ScanAsked
  <2>3. /\ scan'[s].at = "resolve" => OverNet(s)'
        /\ scan'[s].at = "measure" => scan'[s].contacted = OverNet(s)'
    <3>1. /\ scan'[s].at = "resolve" => OverNet(s)'
          /\ scan'[s].at = "measure" => OverNet(s)' = FALSE
          /\ scan'[s].contacted = FALSE
      BY <2>2
    <3> HIDE DEF OverNet
    <3> QED BY <3>1
  <2>4. /\ scan'[s].at \in {"failed", "resolve", "measure"}
        /\ scan'[s].got = {} /\ ~scan'[s].hit /\ ~scan'[s].contacted
    BY <2>2
  <2> HIDE DEF OverNet
  <2> QED BY <2>3, <2>4
<1>2. CASE ResolveRemoteHead(s)
  <2>1. PICK rec : ScanResolved(s, rec) /\ scan[s].at = "resolve"
    BY <1>2, ResolveMakes
  <2> QED BY <2>1 DEF ScanResolved
<1>3. CASE MeasureCache(s)
  BY <1>3 DEF MeasureCache
<1>4. CASE TakeCacheLock(s)
  BY <1>4 DEF TakeCacheLock
<1>5. CASE LockTimesOut(s)
  BY <1>5 DEF LockTimesOut
<1>6. CASE OpenRepository(s)
  BY <1>6 DEF OpenRepository
<1>7. CASE InitRepository(s)
  BY <1>e, <1>7 DEF InitRepository
<1>8. CASE ValidateRepository(s)
  BY <1>e, <1>8 DEF ValidateRepository
<1>9. CASE ProbeRevision(s)
  <2>1. PICK commit, hit :
           scan' = [scan EXCEPT ![s] =
              [scan[s] EXCEPT !.hit = commit /\ hit,
                              !.at = IF commit /\ ~hit THEN "remove"
                                     ELSE "origin"]]
    BY <1>9 DEF ProbeRevision
  <2> DEFINE go == IF commit /\ ~hit THEN "remove" ELSE "origin"
             rec == [scan[s] EXCEPT !.hit = commit /\ hit, !.at = go]
  <2>2. /\ go = "remove" => ~(commit /\ hit)
        /\ go \in {"remove", "origin"}
    OBVIOUS
  <2> HIDE DEF go
  <2>3. /\ rec.at = go /\ rec.hit = (commit /\ hit)
        /\ rec.contacted = scan[s].contacted /\ rec.got = scan[s].got
        /\ rec.wish = scan[s].wish /\ scan[s].at = "probe"
    BY <1>9 DEF ProbeRevision
  <2>4. scan'[s] = rec
    BY <2>1 DEF go
  <2> HIDE DEF rec
  <2> QED BY <2>2, <2>3, <2>4
<1>10. CASE RemoveRepository(s)
  BY <1>e, <1>10 DEF RemoveRepository
<1>11. CASE SetOrigin(s)
  BY <1>e, <1>11 DEF SetOrigin
<1>12. CASE FetchRevision(s)
  <2>1. CASE StepFails(s)
    BY <1>e, <2>1
  <2>2. CASE ~StepFails(s)
    <3>1. PICK rec : FetchedInto(s, rec)
      BY <1>12, <2>2, FetchMakes, Zenon
    <3>2. scan[s].at = "fetch"
      BY <1>12 DEF FetchRevision
    <3> QED BY <3>1, <3>2 DEF FetchedInto
  <2> QED BY <2>1, <2>2
<1>13. CASE AccountFetch(s)
  BY <1>13 DEF AccountFetch
<1>14. CASE DiscoverManifestRoots(s)
  BY <1>14 DEF DiscoverManifestRoots
<1>15. CASE ReadObject(s)
  BY <1>15 DEF ReadObject
<1>16. CASE KillScan(s)
  BY <1>e, <1>16
<1> QED
  BY <1>1, <1>2, <1>3, <1>4, <1>5, <1>6, <1>7, <1>8, <1>9, <1>10, <1>11, <1>12,
     <1>13, <1>14, <1>15, <1>16
     DEF ScanStep

\* A step of a scan disturbs nothing.
LEMMA StepsDisturbNot ==
  ASSUME NEW s \in Scan, Only(s), GoesWell(s), NEW u \in Source,
         Undisturbed(u)'
  PROVE  Undisturbed(u)
BY UnmadeIsNothing DEF Only, GoesWell, Undisturbed, Asleep

\* What the lock protects: the objects found or fetched stay whole, and no
\* repository has what its source never had.
LEMMA StepsSecure ==
  ASSUME PinTyped, OwnOnly, NEW s \in Scan, GoesWell(s), Secured(s), Only(s),
         ScanStep(s), PinTyped'
  PROVE  Secured(s)' /\ OwnOnly'
<1>d. \A u \in Source : Undisturbed(u)' => Undisturbed(u)
  BY StepsDisturbNot
<1>u. ASSUME UNCHANGED repository PROVE OwnOnly'
  BY <1>d, <1>u DEF OwnOnly
<1>m. ASSUME scan[s].source \in Source,
             repository'[scan[s].source] # Unmade =>
                \/ repository'[scan[s].source].objects = {}
                \/ /\ Mine(s) # Unmade
                   /\ repository'[scan[s].source].objects = Mine(s).objects
      PROVE  OwnOnly'
  BY <1>d, <1>m DEF OwnOnly, Only, Mine
<1>w. ASSUME scan[s].at = "fetch", CanFetch(s), scan[s].source \in Source,
             repository'[scan[s].source] = WithFetched(s)
      PROVE  /\ Undisturbed(scan[s].source) =>
                   scan[s].rev \in Ever[scan[s].source]
             /\ OwnOnly'
  <2>1. scan[s].rev \in Pin
    BY <1>w DEF PinTyped, Unanswered, LockHeld
  <2>2. /\ Mine(s) # Unmade /\ WithFetched(s) # Unmade
        /\ WithFetched(s).objects =
              Mine(s).objects \cup Fetched(scan[s].rev)
    BY <1>w, <2>1, FetchedIs
  <2>3. Undisturbed(scan[s].source) => scan[s].rev \in Ever[scan[s].source]
    BY <1>w, <2>2 DEF Secured, Undisturbed, CanFetch, PinTyped
  <2>4. OwnOnly'
    BY <1>d, <1>w, <2>2, <2>3 DEF OwnOnly, Only, Fetched, Mine
  <2> QED BY <2>3, <2>4
<1>e. ASSUME Ends(s), scan[s].source \in Source
      PROVE  Secured(s)' /\ OwnOnly'
  <2>1. HalfDone(s)
    BY <1>e, HalfDoneIs DEF Ends
  <2>2. Secured(s)'
    BY <1>e DEF Ends, Secured, Answered
  <2>3. Mine(s) # Unmade =>
           /\ Partial(Mine(s)).objects = Mine(s).objects
           /\ Littered(Mine(s)).objects = Mine(s).objects
    BY <1>e, RepositoryRecords DEF PinTyped, Mine
  <2>4. scan[s].at \in {"init", "reinit"} =>
           Partial(Initialized(scan[s].rev)).objects = {}
    BY <1>e, RepositoryRecords DEF PinTyped, LockHeld, Unanswered
  <2>5. CASE repository' = repository
    BY <1>u, <2>2, <2>5
  <2>6. CASE scan[s].at = "fetch" /\ CanFetch(s)
             /\ repository'[scan[s].source] = WithFetched(s)
    BY <1>e, <1>w, <2>2, <2>6
  <2> QED BY <1>e, <1>m, <2>1, <2>2, <2>3, <2>4, <2>5, <2>6 DEF HalfDone
<1>f. ASSUME StepFails(s), scan[s].at \in LockHeld
      PROVE  Ends(s) /\ scan[s].source \in Source
  BY <1>f, EndsSo DEF PinTyped, LockHeld
<1> USE DEF PinTyped, Step, Going, Stop, LockHeld, Unanswered, Answered,
        Keep, Rest, FailLocked
<1>1. CASE Ask(s)
  BY <1>d, <1>u, <1>m, <1>1
     DEF Ask, Secured, GoesWell, Only, Mine, HasWhole, HasObject, Initialized,
         Partial, CacheHit, Asleep
<1>2. CASE ResolveRemoteHead(s)
  <2>1. PICK rec : ScanResolved(s, rec) /\ UNCHANGED repository
    BY <1>2, ResolveMakes
  <2> QED
    BY <1>u, <2>1
       DEF ScanResolved, Secured, GoesWell, Only, Mine, HasWhole, HasObject,
           Initialized, Partial, CacheHit, Asleep
<1>3. CASE MeasureCache(s)
  BY <1>d, <1>u, <1>m, <1>3
     DEF MeasureCache, Secured, GoesWell, Only, Mine, HasWhole, HasObject,
         Initialized, Partial, CacheHit, Asleep
<1>4. CASE TakeCacheLock(s)
  BY <1>d, <1>u, <1>m, <1>4
     DEF TakeCacheLock, Secured, GoesWell, Only, Mine, HasWhole, HasObject,
         Initialized, Partial, CacheHit, Asleep
<1>5. CASE LockTimesOut(s)
  BY <1>d, <1>u, <1>m, <1>5
     DEF LockTimesOut, Secured, GoesWell, Only, Mine, HasWhole, HasObject,
         Initialized, Partial, CacheHit, Asleep
<1>6. CASE OpenRepository(s)
  BY <1>d, <1>u, <1>m, <1>6
     DEF OpenRepository, Secured, GoesWell, Only, Mine, HasWhole, HasObject,
         Initialized, Partial, CacheHit, Asleep
<1>7. CASE InitRepository(s)
  <2>1. CASE StepFails(s)
    BY <1>7, <1>e, <1>f, <2>1 DEF InitRepository
  <2>2. CASE ~StepFails(s)
    BY <1>d, <1>u, <1>m, <1>7, <2>2
       DEF InitRepository, Secured, GoesWell, Only, Mine, HasWhole, HasObject,
           Initialized, CacheHit, Asleep
  <2> QED BY <2>1, <2>2
<1>8. CASE ValidateRepository(s)
  <2>1. CASE StepFails(s)
    BY <1>8, <1>e, <1>f, <2>1 DEF ValidateRepository
  <2>2. CASE ~StepFails(s)
    BY <1>d, <1>u, <1>m, <1>8, <2>2
       DEF ValidateRepository, Secured, GoesWell, Only, Mine, HasWhole,
           HasObject, CacheHit, Asleep
  <2> QED BY <2>1, <2>2
<1>9. CASE ProbeRevision(s)
  <2>0. PICK commit \in {HasObject(Mine(s), scan[s].rev, "commit"), FALSE},
             found \in {CacheHit(Mine(s), scan[s].rev), FALSE} :
           scan' = [scan EXCEPT ![s] =
                [@ EXCEPT !.hit = commit /\ found,
                          !.at = IF commit /\ ~found THEN "remove"
                                 ELSE "origin"]]
    BY <1>9 DEF ProbeRevision
  <2> DEFINE hit == commit /\ found
             go == IF commit /\ ~found THEN "remove" ELSE "origin"
             rec == [scan[s] EXCEPT !.hit = hit, !.at = go]
  <2>1. /\ scan' = [scan EXCEPT ![s] = rec] /\ scan[s].at = "probe"
        /\ UNCHANGED repository
    BY <1>9, <2>0 DEF ProbeRevision
  <2>2. /\ go \in {"remove", "origin"} /\ hit \in BOOLEAN
        /\ hit => HasWhole(Mine(s), scan[s].rev)
    BY <2>0 DEF HasWhole, HasObject, CacheHit
  <2>3. /\ scan'[s] = rec /\ rec.at = go /\ rec.hit = hit
        /\ rec.source = scan[s].source /\ rec.rev = scan[s].rev
        /\ rec.disturbed = scan[s].disturbed
    <3> HIDE DEF go, hit
    <3> QED BY <2>1 DEF Asleep
  <2>4. scan[s].source \in Source
    BY <2>1
  <2>5. hit /\ Undisturbed(scan[s].source) =>
           scan[s].rev \in Ever[scan[s].source]
    <3> HIDE DEF hit
    <3> QED BY <2>2, <2>4 DEF OwnOnly, HasWhole, HasObject, Objects, Mine
  <2>6. hit => HasWhole(Mine(s), scan[s].rev)'
    <3> HIDE DEF rec, go, hit
    <3> QED BY <2>1, <2>2, <2>3 DEF HasWhole, HasObject, Mine
  <2> HIDE DEF rec, go, hit
  <2> QED BY <1>d, <1>u, <2>1, <2>2, <2>3, <2>4, <2>5, <2>6 DEF Secured
<1>10. CASE RemoveRepository(s)
  <2>1. scan[s].at = "remove" /\ scan[s].source \in Source
    BY <1>10 DEF RemoveRepository
  <2>2. CASE StepFails(s)
    BY <1>e, <1>f, <2>1, <2>2
  <2>3. CASE ~StepFails(s)
    <3>1. /\ repository'[scan[s].source] = Unmade
          /\ scan' = [scan EXCEPT ![s] = Going(s, "reinit")]
      BY <1>10, <2>1, <2>3 DEF RemoveRepository
    <3>2. OwnOnly'
      BY <1>m, <2>1, <3>1
    <3>3. scan'[s].at = "reinit"
      BY <3>1 DEF Asleep
    <3> QED BY <3>2, <3>3 DEF Secured
  <2> QED BY <2>2, <2>3
<1>11. CASE SetOrigin(s)
  <2>1. /\ scan[s].at = "origin" /\ scan[s].source \in Source
        /\ UNCHANGED upstream
    BY <1>11 DEF SetOrigin
  <2>2. CASE StepFails(s)
    BY <1>e, <1>f, <2>1, <2>2
  <2>4. CASE ~StepFails(s)
    <3>0. Usable(Mine(s)) /\ Mine(s).origin \in {Unmade, scan[s].source}
      BY <1>11, <2>4 DEF SetOrigin
    <3> DEFINE go == IF scan[s].hit THEN "account" ELSE "fetch"
               rec == [scan[s] EXCEPT !.at = go]
               repo == [Mine(s) EXCEPT !.origin = scan[s].source]
    <3>1. /\ scan' = [scan EXCEPT ![s] = rec]
          /\ repository' = [repository EXCEPT ![scan[s].source] = repo]
      BY <1>11, <2>1, <2>4 DEF SetOrigin, Mine
    <3>2. /\ scan'[s] = rec /\ rec.at = go /\ rec.hit = scan[s].hit
          /\ rec.source = scan[s].source /\ rec.rev = scan[s].rev
          /\ rec.disturbed = scan[s].disturbed
      <4> HIDE DEF go
      <4> QED BY <3>1 DEF Asleep
    <3>3. Mine(s) \in BareRepository /\ Mine(s) # Unmade
      BY <2>1, <3>0 DEF Usable, Mine
    <3>4. /\ repository'[scan[s].source] = repo /\ Mine(s)' = repo
          /\ repo.whole = Mine(s).whole /\ repo.objects = Mine(s).objects
          /\ repo.origin = scan[s].source /\ repo # Unmade
      <4>1. repo = WithOrigin(Mine(s), scan[s].source)
        BY DEF WithOrigin
      <4> HIDE DEF rec, repo
      <4>2. repository'[scan[s].source] = repo /\ Mine(s)' = repo
        BY <2>1, <3>1, <3>2 DEF Mine
      <4> HIDE DEF PinTyped
      <4>3. /\ WithOrigin(Mine(s), scan[s].source) # Unmade
            /\ WithOrigin(Mine(s), scan[s].source).whole = Mine(s).whole
            /\ WithOrigin(Mine(s), scan[s].source).objects = Mine(s).objects
            /\ WithOrigin(Mine(s), scan[s].source).origin = scan[s].source
        BY <2>1, <3>3, RepositoryRecords
      <4> QED BY <4>1, <4>2, <4>3
    <3>5. scan[s].hit /\ ~scan[s].disturbed =>
             HasWhole(Mine(s), scan[s].rev)'
      <4>1. \A object \in Objects :
               HasObject(Mine(s), scan[s].rev, object) =>
                  HasObject(Mine(s), scan[s].rev, object)'
        <5> HIDE DEF rec, repo, go
        <5> QED BY <3>0, <3>2, <3>3, <3>4 DEF HasObject, Usable
      <4> QED BY <2>1, <4>1 DEF Secured, HasWhole
    <3>6. scan[s].hit /\ Undisturbed(scan[s].source) =>
             scan[s].rev \in Ever[scan[s].source]
      BY <2>1 DEF Secured
    <3>7. OwnOnly'
      <4> HIDE DEF rec, repo, go
      <4> QED BY <1>m, <2>1, <3>3, <3>4
    <3>8. go \in {"account", "fetch"} /\ (go = "account" <=> scan[s].hit)
      OBVIOUS
    <3> HIDE DEF rec, repo, go
    <3> QED BY <1>d, <2>1, <3>2, <3>4, <3>5, <3>6, <3>7, <3>8 DEF Secured
  <2> QED BY <2>2, <2>4
<1>12. CASE FetchRevision(s)
  <2>1. /\ scan[s].at = "fetch" /\ scan[s].source \in Source
        /\ UNCHANGED upstream
    BY <1>12 DEF FetchRevision
  <2>2. CASE StepFails(s)
    BY <1>e, <1>f, <2>1, <2>2
  <2>3. CASE ~StepFails(s)
    <3>1. PICK rec : FetchedInto(s, rec)
      <4> HIDE DEF PinTyped, FailLocked
      <4> QED BY <1>12, <2>3, FetchMakes
    <3>2. /\ scan'[s] = rec /\ rec.at = "account"
          /\ rec.source = scan[s].source /\ rec.rev = scan[s].rev
          /\ rec.disturbed = scan[s].disturbed
      BY <3>1 DEF FetchedInto
    <3> DEFINE repo == WithFetched(s)
    <3>3. /\ repository'[scan[s].source] = repo /\ Mine(s)' = repo
          /\ repo.objects = Mine(s).objects \cup Fetched(scan[s].rev)
          /\ repo.whole = Mine(s).whole /\ Mine(s).whole
          /\ Mine(s) # Unmade /\ repo # Unmade
      <4>1. repository'[scan[s].source] = repo /\ Mine(s)' = repo
        BY <2>1, <3>1, <3>2 DEF FetchedInto, Mine
      <4> QED BY <2>1, <3>1, <4>1, FetchedIs DEF FetchedInto
    <3> HIDE DEF repo
    <3>4. HasWhole(Mine(s), scan[s].rev)'
      BY <3>2, <3>3 DEF HasWhole, HasObject, Fetched
    <3>5. Undisturbed(scan[s].source) => scan[s].rev \in Ever[scan[s].source]
      BY <1>w, <2>1, <3>1, <3>3 DEF FetchedInto, repo
    <3>6. OwnOnly'
      BY <1>w, <2>1, <3>1, <3>3 DEF FetchedInto, repo
    <3> QED BY <1>d, <2>1, <3>2, <3>4, <3>5, <3>6 DEF Secured
  <2> QED BY <2>2, <2>3
<1>13. CASE AccountFetch(s)
  <2>1. scan[s].at = "account" /\ scan[s].source \in Source
    BY <1>13 DEF AccountFetch
  <2>2. \/ UNCHANGED repository
        \/ /\ repository'[scan[s].source] = Partial(Mine(s))
           /\ Mine(s) # Unmade
        \/ repository'[scan[s].source] = Unmade
    BY <1>13, <2>1 DEF AccountFetch, Mine
  <2>3. Mine(s) # Unmade => Partial(Mine(s)).objects = Mine(s).objects
    BY <2>1, RepositoryRecords DEF Mine
  <2>4. OwnOnly'
    BY <1>u, <1>m, <2>1, <2>2, <2>3
  <2>5. Secured(s)'
    <3>1. \/ scan' = [scan EXCEPT ![s] = Going(s, "discover")]
          \/ scan' = [scan EXCEPT ![s] = Stop(s)]
      BY <1>13 DEF AccountFetch
    <3>2. /\ scan'[s].at \in {"discover", "failed"}
          /\ scan'[s].source = scan[s].source /\ scan'[s].rev = scan[s].rev
      BY <3>1 DEF Asleep
    <3> QED BY <1>d, <2>1, <3>2 DEF Secured
  <2> QED BY <2>4, <2>5
<1>14. CASE DiscoverManifestRoots(s)
  BY <1>d, <1>u, <1>m, <1>14
     DEF DiscoverManifestRoots, Secured, GoesWell, Only, Mine, HasWhole,
         HasObject, Initialized, Partial, CacheHit, Asleep
<1>15. CASE ReadObject(s)
  BY <1>d, <1>u, <1>m, <1>15
     DEF ReadObject, Secured, GoesWell, Only, Mine, HasWhole, HasObject,
         Initialized, Partial, CacheHit, Asleep
<1>16. CASE KillScan(s)
  BY <1>16, <1>e, EndsSo
<1> QED
  BY <1>1, <1>2, <1>3, <1>4, <1>5, <1>6, <1>7, <1>8, <1>9, <1>10, <1>11, <1>12,
     <1>13, <1>14, <1>15, <1>16
     DEF ScanStep

\* The steps of a scan keep the invariant of all of them.
LEMMA ScansKeep ==
  ASSUME PinInv, NEW s \in Scan, ScanStep(s)
  PROVE  PinInv'
<1>1. /\ PinTyped /\ LockIsHeld /\ OwnOnly
      /\ \A t \in Scan : GoesWell(t) /\ Secured(t)
  BY DEF PinInv
<1>2. PinTyped' /\ LockIsHeld' /\ Only(s)
  BY <1>1, StepsAreOwn
<1>3. GoesWell(s)' /\ Secured(s)' /\ OwnOnly'
  BY <1>1, <1>2, StepsGoWell, StepsSecure
<1>4. ASSUME NEW t \in Scan \ {s} PROVE GoesWell(t)' /\ Secured(t)'
  <2>1. scan'[t] = scan[t]
    BY <1>2 DEF Only
  <2>2. GoesWell(t)'
    BY <1>1, <2>1 DEF GoesWell, OverNet, Network
  <2>3. scan[t].at \in LockHeld => Mine(t)' = Mine(t)
    <3>1. scan[t].at \in LockHeld => scan[s].at \notin LockHeld
      BY <1>1 DEF LockIsHeld
    <3>2. scan[t].at \in LockHeld => scan[t].source \in Source
      BY <1>1 DEF PinTyped, LockHeld
    <3> QED BY <1>2, <2>1, <3>1, <3>2 DEF Only, Mine
  <2>4. scan[t].at \in LockHeld =>
          HasWhole(Mine(t), scan[t].rev)' = HasWhole(Mine(t), scan[t].rev)
    BY <2>1, <2>3 DEF HasWhole, HasObject
  <2>5. Undisturbed(scan[t].source)' /\ scan[t].source \in Source
           => Undisturbed(scan[t].source)
    <3>1. PICK u : u = scan[t].source /\ u = scan'[t].source
      BY <2>1
    <3>2. u \in Source /\ Undisturbed(u)' => Undisturbed(u)
      BY <1>1, <1>2, StepsDisturbNot
    <3> QED BY <3>1, <3>2 DEF Undisturbed
  <2>6. scan[t].at \in Answered \cup {"origin"} => scan[t].source \in Source
    BY <1>1 DEF PinTyped, Answered
  <2>7. Secured(t)'
    BY <1>1, <2>1, <2>3, <2>4, <2>5, <2>6 DEF Secured, LockHeld
  <2> QED BY <2>2, <2>7
<1> QED BY <1>2, <1>3, <1>4 DEF PinInv

\* Damage takes objects away, adds none, and leaves the litter of fetches.
LEMMA DamageTakes ==
  ASSUME PinTyped, NEW u \in Source, DamageRepository(u)
  PROVE  /\ DOMAIN repository' = Source
         /\ \A v \in Source \ {u} : repository'[v] = repository[v]
         /\ repository'[u] \in BareRepository \cup {Unmade}
         /\ repository'[u] # Unmade =>
               /\ repository[u] # Unmade
               /\ repository'[u].objects \subseteq repository[u].objects
               /\ repository'[u].litter = repository[u].litter
<1> DEFINE left == repository'[u]
<1>1. repository[u] \in BareRepository
  BY DEF PinTyped, DamageRepository
<1>2. CASE repository' = [repository EXCEPT ![u] = Unmade]
  BY <1>1, <1>2 DEF PinTyped
<1>3. ASSUME NEW x \in repository[u].objects,
             repository' = [repository EXCEPT ![u].objects = @ \ {x}]
      PROVE  /\ DOMAIN repository' = Source
             /\ \A v \in Source \ {u} : repository'[v] = repository[v]
             /\ left \in BareRepository
             /\ left.objects \subseteq repository[u].objects
             /\ left.litter = repository[u].litter
  <2>1. repository' = [repository EXCEPT ![u] =
           WithObjects(repository[u], repository[u].objects \ {x})]
    BY <1>3 DEF WithObjects
  <2>2. repository[u].objects \ {x} \in SUBSET (Pin \X Objects)
    BY <1>1, RepositoryRecords
  <2>3. PICK new : new = WithObjects(repository[u],
                                     repository[u].objects \ {x})
    OBVIOUS
  <2>4. new \in BareRepository /\ new.objects = repository[u].objects \ {x}
      /\ new.litter = repository[u].litter
    BY <1>1, <2>2, <2>3, RepositoryRecords
  <2>5. repository' = [repository EXCEPT ![u] = new]
    BY <2>1, <2>3
  <2> QED BY <2>4, <2>5 DEF PinTyped
<1>4. ASSUME NEW other \in Source,
             repository' = [repository EXCEPT ![u].origin = other]
      PROVE  /\ DOMAIN repository' = Source
             /\ \A v \in Source \ {u} : repository'[v] = repository[v]
             /\ left \in BareRepository
             /\ left.objects \subseteq repository[u].objects
             /\ left.litter = repository[u].litter
  <2>1. repository' = [repository EXCEPT ![u] =
                          WithOrigin(repository[u], other)]
    BY <1>4 DEF WithOrigin
  <2>2. PICK new : new = WithOrigin(repository[u], other)
    OBVIOUS
  <2>3. new \in BareRepository /\ new.objects = repository[u].objects
      /\ new.litter = repository[u].litter
    <3>1. PICK repo \in BareRepository : repo = repository[u]
      BY <1>1
    <3>2. /\ WithOrigin(repo, other) \in BareRepository
          /\ WithOrigin(repo, other).objects = repo.objects
          /\ WithOrigin(repo, other).litter = repo.litter
      BY RepositoryRecords
    <3> QED BY <2>2, <3>1, <3>2
  <2>4. repository' = [repository EXCEPT ![u] = new]
    BY <2>1, <2>2
  <2> QED BY <2>3, <2>4 DEF PinTyped
<1>5. CASE repository' = [repository EXCEPT ![u].redirect = TRUE]
  <2>1. repository' = [repository EXCEPT ![u] =
                          WithRedirect(repository[u])]
    BY <1>5 DEF WithRedirect
  <2>2. PICK new : new = WithRedirect(repository[u])
    OBVIOUS
  <2>3. new \in BareRepository /\ new.objects = repository[u].objects
      /\ new.litter = repository[u].litter
    <3>1. PICK repo \in BareRepository : repo = repository[u]
      BY <1>1
    <3>2. /\ WithRedirect(repo) \in BareRepository
          /\ WithRedirect(repo).objects = repo.objects
          /\ WithRedirect(repo).litter = repo.litter
      BY RepositoryRecords
    <3> QED BY <2>2, <3>1, <3>2
  <2>4. repository' = [repository EXCEPT ![u] = new]
    BY <2>1, <2>2
  <2> QED BY <1>1, <2>3, <2>4, UnmadeIsNothing DEF PinTyped
<1> QED BY <1>1, <1>2, <1>3, <1>4, <1>5, UnmadeIsNothing
        DEF DamageRepository

\* Damage marks the scan that holds the lock on what is damaged: of its source
\* nothing is claimed from then on.  Damage that no scan holds the lock on
\* takes objects away and adds none.
LEMMA DamageKeeps ==
  ASSUME PinInv, NEW u \in Source, DamageRepository(u)
  PROVE  PinInv'
<1>0. /\ PinTyped /\ LockIsHeld /\ OwnOnly
      /\ \A t \in Scan : GoesWell(t) /\ Secured(t)
  BY DEF PinInv
<1> DEFINE left == repository'[u]
<1>1. /\ UNCHANGED <<cacheLock, upstream>>
      /\ scan' = [s \in Scan |->
             IF scan[s].source = u /\ cacheLock = s
             THEN [scan[s] EXCEPT !.disturbed = TRUE] ELSE scan[s]]
  BY DEF DamageRepository
<1>2. /\ DOMAIN repository' = Source
      /\ \A v \in Source \ {u} : repository'[v] = repository[v]
      /\ left \in BareRepository \cup {Unmade}
      /\ left # Unmade => /\ repository[u] # Unmade
                          /\ left.objects \subseteq repository[u].objects
  BY <1>0, DamageTakes
<1> HIDE DEF left
<1>3. ASSUME NEW t \in Scan
      PROVE  /\ DOMAIN scan'[t] = DOMAIN scan[t] /\ scan'[t].at = scan[t].at
             /\ scan'[t].wish = scan[t].wish
             /\ scan'[t].source = scan[t].source
             /\ scan'[t].rev = scan[t].rev /\ scan'[t].hit = scan[t].hit
             /\ scan'[t].contacted = scan[t].contacted
             /\ scan'[t].got = scan[t].got
             /\ ~scan'[t].disturbed => ~scan[t].disturbed
             /\ cacheLock = t /\ scan[t].source = u => scan'[t].disturbed
             /\ cacheLock # t => scan'[t] = scan[t]
  BY <1>0, <1>1 DEF PinTyped, Asleep
<1>4. PinTyped'
  BY <1>0, <1>1, <1>2, <1>3 DEF PinTyped, left
<1>5. LockIsHeld'
  BY <1>0, <1>1, <1>3 DEF LockIsHeld
<1>6. ASSUME NEW v, Undisturbed(v)' PROVE Undisturbed(v)
  BY <1>3, <1>6 DEF Undisturbed
<1>7. OwnOnly'
  BY <1>0, <1>2, <1>6 DEF OwnOnly, left
<1>8. ASSUME NEW t \in Scan PROVE GoesWell(t)'
  <2>1. scan[t].at = "asleep" => scan'[t] = scan[t]
    BY <1>0, <1>3 DEF LockIsHeld, LockHeld
  <2>2. OverNet(t)' = OverNet(t) /\ Network(t)' = Network(t)
    BY <1>3 DEF OverNet, Network
  <2> QED BY <1>0, <1>3, <2>1, <2>2 DEF GoesWell
<1>9. ASSUME NEW t \in Scan PROVE Secured(t)'
  <2>1. scan[t].at \in LockHeld /\ ~scan'[t].disturbed =>
           scan[t].source # u /\ Mine(t)' = Mine(t)
    <3>1. scan[t].at \in LockHeld /\ ~scan'[t].disturbed =>
             scan[t].source # u /\ scan[t].source \in Source
      BY <1>0, <1>3 DEF LockIsHeld, PinTyped, LockHeld
    <3> QED BY <1>2, <1>3, <3>1 DEF Mine
  <2>2. scan[t].at \in LockHeld /\ ~scan'[t].disturbed =>
          HasWhole(Mine(t), scan[t].rev)' = HasWhole(Mine(t), scan[t].rev)
    BY <1>3, <2>1 DEF HasWhole, HasObject
  <2>3. Undisturbed(scan[t].source)' => Undisturbed(scan[t].source)
    <3>1. PICK v : v = scan[t].source /\ v = scan'[t].source
      BY <1>3
    <3> QED BY <1>6, <3>1 DEF Undisturbed
  <2> QED BY <1>0, <1>3, <2>1, <2>2, <2>3 DEF Secured, LockHeld
<1> QED BY <1>4, <1>5, <1>7, <1>8, <1>9 DEF PinInv

\* A push adds revisions to a source and takes none away from what it ever
\* had.
LEMMA PushKeeps ==
  ASSUME PinInv, NEW u \in Source, Push(u)
  PROVE  PinInv'
<1>1. UNCHANGED <<repository, cacheLock, scan>>
  BY DEF Push
<1>2. PinTyped'
  BY <1>1 DEF PinInv, PinTyped, Push
<1> QED BY <1>1, <1>2 DEF PinInv, LockIsHeld, OwnOnly, GoesWell, Secured,
           OverNet, Network, HasWhole, HasObject, Mine, Undisturbed

\* No repository and no scan.
LEMMA PinsInitial == PinsInit => PinInv
<1> SUFFICES ASSUME PinsInit PROVE PinInv
  OBVIOUS
<1>1. /\ repository = [u \in Source |-> Unmade] /\ cacheLock = Unmade
      /\ scan = [s \in Scan |-> Asleep]
  BY DEF PinsInit
<1>2. ASSUME NEW u \in Source
      PROVE  upstream[u].head \in Ever[u] /\ upstream[u].has = Ever[u]
  BY SourcesHavePins DEF PinsInit
<1>3. DOMAIN upstream = Source
  BY DEF PinsInit
<1>4. PinTyped
  BY <1>1, <1>2, <1>3 DEF PinTyped, Asleep, PinPhase, Unanswered, Answered,
     LockHeld
<1>5. \A s \in Scan : scan[s] = Asleep /\ Asleep.at = "asleep"
  BY <1>1 DEF Asleep
<1>6. LockIsHeld
  BY <1>1, <1>5, UnmadeIsNothing DEF LockIsHeld, LockHeld
<1>7. OwnOnly
  BY <1>1 DEF OwnOnly
<1>8. \A s \in Scan : GoesWell(s) /\ Secured(s)
  BY <1>5 DEF GoesWell, Secured, Unanswered, Answered, LockHeld
<1> QED BY <1>4, <1>6, <1>7, <1>8 DEF PinInv

\* Every step keeps the invariant of the pinned revisions.
LEMMA PinsKeep == PinInv /\ [PinsNext]_pins => PinInv'
<1> SUFFICES ASSUME PinInv, [PinsNext]_pins PROVE PinInv'
  OBVIOUS
<1>1. ASSUME NEW s \in Scan, ScanStep(s) PROVE PinInv'
  BY <1>1, ScansKeep
<1>2. ASSUME NEW u \in Source, DamageRepository(u) \/ Push(u) PROVE PinInv'
  BY <1>2, DamageKeeps, PushKeeps
<1>3. CASE UNCHANGED pins
  BY <1>3 DEF pins, PinInv, PinTyped, LockIsHeld, OwnOnly, GoesWell,
     Secured, OverNet, Network, HasWhole, HasObject, Mine, Undisturbed
<1> QED BY <1>1, <1>2, <1>3 DEF PinsNext, ScanStep

\* A scan that reports read every object of the revision it is pinned to, held
\* no lock it left behind, contacted the network only where it says so, and
\* read a revision its source once had, unless the repository was changed
\* under a scan of that source.
THEOREM PinsComplete == PinsSpec => [](PinsTypeOK /\ PinsAreComplete)
<1>1. PinInv => PinsTypeOK
  <2> SUFFICES ASSUME PinInv PROVE PinsTypeOK
    OBVIOUS
  <2>1. PinTyped /\ LockIsHeld
    BY DEF PinInv
  <2> QED BY <2>1 DEF PinsTypeOK, PinTyped, LockIsHeld, LockHeld
<1>2. PinInv => PinsAreComplete
  <2> SUFFICES ASSUME PinInv, NEW s \in Scan
               PROVE  /\ scan[s].at = "account" /\ ~scan[s].disturbed =>
                            HasWhole(Mine(s), scan[s].rev)
                      /\ scan[s].at = "reported" =>
                            /\ scan[s].got = {scan[s].rev} \X Objects
                            /\ Network(s) = scan[s].contacted
                            /\ Undisturbed(scan[s].source) =>
                                  scan[s].rev \in Ever[scan[s].source]
    BY DEF PinsAreComplete
  <2>1. GoesWell(s) /\ Secured(s)
    BY DEF PinInv
  <2>2. scan[s].at = "reported" =>
           /\ scan[s].got = {scan[s].rev} \X Objects
           /\ scan[s].contacted = Network(s)
    BY <2>1 DEF GoesWell, Answered
  <2> QED BY <2>1, <2>2 DEF Secured, Answered
<1> QED BY PinsKeep, <1>1, <1>2, PinsInitial, PTL DEF PinsSpec

(***************************************************************************)
(* The quota of the cache.  Until it fetches, the lock's holder has the    *)
(* cache within its quota; then what is stored beside its own repository   *)
(* is, and the repository goes if the whole is not.                        *)
(***************************************************************************)
Low == {"init", "validate", "probe", "remove", "reinit", "origin", "fetch"}

AllWhole == \A u \in Source : repository[u] # Unmade => repository[u].whole
Beside(s) == {z \in Stored : z[1] # scan[s].source}

QuotaInv ==
    /\ troubles \in Nat /\ IsFiniteSet(Stored) /\ CacheSize <= Quota + 2
    /\ \A s \in Scan :
          /\ scan[s].at \in Low => ~OverQuota
          /\ scan[s].at = "account" => Cardinality(Beside(s)) <= Quota
    /\ /\ troubles = 0 /\ AllWhole
       /\ \A s \in Scan : scan[s].at \notin {"account", "cut"}
       => ~OverQuota

\* What a scan does to the cache: nothing, a little less than was there, a
\* fetch, one that is cut off, the end of one over the quota, or a kill.
AddsTo(u) == \E x, y : Stored' \subseteq Stored \cup {<<u, x>>, <<u, y>>}
Looks(s) ==
    /\ UNCHANGED troubles /\ repository' = repository
    /\ scan[s].at \notin {"account", "cut"} /\ scan'[s].at # "account"
    /\ scan'[s].at \in Low => scan[s].at \in Low \/ ~OverQuota
Tidies(s) ==
    /\ UNCHANGED troubles /\ Stored' \subseteq Stored /\ scan[s].at \in Low
FetchesTwo(s) ==
    /\ UNCHANGED troubles /\ scan[s].at = "fetch" /\ scan'[s].at = "account"
    /\ AddsTo(scan[s].source)
CutsOff(s) ==
    /\ UNCHANGED troubles /\ scan[s].at = "fetch" /\ scan'[s].at = "cut"
    /\ AddsTo(scan[s].source)
Accounts(s) ==
    /\ UNCHANGED troubles /\ scan[s].at = "account"
    /\ scan'[s].at \notin Low \cup {"account"}
    /\ \/ Stored' \subseteq Beside(s)
       \/ Stored' \subseteq Stored /\ (~OverQuota \/ ~AllWhole')
IsKilled(s) ==
    /\ troubles' = troubles + 1 /\ scan'[s].at = "failed"
    /\ \/ Stored' \subseteq Stored
       \/ scan[s].at = "fetch" /\ AddsTo(scan[s].source)

\* What a source's repository adds to the cache.
LEMMA StoredOf ==
  \A z : z \in Stored <=>
            \E u \in Source : \E i \in Items(repository[u]) : z = <<u, i>>
BY DEF Stored

LEMMA ItemsOf ==
  \A repo \in BareRepository :
     Items(repo) = ({"object"} \X repo.objects)
                      \cup ({"litter"} \X (1..repo.litter))
BY RepositoryRecords DEF Items

LEMMA ItemsKept ==
  /\ \A repo \in BareRepository : Items(Partial(repo)) = Items(repo)
  /\ \A repo \in BareRepository : \A u \in Source :
        Items(WithOrigin(repo, u)) = Items(repo)
  /\ \A rev \in Pin : /\ Items(Initialized(rev)) = {}
                      /\ Items(Partial(Initialized(rev))) = {}
<1>1. ASSUME NEW repo \in BareRepository, NEW new \in BareRepository,
             new.objects = repo.objects, new.litter = repo.litter
      PROVE  Items(new) = Items(repo)
  <2>1. Items(new) = ({"object"} \X new.objects)
                        \cup ({"litter"} \X (1..new.litter))
    BY ItemsOf
  <2>2. Items(repo) = ({"object"} \X repo.objects)
                         \cup ({"litter"} \X (1..repo.litter))
    BY ItemsOf
  <2> QED BY <1>1, <2>1, <2>2
<1>2. ASSUME NEW rev \in Pin PROVE Items(Initialized(rev)) = {}
  BY RepositoryRecords, ItemsOf
<1> QED BY <1>1, <1>2, RepositoryRecords

\* What is in a set of a finite number is finite, and fewer.
LEMMA Fewer ==
  ASSUME NEW S, NEW T, IsFiniteSet(S), T \subseteq S
  PROVE  /\ IsFiniteSet(T) /\ Cardinality(T) \in Nat
         /\ Cardinality(S) \in Nat /\ Cardinality(T) <= Cardinality(S)
BY FS_Subset, FS_CardinalityType

LEMMA OneMore ==
  ASSUME NEW S, NEW x, IsFiniteSet(S)
  PROVE  /\ IsFiniteSet(S \cup {x}) /\ Cardinality(S) \in Nat
         /\ Cardinality(S \cup {x}) \in Nat
         /\ Cardinality(S \cup {x}) <= Cardinality(S) + 1
<1>1. Cardinality(S) \in Nat
  BY FS_CardinalityType
<1>2. /\ IsFiniteSet(S \cup {x})
      /\ \/ Cardinality(S \cup {x}) = Cardinality(S)
         \/ Cardinality(S \cup {x}) = Cardinality(S) + 1
  BY FS_AddElement
<1> QED BY <1>1, <1>2

LEMMA TwoMore ==
  ASSUME NEW S, NEW T, NEW x, NEW y, IsFiniteSet(S), T \subseteq S \cup {x, y}
  PROVE  IsFiniteSet(T) /\ Cardinality(T) <= Cardinality(S) + 2
<1>1. PICK one : one = S \cup {x}
  OBVIOUS
<1>2. PICK two : two = one \cup {y}
  OBVIOUS
<1>3. /\ IsFiniteSet(one) /\ Cardinality(one) \in Nat
      /\ Cardinality(S) \in Nat /\ Cardinality(one) <= Cardinality(S) + 1
  BY <1>1, OneMore
<1>4. /\ IsFiniteSet(two) /\ Cardinality(two) \in Nat
      /\ Cardinality(two) <= Cardinality(one) + 1
  BY <1>2, <1>3, OneMore
<1>5. T \subseteq two
  BY <1>1, <1>2
<1>6. IsFiniteSet(T) /\ Cardinality(T) \in Nat
      /\ Cardinality(T) <= Cardinality(two)
  BY <1>4, <1>5, Fewer
<1> QED BY <1>3, <1>4, <1>6

\* When one repository changes, so does what is stored of it.
LEMMA StoredMoves ==
  ASSUME NEW u \in Source,
         \A v \in Source \ {u} : repository'[v] = repository[v]
  PROVE  /\ Items(repository'[u]) \subseteq Items(repository[u])
               => Stored' \subseteq Stored
         /\ Items(repository'[u]) = {} =>
               Stored' \subseteq {z \in Stored : z[1] # u}
         /\ \A x, y :
               Items(repository'[u]) \subseteq Items(repository[u]) \cup {x, y}
               => Stored' \subseteq Stored \cup {<<u, x>>, <<u, y>>}
<1> USE StoredOf
<1>1. \A z : z \in Stored' <=>
         \E v \in Source : \E i \in Items(repository'[v]) : z = <<v, i>>
  BY DEF Stored, Items
<1> QED BY <1>1

\* What a fetch adds, the whole of it or what it left when it was cut off.
LEMMA FetchAdds ==
  ASSUME PinTyped, NEW s \in Scan, scan[s].source \in Source,
         scan[s].rev \in Pin, CanFetch(s),
         \A v \in Source \ {scan[s].source} : repository'[v] = repository[v],
         repository'[scan[s].source] = WithFetched(s)
  PROVE  AddsTo(scan[s].source)
<1>1. PICK rev : rev = scan[s].rev
  OBVIOUS
<1>2. /\ Mine(s) \in BareRepository /\ WithFetched(s) \in BareRepository
      /\ WithFetched(s).objects = Mine(s).objects \cup Fetched(rev)
      /\ WithFetched(s).litter = Mine(s).litter
  BY <1>1, FetchedIs
<1>3. Fetched(rev) = {<<rev, "commit">>, <<rev, "rest">>}
  BY DEF Fetched, Objects
<1>4. /\ Items(WithFetched(s)) = ({"object"} \X WithFetched(s).objects)
                        \cup ({"litter"} \X (1..WithFetched(s).litter))
      /\ Items(Mine(s)) = ({"object"} \X Mine(s).objects)
                        \cup ({"litter"} \X (1..Mine(s).litter))
  BY <1>2, ItemsOf
<1>5. Items(WithFetched(s)) \subseteq Items(Mine(s))
         \cup {<<"object", <<rev, "commit">>>>, <<"object", <<rev, "rest">>>>}
  BY <1>2, <1>3, <1>4
<1> DEFINE x == <<"object", <<rev, "commit">>>>
           y == <<"object", <<rev, "rest">>>>
<1>6. Items(repository'[scan[s].source])
         \subseteq Items(repository[scan[s].source]) \cup {x, y}
  BY <1>5 DEF Mine
<1> HIDE DEF x, y
<1> QED BY <1>6, StoredMoves DEF AddsTo

LEMMA HalfDoneAdds ==
  ASSUME PinTyped, NEW s \in Scan, scan[s].source \in Source,
         LeaveHalfDone(s)
  PROVE  \/ Stored' \subseteq Stored
         \/ scan[s].at = "fetch" /\ AddsTo(scan[s].source)
<1>1. /\ Mine(s) \in BareRepository \cup {Unmade}
      /\ scan[s].at \in LockHeld => scan[s].rev \in Pin
  BY DEF PinTyped, Mine, LockHeld, Unanswered, Answered
<1>2. HalfDone(s)
  BY HalfDoneIs
<1>3. \A v \in Source \ {scan[s].source} : repository'[v] = repository[v]
  BY <1>2 DEF HalfDone
<1>4. CASE repository' = repository
  BY <1>4 DEF Stored
<1>5. CASE /\ scan[s].at \in {"init", "reinit"}
           /\ repository'[scan[s].source] = Partial(Initialized(scan[s].rev))
  <2>1. Items(repository'[scan[s].source]) = {}
    BY <1>1, <1>5, ItemsKept DEF LockHeld
  <2> QED BY <1>3, <2>1, StoredMoves
<1>6. CASE /\ scan[s].at = "remove" /\ Mine(s) # Unmade
           /\ repository'[scan[s].source] = Partial(Mine(s))
  <2>1. Items(repository'[scan[s].source]) = Items(Mine(s))
    BY <1>1, <1>6, ItemsKept
  <2> QED BY <1>3, <2>1, StoredMoves DEF Mine
<1>7. CASE /\ scan[s].at = "fetch" /\ Mine(s) # Unmade
           /\ repository'[scan[s].source] = Littered(Mine(s))
  <2> DEFINE left == Littered(Mine(s))
  <2>1. Mine(s) \in BareRepository /\ Mine(s).litter \in Nat
        /\ left \in BareRepository /\ left.objects = Mine(s).objects
        /\ left.litter = Mine(s).litter + 2
    BY <1>1, <1>7, RepositoryRecords
  <2> HIDE DEF left
  <2>2. PICK n \in Nat : n = Mine(s).litter
    BY <2>1
  <2>3. 1..(n + 2) = (1..n) \cup {n + 1, n + 2}
    BY <2>2
  <2>4. Items(left) \subseteq Items(Mine(s))
           \cup {<<"litter", n + 1>>, <<"litter", n + 2>>}
    BY <2>1, <2>2, <2>3, ItemsOf
  <2> DEFINE x == <<"litter", n + 1>>
             y == <<"litter", n + 2>>
  <2>5. Items(repository'[scan[s].source])
           \subseteq Items(repository[scan[s].source]) \cup {x, y}
    BY <1>7, <2>4 DEF Mine, left
  <2> HIDE DEF x, y
  <2> QED BY <1>3, <1>7, <2>5, StoredMoves DEF AddsTo
<1>8. CASE /\ scan[s].at = "fetch" /\ CanFetch(s)
           /\ repository'[scan[s].source] = WithFetched(s)
  BY <1>1, <1>3, <1>8, FetchAdds DEF LockHeld
<1> QED BY <1>2, <1>4, <1>5, <1>6, <1>7, <1>8 DEF HalfDone

\* The steps of a scan, as far as the cache is concerned.
LEMMA StepsInQuota ==
  ASSUME PinTyped, LockIsHeld, NEW s \in Scan, GoesWell(s), ScanStep(s),
         Only(s), troubles \in Nat
  PROVE  \/ Looks(s) \/ Tidies(s) \/ FetchesTwo(s) \/ CutsOff(s)
         \/ Accounts(s) \/ IsKilled(s)
<1> USE DEF PinTyped, Step, Going, Stop, Rest, Keep, FailLocked, LockHeld,
        Unanswered, Answered, PinPhase
<1>0. DOMAIN scan[s] = DOMAIN Asleep
  OBVIOUS
<1>m. /\ scan[s].at \in Low \cup {"account"} => scan[s].source \in Source
      /\ \A v \in Source \ {scan[s].source} : repository'[v] = repository[v]
      /\ scan[s].source \in Source =>
            Mine(s) \in BareRepository \cup {Unmade}
      /\ scan[s].at \in Low => scan[s].rev \in Pin
  BY DEF Only, Low, Mine
<1>s. scan[s].source \in Source
      /\ Items(repository'[scan[s].source]) \subseteq Items(Mine(s))
         => Stored' \subseteq Stored
  BY <1>m, StoredMoves DEF Mine
<1>f. ASSUME StepFails(s), UNCHANGED troubles,
             scan[s].at \in LockHeld \ {"open", "account"}
      PROVE  Tidies(s) \/ CutsOff(s)
  <2>1. /\ Ends(s) /\ scan[s].source \in Source /\ scan[s].at \in Low
        /\ \/ UNCHANGED repository \/ scan[s].at # "fetch"
           \/ scan'[s].at = "cut"
    BY <1>f, EndsSo DEF Low
  <2>2. \/ Stored' \subseteq Stored
        \/ scan[s].at = "fetch" /\ AddsTo(scan[s].source)
    BY <2>1, HalfDoneAdds DEF Ends
  <2>3. UNCHANGED repository => Stored' \subseteq Stored
    BY DEF Stored
  <2> QED BY <1>f, <2>1, <2>2, <2>3 DEF Tidies, CutsOff
<1>1. CASE Ask(s)
  <2>1. /\ UNCHANGED <<repository, troubles>> /\ scan[s].at = "asleep"
        /\ \E rec : ScanAsked(s, rec)
    BY <1>1, AskMakes DEF Ask
  <2> QED BY <2>1 DEF Looks, ScanAsked, Low
<1>2. CASE ResolveRemoteHead(s)
  <2>1. /\ UNCHANGED <<repository, troubles>> /\ scan[s].at = "resolve"
        /\ \E rec : ScanResolved(s, rec)
    BY <1>2, ResolveMakes DEF ResolveRemoteHead
  <2> QED BY <2>1 DEF Looks, ScanResolved, Low
<1>3. CASE MeasureCache(s)
  BY <1>0, <1>3 DEF MeasureCache, Looks, Low, Asleep
<1>4. CASE TakeCacheLock(s)
  BY <1>0, <1>4 DEF TakeCacheLock, Looks, Low, Asleep
<1>5. CASE LockTimesOut(s)
  BY <1>0, <1>5 DEF LockTimesOut, Looks, Low, Asleep
<1>6. CASE OpenRepository(s)
  BY <1>0, <1>6 DEF OpenRepository, Looks, Low, Asleep
<1>7. CASE InitRepository(s)
  <2>1. scan[s].at \in Low /\ UNCHANGED troubles
    BY <1>7 DEF InitRepository, Low
  <2>2. CASE StepFails(s)
    BY <1>7, <1>f, <2>1, <2>2 DEF InitRepository
  <2>3. CASE ~StepFails(s)
    <3>1. \/ repository'[scan[s].source] = Mine(s)
          \/ repository'[scan[s].source] = Initialized(scan[s].rev)
      BY <1>7, <1>m, <2>1, <2>3 DEF InitRepository, Mine
    <3>2. Items(Initialized(scan[s].rev)) = {}
      BY <1>m, <2>1, ItemsKept
    <3> QED BY <1>m, <1>s, <2>1, <3>1, <3>2 DEF Tidies
  <2> QED BY <2>2, <2>3
<1>8. CASE ValidateRepository(s)
  <2>1. CASE StepFails(s)
    BY <1>8, <1>f, <2>1 DEF ValidateRepository
  <2>2. CASE ~StepFails(s)
    BY <1>0, <1>8, <2>2 DEF ValidateRepository, Looks, Low, Asleep
  <2> QED BY <2>1, <2>2
<1>9. CASE ProbeRevision(s)
  <2>1. scan'[s].at \in {"remove", "origin"}
    <3>1. PICK hit, to : /\ to \in {"remove", "origin"}
                         /\ scan' = [scan EXCEPT ![s] =
                               [scan[s] EXCEPT !.hit = hit, !.at = to]]
      BY <1>9 DEF ProbeRevision
    <3> QED BY <1>0, <3>1 DEF Asleep
  <2> QED BY <1>9, <2>1 DEF ProbeRevision, Looks, Low
<1>10. CASE RemoveRepository(s)
  <2>1. scan[s].at \in Low /\ UNCHANGED troubles
    BY <1>10 DEF RemoveRepository, Low
  <2>2. CASE StepFails(s)
    BY <1>10, <1>f, <2>1, <2>2 DEF RemoveRepository
  <2>3. CASE ~StepFails(s)
    <3>1. repository'[scan[s].source] = Unmade
      BY <1>10, <1>m, <2>1, <2>3 DEF RemoveRepository
    <3> QED BY <1>m, <1>s, <2>1, <3>1 DEF Tidies, Items
  <2> QED BY <2>2, <2>3
<1>11. CASE SetOrigin(s)
  <2>1. scan[s].at \in Low /\ UNCHANGED troubles
    BY <1>11 DEF SetOrigin, Low
  <2>2. CASE StepFails(s)
    BY <1>11, <1>f, <2>1, <2>2 DEF SetOrigin
  <2>3. CASE ~StepFails(s)
    <3>1. /\ Mine(s) # Unmade
          /\ repository'[scan[s].source] =
                 WithOrigin(Mine(s), scan[s].source)
      BY <1>11, <1>m, <2>1, <2>3 DEF SetOrigin, Mine, Usable, WithOrigin
    <3>2. Items(WithOrigin(Mine(s), scan[s].source)) = Items(Mine(s))
      BY <1>m, <2>1, <3>1, ItemsKept
    <3> QED BY <1>m, <1>s, <2>1, <3>1, <3>2 DEF Tidies
  <2> QED BY <2>2, <2>3
<1>12. CASE FetchRevision(s)
  <2>1. scan[s].at = "fetch" /\ scan[s].source \in Source /\ UNCHANGED troubles
    BY <1>12 DEF FetchRevision
  <2>2. CASE StepFails(s)
    BY <1>f, <2>1, <2>2 DEF LockHeld
  <2>3. CASE ~StepFails(s)
    <3>1. PICK rec : FetchedInto(s, rec)
      BY <1>12, <2>3, FetchMakes, Zenon
    <3>2. repository'[scan[s].source] = WithFetched(s)
          /\ scan'[s].at = "account" /\ CanFetch(s)
      BY <2>1, <3>1 DEF FetchedInto
    <3>3. AddsTo(scan[s].source)
      BY <1>m, <2>1, <3>2, FetchAdds DEF Low
    <3> QED BY <2>1, <3>2, <3>3 DEF FetchesTwo
  <2> QED BY <2>2, <2>3
<1>13. CASE AccountFetch(s)
  <2>1. scan[s].at = "account" /\ scan[s].source \in Source
        /\ UNCHANGED troubles
    BY <1>13 DEF AccountFetch
  <2>2. scan'[s].at \notin Low \cup {"account"}
    BY <1>0, <1>13 DEF AccountFetch, Low, Asleep
  <2>3. CASE ~OverQuota
    BY <1>13, <2>1, <2>2, <2>3 DEF AccountFetch, Accounts, Stored
  <2>4. CASE repository'[scan[s].source] = Unmade
    <3>1. Stored' \subseteq {z \in Stored : z[1] # scan[s].source}
      BY <1>m, <2>1, <2>4, StoredMoves DEF Items
    <3> QED BY <2>1, <2>2, <3>1 DEF Accounts, Beside
  <2>5. CASE /\ Mine(s) # Unmade
             /\ repository'[scan[s].source] = Partial(Mine(s))
    <3>1. Mine(s) \in BareRepository
      BY <1>m, <2>1, <2>5
    <3>2. /\ Items(Partial(Mine(s))) = Items(Mine(s))
          /\ Partial(Mine(s)) # Unmade /\ ~Partial(Mine(s)).whole
      BY <3>1, RepositoryRecords, ItemsKept
    <3>3. Stored' \subseteq Stored
      BY <1>s, <2>1, <2>5, <3>2
    <3>4. ~AllWhole'
      BY <2>1, <2>5, <3>2 DEF AllWhole
    <3> QED BY <2>1, <2>2, <3>3, <3>4 DEF Accounts
  <2>6. \/ ~OverQuota \/ repository'[scan[s].source] = Unmade
        \/ /\ Mine(s) # Unmade
           /\ repository'[scan[s].source] = Partial(Mine(s))
    BY <1>13, <2>1 DEF AccountFetch, Mine
  <2> QED BY <2>3, <2>4, <2>5, <2>6
<1>14. CASE DiscoverManifestRoots(s)
  BY <1>0, <1>14 DEF DiscoverManifestRoots, Looks, Low, Asleep
<1>15. CASE ReadObject(s)
  <2>1. scan[s].at = "read" /\ scan'[s].at \in {"read", "reported", "failed"}
        /\ UNCHANGED <<repository, troubles>>
    BY <1>0, <1>15 DEF ReadObject, Asleep
  <2> QED BY <2>1 DEF Looks, Low
<1>16. CASE KillScan(s)
  <2>1. /\ troubles' = troubles + 1 /\ scan'[s].at = "failed"
        /\ scan[s].source \in Source /\ Ends(s)
    BY <1>16, EndsSo DEF KillScan, Trouble
  <2> QED BY <2>1, HalfDoneAdds DEF IsKilled, Ends
<1> QED
  BY <1>1, <1>2, <1>3, <1>4, <1>5, <1>6, <1>7, <1>8, <1>9, <1>10, <1>11, <1>12,
     <1>13, <1>14, <1>15, <1>16
     DEF ScanStep

\* With less stored, what held of the size holds.
LEMMA LessIsStored ==
  ASSUME QuotaInv, Stored' \subseteq Stored
  PROVE  /\ IsFiniteSet(Stored)' /\ (CacheSize <= Quota + 2)'
         /\ ~OverQuota => ~OverQuota'
         /\ \A t \in Scan :
               /\ scan'[t].source = scan[t].source
               /\ Cardinality(Beside(t)) <= Quota
               => (Cardinality(Beside(t)) <= Quota)'
<1> USE QuotaIsSize
<1>1. /\ IsFiniteSet(Stored) /\ CacheSize \in Nat /\ CacheSize <= Quota + 2
      /\ IsFiniteSet(Stored') /\ Cardinality(Stored') \in Nat
      /\ Cardinality(Stored') <= Cardinality(Stored)
  BY Fewer DEF QuotaInv, CacheSize
<1>2. ASSUME NEW t \in Scan, scan'[t].source = scan[t].source,
             Cardinality(Beside(t)) <= Quota
      PROVE  Cardinality(Beside(t)') <= Quota
  <2>1. Beside(t) \subseteq Stored /\ Beside(t)' \subseteq Beside(t)
    BY <1>2 DEF Beside
  <2>2. IsFiniteSet(Beside(t)) /\ Cardinality(Beside(t)) \in Nat
    BY <1>1, <2>1, Fewer
  <2>3. Cardinality(Beside(t)') \in Nat
        /\ Cardinality(Beside(t)') <= Cardinality(Beside(t))
    BY <2>1, <2>2, Fewer
  <2> QED BY <1>2, <2>2, <2>3
<1> QED BY <1>1, <1>2 DEF OverQuota, CacheSize

\* A scan keeps the cache within its quota, or one fetch over it.
LEMMA ScansKeepQuota ==
  ASSUME PinInv, QuotaInv, NEW s \in Scan, ScanStep(s)
  PROVE  QuotaInv'
<1> USE QuotaIsSize
<1>1. /\ PinTyped /\ LockIsHeld /\ GoesWell(s) /\ Only(s) /\ LockIsHeld'
      /\ troubles \in Nat
      /\ scan[s].at \in LockHeld \/ Stored' = Stored
  <2>1. PinTyped /\ LockIsHeld /\ GoesWell(s) /\ troubles \in Nat
    BY DEF PinInv, QuotaInv
  <2>2. Only(s) /\ LockIsHeld'
    BY <2>1, StepsAreOwn
  <2> QED BY <2>1, <2>2 DEF Only, Stored
<1>2. \/ Looks(s) \/ Tidies(s) \/ FetchesTwo(s) \/ CutsOff(s)
      \/ Accounts(s) \/ IsKilled(s)
  BY <1>1, StepsInQuota
<1>3. /\ Low \subseteq LockHeld /\ "account" \in LockHeld
      /\ "fetch" \in Low /\ "account" \notin Low
      /\ {"failed", "cut"} \cap (Low \cup {"account"}) = {}
  BY DEF Low, LockHeld
<1>4. /\ \A t \in Scan \ {s} : scan'[t] = scan[t]
      /\ scan[s].at \in LockHeld =>
            /\ \A t \in Scan \ {s} : scan[t].at \notin LockHeld
            /\ scan'[s].source = scan[s].source
  BY <1>1 DEF Only, LockIsHeld, LockHeld
<1>5. /\ IsFiniteSet(Stored) /\ CacheSize <= Quota + 2 /\ CacheSize \in Nat
      /\ \A t \in Scan :
            /\ scan[t].at \in Low => ~OverQuota
            /\ scan[t].at = "account" => Cardinality(Beside(t)) <= Quota
      /\ /\ troubles = 0 /\ AllWhole
         /\ \A t \in Scan : scan[t].at \notin {"account", "cut"}
         => ~OverQuota
  BY Fewer DEF QuotaInv, CacheSize
<1> DEFINE Small == ~OverQuota
           Room(t) == Cardinality(Beside(t)) <= Quota
<1>6. ASSUME Stored' \subseteq Stored, troubles' \in Nat,
             troubles' # 0 \/ Small', scan'[s].at # "account",
             scan'[s].at \in Low => Small'
      PROVE  QuotaInv'
  <2>1. /\ IsFiniteSet(Stored)' /\ (CacheSize <= Quota + 2)'
        /\ Small => Small'
        /\ \A t \in Scan : scan'[t].source = scan[t].source /\ Room(t)
                             => Room(t)'
    BY <1>6, LessIsStored
  <2> HIDE DEF Room, Small
  <2>2. ASSUME NEW t \in Scan
        PROVE  /\ scan'[t].at \in Low => Small'
               /\ scan'[t].at = "account" => Room(t)'
    BY <1>4, <1>5, <1>6, <2>1 DEF Room, Small
  <2> QED BY <1>6, <2>1, <2>2 DEF QuotaInv, Small, Room
<1>7. CASE Looks(s)
  <2>1. Stored' = Stored /\ AllWhole' = AllWhole
    BY <1>7 DEF Looks, Stored, AllWhole
  <2>2. Small' = Small /\ CacheSize' = CacheSize
    BY <2>1 DEF OverQuota, CacheSize
  <2>3. ASSUME NEW t \in Scan
        PROVE  /\ scan'[t].at \in Low => Small
               /\ scan'[t].at = "account" =>
                     scan[t].at = "account" /\ Beside(t)' = Beside(t)
               /\ scan'[t].at \notin {"account", "cut"} =>
                     scan[t].at \notin {"account", "cut"}
    BY <1>4, <1>5, <1>7, <2>1 DEF Looks, Beside
  <2> QED BY <1>1, <1>5, <1>7, <2>1, <2>2, <2>3 DEF QuotaInv, Looks
<1>8. CASE Tidies(s)
  <2>1. Small' /\ (scan'[s].at = "account" => Room(s)')
    <3>1. Small /\ Small'
      BY <1>5, <1>8, LessIsStored DEF Tidies
    <3>2. Beside(s)' \subseteq Stored' /\ IsFiniteSet(Stored')
      BY <1>8, LessIsStored DEF Beside, Tidies
    <3>3. /\ Cardinality(Beside(s)') \in Nat /\ Cardinality(Stored') \in Nat
          /\ Cardinality(Beside(s)') <= Cardinality(Stored')
      BY <3>2, Fewer
    <3> QED BY <3>1, <3>3 DEF OverQuota, CacheSize
  <2>2. /\ IsFiniteSet(Stored)' /\ (CacheSize <= Quota + 2)'
    BY <1>8, LessIsStored DEF Tidies
  <2>3. ASSUME NEW t \in Scan \ {s}
        PROVE  scan'[t].at \notin Low \cup {"account"}
    BY <1>3, <1>4, <1>8 DEF Tidies
  <2> HIDE DEF Small, Room
  <2> QED BY <1>1, <1>8, <2>1, <2>2, <2>3 DEF QuotaInv, Tidies, Small, Room
<1>9. ASSUME AddsTo(scan[s].source), scan[s].at = "fetch"
      PROVE  /\ IsFiniteSet(Stored)' /\ (CacheSize <= Quota + 2)'
             /\ Room(s)'
             /\ \A t \in Scan \ {s} : scan'[t].at \notin Low \cup {"account"}
  <2>1. PICK x, y : Stored' \subseteq Stored \cup {<<scan[s].source, x>>,
                                                 <<scan[s].source, y>>}
    BY <1>9 DEF AddsTo
  <2>2. Small /\ scan[s].at \in LockHeld
    BY <1>3, <1>5, <1>9
  <2>3. IsFiniteSet(Stored') /\ Cardinality(Stored') <= Cardinality(Stored) + 2
    BY <1>5, <2>1, TwoMore
  <2>4. Cardinality(Stored') \in Nat /\ Cardinality(Stored) \in Nat
    BY <1>5, <2>3, FS_CardinalityType
  <2>5. Cardinality(Stored) <= Quota
    BY <2>2, <2>4 DEF OverQuota, CacheSize
  <2>6. Beside(s)' \subseteq Stored
    BY <1>4, <2>1, <2>2 DEF Beside
  <2>7. Cardinality(Beside(s)') \in Nat
        /\ Cardinality(Beside(s)') <= Cardinality(Stored)
    BY <1>5, <2>6, Fewer
  <2>8. Room(s)' /\ (CacheSize <= Quota + 2)'
    BY <2>3, <2>4, <2>5, <2>7 DEF CacheSize
  <2> HIDE DEF Room
  <2> QED BY <1>3, <1>4, <2>2, <2>3, <2>8
<1>10. CASE FetchesTwo(s)
  <2> HIDE DEF Room
  <2> QED BY <1>1, <1>3, <1>9, <1>10 DEF FetchesTwo, QuotaInv, Room
<1>13. CASE CutsOff(s)
  <2>1. scan'[s].at = "cut" /\ UNCHANGED troubles
    BY <1>13 DEF CutsOff
  <2> HIDE DEF Room
  <2> QED BY <1>1, <1>3, <1>9, <1>13, <2>1 DEF CutsOff, QuotaInv, Room
<1>11. CASE Accounts(s)
  <2>1. Stored' \subseteq Stored
    BY <1>11 DEF Accounts, Beside
  <2>2. Small' \/ ~AllWhole'
    <3>1. CASE Stored' \subseteq Beside(s)
      <4>1. IsFiniteSet(Beside(s)) /\ Cardinality(Beside(s)) \in Nat
        BY <1>5, Fewer DEF Beside
      <4>2. Cardinality(Stored') \in Nat
            /\ Cardinality(Stored') <= Cardinality(Beside(s))
        BY <3>1, <4>1, Fewer
      <4> QED BY <1>5, <1>11, <4>1, <4>2 DEF Accounts, OverQuota, CacheSize
    <3>2. CASE Stored' \subseteq Stored /\ ~OverQuota
      BY <3>2, LessIsStored
    <3> QED BY <1>11, <3>1, <3>2 DEF Accounts
  <2>3. /\ IsFiniteSet(Stored)' /\ (CacheSize <= Quota + 2)'
    BY <2>1, LessIsStored
  <2>4. ASSUME NEW t \in Scan PROVE scan'[t].at \notin Low \cup {"account"}
    BY <1>3, <1>4, <1>11 DEF Accounts
  <2> HIDE DEF Small
  <2> QED BY <1>1, <1>11, <2>2, <2>3, <2>4 DEF QuotaInv, Accounts, Small
<1>12. CASE IsKilled(s)
  <2>1. troubles' \in Nat /\ troubles' # 0 /\ scan'[s].at \notin Low
        /\ scan'[s].at # "account"
    BY <1>1, <1>3, <1>12 DEF IsKilled
  <2>2. CASE Stored' \subseteq Stored
    BY <1>6, <2>1, <2>2
  <2>3. CASE scan[s].at = "fetch" /\ AddsTo(scan[s].source)
    BY <1>9, <2>1, <2>3 DEF QuotaInv
  <2> QED BY <1>12, <2>2, <2>3 DEF IsKilled
<1> QED BY <1>2, <1>7, <1>8, <1>10, <1>11, <1>12, <1>13

\* Damage takes, and a push leaves, what is stored.
LEMMA WorldKeepsQuota ==
  ASSUME PinInv, QuotaInv, NEW u \in Source, DamageRepository(u) \/ Push(u)
  PROVE  QuotaInv'
<1>1. PinTyped /\ troubles \in Nat /\ troubles' = troubles + 1
  BY DEF PinInv, QuotaInv, DamageRepository, Push, Trouble
<1>2. Stored' \subseteq Stored
  <2>1. CASE DamageRepository(u)
    <3>1. /\ \A v \in Source \ {u} : repository'[v] = repository[v]
          /\ repository[u] \in BareRepository \cup {Unmade}
          /\ repository'[u] \in BareRepository \cup {Unmade}
          /\ repository'[u] # Unmade =>
               /\ repository[u] # Unmade
               /\ repository'[u].objects \subseteq repository[u].objects
               /\ repository'[u].litter = repository[u].litter
      BY <1>1, <2>1, DamageTakes DEF PinTyped
    <3>2. Items(repository'[u]) \subseteq Items(repository[u])
      BY <3>1, ItemsOf DEF Items
    <3> QED BY <3>1, <3>2, StoredMoves
  <2>2. CASE Push(u)
    BY <2>2 DEF Push, Stored
  <2> QED BY <2>1, <2>2
<1>3. /\ IsFiniteSet(Stored)' /\ (CacheSize <= Quota + 2)'
      /\ ~OverQuota => ~OverQuota'
      /\ \A t \in Scan :
            scan'[t].source = scan[t].source /\ Cardinality(Beside(t)) <= Quota
            => (Cardinality(Beside(t)) <= Quota)'
  BY <1>2, LessIsStored
<1>4. \A t \in Scan :
         scan'[t].at = scan[t].at /\ scan'[t].source = scan[t].source
  BY <1>1 DEF PinTyped, Asleep, DamageRepository, Push
<1> QED BY <1>1, <1>3, <1>4 DEF QuotaInv

\* The cache exceeds its quota by what one fetch brings at most, whatever is
\* killed, damaged or not removed, and no scan fetches into a full cache;
\* while nothing was killed or damaged, no fetch was cut off at its deadline
\* and every repository is whole, only the lock's holder may exceed it, before
\* it has accounted for what it fetched.
THEOREM CacheKeeps == PinsSpec => []CacheKeepsPins
<1>1. PinsInit => QuotaInv
  <2> SUFFICES ASSUME PinsInit PROVE QuotaInv
    OBVIOUS
  <2>1. Stored = {}
    BY DEF PinsInit, Stored, Items
  <2>2. IsFiniteSet(Stored) /\ CacheSize = 0
    BY <2>1, FS_EmptySet DEF CacheSize
  <2>3. \A s \in Scan : scan[s].at = "asleep"
    BY DEF PinsInit, Asleep
  <2> QED BY <2>2, <2>3, QuotaIsSize DEF QuotaInv, OverQuota, PinsInit, Low
<1>2. PinInv /\ QuotaInv /\ [PinsNext]_pins => QuotaInv'
  <2> SUFFICES ASSUME PinInv, QuotaInv, [PinsNext]_pins PROVE QuotaInv'
    OBVIOUS
  <2>1. CASE UNCHANGED pins
    BY <2>1 DEF pins, QuotaInv, Stored, Beside, AllWhole, OverQuota, CacheSize
  <2> QED BY <2>1, ScansKeepQuota, WorldKeepsQuota DEF PinsNext, ScanStep
<1>3. PinInv /\ QuotaInv => QuotaHolds
  <2> SUFFICES ASSUME PinInv, QuotaInv PROVE QuotaHolds
    OBVIOUS
  <2>1. Cardinality(Objects) = 2 /\ "fetch" \in Low
    BY TwoObjects DEF Low
  <2>2. cacheLock = Unmade => \A s \in Scan : scan[s].at # "account"
    BY UnmadeIsNothing DEF PinInv, LockIsHeld, LockHeld
  <2> QED BY <2>1, <2>2 DEF QuotaInv, QuotaHolds, AllWhole
<1> QED BY <1>1, <1>2, <1>3, PinsInitial, PinsKeep, PinsComplete, PTL
        DEF PinsSpec, CacheKeepsPins

(***************************************************************************)
(* Inventory.  An ID of the shell is unclaimed, or with one directory, or  *)
(* reported missing; a directory is unread, being inspected, or reported.  *)
(***************************************************************************)
Reported(name, from) == \E r \in plugins : r.name = name /\ r.from = from

ClaimsAreOwn ==
    /\ NoFolder \notin ParseShellInventory /\ unread \subseteq FolderName
    /\ unclaimed \subseteq ParseShellInventory
    /\ DOMAIN claim = {"name", "from"}
    /\ claim = [k \in DOMAIN claim |-> claim[k]]
    /\ claim = NoClaim \/ claim.name \in FolderName
    /\ claim.from # NoFolder =>
          /\ claim.name \notin BackupName
          /\ claim.from \in ParseShellInventory \ unclaimed
          /\ \A r \in plugins : r.from # claim.from
    /\ \A r \in plugins : r.from # NoFolder =>
          /\ r.name \notin BackupName
          /\ r.from \in ParseShellInventory \ unclaimed
          /\ r.from \notin complaints
    /\ \A r, s \in plugins : r.from = s.from /\ r # s => r.from = NoFolder
    /\ complaints # {} => unread = {} /\ claim = NoClaim /\ unclaimed = {}

\* Nobody the inventory was asked for is lost.
NoneIsLost ==
    /\ \A id \in ParseShellInventory :
          target \in {Everything, id} =>
             \/ id \in unclaimed \/ claim.from = id
             \/ BuiltIn(id) \/ id \in complaints
             \/ \E r \in plugins : r.from = id
    /\ \A name \in FolderName \ redeployed :
          /\ folders[name] # NoFolder
          /\ target \in {Everything, name, folders[name].id}
          => \/ name \in unread \/ claim.name = name
             \/ \E r \in plugins : r.name = name

\* The only directory that can be meant is the one that takes the ID.
OnlyOneCanBeMeant ==
    redeployed = {} =>
       /\ \A name \in unread : folders[name] # NoFolder
       /\ \A id \in ParseShellInventory, name \in FolderName \ BackupName :
             /\ Claimants(id) \ BackupName = {name}
             /\ target \in {Everything, id}
             /\ folders[name].id \in {id, NoFolder}
             => \/ name \in unread /\ id \in unclaimed
                \/ claim = [name |-> name, from |-> id]
                \/ Reported(name, id)

BarsAreOfReports ==
    /\ bars = ShellBars
              \cup {r.id : r \in {p \in plugins : p.active /\ p.bar}}
    /\ \A r \in plugins : r.active <=> Said(r.from, "active")

InventoryInv ==
    /\ ClaimsAreOwn /\ NoneIsLost /\ OnlyOneCanBeMeant /\ BarsAreOfReports

\* What is inspected is reported under its name and its shell record.
LEMMA InspectionIsOfClaim ==
  ASSUME NEW name, NEW from
  PROVE  LET r == InspectPlugin(name, from)
         IN /\ r.name = name /\ r.from = from
            /\ r.active <=> Said(from, "active")
BY DEF InspectPlugin, Base

\* The record a directory takes is one nobody took, its own or of its name.
LEMMA KeyIsUnclaimed ==
  ASSUME ClaimsAreOwn, NEW name \in FolderName
  PROVE  LET from == ShellKey(name)
         IN /\ from # NoFolder => /\ from \in unclaimed
                                  /\ name \notin BackupName
                                  /\ from = name \/ from = folders[name].id
            /\ name \notin BackupName /\ folders[name].id \in unclaimed =>
                  from = folders[name].id
            /\ /\ name \notin BackupName /\ folders[name].id \notin unclaimed
               /\ name \in unclaimed
               => from = name
BY DEF ShellKey, ManifestId, ClaimsAreOwn

\* Before the first directory.
LEMMA NothingIsListed == InventoryInit => InventoryInv
<1> SUFFICES ASSUME InventoryInit PROVE InventoryInv
  OBVIOUS
<1>1. /\ redeployed = {} /\ plugins = {} /\ complaints = {} /\ claim = NoClaim
      /\ unread = {name \in FolderName : folders[name] # NoFolder}
      /\ unclaimed = ParseShellInventory /\ bars = ShellBars
      /\ answer \in Answers
  BY DEF InventoryInit, NothingListed
<1>2. NoFolder \notin ParseShellInventory
  BY <1>1, NoFolderIsNothing DEF ParseShellInventory
<1>3. ClaimsAreOwn
  BY <1>1, <1>2 DEF ClaimsAreOwn, NoClaim
<1>4. NoneIsLost /\ BarsAreOfReports
  BY <1>1 DEF NoneIsLost, BarsAreOfReports
<1>5. OnlyOneCanBeMeant
  <2>1. ASSUME NEW id \in ParseShellInventory,
               NEW name \in FolderName \ BackupName,
               Claimants(id) \ BackupName = {name}
        PROVE  name \in unread
    <3>1. name \in Claimants(id)
      BY <2>1
    <3> QED BY <1>1, <3>1 DEF Claimants
  <2> QED BY <1>1, <2>1 DEF OnlyOneCanBeMeant
<1> QED BY <1>3, <1>4, <1>5 DEF InventoryInv

\* A directory takes the record of the shell that nobody took.
LEMMA ClaimKeeps ==
  ASSUME InventoryInv, NEW name \in FolderName, Claim(name)
  PROVE  InventoryInv'
<1> DEFINE from == ShellKey(name)
           mine == [name |-> name, from |-> from]
<1>1. /\ claim = NoClaim /\ name \in unread /\ unread' = unread \ {name}
      /\ unclaimed' = unclaimed \ {from}
      /\ claim' = IF Wanted(name, from) THEN mine ELSE NoClaim
      /\ UNCHANGED <<folders, redeployed, setup, bars, complaints, plugins>>
  BY DEF Claim
<1>2. /\ from # NoFolder => /\ from \in unclaimed /\ name \notin BackupName
                            /\ from = name \/ from = folders[name].id
      /\ name \notin BackupName /\ folders[name].id \in unclaimed =>
            from = folders[name].id
      /\ /\ name \notin BackupName /\ folders[name].id \notin unclaimed
         /\ name \in unclaimed
         => from = name
  BY KeyIsUnclaimed DEF InventoryInv
<1>3. mine.name = name /\ mine.from = from /\ DOMAIN mine = {"name", "from"}
      /\ mine = [k \in DOMAIN mine |-> mine[k]]
  OBVIOUS
<1>4. NoClaim.name = NoFolder /\ NoClaim.from = NoFolder
      /\ DOMAIN NoClaim = {"name", "from"}
      /\ NoClaim = [k \in DOMAIN NoClaim |-> NoClaim[k]]
  BY DEF NoClaim
<1>5. UNCHANGED <<answer, target>>
  BY <1>1 DEF setup
<1>6. /\ ParseShellInventory' = ParseShellInventory
      /\ ShellBars' = ShellBars
      /\ \A id : BuiltIn(id)' = BuiltIn(id) /\ Claimants(id)' = Claimants(id)
      /\ \A r, w : Said(r, w)' = Said(r, w)
  BY <1>1, <1>5 DEF ParseShellInventory, ShellBars, BuiltIn, Claimants, Said
<1>7. name \in FolderName /\ name # NoFolder
  BY NoFolderIsNothing
<1> HIDE DEF from, mine
<1>8. ClaimsAreOwn'
  <2>1. complaints' = {}
    BY <1>1 DEF InventoryInv, ClaimsAreOwn
  <2> QED
    BY <1>1, <1>2, <1>3, <1>4, <1>6, <1>7, <2>1
    DEF InventoryInv, ClaimsAreOwn
<1>9. NoneIsLost'
  <2>1. ASSUME NEW id \in ParseShellInventory, target \in {Everything, id},
               id = from
        PROVE  claim' = mine
    BY <1>1, <2>1 DEF Wanted
  <2>2. ASSUME NEW id \in ParseShellInventory, target \in {Everything, id}
        PROVE  \/ id \in unclaimed' \/ claim'.from = id
               \/ BuiltIn(id) \/ id \in complaints
               \/ \E r \in plugins : r.from = id
    <3>1. \/ id \in unclaimed \/ claim.from = id
          \/ BuiltIn(id) \/ id \in complaints
          \/ \E r \in plugins : r.from = id
      BY <2>2 DEF InventoryInv, NoneIsLost
    <3>2. claim.from # id
      BY <1>1, <1>4 DEF InventoryInv, ClaimsAreOwn
    <3> QED BY <1>1, <1>3, <2>1, <2>2, <3>1, <3>2
  <2>3. ASSUME NEW n \in FolderName \ redeployed, folders[n] # NoFolder,
               target \in {Everything, n, folders[n].id}
        PROVE  \/ n \in unread' \/ claim'.name = n
               \/ \E r \in plugins : r.name = n
    <3>1. CASE n = name
      BY <1>1, <1>3, <2>3, <3>1 DEF Wanted
    <3>2. CASE n # name
      BY <1>1, <1>4, <2>3, <3>2, NoFolderIsNothing DEF InventoryInv, NoneIsLost
    <3> QED BY <3>1, <3>2
  <2> QED BY <1>1, <1>5, <1>6, <2>2, <2>3 DEF NoneIsLost
<1>10. OnlyOneCanBeMeant'
  <2> SUFFICES ASSUME redeployed = {}
               PROVE  OnlyOneCanBeMeant'
    BY <1>1 DEF OnlyOneCanBeMeant
  <2>1. \A n \in unread' : folders[n] # NoFolder
    BY <1>1 DEF InventoryInv, OnlyOneCanBeMeant
  <2>2. ASSUME NEW id \in ParseShellInventory,
               NEW n \in FolderName \ BackupName,
               Claimants(id) \ BackupName = {n}, target \in {Everything, id},
               folders[n].id \in {id, NoFolder}
        PROVE  \/ n \in unread' /\ id \in unclaimed'
               \/ claim' = [name |-> n, from |-> id]
               \/ Reported(n, id)
    <3>1. \/ n \in unread /\ id \in unclaimed
          \/ Reported(n, id)
      <4>1. claim # [name |-> n, from |-> id]
        BY <1>1, NoFolderIsNothing DEF NoClaim
      <4> QED BY <2>2, <4>1 DEF InventoryInv, OnlyOneCanBeMeant
    <3>2. CASE n = name /\ id \in unclaimed
      <4>1. NoFolder \notin unclaimed /\ n \notin BackupName
        BY DEF InventoryInv, ClaimsAreOwn
      <4>2. n \in Claimants(id)
        BY <2>2
      <4>3. n = id \/ folders[n].id = id
        BY <4>2 DEF Claimants
      <4>4. from = id
        BY <1>2, <2>2, <3>2, <4>1, <4>3
      <4>5. claim' = mine
        BY <1>1, <2>2, <4>4 DEF Wanted
      <4> QED BY <3>2, <4>4, <4>5 DEF mine
    <3>3. CASE n # name /\ n \in unread /\ id \in unclaimed
      <4>1. from # id
        <5>1. SUFFICES ASSUME from = id PROVE FALSE
          OBVIOUS
        <5>2. id # NoFolder
          BY DEF InventoryInv, ClaimsAreOwn
        <5>3. name \notin BackupName /\ (name = id \/ folders[name].id = id)
          BY <1>2, <5>1, <5>2
        <5>4. folders[name] # NoFolder
          BY <1>1 DEF InventoryInv, OnlyOneCanBeMeant
        <5>5. name \in Claimants(id)
          BY <5>3, <5>4 DEF Claimants
        <5> QED BY <2>2, <3>3, <5>3, <5>5
      <4> QED BY <1>1, <3>3, <4>1
    <3> QED BY <3>1, <3>2, <3>3
  <2> QED BY <1>1, <1>5, <1>6, <2>1, <2>2 DEF OnlyOneCanBeMeant, Reported
<1>11. BarsAreOfReports'
  BY <1>1, <1>6 DEF InventoryInv, BarsAreOfReports
<1> QED BY <1>8, <1>9, <1>10, <1>11 DEF InventoryInv

\* It is reported under that record.
LEMMA InspectKeeps ==
  ASSUME InventoryInv, Inspect
  PROVE  InventoryInv'
<1> DEFINE r == InspectPlugin(claim.name, claim.from)
<1>1. /\ claim # NoClaim /\ claim' = NoClaim
      /\ plugins' = plugins \cup {r}
      /\ bars' = IF r.active /\ r.bar THEN bars \cup {r.id} ELSE bars
      /\ UNCHANGED <<folders, redeployed, setup, unread, unclaimed,
                     complaints>>
  BY DEF Inspect
<1>2. /\ r.name = claim.name /\ r.from = claim.from
      /\ r.active <=> Said(claim.from, "active")
  BY InspectionIsOfClaim
<1> HIDE DEF r
<1>3. NoClaim.name = NoFolder /\ NoClaim.from = NoFolder
      /\ DOMAIN NoClaim = {"name", "from"}
      /\ NoClaim = [k \in DOMAIN NoClaim |-> NoClaim[k]]
  BY DEF NoClaim
<1>4. UNCHANGED <<answer, target>>
  BY <1>1 DEF setup
<1>5. /\ ParseShellInventory' = ParseShellInventory
      /\ ShellBars' = ShellBars
      /\ \A id : BuiltIn(id)' = BuiltIn(id) /\ Claimants(id)' = Claimants(id)
      /\ \A p, w : Said(p, w)' = Said(p, w)
  BY <1>1, <1>4 DEF ParseShellInventory, ShellBars, BuiltIn, Claimants, Said
<1>6. complaints = {} /\ claim.name \in FolderName
  BY <1>1 DEF InventoryInv, ClaimsAreOwn
<1>7. ClaimsAreOwn'
  <2>1. \A p \in plugins : p.from # NoFolder => p.from # r.from
    BY <1>2 DEF InventoryInv, ClaimsAreOwn
  <2>2. \A p, s \in plugins' : p.from = s.from /\ p # s => p.from = NoFolder
    BY <1>1, <2>1 DEF InventoryInv, ClaimsAreOwn
  <2>3. \A p \in plugins' : p.from # NoFolder =>
           /\ p.name \notin BackupName
           /\ p.from \in ParseShellInventory \ unclaimed
           /\ p.from \notin complaints
    BY <1>1, <1>2, <1>6 DEF InventoryInv, ClaimsAreOwn
  <2> QED
    BY <1>1, <1>3, <1>5, <1>6, <2>2, <2>3 DEF InventoryInv, ClaimsAreOwn
<1>8. NoneIsLost'
  <2>1. /\ \A p \in plugins : p \in plugins'
        /\ r \in plugins'
    BY <1>1
  <2>2. ASSUME NEW id \in ParseShellInventory, target \in {Everything, id}
        PROVE  \/ id \in unclaimed' \/ claim'.from = id
               \/ BuiltIn(id) \/ id \in complaints
               \/ \E p \in plugins' : p.from = id
    BY <1>1, <1>2, <2>1, <2>2 DEF InventoryInv, NoneIsLost
  <2>3. ASSUME NEW n \in FolderName \ redeployed, folders[n] # NoFolder,
               target \in {Everything, n, folders[n].id}
        PROVE  \/ n \in unread' \/ claim'.name = n
               \/ \E p \in plugins' : p.name = n
    BY <1>1, <1>2, <2>1, <2>3 DEF InventoryInv, NoneIsLost
  <2> QED BY <1>1, <1>4, <1>5, <2>2, <2>3 DEF NoneIsLost
<1>9. OnlyOneCanBeMeant'
  <2> SUFFICES ASSUME redeployed = {}
               PROVE  OnlyOneCanBeMeant'
    BY <1>1 DEF OnlyOneCanBeMeant
  <2>1. ASSUME NEW id \in ParseShellInventory,
               NEW n \in FolderName \ BackupName,
               Claimants(id) \ BackupName = {n}, target \in {Everything, id},
               folders[n].id \in {id, NoFolder}
        PROVE  \/ n \in unread' /\ id \in unclaimed'
               \/ \E p \in plugins' : p.name = n /\ p.from = id
    <3>1. CASE claim = [name |-> n, from |-> id]
      <4>1. r.name = n /\ r.from = id
        BY <1>2, <3>1
      <4> QED BY <1>1, <4>1
    <3>2. CASE ~(claim = [name |-> n, from |-> id])
      <4>1. (n \in unread /\ id \in unclaimed) \/ Reported(n, id)
        BY <2>1, <3>2 DEF InventoryInv, OnlyOneCanBeMeant
      <4> QED BY <1>1, <4>1 DEF Reported
    <3> QED BY <3>1, <3>2
  <2>2. \A n \in unread' : folders'[n] # NoFolder
    BY <1>1 DEF InventoryInv, OnlyOneCanBeMeant
  <2> QED BY <1>1, <1>4, <1>5, <2>1, <2>2 DEF OnlyOneCanBeMeant, Reported
<1>10. BarsAreOfReports'
  <2>1. bars = ShellBars
               \cup {p.id : p \in {q \in plugins : q.active /\ q.bar}}
    BY DEF InventoryInv, BarsAreOfReports
  <2>2. bars' = ShellBars
                \cup {p.id : p \in {q \in plugins' : q.active /\ q.bar}}
    <3>1. CASE r.active /\ r.bar
      BY <1>1, <2>1, <3>1
    <3>2. CASE ~(r.active /\ r.bar)
      BY <1>1, <2>1, <3>2
    <3> QED BY <3>1, <3>2
  <2>3. \A p \in plugins' : p.active <=> Said(p.from, "active")
    BY <1>1, <1>2 DEF InventoryInv, BarsAreOfReports
  <2> QED BY <1>5, <2>2, <2>3 DEF BarsAreOfReports
<1> QED BY <1>7, <1>8, <1>9, <1>10 DEF InventoryInv

\* The rest: what the shell lists beyond the directories, and a directory
\* that is replaced, of which less is claimed from then on.
LEMMA EndKeeps ==
  ASSUME InventoryInv, Complain \/ Redeploy \/ UNCHANGED inventory
  PROVE  InventoryInv'
<1>1. UNCHANGED <<answer, target, bars, claim, plugins, unread>>
  BY DEF Complain, Redeploy, inventory, setup, shellSide
<1>2. /\ ParseShellInventory' = ParseShellInventory
      /\ ShellBars' = ShellBars
      /\ \A id : BuiltIn(id)' = BuiltIn(id)
      /\ \A p, w : Said(p, w)' = Said(p, w)
  BY <1>1 DEF ParseShellInventory, ShellBars, BuiltIn, Said
<1>3. BarsAreOfReports'
  BY <1>1, <1>2 DEF InventoryInv, BarsAreOfReports
<1>4. CASE Complain
  <2>1. /\ unread = {} /\ claim = NoClaim /\ unclaimed # {}
        /\ complaints' = {id \in unclaimed : ~BuiltIn(id)}
        /\ unclaimed' = {} /\ UNCHANGED <<folders, redeployed>>
    BY <1>4 DEF Complain
  <2>2. \A id : Claimants(id)' = Claimants(id)
    BY <2>1 DEF Claimants
  <2>3. ClaimsAreOwn'
    BY <1>1, <1>2, <2>1 DEF InventoryInv, ClaimsAreOwn
  <2>4. NoneIsLost'
    <3>1. complaints = {}
      BY <2>1 DEF InventoryInv, ClaimsAreOwn
    <3> QED BY <1>1, <1>2, <2>1, <3>1 DEF InventoryInv, NoneIsLost
  <2>5. OnlyOneCanBeMeant'
    BY <1>1, <1>2, <2>1, <2>2 DEF InventoryInv, OnlyOneCanBeMeant, Reported
  <2> QED BY <1>3, <2>3, <2>4, <2>5 DEF InventoryInv
<1>5. CASE Redeploy
  <2>1. PICK name \in FolderName : \E folder \in Redeployed[name] :
           /\ folders' = [folders EXCEPT ![name] = folder]
           /\ redeployed = {} /\ redeployed' = {name}
           /\ UNCHANGED <<unclaimed, complaints>>
    BY <1>5 DEF Redeploy, shellSide
  <2>2. ClaimsAreOwn'
    BY <1>1, <1>2, <2>1 DEF InventoryInv, ClaimsAreOwn
  <2>3. \A n \in FolderName \ {name} : folders'[n] = folders[n]
    BY <2>1
  <2>4. NoneIsLost'
    BY <1>1, <1>2, <2>1, <2>3 DEF InventoryInv, NoneIsLost
  <2>5. OnlyOneCanBeMeant'
    BY <2>1 DEF OnlyOneCanBeMeant
  <2> QED BY <1>3, <2>2, <2>4, <2>5 DEF InventoryInv
<1>6. CASE UNCHANGED inventory
  BY <1>6 DEF inventory, setup, shellSide, InventoryInv, ClaimsAreOwn,
              NoneIsLost, OnlyOneCanBeMeant, BarsAreOfReports, Reported,
              ParseShellInventory, ShellBars, BuiltIn, Said, Claimants
<1> QED BY <1>4, <1>5, <1>6

\* An inventory that could not list the plugin root is over.
NothingThere == Finished /\ complaints = {NoFolder}

\* The invariant of an inventory.
LEMMA InventoryHolds == InventorySpec => [](InventoryInv \/ NothingThere)
<1>1. InventoryInv /\ [InventoryNext]_inventory
      => (InventoryInv \/ NothingThere)'
  <2>1. CASE RootUnavailable
    <3>1. NothingThere'
      BY <2>1 DEF RootUnavailable, NothingListed, NothingThere, Finished,
                  NoClaim
    <3> QED BY <3>1
  <2> QED BY <2>1, ClaimKeeps, InspectKeeps, EndKeeps DEF InventoryNext
<1>2. NothingThere /\ [InventoryNext]_inventory => NothingThere'
  <2> SUFFICES ASSUME NothingThere, [InventoryNext]_inventory
               PROVE  NothingThere'
    OBVIOUS
  <2>1. ~RootUnavailable
    BY DEF NothingThere, RootUnavailable, NothingListed
  <2>2. UNCHANGED inventory
    BY <2>1 DEF NothingThere, Finished, InventoryNext, Claim, Inspect,
                Complain, Redeploy
  <2> QED BY <2>2 DEF NothingThere, Finished, NoClaim, inventory, shellSide
<1> QED BY <1>1, <1>2, NothingIsListed, PTL DEF InventorySpec

\* In whatever order directories are listed, and whatever is replaced
\* meanwhile: what the shell says of a plugin is shown by one directory at
\* most and never by a backup, the only directory that can be meant shows it,
\* and what no directory shows is reported missing.  Of a plugin root that
\* cannot be listed this says nothing.
THEOREM ShellIsFollowed == InventorySpec => []InventoryFollowsShell
<1>1. InventoryInv \/ NothingThere => InventoryFollowsShell
  <2> SUFFICES ASSUME InventoryInv, Finished PROVE InventoryFollowsShell
    BY DEF InventoryFollowsShell, RootListed, NothingThere
  <2>1. unread = {} /\ claim = NoClaim /\ unclaimed = {}
    BY DEF Finished
  <2>2. claim.name = NoFolder /\ claim.from = NoFolder
    BY <2>1 DEF NoClaim
  <2>3. \A n \in FolderName : \A id : claim # [name |-> n, from |-> id]
    BY <2>1, NoFolderIsNothing DEF NoClaim
  <2>4. \A r \in plugins :
           r.from # NoFolder => /\ r.name \notin BackupName
                                /\ r.from \notin complaints
    BY DEF InventoryInv, ClaimsAreOwn
  <2>5. \A r, s \in plugins : r.from = s.from /\ r # s => r.from = NoFolder
    BY DEF InventoryInv, ClaimsAreOwn
  <2>6. \A id \in ParseShellInventory :
           target \in {Everything, id} =>
               \/ BuiltIn(id) \/ id \in complaints
               \/ \E r \in plugins : r.from = id
    BY <2>1, <2>2 DEF InventoryInv, NoneIsLost, ClaimsAreOwn
  <2>7. \A id \in ParseShellInventory, name \in FolderName \ BackupName :
           /\ Claimants(id) \ BackupName = {name}
           /\ redeployed = {} /\ target \in {Everything, id}
           /\ folders[name].id \in {id, NoFolder}
           => \E r \in plugins : r.name = name /\ r.from = id
    BY <2>1, <2>3 DEF InventoryInv, OnlyOneCanBeMeant, Reported
  <2>8. \A name \in FolderName \ redeployed :
           /\ folders[name] # NoFolder
           /\ target \in {Everything, name, folders[name].id}
           => \E r \in plugins : r.name = name
    BY <2>1, <2>2, NoFolderIsNothing DEF InventoryInv, NoneIsLost
  <2> QED BY <2>4, <2>5, <2>6, <2>7, <2>8 DEF InventoryFollowsShell
<1> QED BY <1>1, InventoryHolds, PTL

\* The full bars that are counted are those of active plugins, all of them,
\* unless a directory and the manifest in it name different plugins.
THEOREM BarsAreRight == InventorySpec => []BarsAreCounted
<1>1. InventoryInv \/ NothingThere => BarsAreCounted
  <2> SUFFICES ASSUME InventoryInv,
                      \A r \in plugins : r.from # NoFolder => r.id = r.from
               PROVE  /\ bars \subseteq {id \in ParseShellInventory :
                                           answer[id].active}
                      /\ \A id \in ParseShellInventory \ bars :
                            ~(answer[id].active
                              /\ (\/ answer[id].bar
                                  \/ \E r \in plugins : r.from = id /\ r.bar))
    BY DEF BarsAreCounted, RootListed, NothingThere
  <2>1. bars = ShellBars
               \cup {r.id : r \in {p \in plugins : p.active /\ p.bar}}
    BY DEF InventoryInv, BarsAreOfReports
  <2>2. \A r \in plugins :
           r.active <=> r.from # NoFolder /\ answer[r.from].active
    BY DEF InventoryInv, BarsAreOfReports, Said
  <2>3. \A r \in plugins : r.from # NoFolder => r.from \in ParseShellInventory
    BY DEF InventoryInv, ClaimsAreOwn
  <2>4. NoFolder \notin ParseShellInventory
    BY DEF InventoryInv, ClaimsAreOwn
  <2>5. \A id : id \in ShellBars <=> /\ id \in ParseShellInventory
                                     /\ answer[id].active /\ answer[id].bar
    BY DEF ShellBars
  <2> QED BY <2>1, <2>2, <2>3, <2>4, <2>5
<1> QED BY <1>1, InventoryHolds, PTL

(***************************************************************************)
(* Identity.  A file is looked at only when there is room for its entry,   *)
(* and its size is of what is read as long as nothing changes.             *)
(***************************************************************************)
KeptTyped ==
    /\ caps \in CapSets /\ DOMAIN digested = Item
    /\ IsFiniteSet(Collected) /\ Cardinality(Collected) <= caps.files

RoomIsLeft ==
    current # NoneCurrent =>
        current.path \in Item /\ Cardinality(Collected) < caps.files

BytesAreBounded ==
    touched = {} =>
        /\ disk \in Disks /\ totalBytes \in Nat
        /\ totalBytes <= caps.total + MaxSample \div 2
        /\ current # NoneCurrent =>
              disk[current.path] # Gone
              /\ current.size = Len(disk[current.path].body)

IdentityInv == KeptTyped /\ RoomIsLeft /\ BytesAreBounded

\* One more entry where there is room for one.
LEMMA RecordHasRoom ==
  ASSUME KeptTyped, NEW x \in Item, NEW kind, NEW mode, NEW data,
         Cardinality(Collected) < caps.files, Record(x, kind, mode, data),
         caps' = caps
  PROVE  KeptTyped'
<1>1. \A y \in Item : y # x => digested'[y] = digested[y]
  BY DEF KeptTyped, Record
<1>2. Collected' \subseteq Collected \cup {x}
  BY <1>1 DEF Collected
<1>3. /\ IsFiniteSet(Collected \cup {x})
      /\ Cardinality(Collected \cup {x}) <= Cardinality(Collected) + 1
  <2>1. Cardinality(Collected) \in Nat
    BY FS_CardinalityType DEF KeptTyped
  <2> QED BY <2>1, FS_AddElement DEF KeptTyped
<1>4. /\ IsFiniteSet(Collected')
      /\ Cardinality(Collected') <= Cardinality(Collected \cup {x})
  BY <1>2, <1>3, FS_Subset
<1>5. /\ Cardinality(Collected) \in Nat /\ Cardinality(Collected') \in Nat
      /\ Cardinality(Collected \cup {x}) \in Nat /\ caps.files \in Nat
  BY <1>3, <1>4, FS_CardinalityType, LimitsAreNumbers DEF KeptTyped
<1>6. Cardinality(Collected') <= caps.files
  BY <1>3, <1>4, <1>5
<1>7. DOMAIN digested' = Item
  BY DEF KeptTyped, Record
<1> QED BY <1>4, <1>6, <1>7 DEF KeptTyped

\* Room is left when the walk goes on.
LEMMA GoingOnHasRoom ==
  ASSUME KeptTyped, Halt = "no"
  PROVE  Cardinality(Collected) < caps.files
<1>1. ~Full
  BY DEF Halt
<1>2. Cardinality(Collected) \in Nat /\ caps.files \in Nat
  BY FS_CardinalityType, LimitsAreNumbers DEF KeptTyped
<1> QED BY <1>1, <1>2 DEF Full

\* What is found is a sequence of bytes, and a part of it no longer than it
\* was asked to be.
LEMMA PartLengths ==
  ASSUME NEW S, NEW body \in Seq(S), NEW m \in Nat
  PROVE  /\ Len(body) \in Nat
         /\ Len(SubSeq(body, 1, Least2(m, Len(body)))) = Least2(m, Len(body))
         /\ Least2(m, Len(body)) \in Nat /\ Least2(m, Len(body)) <= m
         /\ m <= Len(body) =>
               Len(SubSeq(body, Len(body) - m + 1, Len(body))) = m
<1>1. Len(body) \in Nat
  BY LenProperties
<1>2. /\ Least2(m, Len(body)) \in Nat /\ Least2(m, Len(body)) <= m
      /\ Least2(m, Len(body)) <= Len(body)
  BY <1>1 DEF Least2
<1>3. Len(SubSeq(body, 1, Least2(m, Len(body)))) = Least2(m, Len(body))
  BY <1>1, <1>2, SubSeqProperties
<1>4. ASSUME m <= Len(body)
      PROVE  Len(SubSeq(body, Len(body) - m + 1, Len(body))) = m
  <2>1. PICK n \in Nat : n = Len(body)
    BY <1>1
  <2>2. m = 0 \/ (n - m + 1 \in 1..n /\ n - (n - m + 1) + 1 = m)
    BY <1>4, <2>1
  <2>3. CASE m = 0
    BY <2>1, <2>3, SubSeqProperties
  <2>4. CASE m # 0
    BY <2>1, <2>2, <2>4, SubSeqProperties
  <2> QED BY <2>3, <2>4
<1> QED BY <1>1, <1>2, <1>3, <1>4

\* A sample takes no more than what is left and half a sample.
LEMMA SkippedIsSmall ==
  ASSUME KeptTyped, totalBytes \in Nat, totalBytes < caps.total,
         NEW S, NEW body \in Seq(S), NEW size, NEW opens,
         opens => size = Len(body),
         NEW sample, sample = SkippedFileDigest(body, size, opens)
  PROVE  /\ Len(sample[1]) + Len(sample[2]) \in Nat
         /\ totalBytes + (Len(sample[1]) + Len(sample[2]))
               <= caps.total + MaxSample \div 2
<1> DEFINE limit == Least2(MaxSample, caps.total - totalBytes)
           first == SubSeq(body, 1, Least2(limit, Len(body)))
           tail == IF size > limit /\ limit > 1 THEN limit \div 2 ELSE 0
           last == SubSeq(body, Len(body) - tail + 1, Len(body))
<1>1. caps.total \in Nat /\ MaxSample \in Nat
  BY LimitsAreNumbers DEF KeptTyped
<1>2. /\ limit \in Nat /\ limit <= caps.total - totalBytes
      /\ limit <= MaxSample
  BY <1>1 DEF Least2
<1>3. CASE ~opens
  <2>1. sample[1] = <<>> /\ sample[2] = <<>>
    BY <1>3 DEF SkippedFileDigest
  <2>2. Len(sample[1]) = 0 /\ Len(sample[2]) = 0
    BY <2>1
  <2>3. MaxSample \div 2 \in Nat
    BY <1>1
  <2> QED BY <1>1, <2>2, <2>3
<1>4. CASE opens
  <2>1. sample[1] = first /\ sample[2] = last
    BY <1>4 DEF SkippedFileDigest
  <2>2. tail \in Nat /\ tail <= MaxSample \div 2 /\ tail <= Len(body)
    <3>1. Len(body) \in Nat /\ size = Len(body)
      BY <1>4, LenProperties
    <3>2. \A k \in Nat : k \div 2 \in Nat /\ k \div 2 <= k
      OBVIOUS
    <3>3. \A k, m \in Nat : k <= m => k \div 2 <= m \div 2
      OBVIOUS
    <3>4. limit \div 2 \in Nat /\ limit \div 2 <= limit
          /\ limit \div 2 <= MaxSample \div 2 /\ MaxSample \div 2 \in Nat
      BY <1>1, <1>2, <3>2, <3>3
    <3> HIDE DEF limit
    <3>5. CASE size > limit /\ limit > 1
      BY <1>2, <3>1, <3>4, <3>5
    <3>6. CASE ~(size > limit /\ limit > 1)
      BY <3>1, <3>4, <3>6
    <3> QED BY <3>5, <3>6
  <2>a. \A m \in Nat :
           LET part == SubSeq(body, 1, Least2(m, Len(body)))
           IN  Len(part) \in Nat /\ Len(part) <= m
    BY PartLengths
  <2>b. \A m \in Nat :
           m <= Len(body) =>
               Len(SubSeq(body, Len(body) - m + 1, Len(body))) = m
    BY PartLengths
  <2> HIDE DEF limit, tail
  <2>3. Len(first) \in Nat /\ Len(first) <= limit /\ Len(last) = tail
    BY <1>2, <2>2, <2>a, <2>b
  <2> HIDE DEF first, last
  <2>4. Len(sample[1]) \in Nat /\ Len(sample[1]) <= limit
        /\ Len(sample[2]) = tail
    BY <2>1, <2>3
  <2>5. MaxSample \div 2 \in Nat
    BY <1>1
  <2> QED BY <1>1, <1>2, <2>2, <2>4, <2>5
<1> QED BY <1>3, <1>4

\* The bytes of what is read are those that were looked at.
LEMMA BodyIsFound ==
  ASSUME RoomIsLeft, BytesAreBounded, touched = {},
         current # NoneCurrent,
         NEW body,
         body = IF Present(current.path) THEN disk[current.path].body
                ELSE <<>>
  PROVE  /\ body \in Seq(Nat)
         /\ Present(current.path) => current.size = Len(body)
<1> DEFINE x == current.path
           found == disk[x].body
<1>1. /\ disk \in Disks /\ x \in Item /\ disk[x] # Gone
      /\ current.size = Len(found)
  BY DEF BytesAreBounded, RoomIsLeft
<1>2. found \in Seq(Nat)
  BY <1>1, PluginsAreFiles DEF FileNode
<1>3. body = IF Present(x) THEN found ELSE <<>>
  OBVIOUS
<1> HIDE DEF x, found
<1>4. body \in Seq(Nat) /\ (Present(x) => body = found)
  BY <1>2, <1>3, EmptySeq
<1>5. body \in Seq(Nat)
      /\ (Present(x) => current.size = Len(body))
  BY <1>1, <1>4
<1> QED BY <1>5 DEF x, found

\* A step that touches none of this.
LEMMA IdentityStands ==
  ASSUME IdentityInv,
         UNCHANGED <<copy, current, totalBytes, digested>>
  PROVE  IdentityInv'
<1>1. KeptTyped'
  BY DEF IdentityInv, KeptTyped, Collected, copy
<1>2. RoomIsLeft'
  BY DEF IdentityInv, RoomIsLeft, Collected, copy, NoneCurrent
<1>3. BytesAreBounded'
  BY DEF IdentityInv, BytesAreBounded, copy, NoneCurrent
<1> QED BY <1>1, <1>2, <1>3 DEF IdentityInv

\* An entry without bytes, made when nothing was looked at.
LEMMA EntryKeeps ==
  ASSUME IdentityInv, current = NoneCurrent, Halt = "no",
         NEW x \in Item, NEW kind, NEW mode, NEW data,
         Record(x, kind, mode, data),
         UNCHANGED <<copy, current, totalBytes>>
  PROVE  IdentityInv'
<1>1. KeptTyped'
  BY GoingOnHasRoom, RecordHasRoom DEF IdentityInv, copy
<1>2. RoomIsLeft'
  BY DEF RoomIsLeft, NoneCurrent
<1>3. BytesAreBounded'
  BY DEF IdentityInv, BytesAreBounded, copy, NoneCurrent
<1> QED BY <1>1, <1>2, <1>3 DEF IdentityInv

LEMMA LinkOrSpecialKeeps ==
  IdentityInv /\ CollectLinkOrSpecial => IdentityInv'
<1> SUFFICES ASSUME IdentityInv, CollectLinkOrSpecial PROVE IdentityInv'
  OBVIOUS
<1>1. PICK x \in Item :
        /\ Looking(x)
        /\ \/ Record(x, "l", disk[x].mode, disk[x].body)
           \/ Record(x, "x", disk[x].mode, <<>>)
  BY DEF CollectLinkOrSpecial
<1>2. current = NoneCurrent /\ Halt = "no"
  BY <1>1 DEF Looking, Collecting, Child
<1>3. UNCHANGED <<copy, current, totalBytes>>
  BY DEF CollectLinkOrSpecial
<1> QED BY <1>1, <1>2, <1>3, EntryKeeps

LEMMA SubdirectoryKeeps ==
  IdentityInv /\ CollectSubdirectory => IdentityInv'
<1> SUFFICES ASSUME IdentityInv, CollectSubdirectory PROVE IdentityInv'
  OBVIOUS
<1>1. PICK x \in Item :
        /\ Looking(x)
        /\ \/ UNCHANGED digested
           \/ Record(x, "d", disk[x].mode, <<>>)
  BY DEF CollectSubdirectory
<1>2. current = NoneCurrent /\ Halt = "no"
  BY <1>1 DEF Looking, Collecting, Child
<1>3. UNCHANGED <<copy, current, totalBytes>>
  BY DEF CollectSubdirectory
<1> QED BY <1>1, <1>2, <1>3, EntryKeeps, IdentityStands

\* What is looked at is there and has the size of what is read of it.
LEMMA LookKeeps ==
  ASSUME IdentityInv, Halt = "no", NEW x \in Item, NEW kind,
         Holding(x, "file"), Looked(x, kind),
         UNCHANGED <<copy, totalBytes, digested>>
  PROVE  IdentityInv'
<1>1. disk[x] # Gone
  BY DEF Holding, Present, Up
<1>2. current'.path = x /\ current'.size = Len(disk[x].body)
  BY DEF Looked
<1>3. KeptTyped'
  BY DEF IdentityInv, KeptTyped, Collected, copy
<1>4. RoomIsLeft'
  BY <1>2, GoingOnHasRoom DEF IdentityInv, RoomIsLeft, Collected, copy
<1>5. BytesAreBounded'
  BY <1>1, <1>2 DEF IdentityInv, BytesAreBounded, copy
<1> QED BY <1>3, <1>4, <1>5 DEF IdentityInv

LEMMA LookingKeeps ==
  IdentityInv /\ (LookAtFile \/ CollectGitFile) => IdentityInv'
<1> SUFFICES ASSUME IdentityInv, LookAtFile \/ CollectGitFile
             PROVE  IdentityInv'
  OBVIOUS
<1>1. CASE LookAtFile
  <2>1. PICK x \in Item : Looking(x) /\ Holding(x, "file") /\ Looked(x, "f")
    BY <1>1 DEF LookAtFile
  <2>2. Halt = "no" /\ UNCHANGED <<copy, totalBytes, digested>>
    BY <1>1, <2>1 DEF LookAtFile, Looking, Child
  <2> QED BY <2>1, <2>2, LookKeeps
<1>2. CASE CollectGitFile
  <2>1. PICK x \in Item :
          \/ UNCHANGED current
          \/ /\ Halt = "no" /\ Holding(x, "file")
             /\ Looked(x, GitKind)
    BY <1>2 DEF CollectGitFile
  <2>2. UNCHANGED <<copy, totalBytes, digested>>
    BY <1>2 DEF CollectGitFile
  <2> QED BY <2>1, <2>2, LookKeeps, IdentityStands
<1> QED BY <1>1, <1>2

\* A file that was looked at is read into one entry.
LEMMA ReadFileKeeps ==
  IdentityInv /\ ReadFile => IdentityInv'
<1> SUFFICES ASSUME IdentityInv, ReadFile PROVE IdentityInv'
  OBVIOUS
<1> DEFINE x == current.path
<1>1. PICK body : body = IF Present(x) THEN disk[x].body ELSE <<>>
  OBVIOUS
<1>2. PICK opens : opens = (Present(x) /\ disk[x].opens)
  OBVIOUS
<1>3. PICK sample : sample = SkippedFileDigest(body, current.size, opens)
  OBVIOUS
<1>4. PICK sampled : sampled = Len(sample[1]) + Len(sample[2])
  OBVIOUS
<1>5. /\ current # NoneCurrent /\ current' = NoneCurrent
      /\ UNCHANGED copy
      /\ \E kind, mode, data : Record(x, kind, mode, data)
  BY DEF ReadFile, Sentinel
<1>6. \/ totalBytes' = totalBytes + 0
      \/ /\ totalBytes < caps.total
         /\ totalBytes' = totalBytes + sampled
      \/ /\ opens /\ ~(totalBytes >= caps.total)
         /\ ~(totalBytes < caps.total /\ current.size > caps.file)
         /\ ~(/\ totalBytes < caps.total /\ current.size <= caps.file
              /\ totalBytes + current.size > caps.total)
         /\ totalBytes' = totalBytes + Len(body)
  BY <1>1, <1>2, <1>3, <1>4 DEF ReadFile, Sentinel
<1>7. KeptTyped'
  BY <1>5, RecordHasRoom DEF IdentityInv, RoomIsLeft, copy
<1>8. RoomIsLeft'
  BY <1>5 DEF RoomIsLeft, NoneCurrent
<1>9. ASSUME touched = {}
      PROVE  /\ totalBytes' \in Nat
             /\ totalBytes' <= caps.total + MaxSample \div 2
  <2>1. /\ body \in Seq(Nat)
        /\ Present(x) => current.size = Len(body)
    BY <1>1, <1>5, <1>9, BodyIsFound DEF IdentityInv
  <2>2. Len(body) \in Nat /\ (opens => current.size = Len(body))
    BY <1>2, <2>1, LenProperties
  <2>3. /\ totalBytes \in Nat
        /\ totalBytes <= caps.total + MaxSample \div 2
    BY <1>9 DEF IdentityInv, BytesAreBounded
  <2>4. ASSUME totalBytes < caps.total
        PROVE  /\ sampled \in Nat
               /\ totalBytes + sampled <= caps.total + MaxSample \div 2
    BY <1>3, <1>4, <2>1, <2>2, <2>3, <2>4, SkippedIsSmall DEF IdentityInv
  <2>5. /\ caps.total \in Nat /\ MaxSample \div 2 \in Nat
        /\ caps.file \in Nat
    BY LimitsAreNumbers DEF IdentityInv, KeptTyped
  <2> HIDE DEF x
  <2> QED BY <1>6, <2>2, <2>3, <2>4, <2>5
<1>10. BytesAreBounded'
  BY <1>5, <1>9 DEF IdentityInv, BytesAreBounded, copy
<1> QED BY <1>7, <1>8, <1>10 DEF IdentityInv

\* A file of Git is read into one entry, or none.
LEMMA ReadGitFileKeeps ==
  IdentityInv /\ ReadGitFile => IdentityInv'
<1> SUFFICES ASSUME IdentityInv, ReadGitFile PROVE IdentityInv'
  OBVIOUS
<1> DEFINE x == current.path
<1>1. PICK body : body = IF Present(x) THEN disk[x].body ELSE <<>>
  OBVIOUS
<1>2. PICK data : data = SubSeq(body, 1, Least2(caps.metadata, Len(body)))
  OBVIOUS
<1>3. /\ current' = NoneCurrent /\ UNCHANGED copy
      /\ \/ UNCHANGED digested
         \/ \E kind, mode, d : Record(x, kind, mode, d)
  BY DEF ReadGitFile, Sentinel
<1>4. \/ totalBytes' = totalBytes \/ totalBytes' = totalBytes + 0
      \/ /\ ~(totalBytes + Len(data) > caps.total)
         /\ totalBytes' = totalBytes + Len(data)
  BY <1>1, <1>2 DEF ReadGitFile, Sentinel
<1>5. current # NoneCurrent
  BY DEF ReadGitFile, NoneCurrent
<1>6. KeptTyped'
  <2>1. CASE UNCHANGED digested
    BY <1>3, <2>1 DEF IdentityInv, KeptTyped, Collected, copy
  <2>2. CASE \E kind, mode, d : Record(x, kind, mode, d)
    BY <1>3, <1>5, <2>2, RecordHasRoom DEF IdentityInv, RoomIsLeft, copy
  <2> QED BY <1>3, <2>1, <2>2
<1>7. RoomIsLeft'
  BY <1>3 DEF RoomIsLeft, NoneCurrent
<1>8. ASSUME touched = {}
      PROVE  /\ totalBytes' \in Nat
             /\ totalBytes' <= caps.total + MaxSample \div 2
  <2>1. body \in Seq(Nat)
    BY <1>1, <1>5, <1>8, BodyIsFound DEF IdentityInv
  <2>2. /\ totalBytes \in Nat
        /\ totalBytes <= caps.total + MaxSample \div 2
    BY <1>8 DEF IdentityInv, BytesAreBounded
  <2>3. /\ caps.total \in Nat /\ MaxSample \div 2 \in Nat
        /\ caps.metadata \in Nat
    BY LimitsAreNumbers DEF IdentityInv, KeptTyped
  <2>4. Len(data) \in Nat
    <3>1. PICK m \in Nat : m = caps.metadata
      BY <2>3
    <3>2. PICK k : k = Least2(m, Len(body))
      OBVIOUS
    <3>3. k \in Nat /\ Len(SubSeq(body, 1, k)) = k
      BY <2>1, <3>2, PartLengths
    <3> QED BY <1>2, <3>1, <3>2, <3>3
  <2>5. PICK l \in Nat : l = Len(data)
    BY <2>4
  <2>6. PICK half \in Nat : half = MaxSample \div 2
    BY <2>3
  <2>7. \/ totalBytes' = totalBytes
        \/ totalBytes' = totalBytes + l /\ ~(totalBytes + l > caps.total)
    BY <1>4, <2>2, <2>5
  <2> QED BY <2>2, <2>3, <2>6, <2>7
<1>9. BytesAreBounded'
  BY <1>3, <1>8 DEF IdentityInv, BytesAreBounded, copy
<1> QED BY <1>6, <1>7, <1>9 DEF IdentityInv

LEMMA TouchKeeps ==
  IdentityInv /\ Touch => IdentityInv'
<1> SUFFICES ASSUME IdentityInv, Touch PROVE IdentityInv'
  OBVIOUS
<1>1. touched' # {} /\ UNCHANGED <<caps, current, digested>>
  BY DEF Touch
<1>2. KeptTyped'
  BY <1>1 DEF IdentityInv, KeptTyped, Collected
<1>3. RoomIsLeft'
  BY <1>1 DEF IdentityInv, RoomIsLeft, Collected, NoneCurrent
<1>4. BytesAreBounded'
  BY <1>1 DEF BytesAreBounded
<1> QED BY <1>2, <1>3, <1>4 DEF IdentityInv

LEMMA IdentityHolds == IdentitySpec => []IdentityInv
<1>1. IdentityInit => IdentityInv
  <2> SUFFICES ASSUME IdentityInit PROVE IdentityInv
    OBVIOUS
  <2>1. /\ caps \in CapSets /\ disk \in Disks /\ current = NoneCurrent
        /\ totalBytes = 0 /\ digested = [x \in Item |-> Gone]
    BY DEF IdentityInit, NothingCollected
  <2>2. Collected = {}
    BY <2>1 DEF Collected
  <2>3. IsFiniteSet({}) /\ Cardinality({}) = 0
    BY FS_EmptySet
  <2>4. caps.files \in Nat /\ caps.total \in Nat /\ MaxSample \div 2 \in Nat
    BY <2>1, LimitsAreNumbers
  <2>5. KeptTyped
    BY <2>1, <2>2, <2>3, <2>4 DEF KeptTyped
  <2> QED BY <2>1, <2>4, <2>5
          DEF IdentityInv, RoomIsLeft, BytesAreBounded
<1>2. IdentityInv /\ [IdentityNext]_identity => IdentityInv'
  <2> SUFFICES ASSUME IdentityInv, [IdentityNext]_identity
               PROVE  IdentityInv'
    OBVIOUS
  <2>1. CASE \/ CollectDir \/ EndDir \/ Vanished \/ ListHooks
             \/ OutOfBudget \/ UNCHANGED identity
    <3>1. UNCHANGED <<copy, current, totalBytes, digested>>
      BY <2>1 DEF CollectDir, EndDir, Vanished, ListHooks, OutOfBudget,
                  identity
    <3> QED BY <3>1, IdentityStands
  <2>2. CASE CollectLinkOrSpecial
    BY <2>2, LinkOrSpecialKeeps
  <2>3. CASE CollectSubdirectory
    BY <2>3, SubdirectoryKeeps
  <2>4. CASE LookAtFile \/ CollectGitFile
    BY <2>4, LookingKeeps
  <2>5. CASE ReadFile
    BY <2>5, ReadFileKeeps
  <2>6. CASE ReadGitFile
    BY <2>6, ReadGitFileKeeps
  <2>7. CASE Touch
    BY <2>7, TouchKeeps
  <2> QED BY <2>1, <2>2, <2>3, <2>4, <2>5, <2>6, <2>7 DEF IdentityNext
<1> QED BY <1>1, <1>2, PTL DEF IdentitySpec

\* lib.rs, MAX_FILES and MAX_TOTAL_BYTES: an identity never has more entries
\* than the limit, and of a tree that stands still it holds no more bytes
\* than the limit and half a sample, for every limit, every tree and however
\* many oversized files there are.
THEOREM IdentityIsBounded == IdentitySpec => []KeptIsBounded
<1>1. IdentityInv => KeptIsBounded
  BY DEF IdentityInv, KeptTyped, BytesAreBounded, KeptIsBounded
<1> QED BY <1>1, IdentityHolds, PTL

(***************************************************************************)
(* What becomes of a path under the walk.  A frame that is to be opened    *)
(* waits for all below its directory; an opened one for what lies below    *)
(* the entries it has left, and one of a repository for the hooks.  Every  *)
(* path an identity owes an answer for is waited for, is in hand, or was   *)
(* told of.                                                                *)
(***************************************************************************)
StackFrame ==
    [ dir : Item \cup {PluginRoot}, depth : Nat,
      kind : {"tree", "git", "hooks"}, opened : BOOLEAN, rest : SUBSET Item ]

InPlace(f) ==
    /\ f \in StackFrame
    /\ \A y \in f.rest : Within[y] = f.dir
    /\ f.kind = "tree" =>
          GitOf(f.dir) = {} /\ f.depth = Cardinality(Up[f.dir])
    /\ f.kind = "git" =>
          IsRepository(f.dir) /\ \A y \in f.rest : NameOf[y] \in GitFiles
    /\ f.kind = "hooks" =>
          /\ f.dir \in Item /\ NameOf[f.dir] = "hooks"
          /\ IsRepository(Within[f.dir])
    /\ f.opened = FALSE => f.kind = "tree" /\ f.rest = {}

Below(x, d) == d = PluginRoot \/ d \in Up[x] \ {x}
Waits(f, x) ==
    \/ f.opened = FALSE /\ Below(x, f.dir)
    \/ f.kind = "tree" /\ f.rest \cap Up[x] # {}
    \/ f.kind = "git" /\ (x \in f.rest \/ Part(f.dir, "hooks") \in Up[x])
    \/ f.kind = "hooks" /\ x \in f.rest
StackInPlace ==
    stack \in Seq(StackFrame) /\ \A i \in DOMAIN stack : InPlace(stack[i])
WaitedFor(x) == \E i \in DOMAIN stack : Waits(stack[i], x)

DiskIsTyped ==
    /\ disk \in [Item -> {Gone} \cup FileNode] /\ touched \subseteq Item
    /\ stopped \in {"no", "collection_time_budget", "collection_interrupted"}

Kept(x) == Present(x) /\ OfTree(x) /\ Covered(x)
Owes(x) == SameAsFound(x) /\ (Kept(x) \/ (~Present(x) /\ IsAPart(x)))
LossesOfPart(x) ==
    AnyLoss \cup {IF NameOf[x] = "hooks" THEN "git_hooks_unreadable"
                  ELSE "git_metadata_unreadable"}
IsTold(x) ==
    \/ /\ Present(x)
       /\ \/ digested[x] = WholeEntry(x)
          \/ \E l \in limitations : AccountsFor(l, x)
    \/ ~Present(x) /\ limitations \cap LossesOfPart(x) # {}

AsOnDisk(x) ==
    /\ Holding(x, "file") /\ OfTree(x) /\ Covered(x)
    /\ current.kind = WholeEntry(x).kind
    /\ current.mode = disk[x].mode /\ current.size = Len(disk[x].body)
HeldIsFound ==
    current # NoneCurrent =>
        /\ current.path \in Item
        /\ SameAsFound(current.path) => AsOnDisk(current.path)

NothingElse ==
    \A x \in Item : SameAsFound(x) /\ ~Kept(x) => digested[x] = Gone

\* The directories being collected are the plugin's own.
OwnFrame(d) ==
    d \in Item /\ SameAsFound(d) => \A y \in Up[d] : InOwn(y)
StackOfOwn == \A i \in DOMAIN stack : OwnFrame(stack[i].dir)

TreeInv ==
    /\ DiskIsTyped /\ StackInPlace /\ HeldIsFound /\ NothingElse
    /\ \A x \in Item : Owes(x) => IsTold(x) \/ WaitedFor(x) \/ current.path = x

(***************************************************************************)
(* Paths.                                                                  *)
(***************************************************************************)
LEMMA UpHas ==
  ASSUME NEW x \in Item \cup {PluginRoot}
  PROVE  /\ Up[x] \subseteq Item /\ (x \in Item => x \in Up[x])
         /\ \A y \in Up[x] : Up[y] \subseteq Up[x]
         /\ \A y \in Up[x] : Within[y] \in Item => Within[y] \in Up[x]
<1>1. Up[x] \subseteq Item /\ (x \in Item => x \in Up[x])
  BY DEF Up
<1>2. ASSUME NEW y \in Up[x], NEW z \in Up[y] PROVE z \in Up[x]
  <2>1. y \in Item /\ z \in Item
    BY <1>1 DEF Up
  <2>2. \A c \in Ascending : x \in c => z \in c
    BY <2>1 DEF Up
  <2> QED BY <2>1, <2>2 DEF Up
<1>3. ASSUME NEW y \in Up[x], Within[y] \in Item PROVE Within[y] \in Up[x]
  <2>1. y \in Item
    BY <1>1
  <2>2. \A c \in Ascending : x \in c => Within[y] \in c
    BY <2>1 DEF Up, Ascending
  <2> QED BY <1>3, <2>2 DEF Up
<1> QED BY <1>1, <1>2, <1>3

LEMMA UpOfRoot == Up[PluginRoot] = {}
<1>1. {PluginRoot} \in Ascending
  BY ItemsAreNested DEF Ascending
<1>2. \A y \in Item : y \notin {PluginRoot}
  BY ItemsAreNested
<1> QED BY <1>1, <1>2 DEF Up

\* A path lies in itself, its directory, and where that lies.
LEMMA UpSplits ==
  ASSUME NEW x \in Item
  PROVE  Up[x] = {x} \cup Up[Within[x]]
<1> DEFINE c == {x, PluginRoot} \cup Up[Within[x]]
<1>1. Within[x] \in Item \cup {PluginRoot}
  BY ItemsAreNested
<1>2. {x} \cup Up[Within[x]] \subseteq Up[x]
  <2>1. CASE Within[x] \in Item
    BY <2>1, UpHas
  <2>2. CASE Within[x] = PluginRoot
    BY <2>2, UpHas, UpOfRoot
  <2> QED BY <1>1, <2>1, <2>2
<1>3. c \in Ascending
  <2>1. Up[Within[x]] \subseteq Item
    BY <1>1, UpHas
  <2>2. c \subseteq Item \cup {PluginRoot}
    BY <2>1
  <2>3. ASSUME NEW y \in c \cap Item PROVE Within[y] \in c
    <3>1. Within[y] \in Item \cup {PluginRoot}
      BY ItemsAreNested
    <3>2. CASE y = x
      <4>1. Within[x] \in Item => Within[x] \in Up[Within[x]]
        BY UpHas
      <4> QED BY <1>1, <3>2, <4>1
    <3>3. CASE y # x
      <4>1. y \in Up[Within[x]]
        BY <2>3, <3>3, ItemsAreNested
      <4> QED BY <1>1, <3>1, <4>1, UpHas
    <3> QED BY <3>2, <3>3
  <2> QED BY <2>2, <2>3 DEF Ascending
<1>4. ASSUME NEW y \in Up[x] PROVE y \in {x} \cup Up[Within[x]]
  <2>1. y \in Item /\ y \in c
    BY <1>3 DEF Up
  <2> QED BY <2>1, ItemsAreNested
<1> QED BY <1>2, <1>4

\* No path lies below itself: those that had it above them would never come
\* to the root.
LEMMA UpIs ==
  ASSUME NEW x \in Item
  PROVE  /\ Within[x] \in Item \cup {PluginRoot}
         /\ Up[x] = {x} \cup Up[Within[x]] /\ x \notin Up[Within[x]]
<1>1. Within[x] \in Item \cup {PluginRoot} /\ Up[x] = {x} \cup Up[Within[x]]
  BY UpSplits, ItemsAreNested
<1>2. ASSUME x \in Up[Within[x]] PROVE FALSE
  <2> DEFINE c == {y \in Item : x \in Up[y]}
  <2>1. ASSUME NEW y \in c PROVE Within[y] \in c
    <3>1. Within[y] \in Item \cup {PluginRoot} /\ x \in Up[Within[y]]
      BY <1>2, UpSplits, ItemsAreNested
    <3> QED BY <3>1, UpOfRoot
  <2>2. c \in Ascending
    BY <2>1 DEF Ascending
  <2>3. x \in c
    BY UpHas
  <2> QED BY <2>2, <2>3, ItemsAreNested
<1> QED BY <1>1, <1>2

\* Between a path and a directory it lies below there is an entry of the
\* directory.
LEMMA UpChild ==
  ASSUME NEW x \in Item, NEW d \in Item \cup {PluginRoot}, Below(x, d)
  PROVE  \E y \in Up[x] : Within[y] = d
<1> DEFINE c == (Up[x] \cup {PluginRoot}) \ {d}
<1> SUFFICES ASSUME \A y \in Up[x] : Within[y] # d PROVE FALSE
  OBVIOUS
<1>1. Up[x] \subseteq Item /\ x \in Up[x]
  BY UpHas
<1>2. d # x
  BY ItemsAreNested DEF Below
<1>3. c \in Ascending
  <2>1. ASSUME NEW y \in c \cap Item PROVE Within[y] \in c
    <3>1. y \in Up[x] /\ Within[y] \in Item \cup {PluginRoot}
      BY <2>1, ItemsAreNested
    <3>2. Within[y] \in Up[x] \cup {PluginRoot}
      BY <3>1, UpHas
    <3> QED BY <3>1, <3>2
  <2>2. c \subseteq Item \cup {PluginRoot}
    BY <1>1
  <2> QED BY <2>1, <2>2 DEF Ascending
<1>4. x \in c
  BY <1>1, <1>2
<1>5. CASE d = PluginRoot
  BY <1>3, <1>4, <1>5, ItemsAreNested
<1>6. CASE d \in Up[x] \ {x}
  BY <1>3, <1>4, <1>6 DEF Up
<1> QED BY <1>5, <1>6 DEF Below

\* No two paths lie in one another.
LEMMA UpOneWay ==
  ASSUME NEW x \in Item, NEW y \in Up[x], x \in Up[y]
  PROVE  x = y
<1> SUFFICES ASSUME x # y PROVE FALSE
  OBVIOUS
<1>1. y \in Up[Within[x]] /\ x \notin Up[Within[x]]
  BY UpIs
<1>2. Up[y] \subseteq Up[Within[x]]
  BY <1>1, UpHas, ItemsAreNested
<1> QED BY <1>1, <1>2

LEMMA UpIsFinite ==
  ASSUME NEW x \in Item \cup {PluginRoot}
  PROVE  IsFiniteSet(Up[x]) /\ Cardinality(Up[x]) \in Nat
<1>1. IsFiniteSet(Up[x])
  BY UpHas, PluginsAreFiles, FS_Subset
<1> QED BY <1>1, FS_CardinalityType

\* An entry is one deeper than its directory, and what lies below that no
\* less.
LEMMA UpDepth ==
  ASSUME NEW y \in Item
  PROVE  /\ Cardinality(Up[y]) = Cardinality(Up[Within[y]]) + 1
         /\ \A x \in Item :
               y \in Up[x] => Cardinality(Up[y]) <= Cardinality(Up[x])
<1>1. Up[y] = Up[Within[y]] \cup {y} /\ y \notin Up[Within[y]]
  BY UpIs
<1>2. Cardinality(Up[y]) = Cardinality(Up[Within[y]]) + 1
  <2>1. IsFiniteSet(Up[Within[y]])
    BY UpIsFinite, ItemsAreNested
  <2> QED BY <1>1, <2>1, FS_AddElement
<1>3. ASSUME NEW x \in Item, y \in Up[x]
      PROVE  Cardinality(Up[y]) <= Cardinality(Up[x])
  BY <1>3, UpHas, UpIsFinite, FS_Subset
<1> QED BY <1>2, <1>3

(***************************************************************************)
(* Repositories.                                                           *)
(***************************************************************************)
LEMMA PartIs ==
  ASSUME NEW git \in Item, NameOf[git] = ".git",
         NEW name \in GitFiles \cup {"hooks"}
  PROVE  /\ Part(git, name) \in Item
         /\ Within[Part(git, name)] = git /\ NameOf[Part(git, name)] = name
         /\ \A y \in Item : Within[y] = git /\ NameOf[y] = name =>
                               y = Part(git, name)
<1>1. PICK x \in Item :
        {y \in Item : Within[y] = git /\ NameOf[y] = name} = {x}
  BY GitHasItsParts
<1>2. \A y \in Item : (Within[y] = git /\ NameOf[y] = name) <=> y = x
  BY <1>1
<1>3. /\ Part(git, name) \in Item
      /\ Within[Part(git, name)] = git /\ NameOf[Part(git, name)] = name
  BY <1>2 DEF Part
<1> QED BY <1>2, <1>3

\* An entry of a directory outside of repositories begins one, or not.
LEMMA GitOfEntry ==
  ASSUME NEW c \in Item, GitOf(Within[c]) = {}
  PROVE  /\ NameOf[c] = ".git" => IsRepository(c)
         /\ NameOf[c] # ".git" => GitOf(c) = {}
<1>1. Up[c] = {c} \cup Up[Within[c]] /\ c \in Item
  BY UpIs
<1> QED BY <1>1 DEF GitOf, IsRepository

\* What an answer is owed for in a repository is a part of it or a hook.
LEMMA OwedInRepository ==
  ASSUME NEW x \in Item, Covered(x) \/ IsAPart(x),
         NEW git \in Up[x] \ {x}, NameOf[git] = ".git"
  PROVE  \/ Within[x] = git /\ NameOf[x] \in GitFiles \cup {"hooks"}
         \/ IsHook(x) /\ Within[Within[x]] = git
<1>1. git \in GitOf(x) /\ git \in Item /\ git # x
  BY UpHas DEF GitOf
<1>2. git \in Up[Within[x]]
  BY UpIs
<1>3. CASE IsRepository(Within[x]) /\ NameOf[x] \in GitFiles \cup {"hooks"}
  BY <1>1, <1>2, <1>3 DEF IsRepository, GitOf
<1>4. CASE IsHook(x)
  <2>1. /\ Within[x] \in Item /\ NameOf[Within[x]] = "hooks"
        /\ IsRepository(Within[Within[x]])
    BY <1>4 DEF IsHook, IsHooks
  <2>2. git \in Up[Within[Within[x]]]
    BY <1>2, <2>1, UpIs
  <2> QED BY <1>1, <1>4, <2>1, <2>2 DEF IsRepository, GitOf
<1>5. GitOf(x) # {} /\ ~IsRepository(x)
  BY <1>1 DEF IsRepository
<1> QED BY <1>3, <1>4, <1>5 DEF Covered, IsAPart, GitFiles

\* Above what an answer is owed for there are directories, all the way, and
\* only hooks may be elsewhere.
LEMMA AboveOwed ==
  ASSUME NEW x \in Item, OfTree(x), NEW y \in Up[x] \ {x}
  PROVE  Present(y) /\ (~IsHooks(y) => Holding(y, "dir"))
<1>1. y \in Up[Within[x]] /\ y \in Item
  BY UpIs, UpHas
<1>2. ASSUME NEW z \in Up[y] PROVE z \in Up[x] \ {x}
  <2>1. z \in Up[x]
    BY UpHas
  <2>2. z # x
    BY UpOneWay
  <2> QED BY <2>1, <2>2
<1>3. \A z \in Up[y] : InOwn(z)
  BY <1>2 DEF OfTree
<1>4. InOwn(y) /\ Present(y)
  BY <1>1, <1>3, UpHas DEF InOwn, LeadsOn, Present, Reachable
<1> QED BY <1>4 DEF InOwn, Holding

(***************************************************************************)
(* The stack.  What is waited for is so in a frame that stays, or in the   *)
(* first one.                                                              *)
(***************************************************************************)
LEMMA LeaveMoves ==
  ASSUME StackInPlace, stack # <<>>, Leave
  PROVE  /\ StackInPlace'
         /\ \A x : WaitedFor(x) => Waits(stack[1], x) \/ WaitedFor(x)'
<1>1. PICK n \in Nat : n = Len(stack)
  BY LenProperties DEF StackInPlace
<1>2. /\ stack' \in Seq(StackFrame) /\ n # 0
      /\ DOMAIN stack = 1..n /\ DOMAIN stack' = 1..(n - 1)
      /\ \A i \in 1..(n - 1) : stack'[i] = stack[i + 1]
  <2>1. n # 0 /\ DOMAIN stack = 1..n
    BY <1>1, LenProperties, EmptySeq DEF StackInPlace
  <2>2. /\ Tail(stack) \in Seq(StackFrame) /\ Len(Tail(stack)) = n - 1
        /\ \A i \in 1..(n - 1) : Tail(stack)[i] = stack[i + 1]
    BY <1>1, HeadTailProperties DEF StackInPlace
  <2> QED BY <2>1, <2>2, LenProperties DEF Leave
<1>3. ASSUME NEW i \in DOMAIN stack' PROVE InPlace(stack'[i])
  <2>1. i + 1 \in DOMAIN stack /\ stack'[i] = stack[i + 1]
    BY <1>2
  <2> QED BY <2>1 DEF StackInPlace
<1>4. ASSUME NEW x, NEW i \in DOMAIN stack, Waits(stack[i], x), i # 1
      PROVE  WaitedFor(x)'
  <2>1. i - 1 \in 1..(n - 1) /\ (i - 1) + 1 = i
    BY <1>2, <1>4
  <2>2. i - 1 \in DOMAIN stack' /\ stack'[i - 1] = stack[i]
    BY <1>2, <2>1
  <2> QED BY <1>4, <2>2 DEF WaitedFor
<1>5. StackInPlace'
  BY <1>2, <1>3 DEF StackInPlace
<1>6. ASSUME NEW x, WaitedFor(x) PROVE Waits(stack[1], x) \/ WaitedFor(x)'
  <2>1. PICK i \in DOMAIN stack : Waits(stack[i], x)
    BY <1>6 DEF WaitedFor
  <2> QED BY <1>4, <2>1
<1> QED BY <1>5, <1>6

LEMMA RestMoves ==
  ASSUME StackInPlace, stack # <<>>, NEW f, InPlace(f),
         stack' = [stack EXCEPT ![1] = f]
  PROVE  /\ StackInPlace'
         /\ \A x : WaitedFor(x) /\ (Waits(stack[1], x) => Waits(f, x))
                      => WaitedFor(x)'
<1>1. PICK n \in Nat : n = Len(stack)
  BY LenProperties DEF StackInPlace
<1>2. n # 0 /\ DOMAIN stack = 1..n /\ 1 \in 1..n
  BY <1>1, LenProperties, EmptySeq DEF StackInPlace
<1>3. /\ stack' \in Seq(StackFrame) /\ DOMAIN stack' = 1..n
      /\ stack'[1] = f /\ \A i \in 1..n : i # 1 => stack'[i] = stack[i]
  <2>1. f \in StackFrame
    BY DEF InPlace
  <2> QED BY <1>1, <1>2, <2>1, ExceptSeq DEF StackInPlace
<1>4. StackInPlace'
  BY <1>2, <1>3 DEF StackInPlace
<1>5. ASSUME NEW x, WaitedFor(x), Waits(stack[1], x) => Waits(f, x)
      PROVE  WaitedFor(x)'
  <2>1. PICK i \in DOMAIN stack : Waits(stack[i], x)
    BY <1>5 DEF WaitedFor
  <2> QED BY <1>2, <1>3, <1>5, <2>1 DEF WaitedFor
<1> QED BY <1>4, <1>5

LEMMA OneBefore ==
  ASSUME NEW S, NEW f \in S, NEW s \in Seq(S)
  PROVE  /\ <<f>> \o s \in Seq(S) /\ Len(<<f>> \o s) = Len(s) + 1
         /\ (<<f>> \o s)[1] = f
         /\ \A i \in 1..Len(s) : (<<f>> \o s)[i + 1] = s[i]
<1>1. <<f>> \in Seq(S) /\ Len(<<f>>) = 1 /\ <<f>>[1] = f
  OBVIOUS
<1>2. PICK o : o = <<f>>
  OBVIOUS
<1>3. PICK n \in Nat : n = Len(s)
  BY LenProperties
<1>4. /\ o \o s \in Seq(S) /\ Len(o \o s) = Len(o) + Len(s)
      /\ \A i \in 1..(Len(o) + Len(s)) :
            (o \o s)[i] = IF i <= Len(o) THEN o[i] ELSE s[i - Len(o)]
  BY <1>1, <1>2, ConcatProperties
<1>5. Len(o) = 1 /\ o[1] = f
  BY <1>1, <1>2
<1>6. /\ o \o s \in Seq(S) /\ Len(o \o s) = n + 1 /\ (o \o s)[1] = f
      /\ \A i \in 1..n : (o \o s)[i + 1] = s[i]
  <2>1. Len(o \o s) = 1 + n
        /\ \A i \in 1..(1 + n) :
              (o \o s)[i] = IF i <= 1 THEN o[i] ELSE s[i - 1]
    BY <1>3, <1>4, <1>5
  <2>2. \A i \in 1..n : i + 1 \in 1..(1 + n) /\ ~(i + 1 <= 1)
                        /\ (i + 1) - 1 = i
    OBVIOUS
  <2>3. 1 \in 1..(1 + n)
    OBVIOUS
  <2> QED BY <1>4, <1>5, <2>1, <2>2, <2>3
<1> QED BY <1>2, <1>3, <1>6

LEMMA EnterMoves ==
  ASSUME StackInPlace, stack # <<>>, NEW f, InPlace(f), NEW g, InPlace(g),
         stack' = <<g>> \o [stack EXCEPT ![1] = f]
  PROVE  /\ StackInPlace'
         /\ \A x : WaitedFor(x) /\ (Waits(stack[1], x) =>
                                       Waits(f, x) \/ Waits(g, x))
                      => WaitedFor(x)'
<1>1. PICK n \in Nat : n = Len(stack)
  BY LenProperties DEF StackInPlace
<1>2. n # 0 /\ DOMAIN stack = 1..n /\ 1 \in 1..n
  BY <1>1, LenProperties, EmptySeq DEF StackInPlace
<1>3. PICK s : s = [stack EXCEPT ![1] = f]
  OBVIOUS
<1>4. /\ s \in Seq(StackFrame) /\ Len(s) = n
      /\ s[1] = f /\ \A i \in 1..n : i # 1 => s[i] = stack[i]
  <2>1. f \in StackFrame
    BY DEF InPlace
  <2> QED BY <1>1, <1>2, <1>3, <2>1, ExceptSeq, LenProperties
          DEF StackInPlace
<1>5. /\ stack' \in Seq(StackFrame) /\ Len(stack') = n + 1 /\ stack'[1] = g
      /\ \A i \in 1..n : stack'[i + 1] = s[i]
  <2>1. g \in StackFrame /\ stack' = <<g>> \o s
    BY <1>3 DEF InPlace
  <2>2. /\ <<g>> \o s \in Seq(StackFrame) /\ Len(<<g>> \o s) = Len(s) + 1
        /\ (<<g>> \o s)[1] = g
        /\ \A i \in 1..Len(s) : (<<g>> \o s)[i + 1] = s[i]
    BY <1>4, <2>1, OneBefore
  <2> QED BY <1>4, <2>1, <2>2
<1>6. DOMAIN stack' = 1..(n + 1)
  BY <1>5, LenProperties
<1>7. ASSUME NEW i \in DOMAIN stack' PROVE InPlace(stack'[i])
  <2>1. i = 1 \/ i = 2 \/ (i - 1 \in 1..n /\ i - 1 # 1 /\ (i - 1) + 1 = i)
    BY <1>6
  <2>2. i = 2 => stack'[2] = s[1] /\ 1 + 1 = 2
    BY <1>2, <1>5
  <2> QED BY <1>2, <1>4, <1>5, <2>1, <2>2 DEF StackInPlace
<1>8. StackInPlace'
  BY <1>5, <1>7 DEF StackInPlace
<1>9. ASSUME NEW x, WaitedFor(x),
             Waits(stack[1], x) => Waits(f, x) \/ Waits(g, x)
      PROVE  WaitedFor(x)'
  <2>1. PICK i \in DOMAIN stack : Waits(stack[i], x)
    BY <1>9 DEF WaitedFor
  <2>2. /\ 1 \in DOMAIN stack' /\ stack'[1] = g
        /\ i + 1 \in DOMAIN stack' /\ stack'[i + 1] = s[i]
        /\ s[i] = IF i = 1 THEN f ELSE stack[i]
    BY <1>2, <1>4, <1>5, <1>6
  <2>3. Waits(g, x) \/ Waits(s[i], x)
    BY <1>9, <2>1, <2>2
  <2> QED BY <2>2, <2>3 DEF WaitedFor
<1> QED BY <1>8, <1>9

(***************************************************************************)
(* What stays so while nothing changes on disk.                            *)
(***************************************************************************)
LEMMA WorldStays ==
  ASSUME UNCHANGED copy
  PROVE  /\ \A x : Present(x)' = Present(x) /\ SameAsFound(x)' = SameAsFound(x)
         /\ \A x, type : Holding(x, type)' = Holding(x, type)
         /\ \A x : Kept(x)' = Kept(x) /\ Owes(x)' = Owes(x)
         /\ \A x : Covered(x)' = Covered(x) /\ OfTree(x)' = OfTree(x)
         /\ \A x : WholeEntry(x)' = WholeEntry(x)
         /\ \A l, x : AccountsFor(l, x)' = AccountsFor(l, x)
<1>1. disk' = disk /\ touched' = touched /\ caps' = caps
  BY DEF copy
<1>2. \A x : Present(x)' = Present(x) /\ SameAsFound(x)' = SameAsFound(x)
  BY <1>1 DEF Present, Reachable, LeadsOn, SameAsFound
<1>3. \A x, type : Holding(x, type)' = Holding(x, type)
  BY <1>1, <1>2 DEF Holding
<1>4. /\ \A x : Covered(x)' = Covered(x) /\ OfTree(x)' = OfTree(x)
      /\ \A x : IsAPart(x)' = IsAPart(x)
  <2>1. \A x : OfTree(x)' = OfTree(x)
    BY <1>1 DEF OfTree, InOwn, LeadsOn
  <2> QED BY <1>3, <2>1 DEF Covered, IsAPart
<1>5. \A x : Kept(x)' = Kept(x) /\ Owes(x)' = Owes(x)
  BY <1>2, <1>4 DEF Kept, Owes
<1>6. \A x : WholeEntry(x)' = WholeEntry(x)
  BY <1>1 DEF WholeEntry
<1>7. \A l, x : AccountsFor(l, x)' = AccountsFor(l, x)
  <2>1. \A x : Crowded(x)' = Crowded(x)
    BY <1>1, <1>2 DEF Crowded
  <2>2. \A d : Listable(d)' = Listable(d)
    BY <1>1, <1>2 DEF Listable, LeadsOn
  <2> QED BY <1>1, <1>3, <2>1, <2>2 DEF AccountsFor, Deep
<1> QED BY <1>2, <1>3, <1>4, <1>5, <1>6, <1>7

\* What was told stays told.
LEMMA TellingStays ==
  ASSUME UNCHANGED copy, limitations \subseteq limitations', NEW x \in Item,
         IsTold(x), digested'[x] = digested[x]
  PROVE  IsTold(x)'
<1>1. /\ Present(x)' = Present(x) /\ WholeEntry(x)' = WholeEntry(x)
      /\ \A l : AccountsFor(l, x)' = AccountsFor(l, x)
  BY WorldStays
<1> QED BY <1>1 DEF IsTold, LossesOfPart

\* A limitation that tells of a path.
LEMMA LimitTells ==
  ASSUME UNCHANGED copy, NEW l, l \in limitations', NEW x \in Item,
         Owes(x), Present(x) => AccountsFor(l, x),
         ~Present(x) => l \in LossesOfPart(x)
  PROVE  IsTold(x)'
<1>1. Present(x)' = Present(x) /\ AccountsFor(l, x)' = AccountsFor(l, x)
  BY WorldStays
<1> QED BY <1>1 DEF IsTold, LossesOfPart

Overall == {"file_limit", "aggregate_byte_limit", "collection_time_budget",
            "collection_interrupted"}

LEMMA GeneralTells ==
  ASSUME UNCHANGED copy, NEW l \in Overall, l \in limitations',
         NEW x \in Item, Owes(x)
  PROVE  IsTold(x)'
<1>1. AccountsFor(l, x) /\ l \in LossesOfPart(x)
  BY DEF AccountsFor, Overall, LossesOfPart, AnyLoss
<1> QED BY <1>1, LimitTells

LEMMA HaltIs ==
  ASSUME DiskIsTyped, Halt # "no"
  PROVE  Halt \in Overall
BY DEF Halt, DiskIsTyped, Overall

(***************************************************************************)
(* A step in general: it may put one path in hand, or record it.           *)
(***************************************************************************)
LEMMA StepTells ==
  ASSUME TreeInv, UNCHANGED copy, DiskIsTyped', StackInPlace', HeldIsFound',
         limitations \subseteq limitations', NEW c,
         \A x \in Item : x # c => digested'[x] = digested[x],
         c \in Item /\ SameAsFound(c) /\ ~Kept(c) => digested'[c] = Gone,
         c \in Item /\ Owes(c) =>
            IsTold(c)' \/ WaitedFor(c)' \/ current'.path = c,
         \A x \in Item : x # c /\ Owes(x) /\ WaitedFor(x) =>
            IsTold(x)' \/ WaitedFor(x)',
         \A x \in Item : x # c /\ current.path = x => current'.path = x
  PROVE  TreeInv'
<1>1. ASSUME NEW x \in Item, Owes(x)'
      PROVE  IsTold(x)' \/ WaitedFor(x)' \/ current'.path = x
  <2>1. Owes(x)
    BY <1>1, WorldStays
  <2>2. CASE x # c
    <3>1. IsTold(x) \/ WaitedFor(x) \/ current.path = x
      BY <2>1 DEF TreeInv
    <3>2. IsTold(x) => IsTold(x)'
      BY <2>2, TellingStays
    <3> QED BY <2>1, <2>2, <3>1, <3>2
  <2> QED BY <2>1, <2>2
<1>2. ASSUME NEW x \in Item, SameAsFound(x)', ~Kept(x)'
      PROVE  digested'[x] = Gone
  <2>1. SameAsFound(x) /\ ~Kept(x)
    BY <1>2, WorldStays
  <2> QED BY <2>1 DEF TreeInv, NothingElse
<1> QED BY <1>1, <1>2 DEF TreeInv, NothingElse

\* A step that only moves on.
LEMMA WalkTells ==
  ASSUME TreeInv, UNCHANGED <<copy, current, digested, stopped>>,
         limitations \subseteq limitations', StackInPlace',
         \A x \in Item : Owes(x) /\ WaitedFor(x) =>
            IsTold(x)' \/ WaitedFor(x)'
  PROVE  TreeInv'
<1>1. ASSUME NEW x \in Item, Owes(x)'
      PROVE  IsTold(x)' \/ WaitedFor(x)' \/ current'.path = x
  <2>1. Owes(x)
    BY <1>1, WorldStays
  <2>2. IsTold(x) \/ WaitedFor(x) \/ current.path = x
    BY <2>1 DEF TreeInv
  <2>3. IsTold(x) => IsTold(x)'
    BY TellingStays
  <2> QED BY <2>1, <2>2, <2>3
<1>2. NothingElse'
  BY WorldStays DEF TreeInv, NothingElse
<1>3. HeldIsFound'
  <2>1. HeldIsFound /\ current' = current
    BY DEF TreeInv
  <2>2. \A x : AsOnDisk(x)' = AsOnDisk(x) /\ SameAsFound(x)' = SameAsFound(x)
    <3>1. disk' = disk
      BY DEF copy
    <3> QED BY <2>1, <3>1, WorldStays DEF AsOnDisk
  <2> QED BY <2>1, <2>2 DEF HeldIsFound, NoneCurrent
<1>4. DiskIsTyped'
  BY DEF TreeInv, DiskIsTyped, copy
<1> QED BY <1>1, <1>2, <1>3, <1>4 DEF TreeInv

\* The first frame, and the entries it has left.
LEMMA FirstFrame ==
  ASSUME StackInPlace, stack # <<>>
  PROVE  /\ InPlace(stack[1]) /\ stack[1] \in StackFrame
         /\ \A c \in stack[1].rest :
               /\ c \in Item /\ Within[c] = stack[1].dir
               /\ stack[1].kind = "tree" => GitOf(Within[c]) = {}
<1>1. 1 \in DOMAIN stack
  BY LenProperties, EmptySeq DEF StackInPlace
<1>2. InPlace(stack[1])
  BY <1>1 DEF StackInPlace
<1> QED BY <1>2 DEF InPlace, StackFrame

\* Moving on from an entry.
LEMMA AdvanceMoves ==
  ASSUME StackInPlace, stack # <<>>, NEW c, Advance(c)
  PROVE  /\ StackInPlace'
         /\ \A x \in Item : WaitedFor(x) =>
               \/ WaitedFor(x)'
               \/ stack[1].kind = "tree" /\ c \in Up[x]
               \/ stack[1].kind # "tree" /\ x = c
<1>1. PICK f : f = [stack[1] EXCEPT !.rest = @ \ {c}]
  OBVIOUS
<1>2. stack' = [stack EXCEPT ![1] = f]
  BY <1>1, FirstFrame DEF Advance, StackInPlace
<1>3. /\ f \in StackFrame /\ f.rest = stack[1].rest \ {c}
      /\ f.dir = stack[1].dir /\ f.kind = stack[1].kind
      /\ f.opened = stack[1].opened /\ f.depth = stack[1].depth
  BY <1>1, FirstFrame DEF StackFrame
<1>4. InPlace(f)
  BY <1>3, FirstFrame DEF InPlace
<1>5. /\ StackInPlace'
      /\ \A x : WaitedFor(x) /\ (Waits(stack[1], x) => Waits(f, x))
                   => WaitedFor(x)'
  BY <1>2, <1>4, RestMoves
<1>6. ASSUME NEW x \in Item, Waits(stack[1], x)
      PROVE  \/ Waits(f, x)
             \/ stack[1].kind = "tree" /\ c \in Up[x]
             \/ stack[1].kind # "tree" /\ x = c
  BY <1>3, <1>6, FirstFrame DEF Waits, InPlace
<1> QED BY <1>5, <1>6

\* Entering a directory.
LEMMA EnteringMoves ==
  ASSUME StackInPlace, stack # <<>>, NEW c, NEW g, InPlace(g), Enters(c, g),
         stack[1].kind = "tree"
  PROVE  /\ StackInPlace'
         /\ \A x \in Item : WaitedFor(x) /\ (c \in Up[x] => Waits(g, x))
                              => WaitedFor(x)'
<1>1. PICK f : f = [stack[1] EXCEPT !.rest = @ \ {c}]
  OBVIOUS
<1>2. stack' = <<g>> \o [stack EXCEPT ![1] = f]
  BY <1>1, FirstFrame DEF Enters, StackInPlace
<1>3. /\ f \in StackFrame /\ f.rest = stack[1].rest \ {c}
      /\ f.dir = stack[1].dir /\ f.kind = stack[1].kind
      /\ f.opened = stack[1].opened /\ f.depth = stack[1].depth
  BY <1>1, FirstFrame DEF StackFrame
<1>4. InPlace(f)
  BY <1>3, FirstFrame DEF InPlace
<1>5. /\ StackInPlace'
      /\ \A x : WaitedFor(x) /\ (Waits(stack[1], x) =>
                                    Waits(f, x) \/ Waits(g, x))
                   => WaitedFor(x)'
  BY <1>2, <1>4, EnterMoves
<1>6. ASSUME NEW x \in Item, Waits(stack[1], x)
      PROVE  Waits(f, x) \/ c \in Up[x]
  BY <1>3, <1>6, FirstFrame DEF Waits, InPlace
<1> QED BY <1>5, <1>6

(***************************************************************************)
(* Directories.                                                            *)
(***************************************************************************)
\* The entry towards a path that is owed is there, outside of repositories.
LEMMA EntryIsThere ==
  ASSUME NEW x \in Item, Owes(x), NEW y \in Up[x], GitOf(Within[y]) = {}
  PROVE  Present(y)
<1>1. CASE y # x
  <2>1. OfTree(x)
    BY DEF Owes, Kept, IsAPart
  <2> QED BY <1>1, <2>1, AboveOwed
<1>2. CASE y = x
  BY <1>2 DEF Owes, Kept, IsAPart, IsRepository
<1> QED BY <1>1, <1>2

\* A directory that is not listed explains what lies below it.
LEMMA UnlistedTells ==
  ASSUME TreeInv, caps \in CapSets, stack # <<>>, stack[1].kind = "tree",
         NEW why, why = Unlistable(stack[1].dir, stack[1].depth),
         why # "no", Limit(why), UNCHANGED copy,
         NEW x \in Item, Owes(x), Below(x, stack[1].dir)
  PROVE  IsTold(x)'
<1> DEFINE d == stack[1].dir
<1>1. /\ InPlace(stack[1]) /\ d \in Item \cup {PluginRoot} /\ GitOf(d) = {}
      /\ stack[1].depth = Cardinality(Up[d])
  BY FirstFrame DEF TreeInv, InPlace, StackFrame
<1>2. PICK y \in Up[x] : Within[y] = d
  BY <1>1, UpChild
<1>3. y \in Item
  BY <1>2, UpHas
<1>4. why \in limitations'
  BY DEF Limit
<1>5. CASE why \in Overall
  BY <1>4, <1>5, GeneralTells
<1>6. CASE why = "tree_depth_limit"
  <2>1. stack[1].depth > caps.depth
    BY <1>6 DEF Unlistable, TreeInv, DiskIsTyped
  <2>2. /\ Cardinality(Up[y]) = Cardinality(Up[d]) + 1
        /\ Cardinality(Up[y]) <= Cardinality(Up[x])
    BY <1>2, <1>3, UpDepth
  <2>3. /\ Cardinality(Up[d]) \in Nat /\ Cardinality(Up[x]) \in Nat
        /\ caps.depth \in Nat
    BY <1>1, UpIsFinite, LimitsAreNumbers
  <2>4. Deep(x)
    BY <1>1, <2>1, <2>2, <2>3 DEF Deep
  <2> QED BY <1>4, <1>6, <2>4, LimitTells
          DEF AccountsFor, LossesOfPart, AnyLoss
<1>7. CASE why = "unreadable_directory"
  <2>1. ~Listable(d)
    BY <1>7 DEF Unlistable, TreeInv, DiskIsTyped
  <2>2. d \in Up[x] \ {x}
    BY <2>1 DEF Listable, Below
  <2> QED BY <1>4, <1>7, <2>1, <2>2, LimitTells
          DEF AccountsFor, LossesOfPart, AnyLoss
<1>8. CASE why = "directory_entry_limit"
  <2> DEFINE some == {z \in Item : Within[z] = Within[y]
                                     /\ (Present(z) \/ z \in touched)}
  <2>1. Cardinality(In(d)) > caps.listed
    BY <1>8 DEF Unlistable, TreeInv, DiskIsTyped
  <2>2. In(d) \subseteq some /\ some \subseteq Item
    BY <1>2 DEF In
  <2>3. /\ IsFiniteSet(some) /\ IsFiniteSet(In(d))
        /\ Cardinality(In(d)) <= Cardinality(some)
    BY <2>2, FS_Subset, PluginsAreFiles
  <2>4. /\ Cardinality(In(d)) \in Nat /\ Cardinality(some) \in Nat
        /\ caps.listed \in Nat
    BY <2>3, FS_CardinalityType, LimitsAreNumbers
  <2>5. Cardinality(some) > caps.listed
    BY <2>1, <2>3, <2>4
  <2>6. Crowded(x)
    BY <1>2, <2>5 DEF Crowded
  <2> QED BY <1>4, <1>8, <2>6, LimitTells
          DEF AccountsFor, LossesOfPart, AnyLoss
<1>9. why \in Overall \cup {"tree_depth_limit", "unreadable_directory",
                            "directory_entry_limit"}
  BY DEF Unlistable, Overall, TreeInv, DiskIsTyped
<1> QED BY <1>5, <1>6, <1>7, <1>8, <1>9

LEMMA CollectDirTells ==
  TreeInv /\ caps \in CapSets /\ CollectDir => TreeInv'
<1> SUFFICES ASSUME TreeInv, caps \in CapSets, CollectDir PROVE TreeInv'
  OBVIOUS
<1> DEFINE d == stack[1].dir
<1>1. PICK why : why = Unlistable(d, stack[1].depth)
  OBVIOUS
<1>2. /\ stack # <<>> /\ stack[1].kind = "tree" /\ ~stack[1].opened
      /\ UNCHANGED <<copy, current, digested, stopped>> /\ StackInPlace
  BY DEF CollectDir, Collecting, TreeInv
<1>3. /\ InPlace(stack[1]) /\ stack[1] \in StackFrame
      /\ GitOf(d) = {} /\ stack[1].rest = {}
      /\ d \in Item \cup {PluginRoot}
  BY <1>2, FirstFrame DEF InPlace, StackFrame
<1>4. \A x \in Item : Waits(stack[1], x) => Below(x, d)
  BY <1>2, <1>3 DEF Waits
<1>5. CASE why = "no"
  <2>1. PICK f : f = [stack[1] EXCEPT !.opened = TRUE, !.rest = In(d)]
    OBVIOUS
  <2>2. stack' = [stack EXCEPT ![1] = f] /\ limitations' = limitations
    <3>1. stack' = [stack EXCEPT ![1].opened = TRUE, ![1].rest = In(d)]
          /\ limitations' = limitations
      BY <1>1, <1>5 DEF CollectDir
    <3> QED BY <1>2, <2>1, <3>1, FirstFrame DEF StackInPlace
  <2>3. /\ f \in StackFrame /\ f.rest = In(d) /\ f.dir = d
        /\ f.kind = "tree" /\ f.opened = TRUE
        /\ f.depth = stack[1].depth
    BY <1>2, <1>3, <2>1 DEF StackFrame, In
  <2>4. InPlace(f)
    BY <1>2, <1>3, <2>3 DEF InPlace, In
  <2>5. /\ StackInPlace'
        /\ \A x : WaitedFor(x) /\ (Waits(stack[1], x) => Waits(f, x))
                     => WaitedFor(x)'
    BY <1>2, <2>2, <2>4, RestMoves
  <2>6. ASSUME NEW x \in Item, Owes(x), Below(x, d) PROVE Waits(f, x)
    <3>1. PICK y \in Up[x] : Within[y] = d
      BY <1>3, <2>6, UpChild
    <3>2. y \in Item /\ Present(y)
      BY <1>3, <2>6, <3>1, EntryIsThere, UpHas
    <3>3. y \in In(d)
      BY <3>1, <3>2 DEF In
    <3> QED BY <2>3, <3>1, <3>3 DEF Waits
  <2> QED BY <1>2, <1>4, <2>2, <2>5, <2>6, WalkTells
<1>6. CASE why # "no"
  <2>1. Leave /\ Limit(why)
    BY <1>1, <1>6 DEF CollectDir
  <2>2. limitations \subseteq limitations'
    BY <2>1 DEF Limit
  <2>3. /\ StackInPlace'
        /\ \A x : WaitedFor(x) => Waits(stack[1], x) \/ WaitedFor(x)'
    BY <1>2, <2>1, LeaveMoves
  <2>4. ASSUME NEW x \in Item, Owes(x), Below(x, d) PROVE IsTold(x)'
    BY <1>1, <1>2, <1>6, <2>1, <2>4, UnlistedTells
  <2> QED BY <1>2, <1>4, <2>2, <2>3, <2>4, WalkTells
<1> QED BY <1>5, <1>6

LEMMA EndDirTells ==
  TreeInv /\ EndDir => TreeInv'
<1> SUFFICES ASSUME TreeInv, EndDir PROVE TreeInv'
  OBVIOUS
<1>1. /\ stack # <<>> /\ stack[1].kind \in {"tree", "hooks"}
      /\ stack[1].opened /\ Leave /\ StackInPlace
      /\ stack[1].rest # {} => Halt # "no"
      /\ IF stack[1].rest = {} THEN limitations' = limitations
         ELSE Limit(Halt)
      /\ UNCHANGED <<copy, current, digested, stopped>>
  BY DEF EndDir, Collecting, TreeInv
<1>2. /\ StackInPlace'
      /\ \A x : WaitedFor(x) => Waits(stack[1], x) \/ WaitedFor(x)'
  BY <1>1, LeaveMoves
<1>3. limitations \subseteq limitations'
  BY <1>1 DEF Limit
<1>4. ASSUME NEW x \in Item, Owes(x), Waits(stack[1], x) PROVE IsTold(x)'
  <2>1. stack[1].rest # {}
    BY <1>1, <1>4 DEF Waits
  <2>2. Halt \in Overall /\ Halt \in limitations'
    BY <1>1, <2>1, HaltIs DEF TreeInv, Limit
  <2> QED BY <1>1, <1>4, <2>2, GeneralTells
<1> QED BY <1>1, <1>2, <1>3, <1>4, WalkTells

(***************************************************************************)
(* Entries of a directory.                                                 *)
(***************************************************************************)
\* An entry of a directory that is collected is in the plugin's own.
LEMMA EntryIsOwn ==
  ASSUME StackInPlace, StackOfOwn, stack # <<>>, NEW c \in stack[1].rest,
         SameAsFound(c)
  PROVE  OfTree(c)
<1>1. c \in Item /\ Within[c] = stack[1].dir /\ 1 \in DOMAIN stack
  BY FirstFrame, LenProperties, EmptySeq DEF StackInPlace
<1>2. Up[c] \ {c} = Up[Within[c]] /\ Up[Within[c]] \subseteq Up[c]
  BY <1>1, UpIs
<1>3. Within[c] \in Item => SameAsFound(Within[c])
  BY <1>2 DEF SameAsFound
<1>4. Within[c] \in Item => \A y \in Up[Within[c]] : InOwn(y)
  BY <1>1, <1>3 DEF StackOfOwn, OwnFrame
<1> QED BY <1>1, <1>2, <1>4, UpIs, UpOfRoot DEF OfTree

\* What is looked at, and who is owed an answer at or below it.
LEMMA LookedIs ==
  ASSUME TreeInv, StackOfOwn, NEW c \in Item, Looking(c)
  PROVE  /\ stack # <<>> /\ stack[1].kind = "tree" /\ current = NoneCurrent
         /\ StackInPlace /\ c \in stack[1].rest
         /\ GitOf(Within[c]) = {} /\ Within[c] = stack[1].dir /\ ~IsHook(c)
         /\ NameOf[c] = ".git" => IsRepository(c)
         /\ NameOf[c] # ".git" => GitOf(c) = {}
         /\ SameAsFound(c) => OfTree(c)
         /\ \A x \in Item : Owes(x) /\ c \in Up[x] =>
               Present(c) /\ (x = c => Kept(c)) /\ (x # c => Holding(c, "dir"))
<1>1. /\ stack # <<>> /\ stack[1].kind = "tree" /\ current = NoneCurrent
      /\ StackInPlace /\ c \in stack[1].rest
  BY DEF Looking, Collecting, Child, Foremost, TreeInv
<1>2. GitOf(Within[c]) = {} /\ Within[c] = stack[1].dir
  BY <1>1, FirstFrame
<1>3. ~IsHook(c)
  <2> SUFFICES ASSUME IsHook(c) PROVE FALSE
    OBVIOUS
  <2>1. Within[c] \in Item /\ IsRepository(Within[Within[c]])
    BY DEF IsHook, IsHooks
  <2>2. Up[Within[Within[c]]] \subseteq Up[Within[c]]
    BY <2>1, UpIs
  <2> QED BY <1>2, <2>1, <2>2 DEF IsRepository, GitOf
<1>4. /\ NameOf[c] = ".git" => IsRepository(c)
      /\ NameOf[c] # ".git" => GitOf(c) = {}
  BY <1>2, GitOfEntry
<1>5. ASSUME NEW x \in Item, Owes(x), c \in Up[x]
      PROVE  Present(c) /\ (x = c => Kept(c)) /\ (x # c => Holding(c, "dir"))
  <2>1. Present(c)
    BY <1>2, <1>5, EntryIsThere
  <2>2. x = c => Kept(c)
    BY <1>5, <2>1 DEF Owes
  <2>3. x # c => Holding(c, "dir")
    <3>1. ~IsHooks(c)
      BY <1>2 DEF IsHooks, IsRepository
    <3>2. OfTree(x)
      BY <1>5 DEF Owes, Kept, IsAPart
    <3> QED BY <1>5, <3>1, <3>2, AboveOwed
  <2> QED BY <2>1, <2>2, <2>3
<1>6. SameAsFound(c) => OfTree(c)
  BY <1>1, EntryIsOwn
<1> QED BY <1>1, <1>2, <1>3, <1>4, <1>5, <1>6

LEMMA VanishedTells ==
  TreeInv /\ StackOfOwn /\ Vanished => TreeInv'
<1> SUFFICES ASSUME TreeInv, StackOfOwn, Vanished PROVE TreeInv'
  OBVIOUS
<1>1. PICK c \in Item :
        /\ Looking(c) /\ ~Present(c) /\ Limit("metadata_unavailable")
        /\ Advance(c)
        /\ UNCHANGED <<copy, current, totalBytes, digested, stopped>>
  BY DEF Vanished
<1>2. limitations \subseteq limitations'
  BY <1>1 DEF Limit
<1>3. /\ StackInPlace'
      /\ \A x \in Item : WaitedFor(x) =>
            \/ WaitedFor(x)'
            \/ stack[1].kind = "tree" /\ c \in Up[x]
            \/ stack[1].kind # "tree" /\ x = c
  BY <1>1, LookedIs, AdvanceMoves
<1>4. \A x \in Item : Owes(x) /\ WaitedFor(x) => WaitedFor(x)'
  BY <1>1, <1>3, LookedIs
<1> QED BY <1>1, <1>2, <1>3, <1>4, WalkTells

\* Nothing is in hand before and after.
LEMMA NothingHeld ==
  ASSUME TreeInv, current' = NoneCurrent
  PROVE  HeldIsFound'
BY DEF HeldIsFound, NoneCurrent

LEMMA DiskStands ==
  ASSUME TreeInv, UNCHANGED <<copy, stopped>>
  PROVE  DiskIsTyped'
BY DEF TreeInv, DiskIsTyped, copy

LEMMA LinkOrSpecialTells ==
  TreeInv /\ StackOfOwn /\ DOMAIN digested = Item /\ CollectLinkOrSpecial
     => TreeInv'
<1> SUFFICES ASSUME TreeInv, StackOfOwn, DOMAIN digested = Item,
                    CollectLinkOrSpecial
             PROVE  TreeInv'
  OBVIOUS
<1>1. PICK c \in Item :
        /\ Looking(c) /\ NameOf[c] # ".git" /\ Present(c)
        /\ disk[c].type \in {"link", "dirlink", "special"}
        /\ IF disk[c].type # "special"
           THEN /\ Record(c, "l", disk[c].mode, disk[c].body)
                /\ UNCHANGED limitations
           ELSE /\ Record(c, "x", disk[c].mode, <<>>)
                /\ Limit("special_file")
        /\ Advance(c)
  BY DEF CollectLinkOrSpecial
<1>2. UNCHANGED <<copy, current, stopped>> /\ current' = NoneCurrent
  BY <1>1, LookedIs DEF CollectLinkOrSpecial
<1>3. /\ StackInPlace'
      /\ \A x \in Item : WaitedFor(x) =>
            \/ WaitedFor(x)'
            \/ stack[1].kind = "tree" /\ c \in Up[x]
            \/ stack[1].kind # "tree" /\ x = c
  BY <1>1, LookedIs, AdvanceMoves
<1>4. limitations \subseteq limitations'
      /\ \A x \in Item : x # c => digested'[x] = digested[x]
  BY <1>1 DEF Limit, Record
<1>5. \A x \in Item : x # c /\ Owes(x) /\ WaitedFor(x) => WaitedFor(x)'
  BY <1>1, <1>3, LookedIs DEF Holding
<1>6. (SameAsFound(c) => Kept(c)) /\ GitOf(c) = {} /\ ~IsHook(c)
  BY <1>1, LookedIs DEF Kept, Covered
<1>7. ASSUME Owes(c) PROVE IsTold(c)'
  <2>1. CASE disk[c].type # "special"
    <3>1. WholeEntry(c) = [kind |-> "l", mode |-> disk[c].mode,
                           data |-> disk[c].body]
      BY <1>1, <1>6, <2>1 DEF WholeEntry
    <3>2. digested'[c] = WholeEntry(c)
      BY <1>1, <2>1, <3>1 DEF Record
    <3> QED BY <1>1, <1>2, <3>2, WorldStays DEF IsTold
  <2>2. CASE disk[c].type = "special"
    <3>1. "special_file" \in limitations'
      BY <1>1, <2>2 DEF Limit
    <3>2. AccountsFor("special_file", c)
      BY <1>1, <2>2 DEF AccountsFor, Holding
    <3> QED BY <1>1, <1>2, <1>7, <3>1, <3>2, LimitTells
  <2> QED BY <2>1, <2>2
<1>8. HeldIsFound' /\ DiskIsTyped'
  BY <1>2, NothingHeld, DiskStands
<1>9. \A x \in Item : current.path = x => current'.path = x
  BY <1>2
<1> QED BY <1>2, <1>3, <1>4, <1>5, <1>6, <1>7, <1>8, <1>9, StepTells

\* The frames that are entered.
LEMMA NewFrames ==
  ASSUME StackInPlace, stack # <<>>, stack[1].kind = "tree",
         NEW c \in stack[1].rest
  PROVE  /\ NameOf[c] = ".git" =>
               InPlace(Opened(c, "git", {Part(c, name) : name \in GitFiles}))
         /\ NameOf[c] # ".git" =>
               InPlace(Unopened(c, stack[1].depth + 1))
<1>1. /\ c \in Item /\ Within[c] = stack[1].dir /\ GitOf(Within[c]) = {}
      /\ stack[1].depth = Cardinality(Up[Within[c]])
      /\ stack[1].depth \in Nat
  BY FirstFrame DEF InPlace, StackFrame
<1>2. ASSUME NameOf[c] = ".git"
      PROVE  InPlace(Opened(c, "git", {Part(c, name) : name \in GitFiles}))
  <2> DEFINE rest == {Part(c, name) : name \in GitFiles}
             f == Opened(c, "git", rest)
  <2>1. \A y \in rest :
           y \in Item /\ Within[y] = c /\ NameOf[y] \in GitFiles
    BY <1>1, <1>2, PartIs
  <2>2. IsRepository(c)
    BY <1>1, <1>2, GitOfEntry
  <2> HIDE DEF rest
  <2>3. /\ f.dir = c /\ f.depth = 0 /\ f.kind = "git" /\ f.opened = TRUE
        /\ f.rest = rest /\ f \in StackFrame
    BY <1>1, <2>1 DEF Opened, StackFrame
  <2> HIDE DEF f
  <2>4. InPlace(f)
    BY <2>1, <2>2, <2>3 DEF InPlace
  <2> QED BY <2>4 DEF f, rest
<1>3. ASSUME NameOf[c] # ".git" PROVE InPlace(Unopened(c, stack[1].depth + 1))
  <2>1. GitOf(c) = {} /\ Cardinality(Up[c]) = stack[1].depth + 1
    BY <1>1, <1>3, GitOfEntry, UpDepth
  <2>2. PICK n \in Nat : n = stack[1].depth + 1
    BY <1>1
  <2> QED BY <1>1, <2>1, <2>2 DEF InPlace, Unopened, StackFrame
<1> QED BY <1>2, <1>3

LEMMA SubdirectoryTells ==
  TreeInv /\ StackOfOwn /\ DOMAIN digested = Item /\ CollectSubdirectory
     => TreeInv'
<1> SUFFICES ASSUME TreeInv, StackOfOwn, DOMAIN digested = Item,
                    CollectSubdirectory
             PROVE  TreeInv'
  OBVIOUS
<1>1. PICK c \in Item :
        /\ Looking(c) /\ Holding(c, "dir")
        /\ IF NameOf[c] = ".git"
           THEN /\ Enters(c, Opened(c, "git",
                                    {Part(c, name) : name \in GitFiles}))
                /\ UNCHANGED digested
           ELSE /\ Enters(c, Unopened(c, stack[1].depth + 1))
                /\ Record(c, "d", disk[c].mode, <<>>)
  BY DEF CollectSubdirectory
<1>2. /\ UNCHANGED <<copy, current, limitations, stopped>>
      /\ current' = NoneCurrent
  BY <1>1, LookedIs DEF CollectSubdirectory
<1>3. /\ stack # <<>> /\ stack[1].kind = "tree" /\ StackInPlace
      /\ c \in stack[1].rest /\ ~IsHook(c)
      /\ NameOf[c] = ".git" => IsRepository(c)
      /\ NameOf[c] # ".git" => GitOf(c) = {}
  BY <1>1, LookedIs
<1>4. CASE NameOf[c] = ".git"
  <2>1. PICK g : g = Opened(c, "git", {Part(c, name) : name \in GitFiles})
    OBVIOUS
  <2>2. InPlace(g) /\ Enters(c, g) /\ digested' = digested
    BY <1>1, <1>3, <1>4, <2>1, NewFrames
  <2>3. /\ StackInPlace'
        /\ \A x \in Item : WaitedFor(x) /\ (c \in Up[x] => Waits(g, x))
                             => WaitedFor(x)'
    BY <1>3, <2>2, EnteringMoves
  <2>4. ASSUME NEW x \in Item, Owes(x), c \in Up[x] PROVE Waits(g, x)
    <3>1. x # c
      <4>1. ~Covered(c)
        <5>1. GitOf(Within[c]) = {}
          BY <1>1, LookedIs
        <5>2. ~IsRepository(Within[c])
          BY <5>1 DEF IsRepository
        <5> QED BY <1>1, <1>3, <1>4, <5>2
                DEF Covered, IsRepository
      <4> QED BY <1>1, <2>4, <4>1, LookedIs DEF Kept
    <3>2. \/ Within[x] = c /\ NameOf[x] \in GitFiles \cup {"hooks"}
          \/ IsHook(x) /\ Within[Within[x]] = c
      BY <1>4, <2>4, <3>1, OwedInRepository DEF Owes, Kept
    <3>3. g.kind = "git" /\ g.dir = c
          /\ g.rest = {Part(c, name) : name \in GitFiles}
      BY <2>1 DEF Opened
    <3>4. CASE Within[x] = c /\ NameOf[x] \in GitFiles
      <4>1. x = Part(c, NameOf[x])
        BY <1>4, <3>4, PartIs
      <4> QED BY <3>3, <3>4, <4>1 DEF Waits
    <3>5. CASE Within[x] = c /\ NameOf[x] = "hooks"
      <4>1. x = Part(c, "hooks")
        BY <1>4, <3>5, PartIs
      <4> QED BY <3>3, <4>1, UpHas DEF Waits
    <3>6. CASE IsHook(x) /\ Within[Within[x]] = c
      <4>1. Within[x] \in Item /\ NameOf[Within[x]] = "hooks"
        BY <3>6 DEF IsHook, IsHooks
      <4>2. Within[x] = Part(c, "hooks")
        BY <1>4, <3>6, <4>1, PartIs
      <4> QED BY <3>3, <4>1, <4>2, UpHas DEF Waits
    <3> QED BY <3>2, <3>4, <3>5, <3>6
  <2> QED BY <1>2, <2>2, <2>3, <2>4, WalkTells
<1>5. CASE NameOf[c] # ".git"
  <2>1. PICK g : g = Unopened(c, stack[1].depth + 1)
    OBVIOUS
  <2>2. /\ InPlace(g) /\ Enters(c, g)
        /\ digested' = [digested EXCEPT ![c] =
              [kind |-> "d", mode |-> disk[c].mode, data |-> <<>>]]
    BY <1>1, <1>3, <1>5, <2>1, NewFrames DEF Record
  <2>3. /\ StackInPlace'
        /\ \A x \in Item : WaitedFor(x) /\ (c \in Up[x] => Waits(g, x))
                             => WaitedFor(x)'
    BY <1>3, <2>2, EnteringMoves
  <2>4. \A x \in Item : x # c /\ c \in Up[x] => Waits(g, x)
    BY <2>1 DEF Unopened, Waits, Below
  <2>5. SameAsFound(c) => Kept(c)
    BY <1>1, <1>3, <1>5, LookedIs DEF Kept, Covered, Holding
  <2>6. IsTold(c)'
    <3>1. WholeEntry(c) = [kind |-> "d", mode |-> disk[c].mode,
                           data |-> <<>>]
      BY <1>1, <1>3, <1>5 DEF WholeEntry, Holding
    <3>2. digested'[c] = WholeEntry(c)
      BY <2>2, <3>1
    <3> QED BY <1>1, <1>2, <3>2, WorldStays DEF IsTold, Holding
  <2>7. HeldIsFound' /\ DiskIsTyped'
    BY <1>2, NothingHeld, DiskStands
  <2>8. \A x \in Item : x # c => digested'[x] = digested[x]
    BY <2>2
  <2> QED BY <1>2, <2>3, <2>4, <2>5, <2>6, <2>7, <2>8, StepTells
<1> QED BY <1>4, <1>5

\* A file is taken in hand.
LEMMA LookAtFileTells ==
  TreeInv /\ StackOfOwn /\ LookAtFile => TreeInv'
<1> SUFFICES ASSUME TreeInv, StackOfOwn, LookAtFile PROVE TreeInv'
  OBVIOUS
<1>1. PICK c \in Item :
        /\ Looking(c) /\ NameOf[c] # ".git" /\ Holding(c, "file")
        /\ Looked(c, "f") /\ Advance(c)
  BY DEF LookAtFile
<1>2. UNCHANGED <<copy, digested, limitations, stopped>>
  BY DEF LookAtFile
<1>3. /\ StackInPlace'
      /\ \A x \in Item : WaitedFor(x) =>
            \/ WaitedFor(x)'
            \/ stack[1].kind = "tree" /\ c \in Up[x]
            \/ stack[1].kind # "tree" /\ x = c
  BY <1>1, LookedIs, AdvanceMoves
<1>4. \A x \in Item : x # c /\ Owes(x) /\ WaitedFor(x) => WaitedFor(x)'
  BY <1>1, <1>3, LookedIs DEF Holding
<1>5. /\ SameAsFound(c) => Kept(c)
      /\ GitOf(c) = {} /\ ~IsHook(c) /\ current = NoneCurrent
  BY <1>1, LookedIs DEF Kept, Covered, Holding
<1>6. /\ current'.path = c /\ current'.kind = "f"
      /\ current'.mode = disk[c].mode
      /\ current'.size = Len(disk[c].body)
  BY <1>1 DEF Looked
<1>7. HeldIsFound'
  <2>1. WholeEntry(c).kind = "f" /\ Covered(c)
    BY <1>1, <1>5 DEF WholeEntry, Holding, Covered
  <2>2. /\ Holding(c, "file")' /\ Covered(c)' /\ disk' = disk
        /\ WholeEntry(c)'.kind = "f"
        /\ SameAsFound(c)' => OfTree(c)'
    BY <1>1, <1>2, <1>5, <2>1, WorldStays DEF copy, Kept
  <2> QED BY <1>6, <2>2 DEF HeldIsFound, AsOnDisk
<1>8. \A x \in Item : current.path # x
  BY <1>5, PluginsAreFiles DEF NoneCurrent
<1>9. DiskIsTyped'
  BY <1>2, DiskStands
<1> QED BY <1>2, <1>3, <1>4, <1>5, <1>6, <1>7, <1>8, <1>9, StepTells

(***************************************************************************)
(* The file in hand is read.                                               *)
(***************************************************************************)
LEMMA ReadingTells ==
  ASSUME TreeInv, current # NoneCurrent, current' = NoneCurrent,
         UNCHANGED <<copy, stack, stopped>>,
         limitations \subseteq limitations', NEW c, c = current.path,
         \A x \in Item : x # c => digested'[x] = digested[x],
         Owes(c) => IsTold(c)'
  PROVE  TreeInv'
<1>1. c \in Item /\ (SameAsFound(c) => AsOnDisk(c))
  BY DEF TreeInv, HeldIsFound
<1>2. SameAsFound(c) => Kept(c)
  BY <1>1 DEF AsOnDisk, Kept, Holding
<1>3. /\ StackInPlace'
      /\ \A x : WaitedFor(x) => WaitedFor(x)'
  <2>1. StackInPlace /\ stack' = stack
    BY DEF TreeInv
  <2> QED BY <2>1 DEF StackInPlace, WaitedFor
<1>4. HeldIsFound' /\ DiskIsTyped'
  BY NothingHeld, DiskStands
<1>5. \A x \in Item : x # c /\ current.path = x => current'.path = x
  OBVIOUS
<1>6. c \in Item /\ SameAsFound(c) /\ ~Kept(c) => digested'[c] = Gone
  BY <1>2
<1>7. UNCHANGED copy
  OBVIOUS
<1> QED BY <1>1, <1>3, <1>4, <1>5, <1>6, <1>7, StepTells

\* What is recorded of a whole file.
LEMMA WholeTells ==
  ASSUME UNCHANGED copy, NEW x \in Item, Kept(x), DOMAIN digested = Item,
         NEW kind, NEW mode, NEW data, Record(x, kind, mode, data),
         kind = WholeEntry(x).kind, mode = disk[x].mode, kind # "d",
         data = disk[x].body
  PROVE  IsTold(x)'
<1>1. WholeEntry(x) = [kind |-> kind, mode |-> mode, data |-> data]
  BY DEF WholeEntry
<1>2. digested'[x] = WholeEntry(x)
  BY <1>1 DEF Record
<1>3. WholeEntry(x)' = WholeEntry(x) /\ Present(x)'
  BY WorldStays DEF Kept
<1> QED BY <1>2, <1>3 DEF IsTold

LEMMA ReadFileTells ==
  TreeInv /\ DOMAIN digested = Item /\ ReadFile => TreeInv'
<1> SUFFICES ASSUME TreeInv, DOMAIN digested = Item, ReadFile PROVE TreeInv'
  OBVIOUS
<1>x. PICK x : x = current.path
  OBVIOUS
<1>1. PICK body : body = IF Present(x) THEN disk[x].body ELSE <<>>
  OBVIOUS
<1>2. PICK opens : opens = (Present(x) /\ disk[x].opens)
  OBVIOUS
<1>3. PICK sample : sample = SkippedFileDigest(body, current.size, opens)
  OBVIOUS
<1>4. /\ current # NoneCurrent /\ current' = NoneCurrent
      /\ UNCHANGED <<copy, stack, stopped>> /\ current.kind = "f"
  BY DEF ReadFile
<1>5. \/ Sentinel("aggregate_byte_limit", <<current.size>>, 0)
      \/ /\ current.size > caps.file
         /\ Sentinel("oversize_file", <<current.size, sample>>,
                     Len(sample[1]) + Len(sample[2]))
      \/ Sentinel("aggregate_byte_limit", <<current.size, sample>>,
                  Len(sample[1]) + Len(sample[2]))
      \/ /\ opens /\ Record(x, "f", current.mode, body)
         /\ UNCHANGED limitations
      \/ ~opens /\ Sentinel("unreadable_file", <<>>, 0)
  BY <1>x, <1>1, <1>2, <1>3 DEF ReadFile
<1>6. /\ limitations \subseteq limitations'
      /\ \A y \in Item : y # x => digested'[y] = digested[y]
  BY <1>x, <1>5 DEF Sentinel, Limit, Record
<1>7. ASSUME Owes(x) PROVE IsTold(x)'
  <2>1. x \in Item /\ AsOnDisk(x)
    BY <1>x, <1>4, <1>7 DEF TreeInv, HeldIsFound, Owes
  <2>2. /\ Kept(x) /\ Present(x) /\ WholeEntry(x).kind = "f"
        /\ current.mode = disk[x].mode /\ current.size = Len(disk[x].body)
    BY <1>x, <1>4, <2>1 DEF AsOnDisk, Kept, Holding
  <2>3. ASSUME "aggregate_byte_limit" \in limitations' PROVE IsTold(x)'
    BY <1>4, <1>7, <2>1, <2>3, GeneralTells DEF Overall
  <2>4. ASSUME "oversize_file" \in limitations', current.size > caps.file
        PROVE  IsTold(x)'
    <3>1. AccountsFor("oversize_file", x)
      BY <2>2, <2>4 DEF AccountsFor
    <3> QED BY <1>4, <1>7, <2>1, <2>2, <2>4, <3>1, LimitTells
  <2>5. ASSUME "unreadable_file" \in limitations', ~opens PROVE IsTold(x)'
    <3>1. AccountsFor("unreadable_file", x)
      BY <1>2, <2>2, <2>5 DEF AccountsFor
    <3> QED BY <1>4, <1>7, <2>1, <2>2, <2>5, <3>1, LimitTells
  <2>6. ASSUME Record(x, "f", current.mode, body) PROVE IsTold(x)'
    BY <1>1, <1>4, <2>1, <2>2, <2>6, WholeTells
  <2> QED BY <1>5, <2>3, <2>4, <2>5, <2>6 DEF Sentinel, Limit
<1> QED BY <1>x, <1>4, <1>6, <1>7, ReadingTells

\* A body that is not cut is whole.
LEMMA UncutIsWhole ==
  ASSUME NEW body \in Seq(Nat), NEW m \in Nat, ~(Len(body) > m)
  PROVE  SubSeq(body, 1, Least2(m, Len(body))) = body
<1>1. PICK n \in Nat : n = Len(body)
  BY LenProperties
<1>2. Least2(m, Len(body)) = n
  BY <1>1 DEF Least2
<1>3. SubSeq(body, 1, n) = body
  <2>1. CASE n = 0
    <3>1. body = <<>>
      BY <1>1, <2>1, EmptySeq
    <3>2. SubSeq(body, 1, n) = <<>>
      BY <2>1, <1>1, SubSeqProperties
    <3> QED BY <3>1, <3>2
  <2>2. CASE n # 0
    <3>1. 1 \in 1..(n + 1) /\ n \in 0..n
      BY <2>2
    <3>2. /\ SubSeq(body, 1, n) \in Seq(Nat)
          /\ Len(SubSeq(body, 1, n)) = n
          /\ \A i \in 1..n : SubSeq(body, 1, n)[i] = body[i]
      BY <1>1, <2>2, SubSeqProperties
    <3> QED BY <1>1, <3>2, SeqEqual
  <2> QED BY <2>1, <2>2
<1> QED BY <1>2, <1>3

LEMMA ReadGitFileTells ==
  TreeInv /\ DOMAIN digested = Item /\ caps \in CapSets /\ ReadGitFile
     => TreeInv'
<1> SUFFICES ASSUME TreeInv, DOMAIN digested = Item, caps \in CapSets,
                    ReadGitFile
             PROVE  TreeInv'
  OBVIOUS
<1>x. PICK x : x = current.path
  OBVIOUS
<1>1. PICK body : body = IF Present(x) THEN disk[x].body ELSE <<>>
  OBVIOUS
<1>2. PICK data : data = SubSeq(body, 1, Least2(caps.metadata, Len(body)))
  OBVIOUS
<1>3. PICK cut : cut = IF Len(body) > caps.metadata
                       THEN {OversizeOf(current.kind)} ELSE {}
  OBVIOUS
<1>4. /\ current # NoneCurrent /\ current' = NoneCurrent
      /\ UNCHANGED <<copy, stack, stopped>> /\ current.kind \in {"g", "h"}
  BY DEF ReadGitFile, NoneCurrent
<1>5. \/ Sentinel("aggregate_byte_limit", <<current.size>>, 0)
      \/ /\ ~(Present(x) /\ disk[x].opens)
         /\ Limit(Unreadable(current.kind)) /\ UNCHANGED digested
      \/ /\ Record(x, "x", current.mode, <<Len(data)>>)
         /\ limitations' = limitations \cup cut
                             \cup {"aggregate_byte_limit"}
      \/ /\ Record(x, current.kind, current.mode, data)
         /\ limitations' = limitations \cup cut
  BY <1>x, <1>1, <1>2, <1>3 DEF ReadGitFile
<1>6. /\ limitations \subseteq limitations'
      /\ \A y \in Item : y # x => digested'[y] = digested[y]
  BY <1>x, <1>5 DEF Sentinel, Limit, Record
<1>7. ASSUME Owes(x) PROVE IsTold(x)'
  <2>1. x \in Item /\ AsOnDisk(x)
    BY <1>x, <1>4, <1>7 DEF TreeInv, HeldIsFound, Owes
  <2>2. /\ Kept(x) /\ Present(x) /\ WholeEntry(x).kind = current.kind
        /\ current.mode = disk[x].mode /\ disk[x] # Gone
    BY <1>x, <1>4, <2>1 DEF AsOnDisk, Kept, Holding, Present
  <2>3. GitOf(x) # {}
    <3>1. ASSUME GitOf(x) = {} PROVE ~IsHook(x)
      <4> SUFFICES ASSUME IsHook(x) PROVE FALSE
        OBVIOUS
      <4>1. /\ Within[x] \in Item /\ Within[Within[x]] \in Item
            /\ Within[Within[x]] \in GitOf(Within[Within[x]])
        BY DEF IsHook, IsHooks, IsRepository
      <4>2. Up[Within[x]] \subseteq Up[x]
            /\ Up[Within[Within[x]]] \subseteq Up[Within[x]]
        BY <2>1, <4>1, UpIs
      <4> QED BY <3>1, <4>1, <4>2 DEF GitOf
    <3> QED BY <1>4, <2>2, <3>1 DEF WholeEntry
  <2>4. body = disk[x].body /\ body \in Seq(Nat) /\ caps.metadata \in Nat
    <3>1. disk[x] \in FileNode
      BY <2>1, <2>2 DEF TreeInv, DiskIsTyped
    <3> QED BY <1>1, <2>2, <3>1, LimitsAreNumbers DEF FileNode
  <2>5. ASSUME "aggregate_byte_limit" \in limitations' PROVE IsTold(x)'
    BY <1>4, <1>7, <2>1, <2>5, GeneralTells DEF Overall
  <2>6. ASSUME ~(Present(x) /\ disk[x].opens),
               Unreadable(current.kind) \in limitations'
        PROVE  IsTold(x)'
    <3>1. AccountsFor(Unreadable(current.kind), x)
      BY <2>2, <2>3, <2>6 DEF AccountsFor, Unreadable
    <3> QED BY <1>4, <1>7, <2>1, <2>2, <2>6, <3>1, LimitTells
  <2>7. ASSUME Len(body) > caps.metadata, cut \subseteq limitations'
        PROVE  IsTold(x)'
    <3>1. /\ OversizeOf(current.kind) \in limitations'
          /\ AccountsFor(OversizeOf(current.kind), x)
      BY <1>3, <2>3, <2>4, <2>7 DEF AccountsFor, OversizeOf
    <3> QED BY <1>4, <1>7, <2>1, <2>2, <3>1, LimitTells
  <2>8. ASSUME ~(Len(body) > caps.metadata),
               Record(x, current.kind, current.mode, data)
        PROVE  IsTold(x)'
    <3>1. data = disk[x].body
      BY <1>2, <2>4, <2>8, UncutIsWhole
    <3> QED BY <1>4, <2>1, <2>2, <2>8, <3>1, WholeTells
  <2> QED BY <1>5, <2>5, <2>6, <2>7, <2>8 DEF Sentinel, Limit
<1> QED BY <1>x, <1>4, <1>6, <1>7, ReadingTells

(***************************************************************************)
(* The inputs of Git.                                                      *)
(***************************************************************************)
\* What is read next, and what it is to the repository.
LEMMA GitFileIs ==
  ASSUME TreeInv, StackOfOwn, NEW c \in Item, GitFileNext(c)
  PROVE  /\ stack # <<>> /\ current = NoneCurrent /\ StackInPlace
         /\ c \in stack[1].rest /\ GitOf(c) # {}
         /\ GitKind = IF IsHook(c) THEN "h" ELSE "g"
         /\ Holding(c, "file") => Covered(c)
         /\ SameAsFound(c) => OfTree(c)
         /\ stack[1].kind = "tree" =>
               /\ Present(c) /\ ~IsHook(c)
               /\ \A x \in Item : Owes(x) /\ c \in Up[x] => x = c
         /\ stack[1].kind = "git" => NameOf[c] \in GitFiles
         /\ stack[1].kind = "hooks" => ~IsAPart(c)
<1>1. /\ stack # <<>> /\ current = NoneCurrent /\ StackInPlace
      /\ c \in stack[1].rest
  BY DEF GitFileNext, Foremost, TreeInv
<1>2. /\ InPlace(stack[1]) /\ Within[c] = stack[1].dir
      /\ stack[1].kind \in {"tree", "git", "hooks"}
  BY <1>1, FirstFrame DEF StackFrame
<1>6. SameAsFound(c) => OfTree(c)
  BY <1>1, EntryIsOwn
<1>3. CASE stack[1].kind = "tree"
  <2>1. Looking(c)
    BY <1>1, <1>3 DEF GitFileNext, Looking, Collecting, Child
  <2>2. NameOf[c] = ".git" /\ Present(c) /\ ~Holding(c, "dir")
    BY <1>3 DEF GitFileNext, Holding
  <2>3. IsRepository(c) /\ ~IsHook(c)
    BY <2>1, <2>2, LookedIs
  <2>4. \A x \in Item : Owes(x) /\ c \in Up[x] => x = c
    BY <2>1, <2>2, LookedIs
  <2> QED BY <1>1, <1>3, <1>6, <2>2, <2>3, <2>4
          DEF IsRepository, GitKind, Covered
<1>4. CASE stack[1].kind = "git"
  <2>1. IsRepository(Within[c]) /\ NameOf[c] \in GitFiles
    BY <1>1, <1>2, <1>4 DEF InPlace
  <2>2. Within[c] \in GitOf(c) /\ NameOf[Within[c]] = ".git"
    BY <2>1, UpIs DEF IsRepository, GitOf
  <2>3. ~IsHook(c) /\ Covered(c)
    BY <2>1, <2>2 DEF IsHook, IsHooks, Covered
  <2> QED BY <1>1, <1>4, <1>6, <2>1, <2>2, <2>3 DEF GitKind
<1>5. CASE stack[1].kind = "hooks"
  <2>1. IsHook(c) /\ Within[c] \in Item
    BY <1>2, <1>5 DEF InPlace, IsHook, IsHooks
  <2>2. /\ Within[Within[c]] \in GitOf(c) /\ NameOf[Within[c]] # ".git"
    <3>1. /\ Within[Within[c]] \in Item
          /\ Within[Within[c]] \in GitOf(Within[Within[c]])
          /\ NameOf[Within[c]] = "hooks"
      BY <2>1 DEF IsHook, IsHooks, IsRepository
    <3>2. Up[Within[c]] \subseteq Up[c]
          /\ Up[Within[Within[c]]] \subseteq Up[Within[c]]
      BY <2>1, UpIs
    <3> QED BY <3>1, <3>2 DEF GitOf
  <2>3. ~IsAPart(c)
    BY <2>2 DEF IsAPart, IsRepository, GitOf
  <2> QED BY <1>1, <1>5, <1>6, <2>1, <2>2, <2>3 DEF GitKind, Covered
<1> QED BY <1>2, <1>3, <1>4, <1>5

\* An input that is no file is told of, unless it is one that may be missing.
LEMMA NoFileTells ==
  ASSUME TreeInv, StackOfOwn, NEW c \in Item, GitFileNext(c), UNCHANGED copy,
         ~Holding(c, "file"), ~NotFound(c) => Limit(Unreadable(GitKind)),
         Owes(c)
  PROVE  IsTold(c)'
<1>1. ~NotFound(c)
  <2> SUFFICES ASSUME NotFound(c) PROVE FALSE
    OBVIOUS
  <2>1. NameOf[c] = "packed-refs"
    BY DEF NotFound
  <2>2. Present(c)
    BY <2>1 DEF Owes, Kept, IsAPart
  <2> QED BY <2>2 DEF NotFound, Present, Reachable, LeadsOn
<1>2. Unreadable(GitKind) \in limitations'
  BY <1>1 DEF Limit
<1>3. Present(c) => AccountsFor(Unreadable(GitKind), c)
  <2>1. Unreadable(GitKind) \in {"git_metadata_unreadable",
                                 "git_hook_unreadable"}
    BY DEF Unreadable
  <2> QED BY <2>1, GitFileIs DEF AccountsFor
<1>4. ~Present(c) => Unreadable(GitKind) \in LossesOfPart(c)
  <2> SUFFICES ASSUME ~Present(c)
               PROVE  Unreadable(GitKind) \in LossesOfPart(c)
    OBVIOUS
  <2>1. IsAPart(c)
    BY DEF Owes, Kept
  <2>2. stack[1].kind \in {"tree", "git", "hooks"}
    BY GitFileIs, FirstFrame DEF StackFrame
  <2>3. stack[1].kind = "git"
    BY <2>1, <2>2, GitFileIs
  <2>4. NameOf[c] # "hooks" /\ GitKind = "g"
    BY <2>3, GitFileIs DEF GitFiles, GitKind
  <2> QED BY <2>4 DEF Unreadable, LossesOfPart
<1> QED BY <1>2, <1>3, <1>4, LimitTells

LEMMA CollectGitFileTells ==
  TreeInv /\ StackOfOwn /\ CollectGitFile => TreeInv'
<1> SUFFICES ASSUME TreeInv, StackOfOwn, CollectGitFile PROVE TreeInv'
  OBVIOUS
<1>1. PICK c \in Item :
        /\ GitFileNext(c)
        /\ IF Halt # "no" THEN Limit(Halt) /\ UNCHANGED current
           ELSE IF Holding(c, "file")
           THEN Looked(c, GitKind) /\ UNCHANGED limitations
           ELSE /\ IF NotFound(c) THEN UNCHANGED limitations
                   ELSE Limit(Unreadable(GitKind))
                /\ UNCHANGED current
        /\ Advance(c)
        /\ UNCHANGED <<copy, totalBytes, digested, stopped>>
  BY DEF CollectGitFile
<1>2. /\ StackInPlace'
      /\ \A x \in Item : WaitedFor(x) =>
            \/ WaitedFor(x)'
            \/ stack[1].kind = "tree" /\ c \in Up[x]
            \/ stack[1].kind # "tree" /\ x = c
  BY <1>1, GitFileIs, AdvanceMoves
<1>3. \A x \in Item : Owes(x) /\ WaitedFor(x) => WaitedFor(x)' \/ x = c
  BY <1>1, <1>2, GitFileIs
<1>4. limitations \subseteq limitations'
  BY <1>1 DEF Limit
<1>5. CASE Halt # "no"
  <2>1. Halt \in Overall /\ Halt \in limitations' /\ current' = current
    BY <1>1, <1>5, HaltIs DEF TreeInv, Limit
  <2>2. Owes(c) => IsTold(c)'
    BY <1>1, <2>1, GeneralTells
  <2> QED BY <1>1, <1>2, <1>3, <1>4, <2>1, <2>2, WalkTells
<1>6. CASE Halt = "no" /\ ~Holding(c, "file")
  <2>1. Owes(c) => IsTold(c)'
    BY <1>1, <1>6, NoFileTells
  <2> QED BY <1>1, <1>2, <1>3, <1>4, <1>6, <2>1, WalkTells
<1>7. CASE Halt = "no" /\ Holding(c, "file")
  <2>1. /\ Covered(c) /\ current = NoneCurrent
        /\ SameAsFound(c) => Kept(c)
        /\ WholeEntry(c).kind = GitKind
    BY <1>1, <1>7, GitFileIs DEF Kept, Holding, WholeEntry
  <2>2. PICK kind : kind = GitKind
    OBVIOUS
  <2>3. /\ current'.path = c /\ current'.kind = kind
        /\ current'.mode = disk[c].mode
        /\ current'.size = Len(disk[c].body)
    BY <1>1, <1>7, <2>2 DEF Looked
  <2>4. HeldIsFound'
    <3>1. /\ Holding(c, "file")' /\ Covered(c)' /\ disk' = disk
          /\ WholeEntry(c)'.kind = kind
          /\ SameAsFound(c)' => OfTree(c)'
      BY <1>1, <1>7, <2>1, <2>2, WorldStays DEF copy, Kept
    <3> QED BY <2>3, <3>1 DEF HeldIsFound, AsOnDisk
  <2>5. \A x \in Item : current.path # x
    BY <2>1, PluginsAreFiles DEF NoneCurrent
  <2>6. DiskIsTyped'
    BY <1>1, DiskStands
  <2> QED BY <1>1, <1>2, <1>3, <1>4, <2>1, <2>3, <2>4, <2>5, <2>6, StepTells
<1> QED BY <1>5, <1>6, <1>7

\* Who waits for the hooks: the directory of them, if it is not there, and
\* the hooks that are.
LEMMA HooksAre ==
  ASSUME NEW d \in Item, IsRepository(d), NEW h, h = Part(d, "hooks"),
         NEW x \in Item, Owes(x), h \in Up[x]
  PROVE  \/ x = h /\ ~Present(h)
         \/ x # h /\ x \in In(h) /\ IsHook(x) /\ GitOf(x) # {}
<1>1. NameOf[d] = ".git" /\ d \in Item
  BY DEF IsRepository, GitOf
<1>2. /\ h \in Item /\ Within[h] = d /\ NameOf[h] = "hooks"
      /\ \A y \in Item : Within[y] = d /\ NameOf[y] = "hooks" => y = h
  BY <1>1, PartIs
<1>3. d \in Up[h] /\ d # h /\ h \notin Up[d]
  BY <1>1, <1>2, UpIs, UpHas
<1>4. CASE x = h
  <2>1. ~Covered(h)
    BY <1>1, <1>2, <1>3 DEF Covered, IsHook, IsHooks, IsRepository, GitOf, GitFiles
  <2> QED BY <1>4, <2>1 DEF Owes, Kept
<1>5. CASE x # h
  <2>1. d \in Up[x] \ {x}
    <3>1. d \in Up[x]
      BY <1>2, <1>3, UpHas
    <3> QED BY <1>3, <3>1
  <2>2. \/ Within[x] = d /\ NameOf[x] \in GitFiles \cup {"hooks"}
        \/ IsHook(x) /\ Within[Within[x]] = d
    BY <1>1, <2>1, OwedInRepository DEF Owes, Kept
  <2>3. Within[x] # d
    BY <1>3, <1>5, UpIs
  <2>4. IsHook(x) /\ Within[x] = h
    BY <1>2, <2>2, <2>3 DEF IsHook, IsHooks
  <2>5. ~IsAPart(x)
    BY <1>2, <2>4 DEF IsAPart, IsRepository, GitOf
  <2>6. Present(x)
    BY <2>5 DEF Owes, Kept
  <2> QED BY <1>1, <1>5, <2>1, <2>4, <2>6 DEF In, GitOf
<1> QED BY <1>4, <1>5

LEMMA ListHooksTells ==
  TreeInv /\ caps \in CapSets /\ ListHooks => TreeInv'
<1> SUFFICES ASSUME TreeInv, caps \in CapSets, ListHooks PROVE TreeInv'
  OBVIOUS
<1>d. PICK d : d = stack[1].dir
  OBVIOUS
<1>h. PICK h : h = Part(d, "hooks")
  OBVIOUS
<1>w. PICK why : why = IF ~Listable(h) THEN "git_hooks_unreadable"
                       ELSE IF Cardinality(In(h)) > caps.listed
                       THEN "directory_entry_limit"
                       ELSE IF In(h) # {} THEN stopped ELSE "no"
  OBVIOUS
<1>1. /\ stack # <<>> /\ stack[1].kind = "git" /\ stack[1].rest = {}
      /\ UNCHANGED <<copy, current, digested, stopped>> /\ StackInPlace
  BY DEF ListHooks, Collecting, TreeInv
<1>2. IF why = "no"
      THEN /\ stack' = [stack EXCEPT ![1] = Opened(h, "hooks", In(h))]
           /\ limitations' = limitations
      ELSE Leave /\ Limit(why)
  BY <1>d, <1>h, <1>w DEF ListHooks
<1>3. d \in Item /\ IsRepository(d) /\ NameOf[d] = ".git"
  BY <1>d, <1>1, FirstFrame DEF InPlace, IsRepository, GitOf
<1>4. /\ h \in Item /\ Within[h] = d /\ NameOf[h] = "hooks"
      /\ h # PluginRoot
  BY <1>h, <1>3, PartIs, ItemsAreNested
<1>5. \A x \in Item : Waits(stack[1], x) => h \in Up[x]
  BY <1>d, <1>h, <1>1, FirstFrame DEF Waits, InPlace
<1>6. CASE why = "no"
  <2>1. PICK f : f = Opened(h, "hooks", In(h))
    OBVIOUS
  <2>2. /\ f.dir = h /\ f.depth = 0 /\ f.kind = "hooks" /\ f.opened = TRUE
        /\ f.rest = In(h) /\ f \in StackFrame
    BY <1>4, <2>1 DEF Opened, StackFrame, In
  <2>3. InPlace(f)
    BY <1>3, <1>4, <2>2 DEF InPlace, In
  <2>4. /\ StackInPlace'
        /\ \A x : WaitedFor(x) /\ (Waits(stack[1], x) => Waits(f, x))
                     => WaitedFor(x)'
    BY <1>1, <1>2, <1>6, <2>1, <2>3, RestMoves
  <2>5. ASSUME NEW x \in Item, Owes(x), h \in Up[x] PROVE Waits(f, x)
    <3>1. Listable(h)
      BY <1>w, <1>6
    <3>2. Present(h)
      BY <1>4, <3>1 DEF Listable
    <3>3. x \in In(h)
      BY <1>h, <1>3, <2>5, <3>2, HooksAre
    <3> QED BY <2>2, <3>3 DEF Waits
  <2> QED BY <1>1, <1>2, <1>5, <1>6, <2>4, <2>5, WalkTells
<1>7. CASE why # "no"
  <2>1. Leave /\ Limit(why) /\ why \in limitations'
        /\ limitations \subseteq limitations'
    BY <1>2, <1>7 DEF Limit
  <2>2. /\ StackInPlace'
        /\ \A x : WaitedFor(x) => Waits(stack[1], x) \/ WaitedFor(x)'
    BY <1>1, <2>1, LeaveMoves
  <2>3. ASSUME NEW x \in Item, Owes(x), h \in Up[x] PROVE IsTold(x)'
    <3>1. \/ x = h /\ ~Present(h)
          \/ x # h /\ x \in In(h) /\ IsHook(x) /\ GitOf(x) # {}
      BY <1>h, <1>3, <2>3, HooksAre
    <3>2. CASE x = h /\ ~Present(h)
      <4>1. why = "git_hooks_unreadable"
        BY <1>w, <1>4, <3>2 DEF Listable
      <4>2. why \in LossesOfPart(x)
        BY <1>4, <3>2, <4>1 DEF LossesOfPart
      <4> QED BY <1>1, <2>1, <2>3, <3>2, <4>2, LimitTells
    <3>3. CASE x # h /\ x \in In(h) /\ IsHook(x) /\ GitOf(x) # {}
      <4>1. Within[x] = h
        BY <3>3 DEF In
      <4>2. CASE why = "git_hooks_unreadable"
        <5>1. ~Listable(h)
          BY <1>w, <4>2 DEF TreeInv, DiskIsTyped
        <5>2. AccountsFor(why, x)
          BY <3>3, <4>1, <4>2, <5>1 DEF AccountsFor
        <5>3. Present(x)
          BY <3>3 DEF In
        <5> QED BY <1>1, <2>1, <2>3, <5>2, <5>3, LimitTells
      <4>3. CASE why = "directory_entry_limit"
        <5> DEFINE some == {z \in Item : Within[z] = Within[x]
                                           /\ (Present(z) \/ z \in touched)}
        <5>1. Cardinality(In(h)) > caps.listed
          BY <1>w, <4>3 DEF TreeInv, DiskIsTyped
        <5>2. In(h) \subseteq some /\ some \subseteq Item
          BY <4>1 DEF In
        <5>3. /\ IsFiniteSet(some) /\ IsFiniteSet(In(h))
              /\ Cardinality(In(h)) <= Cardinality(some)
          BY <5>2, FS_Subset, PluginsAreFiles
        <5>4. /\ Cardinality(In(h)) \in Nat /\ Cardinality(some) \in Nat
              /\ caps.listed \in Nat
          BY <5>3, FS_CardinalityType, LimitsAreNumbers
        <5>5. Cardinality(some) > caps.listed
          BY <5>1, <5>3, <5>4
        <5>6. Crowded(x)
          BY <5>5, UpHas DEF Crowded
        <5> QED BY <1>1, <2>1, <2>3, <4>3, <5>6, LimitTells
                DEF AccountsFor, LossesOfPart, AnyLoss
      <4>4. CASE why = stopped
        <5>1. why \in Overall
          BY <1>7, <4>4 DEF TreeInv, DiskIsTyped, Overall
        <5> QED BY <1>1, <2>1, <2>3, <5>1, GeneralTells
      <4> QED BY <1>w, <1>7, <4>2, <4>3, <4>4
    <3> QED BY <3>1, <3>2, <3>3
  <2> QED BY <1>1, <1>5, <2>1, <2>2, <2>3, WalkTells
<1> QED BY <1>6, <1>7

(***************************************************************************)
(* The world.                                                              *)
(***************************************************************************)
LEMMA OutOfBudgetTells ==
  TreeInv /\ OutOfBudget => TreeInv'
<1> SUFFICES ASSUME TreeInv, OutOfBudget PROVE TreeInv'
  OBVIOUS
<1>1. /\ UNCHANGED <<copy, stack, current, digested, limitations>>
      /\ stopped' \in {"collection_time_budget", "collection_interrupted"}
  BY DEF OutOfBudget
<1>2. DiskIsTyped'
  BY <1>1 DEF TreeInv, DiskIsTyped, copy
<1>3. StackInPlace' /\ \A x : WaitedFor(x)' = WaitedFor(x)
  BY <1>1 DEF TreeInv, StackInPlace, WaitedFor
<1>4. HeldIsFound'
  <2>1. disk' = disk /\ current' = current
    BY <1>1 DEF copy
  <2>2. \A x : AsOnDisk(x)' = AsOnDisk(x) /\ SameAsFound(x)' = SameAsFound(x)
    BY <1>1, <2>1, WorldStays DEF AsOnDisk
  <2> QED BY <2>1, <2>2 DEF TreeInv, HeldIsFound, NoneCurrent
<1>5. PluginRoot \notin Item
  BY ItemsAreNested
<1> QED BY <1>1, <1>2, <1>3, <1>4, <1>5, StepTells

\* A path that changes changes nothing for those it is not above.
LEMMA TouchedElsewhere ==
  ASSUME TreeInv, caps \in CapSets, Touch, NEW x \in Item,
         SameAsFound(x)'
  PROVE  /\ SameAsFound(x) /\ disk'[x] = disk[x]
         /\ Present(x)' = Present(x) /\ Kept(x)' = Kept(x)
         /\ Owes(x)' => Owes(x)
         /\ \A type : Holding(x, type)' = Holding(x, type)
         /\ Covered(x)' = Covered(x) /\ WholeEntry(x)' = WholeEntry(x)
         /\ OfTree(x)' = OfTree(x)
         /\ \A l : AccountsFor(l, x) => AccountsFor(l, x)'
<1>1. PICK z \in Item \ touched : \E node \in Becomes[z] :
        /\ disk' = [disk EXCEPT ![z] = node]
        /\ touched' = touched \cup {z}
  BY DEF Touch
<1>2. z \notin Up[x] /\ SameAsFound(x) /\ caps' = caps
  BY <1>1 DEF SameAsFound, Touch
<1>3. Up[x] \subseteq Item /\ x \in Up[x]
  BY UpHas
<1>4. \A y \in Up[x] : disk'[y] = disk[y]
  BY <1>1, <1>2, <1>3 DEF TreeInv, DiskIsTyped
<1>5. \A y \in Up[x] : Up[y] \subseteq Up[x]
  BY UpHas
<1>6. \A y \in Up[x] : Present(y)' = Present(y)
  BY <1>4, <1>5 DEF Present, Reachable, LeadsOn
<1>7. \A y \in Up[x] : \A type : Holding(y, type)' = Holding(y, type)
  BY <1>4, <1>6 DEF Holding
<1>8. Covered(x)' = Covered(x)
  BY <1>3, <1>7 DEF Covered
<1>o. OfTree(x)' = OfTree(x)
  BY <1>4 DEF OfTree, InOwn, LeadsOn
<1>9. Kept(x)' = Kept(x) /\ WholeEntry(x)' = WholeEntry(x)
  BY <1>o, <1>3, <1>4, <1>6, <1>8 DEF Kept, WholeEntry
<1>10. IsAPart(x)' = IsAPart(x)
  <2>1. IsRepository(Within[x]) => Within[x] \in Up[x]
    BY <1>3, UpHas DEF IsRepository
  <2> QED BY <1>o, <1>7, <2>1 DEF IsAPart
<1>11. Owes(x)' => Owes(x)
  BY <1>2, <1>3, <1>6, <1>9, <1>10 DEF Owes
<1>12. \A y \in Up[x] \cup {PluginRoot} : Listable(y)' = Listable(y)
  BY <1>4, <1>6 DEF Listable, LeadsOn
<1>13. Crowded(x) => Crowded(x)'
  <2> SUFFICES ASSUME Crowded(x) PROVE Crowded(x)'
    OBVIOUS
  <2>1. PICK y \in Up[x] :
          Cardinality({w \in Item : Within[w] = Within[y]
                                      /\ (Present(w) \/ w \in touched)})
              > caps.listed
    BY DEF Crowded
  <2> DEFINE some == {w \in Item : Within[w] = Within[y]
                                     /\ (Present(w) \/ w \in touched)}
             more == {w \in Item : Within[w] = Within[y]
                                     /\ (Present(w)' \/ w \in touched')}
  <2>2. ASSUME NEW w \in some PROVE w \in more
    <3>1. w \in Item /\ Within[w] = Within[y] /\ Up[w] = {w} \cup Up[Within[w]]
      BY <2>2, UpIs
    <3>2. Up[Within[y]] \subseteq Up[x]
      BY <1>3, <1>5, <2>1, UpIs
    <3>3. CASE w = z \/ w \in touched
      BY <1>1, <3>1, <3>3
    <3>4. CASE w # z /\ w \notin touched
      <4>1. Present(w) /\ z \notin Up[w]
        BY <1>2, <2>2, <3>1, <3>2, <3>4
      <4>2. \A v \in Up[w] : disk'[v] = disk[v]
        BY <1>1, <3>1, <4>1, UpHas DEF TreeInv, DiskIsTyped
      <4>3. Present(w)'
        BY <3>1, <4>1, <4>2, UpHas DEF Present, Reachable, LeadsOn
      <4> QED BY <3>1, <4>3
    <3> QED BY <3>3, <3>4
  <2>3. some \subseteq more /\ IsFiniteSet(more) /\ IsFiniteSet(some)
    BY <2>2, FS_Subset, PluginsAreFiles
  <2>4. Cardinality(some) <= Cardinality(more)
    BY <2>3, FS_Subset
  <2>5. /\ Cardinality(some) \in Nat /\ Cardinality(more) \in Nat
        /\ caps.listed \in Nat
    BY <2>3, FS_CardinalityType, LimitsAreNumbers
  <2>6. Cardinality(more) > caps.listed
    BY <2>1, <2>4, <2>5
  <2> QED BY <1>2, <2>1, <2>6 DEF Crowded
<1>14. \A l : AccountsFor(l, x) => AccountsFor(l, x)'
  <2>1. \A y \in Up[x] \ {x} : Listable(y)' = Listable(y)
    BY <1>12
  <2>2. GitOf(x) # {} => Listable(Within[x])' = Listable(Within[x])
    <3>1. Within[x] \in Up[x] \cup {PluginRoot}
      BY <1>3, ItemsAreNested, UpHas
    <3> QED BY <1>12, <3>1
  <2>3. Deep(x)' = Deep(x)
    BY <1>2 DEF Deep
  <2>4. \A type : Holding(x, type)' = Holding(x, type)
    BY <1>3, <1>7
  <2>5. disk'[x] = disk[x]
    BY <1>3, <1>4
  <2> QED BY <1>2, <1>13, <2>1, <2>2, <2>3, <2>4, <2>5 DEF AccountsFor
<1> QED BY <1>o, <1>2, <1>3, <1>4, <1>6, <1>7, <1>8, <1>9, <1>11, <1>14

LEMMA TouchTells ==
  TreeInv /\ caps \in CapSets /\ Touch => TreeInv'
<1> SUFFICES ASSUME TreeInv, caps \in CapSets, Touch PROVE TreeInv'
  OBVIOUS
<1>1. UNCHANGED <<stack, current, digested, limitations, stopped>>
  BY DEF Touch
<1>2. DiskIsTyped'
  <2>1. PICK z \in Item : \E node \in {Gone} \cup FileNode :
          /\ disk' = [disk EXCEPT ![z] = node]
          /\ touched' = touched \cup {z}
    BY PluginsAreFiles DEF Touch
  <2> QED BY <1>1, <2>1 DEF TreeInv, DiskIsTyped
<1>3. StackInPlace' /\ \A x : WaitedFor(x)' = WaitedFor(x)
  BY <1>1 DEF TreeInv, StackInPlace, WaitedFor
<1>4. HeldIsFound'
  <2> SUFFICES ASSUME current # NoneCurrent
               PROVE  /\ current.path \in Item
                      /\ SameAsFound(current.path)' =>
                            AsOnDisk(current.path)'
    BY <1>1 DEF HeldIsFound, NoneCurrent
  <2>1. PICK x : x = current.path
    OBVIOUS
  <2>2. x \in Item /\ (SameAsFound(x) => AsOnDisk(x))
    BY <2>1 DEF TreeInv, HeldIsFound
  <2>3. ASSUME SameAsFound(x)' PROVE AsOnDisk(x)'
    <3>1. /\ SameAsFound(x) /\ disk'[x] = disk[x]
          /\ \A type : Holding(x, type)' = Holding(x, type)
          /\ Covered(x)' = Covered(x) /\ WholeEntry(x)' = WholeEntry(x)
          /\ OfTree(x)' = OfTree(x)
      BY <2>2, <2>3, TouchedElsewhere
    <3> QED BY <1>1, <2>2, <3>1 DEF AsOnDisk
  <2>4. current' = current
    BY <1>1
  <2> QED BY <2>1, <2>2, <2>3, <2>4
<1>5. NothingElse'
  <2>1. ASSUME NEW x \in Item, SameAsFound(x)', ~Kept(x)'
        PROVE  digested'[x] = Gone
    BY <1>1, <2>1, TouchedElsewhere DEF TreeInv, NothingElse
  <2> QED BY <2>1 DEF NothingElse
<1>6. ASSUME NEW x \in Item, Owes(x)'
      PROVE  IsTold(x)' \/ WaitedFor(x)' \/ current'.path = x
  <2>1. SameAsFound(x)'
    BY <1>6 DEF Owes
  <2>2. /\ Owes(x) /\ Present(x)' = Present(x)
        /\ WholeEntry(x)' = WholeEntry(x)
        /\ \A l : AccountsFor(l, x) => AccountsFor(l, x)'
    BY <1>6, <2>1, TouchedElsewhere
  <2>3. IsTold(x) => IsTold(x)'
    BY <1>1, <2>2 DEF IsTold, LossesOfPart
  <2>4. IsTold(x) \/ WaitedFor(x) \/ current.path = x
    BY <2>2 DEF TreeInv
  <2> QED BY <1>1, <1>3, <2>3, <2>4
<1> QED BY <1>2, <1>3, <1>4, <1>5, <1>6 DEF TreeInv

(***************************************************************************)
(* The whole walk.  It does not end with a file in hand.                   *)
(***************************************************************************)
NoneLeftInHand == stack = <<>> => current = NoneCurrent
WalkInv == IdentityInv /\ TreeInv /\ StackOfOwn /\ NoneLeftInHand

LEMMA AdvanceGoesOn ==
  ASSUME StackInPlace, stack # <<>>, NEW c, Advance(c)
  PROVE  stack' # <<>>
<1>1. 1 \in DOMAIN stack
  BY LenProperties, EmptySeq DEF StackInPlace
<1>2. DOMAIN stack' = DOMAIN stack
  BY DEF Advance, StackInPlace
<1>3. DOMAIN <<>> = {}
  OBVIOUS
<1> QED BY <1>1, <1>2, <1>3

LEMMA NoneIsLeft ==
  TreeInv /\ NoneLeftInHand /\ [IdentityNext]_identity => NoneLeftInHand'
<1> SUFFICES ASSUME TreeInv, NoneLeftInHand, [IdentityNext]_identity
             PROVE  NoneLeftInHand'
  OBVIOUS
<1>1. CASE LookAtFile \/ CollectGitFile
  <2>1. PICK c \in Item : stack # <<>> /\ StackInPlace /\ Advance(c)
    BY <1>1 DEF LookAtFile, CollectGitFile, Looking, Collecting, GitFileNext,
                TreeInv
  <2> QED BY <2>1, AdvanceGoesOn DEF NoneLeftInHand
<1>2. CASE ReadFile \/ ReadGitFile
  BY <1>2 DEF ReadFile, ReadGitFile, NoneLeftInHand, NoneCurrent
<1>3. CASE \/ CollectDir \/ EndDir \/ Vanished \/ CollectLinkOrSpecial
           \/ CollectSubdirectory \/ ListHooks
  BY <1>3 DEF CollectDir, EndDir, Vanished, CollectLinkOrSpecial,
              CollectSubdirectory, ListHooks, Looking, Collecting,
              NoneLeftInHand, NoneCurrent
<1>4. CASE OutOfBudget \/ Touch \/ UNCHANGED identity
  BY <1>4 DEF OutOfBudget, Touch, identity, NoneLeftInHand, NoneCurrent
<1> QED BY <1>1, <1>2, <1>3, <1>4 DEF IdentityNext

LEMMA StandingTells ==
  TreeInv /\ UNCHANGED identity => TreeInv'
<1> SUFFICES ASSUME TreeInv, UNCHANGED identity PROVE TreeInv'
  OBVIOUS
<1>1. StackInPlace' /\ \A x : WaitedFor(x)' = WaitedFor(x)
  BY DEF identity, TreeInv, StackInPlace, WaitedFor
<1> QED BY <1>1, WalkTells DEF identity

LEMMA TreeBegins ==
  IdentityInit => TreeInv /\ StackOfOwn /\ NoneLeftInHand
<1> SUFFICES ASSUME IdentityInit
             PROVE  TreeInv /\ StackOfOwn /\ NoneLeftInHand
  OBVIOUS
<1>1. /\ disk \in Disks /\ touched = {} /\ current = NoneCurrent
      /\ digested = [x \in Item |-> Gone] /\ stopped = "no"
  BY DEF IdentityInit, NothingCollected
<1>2. PICK f : f = Unopened(PluginRoot, 0)
  OBVIOUS
<1>3. /\ f.dir = PluginRoot /\ f.depth = 0 /\ f.kind = "tree"
      /\ f.opened = FALSE /\ f.rest = {} /\ f \in StackFrame
  BY <1>2 DEF Unopened, StackFrame
<1>4. InPlace(f)
  BY <1>3, UpOfRoot, FS_EmptySet DEF InPlace, GitOf
<1>5. stack \in Seq(StackFrame) /\ DOMAIN stack = {1} /\ stack[1] = f
  <2>1. stack = <<f>>
    BY <1>2 DEF IdentityInit
  <2> QED BY <1>3, <2>1
<1>6. StackInPlace
  BY <1>4, <1>5 DEF StackInPlace
<1>7. \A x \in Item : WaitedFor(x)
  BY <1>3, <1>5 DEF WaitedFor, Waits, Below
<1>8. DiskIsTyped
  BY <1>1, PluginsAreFiles DEF DiskIsTyped
<1>9. StackOfOwn
  BY <1>3, <1>5, ItemsAreNested DEF StackOfOwn, OwnFrame
<1> QED BY <1>1, <1>6, <1>7, <1>8, <1>9
        DEF TreeInv, HeldIsFound, NothingElse, NoneLeftInHand

\* A step after which the directories are those that were, or one that is
\* entered, while the disk stands.
LEMMA DirectoriesStay ==
  ASSUME StackOfOwn, UNCHANGED copy,
         \A i \in DOMAIN stack' :
            \/ \E j \in DOMAIN stack : stack'[i].dir = stack[j].dir
            \/ OwnFrame(stack'[i].dir)
  PROVE  StackOfOwn'
<1>1. disk' = disk /\ touched' = touched
  BY DEF copy
<1>2. ASSUME NEW d, OwnFrame(d) PROVE OwnFrame(d)'
  BY <1>1, <1>2 DEF OwnFrame, SameAsFound, InOwn, LeadsOn
<1>3. ASSUME NEW i \in DOMAIN stack' PROVE OwnFrame(stack[i].dir)'
  <2>1. PICK d : d = stack'[i].dir
    OBVIOUS
  <2>2. OwnFrame(d)
    BY <2>1 DEF StackOfOwn
  <2> QED BY <1>2, <2>1, <2>2
<1> QED BY <1>3 DEF StackOfOwn

LEMMA LeavesEntered ==
  ASSUME StackInPlace, StackOfOwn, UNCHANGED copy, stack # <<>>, Leave
  PROVE  StackOfOwn'
<1>1. PICK n \in Nat : n = Len(stack)
  BY LenProperties DEF StackInPlace
<1>2. n # 0 /\ DOMAIN stack = 1..n
  BY <1>1, LenProperties, EmptySeq DEF StackInPlace
<1>3. /\ stack' \in Seq(StackFrame) /\ Len(stack') = n - 1
      /\ \A i \in 1..(n - 1) : stack'[i] = stack[i + 1]
  BY <1>1, <1>2, HeadTailProperties DEF StackInPlace, Leave
<1>4. ASSUME NEW i \in DOMAIN stack'
      PROVE  \E j \in DOMAIN stack : stack'[i].dir = stack[j].dir
  <2>1. i \in 1..(n - 1)
    BY <1>3, LenProperties
  <2>2. i + 1 \in DOMAIN stack /\ stack'[i] = stack[i + 1]
    BY <1>2, <1>3, <2>1
  <2> QED BY <2>2
<1> QED BY <1>4, DirectoriesStay

LEMMA ReplacesEntered ==
  ASSUME StackInPlace, StackOfOwn, UNCHANGED copy, stack # <<>>, NEW f,
         stack' = [stack EXCEPT ![1] = f],
         f.dir = stack[1].dir \/ OwnFrame(f.dir)
  PROVE  StackOfOwn'
<1>1. 1 \in DOMAIN stack
  BY LenProperties, EmptySeq DEF StackInPlace
<1>2. /\ DOMAIN stack' = DOMAIN stack /\ stack'[1] = f
      /\ \A i \in DOMAIN stack : i # 1 => stack'[i] = stack[i]
  BY <1>1 DEF StackInPlace
<1> QED BY <1>1, <1>2, DirectoriesStay

LEMMA DirectoriesAreEntered ==
  ASSUME TreeInv, StackOfOwn, caps \in CapSets, [IdentityNext]_identity
  PROVE  StackOfOwn'
<1>1. StackInPlace
  BY DEF TreeInv
<1>2. CASE \/ UNCHANGED identity \/ ReadFile \/ ReadGitFile \/ OutOfBudget
  <2>1. UNCHANGED <<copy, stack>>
    BY <1>2 DEF identity, ReadFile, ReadGitFile, OutOfBudget
  <2> QED BY <2>1, DirectoriesStay
<1>3. CASE Vanished \/ CollectLinkOrSpecial \/ LookAtFile \/ CollectGitFile
  <2>1. PICK c : stack # <<>> /\ Advance(c) /\ UNCHANGED copy
    BY <1>3 DEF Vanished, CollectLinkOrSpecial, LookAtFile, CollectGitFile,
                Looking, Collecting, GitFileNext
  <2>2. PICK f : f = [stack[1] EXCEPT !.rest = @ \ {c}]
    OBVIOUS
  <2>3. stack' = [stack EXCEPT ![1] = f] /\ f.dir = stack[1].dir
    BY <1>1, <2>1, <2>2, FirstFrame DEF Advance, StackFrame, StackInPlace
  <2> QED BY <1>1, <2>1, <2>3, ReplacesEntered
<1>4. CASE CollectDir
  <2>1. stack # <<>> /\ UNCHANGED copy
    BY <1>4 DEF CollectDir, Collecting
  <2>2. CASE Leave
    BY <1>1, <2>1, <2>2, LeavesEntered
  <2>3. CASE ~Leave
    <3>1. PICK f : f = [stack[1] EXCEPT !.opened = TRUE,
                                        !.rest = In(stack[1].dir)]
      OBVIOUS
    <3>2. stack' = [stack EXCEPT ![1].opened = TRUE,
                                 ![1].rest = In(stack[1].dir)]
      BY <1>4, <2>3 DEF CollectDir
    <3>3. stack' = [stack EXCEPT ![1] = f] /\ f.dir = stack[1].dir
      BY <1>1, <2>1, <3>1, <3>2, FirstFrame DEF StackFrame, StackInPlace
    <3> QED BY <1>1, <2>1, <3>3, ReplacesEntered
  <2> QED BY <2>2, <2>3
<1>5. CASE EndDir
  <2>1. stack # <<>> /\ UNCHANGED copy /\ Leave
    BY <1>5 DEF EndDir, Collecting
  <2> QED BY <1>1, <2>1, LeavesEntered
<1>6. CASE CollectSubdirectory
  <2>1. PICK c \in Item :
          /\ Looking(c) /\ Holding(c, "dir") /\ UNCHANGED copy
          /\ \E g : g.dir = c /\ Enters(c, g)
    BY <1>6 DEF CollectSubdirectory, Opened, Unopened
  <2>2. PICK g : g.dir = c /\ Enters(c, g)
    BY <2>1
  <2>3. stack # <<>> /\ c \in stack[1].rest
    BY <2>1, LookedIs
  <2>4. OwnFrame(c)
    <3> SUFFICES ASSUME SameAsFound(c), NEW y \in Up[c] PROVE InOwn(y)
      BY DEF OwnFrame
    <3>1. OfTree(c)
      BY <1>1, <2>3, EntryIsOwn
    <3> QED BY <2>1, <3>1
            DEF OfTree, InOwn, LeadsOn, Holding, Present
  <2>5. PICK f : f = [stack[1] EXCEPT !.rest = @ \ {c}]
    OBVIOUS
  <2>6. PICK s : s = [stack EXCEPT ![1] = f]
    OBVIOUS
  <2>7. /\ s \in Seq({stack[i] : i \in DOMAIN stack} \cup {f})
        /\ DOMAIN s = DOMAIN stack /\ f.dir = stack[1].dir
        /\ 1 \in DOMAIN stack /\ stack' = <<g>> \o s /\ s[1] = f
        /\ \A i \in DOMAIN stack : i # 1 => s[i] = stack[i]
    <3>1. /\ stack' = <<g>> \o s /\ f.dir = stack[1].dir
          /\ 1 \in DOMAIN stack
      BY <1>1, <2>2, <2>3, <2>5, <2>6, FirstFrame, LenProperties, EmptySeq
         DEF Enters, StackFrame, StackInPlace
    <3>2. stack \in Seq({stack[i] : i \in DOMAIN stack} \cup {f})
      BY <1>1 DEF StackInPlace
    <3>3. f \in {stack[i] : i \in DOMAIN stack} \cup {f}
      OBVIOUS
    <3> QED BY <2>6, <3>1, <3>2, <3>3, ExceptSeq
  <2>8. ASSUME NEW i \in DOMAIN stack'
        PROVE  \/ \E j \in DOMAIN stack : stack'[i].dir = stack[j].dir
               \/ OwnFrame(stack'[i].dir)
    <3> DEFINE S == {stack[j] : j \in DOMAIN stack} \cup {f, g}
    <3>1. s \in Seq(S) /\ g \in S
      BY <2>7
    <3> HIDE DEF S
    <3>2. /\ stack' \in Seq(S) /\ Len(stack') = Len(s) + 1
          /\ stack'[1] = g
          /\ \A k \in 1..Len(s) : stack'[k + 1] = s[k]
      BY <2>7, <3>1, OneBefore
    <3>3. PICK n \in Nat : n = Len(s)
      BY <3>1, LenProperties
    <3>4. i \in 1..(n + 1) /\ DOMAIN s = 1..n
      BY <3>1, <3>2, <3>3, LenProperties
    <3>5. i = 1 \/ (i - 1 \in 1..n /\ (i - 1) + 1 = i)
      BY <3>4
    <3>6. CASE i = 1
      BY <2>2, <2>4, <3>2, <3>6
    <3>7. CASE i - 1 \in 1..n /\ (i - 1) + 1 = i
      <4>1. stack'[i] = s[i - 1] /\ i - 1 \in DOMAIN stack
        BY <2>7, <3>2, <3>3, <3>4, <3>7
      <4>2. s[i - 1].dir = stack[i - 1].dir
        BY <2>7, <4>1
      <4> QED BY <4>1, <4>2
    <3> QED BY <3>5, <3>6, <3>7
  <2> QED BY <2>1, <2>8, DirectoriesStay
<1>7. CASE ListHooks
  <2>1. stack # <<>> /\ stack[1].kind = "git" /\ UNCHANGED copy
    BY <1>7 DEF ListHooks, Collecting
  <2>2. CASE Leave
    BY <1>1, <2>1, <2>2, LeavesEntered
  <2>3. CASE ~Leave
    <3>1. PICK h : h = Part(stack[1].dir, "hooks")
      OBVIOUS
    <3>2. /\ Listable(h)
          /\ stack' = [stack EXCEPT ![1] = Opened(h, "hooks", In(h))]
      BY <1>7, <2>3, <3>1 DEF ListHooks
    <3>3. PICK f : f = Opened(h, "hooks", In(h))
      OBVIOUS
    <3>4. IsRepository(stack[1].dir) /\ stack[1].dir \in Item
      BY <1>1, <2>1, FirstFrame DEF InPlace, IsRepository
    <3>5. h \in Item /\ Within[h] = stack[1].dir /\ IsHooks(h)
      BY <3>1, <3>4, PartIs DEF IsRepository, GitOf, IsHooks
    <3>6. OwnFrame(h)
      <4> SUFFICES ASSUME SameAsFound(h), NEW y \in Up[h] PROVE InOwn(y)
        BY DEF OwnFrame
      <4>1. InOwn(h)
        BY <3>2, <3>5, ItemsAreNested DEF Listable, InOwn, LeadsOn
      <4>2. Up[h] = {h} \cup Up[stack[1].dir]
        BY <3>5, UpIs
      <4>3. SameAsFound(stack[1].dir) /\ 1 \in DOMAIN stack
        BY <1>1, <2>1, <4>2, LenProperties, EmptySeq
           DEF SameAsFound, StackInPlace
      <4>4. \A z \in Up[stack[1].dir] : InOwn(z)
        BY <3>4, <4>3 DEF StackOfOwn, OwnFrame
      <4> QED BY <4>1, <4>2, <4>4
    <3>7. f.dir = h
      BY <3>3 DEF Opened
    <3> QED BY <1>1, <2>1, <3>2, <3>3, <3>6, <3>7, ReplacesEntered
  <2> QED BY <2>2, <2>3
<1>8. CASE Touch
  <2>1. stack' = stack
    BY <1>8 DEF Touch
  <2>2. ASSUME NEW i \in DOMAIN stack PROVE OwnFrame(stack[i].dir)'
    <3>1. PICK d : d = stack[i].dir
      OBVIOUS
    <3>2. ASSUME d \in Item, SameAsFound(d)', NEW y \in Up[d]
          PROVE  InOwn(y)'
      <4>1. SameAsFound(d) /\ disk'[d] = disk[d] /\ OfTree(d)' = OfTree(d)
        BY <1>8, <3>2, TouchedElsewhere
      <4>2. \A z \in Up[d] : InOwn(z)
        BY <3>1, <3>2, <4>1 DEF StackOfOwn, OwnFrame
      <4>3. InOwn(d)' = InOwn(d)
        BY <4>1 DEF InOwn, LeadsOn
      <4> QED BY <3>2, <4>1, <4>2, <4>3, UpHas DEF OfTree
    <3>3. OwnFrame(d)'
      BY <3>2 DEF OwnFrame
    <3> QED BY <2>1, <3>1, <3>3
  <2> QED BY <2>1, <2>2 DEF StackOfOwn
<1> QED BY <1>2, <1>3, <1>4, <1>5, <1>6, <1>7, <1>8 DEF IdentityNext

LEMMA WalkHolds == IdentitySpec => []WalkInv
<1>1. IdentityInit => TreeInv /\ StackOfOwn /\ NoneLeftInHand
  BY TreeBegins
<1>2. IdentityInv /\ TreeInv /\ StackOfOwn /\ [IdentityNext]_identity
         => TreeInv' /\ StackOfOwn'
  <2> SUFFICES ASSUME IdentityInv, TreeInv, StackOfOwn,
                      [IdentityNext]_identity
               PROVE  TreeInv' /\ StackOfOwn'
    OBVIOUS
  <2>1. caps \in CapSets /\ DOMAIN digested = Item
    BY DEF IdentityInv, KeptTyped
  <2>7. StackOfOwn'
    BY <2>1, DirectoriesAreEntered
  <2> SUFFICES TreeInv'
    BY <2>7
  <2>2. CASE CollectDir \/ EndDir \/ Vanished
    BY <2>1, <2>2, CollectDirTells, EndDirTells, VanishedTells
  <2>3. CASE CollectLinkOrSpecial \/ CollectSubdirectory
    BY <2>1, <2>3, LinkOrSpecialTells, SubdirectoryTells
  <2>4. CASE LookAtFile \/ ReadFile
    BY <2>1, <2>4, LookAtFileTells, ReadFileTells
  <2>5. CASE CollectGitFile \/ ReadGitFile \/ ListHooks
    BY <2>1, <2>5, CollectGitFileTells, ReadGitFileTells, ListHooksTells
  <2>6. CASE OutOfBudget \/ Touch \/ UNCHANGED identity
    BY <2>1, <2>6, OutOfBudgetTells, TouchTells, StandingTells
  <2> QED BY <2>2, <2>3, <2>4, <2>5, <2>6 DEF IdentityNext
<1>3. TreeInv /\ NoneLeftInHand /\ [IdentityNext]_identity => NoneLeftInHand'
  BY NoneIsLeft
<1> QED BY <1>1, <1>2, <1>3, IdentityHolds, PTL DEF IdentitySpec, WalkInv

\* When the walk has ended nothing is waited for any more.
LEMMA EndedTells ==
  ASSUME WalkInv, stack = <<>>, NEW x \in Item, Owes(x)
  PROVE  IsTold(x)
<1>1. ~WaitedFor(x)
  <2>1. DOMAIN stack = {}
    OBVIOUS
  <2> QED BY <2>1 DEF WaitedFor
<1>2. current.path # x
  BY PluginsAreFiles DEF WalkInv, NoneLeftInHand, NoneCurrent
<1> QED BY <1>1, <1>2 DEF WalkInv, TreeInv

\* lib.rs: every bound is a visible coverage loss in `limitations`, never a
\* silent gap.  For every tree, every limit and whatever changes under the
\* walk: of each path that did not change, a finished identity holds the
\* whole entry or a limitation that explains what is missing, and it holds no
\* entry that is not of the tree, except the hooks that a .git takes through
\* a link from a directory outside of it.
THEOREM IdentityTellsTree == IdentitySpec => []IdentityIsOfTree
<1>1. WalkInv => IdentityIsOfTree
  <2> SUFFICES ASSUME WalkInv, stack = <<>>, NEW x \in Item, SameAsFound(x)
               PROVE  IF Present(x) /\ OfTree(x) /\ Covered(x)
                      THEN \/ digested[x] = WholeEntry(x)
                           \/ \E l \in limitations : AccountsFor(l, x)
                      ELSE digested[x] = Gone
    BY DEF IdentityIsOfTree
  <2>1. CASE Present(x) /\ OfTree(x) /\ Covered(x)
    <3>1. IsTold(x)
      BY <2>1, EndedTells DEF Owes, Kept
    <3> QED BY <2>1, <3>1 DEF IsTold
  <2>2. CASE ~(Present(x) /\ OfTree(x) /\ Covered(x))
    BY <2>2 DEF WalkInv, TreeInv, NothingElse, Kept
  <2> QED BY <2>1, <2>2
<1> QED BY <1>1, WalkHolds, PTL

\* lib.rs, collect_git_metadata: what Git gives every repository, its config,
\* its HEAD and its directory of hooks, is never missing from an identity
\* without a limitation that names it or one that may explain any loss.
THEOREM RepositoryIsWhole == IdentitySpec => []GitIsWhole
<1>1. WalkInv => GitIsWhole
  <2> SUFFICES ASSUME WalkInv, stack = <<>>, NEW x \in Item,
                      SameAsFound(x), IsAPart(x), ~Present(x)
               PROVE  limitations \cap LossesOfPart(x) # {}
    BY DEF GitIsWhole, LossesOfPart
  <2>1. IsTold(x)
    BY EndedTells DEF Owes
  <2> QED BY <2>1 DEF IsTold
<1> QED BY <1>1, WalkHolds, PTL

(***************************************************************************)
(* ReviewProfile.  The findings that are selected are those that fewer     *)
(* outrank than there is room for, in their order.  A selection from a     *)
(* fair list is fair (SelectedIsFair), so that any number of halvings is;  *)
(* and a list that lost none is the one that was rendered, which is why    *)
(* rows that are not updated by a trim still tell a loss (RowsInv).        *)
(***************************************************************************)
\* Indices of a sequence are finitely many, and a smaller set of them that is
\* as large is the same.
LEMMA IndicesCount ==
  ASSUME NEW fs, NEW R, fs \in Seq(R), NEW T \in SUBSET DOMAIN fs
  PROVE  /\ IsFiniteSet(T) /\ Cardinality(T) \in Nat
         /\ Cardinality(T) <= Len(fs)
         /\ Cardinality(T) = Len(fs) => T = DOMAIN fs
         /\ \A S \in SUBSET T :
               /\ Cardinality(S) \in Nat /\ Cardinality(S) <= Cardinality(T)
               /\ Cardinality(S) = Cardinality(T) => S = T
<1>1. /\ Len(fs) \in Nat /\ DOMAIN fs = 1..Len(fs)
      /\ IsFiniteSet(DOMAIN fs) /\ Cardinality(DOMAIN fs) = Len(fs)
  <2>1. Len(fs) \in Nat /\ DOMAIN fs = 1..Len(fs)
    OBVIOUS
  <2>2. /\ IsFiniteSet(1..Len(fs))
        /\ Cardinality(1..Len(fs))
              = IF 1 > Len(fs) THEN 0 ELSE Len(fs) - 1 + 1
    BY <2>1, FS_Interval
  <2> QED BY <2>1, <2>2
<1>2. /\ IsFiniteSet(T) /\ Cardinality(T) <= Cardinality(DOMAIN fs)
      /\ Cardinality(DOMAIN fs) = Cardinality(T) => DOMAIN fs = T
  BY <1>1, FS_Subset
<1>3. ASSUME NEW S \in SUBSET T
      PROVE  /\ Cardinality(S) \in Nat /\ Cardinality(S) <= Cardinality(T)
             /\ Cardinality(S) = Cardinality(T) => S = T
  BY <1>2, FS_Subset, FS_CardinalityType
<1> QED BY <1>1, <1>2, <1>3, FS_CardinalityType

LEMMA SelectionCounts ==
  ASSUME NEW m \in Nat, NEW C \in SUBSET (1..m)
  PROVE  /\ \A n \in 1..Cardinality(C) : \E i \in C :
               Cardinality({j \in C : j < i}) = n - 1
         /\ \A i \in C : /\ Cardinality({j \in C : j < i}) \in Nat
                         /\ Cardinality({j \in C : j < i}) + 1
                               \in 1..Cardinality(C)
         /\ \A i, k \in C : i < k =>
               Cardinality({j \in C : j < i}) < Cardinality({j \in C : j < k})
<1> DEFINE Before(i) == {j \in C : j < i}
           place == [i \in C |-> Cardinality(Before(i)) + 1]
<1>0. \A i \in C : i \in Nat
  OBVIOUS
<1>1. IsFiniteSet(C) /\ Cardinality(C) \in Nat
  <2>1. IsFiniteSet(1..m)
    BY FS_Interval
  <2> QED BY <2>1, FS_Subset, FS_CardinalityType
<1>2. ASSUME NEW S \in SUBSET C, NEW T \in SUBSET S, NEW i \in S \ T
      PROVE  /\ Cardinality(T) \in Nat /\ Cardinality(S) \in Nat
             /\ Cardinality(T) < Cardinality(S)
  <2>1. IsFiniteSet(S) /\ Cardinality(S) \in Nat
    BY <1>1, FS_Subset, FS_CardinalityType
  <2>2. /\ IsFiniteSet(T) /\ Cardinality(T) \in Nat
        /\ Cardinality(T) <= Cardinality(S)
        /\ Cardinality(S) = Cardinality(T) => S = T
    BY <2>1, FS_Subset, FS_CardinalityType
  <2> QED BY <2>1, <2>2
<1>3. ASSUME NEW i \in C
      PROVE  /\ Cardinality(Before(i)) \in Nat
             /\ Cardinality(Before(i)) < Cardinality(C)
  <2>1. Before(i) \in SUBSET C /\ i \in C \ Before(i)
    OBVIOUS
  <2> QED BY <2>1, <1>2
<1>4. ASSUME NEW i \in C, NEW k \in C, i < k
      PROVE  Cardinality(Before(i)) < Cardinality(Before(k))
  <2>1. /\ Before(k) \in SUBSET C /\ Before(i) \in SUBSET Before(k)
        /\ i \in Before(k) \ Before(i)
    <3>1. i \in Nat /\ k \in Nat /\ i < k
      BY <1>4, <1>0
    <3>2. \A j \in C : j \in Nat
      BY <1>0
    <3>3. \A j \in C : j < i => j < k
      BY <3>1, <3>2
    <3>4. /\ \A j : j \in Before(i) <=> j \in C /\ j < i
          /\ \A j : j \in Before(k) <=> j \in C /\ j < k
      OBVIOUS
    <3>5. ~(i < i)
      BY <3>1
    <3> HIDE DEF Before
    <3> QED BY <3>1, <3>3, <3>4, <3>5, Zenon
  <2> QED BY <2>1, <1>2
<1>5. \A i \in C : place[i] \in 1..Cardinality(C)
  <2> SUFFICES ASSUME NEW i \in C PROVE place[i] \in 1..Cardinality(C)
    OBVIOUS
  <2> HIDE DEF Before
  <2>1. place[i] = Cardinality(Before(i)) + 1
    OBVIOUS
  <2> QED BY <2>1, <1>1, <1>3
<1>6. \A i, k \in C : place[i] = place[k] => i = k
  <2> SUFFICES ASSUME NEW i \in C, NEW k \in C, i # k
               PROVE  place[i] # place[k]
    OBVIOUS
  <2>0. i \in Nat /\ k \in Nat
    BY <1>0
  <2>1. place[i] = Cardinality(Before(i)) + 1
        /\ place[k] = Cardinality(Before(k)) + 1
    OBVIOUS
  <2> HIDE DEF Before, place
  <2>2. i < k \/ k < i
    BY <2>0
  <2> QED BY <2>1, <2>2, <1>3, <1>4
<1>7. place \in Injection(C, 1..Cardinality(C))
  <2> HIDE DEF Before
  <2>1. place \in [C -> 1..Cardinality(C)]
    BY <1>5
  <2> QED BY <2>1, <1>6 DEF Injection, IsInjective
<1>8. place \in Surjection(C, 1..Cardinality(C))
  <2>1. IsFiniteSet(1..Cardinality(C))
        /\ Cardinality(1..Cardinality(C)) = Cardinality(C)
    BY <1>1, FS_Interval
  <2> HIDE DEF place
  <2> QED BY <2>1, <1>7, FS_Injection
<1>9. ASSUME NEW n \in 1..Cardinality(C)
      PROVE  \E i \in C : Cardinality(Before(i)) = n - 1
  <2>1. PICK i \in C : place[i] = n
    BY <1>8 DEF Surjection
  <2> HIDE DEF Before
  <2>2. Cardinality(Before(i)) = n - 1
    BY <2>1, <1>3, <1>1
  <2> QED BY <2>2
<1>10. \A i \in C : /\ Cardinality(Before(i)) \in Nat
                    /\ Cardinality(Before(i)) + 1 \in 1..Cardinality(C)
  <2> HIDE DEF Before
  <2> QED BY <1>1, <1>3
<1> QED BY <1>4, <1>9, <1>10

Rank(fs, i) == Cardinality({j \in DOMAIN fs : Outranks(fs, j, i)})
Chosen(fs, cap) == {i \in DOMAIN fs : Rank(fs, i) < cap}

\* What is selected are the chosen, each once and in their order.
LEMMA SelectionIs ==
  ASSUME NEW fs \in Seq(FindingRecord), NEW cap
  PROVE  LET C == Chosen(fs, cap)
         IN  /\ C \in SUBSET DOMAIN fs /\ IsFiniteSet(C)
             /\ Cardinality(C) \in Nat /\ Cardinality(C) <= Len(fs)
             /\ SelectFindings(fs, cap) \in Seq(FindingRecord)
             /\ Len(SelectFindings(fs, cap)) = Cardinality(C)
             /\ \E e \in Bijection(1..Cardinality(C), C) :
                  /\ \A n \in 1..Cardinality(C) :
                        SelectFindings(fs, cap)[n] = fs[e[n]]
                  /\ Cardinality(C) = Len(fs) =>
                        \A n \in 1..Len(fs) : e[n] = n
<1>0. PICK C : C = Chosen(fs, cap)
  OBVIOUS
<1>1. /\ C \in SUBSET DOMAIN fs /\ IsFiniteSet(C)
      /\ Cardinality(C) \in Nat /\ Cardinality(C) <= Len(fs)
      /\ Cardinality(C) = Len(fs) => C = DOMAIN fs
      /\ Len(fs) \in Nat /\ DOMAIN fs = 1..Len(fs)
  BY <1>0, IndicesCount DEF Chosen
<1> DEFINE At(i) == Cardinality({j \in C : j < i})
           e == [n \in 1..Cardinality(C) |->
                    CHOOSE i \in C : At(i) = n - 1]
<1>2. /\ \A n \in 1..Cardinality(C) : \E i \in C : At(i) = n - 1
      /\ \A i \in C : At(i) \in Nat /\ At(i) + 1 \in 1..Cardinality(C)
      /\ \A i, k \in C : i < k => At(i) < At(k)
  BY <1>1, SelectionCounts
<1>3. SelectFindings(fs, cap) = [n \in 1..Cardinality(C) |-> fs[e[n]]]
  BY <1>0 DEF SelectFindings, Chosen, Rank
<1>4. ASSUME NEW n \in 1..Cardinality(C)
      PROVE  e[n] \in C /\ At(e[n]) = n - 1
  <2> HIDE DEF At
  <2>1. e[n] = CHOOSE i \in C : At(i) = n - 1
    OBVIOUS
  <2>2. \E i \in C : At(i) = n - 1
    BY <1>2
  <2> HIDE DEF e
  <2> QED BY <2>1, <2>2
<1>5. ASSUME NEW i \in C PROVE \E n \in 1..Cardinality(C) : e[n] = i
  <2> DEFINE n == At(i) + 1
  <2>1. n \in 1..Cardinality(C)
    BY <1>2
  <2>2. e[n] \in C /\ At(e[n]) = n - 1
    BY <2>1, <1>4
  <2>4. At(i) \in Int
    BY <1>2
  <2>3. At(e[n]) = At(i)
    <3> HIDE DEF At, e
    <3> QED BY <2>2, <2>4
  <2> HIDE DEF At, n, e
  <2>5. ~(e[n] < i) /\ ~(i < e[n])
    BY <2>2, <2>3, <2>4, <1>2
  <2>6. e[n] \in Int /\ i \in Int
    BY <2>2, <1>1
  <2> QED BY <2>1, <2>5, <2>6
<1>6. e \in Bijection(1..Cardinality(C), C)
  <2>1. e \in [1..Cardinality(C) -> C]
    BY <1>4
  <2>2. ASSUME NEW m \in 1..Cardinality(C), NEW n \in 1..Cardinality(C),
               e[m] = e[n]
        PROVE  m = n
    <3>1. At(e[m]) = m - 1 /\ At(e[n]) = n - 1
      BY <1>4
    <3> HIDE DEF At, e
    <3> QED BY <3>1, <2>2, <1>1
  <2> HIDE DEF e, At
  <2> QED BY <2>1, <2>2, <1>5
       DEF Bijection, Injection, Surjection, IsInjective
<1>7. ASSUME Cardinality(C) = Len(fs)
      PROVE  \A n \in 1..Len(fs) : e[n] = n
  <2> SUFFICES ASSUME NEW n \in 1..Len(fs) PROVE e[n] = n
    OBVIOUS
  <2>1. C = 1..Len(fs)
    BY <1>1, <1>7
  <2>2. e[n] \in C /\ At(e[n]) = n - 1
    BY <1>4, <1>7
  <2>3. PICK k \in C : k = e[n]
    BY <2>2
  <2>4. {j \in C : j < k} = 1..(k - 1)
    <3>1. Len(fs) \in Nat /\ k \in 1..Len(fs)
      BY <1>1, <2>1
    <3>2. {j \in 1..Len(fs) : j < k} = 1..(k - 1)
      BY <3>1
    <3> QED BY <3>2, <2>1
  <2>5. Cardinality(1..(k - 1)) = k - 1
    BY <2>1, FS_Interval
  <2>6. Cardinality({j \in C : j < k}) = n - 1
    BY <2>2, <2>3
  <2> HIDE DEF e, At
  <2>7. k - 1 = n - 1
    BY <2>4, <2>5, <2>6
  <2> QED BY <2>1, <2>3, <2>7
<1> HIDE DEF e, At
<1>8. /\ SelectFindings(fs, cap) \in Seq(FindingRecord)
      /\ Len(SelectFindings(fs, cap)) = Cardinality(C)
  <2>1. \A n \in 1..Cardinality(C) : fs[e[n]] \in FindingRecord
    BY <1>1, <1>4
  <2>2. SelectFindings(fs, cap) \in [1..Cardinality(C) -> FindingRecord]
    BY <2>1, <1>3
  <2> HIDE DEF FindingRecord
  <2> QED BY <2>2, <1>1, LenProperties, SeqDef
<1>9. \A n \in 1..Cardinality(C) : SelectFindings(fs, cap)[n] = fs[e[n]]
  BY <1>3
<1> QED BY <1>0, <1>1, <1>6, <1>7, <1>8, <1>9

\* The turns of a finding are numbers.
LEMMA TurnsAreNumbers ==
  ASSUME NEW fs \in Seq(FindingRecord), NEW i \in DOMAIN fs
  PROVE  /\ i \in Nat /\ 1 <= i
         /\ PathRound(fs, i) \in Nat /\ RuleRound(fs, i) \in Nat
         /\ fs[i] \in FindingRecord
         /\ fs[i].severity \in Nat /\ fs[i].rule \in Nat
         /\ fs[i].path \in Nat
<1>1. /\ i \in Nat /\ 1 <= i /\ 1..(i - 1) \subseteq DOMAIN fs
  OBVIOUS
<1>2. fs[i] \in FindingRecord
  OBVIOUS
<1>3. PathRound(fs, i) \in Nat
  <2> DEFINE T == {j \in 1..(i - 1) : SameRule(fs[j], fs[i])
                                         /\ fs[j].path = fs[i].path}
  <2>1. T \in SUBSET DOMAIN fs
    BY <1>1
  <2>2. Cardinality(T) \in Nat
    <3> HIDE DEF T
    <3> QED BY <2>1, IndicesCount
  <2> QED BY <2>2 DEF PathRound
<1>4. RuleRound(fs, i) \in Nat
  <2> DEFINE T == {j \in DOMAIN fs :
                     /\ SameRule(fs[j], fs[i])
                     /\ \/ PathRound(fs, j) < PathRound(fs, i)
                        \/ PathRound(fs, j) = PathRound(fs, i)
                           /\ fs[j].path < fs[i].path}
  <2>1. T \in SUBSET DOMAIN fs
    OBVIOUS
  <2>2. Cardinality(T) \in Nat
    <3> HIDE DEF T
    <3> QED BY <2>1, IndicesCount
  <2> QED BY <2>2 DEF RuleRound
<1> QED BY <1>1, <1>2, <1>3, <1>4 DEF FindingRecord

\* Whoever outranks a chosen finding is chosen.
LEMMA ChosenAreFirst ==
  ASSUME NEW fs \in Seq(FindingRecord), NEW cap \in Nat,
         NEW i \in Chosen(fs, cap), NEW j \in DOMAIN fs,
         Outranks(fs, j, i)
  PROVE  j \in Chosen(fs, cap)
<1> DEFINE over(k) == {h \in DOMAIN fs : Outranks(fs, h, k)}
<1>1. i \in DOMAIN fs /\ Cardinality(over(i)) < cap
  BY DEF Chosen, Rank
<1>2. ASSUME NEW h \in DOMAIN fs, Outranks(fs, h, j)
      PROVE  Outranks(fs, h, i)
  <2> DEFINE s(k) == fs[k].severity
             r(k) == fs[k].rule
             t(k) == RuleRound(fs, k)
             higher(a, b) == \/ s(a) > s(b)
                            \/ /\ s(a) = s(b)
                               /\ \/ t(a) < t(b)
                                  \/ t(a) = t(b) /\ r(a) < r(b)
  <2>1. \A k \in DOMAIN fs : s(k) \in Nat /\ r(k) \in Nat /\ t(k) \in Nat
    BY TurnsAreNumbers
  <2>2. \A a, b \in DOMAIN fs : Outranks(fs, a, b) <=> higher(a, b)
    BY DEF Outranks
  <2>3. higher(h, j) /\ higher(j, i)
    BY <1>1, <1>2, <2>2
  <2>4. higher(h, i)
    <3> HIDE DEF s, r, t
    <3> QED BY <1>1, <2>1, <2>3
  <2> QED BY <1>1, <2>2, <2>4
<1>3. ~Outranks(fs, j, j)
  BY TurnsAreNumbers DEF Outranks
<1>4. /\ over(i) \in SUBSET DOMAIN fs /\ over(j) \in SUBSET over(i)
      /\ over(i) # over(j)
  <2>1. j \in over(i) /\ j \notin over(j)
    BY <1>3
  <2> QED BY <1>2, <2>1
<1>5. /\ Cardinality(over(i)) \in Nat /\ Cardinality(over(j)) \in Nat
      /\ Cardinality(over(j)) < Cardinality(over(i))
  <2> HIDE DEF over
  <2>1. /\ Cardinality(over(i)) \in Nat
        /\ \A S \in SUBSET over(i) :
             /\ Cardinality(S) \in Nat
             /\ Cardinality(S) <= Cardinality(over(i))
             /\ Cardinality(S) = Cardinality(over(i)) => S = over(i)
    BY <1>4, IndicesCount
  <2> QED BY <2>1, <1>4
<1>6. Cardinality(over(j)) < cap
  <2> HIDE DEF over
  <2> QED BY <1>1, <1>5
<1> QED BY <1>6 DEF Chosen, Rank

\* Of the findings of one rule and severity, one has the first turn,
LEMMA FirstTurn ==
  ASSUME NEW fs \in Seq(FindingRecord), NEW i \in DOMAIN fs
  PROVE  \E j \in DOMAIN fs : SameRule(fs[j], fs[i]) /\ RuleRound(fs, j) = 0
<1> DEFINE family == {j \in DOMAIN fs : SameRule(fs[j], fs[i])}
           turns == {PathRound(fs, j) : j \in family}
<1>1. i \in family /\ turns \in SUBSET Nat /\ turns # {}
  BY TurnsAreNumbers DEF SameRule
<1>2. PICK turn \in turns : \A m \in turns : turn <= m
  <2> HIDE DEF turns
  <2> QED BY <1>1, LeastNatural
<1> DEFINE early == {j \in family : PathRound(fs, j) = turn}
           paths == {fs[j].path : j \in early}
<1>3. paths \in SUBSET Nat /\ paths # {}
  BY <1>2, TurnsAreNumbers
<1>4. PICK path \in paths : \A m \in paths : path <= m
  <2> HIDE DEF paths
  <2> QED BY <1>3, LeastNatural
<1>5. PICK j \in early : fs[j].path = path
  BY <1>4
<1>6. ASSUME NEW h \in DOMAIN fs, SameRule(fs[h], fs[j])
      PROVE  /\ ~(PathRound(fs, h) < PathRound(fs, j))
             /\ ~(/\ PathRound(fs, h) = PathRound(fs, j)
                  /\ fs[h].path < fs[j].path)
  <2>1. h \in family
    BY <1>5, <1>6 DEF SameRule
  <2>2. turn <= PathRound(fs, h)
    BY <1>2, <2>1
  <2>3. PathRound(fs, h) = turn => path <= fs[h].path
    BY <1>4, <2>1
  <2>4. PathRound(fs, j) = turn /\ j \in DOMAIN fs
    BY <1>5
  <2> HIDE DEF family, turns, early, paths
  <2> QED BY <2>2, <2>3, <2>4, <1>5, TurnsAreNumbers
<1>7. RuleRound(fs, j) = 0
  <2> DEFINE T == {h \in DOMAIN fs :
                     /\ SameRule(fs[h], fs[j])
                     /\ \/ PathRound(fs, h) < PathRound(fs, j)
                        \/ PathRound(fs, h) = PathRound(fs, j)
                           /\ fs[h].path < fs[j].path}
  <2>1. T = {}
    BY <1>6
  <2>2. RuleRound(fs, j) = Cardinality(T)
    BY DEF RuleRound
  <2> QED BY <2>1, <2>2, FS_EmptySet
<1> QED BY <1>5, <1>7

\* and no other.
LEMMA OneFirstTurn ==
  ASSUME NEW fs \in Seq(FindingRecord), NEW i \in DOMAIN fs,
         NEW k \in DOMAIN fs, i < k, SameRule(fs[i], fs[k])
  PROVE  RuleRound(fs, i) > 0 \/ RuleRound(fs, k) > 0
<1> DEFINE sooner(a, b) == \/ PathRound(fs, a) < PathRound(fs, b)
                           \/ PathRound(fs, a) = PathRound(fs, b)
                              /\ fs[a].path < fs[b].path
           T(b) == {h \in DOMAIN fs :
                      SameRule(fs[h], fs[b]) /\ sooner(h, b)}
<1>1. ASSUME NEW a \in DOMAIN fs, NEW b \in DOMAIN fs,
             SameRule(fs[a], fs[b]), sooner(a, b)
      PROVE  RuleRound(fs, b) > 0
  <2>1. RuleRound(fs, b) = Cardinality(T(b))
    BY DEF RuleRound
  <2>2. a \in T(b) /\ T(b) \in SUBSET DOMAIN fs
    BY <1>1
  <2>3. Cardinality(T(b)) \in Nat /\ IsFiniteSet(T(b))
    <3> HIDE DEF T
    <3> QED BY <2>2, IndicesCount
  <2>4. Cardinality(T(b)) # 0
    <3> HIDE DEF T
    <3> QED BY <2>2, <2>3, FS_EmptySet
  <2> HIDE DEF T
  <2> QED BY <2>1, <2>3, <2>4
<1>2. fs[i].path = fs[k].path => PathRound(fs, i) < PathRound(fs, k)
  <2> SUFFICES ASSUME fs[i].path = fs[k].path
               PROVE  PathRound(fs, i) < PathRound(fs, k)
    OBVIOUS
  <2> DEFINE P(b) == {j \in 1..(b - 1) : SameRule(fs[j], fs[b])
                                          /\ fs[j].path = fs[b].path}
  <2>1. PathRound(fs, i) = Cardinality(P(i))
        /\ PathRound(fs, k) = Cardinality(P(k))
    BY DEF PathRound
  <2>2. i \in Nat /\ k \in Nat /\ 1 <= i /\ 1..(k - 1) \subseteq DOMAIN fs
    OBVIOUS
  <2>3. /\ P(k) \in SUBSET DOMAIN fs
        /\ P(i) \in SUBSET P(k)
        /\ i \in P(k) /\ i \notin P(i)
    BY <2>2 DEF SameRule
  <2>4. /\ Cardinality(P(k)) \in Nat
        /\ \A S \in SUBSET P(k) :
             /\ Cardinality(S) \in Nat
             /\ Cardinality(S) <= Cardinality(P(k))
             /\ Cardinality(S) = Cardinality(P(k)) => S = P(k)
    <3> HIDE DEF P
    <3> QED BY <2>3, IndicesCount
  <2> HIDE DEF P
  <2> QED BY <2>1, <2>3, <2>4
<1>3. sooner(i, k) \/ sooner(k, i)
  BY <1>2, TurnsAreNumbers
<1>4. SameRule(fs[k], fs[i])
  BY DEF SameRule
<1> HIDE DEF sooner
<1> QED BY <1>1, <1>3, <1>4

\* What a selection keeps of a family.
LEMMA FamilyOfSelected ==
  ASSUME NEW fs \in Seq(FindingRecord), NEW cap, NEW f
  PROVE  OfFamily(SelectFindings(fs, cap), f)
           = Cardinality({i \in Chosen(fs, cap) : SameRule(fs[i], f)})
<1> DEFINE new == SelectFindings(fs, cap)
           C == Chosen(fs, cap)
           S == {n \in 1..Cardinality(C) : SameRule(new[n], f)}
           T == {i \in C : SameRule(fs[i], f)}
<1>1. /\ Cardinality(C) \in Nat
      /\ Len(new) = Cardinality(C) /\ new \in Seq(FindingRecord)
  BY SelectionIs
<1>2. PICK e \in Bijection(1..Cardinality(C), C) :
        \A n \in 1..Cardinality(C) : new[n] = fs[e[n]]
  BY SelectionIs
<1>3. /\ DOMAIN new = 1..Cardinality(C)
      /\ OfFamily(new, f) = Cardinality(S)
  <2> HIDE DEF new, C
  <2> QED BY <1>1 DEF OfFamily
<1> HIDE DEF new, C
<1>4. [n \in S |-> e[n]] \in Bijection(S, T)
  BY <1>2 DEF Bijection, Injection, Surjection, IsInjective
<1>5. IsFiniteSet(S)
  <2>1. IsFiniteSet(1..Cardinality(C))
    BY <1>1, FS_Interval
  <2> QED BY <2>1, FS_Subset
<1>6. Cardinality(T) = Cardinality(S)
  <2> HIDE DEF S, T
  <2> QED BY <1>4, <1>5, FS_Bijection DEF ExistsBijection
<1> QED BY <1>3, <1>6 DEF new, C

\* What is fair of a list of findings and what it lists: SelectionIsFair.
Fair(whole, fs) ==
    \A i \in DOMAIN whole, j \in DOMAIN fs :
        /\ OfFamily(fs, whole[i]) < OfFamily(whole, whole[i]) =>
              whole[i].severity <= fs[j].severity
        /\ fs[j].severity = whole[i].severity /\ OfFamily(fs, whole[i]) = 0 =>
              OfFamily(fs, fs[j]) <= 1

LEMMA FamilyIsCounted ==
  ASSUME NEW fs \in Seq(FindingRecord), NEW f
  PROVE  /\ OfFamily(fs, f) \in Nat
         /\ OfFamily(fs, f) = 0 =>
               \A i \in DOMAIN fs : ~SameRule(fs[i], f)
<1> DEFINE T == {i \in DOMAIN fs : SameRule(fs[i], f)}
<1>1. T \in SUBSET DOMAIN fs
  OBVIOUS
<1>2. IsFiniteSet(T) /\ Cardinality(T) \in Nat
  <2> HIDE DEF T
  <2> QED BY <1>1, IndicesCount
<1>3. Cardinality(T) = 0 => T = {}
  <2> HIDE DEF T
  <2> QED BY <1>2, FS_EmptySet
<1> QED BY <1>2, <1>3 DEF OfFamily

LEMMA AllIsFair ==
  ASSUME NEW fs \in Seq(FindingRecord)
  PROVE  Fair(fs, fs)
<1>1. ASSUME NEW i \in DOMAIN fs
      PROVE  /\ OfFamily(fs, fs[i]) \in Nat
             /\ OfFamily(fs, fs[i]) # 0
  <2>1. SameRule(fs[i], fs[i])
    BY DEF SameRule
  <2> QED BY <2>1, FamilyIsCounted
<1> QED BY <1>1 DEF Fair

\* Shaping the evidence of findings leaves their families alone.
LEMMA ShapedFamilies ==
  ASSUME NEW whole \in Seq(FindingRecord), NEW fs \in Seq(FindingRecord),
         NEW how \in {"full", "review"}, Fair(whole, fs)
  PROVE  Fair(whole, ShapeEvidence(fs, how))
<1> DEFINE new == ShapeEvidence(fs, how)
<1>1. /\ DOMAIN new = DOMAIN fs
      /\ \A i \in DOMAIN fs : /\ new[i].severity = fs[i].severity
                              /\ new[i].rule = fs[i].rule
  <2>1. \A i \in DOMAIN fs : fs[i] \in FindingRecord
    OBVIOUS
  <2>2. DOMAIN new = DOMAIN fs /\ \A i \in DOMAIN fs :
                                    new[i] = Shaped(fs[i], how)
    BY DEF ShapeEvidence
  <2>3. ASSUME NEW r \in FindingRecord
        PROVE  /\ Shaped(r, how).severity = r.severity
               /\ Shaped(r, how).rule = r.rule
    BY DEF Shaped, FindingRecord
  <2> HIDE DEF new
  <2> QED BY <2>1, <2>2, <2>3
<1>2. ASSUME NEW f, NEW g, f.severity = g.severity, f.rule = g.rule
      PROVE  OfFamily(new, f) = OfFamily(fs, g)
  <2>1. {i \in DOMAIN new : SameRule(new[i], f)}
          = {i \in DOMAIN fs : SameRule(fs[i], g)}
    BY <1>1, <1>2 DEF SameRule
  <2> QED BY <2>1 DEF OfFamily
<1> HIDE DEF new
<1>3. \A f : OfFamily(new, f) = OfFamily(fs, f)
  BY <1>2
<1>4. \A j \in DOMAIN fs : OfFamily(new, new[j]) = OfFamily(fs, fs[j])
  BY <1>1, <1>2
<1>5. Fair(whole, new)
  BY <1>1, <1>3, <1>4 DEF Fair
<1> QED BY <1>5 DEF new

\* A selection from what is fair is fair.
LEMMA SelectedIsFair ==
  ASSUME NEW whole \in Seq(FindingRecord), NEW fs \in Seq(FindingRecord),
         NEW cap \in Nat, Fair(whole, fs)
  PROVE  Fair(whole, SelectFindings(fs, cap))
<1> DEFINE new == SelectFindings(fs, cap)
           C == Chosen(fs, cap)
           Taken(f) == {i \in C : SameRule(fs[i], f)}
           Old(f) == {i \in DOMAIN fs : SameRule(fs[i], f)}
<1>1. /\ C \in SUBSET DOMAIN fs /\ new \in Seq(FindingRecord)
      /\ Cardinality(C) \in Nat /\ Len(new) = Cardinality(C)
  BY SelectionIs
<1>2. \A j \in DOMAIN new : \E k \in C : new[j] = fs[k]
  <2>1. PICK e \in Bijection(1..Cardinality(C), C) :
          \A n \in 1..Cardinality(C) : new[n] = fs[e[n]]
    BY SelectionIs
  <2>2. DOMAIN new = 1..Cardinality(C)
    <3> HIDE DEF new, C
    <3> QED BY <1>1
  <2>3. e \in [1..Cardinality(C) -> C]
    BY <2>1 DEF Bijection, Injection
  <2> HIDE DEF new, C
  <2> QED BY <2>1, <2>2, <2>3
<1>3. ASSUME NEW f
      PROVE  /\ OfFamily(new, f) = Cardinality(Taken(f))
             /\ OfFamily(fs, f) = Cardinality(Old(f))
             /\ Cardinality(Taken(f)) \in Nat /\ Cardinality(Old(f)) \in Nat
             /\ IsFiniteSet(Taken(f)) /\ IsFiniteSet(Old(f))
             /\ Cardinality(Taken(f)) <= Cardinality(Old(f))
             /\ Taken(f) = Old(f) \/ \E i \in Old(f) : i \notin C
  <2>1. Taken(f) \in SUBSET Old(f) /\ Old(f) \in SUBSET DOMAIN fs
    BY <1>1
  <2>2. IsFiniteSet(Old(f)) /\ Cardinality(Old(f)) \in Nat
    <3> HIDE DEF Old
    <3> QED BY <2>1, IndicesCount
  <2>3. /\ IsFiniteSet(Taken(f)) /\ Cardinality(Taken(f)) \in Nat
        /\ Cardinality(Taken(f)) <= Cardinality(Old(f))
    <3> HIDE DEF Old, Taken
    <3> QED BY <2>1, <2>2, FS_Subset, FS_CardinalityType
  <2>4. OfFamily(new, f) = Cardinality(Taken(f))
    BY FamilyOfSelected
  <2>5. OfFamily(fs, f) = Cardinality(Old(f))
    BY DEF OfFamily
  <2>6. Taken(f) = Old(f) \/ \E i \in Old(f) : i \notin C
    BY <1>1
  <2> QED BY <2>2, <2>3, <2>4, <2>5, <2>6
<1> SUFFICES ASSUME NEW i \in DOMAIN whole, NEW j \in DOMAIN new
             PROVE  /\ OfFamily(new, whole[i]) < OfFamily(whole, whole[i]) =>
                          whole[i].severity <= new[j].severity
                    /\ /\ new[j].severity = whole[i].severity
                       /\ OfFamily(new, whole[i]) = 0
                       => OfFamily(new, new[j]) <= 1
  BY DEF Fair
<1>4. PICK k \in C : new[j] = fs[k]
  BY <1>2
<1>5. k \in DOMAIN fs /\ whole[i].severity \in Nat
      /\ fs[k].severity \in Nat
  BY <1>1, TurnsAreNumbers
<1>6. /\ OfFamily(whole, whole[i]) \in Nat
      /\ OfFamily(fs, whole[i]) < OfFamily(whole, whole[i]) =>
            whole[i].severity <= fs[k].severity
      /\ fs[k].severity = whole[i].severity /\ OfFamily(fs, whole[i]) = 0 =>
            OfFamily(fs, fs[k]) <= 1
  BY <1>5, FamilyIsCounted DEF Fair
<1>7. ASSUME OfFamily(new, whole[i]) < OfFamily(whole, whole[i])
      PROVE  whole[i].severity <= new[j].severity
  <2>1. CASE OfFamily(fs, whole[i]) < OfFamily(whole, whole[i])
    BY <2>1, <1>4, <1>6
  <2>2. CASE ~(OfFamily(fs, whole[i]) < OfFamily(whole, whole[i]))
    <3>1. Cardinality(Taken(whole[i])) # Cardinality(Old(whole[i]))
      <4> HIDE DEF Taken, Old, new
      <4> QED BY <2>2, <1>3, <1>6, <1>7
    <3>2. PICK h \in Old(whole[i]) : h \notin C
      <4> HIDE DEF C, new, Kept, Old
      <4> QED BY <3>1, <1>3
    <3>3. ~Outranks(fs, h, k)
      BY <3>2, <1>4, ChosenAreFirst
    <3>4. ~(fs[h].severity > fs[k].severity)
      BY <3>3 DEF Outranks
    <3>5. fs[h].severity = whole[i].severity
      BY <3>2 DEF SameRule
    <3> QED BY <3>4, <3>5, <1>4, <1>5
  <2> QED BY <2>1, <2>2
<1>8. ASSUME new[j].severity = whole[i].severity,
             OfFamily(new, whole[i]) = 0
      PROVE  OfFamily(new, new[j]) <= 1
  <2>1. CASE OfFamily(fs, whole[i]) = 0
    <3>1. OfFamily(fs, fs[k]) <= 1
      BY <2>1, <1>4, <1>6, <1>8
    <3>2. OfFamily(new, fs[k]) <= OfFamily(fs, fs[k])
      <4> HIDE DEF Taken, Old, new, C
      <4> QED BY <1>3
    <3>3. OfFamily(new, fs[k]) \in Nat /\ OfFamily(fs, fs[k]) \in Nat
      <4> HIDE DEF Taken, Old, new, C
      <4> QED BY <1>3
    <3> HIDE DEF new, C
    <3> QED BY <3>1, <3>2, <3>3, <1>4
  <2>2. CASE OfFamily(fs, whole[i]) # 0
    <3>1. Old(whole[i]) # {} /\ Taken(whole[i]) = {}
      <4> HIDE DEF Taken, Old, new, C
      <4> QED BY <2>2, <1>3, <1>8, FS_EmptySet
    <3>2. PICK g \in DOMAIN fs : SameRule(fs[g], whole[i])
      BY <3>1
    <3>3. PICK h \in DOMAIN fs :
             SameRule(fs[h], fs[g]) /\ RuleRound(fs, h) = 0
      BY FirstTurn
    <3>4. SameRule(fs[h], whole[i]) /\ h \notin C
      <4>1. SameRule(fs[h], whole[i])
        BY <3>2, <3>3 DEF SameRule
      <4> QED BY <4>1, <3>1
    <3>5. ASSUME NEW a \in Taken(fs[k]) PROVE RuleRound(fs, a) = 0
      <4>1. a \in C /\ a \in DOMAIN fs
            /\ fs[a].severity = fs[k].severity
        BY <1>1 DEF SameRule
      <4>2. ~Outranks(fs, h, a)
        BY <3>4, <4>1, ChosenAreFirst
      <4>3. fs[h].severity = fs[a].severity
        BY <3>4, <4>1, <1>4, <1>8 DEF SameRule
      <4>4. RuleRound(fs, a) \in Nat /\ ~(0 < RuleRound(fs, a))
        BY <4>1, <4>2, <4>3, <3>3, TurnsAreNumbers DEF Outranks
      <4> QED BY <4>4
    <3>6. ASSUME NEW a \in Taken(fs[k]), NEW b \in Taken(fs[k])
          PROVE  a = b
      <4>1. /\ a \in DOMAIN fs /\ b \in DOMAIN fs
            /\ SameRule(fs[a], fs[b]) /\ SameRule(fs[b], fs[a])
        BY <1>1 DEF SameRule
      <4>2. RuleRound(fs, a) = 0 /\ RuleRound(fs, b) = 0
        BY <3>5
      <4>3. ~(a < b) /\ ~(b < a)
        BY <4>1, <4>2, OneFirstTurn
      <4>4. a \in Nat /\ b \in Nat
        BY <4>1, TurnsAreNumbers
      <4> QED BY <4>3, <4>4
    <3>7. k \in Taken(fs[k])
      BY DEF SameRule
    <3>8. Cardinality(Taken(fs[k])) = 1
      <4>1. Taken(fs[k]) = {k}
        BY <3>6, <3>7
      <4> HIDE DEF Kept
      <4> QED BY <4>1, FS_Singleton
    <3> HIDE DEF new, C, Taken, Old
    <3> QED BY <3>8, <1>3, <1>4
  <2> QED BY <2>1, <2>2
<1> HIDE DEF new
<1> QED BY <1>7, <1>8

ListsRecord ==
    [ findings : Seq(FindingRecord), capabilities : Seq(STRING),
      invocation_edges : Nat, coverage_gaps : Nat, code_exposure : Nat ]

\* The findings of a report in a profile are those that profile shows.
ShapedAs(fs, how) ==
    \A i \in DOMAIN fs :
        /\ fs[i].truncated <=> fs[i].wide > Widest[how]
        /\ ~fs[i].truncated => fs[i].shown = fs[i].steps
NoneWide(fs, how) == \A i \in DOMAIN fs : fs[i].wide <= Widest[how]

LEMMA WidthIsNumber ==
  ASSUME NEW f \in FindingRecord
  PROVE  f.wide \in Nat
BY DEF FindingRecord

\* Shaping findings, for the full profile what nothing shaped before,
LEMMA ShapingIs ==
  ASSUME NEW fs \in Seq(FindingRecord), NEW how \in {"full", "review"},
         NEW was \in {"none", "full"}, how = "full" \/ was = "full",
         was = "full" => ShapedAs(fs, "full"),
         was = "none" => \A i \in DOMAIN fs : /\ fs[i].shown = fs[i].steps
                                              /\ ~fs[i].truncated
  PROVE  /\ ShapeEvidence(fs, how) \in Seq(FindingRecord)
         /\ Len(ShapeEvidence(fs, how)) = Len(fs)
         /\ ShapedAs(ShapeEvidence(fs, how), how)
         /\ \A i \in DOMAIN fs :
               /\ ShapeEvidence(fs, how)[i].wide = fs[i].wide
               /\ ShapeEvidence(fs, how)[i].steps = fs[i].steps
<1> DEFINE new == ShapeEvidence(fs, how)
<1>1. \A i \in DOMAIN fs : fs[i] \in FindingRecord
  OBVIOUS
<1>2. /\ new = [i \in DOMAIN fs |-> Shaped(fs[i], how)]
      /\ DOMAIN fs = 1..Len(fs) /\ Len(fs) \in Nat
  BY DEF ShapeEvidence
<1>3. ASSUME NEW r \in FindingRecord
      PROVE  /\ Shaped(r, how) \in FindingRecord
             /\ Shaped(r, how).wide = r.wide /\ Shaped(r, how).steps = r.steps
             /\ Shaped(r, how).truncated
                  <=> r.truncated \/ r.wide > Widest[how]
             /\ ~(r.wide > Widest[how]) => Shaped(r, how).shown = r.shown
  BY DEF Shaped, FindingRecord, Least
<1>4. new \in Seq(FindingRecord) /\ Len(new) = Len(fs)
  <2>1. \A i \in 1..Len(fs) : new[i] \in FindingRecord
    BY <1>1, <1>2, <1>3
  <2>2. new \in [1..Len(fs) -> FindingRecord]
    BY <1>2, <2>1
  <2> HIDE DEF new
  <2> QED BY <2>2, <1>2, LenProperties, SeqDef
<1>5. ASSUME NEW i \in DOMAIN fs
      PROVE  /\ new[i].wide = fs[i].wide /\ new[i].steps = fs[i].steps
             /\ new[i].truncated <=> new[i].wide > Widest[how]
             /\ ~new[i].truncated => new[i].shown = new[i].steps
  <2>1. new[i] = Shaped(fs[i], how) /\ fs[i] \in FindingRecord
    BY <1>1, <1>2
  <2>2. fs[i].truncated => fs[i].wide > Widest["full"]
    BY DEF ShapedAs
  <2>3. ~fs[i].truncated => fs[i].shown = fs[i].steps
    BY DEF ShapedAs
  <2>4. fs[i].wide > Widest["full"] => fs[i].wide > Widest[how]
    <3>1. Widest[how] \in Nat /\ Widest["full"] >= Widest[how]
          /\ Widest["full"] \in Nat
      BY DEF Widest
    <3>2. fs[i].wide \in Nat
      BY <1>1, WidthIsNumber
    <3> QED BY <3>1, <3>2
  <2>5. PICK r \in FindingRecord : r = fs[i]
    BY <2>1
  <2>6. PICK s : s = Shaped(r, how)
    OBVIOUS
  <2>7. /\ s.wide = r.wide /\ s.steps = r.steps
        /\ s.truncated <=> r.truncated \/ r.wide > Widest[how]
        /\ ~(r.wide > Widest[how]) => s.shown = r.shown
    BY <1>3, <2>6
  <2> HIDE DEF new
  <2> QED BY <2>1, <2>2, <2>3, <2>4, <2>5, <2>6, <2>7
<1>6. ShapedAs(new, how)
  <2>1. DOMAIN new = DOMAIN fs
    BY <1>2
  <2> HIDE DEF new
  <2> QED BY <2>1, <1>5 DEF ShapedAs
<1> QED BY <1>4, <1>5, <1>6

\* A selection is of the findings, and one of all of them is all of them.
LEMMA SelectionOf ==
  ASSUME NEW fs \in Seq(FindingRecord), NEW cap
  PROVE  /\ SelectFindings(fs, cap) \in Seq(FindingRecord)
         /\ Len(SelectFindings(fs, cap)) \in Nat
         /\ Len(SelectFindings(fs, cap)) <= Len(fs)
         /\ Len(SelectFindings(fs, cap)) = Len(fs) =>
               SelectFindings(fs, cap) = fs
         /\ \A how \in {"full", "review"} : ShapedAs(fs, how) =>
               ShapedAs(SelectFindings(fs, cap), how)
<1> DEFINE new == SelectFindings(fs, cap)
           C == Chosen(fs, cap)
<1>1. /\ new \in Seq(FindingRecord) /\ Len(new) = Cardinality(C)
      /\ Cardinality(C) \in Nat /\ Cardinality(C) <= Len(fs)
      /\ C \in SUBSET DOMAIN fs
  BY SelectionIs
<1>2. PICK e \in Bijection(1..Cardinality(C), C) :
        /\ \A n \in 1..Cardinality(C) : new[n] = fs[e[n]]
        /\ Cardinality(C) = Len(fs) => \A n \in 1..Len(fs) : e[n] = n
  BY SelectionIs
<1>3. e \in [1..Cardinality(C) -> C]
  BY <1>2 DEF Bijection, Injection
<1> HIDE DEF new, C
<1>4. Len(new) = Len(fs) => new = fs
  <2> SUFFICES ASSUME Len(new) = Len(fs) PROVE new = fs
    OBVIOUS
  <2>1. \A n \in 1..Len(new) : new[n] = fs[n]
    BY <1>1, <1>2
  <2> QED BY <2>1, <1>1, SeqEqual
<1>5. ASSUME NEW how \in {"full", "review"}, ShapedAs(fs, how)
      PROVE  ShapedAs(new, how)
  <2>1. DOMAIN new = 1..Cardinality(C)
    BY <1>1
  <2>2. \A n \in DOMAIN new : e[n] \in DOMAIN fs /\ new[n] = fs[e[n]]
    BY <2>1, <1>1, <1>2, <1>3
  <2> QED BY <2>2, <1>5 DEF ShapedAs
<1>6. /\ new \in Seq(FindingRecord) /\ Len(new) \in Nat
      /\ Len(new) <= Len(fs)
  BY <1>1
<1> QED BY <1>4, <1>5, <1>6 DEF new

\* Observations are finitely many.
LEMMA ObservationsCount ==
  ASSUME NEW m \in Nat, NEW counts, DOMAIN counts = 1..m,
         \A i \in 1..m : counts[i] \in Nat
  PROVE  Cardinality(Observations(counts)) \in Nat
<1> DEFINE of(i) == {i} \X (1..counts[i])
           T == {of(i) : i \in 1..m}
<1>1. IsFiniteSet(1..m)
  BY FS_Interval
<1>2. [i \in 1..m |-> of(i)] \in Surjection(1..m, T)
  <2>1. \A S \in T : \E i \in 1..m : S = of(i)
    OBVIOUS
  <2>2. \A i \in 1..m : of(i) \in T
    OBVIOUS
  <2> HIDE DEF of, T
  <2> QED BY <2>1, <2>2 DEF Surjection
<1>3. IsFiniteSet(T)
  <2> HIDE DEF T
  <2> QED BY <1>1, <1>2, FS_Surjection
<1>4. ASSUME NEW S \in T PROVE IsFiniteSet(S)
  <2>1. PICK i \in 1..m : S = {i} \X (1..counts[i])
    OBVIOUS
  <2>2. IsFiniteSet({i}) /\ IsFiniteSet(1..counts[i])
    <3>1. counts[i] \in Int
      OBVIOUS
    <3>2. IsFiniteSet(1..counts[i])
      BY <3>1, FS_Interval
    <3> QED BY <3>2, FS_Singleton
  <2> QED BY <2>1, <2>2, FS_Product
<1>5. IsFiniteSet(UNION T)
  <2> HIDE DEF T
  <2> QED BY <1>3, <1>4, FS_UNION
<1>6. Observations(counts) = UNION T
  BY DEF Observations
<1> QED BY <1>5, <1>6, FS_CardinalityType

LEMMA EvidenceCounts ==
  ASSUME NEW fs \in Seq(FindingRecord)
  PROVE  TotalEvidence(fs) \in Nat /\ ShownEvidence(fs) \in Nat
<1>1. \A i \in DOMAIN fs : fs[i].steps \in Nat /\ fs[i].shown \in Nat
  <2>1. \A i \in DOMAIN fs : fs[i] \in FindingRecord
    OBVIOUS
  <2> QED BY <2>1 DEF FindingRecord
<1>2. Len(fs) \in Nat /\ DOMAIN fs = 1..Len(fs)
  OBVIOUS
<1>3. Cardinality(Observations([i \in DOMAIN fs |-> fs[i].steps])) \in Nat
  BY <1>1, <1>2, ObservationsCount
<1>4. Cardinality(Observations([i \in DOMAIN fs |-> fs[i].shown])) \in Nat
  BY <1>1, <1>2, ObservationsCount
<1> QED BY <1>3, <1>4 DEF TotalEvidence, ShownEvidence

\* All of the evidence is shown if nothing was left out or shortened.
LEMMA AllIsShown ==
  ASSUME NEW fs \in Seq(FindingRecord), NEW new \in Seq(FindingRecord),
         Len(new) = Len(fs),
         \A i \in DOMAIN fs : new[i].shown = fs[i].steps
  PROVE  ShownEvidence(new) = TotalEvidence(fs)
<1>1. DOMAIN new = DOMAIN fs
  OBVIOUS
<1>2. [i \in DOMAIN new |-> new[i].shown] = [i \in DOMAIN fs |-> fs[i].steps]
  BY <1>1
<1> QED BY <1>2 DEF ShownEvidence, TotalEvidence

RowRecord == [total : Nat, emitted : Nat, omitted : Nat]

(***************************************************************************)
(* Once rendered: each list is a part of the analysis's, its row tells of  *)
(* what is missing, and the summary counts what is listed by rule and by   *)
(* class.  What is counted of the analysis itself never changes.           *)
(***************************************************************************)
ListsInv ==
    /\ listed \in ListsRecord
    /\ \A list \in ReportLists :
          Length(listed, list) <= Length(ListsOf(render), list)
    /\ ShapedAs(listed.findings, style)
    /\ Fair(render.findings, listed.findings)

RowsInv ==
    /\ rows \in [Rows -> RowRecord]
    /\ \A list \in ReportLists :
          rows[list] = Row(Length(ListsOf(render), list),
                           Length(listed, list))
    /\ rows["payload_entries"] =
          Row(render.entries, IF style = "full" THEN render.entries ELSE 0)
    /\ Len(listed.findings) = Len(render.findings)
       /\ NoneWide(listed.findings, style)
          => rows["evidence_observations"].omitted = 0
    /\ lines = NoteOmissions(rows)

SummaryRecord ==
    [ total : Int, active : Int, emitted : Int,
      by_rule : [Rules(render.findings) -> RowRecord],
      by_class : [ToSet(render.capabilities) -> RowRecord],
      gaps : RowRecord, presentation_complete : BOOLEAN,
      complete : BOOLEAN ]

TotalsInv ==
    /\ summary \in SummaryRecord
    /\ \A rule \in Rules(render.findings) :
          summary.by_rule[rule].total = OfRule(render.findings, rule)
    /\ \A class \in ToSet(render.capabilities) :
          summary.by_class[class].total = OfClass(render.capabilities, class)

Whole(lists, r) ==
    /\ \A name \in Rows : r[name].omitted = 0
    /\ \A i \in DOMAIN lists.findings :
          /\ ~lists.findings[i].truncated
          /\ lists.findings[i].shown = lists.findings[i].steps

CountsInv ==
    /\ SummaryTellsLosses
    /\ summary.presentation_complete <=> Whole(listed, rows)

ProfileInv ==
    /\ rendering \in {"analyzed", "sizing", "emitted", "refused"}
    /\ render \in Renders /\ style \in {"full", "review"}
    /\ TotalsInv
    /\ IF rendering = "analyzed" THEN NotRendered(render)
       ELSE ListsInv /\ RowsInv /\ CountsInv

\* A row of numbers.
LEMMA RowIs ==
  ASSUME NEW m \in Nat, NEW n \in Nat
  PROVE  /\ Row(m, n) \in RowRecord /\ Row(m, n).total = m
         /\ Row(m, n).emitted = n
         /\ n <= m => Row(m, n).omitted = m - n
         /\ n = m => Row(m, n).omitted = 0
BY DEF Row, RowRecord

LEMMA RenderIs ==
  ASSUME NEW d \in Renders
  PROVE  /\ d.findings \in Seq(FindingRecord) /\ d.suppressed \in Nat
         /\ d.capabilities \in Seq(STRING) /\ d.entries \in Nat
         /\ ListsOf(d) \in ListsRecord
         /\ \A list \in ReportLists : Length(ListsOf(d), list) \in Nat
         /\ Length(ListsOf(d), "findings") = Len(d.findings)
         /\ \A i \in DOMAIN d.findings :
               /\ d.findings[i].shown = d.findings[i].steps
               /\ ~d.findings[i].truncated
<1>1. d \in ReportRecord
  BY RendersAreWhole
<1>2. /\ ListsOf(d) \in ListsRecord /\ d.findings \in Seq(FindingRecord)
      /\ d.capabilities \in Seq(STRING) /\ d.entries \in Nat
      /\ d.suppressed \in Nat
  <2> HIDE DEF FindingRecord
  <2> QED BY <1>1 DEF ReportRecord, ListsOf, ListsRecord
<1>3. \A list \in ReportLists : Length(ListsOf(d), list) \in Nat
  <2> HIDE DEF FindingRecord
  <2> QED BY <1>1, <1>2
           DEF ReportLists, Length, ListsOf, ReportRecord
<1>4. Length(ListsOf(d), "findings") = Len(d.findings)
  BY DEF Length, ListsOf
<1> QED BY <1>2, <1>3, <1>4, RendersAreWhole

LEMMA CountsAreNumbers ==
  ASSUME NEW R, NEW fs \in Seq(R)
  PROVE  /\ \A rule : OfRule(fs, rule) \in Nat
         /\ \A class : OfClass(fs, class) \in Nat
<1>1. ASSUME NEW rule PROVE OfRule(fs, rule) \in Nat
  <2> DEFINE T == {i \in DOMAIN fs : fs[i].rule = rule}
  <2>1. T \in SUBSET DOMAIN fs
    OBVIOUS
  <2>2. Cardinality(T) \in Nat
    <3> HIDE DEF T
    <3> QED BY <2>1, IndicesCount
  <2> QED BY <2>2 DEF OfRule
<1>2. ASSUME NEW class PROVE OfClass(fs, class) \in Nat
  <2> DEFINE T == {i \in DOMAIN fs : fs[i] = class}
  <2>1. T \in SUBSET DOMAIN fs
    OBVIOUS
  <2>2. Cardinality(T) \in Nat
    <3> HIDE DEF T
    <3> QED BY <2>1, IndicesCount
  <2> QED BY <2>2 DEF OfClass
<1> QED BY <1>1, <1>2

LEMMA ProfileBegins == ReviewProfileInit => ProfileInv
<1> SUFFICES ASSUME ReviewProfileInit PROVE ProfileInv
  OBVIOUS
<1>1. /\ rendering = "analyzed" /\ style \in {"full", "review"}
      /\ render \in Renders /\ NotRendered(render)
  BY DEF ReviewProfileInit, NotRendered
<1>2. /\ render.findings \in Seq(FindingRecord) /\ render.suppressed \in Nat
      /\ render.capabilities \in Seq(STRING)
      /\ render.coverage_gaps \in Nat
      /\ Len(render.findings) \in Nat
  <2>1. render \in ReportRecord
    BY <1>1, RendersAreWhole
  <2>2. render.findings \in Seq(FindingRecord)
        /\ render.capabilities \in Seq(STRING)
    BY <1>1, RenderIs
  <2> HIDE DEF FindingRecord
  <2> QED BY <2>1, <2>2 DEF ReportRecord
<1>3. /\ \A rule : OfRule(render.findings, rule) \in Nat
      /\ \A class : OfClass(render.capabilities, class) \in Nat
  BY <1>2, CountsAreNumbers
<1>4. summary = BuildSummary(render)
  BY <1>1 DEF NotRendered
<1>5. /\ \A rule : LET n == OfRule(render.findings, rule)
                   IN  Row(n, n) \in RowRecord /\ Row(n, n).total = n
      /\ \A class : LET n == OfClass(render.capabilities, class)
                    IN  Row(n, n) \in RowRecord /\ Row(n, n).total = n
      /\ Row(render.coverage_gaps, render.coverage_gaps) \in RowRecord
  BY <1>2, <1>3, RowIs
<1>6. TotalsInv
  BY <1>2, <1>4, <1>5 DEF TotalsInv, SummaryRecord, BuildSummary
<1> QED BY <1>1, <1>6 DEF ProfileInv

\* What is put into a report.
LEMMA PutTells ==
  ASSUME render \in Renders, TotalsInv, NEW lists \in ListsRecord,
         NEW r \in [Rows -> RowRecord], Put(lists, r), UNCHANGED render
  PROVE  TotalsInv' /\ CountsInv'
<1>1. /\ listed' = lists /\ rows' = r
      /\ summary' = UpdateSummary(summary, lists, r)
  BY DEF Put
<1>2. PICK s : s = summary
  OBVIOUS
<1>3. s \in SummaryRecord
  BY <1>2 DEF TotalsInv
<1>4. lists.findings \in Seq(FindingRecord)
      /\ lists.capabilities \in Seq(STRING)
  BY DEF ListsRecord
<1>5. /\ Len(lists.findings) \in Int
      /\ \A rule : OfRule(lists.findings, rule) \in Nat
      /\ \A class : OfClass(lists.capabilities, class) \in Nat
  BY <1>4, CountsAreNumbers
<1>6. /\ \A rule \in Rules(render.findings) :
           /\ s.by_rule[rule].total \in Nat
           /\ s.by_rule[rule].total = OfRule(render.findings, rule)
      /\ \A class \in ToSet(render.capabilities) :
           /\ s.by_class[class].total \in Nat
           /\ s.by_class[class].total = OfClass(render.capabilities, class)
  <2>1. /\ s.by_rule \in [Rules(render.findings) -> RowRecord]
        /\ s.by_class \in [ToSet(render.capabilities) -> RowRecord]
    BY <1>3 DEF SummaryRecord
  <2>2. /\ \A rule \in Rules(render.findings) : s.by_rule[rule] \in RowRecord
        /\ \A class \in ToSet(render.capabilities) :
             s.by_class[class] \in RowRecord
    BY <2>1
  <2> QED BY <2>2, <1>2 DEF TotalsInv, RowRecord
<1> DEFINE byRule == [rule \in Rules(render.findings) |->
                        Row(OfRule(render.findings, rule),
                            OfRule(lists.findings, rule))]
           byClass == [class \in ToSet(render.capabilities) |->
                        Row(OfClass(render.capabilities, class),
                            OfClass(lists.capabilities, class))]
<1>7. /\ summary' \in SummaryRecord
      /\ summary'.emitted = Len(lists.findings)
      /\ summary'.by_rule = byRule /\ summary'.by_class = byClass
      /\ summary'.gaps = r["coverage_gaps"]
      /\ summary'.presentation_complete = Whole(lists, r)
  <2> DEFINE whole == Whole(lists, r)
             complete == whole /\ Len(lists.findings) = s.total
  <2>1. /\ DOMAIN s.by_rule = Rules(render.findings)
        /\ DOMAIN s.by_class = ToSet(render.capabilities)
    BY <1>3 DEF SummaryRecord
  <2>2. summary' =
          [ s EXCEPT !.emitted = Len(lists.findings),
                     !.by_rule = byRule, !.by_class = byClass,
                     !.gaps = r["coverage_gaps"],
                     !.presentation_complete = whole,
                     !.complete = complete ]
    <3>1. byRule = [rule \in DOMAIN s.by_rule |->
                      Row(s.by_rule[rule].total,
                          OfRule(lists.findings, rule))]
      BY <2>1, <1>6
    <3>2. byClass = [class \in DOMAIN s.by_class |->
                       Row(s.by_class[class].total,
                           OfClass(lists.capabilities, class))]
      BY <2>1, <1>6
    <3> HIDE DEF byRule, byClass
    <3> QED BY <3>1, <3>2, <1>1, <1>2 DEF UpdateSummary, Whole
  <2>3. byRule \in [Rules(render.findings) -> RowRecord]
    <3>1. \A rule \in Rules(render.findings) :
             Row(OfRule(render.findings, rule),
                 OfRule(lists.findings, rule)) \in RowRecord
      BY <1>5, <1>6, RowIs
    <3> QED BY <3>1
  <2>4. byClass \in [ToSet(render.capabilities) -> RowRecord]
    <3>1. \A class \in ToSet(render.capabilities) :
             Row(OfClass(render.capabilities, class),
                 OfClass(lists.capabilities, class)) \in RowRecord
      BY <1>5, <1>6, RowIs
    <3> QED BY <3>1
  <2>5. whole \in BOOLEAN /\ complete \in BOOLEAN
    BY DEF Whole
  <2>6. r["coverage_gaps"] \in RowRecord
    BY DEF Rows, ReportLists
  <2> HIDE DEF byRule, byClass, whole, complete
  <2>7. summary' \in SummaryRecord
    BY <2>2, <2>3, <2>4, <2>5, <2>6, <1>3, <1>5 DEF SummaryRecord
  <2>8. /\ summary'.emitted = Len(lists.findings)
        /\ summary'.by_rule = byRule /\ summary'.by_class = byClass
        /\ summary'.gaps = r["coverage_gaps"]
        /\ summary'.presentation_complete = whole
    BY <2>2, <1>3 DEF SummaryRecord
  <2> QED BY <2>7, <2>8 DEF whole
<1>8. /\ \A rule \in Rules(render.findings) :
           /\ byRule[rule].total = OfRule(render.findings, rule)
           /\ byRule[rule] = Row(OfRule(render.findings, rule),
                                 OfRule(lists.findings, rule))
      /\ \A class \in ToSet(render.capabilities) :
           /\ byClass[class].total = OfClass(render.capabilities, class)
           /\ byClass[class] = Row(OfClass(render.capabilities, class),
                                   OfClass(lists.capabilities, class))
  BY DEF Row
<1> HIDE DEF byRule, byClass
<1>9. TotalsInv'
  BY <1>7, <1>8 DEF TotalsInv, SummaryRecord
<1>10. SummaryTellsLosses'
  BY <1>1, <1>7, <1>8 DEF SummaryTellsLosses
<1> QED BY <1>1, <1>7, <1>9, <1>10 DEF CountsInv

\* The rows of a report that was rendered.
LEMMA RowsAre ==
  ASSUME NEW d \in Renders, NEW lists \in ListsRecord, NEW entries \in Nat
  PROVE  /\ RowsOf(d, lists, entries) \in [Rows -> RowRecord]
         /\ \A list \in ReportLists :
              RowsOf(d, lists, entries)[list]
                = Row(Length(ListsOf(d), list), Length(lists, list))
         /\ RowsOf(d, lists, entries)["payload_entries"]
              = Row(d.entries, entries)
         /\ RowsOf(d, lists, entries)["evidence_observations"]
              = Row(TotalEvidence(d.findings), ShownEvidence(lists.findings))
<1> DEFINE r == RowsOf(d, lists, entries)
<1>1. lists.findings \in Seq(FindingRecord)
  BY DEF ListsRecord
<1>2. \A list \in ReportLists : Length(lists, list) \in Nat
  <2> HIDE DEF FindingRecord
  <2> QED BY DEF ReportLists, Length, ListsRecord
<1>3. /\ \A list \in ReportLists :
           Row(Length(ListsOf(d), list), Length(lists, list)) \in RowRecord
      /\ Row(d.entries, entries) \in RowRecord
      /\ Row(TotalEvidence(d.findings), ShownEvidence(lists.findings))
           \in RowRecord
  BY <1>1, <1>2, RenderIs, EvidenceCounts, RowIs
<1>4. /\ r \in [Rows -> {r[name] : name \in Rows}]
      /\ \A list \in ReportLists :
           r[list] = Row(Length(ListsOf(d), list), Length(lists, list))
      /\ r["payload_entries"] = Row(d.entries, entries)
      /\ r["evidence_observations"]
           = Row(TotalEvidence(d.findings), ShownEvidence(lists.findings))
  BY DEF RowsOf, Rows, ReportLists
<1> HIDE DEF r
<1>5. \A name \in Rows : r[name] \in RowRecord
  BY <1>3, <1>4 DEF Rows
<1> QED BY <1>4, <1>5 DEF r

\* What is rendered in the first place.
LEMMA RenderedTells ==
  ASSUME ProfileInv, rendering = "analyzed",
         NEW lists \in ListsRecord,
         Put(lists, RowsOf(render, lists,
                           IF style = "full" THEN render.entries ELSE 0)),
         rendering' \in {"sizing", "emitted"}, UNCHANGED <<render, style>>,
         \A list \in ReportLists :
            Length(lists, list) <= Length(ListsOf(render), list),
         ShapedAs(lists.findings, style),
         Fair(render.findings, lists.findings),
         Len(lists.findings) = Len(render.findings) =>
            \A i \in DOMAIN render.findings :
               /\ lists.findings[i].steps = render.findings[i].steps
               /\ lists.findings[i].wide = render.findings[i].wide
  PROVE  ProfileInv'
<1> DEFINE entries == IF style = "full" THEN render.entries ELSE 0
           r == RowsOf(render, lists, entries)
<1>1. /\ render \in Renders /\ TotalsInv /\ style \in {"full", "review"}
  BY DEF ProfileInv
<1>2. entries \in Nat /\ lists.findings \in Seq(FindingRecord)
      /\ render.findings \in Seq(FindingRecord)
  BY <1>1, RenderIs DEF ListsRecord
<1>3. /\ r \in [Rows -> RowRecord]
      /\ \A list \in ReportLists :
           r[list] = Row(Length(ListsOf(render), list), Length(lists, list))
      /\ r["payload_entries"] = Row(render.entries, entries)
      /\ r["evidence_observations"]
           = Row(TotalEvidence(render.findings),
                 ShownEvidence(lists.findings))
  BY <1>1, <1>2, RowsAre
<1> HIDE DEF r, entries
<1>4. /\ listed' = lists /\ rows' = r /\ lines' = NoteOmissions(r)
      /\ Put(lists, r)
  BY DEF Put, r, entries
<1>5. TotalsInv' /\ CountsInv'
  BY <1>1, <1>3, <1>4, PutTells
<1>6. ASSUME Len(lists.findings) = Len(render.findings),
             NoneWide(lists.findings, style)
      PROVE  r["evidence_observations"].omitted = 0
  <2>1. DOMAIN lists.findings = DOMAIN render.findings
    BY <1>2, <1>6
  <2>2. ASSUME NEW i \in DOMAIN render.findings
        PROVE  lists.findings[i].shown = render.findings[i].steps
    <3>1. lists.findings[i] \in FindingRecord
      BY <1>2, <2>1
    <3>2. ~(lists.findings[i].wide > Widest[style])
      BY <2>1, <3>1, <1>1, <1>6 DEF NoneWide, Widest, FindingRecord
    <3>3. lists.findings[i].shown = lists.findings[i].steps
      BY <2>1, <3>2 DEF ShapedAs
    <3> QED BY <3>3, <1>6
  <2>3. ShownEvidence(lists.findings) = TotalEvidence(render.findings)
    BY <1>2, <1>6, <2>2, AllIsShown
  <2> QED BY <1>2, <1>3, <2>3, EvidenceCounts, RowIs
<1>7. ListsInv'
  BY <1>4 DEF ListsInv
<1>8. RowsInv'
  BY <1>3, <1>4, <1>6 DEF RowsInv, entries
<1> QED BY <1>1, <1>5, <1>7, <1>8 DEF ProfileInv

LEMMA FullIsRendered ==
  ASSUME ProfileInv, rendering = "analyzed"
  PROVE  /\ FullLists(render) \in ListsRecord
         /\ \A list \in ReportLists :
              Length(FullLists(render), list) = Length(ListsOf(render), list)
         /\ Len(FullLists(render).findings) = Len(render.findings)
         /\ ShapedAs(FullLists(render).findings, "full")
         /\ Fair(render.findings, FullLists(render).findings)
         /\ \A i \in DOMAIN render.findings :
              /\ FullLists(render).findings[i].steps
                   = render.findings[i].steps
              /\ FullLists(render).findings[i].wide
                   = render.findings[i].wide
<1> DEFINE fs == ShapeEvidence(render.findings, "full")
<1>1. /\ render.findings \in Seq(FindingRecord)
      /\ \A i \in DOMAIN render.findings :
           /\ render.findings[i].shown = render.findings[i].steps
           /\ ~render.findings[i].truncated
      /\ ListsOf(render) \in ListsRecord
  BY RenderIs DEF ProfileInv
<1>2. /\ fs \in Seq(FindingRecord) /\ Len(fs) = Len(render.findings)
      /\ ShapedAs(fs, "full")
      /\ \A i \in DOMAIN render.findings :
           /\ fs[i].wide = render.findings[i].wide
           /\ fs[i].steps = render.findings[i].steps
  BY <1>1, ShapingIs
<1>3. Fair(render.findings, fs)
  BY <1>1, AllIsFair, ShapedFamilies
<1> HIDE DEF fs
<1>4. /\ FullLists(render) = [ListsOf(render) EXCEPT !.findings = fs]
      /\ FullLists(render).findings = fs
  BY DEF FullLists, ListsOf, fs
<1>5. FullLists(render) \in ListsRecord
  BY <1>1, <1>2, <1>4 DEF ListsRecord
<1>6. \A list \in ReportLists :
        Length(FullLists(render), list) = Length(ListsOf(render), list)
  BY <1>2, <1>4 DEF Length, ReportLists, ListsOf
<1> QED BY <1>2, <1>3, <1>4, <1>5, <1>6

LEMMA FullKeeps ==
  ASSUME ProfileInv, RenderFull
  PROVE  ProfileInv'
<1>1. /\ rendering = "analyzed" /\ style = "full" /\ rendering' = "emitted"
      /\ UNCHANGED <<render, style>>
      /\ Put(FullLists(render),
             RowsOf(render, FullLists(render), render.entries))
  BY DEF RenderFull
<1>2. \A list \in ReportLists : Length(ListsOf(render), list) \in Nat
  BY RenderIs DEF ProfileInv
<1> QED BY <1>1, <1>2, FullIsRendered, RenderedTells

LEMMA ReviewKeeps ==
  ASSUME ProfileInv, ApplyReviewProfile
  PROVE  ProfileInv'
<1> DEFINE full == FullLists(render)
           capped == Capped(full)
           chosen == SelectFindings(full.findings, ListCap)
           fs == ShapeEvidence(chosen, "review")
           lists == [capped EXCEPT !.findings = fs]
<1>1. /\ rendering = "analyzed" /\ style = "review"
      /\ rendering' = "sizing" /\ UNCHANGED <<render, style>>
      /\ Put(lists, RowsOf(render, lists, 0))
  BY DEF ApplyReviewProfile, Capped
<1>2. /\ full \in ListsRecord /\ Len(full.findings) = Len(render.findings)
      /\ \A list \in ReportLists :
           Length(full, list) = Length(ListsOf(render), list)
      /\ ShapedAs(full.findings, "full")
      /\ Fair(render.findings, full.findings)
      /\ \A i \in DOMAIN render.findings :
           /\ full.findings[i].steps = render.findings[i].steps
           /\ full.findings[i].wide = render.findings[i].wide
  BY <1>1, FullIsRendered
<1>3. /\ render.findings \in Seq(FindingRecord)
      /\ full.findings \in Seq(FindingRecord)
      /\ ListCap \in Nat /\ GapCap \in Nat /\ ExposureCap \in Nat
  <2>1. render.findings \in Seq(FindingRecord)
    BY RenderIs DEF ProfileInv
  <2> HIDE DEF full, FindingRecord
  <2> QED BY <2>1, <1>2, CapsAssumption DEF ListsRecord
<1> HIDE DEF full
<1>4. /\ chosen \in Seq(FindingRecord)
      /\ Len(chosen) \in Nat /\ Len(chosen) <= Len(full.findings)
      /\ Len(chosen) = Len(full.findings) => chosen = full.findings
      /\ ShapedAs(chosen, "full")
  BY <1>2, <1>3, SelectionOf
<1>5. Fair(render.findings, chosen)
  BY <1>2, <1>3, SelectedIsFair
<1> HIDE DEF chosen
<1>6. /\ fs \in Seq(FindingRecord) /\ Len(fs) = Len(chosen)
      /\ ShapedAs(fs, "review")
      /\ \A i \in DOMAIN chosen : /\ fs[i].wide = chosen[i].wide
                                  /\ fs[i].steps = chosen[i].steps
  BY <1>4, ShapingIs
<1>7. Fair(render.findings, fs)
  BY <1>3, <1>4, <1>5, ShapedFamilies
<1> HIDE DEF fs
<1>8. /\ full.capabilities \in Seq(STRING)
      /\ Len(full.capabilities) \in Nat
      /\ full.invocation_edges \in Nat /\ full.coverage_gaps \in Nat
      /\ full.code_exposure \in Nat
  <2> HIDE DEF FindingRecord
  <2> QED BY <1>2 DEF ListsRecord
<1> DEFINE n == Least(ListCap, Len(full.capabilities))
           cs == SubSeq(full.capabilities, 1, n)
<1>9. cs \in Seq(STRING) /\ Len(cs) \in Nat
      /\ Len(cs) <= Len(full.capabilities)
  <2>1. n \in Nat /\ n <= Len(full.capabilities)
    BY <1>3, <1>8 DEF Least
  <2>2. \A i \in 1..n : full.capabilities[i] \in STRING
    BY <2>1, <1>8
  <2> HIDE DEF n
  <2> QED BY <2>1, <2>2, <1>8
<1> HIDE DEF cs
<1>10. /\ lists.findings = fs /\ lists.capabilities = cs
       /\ lists.invocation_edges = Least(full.invocation_edges, ListCap)
       /\ lists.coverage_gaps = Least(full.coverage_gaps, GapCap)
       /\ lists.code_exposure = Least(full.code_exposure, ExposureCap)
       /\ lists \in ListsRecord
  <2>1. \A k \in Nat : /\ Least(k, ListCap) \in Nat /\ Least(k, GapCap) \in Nat
                       /\ Least(k, ExposureCap) \in Nat
    BY <1>3 DEF Least
  <2>2. capped = [ findings |-> chosen, capabilities |-> cs,
                   invocation_edges |-> Least(full.invocation_edges, ListCap),
                   coverage_gaps |-> Least(full.coverage_gaps, GapCap),
                   code_exposure |-> Least(full.code_exposure, ExposureCap) ]
    BY DEF Capped, chosen, cs
  <2> HIDE DEF capped, FindingRecord
  <2> QED BY <2>1, <2>2, <1>6, <1>8, <1>9 DEF ListsRecord
<1>11. \A list \in ReportLists :
         /\ Length(lists, list) <= Length(full, list)
         /\ Length(full, list) = Length(ListsOf(render), list)
  <2>1. \A k, m \in Nat : Least(k, m) <= k
    BY DEF Least
  <2> HIDE DEF lists
  <2> QED BY <2>1, <1>2, <1>3, <1>4, <1>6, <1>8, <1>9, <1>10
           DEF ReportLists, Length
<1>12. Len(lists.findings) = Len(render.findings) =>
         \A i \in DOMAIN render.findings :
            /\ lists.findings[i].steps = render.findings[i].steps
            /\ lists.findings[i].wide = render.findings[i].wide
  <2> SUFFICES ASSUME Len(lists.findings) = Len(render.findings),
                      NEW i \in DOMAIN render.findings
               PROVE  /\ fs[i].steps = render.findings[i].steps
                      /\ fs[i].wide = render.findings[i].wide
    BY <1>10
  <2>1. Len(fs) = Len(render.findings)
    BY <1>10
  <2>2. chosen = full.findings
    BY <2>1, <1>2, <1>4, <1>6
  <2>3. DOMAIN chosen = DOMAIN render.findings
    BY <2>2, <1>2, <1>3
  <2> QED BY <2>2, <2>3, <1>2, <1>6
<1> HIDE DEF lists
<1>13. \A list \in ReportLists :
         Length(lists, list) <= Length(ListsOf(render), list)
  BY <1>11
<1> QED BY <1>1, <1>6, <1>7, <1>10, <1>12, <1>13, RenderedTells

LEMMA HalvesAreLess == \A k \in Nat : k \div 2 \in Nat /\ k \div 2 <= k
OBVIOUS

\* A list of the report halved, and the others left.
LEMMA HalvedIs ==
  ASSUME listed \in ListsRecord, NEW list \in ReportLists
  PROVE  LET lists == [listed EXCEPT ![list] = Halved(list)]
         IN  /\ lists \in ListsRecord
             /\ Length(lists, list) <= Length(listed, list)
             /\ \A other \in ReportLists \ {list} :
                   Length(lists, other) = Length(listed, other)
             /\ lists.findings =
                  IF list = "findings"
                  THEN SelectFindings(listed.findings,
                                      Len(listed.findings) \div 2)
                  ELSE listed.findings
<1> DEFINE lists == [listed EXCEPT ![list] = Halved(list)]
<1>1. /\ listed.findings \in Seq(FindingRecord)
      /\ listed.capabilities \in Seq(STRING)
      /\ Len(listed.capabilities) \in Nat
      /\ listed.invocation_edges \in Nat /\ listed.coverage_gaps \in Nat
      /\ listed.code_exposure \in Nat
  <2> HIDE DEF FindingRecord
  <2> QED BY DEF ListsRecord
<1>2. CASE list = "findings"
  <2> DEFINE fs == SelectFindings(listed.findings,
                                  Len(listed.findings) \div 2)
  <2>1. fs \in Seq(FindingRecord) /\ Len(fs) <= Len(listed.findings)
    BY <1>1, SelectionOf
  <2>2. lists = [listed EXCEPT !.findings = fs]
    BY <1>2 DEF Halved
  <2> HIDE DEF lists, fs, FindingRecord
  <2>3. /\ lists \in ListsRecord /\ lists.findings = fs
        /\ lists.capabilities = listed.capabilities
        /\ lists.invocation_edges = listed.invocation_edges
        /\ lists.coverage_gaps = listed.coverage_gaps
        /\ lists.code_exposure = listed.code_exposure
    BY <2>1, <2>2, <1>1 DEF ListsRecord
  <2>4. /\ Length(lists, list) <= Length(listed, list)
        /\ \A other \in ReportLists \ {list} :
              Length(lists, other) = Length(listed, other)
    BY <2>1, <2>3, <1>2 DEF Length, ReportLists
  <2> QED BY <2>3, <2>4, <1>2 DEF lists, fs
<1>3. CASE list = "capabilities"
  <2> DEFINE cs == SubSeq(listed.capabilities, 1,
                          Len(listed.capabilities) \div 2)
             n == Len(listed.capabilities) \div 2
  <2>1. cs \in Seq(STRING) /\ Len(cs) <= Len(listed.capabilities)
    <3>1. n \in Nat /\ n <= Len(listed.capabilities)
      BY <1>1, HalvesAreLess
    <3> HIDE DEF n
    <3>2. \A i \in 1..n : listed.capabilities[i] \in STRING
      BY <3>1, <1>1
    <3>3. /\ SubSeq(listed.capabilities, 1, n) \in Seq(STRING)
          /\ Len(SubSeq(listed.capabilities, 1, n)) = n
      BY <3>1, <3>2, <1>1
    <3> QED BY <3>1, <3>3 DEF n
  <2>2. lists = [listed EXCEPT !.capabilities = cs]
    BY <1>3 DEF Halved
  <2> HIDE DEF lists, cs, FindingRecord
  <2>3. /\ lists \in ListsRecord /\ lists.findings = listed.findings
        /\ lists.capabilities = cs
        /\ lists.invocation_edges = listed.invocation_edges
        /\ lists.coverage_gaps = listed.coverage_gaps
        /\ lists.code_exposure = listed.code_exposure
    BY <2>1, <2>2, <1>1 DEF ListsRecord
  <2>4. /\ Length(lists, list) <= Length(listed, list)
        /\ \A other \in ReportLists \ {list} :
              Length(lists, other) = Length(listed, other)
    BY <2>1, <2>3, <1>3 DEF Length, ReportLists
  <2> QED BY <2>3, <2>4, <1>3 DEF lists
<1>4. CASE list \in {"invocation_edges", "coverage_gaps", "code_exposure"}
  <2> DEFINE n == listed[list] \div 2
  <2>1. listed[list] \in Nat
    BY <1>1, <1>4
  <2>2. n \in Nat /\ n <= listed[list]
    BY <2>1
  <2>3. lists = [listed EXCEPT ![list] = n]
    BY <1>4 DEF Halved
  <2> HIDE DEF lists, n, FindingRecord
  <2>4. /\ lists \in ListsRecord /\ lists.findings = listed.findings
        /\ lists.capabilities = listed.capabilities
        /\ lists[list] = n
        /\ \A other \in ReportLists \ {list} : lists[other] = listed[other]
    BY <2>2, <2>3, <1>1, <1>4 DEF ListsRecord, ReportLists
  <2>5. /\ Length(lists, list) <= Length(listed, list)
        /\ \A other \in ReportLists \ {list} :
              Length(lists, other) = Length(listed, other)
    BY <2>2, <2>4, <1>4 DEF Length, ReportLists
  <2> QED BY <2>4, <2>5, <1>4 DEF lists
<1> QED BY <1>2, <1>3, <1>4 DEF ReportLists

LEMMA TrimKeeps ==
  ASSUME ProfileInv, NEW list \in ReportLists, Trim(list)
  PROVE  ProfileInv'
<1> DEFINE lists == [listed EXCEPT ![list] = Halved(list)]
           r == [rows EXCEPT ![list] =
                               UpdateOmission(@, Length(lists, list))]
<1>1. /\ rendering = "sizing" /\ UNCHANGED <<rendering, render, style>>
      /\ Put(lists, r)
  BY DEF Trim, TooLarge
<1>2. /\ ListsInv /\ RowsInv /\ TotalsInv
      /\ render \in Renders /\ style \in {"full", "review"}
  BY <1>1 DEF ProfileInv
<1>3. /\ lists \in ListsRecord
      /\ Length(lists, list) <= Length(listed, list)
      /\ \A other \in ReportLists \ {list} :
            Length(lists, other) = Length(listed, other)
      /\ lists.findings =
           IF list = "findings"
           THEN SelectFindings(listed.findings, Len(listed.findings) \div 2)
           ELSE listed.findings
  BY <1>2, HalvedIs DEF ListsInv
<1>4. /\ render.findings \in Seq(FindingRecord)
      /\ listed.findings \in Seq(FindingRecord)
      /\ lists.findings \in Seq(FindingRecord)
      /\ Len(listed.findings) <= Len(render.findings)
      /\ \A other \in ReportLists :
            /\ Length(ListsOf(render), other) \in Nat
            /\ Length(listed, other) \in Nat /\ Length(lists, other) \in Nat
            /\ Length(lists, other) <= Length(ListsOf(render), other)
  <2> HIDE DEF lists
  <2>1. ASSUME NEW l \in ListsRecord
        PROVE  /\ l.findings \in Seq(FindingRecord)
               /\ \A other \in ReportLists : Length(l, other) \in Nat
    <3> HIDE DEF FindingRecord
    <3> QED BY DEF ListsRecord, ReportLists, Length
  <2>2. /\ \A other \in ReportLists :
             Length(ListsOf(render), other) \in Nat
        /\ Length(ListsOf(render), "findings") = Len(render.findings)
        /\ render.findings \in Seq(FindingRecord)
    BY <1>2, RenderIs
  <2>3. Length(listed, "findings") = Len(listed.findings)
    BY DEF Length
  <2>4. "findings" \in ReportLists
    BY DEF ReportLists
  <2>5. listed \in ListsRecord
        /\ \A other \in ReportLists :
             Length(listed, other) <= Length(ListsOf(render), other)
    BY <1>2 DEF ListsInv
  <2>6. /\ listed.findings \in Seq(FindingRecord)
        /\ lists.findings \in Seq(FindingRecord)
        /\ \A other \in ReportLists :
             Length(listed, other) \in Nat /\ Length(lists, other) \in Nat
    BY <2>1, <2>5, <1>3
  <2>7. Len(listed.findings) <= Len(render.findings)
    BY <2>2, <2>3, <2>4, <2>5
  <2>8. ASSUME NEW other \in ReportLists
        PROVE  Length(lists, other) <= Length(ListsOf(render), other)
    <3>1. Length(lists, other) <= Length(listed, other)
      BY <2>6, <1>3
    <3>2. /\ Length(lists, other) \in Nat /\ Length(listed, other) \in Nat
          /\ Length(ListsOf(render), other) \in Nat
          /\ Length(listed, other) <= Length(ListsOf(render), other)
      BY <2>2, <2>5, <2>6
    <3> QED BY <3>1, <3>2
  <2> QED BY <2>2, <2>6, <2>7, <2>8
<1>5. /\ ShapedAs(listed.findings, style)
      /\ Fair(render.findings, listed.findings)
  BY <1>2 DEF ListsInv
<1>6. /\ ShapedAs(lists.findings, style)
      /\ Fair(render.findings, lists.findings)
      /\ Len(lists.findings) = Len(render.findings) =>
            lists.findings = listed.findings
  <2> DEFINE fs == listed.findings
             cap == Len(fs) \div 2
  <2>1. cap \in Nat /\ Len(fs) \in Nat
    <3>1. Len(fs) \in Nat
      BY <1>4
    <3> QED BY <3>1, HalvesAreLess
  <2> HIDE DEF cap, lists
  <2>2. CASE list = "findings"
    <3>1. lists.findings = SelectFindings(fs, cap)
      BY <2>2, <1>3 DEF cap
    <3>2. Fair(render.findings, SelectFindings(fs, cap))
      BY <2>1, <1>4, <1>5, SelectedIsFair
    <3>3. ShapedAs(SelectFindings(fs, cap), style)
      BY <1>2, <1>4, <1>5, SelectionOf
    <3>4. /\ Len(SelectFindings(fs, cap)) \in Nat
          /\ Len(SelectFindings(fs, cap)) <= Len(fs)
          /\ Len(SelectFindings(fs, cap)) = Len(fs) =>
                SelectFindings(fs, cap) = fs
      BY <1>4, SelectionOf
    <3>5. Len(render.findings) \in Nat
      BY <1>4
    <3> QED BY <3>1, <3>2, <3>3, <3>4, <3>5, <2>1, <1>4
  <2>3. CASE list # "findings"
    BY <2>3, <1>3, <1>5
  <2> QED BY <2>2, <2>3
<1>7. /\ r \in [Rows -> RowRecord]
      /\ \A other \in ReportLists :
            r[other] = Row(Length(ListsOf(render), other),
                           Length(lists, other))
      /\ r["payload_entries"] = rows["payload_entries"]
      /\ r["evidence_observations"] = rows["evidence_observations"]
  <2> HIDE DEF lists
  <2>1. /\ rows \in [Rows -> RowRecord] /\ list \in Rows
        /\ \A other \in ReportLists :
             rows[other] = Row(Length(ListsOf(render), other),
                               Length(listed, other))
    BY <1>2 DEF RowsInv, Rows
  <2>2. UpdateOmission(rows[list], Length(lists, list))
          = Row(Length(ListsOf(render), list), Length(lists, list))
    <3>1. rows[list].total = Length(ListsOf(render), list)
      <4>1. rows[list] = Row(Length(ListsOf(render), list),
                             Length(listed, list))
        BY <2>1
      <4> QED BY <4>1 DEF Row
    <3> QED BY <3>1 DEF UpdateOmission
  <2>3. Row(Length(ListsOf(render), list), Length(lists, list)) \in RowRecord
    BY <1>4, RowIs
  <2>4. r = [rows EXCEPT ![list] = Row(Length(ListsOf(render), list),
                                       Length(lists, list))]
    BY <2>2
  <2> HIDE DEF r
  <2>5. r \in [Rows -> RowRecord]
    BY <2>1, <2>3, <2>4
  <2>6. ASSUME NEW other \in ReportLists
        PROVE  r[other] = Row(Length(ListsOf(render), other),
                              Length(lists, other))
    <3>1. CASE other = list
      BY <3>1, <2>1, <2>4
    <3>2. CASE other # list
      <4>1. r[other] = rows[other] /\ other \in Rows
        BY <3>2, <2>1, <2>4 DEF Rows
      <4> QED BY <4>1, <3>2, <2>1, <1>3
    <3> QED BY <3>1, <3>2
  <2>7. list \notin {"payload_entries", "evidence_observations"}
    BY DEF ReportLists
  <2>8. /\ r["payload_entries"] = rows["payload_entries"]
        /\ r["evidence_observations"] = rows["evidence_observations"]
    BY <2>1, <2>4, <2>7 DEF Rows
  <2> QED BY <2>5, <2>6, <2>8
<1> HIDE DEF lists, r
<1>8. /\ listed' = lists /\ rows' = r /\ lines' = NoteOmissions(r)
  BY <1>1 DEF Put
<1>9. TotalsInv' /\ CountsInv'
  BY <1>1, <1>2, <1>3, <1>7, PutTells
<1>10. ListsInv'
  BY <1>1, <1>3, <1>4, <1>6, <1>8 DEF ListsInv
<1>11. RowsInv'
  BY <1>1, <1>2, <1>6, <1>7, <1>8 DEF RowsInv
<1> QED BY <1>1, <1>2, <1>9, <1>10, <1>11 DEF ProfileInv

LEMMA ProfileHolds == ReviewProfileSpec => []ProfileInv
<1>1. ASSUME ProfileInv, ReviewProfileNext PROVE ProfileInv'
  <2>1. CASE RenderFull
    BY <2>1, <1>1, FullKeeps
  <2>2. CASE ApplyReviewProfile
    BY <2>2, <1>1, ReviewKeeps
  <2>3. CASE \E list \in ReportLists : Trim(list)
    BY <2>3, <1>1, TrimKeeps
  <2>4. CASE Emit \/ RefuseReport
    <3>1. /\ rendering = "sizing" /\ rendering' \in {"emitted", "refused"}
          /\ UNCHANGED <<render, style, listed, rows, lines, summary>>
      BY <2>4 DEF Emit, RefuseReport, TooLarge
    <3>2. ListsInv /\ RowsInv /\ CountsInv /\ TotalsInv
          /\ render \in Renders /\ style \in {"full", "review"}
      BY <3>1, <1>1 DEF ProfileInv
    <3>3. ListsInv' /\ RowsInv' /\ CountsInv' /\ TotalsInv'
      BY <3>1, <3>2 DEF ListsInv, RowsInv, CountsInv, TotalsInv,
           SummaryTellsLosses, Whole, SummaryRecord, NoneWide
    <3> QED BY <3>1, <3>2, <3>3 DEF ProfileInv
  <2> QED BY <1>1, <2>1, <2>2, <2>3, <2>4 DEF ReviewProfileNext
<1>2. ASSUME ProfileInv, UNCHANGED profile PROVE ProfileInv'
  BY <1>2 DEF profile, ProfileInv, NotRendered, ListsInv, RowsInv,
     CountsInv, TotalsInv, SummaryTellsLosses, Whole, SummaryRecord, NoneWide
<1> QED BY <1>1, <1>2, ProfileBegins, PTL DEF ReviewProfileSpec

\* OmissionsAddUp: of every analysis and every limit, what is missing from an
\* emitted report is in its rows, its limitation lines and its summary.
THEOREM OmissionsAreTold == ReviewProfileSpec => []OmissionsAddUp
<1>1. ASSUME ProfileInv, rendering = "emitted"
      PROVE  RowsTellLosses /\ SummaryTellsLosses /\ CompleteMeansWhole
  <2>1. /\ ListsInv /\ RowsInv /\ CountsInv /\ TotalsInv
        /\ render \in Renders /\ style \in {"full", "review"}
    BY <1>1 DEF ProfileInv
  <2>2. ASSUME NEW list \in ReportLists
        PROVE  /\ Length(ListsOf(render), list) \in Nat
               /\ Length(listed, list) \in Nat
               /\ Length(listed, list) <= Length(ListsOf(render), list)
    <3>1. Length(listed, list) \in Nat
      <4> HIDE DEF FindingRecord
      <4> QED BY <2>1 DEF ListsInv, ListsRecord, ReportLists, Length
    <3> QED BY <3>1, <2>1, RenderIs DEF ListsInv
  <2>3. ASSUME NEW list \in ReportLists
        PROVE  /\ rows[list] = Row(Length(ListsOf(render), list),
                                   Length(listed, list))
               /\ rows[list].omitted = Lost(list)
               /\ lines[list] = Lost(list)
    <3>1. rows[list] = Row(Length(ListsOf(render), list),
                           Length(listed, list))
      BY <2>1 DEF RowsInv
    <3>2. lines[list] = rows[list].omitted
      BY <2>1 DEF RowsInv, NoteOmissions, Rows
    <3> QED BY <3>1, <3>2, <2>2, RowIs DEF Lost
  <2>4. listed.findings \in Seq(FindingRecord)
        /\ render.findings \in Seq(FindingRecord)
    <3>1. listed.findings \in Seq(FindingRecord)
      <4> HIDE DEF FindingRecord
      <4> QED BY <2>1 DEF ListsInv, ListsRecord
    <3> QED BY <3>1, <2>1, RenderIs
  <2>5. ASSUME NEW i \in DOMAIN listed.findings
        PROVE  /\ listed.findings[i].wide <= Widest[style]
                    <=> ~listed.findings[i].truncated
               /\ ~listed.findings[i].truncated =>
                    listed.findings[i].shown = listed.findings[i].steps
    <3>1. /\ listed.findings[i].truncated
               <=> listed.findings[i].wide > Widest[style]
          /\ ~listed.findings[i].truncated =>
                listed.findings[i].shown = listed.findings[i].steps
      BY <2>1 DEF ListsInv, ShapedAs
    <3>2. listed.findings[i] \in FindingRecord
      BY <2>4
    <3>3. listed.findings[i].wide \in Int /\ Widest[style] \in Int
      BY <3>2, <2>1 DEF FindingRecord, Widest
    <3> QED BY <3>1, <3>3
  <2>6. rows["payload_entries"].omitted = 0
          <=> (style = "review" => render.entries = 0)
    <3>1. render.entries \in Nat
      BY <2>1, RenderIs
    <3>2. rows["payload_entries"] =
            Row(render.entries, IF style = "full" THEN render.entries ELSE 0)
      BY <2>1 DEF RowsInv
    <3> QED BY <3>1, <3>2, <2>1 DEF Row
  <2>7. (\A list \in ReportLists : Lost(list) = 0)
          => Len(listed.findings) = Len(render.findings)
    <3>1. "findings" \in ReportLists
      BY DEF ReportLists
    <3>2. Length(ListsOf(render), "findings") = Len(render.findings)
          /\ Length(listed, "findings") = Len(listed.findings)
      BY <2>1, RenderIs DEF Length
    <3> QED BY <3>1, <3>2, <2>2 DEF Lost
  <2>8. Whole(listed, rows)
          <=> /\ \A list \in ReportLists : Lost(list) = 0
              /\ style = "review" => render.entries = 0
              /\ NoneWide(listed.findings, style)
    <3>1. Rows = ReportLists \cup {"payload_entries",
                                   "evidence_observations"}
      BY DEF Rows
    <3>2. Len(listed.findings) = Len(render.findings)
          /\ NoneWide(listed.findings, style)
             => rows["evidence_observations"].omitted = 0
      BY <2>1 DEF RowsInv
    <3>3. NoneWide(listed.findings, style) <=>
            \A i \in DOMAIN listed.findings :
              /\ ~listed.findings[i].truncated
              /\ listed.findings[i].shown = listed.findings[i].steps
      BY <2>5 DEF NoneWide
    <3> QED BY <3>1, <3>2, <3>3, <2>3, <2>6, <2>7 DEF Whole
  <2>9. RowsTellLosses
    BY <2>3 DEF RowsTellLosses
  <2>10. CompleteMeansWhole
    BY <2>1, <2>8 DEF CompleteMeansWhole, CountsInv, NoneWide
  <2> QED BY <2>1, <2>9, <2>10 DEF CountsInv
<1>2. ProfileInv => OmissionsAddUp
  BY <1>1 DEF OmissionsAddUp
<1> QED BY <1>2, ProfileHolds, PTL

\* SelectionIsFair: however often a report was halved, it omits nothing more
\* severe than what it lists, and no rule while one beside it has two.
THEOREM SelectionsAreFair == ReviewProfileSpec => []SelectionIsFair
<1>1. ProfileInv => SelectionIsFair
  BY DEF ProfileInv, ListsInv, Fair, SelectionIsFair, Missing
<1> QED BY <1>1, ProfileHolds, PTL

LEMMA ProfileTypes == ReviewProfileSpec => []ReviewProfileTypeOK
<1>1. ASSUME ProfileInv PROVE ReviewProfileTypeOK
  <2>1. rows \in [Rows -> RowRecord] /\ lines = NoteOmissions(rows)
    <3>1. CASE rendering = "analyzed"
      <4>1. /\ rows = RowsOf(render, ListsOf(render), render.entries)
            /\ lines = NoteOmissions(rows)
        BY <3>1, <1>1 DEF ProfileInv, NotRendered
      <4> QED BY <4>1, <1>1, RenderIs, RowsAre DEF ProfileInv
    <3>2. CASE rendering # "analyzed"
      BY <3>2, <1>1 DEF ProfileInv, RowsInv
    <3> QED BY <3>1, <3>2
  <2>2. \A name \in Rows : rows[name].omitted \in Nat
    BY <2>1 DEF RowRecord
  <2>3. /\ DOMAIN rows = Rows /\ DOMAIN lines = Rows
        /\ \A name \in Rows : lines[name] \in Nat
    BY <2>1, <2>2 DEF NoteOmissions
  <2> QED BY <2>3, <1>1 DEF ProfileInv, ReviewProfileTypeOK
<1> QED BY <1>1, ProfileHolds, PTL

(***************************************************************************)
(* Types: what a run bounds stays bounded, and the rest of a type is part  *)
(* of the invariants above.                                                *)
(***************************************************************************)
\* The catalog, its files and what was fetched.
LEMMA CatalogTyping == CatalogSpec => []CatalogTypeOK
<1> DEFINE Few == /\ fetched \subseteq Commit
                  /\ refreshes \in 0..MaxRefreshes /\ losses \in 0..MaxLosses
<1>1. CatalogInit => Few
  BY CatalogBounds DEF CatalogInit
<1>2. Few /\ [CatalogNext]_catalogs => Few'
  <2> SUFFICES ASSUME Few, [CatalogNext]_catalogs PROVE Few'
    OBVIOUS
  <2>1. /\ \/ refreshes' = refreshes
           \/ refreshes < MaxRefreshes /\ refreshes' = refreshes + 1
        /\ losses' = losses \/ (losses < MaxLosses /\ losses' = losses + 1)
        /\ \/ fetched' \subseteq fetched
           \/ \E c \in Commit : fetched' = fetched \cup Precedes[c]
    BY DEF CatalogNext, catalogs, Fetch, CheckRollback, WriteCatalog,
           WriteMeta, ReadMeta, ReadCatalog, RefreshStops, Damage
  <2> QED BY <2>1, CatalogBounds, PrecedesIsAncestry
<1>3. CatalogInv /\ Few => CatalogTypeOK
  <2> SUFFICES ASSUME CatalogInv, Few PROVE CatalogTypeOK
    OBVIOUS
  <2>1. Range(accepted) \subseteq Commit
    BY DEF CatalogInv, CatalogTyped, Range
  <2> QED BY <2>1 DEF CatalogInv, FilesAreRecorded, CatalogTypeOK
<1> QED BY <1>1, <1>2, <1>3, CatalogHolds, PTL DEF CatalogSpec

\* The suppressions and the cached reports.
LEMMA SuppressionTyping ==
  SuppressionTypeOK /\ [SuppressionNext]_suppression => SuppressionTypeOK'
<1> SUFFICES ASSUME SuppressionTypeOK, [SuppressionNext]_suppression
             PROVE  SuppressionTypeOK'
  OBVIOUS
<1> USE SuppressionBounds DEF SuppressionTypeOK
<1>1. ASSUME NEW r \in Rule, NEW t \in Target, NEW s \in Scope \cup {Nothing},
             Suppress(r, t, s)
      PROVE  SuppressionTypeOK'
  <2>1. PICK rec : records' = Append(records, rec) /\ rec.rule = r
    BY <1>1 DEF Suppress
  <2>2. ASSUME NEW i \in DOMAIN records' PROVE records'[i].rule \in Rule
    <3> QED BY <2>1, <2>2
  <2> QED BY <1>1, <2>2 DEF Suppress
<1>2. ASSUME NEW r \in Rule, NEW t \in Target, NEW s \in Scope \cup {Nothing},
             Reinstate(r, t, s)
      PROVE  SuppressionTypeOK'
  BY <1>2 DEF Reinstate
<1>3. ASSUME NEW a \in Analysis, BeginAnalysis(a) PROVE SuppressionTypeOK'
  BY <1>3 DEF BeginAnalysis
<1>4. ASSUME NEW a \in Analysis, IngestFilesystem(a) \/ EmitAnalysisReport(a)
      PROVE  SuppressionTypeOK'
  BY <1>4 DEF IngestFilesystem, EmitAnalysisReport
<1>5. CASE Upgrade \/ PluginChanges
  BY <1>5 DEF Upgrade, PluginChanges
<1>6. CASE UNCHANGED suppression
  BY <1>6 DEF suppression
<1> QED BY <1>1, <1>2, <1>3, <1>4, <1>5, <1>6 DEF SuppressionNext

\* The inventory and what the shell reports.
LEMMA InventoryTypes == InventorySpec => []InventoryTypeOK
<1> DEFINE ClassNames == {"unscannable", "backup", "cloned/local", "built-in",
                          "Git-managed"}
           ListTyped == /\ complaints \subseteq
                             ParseShellInventory \cup {NoFolder}
                        /\ \A r \in plugins : r.class \in ClassNames
<1>1. InventoryInit => ListTyped
  BY DEF InventoryInit, NothingListed
<1>2. ASSUME InventoryInv \/ NothingThere, ListTyped,
             [InventoryNext]_inventory
      PROVE  ListTyped'
  <2>1. ParseShellInventory' = ParseShellInventory
    <3>1. UNCHANGED setup
      BY <1>2 DEF InventoryNext, inventory, Claim, Inspect, Complain, Redeploy,
             RootUnavailable
    <3> QED BY <3>1 DEF setup, ParseShellInventory
  <2>2. ASSUME NEW name \in FolderName, Claim(name) PROVE ListTyped'
    BY <1>2, <2>1, <2>2 DEF Claim, shellSide
  <2>3. CASE Inspect
    <3>1. \A name, from : InspectPlugin(name, from).class \in ClassNames
      BY DEF InspectPlugin, Base, ClassOf
    <3> QED BY <1>2, <2>1, <2>3, <3>1 DEF Inspect
  <2>4. CASE Complain
    BY <1>2, <2>1, <2>4 DEF Complain, InventoryInv, ClaimsAreOwn, NothingThere,
                      Finished
  <2>5. CASE Redeploy \/ RootUnavailable \/ UNCHANGED inventory
    BY <1>2, <2>1, <2>5 DEF Redeploy, RootUnavailable, inventory, shellSide
  <2> QED BY <1>2, <2>2, <2>3, <2>4, <2>5 DEF InventoryNext
<1>3. (InventoryInv \/ NothingThere) /\ ListTyped => InventoryTypeOK
  BY DEF InventoryInv, ClaimsAreOwn, NothingThere, Finished, InventoryTypeOK
<1> QED BY <1>1, <1>2, <1>3, InventoryHolds, PTL DEF InventorySpec

\* The walk, its stack and what it hashes.
LEMMA IdentityTypes == IdentitySpec => []IdentityTypeOK
<1> DEFINE EntryKind == {"f", "d", "l", "x", "g", "h"}
           HandTyped == /\ touched \subseteq Item
                    /\ current.path \in Item \cup {Gone}
                    /\ (current = NoneCurrent) = (current.path = Gone)
                    /\ current.kind \in {"f", "g", "h"}
                    /\ DOMAIN digested = Item
                    /\ \A x \in Collected : digested[x].kind \in EntryKind
<1>1. IdentityInit => HandTyped
  BY DEF IdentityInit, NothingCollected, NoneCurrent, Collected
<1>2. WalkInv /\ HandTyped /\ [IdentityNext]_identity => HandTyped'
  <2> SUFFICES ASSUME WalkInv, HandTyped, [IdentityNext]_identity
               PROVE  HandTyped'
    OBVIOUS
  <2> USE DEF Collected
  <2>0. Gone \notin Item
    BY PluginsAreFiles
  <2>1. CASE CollectDir \/ EndDir \/ Vanished \/ ListHooks \/ OutOfBudget
    BY <2>1 DEF CollectDir, EndDir, Vanished, ListHooks, OutOfBudget, copy
  <2>2. CASE CollectLinkOrSpecial
    BY <2>2 DEF CollectLinkOrSpecial, Record, copy
  <2>3. CASE CollectSubdirectory
    BY <2>3 DEF CollectSubdirectory, Record, copy
  <2>4. CASE LookAtFile
    BY <2>0, <2>4 DEF LookAtFile, Looked, copy, NoneCurrent
  <2>5. CASE ReadFile
    <3>1. \E kind \in EntryKind : \E mode, data :
             Record(current.path, kind, mode, data)
      BY <2>5 DEF ReadFile, Sentinel
    <3>2. UNCHANGED touched /\ current' = NoneCurrent
      BY <2>5 DEF ReadFile, copy
    <3> QED BY <3>1, <3>2 DEF Record, NoneCurrent
  <2>6. CASE CollectGitFile
    <3>1. PICK x \in Item : \/ UNCHANGED current
                           \/ Looked(x, GitKind)
      BY <2>6 DEF CollectGitFile
    <3>2. UNCHANGED <<touched, digested>>
      BY <2>6 DEF CollectGitFile, copy
    <3>3. GitKind \in {"g", "h"}
      BY DEF GitKind
    <3> HIDE DEF GitKind
    <3> QED BY <2>0, <3>1, <3>2, <3>3 DEF Looked, NoneCurrent
  <2>7. CASE ReadGitFile
    <3>1. \/ \E kind \in EntryKind : \E mode, data :
                Record(current.path, kind, mode, data)
          \/ UNCHANGED digested
      BY <2>7 DEF ReadGitFile, Sentinel
    <3>2. UNCHANGED touched /\ current' = NoneCurrent
      BY <2>7 DEF ReadGitFile, copy
    <3>3. CASE UNCHANGED digested
      BY <3>2, <3>3 DEF NoneCurrent
    <3>4. ASSUME NEW kind \in EntryKind, NEW mode, NEW data,
                 Record(current.path, kind, mode, data)
          PROVE  HandTyped'
      BY <3>2, <3>4 DEF Record, NoneCurrent
    <3> QED BY <3>1, <3>3, <3>4
  <2>8. CASE Touch
    BY <2>8 DEF Touch
  <2>9. CASE UNCHANGED identity
    BY <2>9 DEF identity, copy
  <2> QED BY <2>1, <2>2, <2>3, <2>4, <2>5, <2>6, <2>7, <2>8, <2>9
          DEF IdentityNext
<1>3. WalkInv /\ HandTyped => IdentityTypeOK
  <2> SUFFICES ASSUME WalkInv, HandTyped PROVE IdentityTypeOK
    OBVIOUS
  <2>1. \A i \in DOMAIN stack : stack[i] \in StackFrame
    BY DEF WalkInv, TreeInv, StackInPlace
  <2> QED BY <2>1 DEF StackFrame, IdentityTypeOK
<1> QED BY <1>1, <1>2, <1>3, WalkHolds, PTL DEF IdentitySpec
=============================================================================
