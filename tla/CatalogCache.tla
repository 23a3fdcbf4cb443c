---------------------------- MODULE CatalogCache ----------------------------
(***************************************************************************)
(* The marketplace catalog (crates/omasafe-marketplace/src/lib.rs and fn   *)
(* marketplace_refresh of the CLI): a pinned catalog is fetched into a     *)
(* bare repository, refused when it goes back behind the cached one, and   *)
(* left in two files, catalog.json and catalog.meta.json, each replaced    *)
(* atomically, under no lock.  Readers take the metadata first.            *)
(*                                                                         *)
(* There is one registry, the official one (refresh takes no other).  A    *)
(* catalog is what `Contents` gives for its commit, and its SHA-256 is     *)
(* itself.  A repository URL is its parts.                                 *)
(***************************************************************************)
EXTENDS Integers, Sequences, FiniteSets, SequencesExt

CONSTANTS Refresh,       \* invocations of marketplace refresh
          Reader,        \* commands that load the cache
          Commit,        \* commits of the registry
          Precedes,      \* Precedes[c]: the ancestors of c, and c
          Contents,      \* Contents[c]: site/catalog.json at c
          Plugin,        \* plugin ids listed or looked up
          NoFile,        \* a file that is not there, no answer
          Garbage,       \* a file that does not parse
          MaxRefreshes,  \* bound on refreshes
          MaxLosses      \* bound on kills, failed fetches and damage

ASSUME CatalogBounds == MaxRefreshes \in Nat /\ MaxLosses \in Nat

\* A URL by its parts, and what the registry says of a plugin.
UrlParts ==
    [scheme : STRING, credentials : BOOLEAN, host : STRING, www : BOOLEAN,
     name : STRING, segments : Nat, query : BOOLEAN, slashes : Nat, git : Nat]
ListedPlugin ==
    [id : Plugin, repo : {NoFile} \cup UrlParts,
     listing : {NoFile} \cup STRING, layout : {NoFile} \cup STRING]

ASSUME CatalogsAreTyped ==
    \A c \in Commit :
        Contents[c] = Garbage \/ Contents[c] \in Seq(ListedPlugin)
ASSUME PrecedesIsAncestry ==
    \A c \in Commit :
        /\ c \in Precedes[c] /\ Precedes[c] \subseteq Commit
        /\ \A a \in Precedes[c] : Precedes[a] \subseteq Precedes[c]
ASSUME FilesAreTold ==
    \A c \in Commit :
        [commit |-> c, digest |-> Contents[c]] \notin {NoFile, Garbage}

VARIABLES
    fetched,      \* commits in catalog.git
    catalog,      \* catalog.json
    meta,         \* catalog.meta.json: the commit and the digest
    refresh,      \* each invocation
    reader,       \* each load
    refreshes, losses,
    accepted,     \* history: the commits recorded, in order
    raced         \* history: refreshes overlapped, or the record was damaged

catalogs == <<fetched, catalog, meta, refresh, reader, refreshes, losses,
              accepted, raced>>

(***************************************************************************)
(* Repository URLs: where a listing is fetched from, and what is compared. *)
(***************************************************************************)
EffectiveRepositoryUrl(r) ==
    LET plain == r.segments = 2 /\ r.slashes <= 1 /\ r.git <= 1
    IN IF /\ plain /\ ~r.query
          /\ \/ r.scheme = "https" /\ ~r.credentials
             \/ r.scheme \in {"ssh", "scp"} /\ r.host = "github.com"
                /\ ~r.www
       THEN [r EXCEPT !.scheme = "https", !.credentials = FALSE,
                      !.git = 1, !.slashes = 0]
       ELSE NoFile

\* Mutant: the suffix .git makes another repository.
NormalizeKeepsGit(r) ==
    <<IF r.scheme \in {"https", "http", "ssh", "scp"} THEN "any"
      ELSE r.scheme,
      r.scheme \in {"https", "http"} /\ r.credentials,
      r.host, r.name, r.segments, r.query, r.git>>
NormalizeRepository(r) ==
    <<IF r.scheme \in {"https", "http", "ssh", "scp"} THEN "any"
      ELSE r.scheme,
      r.scheme \in {"https", "http"} /\ r.credentials,
      r.host, r.name, r.segments, r.query>>

(***************************************************************************)
(* Lookups in a snapshot: resolve_candidate and correlate.                 *)
(***************************************************************************)
\* The places of a plugin in a catalog.
Listed(entries, p) == {i \in DOMAIN entries : entries[i].id = p}

ResolveCandidate(snapshot, p) ==
    LET found == Listed(snapshot.entries, p)
        entry == snapshot.entries[Min(found)]
    IN IF /\ snapshot.verified /\ Cardinality(found) = 1
          /\ entry.repo # NoFile
          /\ EffectiveRepositoryUrl(entry.repo) # NoFile
          /\ entry.listing # NoFile
          /\ entry.layout \in {"root-plugin", "monorepo", "suite"}
       THEN [entry |-> entry, url |-> EffectiveRepositoryUrl(entry.repo)]
       ELSE NoFile

Correlate(p, repository, head, entries) ==
    LET found == Listed(entries, p)
        Same(e) == IF repository = NoFile \/ e.repo = NoFile
                   THEN repository = e.repo
                   ELSE NormalizeRepository(e.repo)
                           = NormalizeRepository(repository)
        matches == {i \in found : Same(entries[i])}
        match == entries[Min(matches)]
    IN IF Cardinality(matches) # 1
       THEN IF found = {} THEN "unlisted" ELSE "conflict"
       ELSE IF match.layout \notin {"root-plugin", "monorepo", "suite",
                                    NoFile}
       THEN "incomplete"
       ELSE IF head # NoFile /\ match.listing \notin {NoFile, head}
       THEN "installed-differs"
       ELSE "listed"

(***************************************************************************)
(* Refresh: fetch_pinned_catalog.                                          *)
(***************************************************************************)
NotRefreshing == [pc |-> "idle", commit |-> NoFile]
NotReading == [pc |-> "idle", meta |-> NoFile, snapshot |-> NoFile]

CatalogInit ==
    /\ fetched = {} /\ catalog = NoFile /\ meta = NoFile
    /\ refresh = [r \in Refresh |-> NotRefreshing]
    /\ reader = [r \in Reader |-> NotReading]
    /\ refreshes = 0 /\ losses = 0
    /\ accepted = <<>> /\ raced = FALSE

Fetch(r, c) ==
    /\ refresh[r].pc = "idle"
    /\ refreshes < MaxRefreshes /\ refreshes' = refreshes + 1
    /\ fetched' = fetched \cup Precedes[c]
    /\ refresh' = [refresh EXCEPT ![r] = [pc |-> "check", commit |-> c]]
    /\ raced' = (raced \/ \E q \in Refresh : refresh[q].pc # "idle")
    /\ UNCHANGED <<catalog, meta, reader, losses, accepted>>

\* A record that does not parse, or none, lets every commit through.
Rollback(c) ==
    meta \notin {NoFile, Garbage} /\ meta.commit # c
    /\ meta.commit \notin Precedes[c]

CheckRollback(r) ==
    LET c == refresh[r].commit
    IN /\ refresh[r].pc = "check"
       /\ refresh' = [refresh EXCEPT ![r] =
              IF Rollback(c) \/ Contents[c] = Garbage THEN NotRefreshing
              ELSE [@ EXCEPT !.pc = "catalog"]]
       /\ UNCHANGED <<fetched, catalog, meta, reader, refreshes, losses,
                      accepted, raced>>

WriteCatalog(r) ==
    /\ refresh[r].pc = "catalog"
    /\ catalog' = Contents[refresh[r].commit]
    /\ refresh' = [refresh EXCEPT ![r].pc = "meta"]
    /\ UNCHANGED <<fetched, meta, reader, refreshes, losses, accepted, raced>>

WriteMeta(r) ==
    LET c == refresh[r].commit
    IN /\ refresh[r].pc = "meta"
       /\ meta' = [commit |-> c, digest |-> Contents[c]]
       /\ accepted' = Append(accepted, c)
       /\ refresh' = [refresh EXCEPT ![r] = NotRefreshing]
       /\ UNCHANGED <<fetched, catalog, reader, refreshes, losses, raced>>

(***************************************************************************)
(* load_cached_catalog.                                                    *)
(***************************************************************************)
ReadMeta(r) ==
    /\ reader[r].pc = "idle" /\ meta \notin {NoFile, Garbage}
    /\ reader' = [reader EXCEPT ![r] = [pc |-> "catalog", meta |-> meta,
                                        snapshot |-> NoFile]]
    /\ UNCHANGED <<fetched, catalog, meta, refresh, refreshes, losses,
                   accepted, raced>>

Verified(m) ==
    /\ m.digest = catalog
    /\ m.commit \in fetched /\ Contents[m.commit] = catalog

ReadCatalog(r) ==
    LET m == reader[r].meta
    IN /\ reader[r].pc = "catalog"
       /\ reader' = [reader EXCEPT ![r] =
              IF catalog \in {NoFile, Garbage} THEN NotReading
              ELSE [pc |-> "idle", meta |-> m,
                    snapshot |-> [commit |-> m.commit, entries |-> catalog,
                                  verified |-> Verified(m)]]]
       /\ UNCHANGED <<fetched, catalog, meta, refresh, refreshes, losses,
                      accepted, raced>>

(***************************************************************************)
(* Faults.                                                                 *)
(***************************************************************************)
RefreshStops(r) ==
    /\ refresh[r].pc # "idle"
    /\ losses < MaxLosses /\ losses' = losses + 1
    /\ refresh' = [refresh EXCEPT ![r] = NotRefreshing]
    /\ UNCHANGED <<fetched, catalog, meta, reader, refreshes, accepted,
                   raced>>

Damage ==
    /\ losses < MaxLosses /\ losses' = losses + 1
    /\ \/ meta # NoFile /\ meta' = Garbage /\ raced' = TRUE
          /\ UNCHANGED <<fetched, catalog>>
       \/ catalog # NoFile /\ catalog' = Garbage
          /\ UNCHANGED <<fetched, meta, raced>>
       \/ fetched # {} /\ fetched' = {}
          /\ UNCHANGED <<catalog, meta, raced>>
    /\ UNCHANGED <<refresh, reader, refreshes, accepted>>

CatalogNext ==
    \/ \E r \in Refresh :
          \/ \E c \in Commit : Fetch(r, c)
          \/ CheckRollback(r) \/ WriteCatalog(r) \/ WriteMeta(r)
          \/ RefreshStops(r)
    \/ \E r \in Reader : ReadMeta(r) \/ ReadCatalog(r)
    \/ Damage

CatalogSpec == CatalogInit /\ [][CatalogNext]_catalogs

(***************************************************************************)
(* Properties.                                                             *)
(***************************************************************************)
CatalogTypeOK ==
    /\ fetched \subseteq Commit
    /\ meta \in {NoFile, Garbage} \/ meta.commit \in Commit
    /\ refreshes \in 0..MaxRefreshes /\ losses \in 0..MaxLosses

\* A snapshot that says it is verified holds the catalog of the commit it
\* names, one that some refresh accepted, whatever refreshes, kills and damage
\* came between the two files or between a reader's two reads; and a listing
\* found in it is what the registry lists: one entry, fetched from the
\* repository that entry correlates with.  The commits accepted only go
\* forward (unless refreshes overlap or the record of the last one is damaged:
\* then the check has nothing, or something older, to compare with).
VerifiedIsListed ==
    /\ \A r \in Reader :
          LET s == reader[r].snapshot
          IN s # NoFile /\ s.verified =>
                /\ s.entries = Contents[s.commit]
                /\ s.commit \in Range(accepted)
                /\ \A p \in Plugin :
                      LET found == ResolveCandidate(s, p)
                      IN found # NoFile =>
                            /\ \E i \in DOMAIN s.entries :
                                  /\ Listed(s.entries, p) = {i}
                                  /\ found.entry = s.entries[i]
                            /\ found.url.scheme = "https"
                            /\ Correlate(p, found.url, found.entry.listing,
                                         s.entries) = "listed"
    /\ ~raced => \A i, j \in DOMAIN accepted :
          i < j => accepted[i] \in Precedes[accepted[j]]
=============================================================================
