----------------------------- MODULE PinnedCache -----------------------------
(***************************************************************************)
(* How scan-plugin obtains a candidate at a pinned revision: a request, a  *)
(* URL or a listing becomes a source and a revision, the revision is       *)
(* brought into a private bare repository of that source below the         *)
(* analysis cache (ingest.rs, ensure_pinned_repository_with_facts), the    *)
(* plugin is looked up in it and its tree is read, object by object.       *)
(*                                                                         *)
(* A repository is filled and rebuilt under one lock for the whole cache;  *)
(* it is read without.  A scan may be killed at any step, fetches fail,    *)
(* upstream moves, and what lies in the cache may be damaged or deleted.   *)
(*                                                                         *)
(* A revision is two objects, "commit" and "rest"; the size of the cache   *)
(* is their number, and a fetch that is cut off leaves as much behind,     *)
(* whether the scan is killed or the fetch at its own deadline.            *)
(* What the report says of the content is PayloadAnalysis.                 *)
(***************************************************************************)
EXTENDS Integers, Sequences, FiniteSets

CONSTANTS Scan,         \* runs of scan-plugin
          Source,       \* canonical URLs
          Pin,          \* the revisions
          Format,       \* the object format of a revision
          Ever,         \* the revisions a source ever has
          Manifests,    \* root and plugin of the manifests of a revision
          Wishes,       \* what a scan may be asked for
          Quota,        \* MAX_CACHE_BYTES, in objects
          Unmade,       \* no repository, no scan, no plugin
          MaxTroubles   \* kills, damage and pushes

Objects == {"commit", "rest"}
BareRepository ==
    [ whole : BOOLEAN, origin : Source \cup {Unmade}, redirect : BOOLEAN,
      format : {Format[rev] : rev \in Pin}, objects : SUBSET (Pin \X Objects),
      litter : Nat ]

ASSUME UnmadeIsNothing ==
    Unmade \notin Scan \cup Source /\ Unmade \notin BareRepository
ASSUME SourcesHavePins ==
    \A u \in Source : Ever[u] # {} /\ Ever[u] \subseteq Pin
ASSUME QuotaIsSize == Quota \in Nat
ASSUME WishesName ==
    \A wish \in Wishes :
        /\ IF wish.how = "request" THEN wish.request.url.source \in Source
           ELSE wish.source \in Source
        /\ wish.how \notin {"request", "head"} => wish.rev \in Pin

VARIABLES repository,   \* the repository of a source, or Unmade
          cacheLock,    \* the scan that holds it, or Unmade
          upstream,     \* what a source has and its default head
          scan,         \* the scans
          troubles

pins == <<repository, cacheLock, upstream, scan, troubles>>

Asleep == [ at |-> "asleep", wish |-> Unmade, source |-> Unmade,
            rev |-> Unmade, hit |-> FALSE, contacted |-> FALSE,
            got |-> {}, disturbed |-> FALSE ]

(***************************************************************************)
(* Requests: a URL, or a copied install command whose flags are dropped.   *)
(***************************************************************************)
CanonicalPublicGithubUrl(u) ==
    IF /\ u.scheme = "https" /\ u.host = "github.com"
       /\ u.segments = 2 /\ ~u.query
       /\ u.slashes <= 1 /\ u.git <= 1
    THEN u.source ELSE Unmade

ParseCandidateRequest(r) ==
    IF /\ r.command \in {"none", "add", "install"}
       /\ Cardinality({r.flags[i] : i \in DOMAIN r.flags}) = Len(r.flags)
       /\ \A i \in DOMAIN r.flags : r.flags[i] \in {"enable", "yes"}
       /\ r.command = "none" => r.flags = <<>>
    THEN CanonicalPublicGithubUrl(r.url) ELSE Unmade

(***************************************************************************)
(* The cache.                                                              *)
(***************************************************************************)
\* What lies in a repository: its objects, and what fetches cut off left.
Items(repo) ==
    IF repo = Unmade THEN {}
    ELSE ({"object"} \X repo.objects) \cup ({"litter"} \X (1..repo.litter))
Stored == UNION {{u} \X Items(repository[u]) : u \in Source}
CacheSize == Cardinality(Stored)
OverQuota == CacheSize > Quota

Initialized(rev) ==
    [ whole |-> TRUE, origin |-> Unmade, redirect |-> FALSE,
      format |-> Format[rev], objects |-> {}, litter |-> 0 ]

\* A directory that was not written, or not removed, completely.
Partial(repo) == [repo EXCEPT !.whole = FALSE]
\* One with the leavings of a fetch.
Littered(repo) == [repo EXCEPT !.litter = @ + Cardinality(Objects)]

Usable(repo) == repo # Unmade /\ repo.whole /\ ~repo.redirect
HasObject(repo, rev, object) ==
    repo # Unmade /\ repo.whole /\ <<rev, object>> \in repo.objects
HasWhole(repo, rev) == \A object \in Objects : HasObject(repo, rev, object)

Step(s, from, record) ==
    /\ scan[s].at = from
    /\ scan' = [scan EXCEPT ![s] = record]

Going(s, to) == [scan[s] EXCEPT !.at = to]
Stop(s) == [scan[s] EXCEPT !.at = "failed"]
Rest == <<upstream, troubles>>
Keep == UNCHANGED <<repository, Rest>>

Trouble == troubles < MaxTroubles /\ troubles' = troubles + 1

\* The scan fails where it holds the lock, which its descriptor gives back.
FailLocked(s) ==
    /\ scan' = [scan EXCEPT ![s] = Stop(s)]
    /\ cacheLock' = Unmade

Mine(s) == repository[scan[s].source]

\* Mutant: a partial fetch, of the commit alone.
FetchedPartly(rev) == {<<rev, "commit">>}
Fetched(rev) == {rev} \X Objects

CanFetch(s) ==
    /\ Usable(Mine(s)) /\ Mine(s).origin # Unmade
    /\ scan[s].rev \in upstream[Mine(s).origin].has
WithFetched(s) == [Mine(s) EXCEPT !.objects = @ \cup Fetched(scan[s].rev)]

\* What a step that does not come to its end may leave of the repository: of
\* a fetch nothing, a pack that is not in place, or all it was to bring.
LeaveHalfDone(s) ==
    \/ UNCHANGED repository
    \/ /\ scan[s].at \in {"init", "reinit"} /\ Mine(s) = Unmade
       /\ repository' = [repository EXCEPT ![scan[s].source] =
                                Partial(Initialized(scan[s].rev))]
    \/ /\ scan[s].at = "remove" /\ Mine(s) # Unmade
       /\ repository' = [repository EXCEPT ![scan[s].source] = Partial(@)]
    \/ /\ scan[s].at = "fetch" /\ Mine(s) # Unmade
       /\ repository' = [repository EXCEPT ![scan[s].source] = Littered(@)]
    \/ /\ scan[s].at = "fetch" /\ CanFetch(s)
       /\ repository' =
                [repository EXCEPT ![scan[s].source] = WithFetched(s)]

\* A git command fails, or is killed at the deadline each has of its own: the
\* scan ends before the quota is looked at again.
StepFails(s) ==
    /\ LeaveHalfDone(s)
    /\ scan' = [scan EXCEPT ![s] =
            Going(s, IF scan[s].at = "fetch" /\ repository' # repository
                     THEN "cut" ELSE "failed")]
    /\ cacheLock' = Unmade

Ask(s) ==
    \E wish \in Wishes :
        LET source == IF wish.how = "request"
                      THEN ParseCandidateRequest(wish.request)
                      ELSE wish.source
        IN  /\ Step(s, "asleep",
                [Asleep EXCEPT
                    !.at = IF source = Unmade THEN "failed"
                           ELSE IF wish.how \in {"request", "head"}
                           THEN "resolve" ELSE "measure",
                    !.wish = wish, !.source = source,
                    !.rev = IF wish.how \in {"request", "head"} THEN Unmade
                            ELSE wish.rev])
            /\ UNCHANGED cacheLock /\ Keep

\* git ls-remote: the default head, or no answer that can be used.
ResolveRemoteHead(s) ==
    /\ \/ Step(s, "resolve", [scan[s] EXCEPT !.at = "measure",
                                !.contacted = TRUE,
                                !.rev = upstream[scan[s].source].head])
       \/ Step(s, "resolve", Stop(s))
    /\ UNCHANGED cacheLock /\ Keep

MeasureCache(s) ==
    /\ Step(s, "measure", IF OverQuota THEN Stop(s) ELSE Going(s, "lock"))
    /\ UNCHANGED cacheLock /\ Keep

TakeCacheLock(s) ==
    /\ cacheLock = Unmade
    /\ Step(s, "lock", Going(s, "open"))
    /\ cacheLock' = s
    /\ Keep

LockTimesOut(s) ==
    /\ cacheLock # Unmade
    /\ Step(s, "lock", Stop(s))
    /\ UNCHANGED cacheLock /\ Keep

OpenRepository(s) ==
    /\ scan[s].at = "open"
    /\ IF OverQuota THEN FailLocked(s)
       ELSE /\ scan' = [scan EXCEPT ![s] =
                    Going(s, IF Mine(s) = Unmade THEN "init" ELSE "validate")]
            /\ UNCHANGED cacheLock
    /\ Keep

InitRepository(s) ==
    /\ scan[s].at \in {"init", "reinit"}
    /\ \/ /\ scan' = [scan EXCEPT ![s] = Going(s,
                IF scan[s].at = "init" THEN "validate" ELSE "origin")]
          /\ repository' = [repository EXCEPT ![scan[s].source] =
                IF @ = Unmade THEN Initialized(scan[s].rev) ELSE @]
          /\ UNCHANGED cacheLock
       \/ StepFails(s)
    /\ UNCHANGED Rest

\* validate_cache_redirects, validate_cache_config, the object format.
ValidateRepository(s) ==
    /\ scan[s].at = "validate"
    /\ \/ /\ Usable(Mine(s))
          /\ Mine(s).origin \in {Unmade, scan[s].source}
          /\ Mine(s).format = Format[scan[s].rev]
          /\ scan' = [scan EXCEPT ![s] = Going(s, "probe")]
          /\ UNCHANGED <<repository, cacheLock>>
       \/ StepFails(s)
    /\ UNCHANGED Rest

\* cat-file and fsck --connectivity-only.
CacheHit(repo, rev) == HasWhole(repo, rev)

\* A command that does not answer in time has not found what it looked for.
ProbeRevision(s) ==
    /\ scan[s].at = "probe"
    /\ \E commit \in {HasObject(Mine(s), scan[s].rev, "commit"), FALSE},
          hit \in {CacheHit(Mine(s), scan[s].rev), FALSE} :
            scan' = [scan EXCEPT ![s] =
                [@ EXCEPT !.hit = commit /\ hit,
                          !.at = IF commit /\ ~hit THEN "remove"
                                 ELSE "origin"]]
    /\ UNCHANGED cacheLock /\ Keep

\* A revision that is present but not complete: the repository starts anew.
RemoveRepository(s) ==
    /\ scan[s].at = "remove"
    /\ \/ /\ repository' = [repository EXCEPT ![scan[s].source] = Unmade]
          /\ scan' = [scan EXCEPT ![s] = Going(s, "reinit")]
          /\ UNCHANGED cacheLock
       \/ StepFails(s)
    /\ UNCHANGED Rest

SetOrigin(s) ==
    /\ scan[s].at = "origin"
    /\ \/ /\ Usable(Mine(s)) /\ Mine(s).origin \in {Unmade, scan[s].source}
          /\ repository' = [repository EXCEPT
                    ![scan[s].source].origin = scan[s].source]
          /\ scan' = [scan EXCEPT ![s] =
                    Going(s, IF scan[s].hit THEN "account" ELSE "fetch")]
          /\ UNCHANGED cacheLock
       \/ StepFails(s)
    /\ UNCHANGED Rest

FetchRevision(s) ==
    /\ scan[s].at = "fetch"
    /\ \/ /\ CanFetch(s)
          /\ repository' =
                [repository EXCEPT ![scan[s].source] = WithFetched(s)]
          /\ scan' = [scan EXCEPT ![s] = [Going(s, "account") EXCEPT
                                            !.contacted = TRUE]]
          /\ UNCHANGED cacheLock
       \/ StepFails(s)
    /\ UNCHANGED Rest

\* The fetch may have gone over the quota: then what it wrote goes, and the
\* failure to remove it is ignored.
AccountFetch(s) ==
    /\ scan[s].at = "account"
    /\ cacheLock' = Unmade
    /\ IF OverQuota
       THEN /\ scan' = [scan EXCEPT ![s] = Stop(s)]
            /\ \/ repository' = [repository EXCEPT ![scan[s].source] = Unmade]
               \/ /\ Mine(s) # Unmade
                  /\ repository' = [repository EXCEPT
                                        ![scan[s].source] = Partial(@)]
       ELSE /\ scan' = [scan EXCEPT ![s] = Going(s, "discover")]
            /\ UNCHANGED repository
    /\ UNCHANGED Rest

\* The plugin asked for must be that of exactly one manifest.
DiscoverManifestRoots(s) ==
    LET plugin == scan[s].wish.plugin
        matches == {m \in Manifests[scan[s].rev] : m.plugin = plugin}
    IN  /\ Step(s, "discover",
                IF \/ plugin = Unmade
                   \/ /\ HasWhole(Mine(s), scan[s].rev)
                      /\ Cardinality(matches) = 1
                THEN Going(s, "read") ELSE Stop(s))
        /\ UNCHANGED cacheLock /\ Keep

\* ls-tree, then the objects: any that is missing ends the scan.
ReadObject(s) ==
    LET object == IF scan[s].got = {} THEN "commit" ELSE "rest"
    IN  /\ Step(s, "read",
                IF HasObject(Mine(s), scan[s].rev, object)
                THEN [scan[s] EXCEPT
                        !.got = @ \cup {<<scan[s].rev, object>>},
                        !.at = IF object = "rest" THEN "reported" ELSE "read"]
                ELSE Stop(s))
        /\ UNCHANGED cacheLock /\ Keep

(***************************************************************************)
(* Failures and the world.                                                 *)
(***************************************************************************)
KillScan(s) ==
    /\ Trouble
    /\ scan[s].at \notin {"asleep", "failed", "cut", "reported"}
    /\ scan' = [scan EXCEPT ![s] = Stop(s)]
    /\ cacheLock' = IF cacheLock = s THEN Unmade ELSE cacheLock
    /\ LeaveHalfDone(s)
    /\ UNCHANGED upstream

\* Somebody clears a repository, or changes what it holds.
DamageRepository(u) ==
    /\ Trouble
    /\ repository[u] # Unmade
    /\ \/ repository' = [repository EXCEPT ![u] = Unmade]
       \/ \E x \in repository[u].objects :
             repository' = [repository EXCEPT ![u].objects = @ \ {x}]
       \/ \E other \in Source \ {u} :
             repository' = [repository EXCEPT ![u].origin = other]
       \/ repository' = [repository EXCEPT ![u].redirect = TRUE]
    /\ scan' = [s \in Scan |->
            IF scan[s].source = u /\ cacheLock = s
            THEN [scan[s] EXCEPT !.disturbed = TRUE] ELSE scan[s]]
    /\ UNCHANGED <<cacheLock, upstream>>

Push(u) ==
    /\ Trouble
    /\ \E rev \in Ever[u], rewrite \in BOOLEAN :
          upstream' = [upstream EXCEPT ![u] =
                [head |-> rev,
                 has |-> IF rewrite THEN {rev} ELSE @.has \cup {rev}]]
    /\ UNCHANGED <<repository, cacheLock, scan>>

PinsInit ==
    /\ repository = [u \in Source |-> Unmade]
    /\ cacheLock = Unmade
    /\ upstream = [u \in Source |->
            [head |-> CHOOSE rev \in Ever[u] : TRUE, has |-> Ever[u]]]
    /\ scan = [s \in Scan |-> Asleep]
    /\ troubles = 0

PinsNext ==
    \/ \E s \in Scan :
          \/ Ask(s) \/ ResolveRemoteHead(s) \/ MeasureCache(s)
          \/ TakeCacheLock(s) \/ LockTimesOut(s) \/ OpenRepository(s)
          \/ InitRepository(s) \/ ValidateRepository(s) \/ ProbeRevision(s)
          \/ RemoveRepository(s) \/ SetOrigin(s) \/ FetchRevision(s)
          \/ AccountFetch(s) \/ DiscoverManifestRoots(s) \/ ReadObject(s)
          \/ KillScan(s)
    \/ \E u \in Source : DamageRepository(u) \/ Push(u)

PinsSpec == PinsInit /\ [][PinsNext]_pins

PinsTypeOK ==
    /\ cacheLock \in Scan \cup {Unmade}
    /\ \A s \in Scan :
          /\ scan[s].rev \in Pin \cup {Unmade}
          /\ scan[s].got \subseteq Pin \X Objects
          /\ (cacheLock = s) =
                (scan[s].at \in {"open", "init", "validate", "probe",
                                 "remove", "reinit", "origin", "fetch",
                                 "account"})

(***************************************************************************)
(* Properties.                                                             *)
(***************************************************************************)
Network(s) ==
    scan[s].wish.how \in {"request", "head"} \/ ~scan[s].hit

\* No scan of a source had a repository changed under it.
Undisturbed(u) == \A t \in Scan : scan[t].source = u => ~scan[t].disturbed

\* The lock is given back with the revision complete in the repository, and
\* a report is of all of the pinned revision and says truly whether the
\* network was used; it is of a revision its source had, unless a repository
\* of that source was changed while a scan held the lock on it: what such a
\* scan fetched from elsewhere the next one finds in the cache.
PinsAreComplete ==
    \A s \in Scan :
        /\ scan[s].at = "account" /\ ~scan[s].disturbed =>
              HasWhole(Mine(s), scan[s].rev)
        /\ scan[s].at = "reported" =>
              /\ scan[s].got = {scan[s].rev} \X Objects
              /\ Network(s) = scan[s].contacted
              /\ Undisturbed(scan[s].source) =>
                    scan[s].rev \in Ever[scan[s].source]

\* However scans overlap, are killed or fail to clean up, the cache exceeds
\* its quota by one fetch at most, and never lets a scan past it then; when
\* no kill intervened, no fetch was cut off (one that fails is not followed
\* by a look at the quota) and no removal or initialization failed half-way,
\* only the lock's holder may.
QuotaHolds ==
    /\ CacheSize <= Quota + Cardinality(Objects)
    /\ \A s \in Scan : scan[s].at = "fetch" => ~OverQuota
    /\ /\ cacheLock = Unmade /\ troubles = 0
       /\ \A s \in Scan : scan[s].at # "cut"
       /\ \A u \in Source : repository[u] # Unmade => repository[u].whole
       => ~OverQuota

\* Whatever scans, kills and damage do to the cache, it hands out complete
\* revisions of exactly the source asked for and stays within its quota
\* (ensure_pinned_repository_with_facts, enforce_cache_quota).
CacheKeepsPins == PinsAreComplete /\ QuotaHolds
===============================================================================
