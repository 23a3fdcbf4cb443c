---------------------------- MODULE PostureChecks ----------------------------
(***************************************************************************)
(* What a posture check makes of the host: every check of                  *)
(* crates/omasafe-posture/src/lib.rs as an operator from what the commands *)
(* and files showed to a CheckState, with what the host really is beside   *)
(* it.  The checks only read; the state kept from scan to scan is Posture. *)
(*                                                                         *)
(* A host is a record.  A command of it either cannot be run to an end     *)
(* (Broken: not installed, timed out, killed, cut off) or is Done, with an *)
(* exit status, its lines and whether it wrote to stderr.  Evidence,       *)
(* next steps and redaction are left out.                                  *)
(***************************************************************************)
EXTENDS Integers, Sequences, FiniteSets, SequencesExt

CONSTANTS None,     \* no value: no status, no commit, no URL
          Broken    \* a RunnerError: nothing of the command is kept

CheckState == {"pass", "regression", "attention", "informational",
               "incomplete", "not_applicable", "error"}
Loss == {"incomplete", "error"}
Done(status, lines, stderr) ==
    [status |-> status, lines |-> lines, stderr |-> stderr]

(***************************************************************************)
(* Commands.  A tool counts only in a directory nobody but root can write. *)
(* The lookup is spelt out for arch-audit; the other commands are given as *)
(* what Execute returns.                                                   *)
(***************************************************************************)
Resolved(tool) == tool.inFixedRoot /\ tool.rootOwned /\ ~tool.othersWrite
Execute(tool, out) == IF Resolved(tool) THEN out ELSE Broken
Succeeded(out) == out # Broken /\ out.status = 0

(***************************************************************************)
(* updates.repository: checkupdates in a private database, and pacman -Qu  *)
(* on that database when it says that there is nothing.  The second        *)
(* component is the inventory updates.omarchy is read from.                *)
(***************************************************************************)
QueryVerdict(q) ==
    IF q = Broken \/ q.stderr THEN "incomplete"
    ELSE IF q.status = 0
    THEN IF q.lines = {} THEN "pass" ELSE "attention"
    ELSE IF q.status = 1 /\ q.lines = {} THEN "pass" ELSE "incomplete"

\* Mutant: an exit without updates is believed without a synced database.
RepositoryUnsynced(h) ==
    LET out == h.checkupdates
    IN IF ~h.tmp \/ out = Broken THEN <<"incomplete", {}>>
       ELSE IF Succeeded(out)
       THEN <<IF out.lines = {} THEN "incomplete" ELSE "attention",
              out.lines>>
       ELSE IF /\ out.status \in {1, 2}
               /\ ~(out.status = 1 /\ out.stderr)
       THEN <<QueryVerdict(h.query), {}>>
       ELSE <<"incomplete", {}>>

Repository(h) ==
    LET out == h.checkupdates
    IN IF ~h.tmp \/ out = Broken THEN <<"incomplete", {}>>
       ELSE IF Succeeded(out)
       THEN <<IF out.lines = {} THEN "incomplete" ELSE "attention",
              out.lines>>
       ELSE IF /\ out.status \in {1, 2}
               /\ ~(out.status = 1 /\ out.stderr)
       THEN <<IF h.synced THEN QueryVerdict(h.query) ELSE "incomplete", {}>>
       ELSE <<"incomplete", {}>>

(***************************************************************************)
(* updates.omarchy: from that inventory, or by comparing a checkout with   *)
(* its upstream through a private bare repository.                         *)
(***************************************************************************)
\* A configuration in which no line could make Git run something or talk to
\* somebody else.  A line belongs to the last section that began before it.
InOrigin(config, i) ==
    \E s \in 1..i :
        /\ config[s] = "origin"
        /\ \A k \in s..i : config[k] # "section"
UnsafeLine(config, i) ==
    \/ config[i] \in {"include", "helper"}
    \/ config[i] \in {"badurl", "badfetch"} /\ InOrigin(config, i)
ParseSafeUpstream(config) ==
    /\ \E i \in DOMAIN config : config[i] = "url" /\ InOrigin(config, i)
    /\ \A i \in DOMAIN config : ~UnsafeLine(config, i)

\* A loose reference that reads as a commit wins over the packed one.
ReadCheckoutHead(g) ==
    LET loose == IF g.loose = "junk" THEN None ELSE g.loose
    IN IF g.detached \/ loose # None THEN loose ELSE g.packed

DevelopmentCheckout(g) ==
    LET head == ReadCheckoutHead(g)
        named == IF g.revParse = Broken THEN g.fetch ELSE g.revParse
    IN IF \/ g.config = None \/ ~ParseSafeUpstream(g.config)
          \/ head = None \/ ~g.cache
          \/ ~Succeeded(g.init) \/ ~Succeeded(g.fetch)
          \/ named.lines \in {{}, {"junk"}}
       THEN "incomplete"
       ELSE IF named.lines = {head} THEN "pass" ELSE "attention"

OmarchyUpdates(h) ==
    LET repository == Repository(h)
    IN IF h.omarchy = "none" THEN "not_applicable"
       ELSE IF h.omarchy = "checkout" THEN DevelopmentCheckout(h.git)
       ELSE IF repository[1] = "attention"
       THEN IF "omarchy" \in repository[2] THEN "attention" ELSE "pass"
       ELSE repository[1]

(***************************************************************************)
(* vulnerabilities.arch_audit, packages.foreign, network.listeners.        *)
(***************************************************************************)
ArchAudit(h) ==
    LET out == Execute(h.auditTool, h.audit)
    IN IF ~Succeeded(out) THEN "incomplete"
       ELSE IF out.lines = {} THEN "pass" ELSE "regression"

Listing(out) == IF Succeeded(out) THEN "informational" ELSE "incomplete"
Listeners(h) == Listing(h.sockets)
ForeignPackages(h) == Listing(h.foreign)

(***************************************************************************)
(* encryption.root_luks.  lsblk shows a forest; here it is its paths from  *)
(* a disk to a leaf, in the order shown, each node saying whether it is a  *)
(* crypt device and whether the root filesystem is mounted from it.        *)
(***************************************************************************)
RootAt(path) == {i \in DOMAIN path : path[i].root}
FirstOf(S) == CHOOSE i \in S : \A j \in S : i <= j
Encrypted(path) == \E i \in 1..FirstOf(RootAt(path)) : path[i].crypt
\* The walk stops at the first root mount it meets.
JsonRootHasCrypt(paths) ==
    LET rooted == {n \in DOMAIN paths : RootAt(paths[n]) # {}}
    IN IF rooted = {} THEN None ELSE Encrypted(paths[FirstOf(rooted)])

RootLuks(h) ==
    IF ~Succeeded(h.disks) \/ h.disks.lines = None THEN "incomplete"
    ELSE LET crypt == JsonRootHasCrypt(h.disks.lines)
         IN IF crypt = None THEN "incomplete"
            ELSE IF crypt THEN "pass" ELSE "attention"

(***************************************************************************)
(* firewall.*                                                              *)
(***************************************************************************)
\* A non-zero answer with a message is no answer: the bus was out of reach.
UnitState(out) ==
    IF out = Broken THEN None
    ELSE IF out.status = 0 THEN "active"
    ELSE IF ~out.stderr THEN "inactive" ELSE None

FirewallConfiguration(h) ==
    IF ~h.nftConfig /\ h.ufwFiles = {} THEN "incomplete"
    ELSE "informational"

FirewallService(h) ==
    LET nft == UnitState(h.nftUnit)
        ufw == UnitState(h.ufwUnit)
    IN IF nft = None /\ ufw = None THEN "incomplete"
       ELSE IF (nft = "active") # (ufw = "active") THEN "informational"
       ELSE "attention"

\* A hook and a policy are read from where the last chain was opened to a
\* line before which it was not closed.
NftHasBaseChain(lines) ==
    \E opened, here \in DOMAIN lines :
        /\ lines[opened] = "chain"
        /\ \A k \in opened+1..here : lines[k] # "chain"
        /\ \A k \in opened..here-1 : lines[k] # "}"
        /\ {"hook", "policy"} \subseteq {lines[k] : k \in opened..here}

\* Without the live rule set: what ufw says of itself, or what its
\* configuration, its unit and its rule files say together.
UfwEffectiveFallback(h) ==
    \/ Succeeded(h.ufwStatus) /\ h.ufwStatus.lines = {"active"}
    \/ /\ h.ufwEnabled
       /\ "rules" \in h.ufwFiles
       /\ UnitState(h.ufwUnit) = "active"

FirewallEffective(h) ==
    IF \/ Succeeded(h.nft) /\ NftHasBaseChain(h.nft.lines)
       \/ UfwEffectiveFallback(h)
    THEN "pass"
    ELSE IF Succeeded(h.nft) THEN "attention" ELSE "incomplete"

(***************************************************************************)
(* kernel.restart.  What pacman printed counts, whatever its exit status.  *)
(***************************************************************************)
KernelRestart(h) ==
    IF h.pacmanQ = Broken \/ h.uname = Broken THEN "incomplete"
    ELSE IF h.uname.lines = {} \/ h.pacmanQ.lines = {} THEN "incomplete"
    ELSE IF h.uname.lines \subseteq h.pacmanQ.lines THEN "pass"
    ELSE "attention"

(***************************************************************************)
(* The rest: presence, permissions and context.                            *)
(***************************************************************************)
Context(h) == IF h.omarchy = "none" THEN "informational" ELSE "pass"
Keyring(h) == IF h.keyring THEN "pass" ELSE "incomplete"
Persistence(h) == "informational"
PathIntegrity(h) ==
    IF \E d \in h.path : d.exists /\ d.worldWritable
    THEN "regression" ELSE "pass"
SecureBoot(h) ==
    IF ~h.efi THEN "not_applicable"
    ELSE IF Succeeded(h.bootctl) /\ "Secure Boot" \in h.bootctl.lines
    THEN "informational"
    ELSE "incomplete"
SshConfiguration(h) ==
    IF ~Succeeded(h.sshd) THEN "not_applicable"
    ELSE IF h.sshdConfig THEN "informational" ELSE "incomplete"
PackageIntegrity(h) == "not_applicable"
PostUpdateHook(h) == "informational"

(***************************************************************************)
(* The scan.                                                               *)
(***************************************************************************)
Verdict(h) ==
    [ context |-> Context(h), repository |-> Repository(h)[1],
      omarchy |-> OmarchyUpdates(h), audit |-> ArchAudit(h),
      luks |-> RootLuks(h), firewallConf |-> FirewallConfiguration(h),
      firewallUnit |-> FirewallService(h),
      firewall |-> FirewallEffective(h), listeners |-> Listeners(h),
      kernel |-> KernelRestart(h), foreign |-> ForeignPackages(h),
      keyring |-> Keyring(h), persistence |-> Persistence(h),
      path |-> PathIntegrity(h), secureBoot |-> SecureBoot(h),
      ssh |-> SshConfiguration(h), integrity |-> PackageIntegrity(h),
      hook |-> PostUpdateHook(h) ]
=============================================================================
