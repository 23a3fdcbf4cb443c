--------------------------- MODULE PluginInventory ---------------------------
(***************************************************************************)
(* The inventory of the installed plugins (omasafe-plugin-trust, lib.rs,   *)
(* collect and collect_one): the directories below the plugin root, in the *)
(* order the file system yields them, matched with what the shell answers  *)
(* to `omarchy plugin list --json`.                                        *)
(*                                                                         *)
(* A directory is opened twice, for the ID that finds its shell record and *)
(* to be inspected; it may change in between.  Git and the identity (see   *)
(* ContentIdentity) answer with what inspect_plugin tells apart.  Listings *)
(* with one ID twice and unreadable directory entries are left out.        *)
(***************************************************************************)
EXTENDS Integers, FiniteSets

CONSTANTS FolderName,   \* names below the plugin root
          BackupName,   \* those is_backup holds of
          Layouts,      \* what is found below the root, by name
          Redeployed,   \* what a directory may become meanwhile
          Answers,      \* what the shell answers: listings by ID, or Silent
          Targets,      \* IDs collect_one is asked for, or Everything
          Silent,       \* no answer, or one that is not a listing
          Everything,
          NoFolder       \* no directory, no ID, no shell record

ASSUME NoFolderIsNothing ==
    /\ NoFolder \notin FolderName
    /\ \A a \in Answers : a # Silent => NoFolder \notin DOMAIN a

VARIABLES folders, redeployed,
          answer, target,
          unread,       \* names read_dir has yet to yield
          unclaimed,    \* shell_by_id: IDs no directory has taken
          claim,        \* the directory being inspected, its shell record
          plugins, bars, \* what is reported
          complaints    \* IDs reported as "directory was not found"; with
                        \* NoFolder, the plugin root is "unavailable"

setup == <<answer, target>>
shellSide == <<unclaimed, bars, complaints>>
inventory == <<folders, redeployed, setup, unread, shellSide, claim, plugins>>

(***************************************************************************)
(* The shell's answer and the manifests.                                   *)
(***************************************************************************)
ParseShellInventory == IF answer = Silent THEN {} ELSE DOMAIN answer

\* An ID can be read of a manifest inspect_plugin rejects, and behind a
\* directory that is a link.
ManifestId(name) == folders[name].id

ShellKey(name) ==
    CASE name \in BackupName -> NoFolder
      [] name \notin BackupName /\ ManifestId(name) \in unclaimed ->
            ManifestId(name)
      [] OTHER -> IF name \in unclaimed THEN name ELSE NoFolder

BuiltIn(id) == answer[id].firstParty \/ answer[id].cloned = "empty"

NoClaim == [name |-> NoFolder, from |-> NoFolder]
Said(from, what) == from # NoFolder /\ answer[from][what]

(***************************************************************************)
(* inspect_plugin.                                                         *)
(***************************************************************************)
Base(name, from) ==
    [ name |-> name, from |-> from,
      id |-> IF from = NoFolder THEN name ELSE from,
      class |-> "unscannable", bar |-> Said(from, "bar"),
      active |-> Said(from, "active"), limited |-> FALSE,
      reason |-> "none" ]

ClassOf(name, from) ==
    IF folders[name].git # "none" THEN "Git-managed"
    ELSE IF from # NoFolder /\ BuiltIn(from) THEN "built-in"
    ELSE "cloned/local"

\* git_metadata and the limitations of the identity; the latter replace it.
Reason(name) ==
    CASE folders[name].limited -> "limited"
      [] ~folders[name].limited /\ folders[name].git = "headless" -> "no HEAD"
      [] OTHER -> "none"

InspectPlugin(name, from) ==
    CASE folders[name].type = "link" \/ folders[name].type = "gone" ->
            [Base(name, from) EXCEPT !.reason = "symlink"]
      [] folders[name].type = "dir" /\ name \in BackupName ->
            [Base(name, from) EXCEPT !.class = "backup"]
      [] OTHER ->
            IF ~folders[name].sound
            THEN [Base(name, from) EXCEPT !.reason = "manifest"]
            ELSE [ Base(name, from) EXCEPT
                     !.id = folders[name].id,
                     !.bar = IF folders[name].kinds = "none" THEN @
                             ELSE folders[name].kinds = "bar",
                     !.class = ClassOf(name, from),
                     !.limited = folders[name].limited,
                     !.reason = Reason(name) ]

(***************************************************************************)
(* collect_internal.                                                       *)
(***************************************************************************)
ShellBars ==
    {id \in ParseShellInventory : answer[id].active /\ answer[id].bar}

NothingListed ==
    /\ redeployed = {}
    /\ unread = {name \in FolderName : folders[name] # NoFolder}
    /\ unclaimed = ParseShellInventory
    /\ bars = ShellBars
    /\ claim = NoClaim /\ plugins = {} /\ complaints = {}

InventoryInit ==
    /\ folders \in Layouts /\ answer \in Answers /\ target \in Targets
    /\ NothingListed

Wanted(name, from) ==
    target = Everything \/ target \in {folders[name].id, name, from}

Claim(name) ==
    /\ claim = NoClaim /\ name \in unread
    /\ unread' = unread \ {name}
    /\ LET from == ShellKey(name)
       IN  /\ unclaimed' = unclaimed \ {from}
           /\ claim' = IF Wanted(name, from)
                       THEN [name |-> name, from |-> from] ELSE NoClaim
    /\ UNCHANGED <<folders, redeployed, setup, bars, complaints, plugins>>

Inspect ==
    /\ claim # NoClaim
    /\ LET r == InspectPlugin(claim.name, claim.from)
       IN  /\ plugins' = plugins \cup {r}
           /\ bars' = IF r.active /\ r.bar THEN bars \cup {r.id} ELSE bars
    /\ claim' = NoClaim
    /\ UNCHANGED <<folders, redeployed, setup, unread, unclaimed, complaints>>

Finished == unread = {} /\ claim = NoClaim /\ unclaimed = {}

\* What the shell lists beyond the directories.
Complain ==
    /\ unread = {} /\ claim = NoClaim /\ unclaimed # {}
    /\ complaints' = {id \in unclaimed : ~BuiltIn(id)}
    /\ unclaimed' = {}
    /\ UNCHANGED <<folders, redeployed, setup, unread, bars, claim, plugins>>

\* read_dir refuses the plugin root: nothing is listed, no active full bar
\* is counted, and the one limitation says so.
RootUnavailable ==
    /\ NothingListed
    /\ unread' = {} /\ unclaimed' = {} /\ bars' = {}
    /\ complaints' = {NoFolder}
    /\ UNCHANGED <<folders, redeployed, setup, claim, plugins>>

\* A directory is replaced while the inventory is collected.
Redeploy ==
    /\ ~Finished /\ redeployed = {}
    /\ \E name \in FolderName : \E folder \in Redeployed[name] :
          /\ folders[name] \notin {NoFolder, folder}
          /\ folders' = [folders EXCEPT ![name] = folder]
          /\ redeployed' = {name}
    /\ UNCHANGED <<setup, unread, shellSide, claim, plugins>>

InventoryNext ==
    \/ \E name \in FolderName : Claim(name)
    \/ Inspect \/ Complain \/ RootUnavailable \/ Redeploy

InventorySpec == InventoryInit /\ [][InventoryNext]_inventory

InventoryTypeOK ==
    /\ unclaimed \subseteq ParseShellInventory
    /\ complaints \subseteq ParseShellInventory \cup {NoFolder}
    /\ \A r \in plugins :
          r.class \in {"unscannable", "backup", "cloned/local", "built-in",
                       "Git-managed"}

(***************************************************************************)
(* Properties.                                                             *)
(***************************************************************************)
\* The directories that may stand for a plugin of the shell.
Claimants(id) ==
    {name \in FolderName : folders[name] # NoFolder
                           /\ (name = id \/ folders[name].id = id)}

\* The inventory is one of directories that could be listed.
RootListed == Finished /\ NoFolder \notin complaints

\* In whatever order directories are listed, and whatever is replaced
\* meanwhile: what the shell says of a plugin is shown by one directory at
\* most, never by a backup, and reported as without directory if by none;
\* the only directory that can be meant shows it.  Asked for one plugin, the
\* inventory has every directory that calls itself so.
InventoryFollowsShell ==
    RootListed =>
        /\ \A r \in plugins :
              r.from # NoFolder => /\ r.name \notin BackupName
                                  /\ r.from \notin complaints
        /\ \A r, s \in plugins : r.from = s.from /\ r # s => r.from = NoFolder
        /\ \A id \in ParseShellInventory :
              target \in {Everything, id} =>
                  \/ BuiltIn(id) \/ id \in complaints
                  \/ \E r \in plugins : r.from = id
        /\ \A id \in ParseShellInventory, name \in FolderName \ BackupName :
              /\ Claimants(id) \ BackupName = {name}
              /\ redeployed = {} /\ target \in {Everything, id}
              /\ folders[name].id \in {id, NoFolder}
              => \E r \in plugins : r.name = name /\ r.from = id
        /\ \A name \in FolderName \ redeployed :
              /\ folders[name] # NoFolder
              /\ target \in {Everything, name, folders[name].id}
              => \E r \in plugins : r.name = name

\* A conflict of full bars is one of two plugins the shell calls active,
\* whichever directories are listed first (unless a directory and the
\* manifest in it name different plugins, which is a limitation).
BarsAreCounted ==
    RootListed /\ redeployed = {}
    /\ (\A r \in plugins : r.from # NoFolder => r.id = r.from)
    => /\ bars \subseteq {id \in ParseShellInventory : answer[id].active}
       /\ target = Everything =>
              \A id \in ParseShellInventory \ bars :
                  ~(answer[id].active /\ (\/ answer[id].bar
                                          \/ \E r \in plugins :
                                                r.from = id /\ r.bar))
===============================================================================
