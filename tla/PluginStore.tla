----------------------------- MODULE PluginStore -----------------------------
(***************************************************************************)
(* The plugins on disk, which all claws of a user share: a directory for   *)
(* every plugin and the registry file that records them.  Nothing is locked*)
(* and nothing is written atomically.  Every runtime a claw builds first   *)
(* brings the bundled plugins up to the version that is shipped and then   *)
(* discovers what is there; meanwhile another claw may do the same, or     *)
(* install, update or uninstall a plugin, and each may be killed, or fail, *)
(* at any step.                                                            *)
(***************************************************************************)
EXTENDS Naturals

CONSTANTS Managers,            \* claws that use the store
          Bundled, External,   \* identifiers of plugins
          NameOf,              \* the name in the manifest, which an identifier adds to
          MaxVersion,          \* bound: versions of a bundled plugin
          MaxStoreOps,         \* bound: operations begun
          MaxStoreFaults       \* bound: operations killed or failed
ASSUME StoreAssumption ==
  /\ Bundled \cap External = {} /\ MaxVersion \in Nat \ {0}
  /\ MaxStoreOps \in Nat /\ MaxStoreFaults \in Nat

PluginIds == Bundled \cup External
\* What a plugin's directory holds: its manifest, the commands the manifest
\* names, and what no validation looks at.
Files == {"manifest", "commands", "rest"}

VARIABLES
  shipped,     \* version of each bundled plugin beside the program, 0 when there is none
  copy,        \* the directories under install_root
  registry,    \* recorded versions, 0 for no record
  unreadable,  \* the registry file is not JSON
  manager,     \* the operation of each claw
  report,      \* PluginRegistryReport, of the last discovery of each claw
  storeOps, storeFaults,
  installed,   \* history: external plugins copied to the end, with no other operation on them
               \* meanwhile or since
  halved,        \* history: plugins that an operation left half removed or half copied, and no
               \* claw alone has copied to the end since
  cut          \* history: such plugins, where the registry recorded that version or another
               \* claw was at work on it too
storeVars == <<shipped, copy, registry, unreadable, manager, report, storeOps, storeFaults,
               installed, cut, halved>>

NoCopy == [dir |-> FALSE, version |-> 0, files |-> {}]
NoRecords == [id \in PluginIds |-> 0]
Idle == [op |-> "none", step |-> "idle", id |-> "none", memory |-> NoRecords, left |-> {},
         queue |-> {}, changed |-> FALSE, shared |-> FALSE]

StoreInit ==
  /\ shipped = [b \in Bundled |-> 1] /\ copy = [id \in PluginIds |-> NoCopy]
  /\ registry = NoRecords /\ unreadable = FALSE /\ manager = [c \in Managers |-> Idle]
  /\ report = [c \in Managers |-> [plugins |-> {}, failures |-> {}]]
  /\ storeOps = 0 /\ storeFaults = 0 /\ installed = {} /\ cut = {} /\ halved = {}

HasManifest(id) == "manifest" \in copy[id].files
Loads(id) == {"manifest", "commands"} \subseteq copy[id].files
\* The version there is to copy.  A removal has none.
Source(id) == IF id \in Bundled THEN shipped[id] ELSE 1
Removal(m) == m.op = "uninstall" \/ Source(m.id) = 0
AtWork(c, id) == manager[c].id = id /\ manager[c].step \in {"remove", "create", "copy"}
\* On file, or in the memory of another claw that may write it.
Recorded(c, id) ==
  registry[id] = Source(id) \/ \E d \in Managers \ {c} : manager[d].memory[id] = Source(id)
Tended(id) == \E c \in Managers : AtWork(c, id)

(***************************************************************************)
(* The operations                                                          *)
(***************************************************************************)
Begins(c, m) ==
  /\ manager[c].step = "idle" /\ storeOps < MaxStoreOps /\ storeOps' = storeOps + 1
  /\ manager' = [manager EXCEPT ![c] = m]
  /\ UNCHANGED <<shipped, copy, registry, unreadable, report, storeFaults,
                 installed, cut, halved>>
\* plugin_registry, of every runtime and before enable and disable.
Refresh(c) ==
  /\ ~unreadable
  /\ Begins(c, [Idle EXCEPT !.op = "sync", !.step = "sync", !.memory = registry, !.queue = Bundled])
Install(c, id) == Begins(c, [Idle EXCEPT !.op = "install", !.step = "place", !.id = id])
Uninstall(c, id) ==
  /\ ~unreadable /\ registry[id] # 0 /\ id \in External
  /\ Begins(c, [Idle EXCEPT !.op = "uninstall", !.step = "place", !.id = id,
                            !.memory = [registry EXCEPT ![id] = 0]])
Update(c, id) ==
  /\ ~unreadable /\ registry[id] # 0 /\ Source(id) # 0
  /\ Begins(c, [Idle EXCEPT !.op = "update", !.step = "place", !.id = id,
                            !.memory = [registry EXCEPT ![id] = Source(id)]])

\* sync_bundled_plugins, one plugin at a time; those no longer shipped come last.
\* Faulty variant: another version is no reason to copy.
NeedsSyncIfBroken(c, b) == ~copy[b].dir \/ ~Loads(b) \/ manager[c].memory[b] = 0
NeedsSync(c, b) == ~copy[b].dir \/ ~Loads(b) \/ manager[c].memory[b] # shipped[b]
Keeps(c, b) ==
  /\ manager[c].step = "sync" /\ b \in manager[c].queue /\ shipped[b] # 0 /\ ~NeedsSync(c, b)
  /\ manager' = [manager EXCEPT ![c].queue = @ \ {b}]
  /\ UNCHANGED <<shipped, copy, registry, unreadable, report, storeOps, storeFaults,
                 installed, cut, halved>>
Outdated(c, b) ==
  IF shipped[b] # 0 THEN NeedsSync(c, b)
  ELSE manager[c].memory[b] # 0 /\ \A a \in manager[c].queue : shipped[a] = 0
Renews(c, b) ==
  LET m == manager[c] IN
  /\ m.step = "sync" /\ b \in m.queue /\ Outdated(c, b)
  /\ manager' = [manager EXCEPT ![c] =
       [m EXCEPT !.queue = @ \ {b}, !.id = b, !.step = "place", !.changed = TRUE,
                 !.memory = [m.memory EXCEPT ![b] = shipped[b]]]]
  /\ UNCHANGED <<shipped, copy, registry, unreadable, report, storeOps, storeFaults,
                 installed, cut, halved>>
Synced(c) ==
  /\ manager[c].step = "sync"
  /\ \A b \in manager[c].queue : shipped[b] = 0 /\ manager[c].memory[b] = 0
  /\ manager' = [manager EXCEPT ![c].step = IF manager[c].changed THEN "store" ELSE "discover"]
  /\ UNCHANGED <<shipped, copy, registry, unreadable, report, storeOps, storeFaults,
                 installed, cut, halved>>

(***************************************************************************)
(* A directory is removed and copied anew, file by file                    *)
(***************************************************************************)
After(kind) == CASE kind = "sync" -> "sync" [] kind = "install" -> "record" [] OTHER -> "store"
Places(c) ==
  LET m == manager[c] IN
  /\ m.step = "place"
  /\ manager' = [d \in Managers |->
       IF d = c THEN [m EXCEPT !.left = copy[m.id].files, !.shared = Tended(m.id),
                               !.step = IF copy[m.id].dir THEN "remove"
                                        ELSE IF Removal(m) THEN After(m.op) ELSE "create"]
       ELSE IF AtWork(d, m.id) THEN [manager[d] EXCEPT !.shared = TRUE]
       ELSE manager[d]]
  /\ installed' = installed \ {m.id}
  /\ UNCHANGED <<shipped, copy, registry, unreadable, report, storeOps, storeFaults, cut, halved>>
Unlinks(c, file) ==
  /\ manager[c].step = "remove" /\ file \in manager[c].left
  /\ copy' = [copy EXCEPT ![manager[c].id].files = @ \ {file}]
  /\ manager' = [manager EXCEPT ![c].left = @ \ {file}]
  /\ UNCHANGED <<shipped, registry, unreadable, report, storeOps, storeFaults,
                 installed, cut, halved>>
\* Who else was removing this directory has nothing left to unlink in it.
Removed(c) ==
  LET m == manager[c] IN
  /\ m.step = "remove" /\ m.left = {} /\ copy[m.id].dir /\ copy[m.id].files = {}
  /\ copy' = [copy EXCEPT ![m.id] = NoCopy]
  /\ manager' = [d \in Managers |->
       IF d = c THEN [m EXCEPT !.step = IF Removal(m) THEN After(m.op) ELSE "create"]
       ELSE IF manager[d].step = "remove" /\ manager[d].id = m.id
            THEN [manager[d] EXCEPT !.left = {}]
       ELSE manager[d]]
  /\ UNCHANGED <<shipped, registry, unreadable, report, storeOps, storeFaults,
                 installed, cut, halved>>
Creates(c) ==
  LET m == manager[c] IN
  /\ m.step = "create"
  /\ copy' = [copy EXCEPT ![m.id].dir = TRUE, ![m.id].version = Source(m.id)]
  /\ manager' = [manager EXCEPT ![c] = [@ EXCEPT !.step = "copy", !.left = Files]]
  /\ UNCHANGED <<shipped, registry, unreadable, report, storeOps, storeFaults,
                 installed, cut, halved>>
Copies(c, file) ==
  /\ manager[c].step = "copy" /\ file \in manager[c].left /\ copy[manager[c].id].dir
  /\ copy' = [copy EXCEPT ![manager[c].id].files = @ \cup {file}]
  /\ manager' = [manager EXCEPT ![c].left = @ \ {file}]
  /\ UNCHANGED <<shipped, registry, unreadable, report, storeOps, storeFaults,
                 installed, cut, halved>>
Copied(c) ==
  LET m == manager[c] IN
  /\ m.step = "copy" /\ m.left = {}
  /\ manager' = [manager EXCEPT ![c].step = After(m.op)]
  /\ installed' = IF m.shared THEN installed ELSE installed \cup ({m.id} \cap External)
  /\ cut' = IF m.shared THEN cut ELSE cut \ {m.id}
  /\ halved' = IF m.shared THEN halved ELSE halved \ {m.id}
  /\ UNCHANGED <<shipped, copy, registry, unreadable, report, storeOps, storeFaults>>

(***************************************************************************)
(* The registry file and the discovery                                     *)
(***************************************************************************)
\* install reads the registry when the copy is there.
Records(c) ==
  /\ manager[c].step = "record" /\ ~unreadable
  /\ manager' = [manager EXCEPT ![c].step = "store",
                                ![c].memory = [registry EXCEPT ![manager[c].id] = 1]]
  /\ UNCHANGED <<shipped, copy, registry, unreadable, report, storeOps, storeFaults,
                 installed, cut, halved>>
\* store_registry: fs::write empties the file and then writes it.  An empty
\* file reads as no records.
Truncates(c) ==
  /\ manager[c].step = "store"
  /\ registry' = NoRecords /\ unreadable' = FALSE
  /\ manager' = [manager EXCEPT ![c].step = "write"]
  /\ UNCHANGED <<shipped, copy, report, storeOps, storeFaults, installed, cut, halved>>
WritesRegistry(c) ==
  LET m == manager[c] IN
  /\ m.step = "write"
  /\ registry' = m.memory /\ unreadable' = FALSE
  /\ manager' = [manager EXCEPT ![c] = IF m.op = "sync" THEN [m EXCEPT !.step = "discover"]
                                       ELSE Idle]
  /\ UNCHANGED <<shipped, copy, report, storeOps, storeFaults, installed, cut, halved>>

\* discover_installed_plugins_with_failures; the directories are looked at in
\* one step, after the registry was read.
Discovers(c) ==
  /\ manager[c].step = "discover" /\ ~unreadable
  /\ manager' = [manager EXCEPT ![c] = [Idle EXCEPT !.op = "discovery", !.step = "scan",
                                                    !.memory = registry]]
  /\ UNCHANGED <<shipped, copy, registry, unreadable, report, storeOps, storeFaults,
                 installed, cut, halved>>
\* Without its record a bundled plugin is taken for an external one.  Its
\* directory sorts before that of the external plugin of the same name, whose
\* identifier it takes (seen_ids).
Hidden(id, records) ==
  id \in External /\ \E b \in Bundled : Loads(b) /\ records[b] = 0 /\ NameOf[b] = NameOf[id]
\* Faulty variant: the discovery goes by the records.
FoundInRegistry(records) ==
  {id \in PluginIds : Loads(id) /\ records[id] # 0 /\ ~Hidden(id, records)}
\* The directories whose plugin is in the registry that is discovered.
Found(records) == {id \in PluginIds : Loads(id) /\ ~Hidden(id, records)}
Failing == {id \in PluginIds : HasManifest(id) /\ ~Loads(id)}
\* into_registry: a runtime, enable and disable get no registry at all then; only
\* the list of plugins shows what is in the report.
NoRegistry(got) == got.failures # {}
Stale(records) == {id \in PluginIds : records[id] # 0 /\ ~HasManifest(id)}
Scans(c) ==
  LET records == manager[c].memory IN
  /\ manager[c].step = "scan"
  /\ report' = [report EXCEPT ![c] = [plugins |-> Found(records), failures |-> Failing]]
  /\ manager' = [manager EXCEPT ![c] =
       IF Stale(records) = {} THEN Idle
       ELSE [@ EXCEPT !.step = "store",
                      !.memory = [id \in PluginIds |->
                                    IF id \in Stale(records) THEN 0 ELSE records[id]]]]
  /\ UNCHANGED <<shipped, copy, registry, unreadable, storeOps, storeFaults,
                 installed, cut, halved>>

(***************************************************************************)
(* Ends that nobody asked for                                              *)
(***************************************************************************)
EndsEarly(c) ==
  LET m == manager[c] IN
  /\ manager' = [manager EXCEPT ![c] = Idle]
  /\ cut' = IF AtWork(c, m.id) /\ (m.shared \/ Recorded(c, m.id)) THEN cut \cup {m.id} ELSE cut
  /\ halved' = IF AtWork(c, m.id) THEN halved \cup {m.id} ELSE halved
  /\ UNCHANGED <<shipped, copy, report, storeOps, installed>>
\* A directory that filled up again cannot be removed, one that has gone cannot
\* be removed or copied to, and an unreadable registry cannot be read.
Blocked(m) ==
  \/ m.step = "remove" /\ m.left = {} /\ (copy[m.id].files # {} \/ ~copy[m.id].dir)
  \/ m.step = "copy" /\ m.left # {} /\ ~copy[m.id].dir
  \/ m.step \in {"record", "discover"} /\ unreadable
Refusal(c) == Blocked(manager[c]) /\ EndsEarly(c) /\ UNCHANGED <<registry, unreadable, storeFaults>>
\* The process is killed, or the file system refuses; the file being written
\* may stay empty or hold a part.
Interrupted(c) ==
  /\ manager[c].step # "idle" /\ storeFaults < MaxStoreFaults /\ storeFaults' = storeFaults + 1
  /\ EndsEarly(c) /\ UNCHANGED registry
  /\ unreadable' \in {unreadable, unreadable \/ manager[c].step = "write"}

\* Another version of the program ships another version of a plugin, or drops
\* it for good; no operation runs meanwhile.
Upgrade(b) ==
  /\ \A c \in Managers : manager[c].step = "idle"
  /\ shipped[b] # 0
  /\ \E v \in {0, shipped[b] + 1} : v <= MaxVersion /\ shipped' = [shipped EXCEPT ![b] = v]
  /\ UNCHANGED <<copy, registry, unreadable, manager, report, storeOps, storeFaults,
                 installed, cut, halved>>

StoreNext ==
  \/ \E c \in Managers :
       \/ Refresh(c) \/ Synced(c) \/ Places(c) \/ Removed(c) \/ Creates(c) \/ Copied(c)
       \/ Records(c) \/ Truncates(c) \/ WritesRegistry(c) \/ Discovers(c) \/ Scans(c)
       \/ Refusal(c) \/ Interrupted(c)
       \/ \E id \in External : Install(c, id) \/ Uninstall(c, id)
       \/ \E id \in PluginIds : Update(c, id)
       \/ \E b \in Bundled : Keeps(c, b) \/ Renews(c, b)
       \/ \E file \in Files : Unlinks(c, file) \/ Copies(c, file)
  \/ \E b \in Bundled : Upgrade(b)
StoreSpec == StoreInit /\ [][StoreNext]_storeVars

(***************************************************************************)
(* Properties                                                              *)
(***************************************************************************)
\* Every variable stays in its type.
StoreTypeOK ==
  /\ shipped \in [Bundled -> 0..MaxVersion] /\ registry \in [PluginIds -> 0..MaxVersion]
  /\ \A id \in PluginIds : copy[id].version \in 0..MaxVersion /\ copy[id].files \subseteq Files
  /\ unreadable \in BOOLEAN /\ storeOps \in 0..MaxStoreOps /\ storeFaults \in 0..MaxStoreFaults
  /\ installed \subseteq External /\ cut \subseteq PluginIds /\ halved \subseteq PluginIds
  /\ \A c \in Managers : report[c].plugins \subseteq PluginIds /\ manager[c].queue \subseteq Bundled

\* A bundled plugin that sync_bundled_plugins leaves alone is the one that is
\* shipped, all of it, although the records and the validation it decides by show
\* neither the files nor what other claws do.  Excepted is one that was cut short
\* while its record stood or while two claws were at it: it may load and stay
\* incomplete.
KeptIsShipped ==
  [][\A c \in Managers, b \in Bundled : Keeps(c, b) =>
       /\ copy[b].version = shipped[b]
       /\ copy[b].files = Files \/ b \in cut \/ Tended(b)]_storeVars

\* What a discovery must find, and what alone may stand in the way of a runtime.
Discovered(c) ==
  /\ NoRegistry(report'[c]) => \A id \in report'[c].failures : id \in halved \/ Tended(id)
  /\ \A id \in installed :
       /\ copy[id].files = Files
       /\ id \in report'[c].plugins \/ Hidden(id, manager[c].memory)
\* A discovery finds every external plugin that an install or update copied to
\* the end and no other operation touched meanwhile or since, with all of its
\* files, whatever kills and the registries other claws had read before made of
\* its record; only a bundled plugin of its name can hide it, one whose own record
\* was lost or is gone.  And what refuses a runtime its plugins is a directory that
\* a claw is at work on, or that a kill or a failure left half done.
InstalledIsFound == [][\A c \in Managers : Scans(c) => Discovered(c)]_storeVars
=============================================================================
