--------------------------- MODULE ClawDiskProofs ---------------------------
(***************************************************************************)
(* Proofs about what claws keep on disk and share: the plugins, and the    *)
(* sessions of the command line, for any number of claws and whatever      *)
(* kills and failures.                                                     *)
(***************************************************************************)
EXTENDS PluginStore, ClawSession, WellFoundedInduction, SequenceTheorems, TLAPS

(***************************************************************************)
(* PluginStore                                                             *)
(***************************************************************************)
Kinds == {"none", "sync", "install", "uninstall", "update", "discovery"}
StepNames == {"idle", "sync", "place", "remove", "create", "copy", "record", "store", "write",
              "discover", "scan"}
StoreOperations ==
  [op : Kinds, step : StepNames, id : PluginIds \cup {"none"}, memory : [PluginIds -> Nat],
   left : SUBSET Files, queue : SUBSET Bundled, changed : BOOLEAN, shared : BOOLEAN]
Reports == [plugins : SUBSET PluginIds, failures : SUBSET PluginIds]
StoreTyped ==
  /\ shipped \in [Bundled -> Nat] /\ registry \in [PluginIds -> Nat]
  /\ copy \in [PluginIds -> [dir : BOOLEAN, version : Nat, files : SUBSET Files]]
  /\ manager \in [Managers -> StoreOperations]
  /\ \A c \in Managers : manager[c].step = "place" => manager[c].id \in PluginIds
  /\ report \in [Managers -> Reports]
  /\ installed \subseteq External
\* Two claws that work on one plugin both know.
SharersKnow == \A c, d \in Managers : \A id \in PluginIds :
  c # d /\ AtWork(c, id) /\ AtWork(d, id) => manager[c].shared
\* What a claw alone has copied stays.
CopyGrows == \A c \in Managers : \A id \in PluginIds :
  AtWork(c, id) /\ manager[c].step = "copy" /\ ~manager[c].shared
    => copy[id].dir /\ Files \ manager[c].left \subseteq copy[id].files
InstalledIsWhole == \A id \in installed :
  copy[id].files = Files /\ \A c \in Managers : ~AtWork(c, id)
StoreInv == StoreTyped /\ SharersKnow /\ CopyGrows /\ InstalledIsWhole

LEMMA StoreInitInv == StoreInit => StoreInv
  BY DEF StoreInit, StoreInv, StoreTyped, StoreOperations, Reports, Kinds, StepNames, SharersKnow,
         CopyGrows, InstalledIsWhole, AtWork, Idle, NoCopy, NoRecords, PluginIds, Files

\* A version to copy is a number.
LEMMA SourceIsVersion ==
  ASSUME StoreTyped, NEW id \in PluginIds
  PROVE  Source(id) \in Nat
  BY DEF StoreTyped, Source

\* A step of a claw that works on no directory afterwards, and that changes none.
LEMMA OffTheDirectories ==
  ASSUME StoreInv, NEW c \in Managers, NEW m \in StoreOperations,
         manager' = [manager EXCEPT ![c] = m], m.step \notin {"remove", "create", "copy"},
         m.step = "place" => m.id \in PluginIds,
         UNCHANGED <<shipped, copy, installed>>,
         registry' \in [PluginIds -> Nat], report' \in [Managers -> Reports]
  PROVE  StoreInv'
<1>1. StoreTyped'
  BY DEF StoreInv, StoreTyped
<1>2. \A d \in Managers : \A id \in PluginIds :
        AtWork(d, id)' => d # c /\ AtWork(d, id) /\ manager'[d] = manager[d]
  BY DEF StoreInv, StoreTyped, AtWork
<1>3. SharersKnow' /\ CopyGrows'
  BY <1>2 DEF StoreInv, SharersKnow, CopyGrows
<1>4. InstalledIsWhole'
  BY <1>2 DEF StoreInv, StoreTyped, InstalledIsWhole, PluginIds
<1>5. QED BY <1>1, <1>3, <1>4 DEF StoreInv

LEMMA StoreNextInv ==
  ASSUME StoreInv, [StoreNext]_storeVars
  PROVE  StoreInv'
<1> USE DEF StoreInv
<1>1. ASSUME NEW c \in Managers, Refresh(c) PROVE StoreInv'
  <2> DEFINE m == [Idle EXCEPT !.op = "sync", !.step = "sync", !.memory = registry, !.queue = Bundled]
  <2>1. m \in StoreOperations /\ m.step = "sync"
    BY DEF Idle, StoreOperations, Kinds, StepNames, StoreTyped, NoRecords, Files
  <2>2. manager' = [manager EXCEPT ![c] = m]
    BY <1>1 DEF Refresh, Begins
  <2> HIDE DEF m
  <2>3. QED BY <1>1, <2>1, <2>2, OffTheDirectories DEF Refresh, Begins, StoreTyped
<1>2. ASSUME NEW c \in Managers, NEW id \in External, Install(c, id) PROVE StoreInv'
  <2> DEFINE m == [Idle EXCEPT !.op = "install", !.step = "place", !.id = id]
  <2>1. m \in StoreOperations /\ m.step = "place" /\ m.id \in PluginIds
    BY DEF Idle, StoreOperations, Kinds, StepNames, StoreTyped, NoRecords, Files, PluginIds
  <2>2. manager' = [manager EXCEPT ![c] = m]
    BY <1>2 DEF Install, Begins
  <2> HIDE DEF m
  <2>3. QED BY <1>2, <2>1, <2>2, OffTheDirectories DEF Install, Begins, StoreTyped
<1>3. ASSUME NEW c \in Managers, NEW id \in External, Uninstall(c, id) PROVE StoreInv'
  <2> DEFINE m == [Idle EXCEPT !.op = "uninstall", !.step = "place", !.id = id,
                               !.memory = [registry EXCEPT ![id] = 0]]
  <2>1. m \in StoreOperations /\ m.step = "place" /\ m.id \in PluginIds
    BY DEF Idle, StoreOperations, Kinds, StepNames, StoreTyped, NoRecords, Files, PluginIds
  <2>2. manager' = [manager EXCEPT ![c] = m]
    BY <1>3 DEF Uninstall, Begins
  <2> HIDE DEF m
  <2>3. QED BY <1>3, <2>1, <2>2, OffTheDirectories DEF Uninstall, Begins, StoreTyped
<1>4. ASSUME NEW c \in Managers, NEW id \in PluginIds, Update(c, id) PROVE StoreInv'
  <2> DEFINE m == [Idle EXCEPT !.op = "update", !.step = "place", !.id = id,
                               !.memory = [registry EXCEPT ![id] = Source(id)]]
  <2>1. m \in StoreOperations /\ m.step = "place" /\ m.id \in PluginIds
    BY SourceIsVersion DEF Idle, StoreOperations, Kinds, StepNames, StoreTyped, NoRecords, Files
  <2>2. manager' = [manager EXCEPT ![c] = m]
    BY <1>4 DEF Update, Begins
  <2> HIDE DEF m
  <2>3. QED BY <1>4, <2>1, <2>2, OffTheDirectories DEF Update, Begins, StoreTyped
<1>5. ASSUME NEW c \in Managers, NEW b \in Bundled, Keeps(c, b) PROVE StoreInv'
  <2> DEFINE m == [manager[c] EXCEPT !.queue = @ \ {b}]
  <2>1. m \in StoreOperations /\ m.step = "sync"
    BY <1>5 DEF Keeps, StoreOperations, Kinds, StepNames, StoreTyped
  <2>2. manager' = [manager EXCEPT ![c] = m]
    BY <1>5 DEF Keeps, StoreTyped
  <2> HIDE DEF m
  <2>3. QED BY <1>5, <2>1, <2>2, OffTheDirectories DEF Keeps, StoreTyped
<1>6. ASSUME NEW c \in Managers, NEW b \in Bundled, Renews(c, b) PROVE StoreInv'
  <2> DEFINE m == [manager[c] EXCEPT !.queue = @ \ {b}, !.id = b, !.step = "place", !.changed = TRUE,
                     !.memory = [manager[c].memory EXCEPT ![b] = shipped[b]]]
  <2>1. m \in StoreOperations /\ m.step = "place" /\ m.id \in PluginIds
    BY DEF StoreOperations, Kinds, StepNames, StoreTyped, PluginIds
  <2>2. manager' = [manager EXCEPT ![c] = m]
    BY <1>6 DEF Renews, StoreTyped
  <2> HIDE DEF m
  <2>3. QED BY <1>6, <2>1, <2>2, OffTheDirectories DEF Renews, StoreTyped
<1>7. ASSUME NEW c \in Managers, Synced(c) PROVE StoreInv'
  <2> DEFINE m == [manager[c] EXCEPT !.step = IF manager[c].changed THEN "store" ELSE "discover"]
  <2>1. m \in StoreOperations /\ m.step \in {"store", "discover"}
    BY DEF StoreOperations, Kinds, StepNames, StoreTyped
  <2>2. manager' = [manager EXCEPT ![c] = m]
    BY <1>7 DEF Synced, StoreTyped
  <2> HIDE DEF m
  <2>3. QED BY <1>7, <2>1, <2>2, OffTheDirectories DEF Synced, StoreTyped
<1>8. ASSUME NEW c \in Managers, Records(c) PROVE StoreInv'
  <2> DEFINE m == [manager[c] EXCEPT !.step = "store",
                                     !.memory = [registry EXCEPT ![manager[c].id] = 1]]
  <2>1. m \in StoreOperations /\ m.step = "store"
    BY DEF StoreOperations, Kinds, StepNames, StoreTyped
  <2>2. manager' = [manager EXCEPT ![c] = m]
    BY <1>8 DEF Records, StoreTyped
  <2> HIDE DEF m
  <2>3. QED BY <1>8, <2>1, <2>2, OffTheDirectories DEF Records, StoreTyped
<1>9. ASSUME NEW c \in Managers, Truncates(c) PROVE StoreInv'
  <2> DEFINE m == [manager[c] EXCEPT !.step = "write"]
  <2>1. m \in StoreOperations /\ m.step = "write"
    BY DEF StoreOperations, Kinds, StepNames, StoreTyped
  <2>2. manager' = [manager EXCEPT ![c] = m]
    BY <1>9 DEF Truncates, StoreTyped
  <2>3. registry' \in [PluginIds -> Nat]
    BY <1>9 DEF Truncates, NoRecords
  <2> HIDE DEF m
  <2>4. QED BY <1>9, <2>1, <2>2, <2>3, OffTheDirectories DEF Truncates, StoreTyped
<1>10. ASSUME NEW c \in Managers, WritesRegistry(c) PROVE StoreInv'
  <2> DEFINE m == IF manager[c].op = "sync" THEN [manager[c] EXCEPT !.step = "discover"] ELSE Idle
  <2>1. m \in StoreOperations /\ m.step \in {"discover", "idle"}
    BY DEF StoreOperations, Kinds, StepNames, StoreTyped, Idle, NoRecords
  <2>2. manager' = [manager EXCEPT ![c] = m]
    BY <1>10 DEF WritesRegistry, StoreTyped
  <2>3. registry' \in [PluginIds -> Nat]
    BY <1>10 DEF WritesRegistry, StoreTyped, StoreOperations, Kinds, StepNames
  <2> HIDE DEF m
  <2>4. QED BY <1>10, <2>1, <2>2, <2>3, OffTheDirectories DEF WritesRegistry, StoreTyped
<1>11. ASSUME NEW c \in Managers, Discovers(c) PROVE StoreInv'
  <2> DEFINE m == [Idle EXCEPT !.op = "discovery", !.step = "scan", !.memory = registry]
  <2>1. m \in StoreOperations /\ m.step = "scan"
    BY DEF Idle, StoreOperations, Kinds, StepNames, StoreTyped, NoRecords
  <2>2. manager' = [manager EXCEPT ![c] = m]
    BY <1>11 DEF Discovers
  <2> HIDE DEF m
  <2>3. QED BY <1>11, <2>1, <2>2, OffTheDirectories DEF Discovers, StoreTyped
<1>12. ASSUME NEW c \in Managers, Scans(c) PROVE StoreInv'
  <2> DEFINE records == manager[c].memory
             pruned == [id \in PluginIds |-> IF id \in Stale(records) THEN 0 ELSE records[id]]
             m == IF Stale(records) = {} THEN Idle
                  ELSE [manager[c] EXCEPT !.step = "store", !.memory = pruned]
  <2>1. pruned \in [PluginIds -> Nat]
    BY DEF StoreOperations, Kinds, StepNames, StoreTyped
  <2>2. m \in StoreOperations /\ m.step \in {"store", "idle"}
    <3> HIDE DEF pruned
    <3> QED BY <2>1 DEF StoreOperations, Kinds, StepNames, StoreTyped, Idle, NoRecords
  <2>3. manager' = [manager EXCEPT ![c] = m]
    BY <1>12 DEF Scans, StoreTyped
  <2>4. report' \in [Managers -> Reports]
    BY <1>12 DEF Scans, StoreTyped, Found, Failing, Reports
  <2> HIDE DEF m
  <2>5. QED BY <1>12, <2>2, <2>3, <2>4, OffTheDirectories DEF Scans, StoreTyped
<1>13. ASSUME NEW c \in Managers, EndsEarly(c), UNCHANGED registry PROVE StoreInv'
  <2>1. Idle \in StoreOperations /\ Idle.step = "idle"
    BY DEF Idle, StoreOperations, Kinds, StepNames, NoRecords
  <2>2. manager' = [manager EXCEPT ![c] = Idle]
    BY <1>13 DEF EndsEarly
  <2>3. QED BY <1>13, <2>1, <2>2, OffTheDirectories DEF EndsEarly, StoreTyped
<1>14. ASSUME NEW c \in Managers, Places(c) PROVE StoreInv'
  <2> DEFINE x == manager[c].id
  <2>1. \A d \in Managers : \A id \in PluginIds :
          AtWork(d, id)' /\ d # c => /\ AtWork(d, id)
                                     /\ manager'[d].step = manager[d].step
                                     /\ manager'[d].left = manager[d].left
                                     /\ manager[d].shared => manager'[d].shared
                                     /\ id = x => manager'[d].shared
    BY <1>14 DEF Places, AtWork, StoreTyped, StoreOperations, Kinds, StepNames
  <2>2. \A id \in PluginIds : AtWork(c, id)' => /\ id = x /\ manager'[c].step # "copy"
                                                /\ manager'[c].shared = Tended(x)
    BY <1>14 DEF Places, AtWork, StoreTyped, StoreOperations, Kinds, StepNames, After
  <2>3. StoreTyped'
    <3>1. x \in PluginIds
      BY <1>14 DEF Places, StoreTyped
    <3>2. manager'[c] \in StoreOperations /\ manager'[c].step # "place"
      <4>1. manager[c] \in StoreOperations /\ copy[x].files \in SUBSET Files
        BY <3>1 DEF StoreTyped
      <4>2. Tended(x) \in BOOLEAN
        BY DEF Tended
      <4>3. QED BY <1>14, <4>1, <4>2 DEF Places, StoreTyped, StoreOperations, Kinds, StepNames, After
    <3>3. ASSUME NEW d \in Managers, d # c
          PROVE  /\ manager'[d] \in StoreOperations /\ manager'[d].id = manager[d].id
                 /\ manager'[d].step = manager[d].step
      BY <1>14, <3>3 DEF Places, StoreTyped, StoreOperations, Kinds, StepNames
    <3>4. QED BY <1>14, <3>2, <3>3 DEF Places, StoreTyped
  <2>4. SharersKnow'
    <3> SUFFICES ASSUME NEW a \in Managers, NEW d \in Managers, NEW id \in PluginIds,
                        a # d, AtWork(a, id)', AtWork(d, id)'
                 PROVE  manager'[a].shared
      BY DEF SharersKnow
    <3>1. CASE a = c
      <4>1. id = x /\ AtWork(d, x)
        BY <2>1, <2>2, <3>1
      <4>2. QED BY <2>2, <3>1, <4>1 DEF Tended
    <3>2. CASE d = c
      BY <2>1, <2>2, <3>2
    <3>3. CASE a # c /\ d # c
      <4>1. AtWork(a, id) /\ AtWork(d, id)
        BY <2>1, <3>3
      <4>2. manager[a].shared
        BY <4>1 DEF SharersKnow
      <4>3. QED BY <2>1, <3>3, <4>2
    <3>4. QED BY <3>1, <3>2, <3>3
  <2>5. CopyGrows'
    BY <1>14, <2>1, <2>2 DEF CopyGrows, Places
  <2>6. InstalledIsWhole'
    BY <1>14, <2>1, <2>2 DEF InstalledIsWhole, Places, StoreTyped, PluginIds
  <2>7. QED BY <2>3, <2>4, <2>5, <2>6
<1>15. ASSUME NEW c \in Managers, NEW file \in Files, Unlinks(c, file) PROVE StoreInv'
  <2> DEFINE x == manager[c].id
  <2>1. x \in PluginIds => AtWork(c, x)
    BY <1>15 DEF Unlinks, AtWork
  <2>2. \A d \in Managers : \A id \in PluginIds :
          /\ AtWork(d, id)' <=> AtWork(d, id)
          /\ manager'[d].step = manager[d].step /\ manager'[d].shared = manager[d].shared
          /\ d # c => manager'[d].left = manager[d].left
    BY <1>15 DEF Unlinks, AtWork, StoreTyped, StoreOperations, Kinds, StepNames
  <2>3. \A id \in PluginIds : id # x => copy'[id] = copy[id]
    BY <1>15 DEF Unlinks, StoreTyped
  <2>4. StoreTyped'
    <3> DEFINE m == [manager[c] EXCEPT !.left = @ \ {file}]
    <3>a. m \in StoreOperations /\ m.step # "place"
      BY <1>15 DEF Unlinks, StoreTyped, StoreOperations, Kinds, StepNames
    <3>b. manager' = [manager EXCEPT ![c] = m]
      BY <1>15 DEF Unlinks, StoreTyped
    <3> HIDE DEF m
    <3>1. manager' \in [Managers -> StoreOperations]
      BY <3>a, <3>b DEF StoreTyped
    <3>2. copy' \in [PluginIds -> [dir : BOOLEAN, version : Nat, files : SUBSET Files]]
      BY <1>15 DEF Unlinks, StoreTyped
    <3>3. QED BY <1>15, <3>a, <3>b, <3>1, <3>2 DEF Unlinks, StoreTyped
  <2>5. SharersKnow'
    BY <2>2 DEF SharersKnow
  <2>6. CopyGrows'
    BY <1>15, <2>1, <2>2, <2>3 DEF CopyGrows, SharersKnow, Unlinks, AtWork
  <2>7. InstalledIsWhole'
    BY <1>15, <2>1, <2>2, <2>3 DEF InstalledIsWhole, Unlinks, StoreTyped, PluginIds
  <2>8. QED BY <2>4, <2>5, <2>6, <2>7
<1>16. ASSUME NEW c \in Managers, Removed(c) PROVE StoreInv'
  <2> DEFINE x == manager[c].id
  <2>1. x \in PluginIds => AtWork(c, x)
    BY <1>16 DEF Removed, AtWork
  <2>2. \A d \in Managers : \A id \in PluginIds :
          AtWork(d, id)' => /\ AtWork(d, id) /\ manager'[d].shared = manager[d].shared
                            /\ manager'[d].step = "copy" =>
                                 d # c /\ manager[d].step = "copy" /\ manager'[d].left = manager[d].left
    BY <1>16 DEF Removed, AtWork, StoreTyped, StoreOperations, Kinds, StepNames, After
  <2>3. \A id \in PluginIds : id # x => copy'[id] = copy[id]
    BY <1>16 DEF Removed, StoreTyped
  <2>4. StoreTyped'
    <3>1. \A d \in Managers : manager'[d] \in StoreOperations /\ manager'[d].id = manager[d].id
                             /\ (manager'[d].step = "place" => manager[d].step = "place")
      <4> DEFINE m == [manager[c] EXCEPT !.step =
                         IF Removal(manager[c]) THEN After(manager[c].op) ELSE "create"]
      <4>a. m \in StoreOperations /\ m.id = x /\ m.step # "place"
        BY DEF StoreTyped, StoreOperations, Kinds, StepNames, After
      <4>b. manager'[c] = m
        BY <1>16 DEF Removed
      <4>1. manager'[c] \in StoreOperations /\ manager'[c].id = x /\ manager'[c].step # "place"
        BY <4>a, <4>b
      <4>2. ASSUME NEW d \in Managers, d # c
            PROVE  /\ manager'[d] \in StoreOperations /\ manager'[d].id = manager[d].id
                   /\ manager'[d].step = manager[d].step
        BY <1>16, <4>2 DEF Removed, StoreTyped, StoreOperations, Kinds, StepNames
      <4>3. QED BY <4>1, <4>2
    <3>2. copy' \in [PluginIds -> [dir : BOOLEAN, version : Nat, files : SUBSET Files]]
      BY <1>16 DEF Removed, StoreTyped, NoCopy, Files
    <3>3. QED BY <1>16, <3>1, <3>2 DEF Removed, StoreTyped
  <2>5. SharersKnow'
    BY <2>2 DEF SharersKnow
  <2>6. CopyGrows'
    BY <2>1, <2>2, <2>3 DEF CopyGrows, SharersKnow
  <2>7. InstalledIsWhole'
    BY <1>16, <2>1, <2>2, <2>3 DEF InstalledIsWhole, Removed, StoreTyped, PluginIds
  <2>8. QED BY <2>4, <2>5, <2>6, <2>7
<1>17. ASSUME NEW c \in Managers, Creates(c) PROVE StoreInv'
  <2> DEFINE x == manager[c].id
  <2>1. x \in PluginIds => AtWork(c, x)
    BY <1>17 DEF Creates, AtWork
  <2>2. \A d \in Managers : \A id \in PluginIds :
          /\ AtWork(d, id)' <=> AtWork(d, id)
          /\ manager'[d].shared = manager[d].shared
          /\ d # c => manager'[d] = manager[d]
    BY <1>17 DEF Creates, AtWork, StoreTyped, StoreOperations, Kinds, StepNames
  <2>3. \A id \in PluginIds : copy'[id].files = copy[id].files /\ (copy[id].dir => copy'[id].dir)
    BY <1>17 DEF Creates, StoreTyped
  <2>4. StoreTyped'
    <3> DEFINE m == [manager[c] EXCEPT !.step = "copy", !.left = Files]
    <3>a. m \in StoreOperations /\ m.step # "place"
      BY <1>17 DEF Creates, StoreTyped, StoreOperations, Kinds, StepNames
    <3>b. manager' = [manager EXCEPT ![c] = m]
      BY <1>17 DEF Creates, StoreTyped
    <3> HIDE DEF m
    <3>1. manager' \in [Managers -> StoreOperations]
      BY <3>a, <3>b DEF StoreTyped
    <3>2. copy' \in [PluginIds -> [dir : BOOLEAN, version : Nat, files : SUBSET Files]]
      BY <1>17, <2>1, SourceIsVersion DEF Creates, StoreTyped
    <3>3. QED BY <1>17, <3>a, <3>b, <3>1, <3>2 DEF Creates, StoreTyped
  <2>5. SharersKnow'
    BY <2>2 DEF SharersKnow
  <2>6. \A id \in PluginIds : AtWork(c, id)' => id = x /\ manager'[c].left = Files /\ copy'[x].dir
    BY <1>17 DEF Creates, AtWork, StoreTyped, StoreOperations, Kinds, StepNames
  <2>7. CopyGrows'
    <3> SUFFICES ASSUME NEW d \in Managers, NEW id \in PluginIds, AtWork(d, id)',
                        manager'[d].step = "copy", ~manager'[d].shared
                 PROVE  copy'[id].dir /\ Files \ manager'[d].left \subseteq copy'[id].files
      BY DEF CopyGrows
    <3>1. CASE d = c BY <3>1, <2>6
    <3>2. CASE d # c BY <3>2, <2>2, <2>3 DEF CopyGrows
    <3>3. QED BY <3>1, <3>2
  <2>8. InstalledIsWhole'
    BY <1>17, <2>2, <2>3 DEF InstalledIsWhole, Creates, StoreTyped, PluginIds
  <2>9. QED BY <2>4, <2>5, <2>7, <2>8
<1>18. ASSUME NEW c \in Managers, NEW file \in Files, Copies(c, file) PROVE StoreInv'
  <2> DEFINE x == manager[c].id
  <2>1. x \in PluginIds => AtWork(c, x)
    BY <1>18 DEF Copies, AtWork
  <2>2. \A d \in Managers : \A id \in PluginIds :
          /\ AtWork(d, id)' <=> AtWork(d, id)
          /\ manager'[d].step = manager[d].step /\ manager'[d].shared = manager[d].shared
          /\ d # c => manager'[d].left = manager[d].left
    BY <1>18 DEF Copies, AtWork, StoreTyped, StoreOperations, Kinds, StepNames
  <2>3. \A id \in PluginIds : /\ copy'[id].dir = copy[id].dir
                              /\ copy[id].files \subseteq copy'[id].files
                              /\ id = x => copy'[id].files = copy[id].files \cup {file}
                              /\ id # x => copy'[id] = copy[id]
    BY <1>18 DEF Copies, StoreTyped
  <2>4. StoreTyped'
    <3> DEFINE m == [manager[c] EXCEPT !.left = @ \ {file}]
    <3>a. m \in StoreOperations /\ m.step # "place"
      BY <1>18 DEF Copies, StoreTyped, StoreOperations, Kinds, StepNames
    <3>b. manager' = [manager EXCEPT ![c] = m]
      BY <1>18 DEF Copies, StoreTyped
    <3> HIDE DEF m
    <3>1. manager' \in [Managers -> StoreOperations]
      BY <3>a, <3>b DEF StoreTyped
    <3>2. copy' \in [PluginIds -> [dir : BOOLEAN, version : Nat, files : SUBSET Files]]
      BY <1>18 DEF Copies, StoreTyped
    <3>3. QED BY <1>18, <3>a, <3>b, <3>1, <3>2 DEF Copies, StoreTyped
  <2>5. SharersKnow'
    BY <2>2 DEF SharersKnow
  <2>6. manager'[c].left = manager[c].left \ {file}
    BY <1>18 DEF Copies, StoreTyped, StoreOperations, Kinds, StepNames
  <2>7. CopyGrows'
    <3> SUFFICES ASSUME NEW d \in Managers, NEW id \in PluginIds, AtWork(d, id)',
                        manager'[d].step = "copy", ~manager'[d].shared
                 PROVE  copy'[id].dir /\ Files \ manager'[d].left \subseteq copy'[id].files
      BY DEF CopyGrows
    <3>1. AtWork(d, id) /\ manager[d].step = "copy" /\ ~manager[d].shared
      BY <2>2
    <3>2. copy[id].dir /\ Files \ manager[d].left \subseteq copy[id].files
      BY <3>1 DEF CopyGrows
    <3>3. CASE d = c
      <4>1. id = x BY <3>1, <3>3 DEF AtWork
      <4>2. QED BY <2>3, <2>6, <3>2, <3>3, <4>1
    <3>4. CASE d # c BY <2>2, <2>3, <3>2, <3>4
    <3>5. QED BY <3>3, <3>4
  <2>8. InstalledIsWhole'
    BY <1>18, <2>1, <2>2, <2>3 DEF InstalledIsWhole, Copies, StoreTyped, PluginIds
  <2>9. QED BY <2>4, <2>5, <2>7, <2>8
<1>19. ASSUME NEW c \in Managers, Copied(c) PROVE StoreInv'
  <2> DEFINE x == manager[c].id
             m == [manager[c] EXCEPT !.step = After(manager[c].op)]
  <2>1. m \in StoreOperations /\ m.step \notin {"place", "remove", "create", "copy"}
    BY DEF StoreTyped, StoreOperations, Kinds, StepNames, After
  <2>2. manager' = [manager EXCEPT ![c] = m]
    BY <1>19 DEF Copied, StoreTyped
  <2> HIDE DEF m
  <2>3. StoreTyped'
    BY <1>19, <2>1, <2>2 DEF Copied, StoreTyped
  <2>4. \A d \in Managers : \A id \in PluginIds :
          AtWork(d, id)' => d # c /\ AtWork(d, id) /\ manager'[d] = manager[d]
    BY <2>1, <2>2 DEF AtWork, StoreTyped
  <2>5. SharersKnow' /\ CopyGrows'
    BY <1>19, <2>4 DEF SharersKnow, CopyGrows, Copied
  <2>6. ASSUME NEW id \in External, id = x, ~manager[c].shared
        PROVE  copy[id].files = Files /\ \A d \in Managers : ~AtWork(d, id)'
    <3>1. id \in PluginIds /\ AtWork(c, id)
      BY <1>19, <2>6 DEF Copied, AtWork, PluginIds
    <3>2. copy[id].files = Files
      BY <1>19, <2>6, <3>1 DEF CopyGrows, Copied, StoreTyped
    <3>3. ASSUME NEW d \in Managers, AtWork(d, id)' PROVE FALSE
      <4>1. d # c /\ AtWork(d, id)
        BY <2>4, <3>1, <3>3
      <4>2. QED BY <2>6, <3>1, <4>1 DEF SharersKnow
    <3>4. QED BY <3>2, <3>3
  <2>7. InstalledIsWhole'
    BY <1>19, <2>4, <2>6 DEF InstalledIsWhole, Copied, StoreTyped, PluginIds
  <2>8. QED BY <2>3, <2>5, <2>7
<1>20. ASSUME NEW b \in Bundled, Upgrade(b) PROVE StoreInv'
  <2>1. shipped' \in [Bundled -> Nat]
    BY <1>20 DEF Upgrade, StoreTyped
  <2>2. QED BY <1>20, <2>1 DEF Upgrade, StoreTyped, SharersKnow, CopyGrows, InstalledIsWhole, AtWork
<1>21. CASE UNCHANGED storeVars
  BY <1>21 DEF storeVars, StoreTyped, SharersKnow, CopyGrows, InstalledIsWhole, AtWork
<1>22. ASSUME NEW c \in Managers, Refusal(c) \/ Interrupted(c) PROVE StoreInv'
  BY <1>13, <1>22 DEF Refusal, Interrupted
<1>23. QED
  BY <1>1, <1>2, <1>3, <1>4, <1>5, <1>6, <1>7, <1>8, <1>9, <1>10, <1>11, <1>12, <1>14, <1>15,
     <1>16, <1>17, <1>18, <1>19, <1>20, <1>21, <1>22 DEF StoreNext

\* What a claw at work has yet to copy is all that it can leave missing.
Fills(d, b) ==
  AtWork(d, b) /\ (manager[d].step = "copy" => Files \ manager[d].left \subseteq copy[b].files)
\* A directory that no claw is at work on is empty or whole, unless it was left half done.
HalfFits(id) ==
  /\ copy[id].dir = FALSE => copy[id].files = {}
  /\ id \notin halved /\ Tended(id) => copy[id].dir = FALSE \/ \E d \in Managers : Fills(d, id)
  /\ id \notin halved /\ ~Tended(id) => copy[id].files \in {{}, Files}
HalvesFit == \A id \in PluginIds : HalfFits(id)

LEMMA HalvesInit == StoreInit => HalvesFit
  BY DEF StoreInit, HalvesFit, HalfFits, Tended, AtWork, Idle, NoCopy, PluginIds

\* A step that neither changes a directory nor starts or ends work on one.
LEMMA HalvesStay ==
  ASSUME HalvesFit, UNCHANGED <<copy, halved>>, NEW c \in Managers,
         \A d \in Managers \ {c} : manager'[d] = manager[d],
         manager[c].step \notin {"remove", "create", "copy"},
         manager'[c].step \notin {"remove", "create", "copy"}
  PROVE  HalvesFit'
<1>1. \A d \in Managers : \A id \in PluginIds :
        /\ AtWork(d, id)' <=> AtWork(d, id)
        /\ Fills(d, id)' <=> Fills(d, id)
  BY DEF AtWork, Fills
<1>2. \A id \in PluginIds : Tended(id)' <=> Tended(id)
  BY <1>1 DEF Tended
<1>3. ASSUME NEW id \in PluginIds PROVE HalfFits(id)'
  BY <1>1, <1>2, <1>3 DEF HalvesFit, HalfFits
<1>4. QED BY <1>3 DEF HalvesFit

LEMMA HalvesNext ==
  ASSUME StoreInv, StoreInv', HalvesFit, [StoreNext]_storeVars
  PROVE  HalvesFit'
<1>c. /\ manager \in [Managers -> StoreOperations]
      /\ copy \in [PluginIds -> [dir : BOOLEAN, version : Nat, files : SUBSET Files]]
  BY DEF StoreInv, StoreTyped
<1>i. Idle.step = "idle"
  BY DEF Idle
<1>1. ASSUME NEW c \in Managers, NEW m, Begins(c, m), m.step \in {"sync", "place"} PROVE HalvesFit'
  <2>1. /\ \A d \in Managers \ {c} : manager'[d] = manager[d]
        /\ manager'[c] = m /\ manager[c].step = "idle" /\ UNCHANGED <<copy, halved>>
    BY <1>c, <1>1 DEF Begins
  <2>2. QED BY <1>1, <2>1, HalvesStay
<1>2. ASSUME NEW c \in Managers, Refresh(c) PROVE HalvesFit'
  <2> DEFINE m == [Idle EXCEPT !.op = "sync", !.step = "sync", !.memory = registry,
                              !.queue = Bundled]
  <2>1. Begins(c, m)
    BY <1>2 DEF Refresh
  <2>2. m.step = "sync"
    BY DEF Idle
  <2> HIDE DEF m
  <2>3. QED BY <1>1, <2>1, <2>2
<1>3. ASSUME NEW c \in Managers, NEW id \in External, Install(c, id) PROVE HalvesFit'
  <2> DEFINE m == [Idle EXCEPT !.op = "install", !.step = "place", !.id = id]
  <2>1. Begins(c, m)
    BY <1>3 DEF Install
  <2>2. m.step = "place"
    BY DEF Idle
  <2> HIDE DEF m
  <2>3. QED BY <1>1, <2>1, <2>2
<1>16. ASSUME NEW c \in Managers, NEW id \in External, Uninstall(c, id) PROVE HalvesFit'
  <2> DEFINE m == [Idle EXCEPT !.op = "uninstall", !.step = "place", !.id = id,
                              !.memory = [registry EXCEPT ![id] = 0]]
  <2>1. Begins(c, m)
    BY <1>16 DEF Uninstall
  <2>2. m.step = "place"
    BY DEF Idle
  <2> HIDE DEF m
  <2>3. QED BY <1>1, <2>1, <2>2
<1>4. ASSUME NEW c \in Managers, NEW id \in PluginIds, Update(c, id) PROVE HalvesFit'
  <2> DEFINE m == [Idle EXCEPT !.op = "update", !.step = "place", !.id = id,
                              !.memory = [registry EXCEPT ![id] = Source(id)]]
  <2>1. Begins(c, m)
    BY <1>4 DEF Update
  <2>2. m.step = "place"
    BY DEF Idle
  <2> HIDE DEF m
  <2>3. QED BY <1>1, <2>1, <2>2
<1>5. ASSUME NEW c \in Managers, NEW b \in Bundled, Keeps(c, b) PROVE HalvesFit'
  <2>1. /\ \A d \in Managers \ {c} : manager'[d] = manager[d]
        /\ manager[c].step = "sync" /\ UNCHANGED <<copy, halved>>
    BY <1>c, <1>5 DEF Keeps
  <2>2. manager'[c].step \in {"sync"}
    BY <1>c, <1>i, <1>5 DEF Keeps, StoreOperations
  <2>3. QED BY <2>1, <2>2, HalvesStay
<1>17. ASSUME NEW c \in Managers, NEW b \in Bundled, Renews(c, b) PROVE HalvesFit'
  <2>1. /\ \A d \in Managers \ {c} : manager'[d] = manager[d]
        /\ manager[c].step = "sync" /\ UNCHANGED <<copy, halved>>
    BY <1>c, <1>17 DEF Renews
  <2>2. manager'[c].step \in {"place"}
    BY <1>c, <1>i, <1>17 DEF Renews, StoreOperations
  <2>3. QED BY <2>1, <2>2, HalvesStay
<1>6. ASSUME NEW c \in Managers, Synced(c) PROVE HalvesFit'
  <2>1. /\ \A d \in Managers \ {c} : manager'[d] = manager[d]
        /\ manager[c].step = "sync" /\ UNCHANGED <<copy, halved>>
    BY <1>c, <1>6 DEF Synced
  <2>2. manager'[c].step \in {"store", "discover"}
    BY <1>c, <1>i, <1>6 DEF Synced, StoreOperations
  <2>3. QED BY <2>1, <2>2, HalvesStay
<1>18. ASSUME NEW c \in Managers, Records(c) PROVE HalvesFit'
  <2>1. /\ \A d \in Managers \ {c} : manager'[d] = manager[d]
        /\ manager[c].step = "record" /\ UNCHANGED <<copy, halved>>
    BY <1>c, <1>18 DEF Records
  <2>2. manager'[c].step \in {"store"}
    BY <1>c, <1>i, <1>18 DEF Records, StoreOperations
  <2>3. QED BY <2>1, <2>2, HalvesStay
<1>19. ASSUME NEW c \in Managers, Truncates(c) PROVE HalvesFit'
  <2>1. /\ \A d \in Managers \ {c} : manager'[d] = manager[d]
        /\ manager[c].step = "store" /\ UNCHANGED <<copy, halved>>
    BY <1>c, <1>19 DEF Truncates
  <2>2. manager'[c].step \in {"write"}
    BY <1>c, <1>i, <1>19 DEF Truncates, StoreOperations
  <2>3. QED BY <2>1, <2>2, HalvesStay
<1>20. ASSUME NEW c \in Managers, WritesRegistry(c) PROVE HalvesFit'
  <2>1. /\ \A d \in Managers \ {c} : manager'[d] = manager[d]
        /\ manager[c].step = "write" /\ UNCHANGED <<copy, halved>>
    BY <1>c, <1>20 DEF WritesRegistry
  <2>2. manager'[c].step \in {"discover", "idle"}
    BY <1>c, <1>i, <1>20 DEF WritesRegistry, StoreOperations
  <2>3. QED BY <2>1, <2>2, HalvesStay
<1>21. ASSUME NEW c \in Managers, Discovers(c) PROVE HalvesFit'
  <2>1. /\ \A d \in Managers \ {c} : manager'[d] = manager[d]
        /\ manager[c].step = "discover" /\ UNCHANGED <<copy, halved>>
    BY <1>c, <1>21 DEF Discovers
  <2>2. manager'[c].step \in {"scan"}
    BY <1>c, <1>i, <1>21 DEF Discovers, StoreOperations
  <2>3. QED BY <2>1, <2>2, HalvesStay
<1>22. ASSUME NEW c \in Managers, Scans(c) PROVE HalvesFit'
  <2>1. /\ \A d \in Managers \ {c} : manager'[d] = manager[d]
        /\ manager[c].step = "scan" /\ UNCHANGED <<copy, halved>>
    BY <1>c, <1>22 DEF Scans
  <2>2. manager'[c].step \in {"store", "idle"}
    BY <1>c, <1>i, <1>22 DEF Scans, StoreOperations
  <2>3. QED BY <2>1, <2>2, HalvesStay
<1>7. ASSUME NEW c \in Managers, EndsEarly(c) PROVE HalvesFit'
  <2> DEFINE x == manager[c].id
  <2>1. /\ \A d \in Managers \ {c} : manager'[d] = manager[d]
        /\ manager'[c].step = "idle" /\ copy' = copy
        /\ halved' = IF AtWork(c, x) THEN halved \cup {x} ELSE halved
    BY <1>c, <1>i, <1>7 DEF EndsEarly
  <2>2. CASE manager[c].step \notin {"remove", "create", "copy"}
    BY <2>1, <2>2, HalvesStay DEF AtWork
  <2>3. CASE manager[c].step \in {"remove", "create", "copy"}
    <3>1. halved' = halved \cup {x}
      BY <2>1, <2>3 DEF AtWork
    <3>2. \A d \in Managers : \A id \in PluginIds : id # x =>
            /\ AtWork(d, id)' <=> AtWork(d, id)
            /\ Fills(d, id)' <=> Fills(d, id)
      BY <2>1 DEF AtWork, Fills
    <3>3. ASSUME NEW id \in PluginIds PROVE HalfFits(id)'
      <4>1. CASE id = x
        BY <2>1, <3>1, <4>1 DEF HalvesFit, HalfFits
      <4>2. CASE id # x
        BY <2>1, <3>1, <3>2, <4>2 DEF HalvesFit, HalfFits, Tended
      <4>3. QED BY <4>1, <4>2
    <3>4. QED BY <3>3 DEF HalvesFit
  <2>4. QED BY <2>2, <2>3
<1>8. ASSUME NEW c \in Managers, Places(c) PROVE HalvesFit'
  <2> DEFINE x == manager[c].id
  <2>1. /\ \A d \in Managers \ {c} : /\ manager'[d].step = manager[d].step
                                     /\ manager'[d].id = manager[d].id
                                     /\ manager'[d].left = manager[d].left
        /\ manager'[c].id = x /\ manager[c].step = "place" /\ UNCHANGED <<copy, halved>>
    BY <1>8, <1>c DEF Places, StoreOperations, AtWork
  <2>2. manager'[c].step # "copy"
    BY <1>8, <1>c DEF Places, StoreOperations, After
  <2>3. \A d \in Managers \ {c} : \A id \in PluginIds :
          (AtWork(d, id)' <=> AtWork(d, id)) /\ (Fills(d, id)' <=> Fills(d, id))
    BY <2>1 DEF AtWork, Fills
  <2>4. \A id \in PluginIds : ~AtWork(c, id) /\ (AtWork(c, id)' => Fills(c, id)')
    BY <2>1, <2>2 DEF AtWork, Fills
  <2>5. ASSUME NEW id \in PluginIds PROVE HalfFits(id)'
    <3>1. HalfFits(id)
      BY DEF HalvesFit
    <3>2. CASE AtWork(c, id)'
      BY <2>1, <2>4, <3>1, <3>2 DEF HalfFits, Tended
    <3>3. CASE ~AtWork(c, id)'
      <4>1. Tended(id)' <=> Tended(id)
        BY <2>3, <2>4, <3>3 DEF Tended
      <4>2. (\E d \in Managers : Fills(d, id)) => \E d \in Managers : Fills(d, id)'
        BY <2>3, <2>4 DEF Fills
      <4>3. QED BY <2>1, <3>1, <4>1, <4>2 DEF HalfFits
    <3>4. QED BY <3>2, <3>3
  <2>6. QED BY <2>5 DEF HalvesFit
<1>9. ASSUME NEW c \in Managers,
             \/ \E file \in Files : Unlinks(c, file) \/ Copies(c, file)
             \/ Creates(c)
      PROVE  HalvesFit'
  <2> DEFINE x == manager[c].id
             Works == /\ \A d \in Managers : /\ manager'[d].id = manager[d].id
                                             /\ d # c => manager'[d] = manager[d]
                      /\ manager[c].step \in {"remove", "create", "copy"}
                      /\ manager'[c].step \in {"remove", "create", "copy"} /\ halved' = halved
             Elsewhere == \A id \in PluginIds : id # x => copy'[id] = copy[id]
  <2>0. Works /\ Elsewhere
    <3>1. ASSUME NEW file \in Files, Unlinks(c, file) PROVE Works /\ Elsewhere
      BY <1>c, <3>1 DEF Unlinks, StoreOperations
    <3>2. ASSUME NEW file \in Files, Copies(c, file) PROVE Works /\ Elsewhere
      BY <1>c, <3>2 DEF Copies, StoreOperations
    <3>3. CASE Creates(c)
      BY <1>c, <3>3 DEF Creates, StoreOperations
    <3>4. QED BY <1>9, <3>1, <3>2, <3>3
  <2>1. /\ \A d \in Managers : manager'[d].id = manager[d].id /\ (d # c => manager'[d] = manager[d])
        /\ manager[c].step \in {"remove", "create", "copy"}
        /\ manager'[c].step \in {"remove", "create", "copy"} /\ halved' = halved
    BY <2>0
  <2>2. \A id \in PluginIds : id # x => copy'[id] = copy[id]
    BY <2>0
  <2> HIDE DEF Works, Elsewhere
  <2>3. \A d \in Managers : \A id \in PluginIds :
          /\ AtWork(d, id)' <=> AtWork(d, id)
          /\ id # x => (Fills(d, id)' <=> Fills(d, id))
    BY <2>1, <2>2 DEF AtWork, Fills
  <2>4. ASSUME NEW id \in PluginIds, id = x
        PROVE  /\ copy'[id].dir = FALSE => copy'[id].files = {}
               /\ \/ copy'[id].dir = FALSE /\ copy[id].dir = FALSE
                  \/ \A d \in Managers : Fills(d, id) => Fills(d, id)'
                  \/ Fills(c, id)'
               /\ copy'[id].dir # FALSE /\ copy[id].dir = FALSE => Fills(c, id)'
    <3>1. copy[id].dir = FALSE => copy[id].files = {}
      BY DEF HalvesFit, HalfFits
    <3>2. ASSUME NEW file \in Files, Unlinks(c, file)
          PROVE  copy'[id].dir = copy[id].dir /\ copy'[id].files \subseteq copy[id].files /\ Fills(c, id)'
      BY <1>c, <2>4, <3>2 DEF Unlinks, Fills, AtWork, StoreOperations
    <3>3. ASSUME NEW file \in Files, Copies(c, file)
          PROVE  /\ copy'[id].dir = copy[id].dir /\ copy[id].dir = TRUE
                 /\ \A d \in Managers : Fills(d, id) => Fills(d, id)'
      <4>1. copy'[id].files = copy[id].files \cup {file} /\ copy'[id].dir = copy[id].dir
        BY <1>c, <2>4, <3>3 DEF Copies
      <4>2. /\ manager'[c].step = "copy" /\ manager[c].step = "copy"
            /\ manager'[c].left = manager[c].left \ {file} /\ manager'[c].id = manager[c].id
        BY <1>c, <3>3 DEF Copies, StoreOperations
      <4>3. \A d \in Managers : Fills(d, id) => Fills(d, id)'
        BY <2>1, <4>1, <4>2 DEF Fills, AtWork
      <4>4. QED BY <1>c, <2>4, <3>3, <4>1, <4>3 DEF Copies
    <3>4. CASE Creates(c)
      <4>1. copy'[id].dir = TRUE /\ copy'[id].files = copy[id].files
        BY <1>c, <2>4, <3>4 DEF Creates
      <4>2. manager'[c].step = "copy" /\ manager'[c].left = Files /\ manager'[c].id = id
        BY <1>c, <2>4, <3>4 DEF Creates, StoreOperations
      <4>3. QED BY <4>1, <4>2 DEF Fills, AtWork
    <3>5. QED BY <1>9, <3>1, <3>2, <3>3, <3>4
  <2>5. ASSUME NEW id \in PluginIds PROVE HalfFits(id)'
    <3>1. HalfFits(id) /\ (Tended(id)' <=> Tended(id))
      BY <2>3 DEF HalvesFit, Tended
    <3>2. CASE id # x
      BY <2>1, <2>2, <2>3, <3>1, <3>2 DEF HalfFits
    <3>3. CASE id = x
      <4>1. Tended(id)
        BY <2>1, <3>3 DEF Tended, AtWork
      <4>2. QED BY <2>1, <2>4, <3>1, <3>3, <4>1 DEF HalfFits
    <3>4. QED BY <3>2, <3>3
  <2>6. QED BY <2>5 DEF HalvesFit
<1>10. ASSUME NEW c \in Managers, Removed(c) PROVE HalvesFit'
  <2> DEFINE x == manager[c].id
  <2>1. /\ \A d \in Managers : /\ manager'[d].id = manager[d].id
                               /\ d # c => manager'[d].step = manager[d].step
                               /\ d # c /\ manager[d].step # "remove" => manager'[d] = manager[d]
        /\ manager[c].step = "remove" /\ halved' = halved
    BY <1>10, <1>c DEF Removed, StoreOperations
  <2>2. \A id \in PluginIds : /\ id # x => copy'[id] = copy[id]
                              /\ id = x => copy'[id].dir = FALSE /\ copy'[id].files = {}
    BY <1>10, <1>c DEF Removed, NoCopy
  <2>3. \A d \in Managers : \A id \in PluginIds : id # x =>
          (AtWork(d, id)' <=> AtWork(d, id)) /\ (Fills(d, id)' <=> Fills(d, id))
    BY <2>1, <2>2 DEF AtWork, Fills
  <2>4. ASSUME NEW id \in PluginIds PROVE HalfFits(id)'
    <3>1. CASE id = x
      BY <2>2, <3>1 DEF HalfFits
    <3>2. CASE id # x
      BY <2>1, <2>2, <2>3, <3>2 DEF HalvesFit, HalfFits, Tended
    <3>3. QED BY <3>1, <3>2
  <2>5. QED BY <2>4 DEF HalvesFit
<1>11. ASSUME NEW c \in Managers, Copied(c) PROVE HalvesFit'
  <2> DEFINE x == manager[c].id
  <2>1. /\ \A d \in Managers : manager'[d].id = manager[d].id /\ (d # c => manager'[d] = manager[d])
        /\ manager[c].step = "copy" /\ manager[c].left = {} /\ copy' = copy
        /\ manager'[c].step \notin {"remove", "create", "copy"}
        /\ halved' = IF manager[c].shared THEN halved ELSE halved \ {x}
    BY <1>11, <1>c DEF Copied, StoreOperations, After
  <2>2. \A d \in Managers \ {c} : \A id \in PluginIds :
          (AtWork(d, id)' <=> AtWork(d, id)) /\ (Fills(d, id)' <=> Fills(d, id))
    BY <2>1 DEF AtWork, Fills
  <2>3. \A id \in PluginIds : ~AtWork(c, id)' /\ (AtWork(c, id) <=> id = x)
    BY <2>1 DEF AtWork
  <2>4. ASSUME NEW id \in PluginIds PROVE HalfFits(id)'
    <3>1. HalfFits(id) /\ copy[id].files \subseteq Files
      BY <1>c DEF HalvesFit
    <3>2. CASE id # x
      <4>1. (Tended(id)' <=> Tended(id)) /\ (id \in halved' <=> id \in halved)
        BY <2>1, <2>2, <2>3, <3>2 DEF Tended
      <4>2. (\E d \in Managers : Fills(d, id)) => \E d \in Managers : Fills(d, id)'
        BY <2>2, <2>3, <3>2 DEF Fills
      <4>3. QED BY <2>1, <3>1, <4>1, <4>2 DEF HalfFits
    <3>3. CASE id = x /\ ~manager[c].shared
      <4>1. Files \ manager[c].left \subseteq copy[id].files
        BY <2>1, <2>3, <3>3 DEF StoreInv, CopyGrows
      <4>2. \A d \in Managers \ {c} : ~AtWork(d, id)
        BY <2>3, <3>3 DEF StoreInv, SharersKnow
      <4>3. ~Tended(id)' /\ copy[id].files = Files
        BY <2>1, <2>2, <2>3, <3>1, <4>1, <4>2 DEF Tended
      <4>4. QED BY <2>1, <3>1, <4>3 DEF HalfFits
    <3>4. CASE id = x /\ manager[c].shared
      <4>1. Tended(id) /\ halved' = halved
        BY <2>1, <2>3, <3>4 DEF Tended
      <4>2. Fills(c, id) => copy[id].files = Files
        BY <2>1, <3>1 DEF Fills
      <4>3. copy[id].files = Files => \A d \in Managers : AtWork(d, id)' => Fills(d, id)'
        BY <2>1 DEF Fills
      <4>4. ASSUME NEW d \in Managers \ {c}, Fills(d, id) PROVE Fills(d, id)' /\ Tended(id)'
        BY <2>2, <4>4 DEF Tended, Fills
      <4>5. CASE id \in halved \/ copy[id].dir = FALSE
        BY <2>1, <3>1, <4>1, <4>5 DEF HalfFits
      <4>6. CASE \E d \in Managers \ {c} : Fills(d, id)
        BY <2>1, <3>1, <4>4, <4>6 DEF HalfFits
      <4>7. CASE Fills(c, id)
        BY <2>1, <3>1, <4>2, <4>3, <4>7 DEF HalfFits, Tended
      <4>8. QED BY <3>1, <4>1, <4>5, <4>6, <4>7 DEF HalfFits
    <3>5. QED BY <3>2, <3>3, <3>4
  <2>5. QED BY <2>4 DEF HalvesFit
<1>12. ASSUME UNCHANGED <<copy, manager, halved>> PROVE HalvesFit'
  <2>1. \A d \in Managers : \A id \in PluginIds :
          (AtWork(d, id)' <=> AtWork(d, id)) /\ (Fills(d, id)' <=> Fills(d, id))
    BY <1>12 DEF AtWork, Fills
  <2>2. ASSUME NEW id \in PluginIds PROVE HalfFits(id)'
    BY <1>12, <2>1 DEF HalvesFit, HalfFits, Tended
  <2>3. QED BY <2>2 DEF HalvesFit
<1>13. ASSUME NEW b \in Bundled, Upgrade(b) PROVE HalvesFit'
  BY <1>12, <1>13 DEF Upgrade
<1>14. CASE UNCHANGED storeVars
  BY <1>12, <1>14 DEF storeVars
<1>15. ASSUME NEW c \in Managers, Refusal(c) \/ Interrupted(c) PROVE HalvesFit'
  BY <1>7, <1>15 DEF Refusal, Interrupted
<1>23. QED
  BY <1>2, <1>3, <1>4, <1>5, <1>6, <1>8, <1>9, <1>10, <1>11, <1>13, <1>14, <1>15, <1>16, <1>17,
     <1>18, <1>19, <1>20, <1>21, <1>22 DEF StoreNext

\* plugins/src/lib.rs, discover_installed_plugins_with_failures and into_registry:
\* for any claws and plugins, a discovery finds the external plugins that were
\* copied whole, but for one hidden by its namesake, and what keeps a runtime from
\* getting them is being worked on or was left half done.
THEOREM InstalledAreFound == StoreSpec => InstalledIsFound
<1>1. ASSUME StoreInv, HalvesFit, NEW c \in Managers, Scans(c)
      PROVE  Discovered(c)
  <2>1. /\ report'[c].plugins = Found(manager[c].memory)
        /\ report'[c].failures = Failing
    BY <1>1 DEF Scans, StoreInv, StoreTyped
  <2>2. ASSUME NEW id \in Failing PROVE id \in halved \/ Tended(id)
    <3>1. id \in PluginIds /\ copy[id].files \notin {{}, Files}
      BY <2>2 DEF Failing, HasManifest, Loads, Files
    <3>2. QED BY <1>1, <3>1 DEF HalvesFit, HalfFits
  <2>3. ASSUME NEW id \in installed
        PROVE  /\ copy[id].files = Files
               /\ id \in Found(manager[c].memory) \/ Hidden(id, manager[c].memory)
    <3>1. id \in PluginIds /\ copy[id].files = Files
      BY <1>1, <2>3 DEF StoreInv, StoreTyped, InstalledIsWhole, PluginIds
    <3>2. QED BY <3>1 DEF Found, Loads, Files
  <2>4. QED BY <2>1, <2>2, <2>3 DEF Discovered
<1>2. StoreInv /\ HalvesFit => [\A c \in Managers : Scans(c) => Discovered(c)]_storeVars
  BY <1>1
<1>3. StoreInv /\ HalvesFit /\ [StoreNext]_storeVars => StoreInv' /\ HalvesFit'
  BY StoreNextInv, HalvesNext
<1>4. QED BY StoreInitInv, HalvesInit, <1>2, <1>3, PTL DEF StoreSpec, InstalledIsFound

\* A plugin is known by its record, or by the memory of a claw that may write
\* it and is not at one of steps with the plugin itself.
Knows(d, b, steps) ==
  manager[d].memory[b] = shipped[b] /\ ~(manager[d].id = b /\ manager[d].step \in steps)
Known(b, steps) ==
  shipped[b] # 0 /\ (registry[b] = shipped[b] \/ \E d \in Managers : Knows(d, b, steps))
NoneAhead == \A b \in Bundled : shipped[b] # 0 =>
  registry[b] <= shipped[b] /\ \A d \in Managers : manager[d].memory[b] <= shipped[b]
KnownIsShipped == \A b \in Bundled :
  Known(b, {"place", "remove"}) => ~copy[b].dir \/ copy[b].version = shipped[b]
KnownIsWhole == \A b \in Bundled :
  Known(b, {"place"}) /\ copy[b].dir => copy[b].files = Files \/ b \in cut \/ Tended(b)
SomeoneFills == \A b \in Bundled :
  shipped[b] # 0 /\ Tended(b) => b \in cut \/ \E d \in Managers : Fills(d, b)
ManagersFit == \A d \in Managers :
  /\ manager[d].step = "idle" => manager[d] = Idle
  /\ manager[d].op \in {"install", "uninstall"} => manager[d].id \in External
  /\ manager[d].step = "record" => manager[d].op = "install"
  /\ manager[d].step = "sync" => manager[d].op = "sync"
KeptInv == NoneAhead /\ KnownIsShipped /\ KnownIsWhole /\ SomeoneFills /\ ManagersFit

LEMMA KeptInitInv == StoreInit => KeptInv
  BY DEF StoreInit, KeptInv, NoneAhead, KnownIsShipped, KnownIsWhole, SomeoneFills, ManagersFit,
         Known, Knows, Tended, AtWork, Idle, NoRecords, PluginIds

\* A step of a claw that works on no directory before or after it, and that
\* makes nothing known that was not.
LEMMA OffTheDirectoriesKept ==
  ASSUME StoreInv, StoreInv', KeptInv, NEW c \in Managers,
         \A d \in Managers \ {c} : manager'[d] = manager[d],
         manager[c].step \notin {"remove", "create", "copy"},
         manager'[c].step \notin {"remove", "create", "copy"},
         UNCHANGED <<shipped, copy, cut>>,
         manager'[c].step = "idle" => manager'[c] = Idle,
         manager'[c].op \in {"install", "uninstall"} => manager'[c].id \in External,
         manager'[c].step = "record" => manager'[c].op = "install",
         manager'[c].step = "sync" => manager'[c].op = "sync",
         \A b \in Bundled : shipped[b] # 0 =>
           /\ registry'[b] <= shipped[b] /\ manager'[c].memory[b] <= shipped[b]
           /\ registry'[b] = shipped[b] \/ Knows(c, b, {"place"})' => Known(b, {"place", "remove"})
  PROVE  KeptInv'
<1>1. \A d \in Managers : \A id \in PluginIds :
        /\ AtWork(d, id)' <=> AtWork(d, id)
        /\ Fills(d, id)' <=> Fills(d, id)
  BY DEF AtWork, Fills
<1>2. \A b \in Bundled : b \in PluginIds
  BY DEF PluginIds
<1>3. \A b \in Bundled : Known(b, {"place", "remove"}) => Known(b, {"place"})
  BY DEF Known, Knows
<1>4. ASSUME NEW b \in Bundled
      PROVE  /\ Known(b, {"place"})' => Known(b, {"place"})
             /\ Known(b, {"place", "remove"})' => Known(b, {"place", "remove"})
  BY <1>3 DEF Known, Knows
<1>5. NoneAhead'
  BY DEF KeptInv, NoneAhead
<1>6. KnownIsShipped'
  BY <1>4 DEF KeptInv, KnownIsShipped
<1>7. KnownIsWhole' /\ SomeoneFills'
  BY <1>1, <1>2, <1>4 DEF KeptInv, KnownIsWhole, SomeoneFills, Tended
<1>8. ManagersFit'
  BY DEF KeptInv, ManagersFit
<1>9. QED BY <1>5, <1>6, <1>7, <1>8 DEF KeptInv

LEMMA KeptNextInv ==
  ASSUME StoreInv, StoreInv', KeptInv, [StoreNext]_storeVars
  PROVE  KeptInv'
<1> USE DEF KeptInv
<1>a. \A b \in Bundled : b \in PluginIds /\ b \notin External
  BY StoreAssumption DEF PluginIds
<1>b. \A d \in Managers : \A b \in Bundled : Idle.memory[b] = 0 /\ Idle.id = "none"
  BY <1>a DEF Idle, NoRecords
<1>c. /\ shipped \in [Bundled -> Nat] /\ registry \in [PluginIds -> Nat]
      /\ manager \in [Managers -> StoreOperations]
  BY DEF StoreInv, StoreTyped
<1>1. ASSUME NEW c \in Managers, Refresh(c) PROVE KeptInv'
  <2>1. /\ \A d \in Managers \ {c} : manager'[d] = manager[d]
        /\ manager'[c].step = "sync" /\ manager'[c].op = "sync" /\ manager'[c].memory = registry
        /\ manager[c].step = "idle" /\ UNCHANGED <<shipped, copy, cut, registry>>
    BY <1>1, <1>c DEF Refresh, Begins, Idle
  <2>2. QED BY <1>a, <1>c, <2>1, OffTheDirectoriesKept DEF Known, Knows, NoneAhead
<1>2. ASSUME NEW c \in Managers, NEW id \in External, Install(c, id) PROVE KeptInv'
  <2>1. /\ \A d \in Managers \ {c} : manager'[d] = manager[d]
        /\ manager'[c].step = "place" /\ manager'[c].id = id /\ manager'[c].memory = Idle.memory
        /\ manager[c].step = "idle" /\ UNCHANGED <<shipped, copy, cut, registry>>
    BY <1>2, <1>c DEF Install, Begins, Idle
  <2>2. QED BY <1>a, <1>b, <1>c, <2>1, OffTheDirectoriesKept DEF Known, Knows, NoneAhead
<1>3. ASSUME NEW c \in Managers, NEW id \in External, Uninstall(c, id) PROVE KeptInv'
  <2>1. /\ \A d \in Managers \ {c} : manager'[d] = manager[d]
        /\ manager'[c].step = "place" /\ manager'[c].id = id
        /\ manager'[c].memory = [registry EXCEPT ![id] = 0]
        /\ manager[c].step = "idle" /\ UNCHANGED <<shipped, copy, cut, registry>>
    BY <1>3, <1>c DEF Uninstall, Begins, Idle
  <2>2. \A b \in Bundled : manager'[c].memory[b] = registry[b]
    BY <1>a, <1>c, <2>1
  <2>3. QED BY <1>a, <1>c, <2>1, <2>2, OffTheDirectoriesKept DEF Known, Knows, NoneAhead
<1>4. ASSUME NEW c \in Managers, NEW id \in PluginIds, Update(c, id) PROVE KeptInv'
  <2>1. /\ \A d \in Managers \ {c} : manager'[d] = manager[d]
        /\ manager'[c].step = "place" /\ manager'[c].id = id /\ manager'[c].op = "update"
        /\ manager'[c].memory = [registry EXCEPT ![id] = Source(id)]
        /\ manager[c].step = "idle" /\ UNCHANGED <<shipped, copy, cut, registry>>
    BY <1>4, <1>c DEF Update, Begins, Idle
  <2>2. \A b \in Bundled :
          manager'[c].memory[b] = (IF b = id THEN shipped[b] ELSE registry[b])
    BY <1>a, <1>c, <2>1 DEF Source
  <2>3. \A b \in Bundled : shipped[b] # 0 =>
          /\ registry'[b] <= shipped[b] /\ manager'[c].memory[b] <= shipped[b]
          /\ registry'[b] = shipped[b] \/ Knows(c, b, {"place"})' => Known(b, {"place", "remove"})
    BY <1>a, <1>c, <2>1, <2>2 DEF Known, Knows, NoneAhead
  <2>4. QED BY <2>1, <2>3, OffTheDirectoriesKept
<1>5. ASSUME NEW c \in Managers, NEW b \in Bundled, Keeps(c, b) PROVE KeptInv'
  <2>1. /\ \A d \in Managers \ {c} : manager'[d] = manager[d]
        /\ manager'[c].step = "sync" /\ manager'[c].id = manager[c].id
        /\ manager'[c].op = manager[c].op /\ manager'[c].memory = manager[c].memory
        /\ manager[c].step = "sync" /\ UNCHANGED <<shipped, copy, cut, registry>>
    BY <1>5, <1>c DEF Keeps, StoreOperations
  <2>2. QED
    BY <1>a, <1>c, <2>1, OffTheDirectoriesKept DEF Known, Knows, NoneAhead, ManagersFit
<1>6. ASSUME NEW c \in Managers, NEW b \in Bundled, Renews(c, b) PROVE KeptInv'
  <2>1. /\ \A d \in Managers \ {c} : manager'[d] = manager[d]
        /\ manager'[c].step = "place" /\ manager'[c].id = b
        /\ manager'[c].op = manager[c].op
        /\ manager'[c].memory = [manager[c].memory EXCEPT ![b] = shipped[b]]
        /\ manager[c].step = "sync" /\ UNCHANGED <<shipped, copy, cut, registry>>
    BY <1>6, <1>c DEF Renews, StoreOperations
  <2>2. manager[c].memory \in [PluginIds -> Nat]
    BY <1>c DEF StoreOperations
  <2>3. \A a \in Bundled :
          manager'[c].memory[a] = (IF a = b THEN shipped[a] ELSE manager[c].memory[a])
    BY <1>a, <2>1, <2>2
  <2>4. \A a \in Bundled : shipped[a] # 0 =>
          /\ registry'[a] <= shipped[a] /\ manager'[c].memory[a] <= shipped[a]
          /\ registry'[a] = shipped[a] \/ Knows(c, a, {"place"})' => Known(a, {"place", "remove"})
    BY <1>a, <1>c, <2>1, <2>3 DEF Known, Knows, NoneAhead
  <2>5. manager[c].op = "sync"
    BY <2>1 DEF ManagersFit
  <2>6. QED BY <2>1, <2>4, <2>5, OffTheDirectoriesKept DEF ManagersFit
<1>7. ASSUME NEW c \in Managers, Synced(c) PROVE KeptInv'
  <2>1. /\ \A d \in Managers \ {c} : manager'[d] = manager[d]
        /\ manager'[c].step \in {"store", "discover"} /\ manager'[c].id = manager[c].id
        /\ manager'[c].op = manager[c].op /\ manager'[c].memory = manager[c].memory
        /\ manager[c].step = "sync" /\ UNCHANGED <<shipped, copy, cut, registry>>
    BY <1>7, <1>c DEF Synced, StoreOperations
  <2>2. QED
    BY <1>a, <1>c, <2>1, OffTheDirectoriesKept DEF Known, Knows, NoneAhead, ManagersFit
<1>8. ASSUME NEW c \in Managers, Records(c) PROVE KeptInv'
  <2>1. /\ \A d \in Managers \ {c} : manager'[d] = manager[d]
        /\ manager'[c].step = "store" /\ manager'[c].id = manager[c].id
        /\ manager'[c].op = manager[c].op
        /\ manager'[c].memory = [registry EXCEPT ![manager[c].id] = 1]
        /\ manager[c].step = "record" /\ UNCHANGED <<shipped, copy, cut, registry>>
    BY <1>8, <1>c DEF Records, StoreOperations
  <2>2. manager[c].id \in External
    BY <2>1 DEF ManagersFit
  <2>3. \A b \in Bundled : manager'[c].memory[b] = registry[b]
    BY <1>a, <1>c, <2>1, <2>2
  <2>4. QED
    BY <1>a, <1>c, <2>1, <2>3, OffTheDirectoriesKept DEF Known, Knows, NoneAhead, ManagersFit
<1>9. ASSUME NEW c \in Managers, Truncates(c) PROVE KeptInv'
  <2>1. /\ \A d \in Managers \ {c} : manager'[d] = manager[d]
        /\ manager'[c].step = "write" /\ manager'[c].id = manager[c].id
        /\ manager'[c].op = manager[c].op /\ manager'[c].memory = manager[c].memory
        /\ manager[c].step = "store" /\ UNCHANGED <<shipped, copy, cut>>
    BY <1>9, <1>c DEF Truncates, StoreOperations
  <2>2. \A b \in Bundled : registry'[b] = 0
    BY <1>9, <1>a DEF Truncates, NoRecords
  <2>3. QED
    BY <1>a, <1>c, <2>1, <2>2, OffTheDirectoriesKept DEF Known, Knows, NoneAhead, ManagersFit
<1>10. ASSUME NEW c \in Managers, WritesRegistry(c) PROVE KeptInv'
  <2>1. /\ \A d \in Managers \ {c} : manager'[d] = manager[d]
        /\ manager[c].step = "write" /\ UNCHANGED <<shipped, copy, cut>>
        /\ registry' = manager[c].memory
    BY <1>10, <1>c DEF WritesRegistry
  <2>2. CASE manager[c].op = "sync"
    <3>1. /\ manager'[c].step = "discover" /\ manager'[c].id = manager[c].id
          /\ manager'[c].op = "sync" /\ manager'[c].memory = manager[c].memory
      BY <1>10, <1>c, <2>2 DEF WritesRegistry, StoreOperations
    <3>2. QED
      BY <1>a, <1>c, <2>1, <3>1, OffTheDirectoriesKept DEF Known, Knows, NoneAhead
  <2>3. CASE manager[c].op # "sync"
    <3>1. manager'[c] = Idle /\ Idle.step = "idle" /\ Idle.op = "none"
      BY <1>10, <1>c, <2>3 DEF WritesRegistry, Idle
    <3>2. QED
      BY <1>a, <1>b, <1>c, <2>1, <3>1, OffTheDirectoriesKept DEF Known, Knows, NoneAhead
  <2>4. QED BY <2>2, <2>3
<1>11. ASSUME NEW c \in Managers, Discovers(c) PROVE KeptInv'
  <2>1. /\ \A d \in Managers \ {c} : manager'[d] = manager[d]
        /\ manager'[c].step = "scan" /\ manager'[c].op = "discovery"
        /\ manager'[c].memory = registry
        /\ manager[c].step = "discover" /\ UNCHANGED <<shipped, copy, cut, registry>>
    BY <1>11, <1>c DEF Discovers, Idle
  <2>2. QED BY <1>a, <1>c, <2>1, OffTheDirectoriesKept DEF Known, Knows, NoneAhead
<1>12. ASSUME NEW c \in Managers, Scans(c) PROVE KeptInv'
  <2>1. /\ \A d \in Managers \ {c} : manager'[d] = manager[d]
        /\ manager[c].step = "scan" /\ UNCHANGED <<shipped, copy, cut, registry>>
    BY <1>12, <1>c DEF Scans
  <2>2. CASE Stale(manager[c].memory) = {}
    <3>1. manager'[c] = Idle /\ Idle.step = "idle" /\ Idle.op = "none"
      BY <1>12, <1>c, <2>2 DEF Scans, Idle
    <3>2. QED
      BY <1>a, <1>b, <1>c, <2>1, <3>1, OffTheDirectoriesKept DEF Known, Knows, NoneAhead
  <2>3. CASE Stale(manager[c].memory) # {}
    <3>1. /\ manager'[c].step = "store" /\ manager'[c].id = manager[c].id
          /\ manager'[c].op = manager[c].op
          /\ \A b \in Bundled : manager'[c].memory[b] \in {0, manager[c].memory[b]}
      BY <1>12, <1>a, <1>c, <2>3 DEF Scans, StoreOperations
    <3>2. QED
      BY <1>a, <1>c, <2>1, <3>1, OffTheDirectoriesKept DEF Known, Knows, NoneAhead, ManagersFit
  <2>4. QED BY <2>2, <2>3
<1>13. ASSUME NEW c \in Managers, EndsEarly(c), UNCHANGED registry PROVE KeptInv'
  <2>1. /\ \A d \in Managers \ {c} : manager'[d] = manager[d]
        /\ manager'[c] = Idle /\ Idle.step = "idle" /\ Idle.op = "none"
        /\ UNCHANGED <<shipped, copy, registry>> /\ cut \subseteq cut'
    BY <1>13, <1>c DEF EndsEarly, Idle
  <2>2. ASSUME NEW b \in Bundled
        PROVE  /\ Known(b, {"place"})' => Known(b, {"place"})
               /\ Known(b, {"place", "remove"})' => Known(b, {"place", "remove"})
    BY <1>b, <2>1 DEF Known, Knows
  <2>3. \A d \in Managers : \A b \in Bundled :
          /\ AtWork(d, b)' => d # c /\ AtWork(d, b)
          /\ Fills(d, b) /\ d # c => Fills(d, b)'
    BY <2>1 DEF AtWork, Fills
  <2>4. ASSUME NEW b \in Bundled, AtWork(c, b), b \notin cut'
        PROVE  ~Known(b, {"place"})' /\ ~Tended(b)'
    <3>1. manager[c].id = b /\ Source(b) = shipped[b]
      BY <2>4 DEF AtWork, Source
    <3>2. ~manager[c].shared /\ ~Recorded(c, b)
      BY <1>13, <2>4, <3>1 DEF EndsEarly
    <3>3. \A d \in Managers : ~AtWork(d, b)'
      BY <1>a, <2>3, <2>4, <3>2 DEF StoreInv, SharersKnow
    <3>4. ~Known(b, {"place"})'
      BY <1>b, <2>1, <3>1, <3>2 DEF Recorded, Known, Knows
    <3>5. QED BY <3>3, <3>4 DEF Tended
  <2>5. NoneAhead'
    BY <1>b, <1>c, <2>1 DEF NoneAhead
  <2>6. KnownIsShipped'
    BY <2>1, <2>2 DEF KnownIsShipped
  <2>7. KnownIsWhole'
    <3> SUFFICES ASSUME NEW b \in Bundled, Known(b, {"place"})', copy[b].dir, b \notin cut'
                 PROVE  copy[b].files = Files \/ Tended(b)'
      BY <2>1 DEF KnownIsWhole
    <3>1. copy[b].files = Files \/ Tended(b)
      BY <2>1, <2>2 DEF KnownIsWhole
    <3>2. ~AtWork(c, b)
      BY <2>4
    <3>3. Tended(b) => Tended(b)'
      BY <2>1, <3>2 DEF Tended, AtWork
    <3>4. QED BY <3>1, <3>3
  <2>8. SomeoneFills'
    <3> SUFFICES ASSUME NEW b \in Bundled, shipped[b] # 0, Tended(b)', b \notin cut'
                 PROVE  \E d \in Managers : Fills(d, b)'
      BY <2>1 DEF SomeoneFills
    <3>1. ~AtWork(c, b)
      BY <2>4
    <3>2. PICK d \in Managers : Fills(d, b)
      BY <2>1, <2>3 DEF SomeoneFills, Tended
    <3>3. QED BY <2>3, <3>1, <3>2 DEF Fills
  <2>9. ManagersFit'
    BY <2>1 DEF ManagersFit
  <2>10. QED BY <2>5, <2>6, <2>7, <2>8, <2>9
<1>14. ASSUME NEW c \in Managers, Places(c) PROVE KeptInv'
  <2> DEFINE x == manager[c].id
  <2>1. /\ \A d \in Managers \ {c} :
             /\ manager'[d].step = manager[d].step /\ manager'[d].id = manager[d].id
             /\ manager'[d].op = manager[d].op /\ manager'[d].memory = manager[d].memory
             /\ manager'[d].left = manager[d].left
             /\ manager[d].step = "idle" => manager'[d] = manager[d]
        /\ manager'[c].id = x /\ manager'[c].op = manager[c].op
        /\ manager'[c].memory = manager[c].memory /\ manager[c].step = "place"
        /\ UNCHANGED <<shipped, copy, registry, cut>>
    BY <1>14, <1>c DEF Places, StoreOperations, AtWork
  <2>2. \/ copy[x].dir /\ manager'[c].step = "remove"
        \/ ~copy[x].dir /\ manager'[c].step = "create"
        \/ ~copy[x].dir /\ manager'[c].step = After(manager[c].op)
    BY <1>14, <1>c DEF Places, StoreOperations
  <2>3. \A b \in Bundled : (b # x \/ copy[x].dir) /\ Known(b, {"place", "remove"})' =>
          Known(b, {"place", "remove"})
    BY <2>1, <2>2 DEF Known, Knows
  <2>4. \A b \in Bundled : b # x /\ Known(b, {"place"})' => Known(b, {"place"})
    BY <2>1 DEF Known, Knows
  <2>5. \A d \in Managers \ {c} : \A b \in Bundled :
          (AtWork(d, b)' <=> AtWork(d, b)) /\ (Fills(d, b)' <=> Fills(d, b))
    BY <2>1 DEF AtWork, Fills
  <2>12. \A b \in Bundled : ~AtWork(c, b) /\ (AtWork(c, b)' => b = x /\ Fills(c, b)')
    BY <2>1, <2>2 DEF AtWork, Fills, After
  <2>6. NoneAhead'
    BY <2>1 DEF NoneAhead
  <2>7. KnownIsShipped'
    BY <2>1, <2>3 DEF KnownIsShipped
  <2>8. KnownIsWhole'
    <3> SUFFICES ASSUME NEW b \in Bundled, Known(b, {"place"})', copy[b].dir
                 PROVE  copy[b].files = Files \/ b \in cut \/ Tended(b)'
      BY <2>1 DEF KnownIsWhole
    <3>1. CASE b # x
      BY <2>1, <2>4, <2>5, <2>12, <3>1 DEF KnownIsWhole, Tended
    <3>2. CASE b = x
      BY <2>1, <2>2, <3>2 DEF Tended, AtWork
    <3>3. QED BY <3>1, <3>2
  <2>9. SomeoneFills'
    <3> SUFFICES ASSUME NEW b \in Bundled, shipped[b] # 0, Tended(b)'
                 PROVE  b \in cut \/ \E d \in Managers : Fills(d, b)'
      BY <2>1 DEF SomeoneFills
    <3>1. CASE AtWork(c, b)'
      BY <2>12, <3>1
    <3>2. CASE ~AtWork(c, b)'
      <4>1. Tended(b)
        BY <2>5, <3>2 DEF Tended
      <4>2. b \in cut \/ \E d \in Managers \ {c} : Fills(d, b)
        BY <2>12, <4>1 DEF SomeoneFills, Fills
      <4>3. QED BY <2>5, <4>2
    <3>3. QED BY <3>1, <3>2
  <2>10. ManagersFit'
    BY <2>1, <2>2 DEF ManagersFit, After
  <2>11. QED BY <2>6, <2>7, <2>8, <2>9, <2>10
<1>15. ASSUME NEW c \in Managers, NEW file \in Files, Unlinks(c, file) PROVE KeptInv'
  <2> DEFINE x == manager[c].id
  <2>1. /\ \A d \in Managers :
             /\ manager'[d].step = manager[d].step /\ manager'[d].id = manager[d].id
             /\ manager'[d].op = manager[d].op /\ manager'[d].memory = manager[d].memory
             /\ d # c => manager'[d] = manager[d]
        /\ manager[c].step = "remove" /\ UNCHANGED <<shipped, registry, cut>>
    BY <1>15, <1>c DEF Unlinks, StoreOperations
  <2>2. \A b \in Bundled : /\ copy'[b].dir = copy[b].dir /\ copy'[b].version = copy[b].version
                           /\ b # x => copy'[b] = copy[b]
    BY <1>15, <1>a DEF Unlinks, StoreInv, StoreTyped
  <2>3. \A b \in Bundled : \A steps : Known(b, steps)' <=> Known(b, steps)
    BY <2>1 DEF Known, Knows
  <2>4. \A d \in Managers : \A b \in Bundled :
          /\ AtWork(d, b)' <=> AtWork(d, b)
          /\ b # x => (Fills(d, b) => Fills(d, b)')
          /\ b = x => Fills(c, b)'
    BY <2>1, <2>2 DEF AtWork, Fills
  <2>5. \A b \in Bundled : (Tended(b)' <=> Tended(b)) /\ (b = x => Tended(b))
    BY <2>4 DEF Tended, Fills
  <2>6. NoneAhead' /\ KnownIsShipped'
    BY <2>1, <2>2, <2>3 DEF NoneAhead, KnownIsShipped
  <2>7. KnownIsWhole'
    BY <2>1, <2>2, <2>3, <2>5 DEF KnownIsWhole
  <2>8. SomeoneFills'
    BY <2>1, <2>4, <2>5 DEF SomeoneFills
  <2>9. ManagersFit'
    BY <2>1 DEF ManagersFit
  <2>10. QED BY <2>6, <2>7, <2>8, <2>9
<1>16. ASSUME NEW c \in Managers, Removed(c) PROVE KeptInv'
  <2> DEFINE x == manager[c].id
  <2>1. /\ \A d \in Managers :
             /\ manager'[d].id = manager[d].id /\ manager'[d].op = manager[d].op
             /\ manager'[d].memory = manager[d].memory
             /\ d # c => manager'[d].step = manager[d].step
             /\ d # c /\ manager[d].step # "remove" => manager'[d] = manager[d]
        /\ manager[c].step = "remove" /\ UNCHANGED <<shipped, registry, cut>>
    BY <1>16, <1>c DEF Removed, StoreOperations
  <2>2. manager'[c].step = (IF Removal(manager[c]) THEN After(manager[c].op) ELSE "create")
    BY <1>16, <1>c DEF Removed, StoreOperations
  <2>3. \A b \in Bundled : /\ b # x => copy'[b] = copy[b]
                           /\ b = x => ~copy'[b].dir
    BY <1>16, <1>a DEF Removed, StoreInv, StoreTyped, NoCopy
  <2>4. \A b \in Bundled : b # x =>
          /\ Known(b, {"place"})' => Known(b, {"place"})
          /\ Known(b, {"place", "remove"})' => Known(b, {"place", "remove"})
    BY <2>1 DEF Known, Knows
  <2>5. \A d \in Managers : \A b \in Bundled : b # x =>
          (AtWork(d, b)' <=> AtWork(d, b)) /\ (Fills(d, b)' <=> Fills(d, b))
    BY <2>1, <2>3 DEF AtWork, Fills
  <2>6. \A b \in Bundled : b = x /\ shipped[b] # 0 => Fills(c, b)'
    <3> SUFFICES ASSUME NEW b \in Bundled, b = x, shipped[b] # 0 PROVE Fills(c, b)'
      OBVIOUS
    <3>1. ~Removal(manager[c])
      BY <1>a DEF Removal, Source, ManagersFit
    <3>2. QED BY <2>1, <2>2, <3>1 DEF Fills, AtWork
  <2>7. NoneAhead'
    BY <2>1 DEF NoneAhead
  <2>8. KnownIsShipped'
    BY <2>1, <2>3, <2>4 DEF KnownIsShipped
  <2>9. KnownIsWhole'
    BY <2>1, <2>3, <2>4, <2>5 DEF KnownIsWhole, Tended
  <2>10. SomeoneFills'
    BY <2>1, <2>5, <2>6 DEF SomeoneFills, Tended
  <2>11. ManagersFit'
    <3>1. manager'[c].step # "idle" /\ manager'[c].step = "record" => manager'[c].op = "install"
      BY <2>1, <2>2 DEF After
    <3>2. manager'[c].step # "idle" /\ (manager'[c].step = "sync" => manager'[c].op = "sync")
      BY <2>1, <2>2 DEF After
    <3>3. \A d \in Managers \ {c} : manager'[d].step = "idle" => manager'[d] = Idle
      BY <2>1 DEF ManagersFit
    <3>4. QED BY <2>1, <3>1, <3>2, <3>3 DEF ManagersFit
  <2>12. QED BY <2>7, <2>8, <2>9, <2>10, <2>11
<1>17. ASSUME NEW c \in Managers, Creates(c) PROVE KeptInv'
  <2> DEFINE x == manager[c].id
  <2>1. /\ \A d \in Managers :
             /\ manager'[d].id = manager[d].id /\ manager'[d].op = manager[d].op
             /\ manager'[d].memory = manager[d].memory
             /\ d # c => manager'[d] = manager[d]
        /\ manager[c].step = "create" /\ UNCHANGED <<shipped, registry, cut>>
        /\ manager'[c].step = "copy" /\ manager'[c].left = Files
    BY <1>17, <1>c DEF Creates, StoreOperations
  <2>2. \A b \in Bundled : /\ b # x => copy'[b] = copy[b]
                           /\ b = x => copy'[b].version = shipped[b]
                           /\ copy'[b].files = copy[b].files
    BY <1>17, <1>a DEF Creates, Source, StoreInv, StoreTyped
  <2>3. \A b \in Bundled :
          /\ Known(b, {"place"})' => Known(b, {"place"})
          /\ Known(b, {"place", "remove"})' => Known(b, {"place", "remove"})
    BY <2>1 DEF Known, Knows
  <2>4. \A d \in Managers : \A b \in Bundled :
          /\ AtWork(d, b)' <=> AtWork(d, b)
          /\ Fills(d, b) => Fills(d, b)'
          /\ b = x => AtWork(c, b)'
    BY <2>1, <2>2 DEF AtWork, Fills
  <2>5. NoneAhead'
    BY <2>1 DEF NoneAhead
  <2>6. KnownIsShipped'
    BY <2>1, <2>2, <2>3 DEF KnownIsShipped
  <2>7. KnownIsWhole'
    BY <2>1, <2>2, <2>3, <2>4 DEF KnownIsWhole, Tended
  <2>8. SomeoneFills'
    BY <2>1, <2>4 DEF SomeoneFills, Tended
  <2>9. ManagersFit'
    BY <2>1 DEF ManagersFit
  <2>10. QED BY <2>5, <2>6, <2>7, <2>8, <2>9
<1>18. ASSUME NEW c \in Managers, NEW file \in Files, Copies(c, file) PROVE KeptInv'
  <2> DEFINE x == manager[c].id
  <2>1. /\ \A d \in Managers :
             /\ manager'[d].id = manager[d].id /\ manager'[d].op = manager[d].op
             /\ manager'[d].memory = manager[d].memory /\ manager'[d].step = manager[d].step
             /\ d # c => manager'[d] = manager[d]
        /\ manager[c].step = "copy" /\ UNCHANGED <<shipped, registry, cut>>
        /\ manager'[c].left = manager[c].left \ {file}
    BY <1>18, <1>c DEF Copies, StoreOperations
  <2>2. \A b \in Bundled : /\ copy'[b].dir = copy[b].dir /\ copy'[b].version = copy[b].version
                           /\ b # x => copy'[b] = copy[b]
                           /\ b = x => copy'[b].files = copy[b].files \cup {file}
    BY <1>18, <1>a DEF Copies, StoreInv, StoreTyped
  <2>3. \A b \in Bundled : \A steps : Known(b, steps)' <=> Known(b, steps)
    BY <2>1 DEF Known, Knows
  <2>4. \A d \in Managers : \A b \in Bundled :
          (AtWork(d, b)' <=> AtWork(d, b)) /\ (Fills(d, b) => Fills(d, b)')
    BY <2>1, <2>2 DEF AtWork, Fills
  <2>5. NoneAhead' /\ KnownIsShipped'
    BY <2>1, <2>2, <2>3 DEF NoneAhead, KnownIsShipped
  <2>6. KnownIsWhole'
    <3>1. \A b \in Bundled : copy[b].files = Files => copy'[b].files = Files
      BY <2>2
    <3>2. \A b \in Bundled : Tended(b)' <=> Tended(b)
      BY <2>4 DEF Tended
    <3>3. QED BY <2>1, <2>2, <2>3, <3>1, <3>2 DEF KnownIsWhole
  <2>7. SomeoneFills'
    BY <2>1, <2>4 DEF SomeoneFills, Tended
  <2>8. ManagersFit'
    BY <2>1 DEF ManagersFit
  <2>9. QED BY <2>5, <2>6, <2>7, <2>8
<1>19. ASSUME NEW c \in Managers, Copied(c) PROVE KeptInv'
  <2> DEFINE x == manager[c].id
  <2>1. /\ \A d \in Managers :
             /\ manager'[d].id = manager[d].id /\ manager'[d].op = manager[d].op
             /\ manager'[d].memory = manager[d].memory
             /\ d # c => manager'[d] = manager[d]
        /\ manager[c].step = "copy" /\ manager[c].left = {}
        /\ UNCHANGED <<shipped, registry, copy>>
        /\ manager'[c].step = After(manager[c].op)
        /\ cut' = IF manager[c].shared THEN cut ELSE cut \ {x}
    BY <1>19, <1>c DEF Copied, StoreOperations
  <2>2. \A b \in Bundled :
          /\ Known(b, {"place"})' => Known(b, {"place"})
          /\ Known(b, {"place", "remove"})' => Known(b, {"place", "remove"})
    BY <2>1 DEF Known, Knows
  <2>3. \A d \in Managers \ {c} : \A b \in Bundled :
          (AtWork(d, b)' <=> AtWork(d, b)) /\ (Fills(d, b)' <=> Fills(d, b))
    BY <2>1 DEF AtWork, Fills
  <2>4. \A b \in Bundled : ~AtWork(c, b)' /\ (AtWork(c, b) <=> b = x)
    BY <2>1 DEF AtWork, After
  <2>5. \A b \in Bundled : b # x =>
          /\ b \in cut' <=> b \in cut
          /\ Tended(b)' <=> Tended(b)
          /\ \A d \in Managers : Fills(d, b) => Fills(d, b)'
    BY <2>1, <2>3, <2>4 DEF Tended, Fills
  \* Copied alone, the plugin is whole.
  <2>6. ASSUME NEW b \in Bundled, b = x, ~manager[c].shared
        PROVE  copy[b].files = Files /\ ~Tended(b)'
    <3>1. b \in PluginIds /\ AtWork(c, b)
      BY <1>a, <2>4, <2>6
    <3>2. copy[b].files = Files
      <4>1. Files \ manager[c].left \subseteq copy[b].files
        BY <2>1, <2>6, <3>1 DEF StoreInv, CopyGrows
      <4>2. copy[b].files \subseteq Files
        BY <3>1 DEF StoreInv, StoreTyped
      <4>3. QED BY <2>1, <4>1, <4>2
    <3>3. \A d \in Managers \ {c} : ~AtWork(d, b)
      BY <2>6, <3>1 DEF StoreInv, SharersKnow
    <3>4. QED BY <2>3, <2>4, <3>2, <3>3 DEF Tended
  \* Copied by several, it is, or another claw goes on with what is left.
  <2>7. ASSUME NEW b \in Bundled, b = x, manager[c].shared, shipped[b] # 0
        PROVE  \/ b \in cut'
               \/ copy[b].files = Files
               \/ Tended(b)' /\ \E d \in Managers : Fills(d, b)'
    <3>1. b \in PluginIds /\ AtWork(c, b) /\ cut' = cut
      BY <1>a, <2>1, <2>4, <2>7
    <3>2. b \in cut \/ \E d \in Managers : Fills(d, b)
      BY <2>7, <3>1 DEF SomeoneFills, Tended
    <3>3. Fills(c, b) => copy[b].files = Files
      BY <2>1, <3>1 DEF Fills, StoreInv, StoreTyped
    <3>4. ASSUME NEW d \in Managers \ {c}, Fills(d, b)
          PROVE  Tended(b)' /\ Fills(d, b)'
      BY <2>3, <3>4 DEF Fills, Tended
    <3>5. QED BY <3>1, <3>2, <3>3, <3>4
  <2>8. NoneAhead' /\ KnownIsShipped'
    BY <2>1, <2>2 DEF NoneAhead, KnownIsShipped
  <2>9. KnownIsWhole'
    <3> SUFFICES ASSUME NEW b \in Bundled, Known(b, {"place"})', copy[b].dir
                 PROVE  copy[b].files = Files \/ b \in cut' \/ Tended(b)'
      BY <2>1 DEF KnownIsWhole
    <3>1. CASE b # x
      BY <2>1, <2>2, <2>5, <3>1 DEF KnownIsWhole
    <3>2. CASE b = x
      BY <2>1, <2>6, <2>7, <3>2 DEF Known
    <3>3. QED BY <3>1, <3>2
  <2>10. SomeoneFills'
    <3> SUFFICES ASSUME NEW b \in Bundled, shipped[b] # 0, Tended(b)'
                 PROVE  b \in cut' \/ \E d \in Managers : Fills(d, b)'
      BY <2>1 DEF SomeoneFills
    <3>1. CASE b # x
      BY <2>5, <3>1 DEF SomeoneFills
    <3>2. CASE b = x /\ copy[b].files = Files
      <4>1. PICK d \in Managers : AtWork(d, b)'
        BY DEF Tended
      <4>2. Fills(d, b)'
        BY <2>1, <3>2, <4>1 DEF Fills
      <4>3. QED BY <4>2
    <3>3. CASE b = x /\ copy[b].files # Files
      BY <2>6, <2>7, <3>3
    <3>4. QED BY <3>1, <3>2, <3>3
  <2>11. ManagersFit'
    BY <2>1 DEF ManagersFit, After
  <2>12. QED BY <2>8, <2>9, <2>10, <2>11
<1>20. ASSUME NEW b \in Bundled, Upgrade(b) PROVE KeptInv'
  <2>1. /\ \A d \in Managers : manager[d].step = "idle" /\ manager[d] = Idle
        /\ UNCHANGED <<copy, registry, manager, cut>>
        /\ shipped[b] # 0 /\ \A a \in Bundled \ {b} : shipped'[a] = shipped[a]
        /\ shipped'[b] = 0 \/ shipped'[b] = shipped[b] + 1
    BY <1>20, <1>c DEF Upgrade, ManagersFit
  <2>2. \A d \in Managers : \A a \in Bundled : manager[d].memory[a] = 0
    BY <1>b, <2>1
  <2>3. \A a \in Bundled : registry[a] \in Nat /\ shipped[a] \in Nat
    BY <1>a, <1>c
  <2>4. NoneAhead'
    BY <2>1, <2>2, <2>3 DEF NoneAhead
  <2>5. \A a \in Bundled : \A steps : Known(a, steps)' => a # b /\ Known(a, steps)
    BY <2>1, <2>2, <2>3 DEF Known, Knows, NoneAhead
  <2>6. \A a \in Bundled : Tended(a)' <=> Tended(a)
    BY <2>1 DEF Tended, AtWork
  <2>7. KnownIsShipped' /\ KnownIsWhole'
    BY <2>1, <2>5, <2>6 DEF KnownIsShipped, KnownIsWhole
  <2>8. SomeoneFills'
    BY <2>1 DEF SomeoneFills, Tended, AtWork
  <2>9. ManagersFit'
    BY <2>1 DEF ManagersFit
  <2>10. QED BY <2>4, <2>7, <2>8, <2>9
<1>21. CASE UNCHANGED storeVars
  BY <1>21 DEF storeVars, NoneAhead, KnownIsShipped, KnownIsWhole, SomeoneFills, ManagersFit,
               Known, Knows, Fills, Tended, AtWork
<1>22. ASSUME NEW c \in Managers, Refusal(c) \/ Interrupted(c) PROVE KeptInv'
  BY <1>13, <1>22 DEF Refusal, Interrupted
<1>23. QED
  BY <1>1, <1>2, <1>3, <1>4, <1>5, <1>6, <1>7, <1>8, <1>9, <1>10, <1>11, <1>12, <1>14, <1>15,
     <1>16, <1>17, <1>18, <1>19, <1>20, <1>21, <1>22 DEF StoreNext

\* plugins/src/lib.rs, sync_bundled_plugins: for any claws and plugins, a bundled
\* plugin that is left alone is the shipped one, whole unless it was cut short or
\* is being worked on.
THEOREM KeptAreShipped == StoreSpec => KeptIsShipped
<1>1. ASSUME StoreInv, KeptInv, NEW c \in Managers, NEW b \in Bundled, Keeps(c, b)
      PROVE  /\ copy[b].version = shipped[b]
             /\ copy[b].files = Files \/ b \in cut \/ Tended(b)
  <2>1. /\ manager[c].step = "sync" /\ shipped[b] # 0 /\ copy[b].dir
        /\ manager[c].memory[b] = shipped[b]
    BY <1>1 DEF Keeps, NeedsSync
  <2>2. Known(b, {"place"}) /\ Known(b, {"place", "remove"})
    BY <2>1 DEF Known, Knows
  <2>3. QED BY <1>1, <2>1, <2>2 DEF KeptInv, KnownIsShipped, KnownIsWhole
<1>2. StoreInv /\ KeptInv =>
        [\A c \in Managers, b \in Bundled : Keeps(c, b) =>
           /\ copy[b].version = shipped[b]
           /\ copy[b].files = Files \/ b \in cut \/ Tended(b)]_storeVars
  BY <1>1
<1>3. StoreInv /\ KeptInv /\ [StoreNext]_storeVars => (StoreInv /\ KeptInv)'
  BY StoreNextInv, KeptNextInv
<1>4. QED BY StoreInitInv, KeptInitInv, <1>2, <1>3, PTL DEF StoreSpec, KeptIsShipped

(***************************************************************************)
(* The types of the store: versions stay within those that were shipped,   *)
(* and a claw at a directory is at that of a plugin.                       *)
(***************************************************************************)
Versions == 0..MaxVersion
VersionsFit ==
  /\ shipped \in [Bundled -> Versions] /\ registry \in [PluginIds -> Versions]
  /\ \A id \in PluginIds : copy[id].version \in Versions
  /\ \A c \in Managers : manager[c].memory \in [PluginIds -> Versions]
NamesFit == \A c \in Managers :
  manager[c].step \in {"place", "remove", "create", "copy", "record"} => manager[c].id \in PluginIds
CountsFit ==
  /\ unreadable \in BOOLEAN /\ storeOps \in 0..MaxStoreOps /\ storeFaults \in 0..MaxStoreFaults
  /\ cut \subseteq PluginIds /\ halved \subseteq PluginIds
StoreTypes == StoreInv /\ VersionsFit /\ NamesFit /\ CountsFit

LEMMA VersionsStay ==
  ASSUME StoreTypes, StoreNext
  PROVE  VersionsFit'
<1>1. /\ 0 \in Versions /\ 1 \in Versions /\ NoRecords \in [PluginIds -> Versions]
      /\ Idle.memory = NoRecords /\ NoCopy.version = 0
  BY StoreAssumption DEF Versions, NoRecords, Idle, NoCopy
<1>2. /\ shipped \in [Bundled -> Versions] /\ registry \in [PluginIds -> Versions]
      /\ \A id \in PluginIds : copy[id].version \in Versions /\ Source(id) \in Versions
      /\ \A c \in Managers : manager[c].memory \in [PluginIds -> Versions]
  BY <1>1 DEF StoreTypes, VersionsFit, Source
<1>3. /\ copy \in [PluginIds -> [dir : BOOLEAN, version : Nat, files : SUBSET Files]]
      /\ manager \in [Managers -> StoreOperations]
  BY DEF StoreTypes, StoreInv, StoreTyped
<1>4. ASSUME UNCHANGED <<shipped, registry, copy>>, NEW c \in Managers, NEW m,
             manager' = [manager EXCEPT ![c] = m], m.memory \in [PluginIds -> Versions]
      PROVE  VersionsFit'
  BY <1>2, <1>3, <1>4 DEF VersionsFit
<1>5. ASSUME NEW c \in Managers, Refresh(c) PROVE VersionsFit'
  <2> DEFINE m == [Idle EXCEPT !.op = "sync", !.step = "sync", !.memory = registry, !.queue = Bundled]
  <2>1. m.memory = registry
    BY DEF Idle
  <2>2. manager' = [manager EXCEPT ![c] = m]
    BY <1>5 DEF Refresh, Begins
  <2> HIDE DEF m
  <2>3. QED BY <1>2, <1>4, <1>5, <2>1, <2>2 DEF Refresh, Begins
<1>6. ASSUME NEW c \in Managers, NEW id \in External, Install(c, id) PROVE VersionsFit'
  <2> DEFINE m == [Idle EXCEPT !.op = "install", !.step = "place", !.id = id]
  <2>1. m.memory = NoRecords
    BY DEF Idle
  <2>2. manager' = [manager EXCEPT ![c] = m]
    BY <1>6 DEF Install, Begins
  <2> HIDE DEF m
  <2>3. QED BY <1>1, <1>4, <1>6, <2>1, <2>2 DEF Install, Begins
<1>7. ASSUME NEW c \in Managers, NEW id \in PluginIds, Uninstall(c, id) \/ Update(c, id)
      PROVE  VersionsFit'
  <2> DEFINE m(kind, v) == [Idle EXCEPT !.op = kind, !.step = "place", !.id = id,
                                        !.memory = [registry EXCEPT ![id] = v]]
  <2>1. \A kind : \A v \in Versions : m(kind, v).memory \in [PluginIds -> Versions]
    BY <1>2 DEF Idle
  <2>2. 0 \in Versions /\ Source(id) \in Versions
    BY <1>1, <1>2
  <2>3. \/ manager' = [manager EXCEPT ![c] = m("uninstall", 0)]
        \/ manager' = [manager EXCEPT ![c] = m("update", Source(id))]
    BY <1>7, Zenon DEF Uninstall, Update, Begins
  <2> HIDE DEF m
  <2>4. UNCHANGED <<shipped, registry, copy>>
    BY <1>7 DEF Uninstall, Update, Begins
  <2>5. QED BY <1>4, <2>1, <2>2, <2>3, <2>4
<1>8. ASSUME NEW c \in Managers, NEW b \in Bundled, Renews(c, b) PROVE VersionsFit'
  <2> DEFINE m == [manager[c] EXCEPT !.queue = @ \ {b}, !.id = b, !.step = "place", !.changed = TRUE,
                     !.memory = [manager[c].memory EXCEPT ![b] = shipped[b]]]
  <2>1. manager' = [manager EXCEPT ![c] = m]
    BY <1>8 DEF Renews
  <2>2. m.memory \in [PluginIds -> Versions]
    BY <1>2, <1>3 DEF StoreOperations
  <2> HIDE DEF m
  <2>3. QED BY <1>4, <1>8, <2>1, <2>2 DEF Renews
<1>9. ASSUME NEW c \in Managers, Records(c) PROVE VersionsFit'
  <2> DEFINE m == [manager[c] EXCEPT !.step = "store",
                                     !.memory = [registry EXCEPT ![manager[c].id] = 1]]
  <2>1. manager' = [manager EXCEPT ![c] = m]
    BY <1>3, <1>9 DEF Records
  <2>2. m.memory \in [PluginIds -> Versions]
    BY <1>1, <1>2, <1>3 DEF StoreOperations
  <2> HIDE DEF m
  <2>3. QED BY <1>4, <1>9, <2>1, <2>2 DEF Records
<1>10. ASSUME NEW c \in Managers, Discovers(c) PROVE VersionsFit'
  <2> DEFINE m == [Idle EXCEPT !.op = "discovery", !.step = "scan", !.memory = registry]
  <2>1. manager' = [manager EXCEPT ![c] = m]
    BY <1>10 DEF Discovers
  <2>2. m.memory = registry
    BY DEF Idle
  <2> HIDE DEF m
  <2>3. QED BY <1>2, <1>4, <1>10, <2>1, <2>2 DEF Discovers
<1>11. ASSUME NEW c \in Managers, Scans(c) PROVE VersionsFit'
  <2> DEFINE m == IF Stale(manager[c].memory) = {} THEN Idle
                  ELSE [manager[c] EXCEPT !.step = "store",
                          !.memory = [id \in PluginIds |-> IF id \in Stale(manager[c].memory) THEN 0
                                                           ELSE manager[c].memory[id]]]
  <2>1. manager' = [manager EXCEPT ![c] = m]
    BY <1>3, <1>11 DEF Scans
  <2>2. m.memory \in [PluginIds -> Versions]
    BY <1>1, <1>2, <1>3 DEF StoreOperations
  <2> HIDE DEF m
  <2>3. QED BY <1>4, <1>11, <2>1, <2>2 DEF Scans
<1>12. ASSUME UNCHANGED <<shipped, registry>>, \A c \in Managers : manager'[c].memory = manager[c].memory,
              \A id \in PluginIds : copy'[id].version \in Versions
       PROVE  VersionsFit'
  BY <1>2, <1>12 DEF VersionsFit
<1>13. ASSUME NEW c \in Managers, NEW b \in Bundled, Keeps(c, b) PROVE VersionsFit'
  BY <1>2, <1>3, <1>12, <1>13 DEF Keeps, StoreOperations
<1>14. ASSUME NEW c \in Managers, Synced(c) \/ Copied(c) PROVE VersionsFit'
  <2>1. PICK step : manager' = [manager EXCEPT ![c].step = step]
    BY <1>14 DEF Synced, Copied
  <2>2. \A d \in Managers : manager'[d].memory = manager[d].memory
    BY <1>3, <2>1 DEF StoreOperations
  <2>3. QED BY <1>2, <1>12, <1>14, <2>2 DEF Synced, Copied
<1>15. ASSUME NEW c \in Managers, Places(c) PROVE VersionsFit'
  BY <1>2, <1>3, <1>12, <1>15 DEF Places, StoreOperations
<1>16. ASSUME NEW c \in Managers, NEW file \in Files, Unlinks(c, file) \/ Copies(c, file)
       PROVE  VersionsFit'
  <2>1. \A d \in Managers : manager'[d].memory = manager[d].memory
    <3>1. manager' = [manager EXCEPT ![c].left = @ \ {file}]
      BY <1>16 DEF Unlinks, Copies
    <3>2. QED BY <1>3, <3>1 DEF StoreOperations
  <2>2. \A id \in PluginIds : copy'[id].version = copy[id].version
    BY <1>3, <1>16 DEF Unlinks, Copies
  <2>3. QED BY <1>2, <1>12, <1>16, <2>1, <2>2 DEF Unlinks, Copies
<1>17. ASSUME NEW c \in Managers, Removed(c) PROVE VersionsFit'
  <2>1. \A d \in Managers : manager'[d].memory = manager[d].memory
    BY <1>3, <1>17 DEF Removed, StoreOperations
  <2>2. \A id \in PluginIds : copy'[id].version \in Versions
    BY <1>1, <1>2, <1>3, <1>17 DEF Removed
  <2>3. QED BY <1>12, <1>17, <2>1, <2>2 DEF Removed
<1>18. ASSUME NEW c \in Managers, Creates(c) PROVE VersionsFit'
  <2>1. \A d \in Managers : manager'[d].memory = manager[d].memory
    BY <1>3, <1>18 DEF Creates, StoreOperations
  <2>2. manager[c].id \in PluginIds
    BY <1>18 DEF Creates, StoreTypes, NamesFit
  <2>3. \A id \in PluginIds : copy'[id].version \in Versions
    BY <1>2, <1>3, <1>18, <2>2 DEF Creates
  <2>4. QED BY <1>12, <1>18, <2>1, <2>3 DEF Creates
<1>19. ASSUME NEW c \in Managers, Truncates(c) PROVE VersionsFit'
  BY <1>1, <1>2, <1>3, <1>19 DEF Truncates, VersionsFit, StoreOperations
<1>20. ASSUME NEW c \in Managers, WritesRegistry(c) PROVE VersionsFit'
  <2>1. \A d \in Managers : manager'[d].memory \in [PluginIds -> Versions]
    BY <1>1, <1>2, <1>3, <1>20 DEF WritesRegistry, StoreOperations
  <2>2. QED BY <1>2, <1>20, <2>1 DEF WritesRegistry, VersionsFit
<1>21. ASSUME NEW c \in Managers, Refusal(c) \/ Interrupted(c) PROVE VersionsFit'
  <2>1. UNCHANGED <<shipped, registry, copy>> /\ manager' = [manager EXCEPT ![c] = Idle]
    BY <1>21 DEF Refusal, Interrupted, EndsEarly
  <2>2. QED BY <1>1, <1>4, <2>1
<1>22. ASSUME NEW b \in Bundled, Upgrade(b) PROVE VersionsFit'
  <2>1. PICK v \in Versions : shipped' = [shipped EXCEPT ![b] = v]
    <3>1. PICK v \in {0, shipped[b] + 1} : v <= MaxVersion /\ shipped' = [shipped EXCEPT ![b] = v]
      BY <1>22 DEF Upgrade
    <3>2. shipped[b] \in Nat
      BY <1>2 DEF Versions
    <3>3. v \in Versions
      BY <3>1, <3>2, StoreAssumption DEF Versions
    <3>4. QED BY <3>1, <3>3
  <2>2. QED BY <1>2, <1>22, <2>1 DEF Upgrade, VersionsFit
<1>23. QED
  BY <1>5, <1>6, <1>7, <1>8, <1>9, <1>10, <1>11, <1>13, <1>14, <1>15, <1>16, <1>17, <1>18, <1>19,
     <1>20, <1>21, <1>22 DEF StoreNext, PluginIds

LEMMA NamesStay ==
  ASSUME StoreTypes, StoreNext
  PROVE  NamesFit'
<1> DEFINE steps == {"place", "remove", "create", "copy", "record"}
<1>1. /\ manager \in [Managers -> StoreOperations]
      /\ \A c \in Managers : manager[c].step \in steps => manager[c].id \in PluginIds
      /\ Idle.step = "idle" /\ \A id \in External : id \in PluginIds
      /\ \A b \in Bundled : b \in PluginIds
  BY DEF StoreTypes, StoreInv, StoreTyped, NamesFit, Idle, PluginIds
<1>2. ASSUME NEW c \in Managers, NEW m, manager' = [manager EXCEPT ![c] = m],
             m.step \in steps => m.id \in PluginIds
      PROVE  NamesFit'
  BY <1>1, <1>2 DEF NamesFit
<1>3. ASSUME NEW c \in Managers, Refresh(c) \/ Discovers(c) PROVE NamesFit'
  <2>1. PICK m : manager' = [manager EXCEPT ![c] = m] /\ m.step \notin steps
    BY <1>3 DEF Refresh, Discovers, Begins, Idle
  <2>2. QED BY <1>2, <2>1
<1>4. ASSUME NEW c \in Managers, NEW id \in PluginIds, Install(c, id) \/ Uninstall(c, id) \/ Update(c, id)
      PROVE  NamesFit'
  <2>1. manager' = [manager EXCEPT ![c] = manager'[c]] /\ manager'[c].id = id
    <3>1. CASE Install(c, id)
      BY <1>1, <3>1 DEF Install, Begins, Idle
    <3>2. CASE Uninstall(c, id)
      BY <1>1, <3>2 DEF Uninstall, Begins, Idle
    <3>3. CASE Update(c, id)
      BY <1>1, <3>3 DEF Update, Begins, Idle
    <3>4. QED BY <1>4, <3>1, <3>2, <3>3
  <2>2. QED BY <1>2, <2>1
<1>5. ASSUME NEW c \in Managers, NEW b \in Bundled, Renews(c, b) PROVE NamesFit'
  <2> DEFINE m == [manager[c] EXCEPT !.queue = @ \ {b}, !.id = b, !.step = "place", !.changed = TRUE,
                     !.memory = [manager[c].memory EXCEPT ![b] = shipped[b]]]
  <2>1. manager' = [manager EXCEPT ![c] = m] /\ m.id = b
    BY <1>1, <1>5 DEF Renews, StoreOperations
  <2> HIDE DEF m
  <2>2. QED BY <1>1, <1>2, <2>1
<1>6. ASSUME NEW c \in Managers, NEW b \in Bundled, Keeps(c, b) PROVE NamesFit'
  BY <1>1, <1>6 DEF Keeps, StoreOperations, NamesFit
<1>7. ASSUME NEW c \in Managers, NEW step, manager' = [manager EXCEPT ![c].step = step],
             step \in steps => manager[c].step \in steps
      PROVE  NamesFit'
  BY <1>1, <1>7 DEF StoreOperations, NamesFit
<1>8. ASSUME NEW c \in Managers, Synced(c) PROVE NamesFit'
  BY <1>7, <1>8 DEF Synced
<1>9. ASSUME NEW c \in Managers, Copied(c) PROVE NamesFit'
  BY <1>7, <1>9 DEF Copied
<1>10. ASSUME NEW c \in Managers, Truncates(c) PROVE NamesFit'
  BY <1>7, <1>10 DEF Truncates
<1>11. ASSUME NEW c \in Managers, Records(c) PROVE NamesFit'
  BY <1>1, <1>11 DEF Records, StoreOperations, NamesFit
<1>12. ASSUME NEW c \in Managers, Places(c) PROVE NamesFit'
  <2>1. \A d \in Managers : /\ manager'[d].id = manager[d].id
                            /\ manager'[d].step \in steps => manager[d].step \in steps
    BY <1>1, <1>12 DEF Places, StoreOperations
  <2>2. QED BY <1>1, <2>1 DEF NamesFit
<1>13. ASSUME NEW c \in Managers, Removed(c) PROVE NamesFit'
  <2>1. \A d \in Managers : /\ manager'[d].id = manager[d].id
                            /\ manager'[d].step \in steps => manager[d].step \in steps
    BY <1>1, <1>13 DEF Removed, StoreOperations
  <2>2. QED BY <1>1, <2>1 DEF NamesFit
<1>14. ASSUME NEW c \in Managers, Creates(c) PROVE NamesFit'
  BY <1>1, <1>14 DEF Creates, StoreOperations, NamesFit
<1>15. ASSUME NEW c \in Managers, NEW file \in Files, Unlinks(c, file) \/ Copies(c, file)
       PROVE  NamesFit'
  <2>1. manager' = [manager EXCEPT ![c].left = @ \ {file}]
    BY <1>15 DEF Unlinks, Copies
  <2>2. QED BY <1>1, <2>1 DEF StoreOperations, NamesFit
<1>16. ASSUME NEW c \in Managers, WritesRegistry(c) PROVE NamesFit'
  <2> DEFINE m == IF manager[c].op = "sync" THEN [manager[c] EXCEPT !.step = "discover"] ELSE Idle
  <2>1. manager' = [manager EXCEPT ![c] = m] /\ m.step \notin steps
    BY <1>1, <1>16 DEF WritesRegistry, StoreOperations
  <2> HIDE DEF m
  <2>2. QED BY <1>2, <2>1
<1>17. ASSUME NEW c \in Managers, Scans(c) PROVE NamesFit'
  <2> DEFINE m == IF Stale(manager[c].memory) = {} THEN Idle
                  ELSE [manager[c] EXCEPT !.step = "store",
                          !.memory = [id \in PluginIds |-> IF id \in Stale(manager[c].memory) THEN 0
                                                           ELSE manager[c].memory[id]]]
  <2>1. manager' = [manager EXCEPT ![c] = m] /\ m.step \notin steps
    BY <1>1, <1>17 DEF Scans, StoreOperations
  <2> HIDE DEF m
  <2>2. QED BY <1>2, <2>1
<1>18. ASSUME NEW c \in Managers, Refusal(c) \/ Interrupted(c) PROVE NamesFit'
  BY <1>1, <1>2, <1>18 DEF Refusal, Interrupted, EndsEarly
<1>19. ASSUME NEW b \in Bundled, Upgrade(b) PROVE NamesFit'
  BY <1>1, <1>19 DEF Upgrade, NamesFit
<1>20. QED
  BY <1>1, <1>3, <1>4, <1>5, <1>6, <1>8, <1>9, <1>10, <1>11, <1>12, <1>13, <1>14, <1>15, <1>16,
     <1>17, <1>18, <1>19 DEF StoreNext

LEMMA CountsStay ==
  ASSUME StoreTypes, StoreNext
  PROVE  CountsFit'
<1>1. /\ unreadable \in BOOLEAN /\ storeOps \in 0..MaxStoreOps /\ storeFaults \in 0..MaxStoreFaults
      /\ cut \subseteq PluginIds /\ halved \subseteq PluginIds
  BY DEF StoreTypes, CountsFit
<1>2. ASSUME UNCHANGED <<unreadable, storeOps, storeFaults, cut, halved>> PROVE CountsFit'
  BY <1>1, <1>2 DEF CountsFit
<1>3. ASSUME NEW c \in Managers, NEW m, Begins(c, m) PROVE CountsFit'
  BY <1>1, <1>3, StoreAssumption DEF Begins, CountsFit
<1>4. ASSUME NEW c \in Managers, Refresh(c) PROVE CountsFit'
  BY <1>3, <1>4 DEF Refresh
<1>5. ASSUME NEW c \in Managers, NEW id \in PluginIds, Install(c, id) \/ Uninstall(c, id) \/ Update(c, id)
      PROVE  CountsFit'
  BY <1>3, <1>5 DEF Install, Uninstall, Update
<1>6. ASSUME NEW c \in Managers, Copied(c) PROVE CountsFit'
  BY <1>1, <1>6 DEF Copied, CountsFit
<1>7. ASSUME NEW c \in Managers, Truncates(c) \/ WritesRegistry(c) PROVE CountsFit'
  BY <1>1, <1>7 DEF Truncates, WritesRegistry, CountsFit
<1>8. ASSUME NEW c \in Managers, EndsEarly(c) PROVE cut' \subseteq PluginIds /\ halved' \subseteq PluginIds /\ storeOps' = storeOps
  BY <1>1, <1>8 DEF EndsEarly, AtWork, StoreTypes, NamesFit
<1>9. ASSUME NEW c \in Managers, Refusal(c) PROVE CountsFit'
  BY <1>1, <1>8, <1>9 DEF Refusal, CountsFit
<1>10. ASSUME NEW c \in Managers, Interrupted(c) PROVE CountsFit'
  <2>1. storeFaults' \in 0..MaxStoreFaults
    BY <1>1, <1>10, StoreAssumption DEF Interrupted
  <2>2. unreadable' \in BOOLEAN
    BY <1>1, <1>10 DEF Interrupted
  <2>3. cut' \subseteq PluginIds /\ halved' \subseteq PluginIds /\ storeOps' = storeOps
    BY <1>8, <1>10 DEF Interrupted
  <2>4. QED BY <1>1, <2>1, <2>2, <2>3 DEF CountsFit
<1>11. ASSUME NEW c \in Managers,
              \/ Synced(c) \/ Places(c) \/ Removed(c) \/ Creates(c) \/ Records(c) \/ Discovers(c)
              \/ Scans(c) \/ (\E b \in Bundled : Keeps(c, b) \/ Renews(c, b))
              \/ (\E file \in Files : Unlinks(c, file) \/ Copies(c, file))
       PROVE  CountsFit'
  BY <1>2, <1>11 DEF Synced, Places, Removed, Creates, Records, Discovers, Scans, Keeps, Renews,
                     Unlinks, Copies
<1>12. ASSUME NEW b \in Bundled, Upgrade(b) PROVE CountsFit'
  BY <1>2, <1>12 DEF Upgrade
<1>13. QED
  BY <1>4, <1>5, <1>6, <1>7, <1>9, <1>10, <1>11, <1>12 DEF StoreNext, PluginIds

LEMMA StoreTypesHold ==
  /\ StoreInit => StoreTypes
  /\ StoreTypes /\ [StoreNext]_storeVars => StoreTypes'
  /\ StoreTypes => StoreTypeOK
<1>1. ASSUME StoreInit PROVE StoreTypes
  <2>1. 0 \in Versions /\ 1 \in Versions
    BY StoreAssumption DEF Versions
  <2>2. VersionsFit /\ NamesFit
    BY <1>1, <2>1 DEF StoreInit, VersionsFit, NamesFit, Idle, NoCopy, NoRecords
  <2>3. CountsFit
    <3>1. 0 \in 0..MaxStoreOps /\ 0 \in 0..MaxStoreFaults
      BY StoreAssumption
    <3>2. QED BY <1>1, <3>1 DEF StoreInit, CountsFit
  <2>4. QED BY <1>1, <2>2, <2>3, StoreInitInv DEF StoreTypes
<1>2. ASSUME StoreTypes, [StoreNext]_storeVars PROVE StoreTypes'
  <2>1. StoreInv'
    BY <1>2, StoreNextInv DEF StoreTypes
  <2>2. CASE StoreNext
    BY <1>2, <2>1, <2>2, VersionsStay, NamesStay, CountsStay DEF StoreTypes
  <2>3. CASE UNCHANGED storeVars
    BY <1>2, <2>1, <2>3 DEF StoreTypes, VersionsFit, NamesFit, CountsFit, storeVars
  <2>4. QED BY <1>2, <2>2, <2>3
<1>3. ASSUME StoreTypes PROVE StoreTypeOK
  BY <1>3 DEF StoreTypes, VersionsFit, CountsFit, StoreInv, StoreTyped, StoreOperations, Reports,
              Versions, StoreTypeOK
<1>4. QED BY <1>1, <1>2, <1>3

(***************************************************************************)
(* ClawSession.  The invariant speaks of the files and of the processes    *)
(* that run, one record and one pair of records at a time.                 *)
(***************************************************************************)
OnFile == Range(files)
Running(p) == {c \in {cli[p]} : c.pc # "off"}
\* No two processes ever had the name of this path open at once.
Sole(path) == path[1] \notin shared
Turning == {"request", "tools"}
Saves == {"rotate", "write", "clean"}
Uses == Turns \X (1..MaxUses)
PathTypes == {path \in Seq(Names \cup Nat) : path # <<>> /\ path[1] \in Names}
FileTypes == [path : PathTypes, id : Names, msgs : Seq(Messages), compacted : BOOLEAN,
              torn : BOOLEAN]
CliTypes == [pc : {"off", "idle"} \cup Turning \cup Saves, id : Names \cup {NoName},
             path : PathTypes \cup {<<>>}, log : PathTypes \cup {<<>>}, msgs : Seq(Messages),
             compacted : BOOLEAN, turn : Turns \cup {0}, todo : SUBSET Uses,
             then : {"off", "idle"}]
SessionTyped ==
  /\ files \in Seq(FileTypes) /\ cli \in [Procs -> CliTypes]
  /\ used \subseteq Names /\ shared \subseteq Names /\ turn \in 0..MaxTurns
  /\ rotations \in Nat /\ done \subseteq 1..turn
  /\ ranIn \in [Turns -> [id : Names \cup {NoName}, path : Seq(Names \cup Nat)]]
  /\ inherits \in [Names -> SUBSET Turns]

\* Names, numbers and turns were given out before they are met, and a turn is
\* met where it was taken, or where a fork or a second process brought it.
Numbered(path) == \A i \in 2..Len(path) : path[i] \in Nat /\ path[i] <= rotations
MessagesFit(msgs, n) ==
  /\ TurnsOf(msgs) \subseteq 1..n
  /\ \A i \in DOMAIN msgs : \A u \in msgs[i].uses : u[1] \in msgs[i].turns
Owns(x) == \A t \in TurnsOf(x.msgs) :
  ranIn[t].id = x.id \/ t \in inherits[x.id] \/ ~Sole(x.path)
RecordFits(x) ==
  /\ x.path \in PathTypes /\ x.path[1] \in used /\ x.id \in used
  /\ Numbered(x.path) /\ MessagesFit(x.msgs, turn) /\ Owns(x)
CliFits(c) ==
  /\ RecordFits(c) /\ c.log = c.path
  /\ c.pc \in Turning => c.turn # 0
  /\ c.pc = "idle" => c.turn = 0
  /\ c.turn # 0 =>
       /\ c.turn \in TurnsOf(c.msgs) /\ c.turn \in (1..turn) \ done
       /\ ranIn[c.turn] = [id |-> c.id, path |-> c.path]
Apart(c, d) ==
  /\ c.path[1] = d.path[1] => ~Sole(c.path)
  /\ d.turn # 0 => c.turn # d.turn
SessionFits ==
  /\ SessionTyped
  /\ \A f \in OnFile : RecordFits(f)
  /\ \A f, g \in OnFile : f.path = g.path => f = g
  /\ \A p \in Procs : \A c \in Running(p) :
       CliFits(c) /\ \A q \in Procs \ {p} : \A d \in Running(q) : Apart(c, d)

\* Calls and answers, where no second process interfered.
Follows(msgs) == \A i \in DOMAIN msgs : msgs[i].role = "tool" => FollowsItsCall(msgs, i)
Closed(msgs, t) == \A i \in DOMAIN msgs : msgs[i].role = "assistant" =>
  \A u \in msgs[i].uses : u[1] = t => Answered(msgs, i, u)
Paired(msgs, ended) == Follows(msgs) /\ \A t \in ended : Closed(msgs, t)
\* A tool loop: the calls that wait are of one message with only answers after it.
InLoop(c) ==
  /\ c.todo # {} /\ \A u \in c.todo : u[1] = c.turn
  /\ \E j \in DOMAIN c.msgs :
       /\ c.msgs[j].role = "assistant" /\ c.todo \subseteq c.msgs[j].uses
       /\ \A k \in (j + 1)..Len(c.msgs) : c.msgs[k].role = "tool"
  /\ \A i \in DOMAIN c.msgs : c.msgs[i].role = "assistant" =>
       \A u \in c.msgs[i].uses : u[1] = c.turn => Answered(c.msgs, i, u) \/ u \in c.todo
FilePairs(f) == Sole(f.path) /\ ~f.torn => Paired(f.msgs, done)
CliPairs(c) ==
  /\ c.pc = "tools" => InLoop(c)
  /\ c.pc # "tools" /\ c.turn # 0 => Closed(c.msgs, c.turn)
  /\ Sole(c.path) => Paired(c.msgs, done)
\* What a process has in memory and what is in a file: the same in its own file,
\* but while it saves; and the turn it takes is in no file of another name.
InStep(c, f) == Sole(f.path) =>
  /\ f.path = c.path /\ c.pc \notin {"rotate", "write"} =>
       f.id = c.id /\ f.msgs = c.msgs /\ ~f.torn
  /\ ~f.torn /\ c.turn \in TurnsOf(f.msgs) \ {0} =>
       /\ f.path[1] = c.path[1] /\ (c.pc \in Turning => f.path = c.path)
       /\ c.pc \in Saves => Closed(f.msgs, c.turn)
TurnApart(c, d) == Sole(c.path) => d.turn \notin TurnsOf(c.msgs) \ {0}
PairsFit ==
  /\ \A f \in OnFile : FilePairs(f)
  /\ \A p \in Procs : \A c \in Running(p) :
       /\ CliPairs(c) /\ \A f \in OnFile : InStep(c, f)
       /\ \A q \in Procs \ {p} : \A d \in Running(q) : TurnApart(c, d)

\* A turn taken in the session's own file is wherever the path of a file or of
\* a process that has it was rotated from.
Heir(t, name) == ranIn[t].path = <<name>> /\ name \notin shared /\ t \notin gone
Below(x, y) == IsPrefix(y.path, x.path) =>
  \A t \in TurnsOf(x.msgs) : Heir(t, x.path[1]) => t \in TurnsOf(y.msgs)
Survives(t) == Heir(t, ranIn[t].path[1]) =>
  \E f \in OnFile : f.path[1] = ranIn[t].path[1] /\ t \in TurnsOf(f.msgs)
\* What a process wrote is there until the clean-up is over.
Stored(c) == c.pc = "clean" /\ Sole(c.path) =>
  (\E f \in OnFile : f.path = c.path) \/ TurnsOf(c.msgs) \subseteq gone
TurnsStay ==
  /\ \A f, g \in OnFile : Below(f, g)
  /\ \A p \in Procs : \A c \in Running(p) :
       Stored(c) /\ \A f \in OnFile : Below(c, f) /\ Below(f, c)
  /\ \A t \in done : Survives(t)
SessionInv == SessionFits /\ PairsFit /\ TurnsStay
LEMMA RangeOfAppend ==
  ASSUME NEW S, NEW seq \in Seq(S), NEW e \in S
  PROVE  /\ Append(seq, e) \in Seq(S)
         /\ Range(Append(seq, e)) = Range(seq) \cup {e}
<1>1. /\ Append(seq, e) \in Seq(S) /\ Len(Append(seq, e)) = Len(seq) + 1 /\ Len(seq) \in Nat
      /\ \A i \in 1..Len(seq) : Append(seq, e)[i] = seq[i]
      /\ Append(seq, e)[Len(seq) + 1] = e
  BY AppendProperties
<1>2. /\ DOMAIN Append(seq, e) = 1..Len(seq) + 1 /\ DOMAIN seq = 1..Len(seq)
  BY <1>1
<1> DEFINE longer == Append(seq, e)
<1> HIDE DEF longer
<1>3. /\ DOMAIN longer = 1..Len(seq) + 1 /\ longer[Len(seq) + 1] = e
      /\ \A i \in 1..Len(seq) : longer[i] = seq[i]
  BY <1>1, <1>2 DEF longer
<1>4. ASSUME NEW x \in Range(longer) PROVE x \in Range(seq) \cup {e}
  <2>1. PICK i \in 1..Len(seq) + 1 : x = longer[i]
    BY <1>3 DEF Range
  <2>2. CASE i = Len(seq) + 1
    BY <1>3, <2>1, <2>2
  <2>3. CASE i # Len(seq) + 1
    <3>1. i \in 1..Len(seq)
      BY <1>1, <2>3
    <3>2. QED BY <1>2, <1>3, <2>1, <3>1 DEF Range
  <2>4. QED BY <2>2, <2>3
<1>5. ASSUME NEW x \in Range(seq) PROVE x \in Range(longer)
  <2>1. PICK i \in 1..Len(seq) : x = seq[i]
    BY <1>2 DEF Range
  <2>2. i \in 1..Len(seq) + 1 /\ longer[i] = x
    BY <1>1, <1>3, <2>1
  <2>3. QED BY <1>3, <2>2 DEF Range
<1>6. e \in Range(longer)
  <2>1. Len(seq) + 1 \in 1..Len(seq) + 1
    BY <1>1
  <2>2. QED BY <1>3, <2>1 DEF Range
<1>7. QED BY <1>1, <1>4, <1>5, <1>6 DEF longer

\* No path has two files, and the directory operations keep it so.
OneFileEach(fs) == \A i, j \in DOMAIN fs : fs[i].path = fs[j].path => i = j

LEMMA AppendIsApart ==
  ASSUME NEW S, NEW fs \in Seq(S), NEW f \in S, OneFileEach(fs),
         \A g \in Range(fs) : g.path # f.path
  PROVE  OneFileEach(Append(fs, f))
<1>1. /\ Append(fs, f) \in Seq(S) /\ Len(Append(fs, f)) = Len(fs) + 1 /\ Len(fs) \in Nat
      /\ \A i \in 1..Len(fs) : Append(fs, f)[i] = fs[i]
      /\ Append(fs, f)[Len(fs) + 1] = f
  BY AppendProperties
<1>2. DOMAIN Append(fs, f) = 1..Len(fs) + 1 /\ DOMAIN fs = 1..Len(fs)
  BY <1>1
<1> DEFINE longer == Append(fs, f)
<1> HIDE DEF longer
<1>3. /\ DOMAIN longer = 1..Len(fs) + 1 /\ longer[Len(fs) + 1] = f
      /\ \A i \in 1..Len(fs) : longer[i] = fs[i] /\ longer[i].path # f.path
  BY <1>1, <1>2 DEF longer, Range
<1>4. ASSUME NEW i \in 1..Len(fs) + 1, NEW j \in 1..Len(fs) + 1, longer[i].path = longer[j].path
      PROVE  i = j
  <2>1. CASE i = Len(fs) + 1 \/ j = Len(fs) + 1
    <3>1. ASSUME NEW k \in 1..Len(fs) + 1, k # Len(fs) + 1 PROVE longer[k].path # f.path
      <4>1. k \in 1..Len(fs)
        BY <1>1, <3>1
      <4>2. QED BY <1>3, <4>1
    <3>2. QED BY <1>3, <1>4, <2>1, <3>1
  <2>2. CASE i # Len(fs) + 1 /\ j # Len(fs) + 1
    <3>1. i \in 1..Len(fs) /\ j \in 1..Len(fs)
      BY <1>1, <2>2
    <3>2. QED BY <1>2, <1>3, <1>4, <3>1 DEF OneFileEach
  <2>3. QED BY <2>1, <2>2
<1>5. QED BY <1>3, <1>4 DEF OneFileEach, longer

\* What the recursion in OfPaths stands for, as the relation between its values.
Chosen(fs, paths, kept, n) ==
  /\ kept \in [0..n -> Seq(Range(fs))] /\ kept[0] = <<>>
  /\ \A i \in 1..n :
       kept[i] = IF fs[i].path \in paths THEN Append(kept[i - 1], fs[i]) ELSE kept[i - 1]

\* It has a value for sequences of every length.
LEMMA ChosenExists ==
  ASSUME NEW S, NEW fs \in Seq(S), NEW paths, NEW n \in 0..Len(fs)
  PROVE  \E kept : Chosen(fs, paths, kept, n)
<1> DEFINE T == {m \in Nat : m <= n /\ ~\E kept : Chosen(fs, paths, kept, m)}
<1>0. Len(fs) \in Nat /\ \A i \in 1..Len(fs) : fs[i] \in Range(fs)
  BY DEF Range
<1>1. SUFFICES ASSUME T # {} PROVE FALSE
  <2>1. n \in Nat /\ (n \notin T => \E kept : Chosen(fs, paths, kept, n))
    BY <1>0
  <2>2. QED BY <2>1
<1>2. PICK m \in T : \A k \in T : ~(k < m)
  <2>1. PICK m \in T : \A k \in T : ~(<<k, m>> \in OpToRel(<, Nat))
    BY <1>1, WFMin, NatLessThanWellFounded, Zenon
  <2>2. QED BY <2>1 DEF OpToRel
<1>3. m # 0
  <2>1. Chosen(fs, paths, [i \in 0..0 |-> <<>>], 0)
    BY DEF Chosen
  <2>2. QED BY <2>1
<1>4. PICK kept : Chosen(fs, paths, kept, m - 1)
  <2>1. m - 1 \notin T /\ m - 1 \in Nat /\ m - 1 <= n
    BY <1>2, <1>3
  <2>2. QED BY <2>1
<1> DEFINE next == [i \in 0..m |->
                      IF i < m THEN kept[i]
                      ELSE IF fs[m].path \in paths THEN Append(kept[m - 1], fs[m])
                      ELSE kept[m - 1]]
<1>5. Chosen(fs, paths, next, m)
  <2>1. m \in 1..Len(fs) /\ m - 1 \in 0..m - 1 /\ kept[m - 1] \in Seq(Range(fs))
    BY <1>0, <1>3, <1>4 DEF Chosen
  <2>2. Append(kept[m - 1], fs[m]) \in Seq(Range(fs))
    BY <1>0, <2>1
  <2>3. next \in [0..m -> Seq(Range(fs))]
    BY <1>4, <2>1, <2>2 DEF Chosen
  <2>4. next[0] = <<>> /\ \A i \in 0..m - 1 : next[i] = kept[i]
    BY <1>3, <1>4 DEF Chosen
  <2>5. ASSUME NEW i \in 1..m
        PROVE  next[i] = IF fs[i].path \in paths THEN Append(next[i - 1], fs[i]) ELSE next[i - 1]
    <3>1. CASE i = m
      <4>1. i - 1 \in 0..m - 1
        BY <2>1, <3>1
      <4>2. QED BY <2>1, <2>4, <3>1, <4>1
    <3>2. CASE i # m
      <4>1. i \in 1..m - 1 /\ i \in 0..m - 1 /\ i - 1 \in 0..m - 1
        BY <2>1, <3>2
      <4>2. kept[i] = IF fs[i].path \in paths THEN Append(kept[i - 1], fs[i]) ELSE kept[i - 1]
        BY <1>4, <4>1 DEF Chosen
      <4>3. QED BY <2>4, <4>1, <4>2
    <3>3. QED BY <3>1, <3>2
  <2>6. QED BY <2>3, <2>4, <2>5 DEF Chosen
<1>6. QED BY <1>5

LEMMA OfPathsIs ==
  ASSUME NEW S, NEW fs \in Seq(S), NEW paths
  PROVE  /\ OfPaths(fs, paths) \in Seq(S)
         /\ Range(OfPaths(fs, paths)) = {f \in Range(fs) : f.path \in paths}
         /\ OneFileEach(fs) => OneFileEach(OfPaths(fs, paths))
<1> DEFINE N == Len(fs)
           Step(kept) == [n \in 0..N |->
             IF n = 0 THEN <<>>
             ELSE IF fs[n].path \in paths THEN Append(kept[n - 1], fs[n]) ELSE kept[n - 1]]
           all == CHOOSE kept : kept = Step(kept)
<1>1. N \in Nat /\ Range(fs) \subseteq S
  BY DEF Range
<1>2. OfPaths(fs, paths) = all[N]
  BY DEF OfPaths
<1>3. \E kept : kept = Step(kept)
  <2>1. PICK kept : Chosen(fs, paths, kept, N)
    <3>1. N \in 0..Len(fs)
      BY <1>1
    <3>2. QED BY <3>1, ChosenExists
  <2>2. kept = Step(kept)
    <3>1. kept = [n \in 0..N |-> kept[n]]
      BY <2>1 DEF Chosen
    <3>2. ASSUME NEW n \in 0..N PROVE kept[n] = Step(kept)[n]
      <4>1. CASE n = 0
        BY <2>1, <4>1 DEF Chosen
      <4>2. CASE n # 0
        <5>1. n \in 1..N
          BY <1>1, <4>2
        <5>2. QED BY <2>1, <4>2, <5>1 DEF Chosen
      <4>3. QED BY <4>1, <4>2
    <3>3. QED BY <3>1, <3>2
  <2>3. QED BY <2>2
<1>4. all = Step(all)
  BY <1>3
<1>5. DOMAIN all = 0..N /\ all[0] = <<>>
      /\ \A n \in 1..N :
           all[n] = IF fs[n].path \in paths THEN Append(all[n - 1], fs[n]) ELSE all[n - 1]
  <2> HIDE DEF all
  <2>1. DOMAIN Step(all) = 0..N
    OBVIOUS
  <2>2. Step(all)[0] = <<>>
    BY <1>1
  <2>3. ASSUME NEW n \in 1..N
        PROVE  Step(all)[n] =
                 IF fs[n].path \in paths THEN Append(all[n - 1], fs[n]) ELSE all[n - 1]
    <3>1. n \in 0..N /\ n # 0
      BY <1>1
    <3>2. QED BY <3>1
  <2> HIDE DEF Step
  <2>4. QED BY <1>4, <2>1, <2>2, <2>3
<1> HIDE DEF all, Step
<1> DEFINE Good(n) == /\ all[n] \in Seq(S)
                      /\ Range(all[n]) = {fs[i] : i \in {j \in 1..n : fs[j].path \in paths}}
                      /\ OneFileEach(fs) => OneFileEach(all[n])
           T == {m \in Nat : m <= N /\ ~Good(m)}
<1>6. T = {}
  <2>1. SUFFICES ASSUME T # {} PROVE FALSE
    OBVIOUS
  <2>2. PICK m \in T : \A k \in T : ~(k < m)
    <3>1. PICK m \in T : \A k \in T : ~(<<k, m>> \in OpToRel(<, Nat))
      BY <2>1, WFMin, NatLessThanWellFounded, Zenon
    <3>2. QED BY <3>1 DEF OpToRel
  <2>3. m # 0
    <3>1. Good(0)
      <4>1. all[0] \in Seq(S) /\ Range(all[0]) = {}
        BY <1>5 DEF Range
      <4>2. OneFileEach(all[0])
        BY <1>5 DEF OneFileEach
      <4>3. {fs[i] : i \in {j \in 1..0 : fs[j].path \in paths}} = {}
        OBVIOUS
      <4>4. QED BY <4>1, <4>2, <4>3
    <3>2. QED BY <3>1
  <2>4. m - 1 \in Nat /\ Good(m - 1) /\ m \in 1..N
    <3>1. m - 1 \in Nat /\ m - 1 <= N /\ m \in 1..N /\ m - 1 < m
      BY <1>1, <2>2, <2>3
    <3>2. m - 1 \notin T
      BY <2>2, <3>1
    <3>3. QED BY <3>1, <3>2
  <2>5. Good(m)
    <3>1. CASE fs[m].path \in paths
      <4>1. all[m] = Append(all[m - 1], fs[m]) /\ all[m - 1] \in Seq(S) /\ fs[m] \in S
        <5>1. fs[m] \in S
          BY <2>4
        <5>2. all[m] = Append(all[m - 1], fs[m])
          BY <1>5, <2>4, <3>1
        <5>3. QED BY <2>4, <5>1, <5>2
      <4>2. all[m] \in Seq(S) /\ Range(all[m]) = Range(all[m - 1]) \cup {fs[m]}
        BY <4>1, RangeOfAppend
      <4>3. {j \in 1..m : fs[j].path \in paths} = {j \in 1..m - 1 : fs[j].path \in paths} \cup {m}
        BY <2>4, <3>1
      <4>4. ASSUME OneFileEach(fs) PROVE OneFileEach(all[m])
        <5>1. ASSUME NEW g \in Range(all[m - 1]) PROVE g.path # fs[m].path
          <6>1. PICK i \in 1..m - 1 : g = fs[i]
            BY <2>4, <5>1
          <6>2. i \in DOMAIN fs /\ m \in DOMAIN fs /\ i # m
            BY <1>1, <2>4, <6>1
          <6>3. QED BY <4>4, <6>1, <6>2 DEF OneFileEach
        <5>2. OneFileEach(all[m - 1])
          BY <2>4, <4>4
        <5>3. OneFileEach(Append(all[m - 1], fs[m]))
          BY <4>1, <5>1, <5>2, AppendIsApart
        <5>4. QED BY <4>1, <5>3
      <4>5. QED BY <2>4, <4>2, <4>3, <4>4
    <3>2. CASE fs[m].path \notin paths
      <4>1. all[m] = all[m - 1]
        BY <1>5, <2>4, <3>2
      <4>2. {j \in 1..m : fs[j].path \in paths} = {j \in 1..m - 1 : fs[j].path \in paths}
        BY <2>4, <3>2
      <4>3. QED BY <2>4, <4>1, <4>2
    <3>3. QED BY <3>1, <3>2
  <2>6. QED BY <2>5
<1>7. Good(N)
  <2>1. N \notin T
    BY <1>6
  <2>2. QED BY <1>1, <2>1
<1>8. {fs[i] : i \in {j \in 1..N : fs[j].path \in paths}} = {f \in Range(fs) : f.path \in paths}
  BY DEF Range
<1>9. QED BY <1>2, <1>7, <1>8

LEMMA PathsOfRange ==
  ASSUME NEW S, NEW fs \in Seq(S)
  PROVE  /\ Paths(fs) = {f.path : f \in Range(fs)} /\ Range(fs) \subseteq S
  BY DEF Paths, Range

LEMMA WithoutIs ==
  ASSUME NEW S, NEW fs \in Seq(S), NEW gonePaths
  PROVE  /\ Without(fs, gonePaths) \in Seq(S)
         /\ Range(Without(fs, gonePaths)) = {f \in Range(fs) : f.path \notin gonePaths}
<1>1. /\ OfPaths(fs, Paths(fs) \ gonePaths) \in Seq(S)
      /\ Range(OfPaths(fs, Paths(fs) \ gonePaths)) =
           {f \in Range(fs) : f.path \in Paths(fs) \ gonePaths}
  BY OfPathsIs
<1>2. \A f \in Range(fs) : f.path \in Paths(fs)
  BY PathsOfRange
<1>3. QED BY <1>1, <1>2 DEF Without

LEMMA WrittenIs ==
  ASSUME NEW S, NEW fs \in Seq(S), NEW file \in S
  PROVE  /\ Written(fs, file) \in Seq(S)
         /\ Range(Written(fs, file)) = {f \in Range(fs) : f.path # file.path} \cup {file}
<1> DEFINE rest == Without(fs, {file.path})
<1>1. rest \in Seq(S) /\ Range(rest) = {f \in Range(fs) : f.path \notin {file.path}}
  BY WithoutIs
<1> HIDE DEF rest
<1>2. Append(rest, file) \in Seq(S) /\ Range(Append(rest, file)) = Range(rest) \cup {file}
  BY <1>1, RangeOfAppend
<1>3. QED BY <1>1, <1>2 DEF Written, rest

\* A clean-up removes nothing but logs of the path.
LEMMA CleanedIs ==
  ASSUME NEW S, NEW fs \in Seq(S), NEW path
  PROVE  /\ Cleaned(fs, path) \in Seq(S) /\ Range(Cleaned(fs, path)) \subseteq Range(fs)
         /\ \A f \in Range(fs) : ~IsStrictPrefix(path, f.path) => f \in Range(Cleaned(fs, path))
<1> DEFINE logs == OfPaths(fs, {q \in Paths(fs) : IsStrictPrefix(path, q)})
           old == {logs[i].path : i \in 1..(Len(logs) - MaxRotatedFiles)}
<1>1. /\ logs \in Seq(S)
      /\ Range(logs) =
           {f \in Range(fs) : f.path \in {q \in Paths(fs) : IsStrictPrefix(path, q)}}
  BY OfPathsIs
<1>2. Cleaned(fs, path) = Without(fs, old)
  BY DEF Cleaned
<1> HIDE DEF logs
<1>3. ASSUME NEW q \in old PROVE IsStrictPrefix(path, q)
  <2>1. PICK i \in 1..(Len(logs) - MaxRotatedFiles) : q = logs[i].path
    OBVIOUS
  <2>2. i \in DOMAIN logs
    BY <1>1, SessionAssumption
  <2>3. logs[i] \in Range(logs)
    BY <2>2 DEF Range
  <2>4. QED BY <1>1, <2>1, <2>3
<1> HIDE DEF old
<1>4. /\ Without(fs, old) \in Seq(S)
      /\ Range(Without(fs, old)) = {f \in Range(fs) : f.path \notin old}
  BY WithoutIs
<1>5. QED BY <1>2, <1>3, <1>4

LEMMA RotatedIs ==
  ASSUME NEW fs \in Seq(FileTypes), NEW path \in PathTypes, NEW n \in Nat
  PROVE  /\ Rotated(fs, path, n) \in Seq(FileTypes) /\ Append(path, n) \in PathTypes
         /\ Range(Rotated(fs, path, n)) =
              {f \in Range(fs) : f.path # path} \cup
              {[f EXCEPT !.path = Append(path, n)] : f \in {g \in Range(fs) : g.path = path}}
<1>1. Append(path, n) \in PathTypes
  <2>1. path \in Seq(Names \cup Nat) /\ path # <<>> /\ path[1] \in Names /\ Len(path) \in Nat
    BY DEF PathTypes
  <2>2. /\ Append(path, n) \in Seq(Names \cup Nat) /\ Append(path, n) # <<>>
        /\ 1 \in 1..Len(path) => Append(path, n)[1] = path[1]
    BY <2>1, AppendProperties
  <2>3. 1 \in 1..Len(path)
    BY <2>1
  <2>4. QED BY <2>1, <2>2, <2>3 DEF PathTypes
<1> DEFINE moved(f) == IF f.path = path THEN [f EXCEPT !.path = Append(path, n)] ELSE f
<1>2. ASSUME NEW f \in FileTypes PROVE moved(f) \in FileTypes
  BY <1>1 DEF FileTypes
<1>3. Rotated(fs, path, n) = [i \in 1..Len(fs) |-> moved(fs[i])] /\ Len(fs) \in Nat
  BY DEF Rotated
<1>4. \A i \in 1..Len(fs) : fs[i] \in FileTypes
  OBVIOUS
<1>5. Rotated(fs, path, n) \in Seq(FileTypes)
  <2> HIDE DEF moved
  <2> QED BY <1>2, <1>3, <1>4
<1>6. Range(Rotated(fs, path, n)) = {moved(f) : f \in Range(fs)}
  <2> HIDE DEF moved
  <2> QED BY <1>3 DEF Range
<1>7. QED BY <1>1, <1>5, <1>6

LEMMA AtIs ==
  ASSUME NEW S, NEW fs \in Seq(S), NEW path \in Paths(fs)
  PROVE  At(fs, path) \in Range(fs) /\ At(fs, path).path = path
<1>1. \E i \in DOMAIN fs : fs[i].path = path
  BY DEF Paths
<1>2. QED BY <1>1 DEF At, Range

\* A message that is pushed ends up in the file, which is written whole when it
\* is missing and is left as it is when its last line is torn.
Lands(fs, left, c, m) == \E g \in FileTypes :
  /\ g.path = c.log /\ g \in Range(left)
  /\ Range(left) \subseteq {f \in Range(fs) : f.path # c.log} \cup {g}
  /\ \A f \in Range(fs) :
       f.path # c.log /\ (IsStrictPrefix(c.log, f.path) => c.log \in Paths(fs))
         => f \in Range(left)
  /\ \/ c.log \notin Paths(fs) /\ g = File(c.log, c.id, Append(c.msgs, m), c.compacted)
     \/ \E f \in Range(fs) :
          /\ f.path = c.log /\ c.log \in Paths(fs)
          /\ g = IF f.torn THEN f ELSE [f EXCEPT !.msgs = Append(f.msgs, m)]
LEMMA AppendedIs ==
  ASSUME NEW fs \in Seq(FileTypes), NEW c \in CliTypes, NEW m \in Messages,
         c.log \in PathTypes, c.id \in Names
  PROVE  /\ Appended(fs, c, Append(c.msgs, m)) \in Seq(FileTypes)
         /\ Lands(fs, Appended(fs, c, Append(c.msgs, m)), c, m)
<1> DEFINE msgs == Append(c.msgs, m)
<1>1. msgs \in Seq(Messages) /\ Last(msgs) = m
  <2>1. c.msgs \in Seq(Messages)
    BY DEF CliTypes
  <2>2. msgs \in Seq(Messages) /\ Len(msgs) = Len(c.msgs) + 1 /\ msgs[Len(c.msgs) + 1] = m
    BY <2>1, AppendProperties
  <2>3. QED BY <2>2 DEF Last
<1> HIDE DEF msgs
<1>2. CASE c.log \notin Paths(fs)
  <2> DEFINE g == File(c.log, c.id, msgs, c.compacted)
             w == Written(fs, g)
  <2>1. g \in FileTypes /\ g.path = c.log
    BY <1>1 DEF File, FileTypes, CliTypes
  <2> HIDE DEF g
  <2>2. w \in Seq(FileTypes) /\ Range(w) = {f \in Range(fs) : f.path # c.log} \cup {g}
    BY <2>1, WrittenIs
  <2> HIDE DEF w
  <2>3. /\ Cleaned(w, c.log) \in Seq(FileTypes) /\ Range(Cleaned(w, c.log)) \subseteq Range(w)
        /\ \A f \in Range(w) : ~IsStrictPrefix(c.log, f.path) => f \in Range(Cleaned(w, c.log))
    BY <2>2, CleanedIs
  <2>4. Appended(fs, c, msgs) = Cleaned(w, c.log)
    BY <1>2 DEF Appended, w, g
  <2>5. ~IsStrictPrefix(c.log, g.path)
    BY <2>1 DEF IsStrictPrefix
  <2>6. QED BY <1>2, <2>1, <2>2, <2>3, <2>4, <2>5 DEF msgs, g, Lands
<1>3. CASE c.log \in Paths(fs)
  <2> DEFINE f0 == At(fs, c.log)
             g == IF f0.torn THEN f0 ELSE [f0 EXCEPT !.msgs = Append(f0.msgs, m)]
  <2>1. f0 \in Range(fs) /\ f0.path = c.log /\ f0 \in FileTypes
    BY <1>3, AtIs, PathsOfRange
  <2>2. Appended(fs, c, msgs) = Written(fs, g)
    BY <1>1, <1>3 DEF Appended
  <2> HIDE DEF f0
  <2>3. g \in FileTypes /\ g.path = c.log
    <3>1. f0.msgs \in Seq(Messages)
      BY <2>1 DEF FileTypes
    <3>2. Append(f0.msgs, m) \in Seq(Messages)
      BY <3>1, AppendProperties
    <3>3. QED BY <2>1, <3>2 DEF FileTypes
  <2>4. /\ Written(fs, g) \in Seq(FileTypes)
        /\ Range(Written(fs, g)) = {f \in Range(fs) : f.path # c.log} \cup {g}
    <3> HIDE DEF g
    <3> QED BY <2>3, WrittenIs
  <2>5. QED BY <1>3, <2>1, <2>2, <2>3, <2>4 DEF msgs, Lands
<1>4. QED BY <1>2, <1>3

(***************************************************************************)
(* Messages                                                                *)
(***************************************************************************)
LEMMA TurnsOfAppend ==
  ASSUME NEW msgs \in Seq(Messages), NEW m \in Messages
  PROVE  TurnsOf(Append(msgs, m)) = TurnsOf(msgs) \cup m.turns
<1>1. Range(Append(msgs, m)) = Range(msgs) \cup {m}
  BY RangeOfAppend
<1>2. \A w : TurnsOf(w) = UNION {x.turns : x \in Range(w)}
  BY DEF TurnsOf, Range
<1>3. TurnsOf(Append(msgs, m)) = UNION {x.turns : x \in Range(msgs) \cup {m}}
  BY <1>1, <1>2
<1>4. QED BY <1>2, <1>3

\* What a message more does to the pairs before it.
LEMMA PairsOfAppend ==
  ASSUME NEW msgs \in Seq(Messages), NEW m \in Messages
  PROVE  LET n == Len(msgs) + 1
             w == Append(msgs, m)
         IN /\ \A i \in DOMAIN msgs : FollowsItsCall(msgs, i) => FollowsItsCall(w, i)
            /\ \A i \in DOMAIN msgs : \A u : Answered(msgs, i, u) => Answered(w, i, u)
            /\ m.role = "tool" => \A i \in DOMAIN msgs : \A u \in m.uses : Answered(w, i, u)
            /\ Follows(msgs) /\ (m.role = "tool" => FollowsItsCall(w, n)) => Follows(w)
            /\ \A t : Closed(msgs, t) /\ (m.role = "assistant" => \A u \in m.uses : u[1] # t)
                 => Closed(w, t)
<1> DEFINE n == Len(msgs) + 1
           w == Append(msgs, m)
<1>1. /\ Len(msgs) \in Nat /\ Len(w) = n /\ DOMAIN w = 1..n /\ DOMAIN msgs = 1..Len(msgs)
      /\ w[n] = m /\ \A i \in 1..Len(msgs) : w[i] = msgs[i]
  BY AppendProperties, LenProperties
<1> HIDE DEF n, w
<1>2. n = Len(msgs) + 1
  BY DEF n
<1>3. ASSUME NEW i \in DOMAIN msgs, FollowsItsCall(msgs, i) PROVE FollowsItsCall(w, i)
  BY <1>1, <1>3 DEF FollowsItsCall
<1>4. ASSUME NEW i \in DOMAIN msgs, NEW u, Answered(msgs, i, u) PROVE Answered(w, i, u)
  BY <1>1, <1>2, <1>4 DEF Answered
<1>5. ASSUME NEW i \in DOMAIN msgs, NEW u \in m.uses, m.role = "tool" PROVE Answered(w, i, u)
  <2>1. n \in (i + 1)..Len(w)
    BY <1>1, <1>2
  <2>2. QED BY <1>1, <1>5, <2>1 DEF Answered
<1>6. ASSUME NEW i \in DOMAIN w, i # n PROVE i \in DOMAIN msgs /\ w[i] = msgs[i]
  <2>1. i \in 1..Len(msgs)
    BY <1>1, <1>2, <1>6
  <2>2. QED BY <1>1, <2>1
<1>7. Follows(msgs) /\ (m.role = "tool" => FollowsItsCall(w, n)) => Follows(w)
  BY <1>1, <1>3, <1>6 DEF Follows
<1>8. ASSUME NEW t, Closed(msgs, t), m.role = "assistant" => \A u \in m.uses : u[1] # t
      PROVE  Closed(w, t)
  <2> SUFFICES ASSUME NEW i \in DOMAIN w, w[i].role = "assistant", NEW u \in w[i].uses, u[1] = t
               PROVE  Answered(w, i, u)
    BY DEF Closed
  <2>1. i # n
    BY <1>1, <1>8
  <2>2. QED BY <1>4, <1>6, <1>8, <2>1 DEF Closed
<1>9. QED BY <1>3, <1>4, <1>5, <1>7, <1>8 DEF n, w

\* Messages before the last: what they say stays, and new ones are told apart.
LEMMA FitOfAppend ==
  ASSUME NEW msgs \in Seq(Messages), NEW m \in Messages, NEW n,
         MessagesFit(msgs, n), m.turns \subseteq 1..n, \A u \in m.uses : u[1] \in m.turns
  PROVE  MessagesFit(Append(msgs, m), n)
<1>1. TurnsOf(Append(msgs, m)) = TurnsOf(msgs) \cup m.turns
  BY TurnsOfAppend
<1>2. Range(Append(msgs, m)) = Range(msgs) \cup {m}
  BY RangeOfAppend
<1>3. \A x \in Range(msgs) \cup {m} : \A u \in x.uses : u[1] \in x.turns
  BY DEF MessagesFit, Range
<1>4. \A i \in DOMAIN Append(msgs, m) : Append(msgs, m)[i] \in Range(Append(msgs, m))
  BY DEF Range
<1>5. QED BY <1>1, <1>2, <1>3, <1>4 DEF MessagesFit

\* Messages with nothing of a turn have no call of it.
LEMMA ClosedWithout ==
  ASSUME NEW msgs, NEW t, t \notin TurnsOf(msgs),
         \A i \in DOMAIN msgs : \A u \in msgs[i].uses : u[1] \in msgs[i].turns
  PROVE  Closed(msgs, t)
  BY DEF Closed, TurnsOf

(***************************************************************************)
(* compact_session                                                         *)
(***************************************************************************)
\* Where the messages kept begin: never between a call and its answer.
LEMMA KeepFromIs ==
  ASSUME NEW msgs \in Seq(Messages), ShouldCompact(msgs)
  PROVE  /\ KeepFrom(msgs) \in Prefix(msgs)..(Len(msgs) - PreserveRecent)
         /\ KeepFrom(msgs) = Prefix(msgs) \/ msgs[KeepFrom(msgs) + 1].role # "tool"
<1> DEFINE raw == Len(msgs) - PreserveRecent
           first == Prefix(msgs)
           Right(k) == /\ k = first \/ msgs[k + 1].role # "tool"
                       /\ \A j \in k + 1..raw : msgs[j + 1].role = "tool"
           T == {k \in Nat : k \in first..raw /\ \A j \in k + 1..raw : msgs[j + 1].role = "tool"}
<1>1. Len(msgs) \in Nat /\ first \in {0, 1} /\ raw \in Nat /\ first < raw
  <2>1. Len(msgs) \in Nat /\ PreserveRecent \in Nat /\ first \in {0, 1}
    BY SessionAssumption DEF Prefix
  <2>2. Len(msgs) - first > PreserveRecent
    BY DEF ShouldCompact
  <2>3. QED BY <2>1, <2>2
<1> HIDE DEF first, raw
<1>2. raw \in T
  BY <1>1
<1>3. PICK k \in T : \A j \in T : ~(j < k)
  <2>1. PICK k \in T : \A j \in T : ~(<<j, k>> \in OpToRel(<, Nat))
    <3>1. T # {} /\ T \subseteq Nat
      BY <1>2
    <3> HIDE DEF T
    <3>2. QED BY <3>1, WFMin, NatLessThanWellFounded, Zenon
  <2>2. QED BY <2>1 DEF OpToRel
<1>4. k \in first..raw /\ Right(k)
  <2>1. SUFFICES ASSUME k # first, msgs[k + 1].role = "tool" PROVE FALSE
    BY <1>3
  <2>2. k - 1 \in first..raw /\ k - 1 \in Nat /\ k - 1 < k
    BY <1>1, <1>3, <2>1
  <2>3. ASSUME NEW j \in (k - 1) + 1..raw PROVE msgs[j + 1].role = "tool"
    <3>1. j = k \/ j \in k + 1..raw
      BY <1>1, <1>3
    <3>2. QED BY <1>3, <2>1, <3>1
  <2>4. k - 1 \in T
    BY <2>2, <2>3
  <2>5. QED BY <1>3, <2>2, <2>4
<1>5. KeepFrom(msgs) = CHOOSE j \in first..raw : Right(j)
  BY DEF KeepFrom, first, raw
<1>6. KeepFrom(msgs) \in first..raw /\ Right(KeepFrom(msgs))
  <2> HIDE DEF Right
  <2> QED BY <1>4, <1>5
<1>7. QED BY <1>6 DEF first, raw

\* The summary has the turns of what it stands for, and no call loses its answer.
LEMMA CompactedIs ==
  ASSUME NEW msgs \in Seq(Messages), ShouldCompact(msgs)
  PROVE  /\ Compacted(msgs) \in Seq(Messages)
         /\ TurnsOf(Compacted(msgs)) = TurnsOf(msgs)
         /\ \A last : MessagesFit(msgs, last) => MessagesFit(Compacted(msgs), last)
         /\ Follows(msgs) => Follows(Compacted(msgs))
         /\ \A t : Closed(msgs, t) => Closed(Compacted(msgs), t)
<1> DEFINE k == KeepFrom(msgs)
           n == Len(msgs)
           head == Message("system", TurnsOf(SubSeq(msgs, 1, k)), {})
           tail == SubSeq(msgs, k + 1, n)
           w == <<head>> \o tail
<1>1. /\ n \in Nat /\ Prefix(msgs) \in {0, 1} /\ k \in Nat /\ Prefix(msgs) <= k /\ k < n
      /\ k = Prefix(msgs) \/ msgs[k + 1].role # "tool"
  <2>1. n \in Nat /\ PreserveRecent \in Nat /\ PreserveRecent > 0 /\ Prefix(msgs) \in {0, 1}
    BY SessionAssumption DEF Prefix
  <2>2. QED BY <2>1, KeepFromIs
<1>2. Compacted(msgs) = w
  BY DEF Compacted
<1> HIDE DEF k
<1>3. /\ SubSeq(msgs, 1, k) \in Seq(Messages) /\ Len(SubSeq(msgs, 1, k)) = k
      /\ \A i \in 1..k : SubSeq(msgs, 1, k)[i] = msgs[i]
  <2>1. \A i \in 1..k : msgs[i] \in Messages
    BY <1>1
  <2>2. k - 1 + 1 = k /\ (IF 1 <= k THEN k - 1 + 1 ELSE 0) = k /\ \A i \in 1..k : 1 + i - 1 = i
    BY <1>1
  <2>3. QED BY <1>1, <2>1, <2>2, SubSeqProperties
<1>4. /\ tail \in Seq(Messages) /\ Len(tail) = n - k
      /\ \A i \in 1..n - k : tail[i] = msgs[k + i]
  <2>1. \A i \in k + 1..n : msgs[i] \in Messages
    BY <1>1
  <2>2. /\ n - (k + 1) + 1 = n - k
        /\ (IF k + 1 <= n THEN n - (k + 1) + 1 ELSE 0) = n - k
        /\ \A i \in 1..n - k : (k + 1) + i - 1 = k + i
    BY <1>1
  <2>3. /\ tail \in Seq(Messages) /\ Len(tail) = IF k + 1 <= n THEN n - (k + 1) + 1 ELSE 0
        /\ \A i \in 1..n - (k + 1) + 1 : tail[i] = msgs[(k + 1) + i - 1]
    <3>1. k + 1 \in Int /\ n \in Int
      BY <1>1
    <3>2. QED BY <2>1, <3>1, SubSeqProperties
  <2>4. QED
    <3> HIDE DEF tail
    <3> QED BY <2>2, <2>3
<1>5. head \in Messages /\ head.role = "system" /\ head.uses = {}
      /\ head.turns = TurnsOf(SubSeq(msgs, 1, k))
  <2>1. TurnsOf(SubSeq(msgs, 1, k)) \subseteq Turns
    BY <1>3 DEF TurnsOf, Messages
  <2>2. QED BY <2>1 DEF Message, Messages
<1> HIDE DEF n, tail, head
<1>6. /\ w \in Seq(Messages) /\ Len(w) = n - k + 1 /\ w[1] = head
      /\ \A i \in 1..n - k : w[i + 1] = msgs[k + i]
  <2>1. <<head>> \in Seq(Messages) /\ Len(<<head>>) = 1 /\ <<head>>[1] = head
    BY <1>5
  <2>2. /\ w \in Seq(Messages) /\ Len(w) = 1 + (n - k)
        /\ \A i \in 1..1 + (n - k) : w[i] = IF i <= 1 THEN <<head>>[i] ELSE tail[i - 1]
    BY <1>4, <2>1, ConcatProperties
  <2>3. w[1] = head
    <3>1. 1 \in 1..1 + (n - k) /\ 1 <= 1
      BY <1>1
    <3> HIDE DEF w
    <3>2. QED BY <2>1, <2>2, <3>1
  <2>4. ASSUME NEW i \in 1..n - k PROVE w[i + 1] = msgs[k + i]
    <3>1. i + 1 \in 1..1 + (n - k) /\ ~(i + 1 <= 1) /\ (i + 1) - 1 = i
      BY <1>1
    <3>2. w[i + 1] = tail[i]
      BY <2>2, <3>1
    <3>3. QED BY <1>4, <3>2
  <2>5. Len(w) = n - k + 1
    BY <1>1, <2>2
  <2> HIDE DEF w
  <2>6. QED BY <2>2, <2>3, <2>4, <2>5
<1> HIDE DEF w
<1>7. DOMAIN msgs = 1..n /\ DOMAIN w = 1..n - k + 1
  BY <1>6 DEF n
\* Past the summary, place i of the new messages is place k + i - 1 of the old.
<1>8. ASSUME NEW i \in DOMAIN w, i # 1
      PROVE  k + i - 1 \in DOMAIN msgs /\ k + i - 1 > k /\ w[i] = msgs[k + i - 1]
  <2>1. i - 1 \in 1..n - k /\ (i - 1) + 1 = i /\ k + (i - 1) = k + i - 1
    BY <1>1, <1>7, <1>8
  <2>2. w[i] = msgs[k + i - 1]
    BY <1>6, <2>1
  <2>3. QED BY <1>1, <1>7, <2>1, <2>2
<1>9. ASSUME NEW j \in DOMAIN msgs, j > k
      PROVE  j - k + 1 \in DOMAIN w /\ j - k + 1 # 1 /\ w[j - k + 1] = msgs[j]
  <2>1. j - k \in 1..n - k /\ k + (j - k) = j
    BY <1>1, <1>7, <1>9
  <2>2. w[j - k + 1] = msgs[j]
    BY <1>6, <2>1
  <2>3. QED BY <1>1, <1>7, <2>1, <2>2
<1>10. TurnsOf(w) = TurnsOf(msgs)
  <2>1. ASSUME NEW t \in TurnsOf(w) PROVE t \in TurnsOf(msgs)
    <3>1. PICK i \in DOMAIN w : t \in w[i].turns
      BY DEF TurnsOf
    <3>2. CASE i = 1
      <4>1. t \in TurnsOf(SubSeq(msgs, 1, k))
        BY <1>5, <1>6, <3>1, <3>2
      <4>2. PICK j \in 1..k : t \in msgs[j].turns
        BY <1>3, <4>1 DEF TurnsOf
      <4>3. j \in DOMAIN msgs
        BY <1>1, <1>7
      <4>4. QED BY <4>2, <4>3 DEF TurnsOf
    <3>3. CASE i # 1
      BY <1>8, <3>1, <3>3 DEF TurnsOf
    <3>4. QED BY <3>2, <3>3
  <2>2. ASSUME NEW t \in TurnsOf(msgs) PROVE t \in TurnsOf(w)
    <3>1. PICK j \in DOMAIN msgs : t \in msgs[j].turns
      BY DEF TurnsOf
    <3>2. CASE j > k
      BY <1>9, <3>1, <3>2 DEF TurnsOf
    <3>3. CASE ~(j > k)
      <4>1. j \in 1..k
        BY <1>1, <1>7, <3>3
      <4>2. j \in DOMAIN SubSeq(msgs, 1, k) /\ SubSeq(msgs, 1, k)[j] = msgs[j]
        BY <1>3, <4>1
      <4>3. t \in head.turns
        BY <1>5, <3>1, <4>2 DEF TurnsOf
      <4>4. 1 \in DOMAIN w
        BY <1>1, <1>7
      <4>5. QED BY <1>6, <4>3, <4>4 DEF TurnsOf
    <3>4. QED BY <3>2, <3>3
  <2>3. QED BY <2>1, <2>2
<1>11. ASSUME NEW last, MessagesFit(msgs, last) PROVE MessagesFit(w, last)
  <2> SUFFICES ASSUME NEW i \in DOMAIN w, NEW u \in w[i].uses
               PROVE  u[1] \in w[i].turns
    BY <1>10, <1>11 DEF MessagesFit
  <2>1. i # 1
    BY <1>5, <1>6
  <2>2. QED BY <1>8, <1>11, <2>1 DEF MessagesFit
<1>12. ASSUME Follows(msgs) PROVE Follows(w)
  <2> SUFFICES ASSUME NEW i \in DOMAIN w, w[i].role = "tool" PROVE FollowsItsCall(w, i)
    BY DEF Follows
  <2>1. i # 1 /\ i \in Nat /\ i > 1
    <3>1. i # 1
      BY <1>5, <1>6
    <3>2. QED BY <1>1, <1>7, <3>1
  <2> DEFINE a == k + i - 1
  <2>2. a \in DOMAIN msgs /\ a > k /\ w[i] = msgs[a] /\ a \in Nat
    BY <1>1, <1>8, <2>1
  <2>3. PICK j \in 1..a - 1 : /\ msgs[j].role = "assistant" /\ msgs[a].uses \subseteq msgs[j].uses
                              /\ \A b \in j + 1..a - 1 : msgs[b].role = "tool"
    <3>1. FollowsItsCall(msgs, a)
      BY <1>12, <2>2 DEF Follows
    <3>2. QED BY <3>1 DEF FollowsItsCall
  <2>4. j > k
    <3>1. SUFFICES ASSUME j <= k PROVE FALSE
      BY <1>1, <2>2
    <3>2. msgs[k + 1].role = "tool"
      <4>1. k + 1 = a \/ k + 1 \in j + 1..a - 1
        BY <1>1, <2>2, <3>1
      <4>2. QED BY <2>2, <2>3, <4>1
    <3>3. k = Prefix(msgs) /\ j = 1 /\ k = 1
      BY <1>1, <2>3, <3>1, <3>2
    <3>4. msgs[1].role = "system"
      BY <3>3 DEF Prefix
    <3>5. QED BY <2>3, <3>3, <3>4
  <2> DEFINE b == j - k + 1
  <2>5. j \in DOMAIN msgs
    BY <1>1, <1>7, <2>2
  <2>6. b \in DOMAIN w /\ w[b] = msgs[j] /\ b \in 1..i - 1
    <3>1. b \in DOMAIN w /\ w[b] = msgs[j]
      BY <1>9, <2>4, <2>5
    <3>2. b \in 1..i - 1
      BY <1>1, <2>1, <2>2, <2>4
    <3>3. QED BY <3>1, <3>2
  <2>7. ASSUME NEW x \in b + 1..i - 1 PROVE w[x].role = "tool"
    <3>1. x \in DOMAIN w /\ x # 1 /\ k + x - 1 \in j + 1..a - 1
      <4>1. x \in 1..n - k + 1 /\ x # 1
        BY <1>1, <1>7, <2>1, <2>6
      <4>2. k + x - 1 \in j + 1..a - 1
        <5>1. b \in Int /\ x \in Int /\ b + 1 <= x /\ x <= i - 1 /\ b = j - k + 1
          BY <1>1, <2>1, <2>2, <2>6
        <5>2. a = k + i - 1 /\ i \in Int /\ j \in Int /\ k \in Int
          BY <1>1, <2>1, <2>2
        <5>3. QED BY <5>1, <5>2
      <4>3. QED BY <1>7, <4>1, <4>2
    <3>2. w[x] = msgs[k + x - 1]
      BY <1>8, <3>1
    <3>3. QED BY <2>3, <3>1, <3>2
  <2>8. w[b].role = "assistant" /\ w[i].uses \subseteq w[b].uses
    BY <2>2, <2>3, <2>6
  <2> HIDE DEF a, b
  <2>9. QED BY <2>6, <2>7, <2>8 DEF FollowsItsCall
<1>13. ASSUME NEW t, Closed(msgs, t) PROVE Closed(w, t)
  <2> SUFFICES ASSUME NEW i \in DOMAIN w, w[i].role = "assistant", NEW u \in w[i].uses, u[1] = t
               PROVE  Answered(w, i, u)
    BY DEF Closed
  <2>1. i # 1
    BY <1>5, <1>6
  <2> DEFINE a == k + i - 1
  <2>2. a \in DOMAIN msgs /\ a > k /\ w[i] = msgs[a] /\ a \in Nat /\ i \in Nat
    BY <1>1, <1>7, <1>8, <2>1
  <2>3. PICK j \in a + 1..Len(msgs) : msgs[j].role = "tool" /\ u \in msgs[j].uses
    <3>1. Answered(msgs, a, u)
      BY <1>13, <2>2 DEF Closed
    <3>2. QED BY <3>1 DEF Answered
  <2>4. j \in DOMAIN msgs /\ j > k
    BY <1>1, <1>7, <2>2 DEF n
  <2>5. j - k + 1 \in DOMAIN w /\ w[j - k + 1] = msgs[j]
    BY <1>9, <2>4
  <2>6. j - k + 1 \in i + 1..Len(w)
    BY <1>1, <1>6, <1>7, <2>2, <2>4, <2>5
  <2>7. QED BY <2>3, <2>5, <2>6 DEF Answered
<1>14. QED BY <1>2, <1>6, <1>10, <1>11, <1>12, <1>13

(***************************************************************************)
(* Steps and the invariant                                                 *)
(***************************************************************************)
\* What no step takes back.
Grows ==
  /\ used \subseteq used' /\ shared \subseteq shared' /\ gone \subseteq gone'
  /\ done \subseteq done' /\ turn <= turn' /\ rotations <= rotations'
  /\ \A t \in 1..turn : ranIn'[t] = ranIn[t]
  /\ \A n \in used : inherits'[n] = inherits[n]

LEMMA RecordStaysFit ==
  ASSUME SessionTyped, turn' \in Nat, rotations' \in Nat, Grows, NEW x, RecordFits(x)
  PROVE  RecordFits(x)'
<1>1. MessagesFit(x.msgs, turn')
  <2>1. 1..turn \subseteq 1..turn'
    BY DEF SessionTyped, Grows
  <2>2. QED BY <2>1 DEF RecordFits, MessagesFit
<1>2. Numbered(x.path)'
  BY DEF RecordFits, Numbered, SessionTyped, Grows
<1>3. Owns(x)'
  <2>1. \A t \in TurnsOf(x.msgs) : t \in 1..turn
    BY DEF RecordFits, MessagesFit
  <2>2. QED BY <2>1 DEF RecordFits, Owns, Grows, Sole
<1>4. QED BY <1>1, <1>2, <1>3 DEF RecordFits, Grows

LEMMA RunningIs ==
  ASSUME SessionFits, NEW p \in Procs, NEW c \in Running(p)
  PROVE  /\ c = cli[p] /\ c.pc # "off" /\ c \in CliTypes /\ CliFits(c) /\ RecordFits(c)
         /\ c.path \in PathTypes /\ c.log = c.path /\ c.id \in Names /\ c.msgs \in Seq(Messages)
<1>1. c = cli[p] /\ c.pc # "off"
  BY DEF Running
<1>2. c \in CliTypes /\ used \subseteq Names
  BY <1>1 DEF SessionFits, SessionTyped
<1>3. CliFits(c) /\ RecordFits(c)
  BY DEF SessionFits, CliFits
<1>4. c.path \in PathTypes /\ c.log = c.path /\ c.id \in Names
  BY <1>2, <1>3 DEF CliFits, RecordFits
<1>5. c.msgs \in Seq(Messages)
  BY <1>2 DEF CliTypes
<1>6. QED BY <1>1, <1>2, <1>3, <1>4, <1>5

LEMMA FilesAre ==
  ASSUME SessionFits, NEW f \in OnFile
  PROVE  f \in FileTypes /\ RecordFits(f) /\ f.msgs \in Seq(Messages) /\ f.path \in PathTypes
<1>1. f \in FileTypes
  BY PathsOfRange DEF SessionFits, SessionTyped, OnFile
<1>2. f.msgs \in Seq(Messages) /\ f.path \in PathTypes
  BY <1>1 DEF FileTypes
<1>3. QED BY <1>1, <1>2 DEF SessionFits

\* A step of one process: what has to be seen of the files and of that process.
LEMMA StepKeepsFit ==
  ASSUME SessionFits, SessionTyped', Grows, NEW p \in Procs,
         \A q \in Procs \ {p} : cli'[q] = cli[q],
         \A q \in Procs \ {p} : \A d \in Running(q) : d.turn \notin done' \ done,
         \A f \in OnFile' : f \in OnFile \/ RecordFits(f)',
         \A f, g \in OnFile' : f.path = g.path => f = g,
         \A c \in Running(p)' :
           CliFits(c)' /\ \A q \in Procs \ {p} : \A d \in Running(q) : Apart(c, d)'
  PROVE  SessionFits'
<1>0. turn' \in Nat /\ rotations' \in Nat
  BY DEF SessionTyped
<1>1. \A f \in OnFile' : RecordFits(f)'
  BY <1>0, RecordStaysFit DEF SessionFits
<1>2. \A q \in Procs \ {p} : Running(q)' = Running(q)
  BY DEF Running
<1>3. ASSUME NEW q \in Procs \ {p}, NEW c \in Running(q) PROVE CliFits(c)'
  <2>1. CliFits(c) /\ RecordFits(c)
    BY DEF SessionFits, CliFits
  <2>2. RecordFits(c)'
    BY <1>0, <2>1, RecordStaysFit DEF SessionFits
  <2>3. c.turn \notin done' \ done
    OBVIOUS
  <2>4. 1..turn \subseteq 1..turn'
    BY DEF SessionFits, SessionTyped, Grows
  <2>5. QED BY <2>1, <2>2, <2>3, <2>4 DEF CliFits, Grows
<1>4. ASSUME NEW q \in Procs \ {p}, NEW r \in Procs \ {q}, NEW c \in Running(q),
             NEW d \in Running(r)'
      PROVE  Apart(c, d)'
  <2>1. CASE r = p
    <3>1. Apart(d, c)'
      BY <2>1
    <3>2. QED BY <3>1 DEF Apart, Sole
  <2>2. CASE r # p
    <3>1. Apart(c, d)
      BY <1>2, <2>2 DEF SessionFits
    <3>2. QED BY <3>1 DEF Apart, Sole, Grows
  <2>3. QED BY <2>1, <2>2
<1>5. ASSUME NEW q \in Procs, NEW c \in Running(q)'
      PROVE  CliFits(c)' /\ \A r \in Procs \ {q} : \A d \in Running(r)' : Apart(c, d)'
  <2>1. CASE q = p
    BY <1>2, <2>1
  <2>2. CASE q # p
    BY <1>2, <1>3, <1>4, <2>2
  <2>3. QED BY <2>1, <2>2
<1>6. QED BY <1>1, <1>5 DEF SessionFits

LEMMA FreshIs ==
  ASSUME SessionTyped, used # Names
  PROVE  Fresh \in Names /\ Fresh \notin used
  BY DEF SessionTyped, Fresh

\* Program ends that leave the files.
LEMMA ExitFits ==
  ASSUME SessionFits, NEW p \in Procs, Exits(p), files' \in Seq(FileTypes),
         \A f \in OnFile' : f \in OnFile \/ RecordFits(f)',
         \A f, g \in OnFile' : f.path = g.path => f = g,
         UNCHANGED <<used, turn, rotations, shared, gone, ranIn, inherits>>,
         done \subseteq done', done' \subseteq 1..turn,
         \A q \in Procs \ {p} : \A d \in Running(q) : d.turn \notin done' \ done
  PROVE  SessionFits' /\ Grows
<1>1. Off \in CliTypes
  BY DEF Off, CliTypes
<1>2. cli' \in [Procs -> CliTypes] /\ cli'[p] = Off /\ \A q \in Procs \ {p} : cli'[q] = cli[q]
  BY <1>1 DEF SessionFits, SessionTyped, Exits
<1>3. SessionTyped'
  BY <1>2 DEF SessionFits, SessionTyped
<1>4. Running(p)' = {}
  BY <1>2 DEF Running, Off
<1>5. Grows
  BY DEF Grows, SessionFits, SessionTyped
<1>6. QED BY <1>2, <1>3, <1>4, <1>5, StepKeepsFit

\* A process that takes up a session.
LEMMA BecomesFits ==
  ASSUME SessionFits, NEW p \in Procs, NEW c \in CliTypes, Becomes(p, c),
         UNCHANGED <<files, turn, rotations, done, ranIn, inherits>>,
         used \subseteq used', used' \subseteq Names, gone \subseteq gone',
         c.turn = 0, c.pc = "rotate", c.log = c.path,
         c.path \in PathTypes, c.path[1] \in used', c.id \in used', Numbered(c.path),
         MessagesFit(c.msgs, turn), Grows /\ SessionTyped' => Owns(c)'
  PROVE  SessionFits' /\ Grows
<1>1. cli' \in [Procs -> CliTypes] /\ cli'[p] = c /\ \A q \in Procs \ {p} : cli'[q] = cli[q]
  BY DEF SessionFits, SessionTyped, Becomes
<1>2. SessionTyped'
  BY <1>1 DEF SessionFits, SessionTyped, Becomes
<1>3. Grows
  BY DEF Grows, SessionFits, SessionTyped, Becomes
<1>4. CliFits(c)'
  BY <1>2, <1>3 DEF CliFits, RecordFits, Numbered, Turning
<1>5. ASSUME NEW q \in Procs \ {p}, NEW d \in Running(q) PROVE Apart(c, d)'
  <2>1. c.path[1] = d.path[1] => Busy(q, c.path[1]) /\ c.path[1] \in Names
    BY DEF Running, Busy, PathTypes
  <2>2. c.path[1] = d.path[1] => c.path[1] \in shared'
    BY <2>1 DEF Becomes
  <2>3. QED BY <2>2 DEF Apart, Sole
<1>6. OnFile' = OnFile
  BY DEF OnFile
<1>7. \A x \in Running(p)' : x = c
  BY <1>1 DEF Running
<1>8. \A f, g \in OnFile : f.path = g.path => f = g
  BY DEF SessionFits
<1>9. \A x \in Running(p)' :
        CliFits(x)' /\ \A q \in Procs \ {p} : \A d \in Running(q) : Apart(x, d)'
  BY <1>4, <1>5, <1>7
<1>10. QED BY <1>1, <1>2, <1>3, <1>6, <1>8, <1>9, StepKeepsFit

\* A process that goes on with the session it has.
LEMMA StaysFits ==
  ASSUME SessionFits, NEW p \in Procs, NEW c \in Running(p), NEW e \in CliTypes,
         cli' = [cli EXCEPT ![p] = e], e.path = c.path, e.log = c.path, e.id = c.id,
         files' \in Seq(FileTypes),
         \A f \in OnFile' : f \in OnFile \/ RecordFits(f)',
         \A f, g \in OnFile' : f.path = g.path => f = g,
         UNCHANGED <<used, shared, gone, inherits>>,
         ranIn' \in [Turns -> [id : Names \cup {NoName}, path : Seq(Names \cup Nat)]],
         turn' \in turn..MaxTurns, rotations' \in Nat, rotations <= rotations',
         \A t \in 1..turn : ranIn'[t] = ranIn[t],
         done \subseteq done', done' \subseteq 1..turn',
         done' \ done \subseteq {c.turn} \ {0},
         MessagesFit(e.msgs, turn'), Owns(e)',
         e.pc \in Turning => e.turn # 0, e.pc = "idle" => e.turn = 0,
         e.turn # 0 => /\ e.turn \in TurnsOf(e.msgs) /\ e.turn \in (1..turn') \ done'
                       /\ ranIn'[e.turn] = [id |-> c.id, path |-> c.path],
         e.turn # 0 => e.turn = c.turn \/ e.turn = turn + 1
  PROVE  SessionFits' /\ Grows
<1>1. cli' \in [Procs -> CliTypes] /\ cli'[p] = e /\ \A q \in Procs \ {p} : cli'[q] = cli[q]
  BY DEF SessionFits, SessionTyped
<1>2. turn \in Nat /\ MaxTurns \in Nat /\ turn' \in 0..MaxTurns /\ turn <= turn'
  BY SessionAssumption DEF SessionFits, SessionTyped
<1>3. SessionTyped'
  BY <1>1, <1>2 DEF SessionFits, SessionTyped
<1>4. Grows
  BY <1>2 DEF Grows
<1>5. c \in CliTypes /\ CliFits(c) /\ RecordFits(c)
  BY RunningIs
<1>6. CliFits(e)'
  <2>1. RecordFits(c)'
    BY <1>2, <1>4, <1>5, RecordStaysFit DEF SessionFits
  <2>2. RecordFits(e)'
    BY <2>1 DEF RecordFits
  <2>3. QED BY <2>2 DEF CliFits
<1>7. ASSUME NEW q \in Procs \ {p}, NEW d \in Running(q)
      PROVE  Apart(e, d)' /\ d.turn \notin done' \ done
  <2>1. Apart(c, d) /\ CliFits(d)
    BY DEF SessionFits
  <2>2. d.turn # 0 => d.turn \in 1..turn /\ d.turn # c.turn /\ d.turn # turn + 1
    BY <1>2, <2>1 DEF Apart, CliFits
  <2>3. QED BY <2>1, <2>2 DEF Apart, Sole
<1>8. \A x \in Running(p)' : x = e
  BY <1>1 DEF Running
<1>9. \A x \in Running(p)' :
        CliFits(x)' /\ \A q \in Procs \ {p} : \A d \in Running(q) : Apart(x, d)'
  BY <1>6, <1>7, <1>8
<1>10. QED BY <1>1, <1>3, <1>4, <1>7, <1>9, StepKeepsFit

\* A process c that pushes a message m and goes on as e.
Pushes(p, c, e, m) ==
  /\ c \in Running(p) /\ c.pc \in {"idle"} \cup Turning
  /\ e \in CliTypes /\ cli' = [cli EXCEPT ![p] = e]
  /\ e.path = c.path /\ e.log = c.path /\ e.id = c.id /\ e.pc \in Turning \cup {"rotate"}
  /\ m \in Messages /\ m.turns = {e.turn} /\ \A u \in m.uses : u[1] = e.turn
  /\ m.role = "tool" => FollowsItsCall(Append(c.msgs, m), Len(c.msgs) + 1)
  /\ files' = Appended(files, c, Append(c.msgs, m))
  /\ \/ e.msgs = Append(c.msgs, m)
     \/ /\ e.pc = "rotate" /\ ShouldCompact(Append(c.msgs, m))
        /\ e.msgs = Compacted(Append(c.msgs, m))
  /\ IF e.pc = "tools" THEN InLoop(e) ELSE Closed(Append(c.msgs, m), e.turn)
  /\ UNCHANGED <<used, shared, gone, inherits, done, rotations>>
  /\ \/ e.turn = c.turn /\ c.turn # 0 /\ UNCHANGED <<turn, ranIn>>
     \/ /\ turn < MaxTurns /\ turn' = turn + 1 /\ e.turn = turn'
        /\ ranIn' = [ranIn EXCEPT ![turn'] = [id |-> c.id, path |-> c.path]]

\* A message that is pushed: what is in the process's file then, and what of the
\* other files goes.
Pushed(c, m) == \E g \in FileTypes :
  /\ g.path = c.path /\ g \in OnFile'
  /\ OnFile' \subseteq {f \in OnFile : f.path # c.path} \cup {g}
  /\ \A f \in OnFile : f.path # c.path /\ f \notin OnFile' =>
       IsStrictPrefix(c.path, f.path) /\ c.path \notin Paths(files)
  /\ Sole(c.path) => g.id = c.id /\ g.msgs = Append(c.msgs, m) /\ ~g.torn

LEMMA PushFits ==
  ASSUME SessionFits, PairsFit, NEW p \in Procs, NEW c, NEW e, NEW m, Pushes(p, c, e, m)
  PROVE  /\ SessionFits' /\ Grows /\ Pushed(c, m)
         /\ TurnsOf(e.msgs) = TurnsOf(c.msgs) \cup {e.turn}
         /\ ranIn'[e.turn].path = c.path
<1> USE DEF Pushes
<1>0. /\ c \in Running(p) /\ e \in CliTypes /\ m \in Messages /\ m.turns = {e.turn}
      /\ \A u \in m.uses : u[1] = e.turn
  OBVIOUS
<1>1. /\ c = cli[p] /\ c.pc # "off" /\ c \in CliTypes /\ CliFits(c) /\ RecordFits(c)
      /\ c.path \in PathTypes /\ c.log = c.path /\ c.id \in Names /\ c.msgs \in Seq(Messages)
  BY <1>0, RunningIs
<1> DEFINE t == e.turn
<1>2. /\ turn \in Nat /\ MaxTurns \in Nat /\ turn' \in turn..MaxTurns /\ rotations \in Nat
      /\ done \subseteq 1..turn /\ t \in 1..turn' /\ t \notin done
      /\ t # 0 /\ 1..turn \subseteq 1..turn'
  <2>1. turn \in 0..MaxTurns /\ MaxTurns \in Nat /\ done \subseteq 1..turn /\ rotations \in Nat
    BY SessionAssumption DEF SessionFits, SessionTyped
  <2>2. c.turn # 0 => c.turn \in (1..turn) \ done
    BY <1>1 DEF CliFits
  <2>3. QED BY <2>1, <2>2
<1>3. /\ ranIn' \in [Turns -> [id : Names \cup {NoName}, path : Seq(Names \cup Nat)]]
      /\ \A x \in 1..turn : ranIn'[x] = ranIn[x]
      /\ ranIn'[t] = [id |-> c.id, path |-> c.path]
  <2>1. ranIn \in [Turns -> [id : Names \cup {NoName}, path : Seq(Names \cup Nat)]]
    BY DEF SessionFits, SessionTyped
  <2>2. CASE e.turn = c.turn /\ c.turn # 0 /\ UNCHANGED <<turn, ranIn>>
    BY <1>1, <2>1, <2>2 DEF CliFits
  <2>3. CASE /\ turn < MaxTurns /\ turn' = turn + 1 /\ e.turn = turn'
             /\ ranIn' = [ranIn EXCEPT ![turn'] = [id |-> c.id, path |-> c.path]]
    <3>1. turn' \in Turns /\ turn' \notin 1..turn
      BY <1>2, <2>3 DEF Turns
    <3>2. [id |-> c.id, path |-> c.path] \in [id : Names \cup {NoName}, path : Seq(Names \cup Nat)]
      BY <1>1 DEF PathTypes
    <3>3. 1..turn \subseteq Turns
      BY <1>2 DEF Turns
    <3>4. QED BY <2>1, <2>3, <3>1, <3>2, <3>3
  <2>4. QED BY <2>2, <2>3
<1>4. Grows /\ turn' \in Nat /\ rotations' \in Nat
  BY <1>2, <1>3 DEF Grows
<1>5. RecordFits(c)' /\ \A f \in OnFile : RecordFits(f)'
  BY <1>1, <1>4, FilesAre, RecordStaysFit DEF SessionFits
<1>6. ASSUME NEW x, RecordFits(x)', x.msgs \in Seq(Messages)
      PROVE  MessagesFit(Append(x.msgs, m), turn')
  <2>1. MessagesFit(x.msgs, turn')
    BY <1>6 DEF RecordFits
  <2>2. m.turns \subseteq 1..turn' /\ \A u \in m.uses : u[1] \in m.turns
    BY <1>2
  <2>3. QED BY <1>6, <2>1, <2>2, FitOfAppend
<1>7. PICK g \in FileTypes :
        /\ g.path = c.log /\ g \in Range(files')
        /\ Range(files') \subseteq {f \in Range(files) : f.path # c.log} \cup {g}
        /\ \A f \in Range(files) :
             f.path # c.log /\ (IsStrictPrefix(c.log, f.path) => c.log \in Paths(files))
               => f \in Range(files')
        /\ \/ c.log \notin Paths(files) /\ g = File(c.log, c.id, Append(c.msgs, m), c.compacted)
           \/ \E f \in Range(files) :
                /\ f.path = c.log /\ c.log \in Paths(files)
                /\ g = IF f.torn THEN f ELSE [f EXCEPT !.msgs = Append(f.msgs, m)]
  <2>1. files \in Seq(FileTypes) /\ c.log \in PathTypes
    BY <1>1 DEF SessionFits, SessionTyped
  <2>2. Lands(files, files', c, m)
    BY <1>1, <2>1, AppendedIs
  <2>3. QED BY <2>2 DEF Lands
<1>8. files' \in Seq(FileTypes)
  BY <1>1, AppendedIs DEF SessionFits, SessionTyped
<1>9. /\ RecordFits(g)'
      /\ Sole(c.path) => g.id = c.id /\ g.msgs = Append(c.msgs, m) /\ ~g.torn
  <2>1. CASE g = File(c.log, c.id, Append(c.msgs, m), c.compacted)
    <3>1. g.path = c.path /\ g.id = c.id /\ g.msgs = Append(c.msgs, m) /\ ~g.torn
      BY <1>1, <2>1 DEF File
    <3>2. MessagesFit(g.msgs, turn') /\ TurnsOf(g.msgs) = TurnsOf(c.msgs) \cup {t}
      BY <1>1, <1>5, <1>6, <3>1, TurnsOfAppend
    <3>3. Owns(g)'
      <4>1. Owns(c)'
        BY <1>5 DEF RecordFits
      <4>2. ranIn'[t].id = g.id
        BY <1>3, <3>1
      <4>3. QED BY <3>1, <3>2, <4>1, <4>2 DEF Owns
    <3>4. QED BY <1>5, <3>1, <3>2, <3>3 DEF RecordFits
  <2>2. ASSUME NEW f \in OnFile, f.path = c.path,
               g = IF f.torn THEN f ELSE [f EXCEPT !.msgs = Append(f.msgs, m)]
        PROVE  /\ RecordFits(g)'
               /\ Sole(c.path) => g.id = c.id /\ g.msgs = Append(c.msgs, m) /\ ~g.torn
    <3>1. f \in FileTypes /\ f.msgs \in Seq(Messages) /\ RecordFits(f)'
      BY <1>5, FilesAre
    <3>2. Sole(c.path) => f.id = c.id /\ f.msgs = c.msgs /\ ~f.torn
      BY <1>1, <2>2 DEF PairsFit, InStep, Turning
    <3>3. CASE f.torn
      BY <2>2, <3>1, <3>2, <3>3
    <3>4. CASE ~f.torn
      <4>1. g.path = f.path /\ g.id = f.id /\ g.msgs = Append(f.msgs, m) /\ g.torn = f.torn
        BY <2>2, <3>1, <3>4 DEF FileTypes
      <4>2. MessagesFit(g.msgs, turn') /\ TurnsOf(g.msgs) = TurnsOf(f.msgs) \cup {t}
        BY <1>6, <3>1, <4>1, TurnsOfAppend
      <4>3. Owns(g)'
        <5>1. Owns(f)'
          BY <3>1 DEF RecordFits
        <5>2. ranIn'[t].id = g.id \/ ~Sole(g.path)'
          BY <1>3, <2>2, <3>2, <4>1 DEF Sole
        <5>3. QED BY <4>1, <4>2, <5>1, <5>2 DEF Owns
      <4>4. RecordFits(g)'
        BY <3>1, <4>1, <4>2, <4>3 DEF RecordFits
      <4>5. QED BY <3>2, <3>4, <4>1, <4>4
    <3>5. QED BY <3>3, <3>4
  <2>3. QED BY <1>1, <1>7, <2>1, <2>2 DEF OnFile
<1>10. /\ g.path = c.path /\ g \in OnFile'
       /\ OnFile' \subseteq {f \in OnFile : f.path # c.path} \cup {g}
       /\ \A f \in OnFile : f.path # c.path /\ f \notin OnFile' =>
            IsStrictPrefix(c.path, f.path) /\ c.path \notin Paths(files)
  BY <1>1, <1>7 DEF OnFile
<1>11. Pushed(c, m)
  BY <1>9, <1>10 DEF Pushed
<1>12. \A f \in OnFile' : f \in OnFile \/ RecordFits(f)'
  BY <1>9, <1>10
<1>13. \A f, h \in OnFile' : f.path = h.path => f = h
  <2>1. \A f, h \in OnFile : f.path = h.path => f = h
    BY DEF SessionFits
  <2>2. QED BY <1>10, <2>1
<1>14. TurnsOf(e.msgs) = TurnsOf(c.msgs) \cup {t} /\ MessagesFit(e.msgs, turn')
  <2>1. Append(c.msgs, m) \in Seq(Messages)
    BY <1>0, <1>1, AppendProperties
  <2>2. MessagesFit(Append(c.msgs, m), turn')
    BY <1>1, <1>5, <1>6
  <2>3. ShouldCompact(Append(c.msgs, m)) =>
          /\ TurnsOf(Compacted(Append(c.msgs, m))) = TurnsOf(Append(c.msgs, m))
          /\ MessagesFit(Compacted(Append(c.msgs, m)), turn')
    BY <2>1, <2>2, CompactedIs
  <2>4. TurnsOf(e.msgs) = TurnsOf(Append(c.msgs, m)) /\ MessagesFit(e.msgs, turn')
    BY <2>2, <2>3
  <2>5. QED BY <1>0, <1>1, <2>4, TurnsOfAppend
<1>15. Owns(e)'
  <2>1. Owns(c)'
    BY <1>5 DEF RecordFits
  <2>2. QED BY <1>3, <1>14, <2>1 DEF Owns
<1>16. /\ e.pc \in Turning => e.turn # 0
       /\ e.pc = "idle" => e.turn = 0
       /\ e.turn \in TurnsOf(e.msgs) /\ e.turn \in (1..turn') \ done'
       /\ e.turn = c.turn \/ e.turn = turn + 1
  BY <1>2, <1>14 DEF Turning
<1>17. done' \subseteq 1..turn' /\ done' \ done \subseteq {c.turn} \ {0} /\ done \subseteq done'
  BY <1>2
<1>18. rotations <= rotations'
  BY <1>2
<1>19. SessionFits' /\ Grows
  BY <1>2, <1>3, <1>4, <1>8, <1>12, <1>13, <1>14, <1>15, <1>16, <1>17, <1>18, StaysFits
<1>20. QED BY <1>3, <1>11, <1>14, <1>19

LEMMA TurnPushes ==
  ASSUME SessionFits, PairsFit, NEW p \in Procs, Turn(p)
  PROVE  \E c, e, m : Pushes(p, c, e, m)
<1>1. PICK c \in Running(p) : c = cli[p] /\ c.pc = "idle"
  BY DEF Turn, Running
<1>2. c \in CliTypes /\ CliFits(c) /\ RecordFits(c) /\ c.log = c.path /\ c.msgs \in Seq(Messages)
  BY RunningIs
<1>3. PICK m \in Messages : m = Message("user", {turn + 1}, {}) /\ turn + 1 \in Turns
  <2>1. turn + 1 \in Turns
    BY SessionAssumption DEF SessionFits, SessionTyped, Turn, Turns
  <2>2. Message("user", {turn + 1}, {}) \in Messages
    BY <2>1 DEF Messages, Message
  <2>3. QED BY <2>1, <2>2
<1>4. m.role = "user" /\ m.turns = {turn + 1} /\ m.uses = {}
  BY <1>3 DEF Message
<1> DEFINE w == Append(c.msgs, m)
           e == [c EXCEPT !.msgs = w, !.turn = turn + 1, !.pc = "request"]
<1>5. w \in Seq(Messages)
  BY <1>2, AppendProperties
<1>6. /\ e \in CliTypes /\ e.msgs = w /\ e.turn = turn + 1 /\ e.pc = "request"
      /\ e.path = c.path /\ e.log = c.path /\ e.id = c.id
  BY <1>2, <1>3, <1>5 DEF CliTypes, Turning
<1>7. cli' = [cli EXCEPT ![p] = e] /\ files' = Appended(files, c, w)
  BY <1>1, <1>3 DEF Turn, SessionFits, SessionTyped, CliTypes
<1>8. Closed(w, turn + 1)
  <2>1. turn + 1 \notin TurnsOf(c.msgs) /\ MessagesFit(c.msgs, turn)
    BY <1>2 DEF RecordFits, MessagesFit, SessionFits, SessionTyped
  <2>2. Closed(c.msgs, turn + 1)
    BY <2>1, ClosedWithout DEF MessagesFit
  <2>3. QED BY <1>2, <1>4, <2>2, PairsOfAppend
<1> HIDE DEF w, e
<1>9. Pushes(p, c, e, m)
  BY <1>1, <1>4, <1>6, <1>7, <1>8 DEF Pushes, Turn, Counted, Turning, w
<1>10. QED BY <1>9

LEMMA AsksForToolsPushes ==
  ASSUME SessionFits, PairsFit, NEW p \in Procs, NEW n \in 1..MaxUses, AsksForTools(p, n)
  PROVE  \E c, e, m : Pushes(p, c, e, m)
<1>1. PICK c \in Running(p) : c = cli[p] /\ c.pc = "request"
  BY DEF AsksForTools, Running
<1>2. c \in CliTypes /\ CliFits(c) /\ RecordFits(c) /\ c.log = c.path /\ c.msgs \in Seq(Messages)
  BY RunningIs
<1>3. c.turn \in Turns /\ c.turn # 0 /\ Closed(c.msgs, c.turn)
  <2>1. c.turn # 0
    BY <1>1, <1>2 DEF CliFits, Turning
  <2>2. QED BY <1>1, <1>2, <2>1 DEF CliTypes, PairsFit, CliPairs
<1>4. PICK uses : uses = {c.turn} \X (1..n)
  OBVIOUS
<1>5. /\ uses \subseteq Uses /\ uses # {} /\ \A u \in uses : u[1] = c.turn
  <2>1. <<c.turn, 1>> \in uses /\ MaxUses \in Nat
    BY <1>4, SessionAssumption
  <2>2. 1..n \subseteq 1..MaxUses
    BY SessionAssumption
  <2>3. QED BY <1>3, <1>4, <2>1, <2>2 DEF Uses
<1>6. PICK m \in Messages : m = Message("assistant", {c.turn}, uses)
  BY <1>3, <1>5 DEF Messages, Message, Uses
<1>7. m.role = "assistant" /\ m.turns = {c.turn} /\ m.uses = uses
  BY <1>6 DEF Message
<1> DEFINE w == Append(c.msgs, m)
           e == [c EXCEPT !.msgs = w, !.todo = uses, !.pc = "tools"]
<1>8. w \in Seq(Messages)
  BY <1>2, AppendProperties
<1>9. /\ e \in CliTypes /\ e.msgs = w /\ e.turn = c.turn /\ e.pc = "tools" /\ e.todo = uses
      /\ e.path = c.path /\ e.log = c.path /\ e.id = c.id
  BY <1>2, <1>5, <1>8 DEF CliTypes, Turning
<1>10. cli' = [cli EXCEPT ![p] = e] /\ files' = Appended(files, c, w)
  BY <1>1, <1>4, <1>6 DEF AsksForTools, SessionFits, SessionTyped, CliTypes
<1>11. InLoop(e)
  <2>1. /\ Len(c.msgs) \in Nat /\ Len(w) = Len(c.msgs) + 1 /\ w[Len(w)] = m
        /\ DOMAIN w = 1..Len(w) /\ DOMAIN c.msgs = 1..Len(c.msgs)
        /\ \A i \in 1..Len(c.msgs) : w[i] = c.msgs[i]
    BY <1>2, <1>8, AppendProperties
  <2>2. \A i \in DOMAIN c.msgs : \A u : Answered(c.msgs, i, u) => Answered(w, i, u)
    BY <1>2, PairsOfAppend
  <2> HIDE DEF w, e
  <2>3. Len(w) \in DOMAIN w /\ \A k \in (Len(w) + 1)..Len(w) : w[k].role = "tool"
    BY <2>1
  <2>4. ASSUME NEW i \in DOMAIN w, w[i].role = "assistant", NEW u \in w[i].uses, u[1] = c.turn
        PROVE  Answered(w, i, u) \/ u \in uses
    <3>1. CASE i = Len(w)
      BY <1>7, <2>1, <3>1
    <3>2. CASE i # Len(w)
      <4>1. i \in DOMAIN c.msgs /\ w[i] = c.msgs[i]
        BY <2>1, <3>2
      <4>2. QED BY <1>3, <2>2, <2>4, <4>1 DEF Closed
    <3>3. QED BY <3>1, <3>2
  <2>5. QED BY <1>5, <1>7, <1>9, <2>1, <2>3, <2>4 DEF InLoop
<1> HIDE DEF w, e
<1>12. Pushes(p, c, e, m)
  BY <1>1, <1>3, <1>5, <1>7, <1>9, <1>10, <1>11
     DEF Pushes, AsksForTools, Counted, History, Turning, w
<1>13. QED BY <1>12

\* The next call: one of the lowest number.
LEMMA NextUseIs ==
  ASSUME NEW todo \in SUBSET Uses, todo # {}
  PROVE  (CHOOSE u \in todo : \A v \in todo : u[2] <= v[2]) \in todo
<1> DEFINE N == {u[2] : u \in todo}
<1>1. N \subseteq Nat /\ N # {} /\ \A u \in todo : u[2] \in Nat
  BY DEF Uses
<1>2. PICK x \in N : \A y \in N : ~(y < x)
  <2>1. PICK x \in N : \A y \in N : ~(<<y, x>> \in OpToRel(<, Nat))
    <3> HIDE DEF N
    <3> QED BY <1>1, WFMin, NatLessThanWellFounded, Zenon
  <2>2. QED BY <1>1, <2>1 DEF OpToRel
<1>3. PICK u \in todo : u[2] = x
  OBVIOUS
<1>4. \A v \in todo : u[2] <= v[2]
  BY <1>1, <1>2, <1>3
<1>5. QED BY <1>4

LEMMA ToolResultPushes ==
  ASSUME SessionFits, PairsFit, NEW p \in Procs, ToolResult(p)
  PROVE  \E c, e, m : Pushes(p, c, e, m)
<1>1. PICK c \in Running(p) : c = cli[p] /\ c.pc = "tools"
  BY DEF ToolResult, Running
<1>2. c \in CliTypes /\ CliFits(c) /\ RecordFits(c) /\ c.log = c.path /\ c.msgs \in Seq(Messages)
  BY RunningIs
<1>3. c.turn \in Turns /\ c.turn # 0 /\ InLoop(c) /\ c.todo \in SUBSET Uses /\ c.todo # {}
  <2>1. c.turn # 0
    BY <1>1, <1>2 DEF CliFits, Turning
  <2>2. InLoop(c)
    BY <1>1 DEF PairsFit, CliPairs
  <2>3. QED BY <1>2, <2>1, <2>2 DEF CliTypes, InLoop
<1>4. PICK use \in c.todo : use = CHOOSE u \in c.todo : \A v \in c.todo : u[2] <= v[2]
  BY <1>3, NextUseIs
<1>5. PICK rest : rest = c.todo \ {use}
  OBVIOUS
<1>6. PICK m \in Messages : m = Message("tool", {c.turn}, {use})
  BY <1>3, <1>4 DEF Messages, Message, Uses
<1>7. m.role = "tool" /\ m.turns = {c.turn} /\ m.uses = {use} /\ use[1] = c.turn
  BY <1>3, <1>6 DEF Message, InLoop
<1> DEFINE w == Append(c.msgs, m)
           e == [c EXCEPT !.msgs = w, !.todo = rest,
                          !.pc = IF rest = {} THEN "request" ELSE "tools"]
<1>8. w \in Seq(Messages)
  BY <1>2, AppendProperties
<1>9. /\ e \in CliTypes /\ e.msgs = w /\ e.turn = c.turn /\ e.todo = rest
      /\ e.pc = IF rest = {} THEN "request" ELSE "tools"
      /\ e.path = c.path /\ e.log = c.path /\ e.id = c.id
  <2>1. (IF rest = {} THEN "request" ELSE "tools") \in Turning /\ rest \in SUBSET Uses
    BY <1>3, <1>5 DEF Turning
  <2>2. QED BY <1>2, <1>8, <2>1 DEF CliTypes
<1>10. cli' = [cli EXCEPT ![p] = e] /\ files' = Appended(files, c, w)
  <2>1. /\ cli' = [cli EXCEPT ![p].msgs = w, ![p].todo = rest,
                              ![p].pc = IF rest = {} THEN "request" ELSE "tools"]
        /\ files' = Appended(files, c, w)
    BY <1>1, <1>4, <1>5, <1>6, Zenon DEF ToolResult
  <2>2. QED BY <1>1, <2>1 DEF SessionFits, SessionTyped, CliTypes
<1>11. /\ Len(c.msgs) \in Nat /\ Len(w) = Len(c.msgs) + 1 /\ w[Len(w)] = m
       /\ DOMAIN w = 1..Len(w) /\ DOMAIN c.msgs = 1..Len(c.msgs)
       /\ \A i \in 1..Len(c.msgs) : w[i] = c.msgs[i]
  BY <1>2, <1>8, AppendProperties
<1>12. /\ \A i \in DOMAIN c.msgs : \A u : Answered(c.msgs, i, u) => Answered(w, i, u)
       /\ \A i \in DOMAIN c.msgs : Answered(w, i, use)
  BY <1>2, <1>7, PairsOfAppend
<1> HIDE DEF w, e
<1>13. PICK j \in DOMAIN c.msgs : /\ c.msgs[j].role = "assistant" /\ c.todo \subseteq c.msgs[j].uses
                                  /\ \A k \in (j + 1)..Len(c.msgs) : c.msgs[k].role = "tool"
  BY <1>3 DEF InLoop
<1>14. /\ j \in DOMAIN w /\ w[j].role = "assistant" /\ c.todo \subseteq w[j].uses
       /\ \A k \in (j + 1)..Len(w) : w[k].role = "tool"
  <2>1. j \in DOMAIN w /\ w[j] = c.msgs[j]
    BY <1>11, <1>13
  <2>2. ASSUME NEW k \in (j + 1)..Len(w) PROVE w[k].role = "tool"
    <3>1. CASE k = Len(w)
      BY <1>7, <1>11, <3>1
    <3>2. CASE k # Len(w)
      <4>1. k \in (j + 1)..Len(c.msgs) /\ w[k] = c.msgs[k]
        BY <1>11, <3>2
      <4>2. QED BY <1>13, <4>1
    <3>3. QED BY <3>1, <3>2
  <2>3. QED BY <1>13, <2>1, <2>2
<1>15. FollowsItsCall(w, Len(c.msgs) + 1)
  <2>1. j \in 1..(Len(w) - 1) /\ w[Len(w)].uses \subseteq w[j].uses
    BY <1>7, <1>11, <1>14
  <2>2. \A k \in (j + 1)..(Len(w) - 1) : w[k].role = "tool"
    BY <1>11, <1>14
  <2>3. QED BY <1>11, <1>14, <2>1, <2>2 DEF FollowsItsCall
<1>16. ASSUME NEW i \in DOMAIN w, w[i].role = "assistant", NEW u \in w[i].uses, u[1] = c.turn
       PROVE  Answered(w, i, u) \/ u \in rest
  <2>1. i \in DOMAIN c.msgs /\ w[i] = c.msgs[i]
    <3>1. i # Len(w)
      BY <1>7, <1>11, <1>16
    <3>2. QED BY <1>11, <3>1
  <2>2. Answered(c.msgs, i, u) \/ u \in c.todo
    BY <1>3, <1>16, <2>1 DEF InLoop
  <2>3. QED BY <1>5, <1>12, <2>1, <2>2
<1>17. rest # {} => InLoop(e)
  <2>1. \A u \in rest : u[1] = c.turn
    BY <1>3, <1>5 DEF InLoop
  <2>2. rest \subseteq w[j].uses
    BY <1>5, <1>14
  <2>3. QED BY <1>9, <1>14, <1>16, <2>1, <2>2 DEF InLoop
<1>18. rest = {} => Closed(w, e.turn)
  BY <1>9, <1>16 DEF Closed
<1>19. Pushes(p, c, e, m)
  BY <1>1, <1>3, <1>7, <1>9, <1>10, <1>15, <1>17, <1>18
     DEF Pushes, ToolResult, Counted, History, Turning, w
<1>20. QED BY <1>19

LEMMA AnswersPushes ==
  ASSUME SessionFits, PairsFit, NEW p \in Procs, NEW compacts \in BOOLEAN, Answers(p, compacts)
  PROVE  \E c, e, m : Pushes(p, c, e, m)
<1>1. PICK c \in Running(p) : c = cli[p] /\ c.pc = "request"
  BY DEF Answers, Running
<1>2. c \in CliTypes /\ CliFits(c) /\ RecordFits(c) /\ c.log = c.path /\ c.msgs \in Seq(Messages)
  BY RunningIs
<1>3. c.turn \in Turns /\ c.turn # 0 /\ Closed(c.msgs, c.turn)
  <2>1. c.turn # 0
    BY <1>1, <1>2 DEF CliFits, Turning
  <2>2. QED BY <1>1, <1>2, <2>1 DEF CliTypes, PairsFit, CliPairs
<1>4. PICK m \in Messages : m = Message("assistant", {c.turn}, {})
  BY <1>3 DEF Messages, Message
<1>5. m.role = "assistant" /\ m.turns = {c.turn} /\ m.uses = {}
  BY <1>4 DEF Message
<1> DEFINE w == Append(c.msgs, m)
           removes == compacts /\ ShouldCompact(w) /\ KeepFrom(w) > Prefix(w)
           msgs == IF removes THEN Compacted(w) ELSE w
           e == [c EXCEPT !.msgs = msgs, !.compacted = c.compacted \/ removes, !.pc = "rotate",
                          !.then = "idle"]
<1>6. w \in Seq(Messages)
  BY <1>2, AppendProperties
<1>7. msgs \in Seq(Messages) /\ (msgs = w \/ (ShouldCompact(w) /\ msgs = Compacted(w)))
  <2>1. ShouldCompact(w) => Compacted(w) \in Seq(Messages)
    BY <1>6, CompactedIs
  <2>2. CASE removes
    BY <1>6, <2>1, <2>2, Zenon
  <2>3. CASE ~removes
    BY <1>6, <2>3, Zenon
  <2>4. QED BY <2>2, <2>3
<1>8. /\ e \in CliTypes /\ e.msgs = msgs /\ e.turn = c.turn /\ e.pc = "rotate"
      /\ e.path = c.path /\ e.log = c.path /\ e.id = c.id
  <2> HIDE DEF w, msgs
  <2> QED BY <1>2, <1>7 DEF CliTypes, Saves, removes
<1>9. cli' = [cli EXCEPT ![p] = e] /\ files' = Appended(files, c, w)
  <2> DEFINE w0 == Append(cli[p].msgs, Message("assistant", {cli[p].turn}, {}))
             removes0 == compacts /\ ShouldCompact(w0) /\ KeepFrom(w0) > Prefix(w0)
             msgs0 == IF removes0 THEN Compacted(w0) ELSE w0
  <2>0. /\ cli' = [cli EXCEPT ![p] = Saving([cli[p] EXCEPT !.msgs = msgs0,
                     !.compacted = cli[p].compacted \/ removes0], "idle")]
        /\ files' = Appended(files, cli[p], w0)
    BY Zenon DEF Answers
  <2>1. /\ cli' = [cli EXCEPT ![p] = Saving([cli[p] EXCEPT !.msgs = msgs,
                     !.compacted = cli[p].compacted \/ removes], "idle")]
        /\ files' = Appended(files, c, w)
    <3>1. w0 = w /\ (removes0 <=> removes) /\ msgs0 = msgs
      BY <1>1, <1>4
    <3> HIDE DEF w, w0, removes, removes0, msgs, msgs0
    <3>2. QED BY <1>1, <2>0, <3>1, Zenon
  <2> HIDE DEF w, msgs, removes
  <2>2. Saving([c EXCEPT !.msgs = msgs, !.compacted = c.compacted \/ removes], "idle") = e
    BY <1>2 DEF Saving, CliTypes
  <2>3. QED BY <1>1, <2>1, <2>2
<1>10. Closed(w, e.turn)
  BY <1>2, <1>3, <1>5, <1>8, PairsOfAppend
<1> HIDE DEF e, msgs
<1>11. Pushes(p, c, e, m)
  BY <1>1, <1>3, <1>5, <1>7, <1>8, <1>9, <1>10
     DEF Pushes, Answers, Counted, History, Turning
<1>12. QED BY <1>11

\* A process that takes up a session as c: a new one, one in place of a session
\* that was cleared, or one that was read.
Takes(p, c) ==
  /\ c \in CliTypes /\ Becomes(p, c) /\ UNCHANGED <<files, turn, rotations, done, ranIn, inherits>>
  /\ used \subseteq used' /\ used' \subseteq Names /\ gone \subseteq gone'
  /\ c.turn = 0 /\ c.pc = "rotate" /\ c.log = c.path
  /\ \/ c.msgs = <<>> /\ c.id \in used' \ used /\ c.path = <<c.id>>
     \/ /\ c.msgs = <<>> /\ c.id \in used'
        /\ \E f \in OnFile : c.path = f.path /\ TurnsOf(f.msgs) \subseteq gone'
     \/ \E f \in OnFile : /\ ~f.torn /\ c.path = f.path /\ c.id = f.id
                          /\ \/ c.msgs = f.msgs
                             \/ ShouldCompact(f.msgs) /\ c.msgs = Compacted(f.msgs)

LEMMA SavingIs ==
  ASSUME NEW s \in CliTypes, NEW then \in {"off", "idle"}
  PROVE  LET c == Saving(s, then)
         IN /\ c \in CliTypes /\ c.turn = s.turn /\ c.pc = "rotate" /\ c.id = s.id
            /\ c.path = s.path /\ c.log = s.log /\ c.msgs = s.msgs
  BY DEF Saving, CliTypes, Saves

LEMMA SavedSession ==
  ASSUME NEW id \in Names, NEW path \in PathTypes, NEW msgs \in Seq(Messages),
         NEW compacted \in BOOLEAN, NEW then \in {"off", "idle"}
  PROVE  LET c == Saving(Session(id, path, msgs, compacted), then)
         IN /\ c \in CliTypes /\ c.turn = 0 /\ c.pc = "rotate" /\ c.id = id
            /\ c.path = path /\ c.log = path /\ c.msgs = msgs
<1> DEFINE s == Session(id, path, msgs, compacted)
<1>1. Off \in CliTypes /\ Off.turn = 0 /\ Off.todo = {}
  BY DEF Off, CliTypes
<1>2. s \in CliTypes /\ s.turn = 0 /\ s.id = id /\ s.path = path /\ s.log = path /\ s.msgs = msgs
  BY <1>1 DEF Session, CliTypes
<1> HIDE DEF s
<1>3. LET c == Saving(s, then)
      IN /\ c \in CliTypes /\ c.turn = s.turn /\ c.pc = "rotate" /\ c.id = s.id
         /\ c.path = s.path /\ c.log = s.log /\ c.msgs = s.msgs
  BY <1>2, SavingIs
<1>4. QED BY <1>2, <1>3 DEF s

LEMMA NewTakes ==
  ASSUME SessionFits, NEW p \in Procs, Launch(p) \/ Clear(p)
  PROVE  \E c : Takes(p, c)
<1>1. PICK n \in Names : n = Fresh /\ n \notin used /\ used' = used \cup {n}
  BY FreshIs DEF SessionFits, Launch, Clear
<1> DEFINE c == Saving(Session(n, <<n>>, <<>>, FALSE), "idle")
<1>2. <<n>> \in PathTypes /\ <<>> \in Seq(Messages)
  BY DEF PathTypes
<1>3. /\ c \in CliTypes /\ c.turn = 0 /\ c.pc = "rotate" /\ c.id = n
      /\ c.path = <<n>> /\ c.log = <<n>> /\ c.msgs = <<>>
  BY <1>2, SavedSession
<1>4. Becomes(p, c)
  <2>1. Becomes(p, Saving(Session(Fresh, <<Fresh>>, <<>>, FALSE), "idle"))
    BY Zenon DEF Launch, Clear
  <2>2. QED BY <1>1, <2>1, Zenon
<1> HIDE DEF c
<1>5. Takes(p, c)
  <2>1. used \subseteq used' /\ used' \subseteq Names /\ n \in used' \ used
    BY <1>1 DEF SessionFits, SessionTyped
  <2>2. UNCHANGED <<files, turn, rotations, done, gone, ranIn, inherits>>
    BY DEF Launch, Clear, Counted, History
  <2>3. QED BY <1>3, <1>4, <2>1, <2>2 DEF Takes
<1>6. QED BY <1>5

LEMMA LoadedTakes ==
  ASSUME SessionFits, NEW p \in Procs, NEW i \in DOMAIN files,
         Resume(p, files[i]) \/ ResumedCompact(p, files[i]) \/ ResumedClear(p, files[i])
  PROVE  \E c : Takes(p, c)
<1>1. PICK f \in OnFile : f = files[i] /\ ~f.torn
  BY DEF OnFile, Range, Resume, ResumedCompact, ResumedClear
<1>2. f \in FileTypes /\ RecordFits(f) /\ f.msgs \in Seq(Messages) /\ f.path \in PathTypes
  BY FilesAre
<1>3. f.id \in Names /\ f.id \in used /\ f.compacted \in BOOLEAN /\ used \subseteq Names
  BY <1>2 DEF FileTypes, RecordFits, SessionFits, SessionTyped
<1> DEFINE C(id, msgs, compacted, then) == Saving(Session(id, f.path, msgs, compacted), then)
<1>4. ASSUME NEW id \in Names, NEW msgs \in Seq(Messages), NEW compacted \in BOOLEAN,
             NEW then \in {"off", "idle"}
      PROVE  LET c == C(id, msgs, compacted, then)
             IN /\ c \in CliTypes /\ c.turn = 0 /\ c.pc = "rotate" /\ c.id = id
                /\ c.path = f.path /\ c.log = f.path /\ c.msgs = msgs
  BY <1>2, SavedSession
<1>5. \A then : C(f.id, f.msgs, f.compacted, then) = Saving(Loaded(f), then)
  BY DEF Loaded
<1> HIDE DEF C
<1>6. CASE Resume(p, files[i])
  <2> DEFINE c == C(f.id, f.msgs, f.compacted, "idle")
  <2>1. /\ c \in CliTypes /\ c.turn = 0 /\ c.pc = "rotate" /\ c.id = f.id
        /\ c.path = f.path /\ c.log = f.path /\ c.msgs = f.msgs
    BY <1>2, <1>3, <1>4
  <2>2. Becomes(p, c)
    BY <1>1, <1>5, <1>6 DEF Resume
  <2> HIDE DEF c
  <2>3. UNCHANGED <<files, used, turn, rotations, done, gone, ranIn, inherits>>
    BY <1>6 DEF Resume, Counted, History
  <2>4. Takes(p, c)
    BY <1>1, <1>3, <2>1, <2>2, <2>3 DEF Takes
  <2>5. QED BY <2>4
<1>7. CASE ResumedCompact(p, files[i])
  <2>1. CASE ShouldCompact(f.msgs)
    <3> DEFINE c == C(f.id, Compacted(f.msgs), TRUE, "off")
    <3>1. /\ c \in CliTypes /\ c.turn = 0 /\ c.pc = "rotate" /\ c.id = f.id
          /\ c.path = f.path /\ c.log = f.path /\ c.msgs = Compacted(f.msgs)
      BY <1>2, <1>3, <1>4, <2>1, CompactedIs
    <3>2. Becomes(p, c)
      BY <1>1, <1>7, <2>1 DEF ResumedCompact, C
    <3> HIDE DEF c
    <3>3. UNCHANGED <<files, used, turn, rotations, done, gone, ranIn, inherits>>
      BY <1>7 DEF ResumedCompact, Counted, History
    <3>4. Takes(p, c)
      BY <1>1, <1>3, <2>1, <3>1, <3>2, <3>3 DEF Takes
    <3>5. QED BY <3>4
  <2>2. CASE ~ShouldCompact(f.msgs)
    <3> DEFINE c == C(f.id, f.msgs, f.compacted, "off")
    <3>1. /\ c \in CliTypes /\ c.turn = 0 /\ c.pc = "rotate" /\ c.id = f.id
          /\ c.path = f.path /\ c.log = f.path /\ c.msgs = f.msgs
      BY <1>2, <1>3, <1>4
    <3>2. Becomes(p, c)
      BY <1>1, <1>5, <1>7, <2>2 DEF ResumedCompact
    <3> HIDE DEF c
    <3>3. UNCHANGED <<files, used, turn, rotations, done, gone, ranIn, inherits>>
      BY <1>7 DEF ResumedCompact, Counted, History
    <3>4. Takes(p, c)
      BY <1>1, <1>3, <3>1, <3>2, <3>3 DEF Takes
    <3>5. QED BY <3>4
  <2>3. QED BY <2>1, <2>2
<1>8. CASE ResumedClear(p, files[i])
  <2>1. PICK n \in Names : n = Fresh /\ n \notin used /\ used' = used \cup {n}
    BY <1>8, FreshIs DEF SessionFits, ResumedClear
  <2> DEFINE c == C(n, <<>>, FALSE, "off")
  <2>2. /\ c \in CliTypes /\ c.turn = 0 /\ c.pc = "rotate" /\ c.id = n
        /\ c.path = f.path /\ c.log = f.path /\ c.msgs = <<>>
    <3>1. <<>> \in Seq(Messages)
      OBVIOUS
    <3>2. QED BY <1>4, <3>1
  <2>3. Becomes(p, c)
    BY <1>1, <1>8, <2>1 DEF ResumedClear, C
  <2> HIDE DEF c
  <2>4. UNCHANGED <<files, turn, rotations, done, ranIn, inherits>>
        /\ gone' = gone \cup TurnsOf(f.msgs)
    BY <1>1, <1>8 DEF ResumedClear, Counted, History
  <2>5. used \subseteq used' /\ used' \subseteq Names /\ n \in used'
    BY <1>3, <2>1
  <2>6. Takes(p, c)
    BY <2>2, <2>3, <2>4, <2>5 DEF Takes
  <2>7. QED BY <2>6
<1>9. QED BY <1>6, <1>7, <1>8

LEMMA TakesFits ==
  ASSUME SessionFits, NEW p \in Procs, NEW c, Takes(p, c)
  PROVE  SessionFits' /\ Grows
<1>1. /\ c \in CliTypes /\ Becomes(p, c) /\ UNCHANGED <<files, turn, rotations, done, ranIn, inherits>>
      /\ used \subseteq used' /\ used' \subseteq Names /\ gone \subseteq gone'
      /\ c.turn = 0 /\ c.pc = "rotate" /\ c.log = c.path
  BY DEF Takes
<1>2. CASE c.msgs = <<>>
  <2>1. TurnsOf(c.msgs) = {} /\ MessagesFit(c.msgs, turn)
    BY <1>2 DEF TurnsOf, MessagesFit
  <2>2. Owns(c)'
    BY <2>1 DEF Owns
  <2>3. c.path \in PathTypes /\ c.path[1] \in used' /\ Numbered(c.path) /\ c.id \in used'
    <3>1. CASE c.id \in used' \ used /\ c.path = <<c.id>>
      BY <1>1, <3>1 DEF PathTypes, Numbered
    <3>2. CASE c.id \in used' /\ \E f \in OnFile : c.path = f.path
      BY <1>1, <3>2, FilesAre DEF RecordFits
    <3>3. CASE \E f \in OnFile : c.path = f.path /\ c.id = f.id
      BY <1>1, <3>3, FilesAre DEF RecordFits
    <3>4. QED BY <3>1, <3>2, <3>3 DEF Takes
  <2>4. QED BY <1>1, <2>1, <2>2, <2>3, BecomesFits
<1>3. ASSUME NEW f \in OnFile, c.path = f.path, c.id = f.id,
             c.msgs = f.msgs \/ (ShouldCompact(f.msgs) /\ c.msgs = Compacted(f.msgs))
      PROVE  SessionFits' /\ Grows
  <2>1. f \in FileTypes /\ RecordFits(f) /\ f.msgs \in Seq(Messages)
    BY FilesAre
  <2>2. TurnsOf(c.msgs) = TurnsOf(f.msgs) /\ MessagesFit(c.msgs, turn)
    BY <1>3, <2>1, CompactedIs DEF RecordFits
  <2>3. Grows /\ SessionTyped' => Owns(c)'
    <3> SUFFICES ASSUME Grows, SessionTyped' PROVE Owns(c)'
      OBVIOUS
    <3>1. turn' \in Nat /\ rotations' \in Nat
      BY DEF SessionTyped
    <3>2. Owns(f)'
      BY <2>1, <3>1, RecordStaysFit DEF SessionFits, RecordFits
    <3>3. QED BY <1>3, <2>2, <3>2 DEF Owns
  <2>4. c.path \in PathTypes /\ c.path[1] \in used' /\ Numbered(c.path) /\ c.id \in used'
    BY <1>1, <1>3, <2>1 DEF RecordFits
  <2>5. QED BY <1>1, <2>2, <2>3, <2>4, BecomesFits
<1>4. QED BY <1>2, <1>3 DEF Takes

\* A process c that goes on as e with the session and the turn it has.
GoesOn(p, c, e) ==
  /\ c \in Running(p) /\ e \in CliTypes /\ cli' = [cli EXCEPT ![p] = e]
  /\ e.path = c.path /\ e.log = c.path /\ e.id = c.id /\ e.turn = c.turn
  /\ files' \in Seq(FileTypes) /\ UNCHANGED <<used, turn, shared, done, gone, ranIn, inherits>>
Resaves(p, c, e) ==
  /\ GoesOn(p, c, e) /\ c.pc = "idle" /\ e.pc = "rotate" /\ UNCHANGED <<files, rotations>>
  /\ e.msgs = c.msgs \/ (ShouldCompact(c.msgs) /\ e.msgs = Compacted(c.msgs))
Renames(c, n) == \E f \in OnFile, g \in FileTypes :
  /\ f.path = c.path /\ g.path = Append(c.path, n) /\ g.id = f.id /\ g.msgs = f.msgs
  /\ g.torn = f.torn /\ OnFile' = {h \in OnFile : h.path # c.path} \cup {g}
Rotates(p, c, e) ==
  /\ GoesOn(p, c, e) /\ c.pc = "rotate" /\ e.pc = "write" /\ e.msgs = c.msgs
  /\ \/ UNCHANGED <<files, rotations>>
     \/ rotations' = rotations + 1 /\ Renames(c, rotations + 1)
Stores(c) == \E g \in FileTypes :
  /\ g.path = c.path /\ g.id = c.id /\ g.msgs = c.msgs /\ ~g.torn
  /\ OnFile' = {f \in OnFile : f.path # c.path} \cup {g}
WritesFile(p, c, e) ==
  /\ GoesOn(p, c, e) /\ c.pc = "write" /\ e.pc = "clean" /\ e.msgs = c.msgs
  /\ UNCHANGED rotations /\ Stores(c)

LEMMA SaveResaves ==
  ASSUME SessionFits, NEW p \in Procs,
         (\E then \in {"idle", "off"} : Save(p, then)) \/ CompactCommand(p)
  PROVE  \E c, e : Resaves(p, c, e)
<1>1. PICK c \in Running(p) : c = cli[p] /\ c.pc = "idle"
  BY DEF Running, Save, CompactCommand
<1>2. c \in CliTypes /\ c.log = c.path /\ c.msgs \in Seq(Messages)
  BY RunningIs
<1>3. UNCHANGED <<files, used, turn, rotations, shared, done, gone, ranIn, inherits>>
      /\ files \in Seq(FileTypes)
  BY DEF Save, CompactCommand, History, SessionFits, SessionTyped
<1>4. ASSUME NEW then \in {"idle", "off"}, Save(p, then) PROVE \E e : Resaves(p, c, e)
  <2> DEFINE e == Saving(c, then)
  <2>1. /\ e \in CliTypes /\ e.turn = c.turn /\ e.pc = "rotate" /\ e.id = c.id
        /\ e.path = c.path /\ e.log = c.log /\ e.msgs = c.msgs
    BY <1>2, SavingIs
  <2>2. cli' = [cli EXCEPT ![p] = e]
    BY <1>1, <1>4 DEF Save
  <2> HIDE DEF e
  <2>3. Resaves(p, c, e)
    BY <1>1, <1>2, <1>3, <2>1, <2>2 DEF Resaves, GoesOn
  <2>4. QED BY <2>3
<1>5. CASE CompactCommand(p)
  <2>1. ShouldCompact(c.msgs) /\ Compacted(c.msgs) \in Seq(Messages)
    BY <1>1, <1>2, <1>5, CompactedIs DEF CompactCommand
  <2> DEFINE s == [c EXCEPT !.msgs = Compacted(c.msgs), !.compacted = TRUE]
             e == Saving(s, "idle")
  <2>2. /\ s \in CliTypes /\ s.turn = c.turn /\ s.id = c.id /\ s.path = c.path /\ s.log = c.log
        /\ s.msgs = Compacted(c.msgs)
    BY <1>2, <2>1 DEF CliTypes
  <2>3. cli' = [cli EXCEPT ![p] = e]
    BY <1>1, <1>5 DEF CompactCommand
  <2> HIDE DEF s
  <2>4. /\ e \in CliTypes /\ e.turn = c.turn /\ e.pc = "rotate" /\ e.id = c.id
        /\ e.path = c.path /\ e.log = c.log /\ e.msgs = Compacted(c.msgs)
    BY <2>2, SavingIs
  <2> HIDE DEF e
  <2>5. Resaves(p, c, e)
    BY <1>1, <1>2, <1>3, <2>1, <2>3, <2>4 DEF Resaves, GoesOn
  <2>6. QED BY <2>5
<1>6. QED BY <1>4, <1>5

LEMMA RotateRotates ==
  ASSUME SessionFits, NEW p \in Procs, Rotate(p)
  PROVE  \E c, e : Rotates(p, c, e)
<1>1. PICK c \in Running(p) : c = cli[p] /\ c.pc = "rotate"
  BY DEF Running, Rotate
<1>2. c \in CliTypes /\ c.log = c.path /\ c.path \in PathTypes
  BY RunningIs
<1>3. /\ files \in Seq(FileTypes) /\ rotations \in Nat /\ rotations + 1 \in Nat
      /\ UNCHANGED <<used, turn, shared, done, gone, ranIn, inherits>>
  BY DEF Rotate, History, SessionFits, SessionTyped
<1> DEFINE e == [c EXCEPT !.pc = "write"]
<1>4. /\ e \in CliTypes /\ e.turn = c.turn /\ e.pc = "write" /\ e.id = c.id
      /\ e.path = c.path /\ e.log = c.path /\ e.msgs = c.msgs
  BY <1>2 DEF CliTypes, Saves
<1>5. cli' = [cli EXCEPT ![p] = e]
  BY <1>1 DEF Rotate, SessionFits, SessionTyped, CliTypes
<1> HIDE DEF e
<1>6. CASE UNCHANGED <<files, rotations>>
  BY <1>1, <1>3, <1>4, <1>5, <1>6 DEF Rotates, GoesOn
<1>7. CASE ~UNCHANGED <<files, rotations>>
  <2>1. /\ c.path \in Paths(files) /\ rotations' = rotations + 1
        /\ files' = Rotated(files, c.path, rotations + 1)
    BY <1>1, <1>7 DEF Rotate, Large
  <2>2. /\ files' \in Seq(FileTypes) /\ Append(c.path, rotations + 1) \in PathTypes
        /\ OnFile' = {f \in OnFile : f.path # c.path} \cup
             {[f EXCEPT !.path = Append(c.path, rotations + 1)] :
                f \in {g \in OnFile : g.path = c.path}}
    BY <1>2, <1>3, <2>1, RotatedIs DEF OnFile
  <2>3. PICK f \in OnFile : f.path = c.path
    BY <2>1, PathsOfRange, <1>3 DEF OnFile
  <2>4. {g \in OnFile : g.path = c.path} = {f}
    BY <2>3 DEF SessionFits
  <2>5. f \in FileTypes
    BY FilesAre
  <2> DEFINE g == [f EXCEPT !.path = Append(c.path, rotations + 1)]
  <2>6. /\ g \in FileTypes /\ g.path = Append(c.path, rotations + 1) /\ g.id = f.id
        /\ g.msgs = f.msgs /\ g.torn = f.torn
    BY <2>2, <2>5 DEF FileTypes
  <2>7. OnFile' = {h \in OnFile : h.path # c.path} \cup {g}
    BY <2>2, <2>4
  <2> HIDE DEF g
  <2>8. Renames(c, rotations + 1)
    BY <2>3, <2>6, <2>7 DEF Renames
  <2>9. Rotates(p, c, e)
    BY <1>1, <1>3, <1>4, <1>5, <2>1, <2>2, <2>8 DEF Rotates, GoesOn
  <2>10. QED BY <2>9
<1>8. QED BY <1>6, <1>7

LEMMA WriteSnapshotWrites ==
  ASSUME SessionFits, NEW p \in Procs, WriteSnapshot(p)
  PROVE  \E c, e : WritesFile(p, c, e)
<1>1. PICK c \in Running(p) : c = cli[p] /\ c.pc = "write"
  BY DEF Running, WriteSnapshot
<1>2. c \in CliTypes /\ c.log = c.path /\ c.path \in PathTypes /\ c.id \in Names
  BY RunningIs
<1>3. files \in Seq(FileTypes) /\ UNCHANGED <<used, turn, rotations, shared, done, gone, ranIn, inherits>>
  BY DEF WriteSnapshot, History, Counted, SessionFits, SessionTyped
<1> DEFINE e == [c EXCEPT !.pc = "clean"]
           g == Snapshot(c)
<1>4. /\ e \in CliTypes /\ e.turn = c.turn /\ e.pc = "clean" /\ e.id = c.id
      /\ e.path = c.path /\ e.log = c.path /\ e.msgs = c.msgs
  BY <1>2 DEF CliTypes, Saves
<1>5. cli' = [cli EXCEPT ![p] = e]
  BY <1>1 DEF WriteSnapshot, SessionFits, SessionTyped, CliTypes
<1>6. g \in FileTypes /\ g.path = c.path /\ g.id = c.id /\ g.msgs = c.msgs /\ ~g.torn
  BY <1>2 DEF Snapshot, File, FileTypes, CliTypes
<1>7. files' = Written(files, g)
  BY <1>1 DEF WriteSnapshot
<1> HIDE DEF e, g
<1>8. files' \in Seq(FileTypes) /\ OnFile' = {f \in OnFile : f.path # c.path} \cup {g}
  BY <1>3, <1>6, <1>7, WrittenIs DEF OnFile
<1>9. Stores(c)
  BY <1>6, <1>8 DEF Stores
<1>10. WritesFile(p, c, e)
  BY <1>1, <1>3, <1>4, <1>5, <1>8, <1>9 DEF WritesFile, GoesOn
<1>11. QED BY <1>10

LEMMA GoesOnFits ==
  ASSUME SessionFits, NEW p \in Procs, NEW c, NEW e,
         Resaves(p, c, e) \/ Rotates(p, c, e) \/ WritesFile(p, c, e)
  PROVE  SessionFits' /\ Grows
<1>1. GoesOn(p, c, e)
  BY DEF Resaves, Rotates, WritesFile
<1>2. /\ c \in Running(p) /\ e \in CliTypes /\ cli' = [cli EXCEPT ![p] = e]
      /\ e.path = c.path /\ e.log = c.path /\ e.id = c.id /\ e.turn = c.turn
      /\ files' \in Seq(FileTypes) /\ UNCHANGED <<used, turn, shared, done, gone, ranIn, inherits>>
  BY <1>1 DEF GoesOn
<1>3. /\ c \in CliTypes /\ CliFits(c) /\ RecordFits(c) /\ c.path \in PathTypes
      /\ c.msgs \in Seq(Messages)
  BY <1>2, RunningIs
<1>4. /\ turn \in Nat /\ MaxTurns \in Nat /\ turn' \in turn..MaxTurns /\ done' \subseteq 1..turn'
      /\ rotations \in Nat /\ rotations' \in Nat /\ rotations <= rotations'
      /\ ranIn' \in [Turns -> [id : Names \cup {NoName}, path : Seq(Names \cup Nat)]]
  BY <1>2, SessionAssumption DEF SessionFits, SessionTyped, Resaves, Rotates, WritesFile
<1>5. Grows
  BY <1>2, <1>4 DEF Grows
<1>6. RecordFits(c)' /\ \A f \in OnFile : RecordFits(f)'
  BY <1>3, <1>4, <1>5, FilesAre, RecordStaysFit DEF SessionFits
<1>7. TurnsOf(e.msgs) = TurnsOf(c.msgs) /\ MessagesFit(e.msgs, turn')
  <2>1. MessagesFit(c.msgs, turn')
    BY <1>6 DEF RecordFits
  <2>2. e.msgs = c.msgs \/ (ShouldCompact(c.msgs) /\ e.msgs = Compacted(c.msgs))
    BY DEF Resaves, Rotates, WritesFile
  <2>3. QED BY <1>3, <2>1, <2>2, CompactedIs
<1>8. Owns(e)'
  BY <1>2, <1>6, <1>7 DEF RecordFits, Owns
<1>9. /\ e.pc \in Turning => e.turn # 0
      /\ e.pc = "idle" => e.turn = 0
      /\ e.turn # 0 => /\ e.turn \in TurnsOf(e.msgs) /\ e.turn \in (1..turn') \ done'
                       /\ ranIn'[e.turn] = [id |-> c.id, path |-> c.path]
  BY <1>2, <1>3, <1>7 DEF Resaves, Rotates, WritesFile, CliFits, Turning
<1>10. /\ \A f \in OnFile' : f \in OnFile \/ RecordFits(f)'
       /\ \A f, h \in OnFile' : f.path = h.path => f = h
  <2>1. \A f, h \in OnFile : f.path = h.path => f = h
    BY DEF SessionFits
  <2>2. CASE UNCHANGED files
    BY <2>1, <2>2 DEF OnFile
  <2>3. CASE rotations' = rotations + 1 /\ Renames(c, rotations + 1)
    <3>1. PICK f \in OnFile, g \in FileTypes :
            /\ f.path = c.path /\ g.path = Append(c.path, rotations + 1) /\ g.id = f.id
            /\ g.msgs = f.msgs /\ g.torn = f.torn
            /\ OnFile' = {h \in OnFile : h.path # c.path} \cup {g}
      BY <2>3 DEF Renames
    <3>2. /\ Len(c.path) \in Nat /\ Len(c.path) >= 1 /\ Len(g.path) = Len(c.path) + 1
          /\ \A i \in 1..Len(c.path) : g.path[i] = c.path[i]
          /\ g.path[Len(g.path)] = rotations + 1
      <4>1. c.path \in Seq(Names \cup Nat) /\ c.path # <<>> /\ rotations + 1 \in Names \cup Nat
        BY <1>3, <1>4 DEF PathTypes
      <4>2. QED BY <3>1, <4>1, AppendProperties
    <3>3. g.path \in PathTypes /\ g.path[1] = c.path[1]
      <4>1. g.path \in PathTypes
        BY <3>1 DEF FileTypes
      <4>2. 1 \in 1..Len(c.path)
        BY <3>2
      <4>3. QED BY <3>2, <4>1, <4>2
    <3>4. Numbered(g.path)'
      <4> SUFFICES ASSUME NEW i \in 2..Len(g.path)
                   PROVE  g.path[i] \in Nat /\ g.path[i] <= rotations'
        BY DEF Numbered
      <4>1. CASE i = Len(g.path)
        BY <1>4, <2>3, <3>2, <4>1
      <4>2. CASE i # Len(g.path)
        <5>1. i \in 2..Len(c.path) /\ g.path[i] = c.path[i]
          BY <3>2, <4>2
        <5>2. QED BY <1>6, <5>1 DEF RecordFits, Numbered
      <4>3. QED BY <4>1, <4>2
    <3>5. RecordFits(f)'
      BY <1>6
    <3>6. Owns(g)'
      BY <3>1, <3>3, <3>5 DEF RecordFits, Owns, Sole
    <3>7. RecordFits(g)'
      BY <3>1, <3>3, <3>4, <3>5, <3>6 DEF RecordFits
    <3>8. \A h \in OnFile : h.path # g.path
      <4> SUFFICES ASSUME NEW h \in OnFile, h.path = g.path PROVE FALSE
        OBVIOUS
      <4>1. Numbered(h.path)
        BY FilesAre DEF RecordFits
      <4>2. Len(g.path) \in 2..Len(g.path)
        BY <3>2
      <4>3. rotations + 1 <= rotations
        BY <3>2, <4>1, <4>2 DEF Numbered
      <4>4. QED BY <1>4, <4>3
    <3>9. QED BY <2>1, <3>1, <3>7, <3>8
  <2>4. CASE WritesFile(p, c, e)
    <3>1. PICK g \in FileTypes :
            /\ g.path = c.path /\ g.id = c.id /\ g.msgs = c.msgs /\ ~g.torn
            /\ OnFile' = {f \in OnFile : f.path # c.path} \cup {g}
      BY <2>4 DEF WritesFile, Stores
    <3>2. RecordFits(g)'
      BY <1>6, <3>1 DEF RecordFits, Owns
    <3>3. QED BY <2>1, <3>1, <3>2
  <2>5. QED BY <2>2, <2>3, <2>4 DEF Resaves, Rotates
<1>11. done \subseteq done' /\ done' \ done \subseteq {c.turn} \ {0}
       /\ \A t \in 1..turn : ranIn'[t] = ranIn[t]
  BY <1>2
<1>12. QED BY <1>2, <1>4, <1>7, <1>8, <1>9, <1>10, <1>11, StaysFits

\* The other steps: a program that ends, an append that is cut, a clean-up, a
\* fork, a file that is deleted.
Leaves(p) ==
  /\ Exits(p)
  /\ UNCHANGED <<files, used, turn, rotations, shared, done, gone, ranIn, inherits>>
Tears(p) ==
  /\ Exits(p) /\ files' \in Seq(FileTypes)
  /\ UNCHANGED <<used, turn, rotations, shared, done, gone, ranIn, inherits>>
  /\ \E c \in Running(p), f \in OnFile, g \in FileTypes :
       /\ f.path = c.path /\ g.path = c.path /\ g.id = f.id /\ g.msgs = f.msgs /\ g.torn
       /\ OnFile' = {h \in OnFile : h.path # c.path} \cup {g}
Cleans(p, c) ==
  /\ c \in Running(p) /\ c.pc = "clean" /\ files' \in Seq(FileTypes) /\ OnFile' \subseteq OnFile
  /\ \A f \in OnFile \ OnFile' : IsStrictPrefix(c.path, f.path)
  /\ done' = done \cup ({c.turn} \ {0})
  /\ UNCHANGED <<used, turn, rotations, shared, gone, ranIn, inherits>>
  /\ \/ Exits(p)
     \/ \E e \in CliTypes :
          /\ cli' = [cli EXCEPT ![p] = e] /\ e.path = c.path /\ e.log = c.path /\ e.id = c.id
          /\ e.msgs = c.msgs /\ e.pc = "idle" /\ e.turn = 0
Forks(p, c, e) ==
  /\ c \in Running(p) /\ c.pc = "idle" /\ e \in CliTypes /\ cli' = [cli EXCEPT ![p] = e]
  /\ e.msgs = c.msgs /\ e.turn = 0 /\ e.pc = "rotate"
  /\ e.id \in Names \ used /\ e.path = <<e.id>> /\ e.log = <<e.id>>
  /\ used' = used \cup {e.id}
  /\ inherits' = [inherits EXCEPT ![e.id] = TurnsOf(c.msgs)]
  /\ shared' = shared \cup (IF Sole(c.path) THEN {} ELSE {e.id})
  /\ UNCHANGED <<files, turn, rotations, done, gone, ranIn>>
Deletes(f) ==
  /\ f \in OnFile /\ files' \in Seq(FileTypes) /\ OnFile' = {h \in OnFile : h.path # f.path}
  /\ gone' = gone \cup TurnsOf(f.msgs)
  /\ UNCHANGED <<cli, used, turn, rotations, done, shared, ranIn, inherits>>

LEMMA AppendTornTears ==
  ASSUME SessionFits, NEW p \in Procs, AppendTorn(p)
  PROVE  Tears(p)
<1>1. PICK c \in Running(p) : c = cli[p]
  BY DEF Running, AppendTorn
<1>2. c.log = c.path /\ c.path \in Paths(files) /\ files \in Seq(FileTypes)
  BY <1>1, RunningIs DEF AppendTorn, SessionFits, SessionTyped
<1>3. PICK f \in OnFile : f = At(files, c.path) /\ f.path = c.path
  BY <1>2, AtIs DEF OnFile
<1>4. f \in FileTypes
  BY FilesAre
<1> DEFINE g == [f EXCEPT !.torn = TRUE]
<1>5. g \in FileTypes /\ g.path = c.path /\ g.id = f.id /\ g.msgs = f.msgs /\ g.torn
  BY <1>3, <1>4 DEF FileTypes
<1>6. files' = Written(files, g)
  BY <1>1, <1>2, <1>3 DEF AppendTorn
<1> HIDE DEF g
<1>7. files' \in Seq(FileTypes) /\ OnFile' = {h \in OnFile : h.path # c.path} \cup {g}
  BY <1>2, <1>5, <1>6, WrittenIs DEF OnFile
<1>8. QED BY <1>3, <1>5, <1>7 DEF Tears, AppendTorn, History

LEMMA CleanUpCleans ==
  ASSUME SessionFits, NEW p \in Procs, CleanUp(p)
  PROVE  \E c : Cleans(p, c)
<1>1. PICK c \in Running(p) : c = cli[p] /\ c.pc = "clean"
  BY DEF Running, CleanUp
<1>2. c \in CliTypes /\ c.log = c.path /\ files \in Seq(FileTypes)
  BY RunningIs DEF SessionFits, SessionTyped
<1>3. files' = Cleaned(files, c.path)
  BY <1>1 DEF CleanUp
<1>4. /\ files' \in Seq(FileTypes) /\ OnFile' \subseteq OnFile
      /\ \A f \in OnFile \ OnFile' : IsStrictPrefix(c.path, f.path)
  BY <1>2, <1>3, CleanedIs DEF OnFile
<1> DEFINE e == [c EXCEPT !.pc = "idle", !.turn = 0, !.then = "off"]
<1>5. /\ e \in CliTypes /\ e.path = c.path /\ e.log = c.path /\ e.id = c.id
      /\ e.msgs = c.msgs /\ e.pc = "idle" /\ e.turn = 0
  BY <1>2 DEF CliTypes
<1>6. Exits(p) \/ cli' = [cli EXCEPT ![p] = e]
  BY <1>1 DEF CleanUp, SessionFits, SessionTyped, CliTypes
<1> HIDE DEF e
<1>7. /\ done' = done \cup ({c.turn} \ {0})
      /\ UNCHANGED <<used, turn, rotations, shared, gone, ranIn, inherits>>
  BY <1>1 DEF CleanUp, Counted
<1>8. QED BY <1>1, <1>4, <1>5, <1>6, <1>7 DEF Cleans

LEMMA ForkForks ==
  ASSUME SessionFits, NEW p \in Procs, Fork(p)
  PROVE  \E c, e : Forks(p, c, e)
<1>1. PICK c \in Running(p) : c = cli[p] /\ c.pc = "idle"
  BY DEF Running, Fork
<1>2. c \in CliTypes /\ CliFits(c)
  BY RunningIs
<1>3. PICK n \in Names : n = Fresh /\ n \notin used
  BY FreshIs DEF SessionFits, Fork
<1> DEFINE s == Forked(c, n)
           e == Saving(s, "idle")
<1>4. /\ s \in CliTypes /\ s.msgs = c.msgs /\ s.turn = 0 /\ s.id = n /\ s.path = <<n>>
      /\ s.log = <<n>>
  <2>1. <<n>> \in PathTypes /\ c.turn = 0
    BY <1>1, <1>2 DEF PathTypes, CliFits
  <2>2. QED BY <1>2, <2>1 DEF Forked, CliTypes
<1>5. cli' = [cli EXCEPT ![p] = e]
  BY <1>1, <1>3 DEF Fork
<1> HIDE DEF s
<1>6. /\ e \in CliTypes /\ e.msgs = c.msgs /\ e.turn = 0 /\ e.pc = "rotate" /\ e.id = n
      /\ e.path = <<n>> /\ e.log = <<n>>
  BY <1>4, SavingIs
<1> HIDE DEF e
<1>7. /\ used' = used \cup {n} /\ inherits' = [inherits EXCEPT ![n] = TurnsOf(c.msgs)]
      /\ shared' = shared \cup (IF c.path[1] \in shared THEN {n} ELSE {})
      /\ UNCHANGED <<files, turn, rotations, done, gone, ranIn>>
  BY <1>1, <1>3 DEF Fork
<1>8. Forks(p, c, e)
  BY <1>1, <1>3, <1>5, <1>6, <1>7 DEF Forks, Sole
<1>9. QED BY <1>8

LEMMA DeleteDeletes ==
  ASSUME SessionFits, NEW p \in Procs, NEW i \in DOMAIN files, NEW byAlias \in BOOLEAN,
         Delete(p, files[i], byAlias)
  PROVE  \E f : Deletes(f)
<1>1. PICK f \in OnFile : f = files[i]
  BY DEF OnFile, Range
<1>2. files' = Without(files, {f.path}) /\ files \in Seq(FileTypes)
  BY <1>1 DEF Delete, SessionFits, SessionTyped
<1>3. files' \in Seq(FileTypes) /\ OnFile' = {h \in OnFile : h.path # f.path}
  BY <1>2, WithoutIs DEF OnFile
<1>4. Deletes(f)
  BY <1>1, <1>3 DEF Deletes, Delete
<1>5. QED BY <1>4

LEMMA OtherStepsFit ==
  ASSUME SessionFits, NEW p \in Procs, NEW c, NEW e, NEW f,
         Leaves(p) \/ Tears(p) \/ Cleans(p, c) \/ Forks(p, c, e) \/ Deletes(f)
  PROVE  SessionFits' /\ Grows
<1>1. /\ \A g, h \in OnFile : g.path = h.path => g = h
      /\ done \subseteq 1..turn /\ files \in Seq(FileTypes) /\ turn \in Nat /\ rotations \in Nat
      /\ \A q \in Procs \ {p} : \A x \in Running(p) : \A d \in Running(q) : Apart(x, d)
      /\ MaxTurns \in Nat /\ turn \in 0..MaxTurns
  BY SessionAssumption DEF SessionFits, SessionTyped
<1>2. CASE Leaves(p)
  BY <1>1, <1>2, ExitFits DEF Leaves, OnFile
<1>3. CASE Tears(p)
  <2>1. PICK x \in Running(p), o \in OnFile, g \in FileTypes :
          /\ o.path = x.path /\ g.path = x.path /\ g.id = o.id /\ g.msgs = o.msgs /\ g.torn
          /\ OnFile' = {h \in OnFile : h.path # x.path} \cup {g}
    BY <1>3 DEF Tears
  <2>2. RecordFits(g)'
    <3>1. RecordFits(o)
      BY FilesAre
    <3>2. Grows /\ turn' \in Nat /\ rotations' \in Nat
      BY <1>1, <1>3 DEF Tears, Grows
    <3>3. RecordFits(o)'
      BY <3>1, <3>2, RecordStaysFit DEF SessionFits
    <3>4. QED BY <2>1, <3>3 DEF RecordFits, Owns
  <2>3. \A a, b \in OnFile' : a.path = b.path => a = b
    BY <1>1, <2>1
  <2>4. QED BY <1>1, <1>3, <2>1, <2>2, <2>3, ExitFits DEF Tears
<1>4. CASE Cleans(p, c)
  <2>1. /\ c \in Running(p) /\ c.pc = "clean" /\ files' \in Seq(FileTypes) /\ OnFile' \subseteq OnFile
        /\ done' = done \cup ({c.turn} \ {0})
        /\ UNCHANGED <<used, turn, rotations, shared, gone, ranIn, inherits>>
    BY <1>4 DEF Cleans
  <2>2. /\ CliFits(c) /\ RecordFits(c) /\ c.path \in PathTypes
        /\ c.turn # 0 => c.turn \in 1..turn
    BY <2>1, RunningIs DEF CliFits
  <2>3. /\ done \subseteq done' /\ done' \subseteq 1..turn /\ done' \ done \subseteq {c.turn} \ {0}
        /\ \A q \in Procs \ {p} : \A d \in Running(q) : d.turn \notin done' \ done
    <3>1. \A q \in Procs \ {p} : \A d \in Running(q) : d.turn # 0 => c.turn # d.turn
      BY <1>1, <2>1 DEF Apart
    <3>2. QED BY <1>1, <2>1, <2>2, <3>1
  <2>4. \A a, b \in OnFile' : a.path = b.path => a = b
    BY <1>1, <2>1
  <2>5. CASE Exits(p)
    BY <2>1, <2>3, <2>4, <2>5, ExitFits
  <2>6. ASSUME NEW x \in CliTypes, cli' = [cli EXCEPT ![p] = x], x.path = c.path,
               x.log = c.path, x.id = c.id, x.msgs = c.msgs, x.pc = "idle", x.turn = 0
        PROVE  SessionFits' /\ Grows
    <3>1. Grows /\ turn' \in Nat /\ rotations' \in Nat
      BY <1>1, <2>1 DEF Grows
    <3>2. RecordFits(c)'
      BY <2>2, <3>1, RecordStaysFit DEF SessionFits
    <3>3. MessagesFit(x.msgs, turn') /\ Owns(x)'
      BY <2>6, <3>2 DEF RecordFits, Owns
    <3>4. /\ turn' \in turn..MaxTurns /\ rotations' \in Nat /\ rotations <= rotations'
          /\ ranIn' \in [Turns -> [id : Names \cup {NoName}, path : Seq(Names \cup Nat)]]
          /\ \A t \in 1..turn : ranIn'[t] = ranIn[t]
          /\ done' \subseteq 1..turn' /\ x.pc \notin Turning
      BY <1>1, <2>1, <2>3, <2>6 DEF SessionFits, SessionTyped, Turning
    <3>5. QED BY <2>1, <2>3, <2>4, <2>6, <3>3, <3>4, StaysFits
  <2>7. QED BY <1>4, <2>5, <2>6 DEF Cleans
<1>5. CASE Forks(p, c, e)
  <2>1. /\ c \in Running(p) /\ c.pc = "idle" /\ e \in CliTypes /\ cli' = [cli EXCEPT ![p] = e]
        /\ e.msgs = c.msgs /\ e.turn = 0 /\ e.pc = "rotate"
        /\ e.id \in Names \ used /\ e.path = <<e.id>> /\ e.log = <<e.id>>
        /\ used' = used \cup {e.id}
        /\ inherits' = [inherits EXCEPT ![e.id] = TurnsOf(c.msgs)]
        /\ shared' = shared \cup (IF Sole(c.path) THEN {} ELSE {e.id})
        /\ UNCHANGED <<files, turn, rotations, done, gone, ranIn>>
    BY <1>5 DEF Forks
  <2>2. /\ cli' \in [Procs -> CliTypes] /\ cli'[p] = e
        /\ \A q \in Procs \ {p} : cli'[q] = cli[q]
    BY <2>1 DEF SessionFits, SessionTyped
  <2>3. CliFits(c) /\ RecordFits(c)
    BY <2>1, RunningIs
  <2>4. TurnsOf(c.msgs) \subseteq Turns /\ MessagesFit(c.msgs, turn)
    BY <1>1, <2>3 DEF RecordFits, MessagesFit, Turns
  <2>5. SessionTyped'
    <3>1. shared' \subseteq Names /\ used' \subseteq Names /\ inherits' \in [Names -> SUBSET Turns]
      BY <2>1, <2>4 DEF SessionFits, SessionTyped
    <3>2. QED BY <2>1, <2>2, <3>1 DEF SessionFits, SessionTyped
  <2>6. Grows
    <3>1. \A n \in used : inherits'[n] = inherits[n]
      BY <2>1 DEF SessionFits, SessionTyped
    <3>2. QED BY <1>1, <2>1, <3>1 DEF Grows
  <2>7. CliFits(e)'
    <3>1. e.path \in PathTypes /\ e.path[1] = e.id /\ Numbered(e.path)'
      BY <2>1 DEF PathTypes, Numbered
    <3>2. Owns(e)'
      <4>1. inherits'[e.id] = TurnsOf(c.msgs)
        BY <2>1 DEF SessionFits, SessionTyped
      <4>2. QED BY <2>1, <4>1 DEF Owns
    <3>3. QED BY <2>1, <2>4, <3>1, <3>2 DEF CliFits, RecordFits, Turning
  <2>8. ASSUME NEW q \in Procs \ {p}, NEW d \in Running(q) PROVE Apart(e, d)'
    <3>1. d.path[1] \in used
      BY RunningIs DEF RecordFits
    <3>2. QED BY <2>1, <3>1 DEF Apart
  <2>9. OnFile' = OnFile /\ \A x \in Running(p)' : x = e
    BY <2>1, <2>2 DEF OnFile, Running
  <2>10. /\ \A x \in Running(p)' :
              CliFits(x)' /\ \A q \in Procs \ {p} : \A d \in Running(q) : Apart(x, d)'
         /\ \A q \in Procs \ {p} : \A d \in Running(q) : d.turn \notin done' \ done
    BY <2>1, <2>7, <2>8, <2>9
  <2>11. QED BY <1>1, <2>2, <2>5, <2>6, <2>9, <2>10, StepKeepsFit
<1>6. CASE Deletes(f)
  <2>1. SessionTyped' /\ Grows
    BY <1>1, <1>6 DEF Deletes, SessionFits, SessionTyped, Grows
  <2>2. \A x \in Running(p)' : x \in Running(p) /\ CliFits(x) /\ RecordFits(x)
    BY <1>6, RunningIs DEF Deletes, Running
  <2>3. ASSUME NEW x \in Running(p)' PROVE CliFits(x)'
    <3>1. turn' \in Nat /\ rotations' \in Nat
      BY <1>1, <1>6 DEF Deletes
    <3>2. RecordFits(x)'
      BY <2>1, <2>2, <3>1, RecordStaysFit DEF SessionFits
    <3>3. QED BY <1>6, <2>2, <3>2 DEF Deletes, CliFits
  <2>4. \A x \in Running(p)' : \A q \in Procs \ {p} : \A d \in Running(q) : Apart(x, d)'
    BY <1>1, <1>6, <2>2 DEF Deletes, Apart, Sole
  <2>5. /\ \A q \in Procs \ {p} : cli'[q] = cli[q]
        /\ \A q \in Procs \ {p} : \A d \in Running(q) : d.turn \notin done' \ done
        /\ OnFile' \subseteq OnFile
    BY <1>6 DEF Deletes
  <2>6. \A x \in Running(p)' :
          CliFits(x)' /\ \A q \in Procs \ {p} : \A d \in Running(q) : Apart(x, d)'
    BY <2>3, <2>4
  <2>7. QED BY <1>1, <2>1, <2>5, <2>6, StepKeepsFit
<1>7. QED BY <1>2, <1>3, <1>4, <1>5, <1>6

\* The steps of the sessions, told apart by what they do to them.
SessionStep(p, c, e, m, f) ==
  \/ Pushes(p, c, e, m) \/ Takes(p, c) \/ Resaves(p, c, e) \/ Rotates(p, c, e) \/ WritesFile(p, c, e)
  \/ Leaves(p) \/ Tears(p) \/ Cleans(p, c) \/ Forks(p, c, e) \/ Deletes(f)

LEMMA StepIs ==
  ASSUME SessionFits, PairsFit, SessionNext
  PROVE  \E p \in Procs : \E c, e, m, f : SessionStep(p, c, e, m, f)
<1> DEFINE Goal == \E p \in Procs : \E c, e, m, f : SessionStep(p, c, e, m, f)
<1>1. /\ \A p \in Procs : \A c, e, m : Pushes(p, c, e, m) => Goal
      /\ \A p \in Procs : \A c : Takes(p, c) \/ Cleans(p, c) => Goal
      /\ \A p \in Procs : \A c, e : Resaves(p, c, e) \/ Rotates(p, c, e) \/ WritesFile(p, c, e)
                                  \/ Forks(p, c, e) => Goal
      /\ \A p \in Procs : Leaves(p) \/ Tears(p) => Goal
      /\ \A p \in Procs : \A f : Deletes(f) => Goal
  BY Zenon DEF SessionStep
<1> HIDE DEF Goal
<1>2. ASSUME NEW p \in Procs, Launch(p) \/ Clear(p) PROVE Goal
  BY <1>1, <1>2, NewTakes
<1>3. ASSUME NEW p \in Procs, Turn(p) PROVE Goal
  BY <1>1, <1>3, TurnPushes
<1>4. ASSUME NEW p \in Procs, NEW n \in 1..MaxUses, AsksForTools(p, n) PROVE Goal
  BY <1>1, <1>4, AsksForToolsPushes
<1>5. ASSUME NEW p \in Procs, ToolResult(p) PROVE Goal
  BY <1>1, <1>5, ToolResultPushes
<1>6. ASSUME NEW p \in Procs, NEW compacts \in BOOLEAN, Answers(p, compacts) PROVE Goal
  BY <1>1, <1>6, AnswersPushes
<1>7. ASSUME NEW p \in Procs, Rotate(p) PROVE Goal
  BY <1>1, <1>7, RotateRotates
<1>8. ASSUME NEW p \in Procs, WriteSnapshot(p) PROVE Goal
  BY <1>1, <1>8, WriteSnapshotWrites
<1>9. ASSUME NEW p \in Procs, CleanUp(p) PROVE Goal
  BY <1>1, <1>9, CleanUpCleans
<1>10. ASSUME NEW p \in Procs, (\E then \in {"idle", "off"} : Save(p, then)) \/ CompactCommand(p)
       PROVE  Goal
  BY <1>1, <1>10, SaveResaves
<1>11. ASSUME NEW p \in Procs, Fork(p) PROVE Goal
  BY <1>1, <1>11, ForkForks
<1>12. ASSUME NEW p \in Procs, AppendTorn(p) PROVE Goal
  BY <1>1, <1>12, AppendTornTears
<1>13. ASSUME NEW p \in Procs,
              \/ ProbeFails(p) \/ StreamFails(p) \/ Kill(p)
              \/ \E i \in DOMAIN files : ResumeFails(p, files[i])
       PROVE  Goal
  <2>1. Leaves(p)
    BY <1>13 DEF Leaves, ProbeFails, StreamFails, Kill, ResumeFails, Counted, History
  <2>2. QED BY <1>1, <2>1
<1>14. ASSUME NEW p \in Procs, NEW i \in DOMAIN files,
              Resume(p, files[i]) \/ ResumedCompact(p, files[i]) \/ ResumedClear(p, files[i])
       PROVE  Goal
  BY <1>1, <1>14, LoadedTakes
<1>15. ASSUME NEW p \in Procs, NEW i \in DOMAIN files, NEW byAlias \in BOOLEAN,
              Delete(p, files[i], byAlias)
       PROVE  Goal
  BY <1>1, <1>15, DeleteDeletes
<1>16. Goal
  BY <1>2, <1>3, <1>4, <1>5, <1>6, <1>7, <1>8, <1>9, <1>10, <1>11, <1>12, <1>13, <1>14, <1>15,
     Zenon DEF SessionNext
<1>17. QED BY <1>16 DEF Goal

LEMMA StepFits ==
  ASSUME SessionFits, PairsFit, NEW p \in Procs, NEW c, NEW e, NEW m, NEW f,
         SessionStep(p, c, e, m, f)
  PROVE  SessionFits' /\ Grows
<1>1. CASE Pushes(p, c, e, m)
  BY <1>1, PushFits
<1>2. CASE Takes(p, c)
  BY <1>2, TakesFits
<1>3. CASE Resaves(p, c, e) \/ Rotates(p, c, e) \/ WritesFile(p, c, e)
  BY <1>3, GoesOnFits
<1>4. CASE Leaves(p) \/ Tears(p) \/ Cleans(p, c) \/ Forks(p, c, e) \/ Deletes(f)
  BY <1>4, OtherStepsFit
<1>5. QED BY <1>1, <1>2, <1>3, <1>4 DEF SessionStep

(***************************************************************************)
(* Calls and answers                                                       *)
(***************************************************************************)
LEMMA PairsStay ==
  ASSUME Grows
  PROVE  /\ \A f : FilePairs(f) /\ done' = done => FilePairs(f)'
         /\ \A c : CliPairs(c) /\ done' = done => CliPairs(c)'
         /\ \A c, f : InStep(c, f) => InStep(c, f)'
         /\ \A c, d : TurnApart(c, d) => TurnApart(c, d)'
<1>1. \A path : Sole(path)' => Sole(path)
  BY DEF Grows, Sole
<1>2. ASSUME NEW f, FilePairs(f), done' = done PROVE FilePairs(f)'
  BY <1>1, <1>2 DEF FilePairs
<1>3. ASSUME NEW c, CliPairs(c), done' = done PROVE CliPairs(c)'
  BY <1>1, <1>3 DEF CliPairs
<1>4. ASSUME NEW c, NEW f, InStep(c, f) PROVE InStep(c, f)'
  BY <1>1, <1>4 DEF InStep
<1>5. ASSUME NEW c, NEW d, TurnApart(c, d) PROVE TurnApart(c, d)'
  BY <1>1, <1>5 DEF TurnApart
<1>6. QED BY <1>2, <1>3, <1>4, <1>5

\* A step of one process: what has to be seen of new files and of that process.
LEMMA StepKeepsPairs ==
  ASSUME PairsFit, Grows, done' = done, NEW p \in Procs,
         \A q \in Procs \ {p} : cli'[q] = cli[q],
         \A f \in OnFile' : \/ f \in OnFile
                            \/ /\ FilePairs(f)'
                               /\ \A q \in Procs \ {p} : \A d \in Running(q) : InStep(d, f)',
         \A x \in Running(p)' :
           /\ CliPairs(x)' /\ \A f \in OnFile' : InStep(x, f)'
           /\ \A q \in Procs \ {p} : \A d \in Running(q) : TurnApart(x, d)' /\ TurnApart(d, x)'
  PROVE  PairsFit'
<1>1. \A q \in Procs \ {p} : Running(q)' = Running(q)
  BY DEF Running
<1>2. \A f \in OnFile' : FilePairs(f)'
  BY PairsStay DEF PairsFit
<1>3. ASSUME NEW q \in Procs \ {p}, NEW d \in Running(q)
      PROVE  CliPairs(d)' /\ \A f \in OnFile' : InStep(d, f)'
  BY PairsStay DEF PairsFit
<1>4. ASSUME NEW q \in Procs \ {p}, NEW r \in Procs \ {q}, NEW d \in Running(q),
             NEW x \in Running(r)'
      PROVE  TurnApart(d, x)'
  <2>1. CASE r = p
    BY <2>1
  <2>2. CASE r # p
    <3>1. TurnApart(d, x)
      BY <1>1, <2>2 DEF PairsFit
    <3>2. QED BY <3>1, PairsStay
  <2>3. QED BY <2>1, <2>2
<1>5. ASSUME NEW q \in Procs, NEW x \in Running(q)'
      PROVE  /\ CliPairs(x)' /\ \A f \in OnFile' : InStep(x, f)'
             /\ \A r \in Procs \ {q} : \A d \in Running(r)' : TurnApart(x, d)'
  <2>1. CASE q = p
    BY <1>1, <2>1
  <2>2. CASE q # p
    BY <1>1, <1>3, <1>4, <2>2
  <2>3. QED BY <2>1, <2>2
<1>6. QED BY <1>2, <1>5 DEF PairsFit

\* The turn of another process is in no session that a process has alone.
LEMMA OthersTurnIs ==
  ASSUME SessionFits, PairsFit, NEW p \in Procs, NEW c \in Running(p),
         NEW q \in Procs \ {p}, NEW d \in Running(q)
  PROVE  /\ Apart(c, d) /\ Apart(d, c) /\ TurnApart(c, d) /\ TurnApart(d, c)
         /\ CliFits(d) /\ CliPairs(d) /\ \A f \in OnFile : InStep(d, f)
         /\ MessagesFit(d.msgs, turn) /\ (d.turn # 0 => d.turn \in 1..turn)
<1>1. CliFits(d) /\ RecordFits(d)
  BY RunningIs
<1>2. QED BY <1>1 DEF SessionFits, PairsFit, CliFits, RecordFits

LEMMA PushKeepsPairs ==
  ASSUME SessionFits, PairsFit, SessionFits', Grows,
         NEW p \in Procs, NEW c, NEW e, NEW m, Pushes(p, c, e, m)
  PROVE  PairsFit'
<1> DEFINE w == Append(c.msgs, m)
<1>1. /\ c \in Running(p) /\ e \in CliTypes /\ cli' = [cli EXCEPT ![p] = e]
      /\ e.path = c.path /\ e.id = c.id /\ e.pc \in Turning \cup {"rotate"}
      /\ m \in Messages /\ m.turns = {e.turn} /\ \A u \in m.uses : u[1] = e.turn
      /\ done' = done /\ shared' = shared /\ c.pc \in {"idle"} \cup Turning
  BY DEF Pushes
<1>2. /\ c \in CliTypes /\ CliFits(c) /\ RecordFits(c) /\ c.msgs \in Seq(Messages)
      /\ c.path \in PathTypes
  BY <1>1, RunningIs
<1>3. Pushed(c, m) /\ TurnsOf(e.msgs) = TurnsOf(c.msgs) \cup {e.turn}
  BY PushFits
<1>4. PICK g \in FileTypes :
        /\ g.path = c.path /\ g \in OnFile'
        /\ OnFile' \subseteq {f \in OnFile : f.path # c.path} \cup {g}
        /\ Sole(c.path) => g.id = c.id /\ g.msgs = w /\ ~g.torn
  BY <1>3 DEF Pushed
<1>5. /\ cli'[p] = e /\ \A q \in Procs \ {p} : cli'[q] = cli[q]
      /\ Running(p)' = {e}
  BY <1>1 DEF Running, SessionFits, SessionTyped, Turning
<1>6. e.turn # 0 /\ e.turn \notin done
  <2>1. CliFits(e)'
    BY <1>5 DEF SessionFits
  <2>2. e.turn # 0
    BY DEF Pushes, SessionFits, SessionTyped
  <2>3. QED BY <1>1, <2>1, <2>2 DEF CliFits
<1>7. w \in Seq(Messages) /\ TurnsOf(w) = TurnsOf(c.msgs) \cup {e.turn}
  BY <1>1, <1>2, AppendProperties, TurnsOfAppend
<1>8. Sole(c.path) => Paired(w, done)
  <2> SUFFICES ASSUME Sole(c.path) PROVE Paired(w, done)
    OBVIOUS
  <2>1. Paired(c.msgs, done)
    BY <1>1 DEF PairsFit, CliPairs
  <2>2. Follows(w)
    <3>1. Follows(c.msgs) /\ (m.role = "tool" => FollowsItsCall(w, Len(c.msgs) + 1))
      BY <2>1 DEF Paired, Pushes
    <3>2. QED BY <1>1, <1>2, <3>1, PairsOfAppend
  <2>3. ASSUME NEW t \in done PROVE Closed(w, t)
    <3>1. Closed(c.msgs, t) /\ \A u \in m.uses : u[1] # t
      BY <1>1, <1>6, <2>1 DEF Paired
    <3>2. QED BY <1>1, <1>2, <3>1, PairsOfAppend
  <2>4. QED BY <2>2, <2>3 DEF Paired
<1>9. /\ e.pc = "tools" => InLoop(e)
      /\ e.pc # "tools" => Closed(w, e.turn)
      /\ e.msgs = w \/ (e.pc = "rotate" /\ ShouldCompact(w) /\ e.msgs = Compacted(w))
  BY DEF Pushes
<1> HIDE DEF w
<1>10. CliPairs(e)'
  <2>1. /\ e.pc # "tools" => Closed(e.msgs, e.turn)
        /\ Paired(w, done) => Paired(e.msgs, done)
    <3>1. ShouldCompact(w) =>
            /\ Follows(w) => Follows(Compacted(w))
            /\ \A t : Closed(w, t) => Closed(Compacted(w), t)
      BY <1>7, CompactedIs
    <3>2. QED BY <1>9, <3>1 DEF Paired
  <2>2. QED BY <1>1, <1>8, <1>9, <2>1 DEF CliPairs, Sole
<1>11. FilePairs(g)'
  BY <1>1, <1>4, <1>8 DEF FilePairs, Sole
<1>12. ASSUME NEW q \in Procs \ {p}, NEW d \in Running(q)
       PROVE  InStep(d, g)' /\ TurnApart(e, d)' /\ TurnApart(d, e)'
  <2>0. turn \in Nat
    BY DEF SessionFits, SessionTyped
  <2>1. /\ Apart(c, d) /\ TurnApart(c, d) /\ TurnApart(d, c)
        /\ MessagesFit(d.msgs, turn)
    BY <1>1, OthersTurnIs
  <2>2. d.turn # 0 => d.turn # e.turn
    <3>1. d \in Running(q)' /\ e \in Running(p)'
      BY <1>5 DEF Running
    <3>2. Apart(e, d)'
      BY <3>1 DEF SessionFits
    <3>3. QED BY <3>2 DEF Apart
  <2>3. TurnApart(e, d)'
    BY <1>1, <1>3, <2>1, <2>2 DEF TurnApart, Sole
  <2>4. InStep(d, g)'
    <3>1. Sole(g.path) =>
            d.path[1] # g.path[1] /\ d.turn \notin TurnsOf(g.msgs) \ {0}
      BY <1>4, <1>7, <2>1, <2>2 DEF Apart, TurnApart
    <3>2. QED BY <1>1, <3>1 DEF InStep, Sole
  <2>5. TurnApart(d, e)'
    <3>1. CASE e.turn = c.turn
      BY <1>1, <2>1, <3>1 DEF TurnApart, Sole
    <3>2. CASE e.turn = turn + 1
      BY <2>0, <2>1, <3>2 DEF TurnApart, MessagesFit
    <3>3. QED BY <3>1, <3>2 DEF Pushes
  <2>6. QED BY <2>3, <2>4, <2>5
<1>13. ASSUME NEW f \in OnFile' PROVE InStep(e, f)'
  <2>1. CASE f = g
    <3>1. Sole(g.path) =>
            /\ e.pc \notin {"rotate", "write"} => g.id = e.id /\ g.msgs = e.msgs /\ ~g.torn
            /\ g.path = e.path
            /\ e.pc \in Saves => Closed(g.msgs, e.turn)
      BY <1>1, <1>4, <1>9 DEF Saves, Turning
    <3>2. QED BY <1>1, <2>1, <3>1 DEF InStep, Sole
  <2>2. CASE f # g
    <3>1. f \in OnFile /\ f.path # c.path
      BY <1>4, <2>2
    <3>2. Sole(f.path) /\ ~f.torn => e.turn \notin TurnsOf(f.msgs)
      <4>1. CASE e.turn = c.turn /\ c.turn # 0
        <5>1. c.pc \in Turning
          BY <1>1, <1>2, <4>1 DEF CliFits
        <5>2. QED BY <1>1, <3>1, <4>1, <5>1 DEF PairsFit, InStep
      <4>2. CASE e.turn = turn + 1
        <5>1. RecordFits(f) /\ turn \in Nat
          BY <3>1, FilesAre DEF SessionFits, SessionTyped
        <5>2. QED BY <4>2, <5>1 DEF RecordFits, MessagesFit
      <4>3. QED BY <4>1, <4>2 DEF Pushes
    <3>3. QED BY <1>1, <3>1, <3>2 DEF InStep, Sole
  <2>3. QED BY <2>1, <2>2
<1>14. \A f \in OnFile' : \/ f \in OnFile
                          \/ /\ FilePairs(f)'
                             /\ \A q \in Procs \ {p} : \A d \in Running(q) : InStep(d, f)'
  BY <1>4, <1>11, <1>12
<1>15. \A x \in Running(p)' :
         /\ CliPairs(x)' /\ \A f \in OnFile' : InStep(x, f)'
         /\ \A q \in Procs \ {p} : \A d \in Running(q) : TurnApart(x, d)' /\ TurnApart(d, x)'
  BY <1>5, <1>10, <1>12, <1>13
<1>16. QED BY <1>1, <1>5, <1>14, <1>15, StepKeepsPairs

LEMMA TakesKeepsPairs ==
  ASSUME SessionFits, PairsFit, SessionFits', Grows, NEW p \in Procs, NEW c, Takes(p, c)
  PROVE  PairsFit'
<1>1. /\ c.turn = 0 /\ c.pc = "rotate" /\ cli' = [cli EXCEPT ![p] = c]
      /\ UNCHANGED <<files, done>> /\ OnFile' = OnFile
  BY DEF Takes, Becomes, OnFile
<1>2. /\ cli'[p] = c /\ \A q \in Procs \ {p} : cli'[q] = cli[q]
      /\ Running(p)' = {c}
  BY <1>1 DEF Running, SessionFits, SessionTyped
<1>3. \/ c.msgs = <<>>
      \/ \E f \in OnFile : /\ ~f.torn /\ c.path = f.path
                           /\ \/ c.msgs = f.msgs
                              \/ ShouldCompact(f.msgs) /\ c.msgs = Compacted(f.msgs)
  BY DEF Takes
<1>4. ASSUME NEW f \in OnFile, ~f.torn, c.path = f.path,
             c.msgs = f.msgs \/ (ShouldCompact(f.msgs) /\ c.msgs = Compacted(f.msgs)),
             Sole(c.path)'
      PROVE  Paired(c.msgs, done) /\ TurnsOf(c.msgs) = TurnsOf(f.msgs) /\ Sole(f.path)
  <2>1. Sole(f.path)
    BY <1>4 DEF Grows, Sole
  <2>2. Paired(f.msgs, done) /\ f.msgs \in Seq(Messages)
    BY <1>4, <2>1, FilesAre DEF PairsFit, FilePairs
  <2>3. CASE c.msgs = f.msgs
    BY <2>1, <2>2, <2>3
  <2>4. CASE ShouldCompact(f.msgs) /\ c.msgs = Compacted(f.msgs)
    BY <2>1, <2>2, <2>4, CompactedIs DEF Paired
  <2>5. QED BY <1>4, <2>3, <2>4
<1>5. CliPairs(c)'
  <2>1. Sole(c.path)' => Paired(c.msgs, done)
    <3>1. CASE c.msgs = <<>>
      BY <3>1 DEF Paired, Follows, Closed
    <3>2. QED BY <1>3, <1>4, <3>1
  <2>2. QED BY <1>1, <2>1 DEF CliPairs
<1>6. \A f \in OnFile' : InStep(c, f)'
  BY <1>1 DEF InStep
<1>7. ASSUME NEW q \in Procs \ {p}, NEW d \in Running(q) PROVE TurnApart(c, d)' /\ TurnApart(d, c)'
  <2>1. TurnApart(d, c)'
    BY <1>1 DEF TurnApart
  <2>2. SUFFICES ASSUME Sole(c.path)', d.turn \in TurnsOf(c.msgs) \ {0} PROVE FALSE
    BY <2>1 DEF TurnApart
  <2>3. c.msgs # <<>>
    BY <2>2 DEF TurnsOf
  <2>4. PICK f \in OnFile : ~f.torn /\ c.path = f.path /\ TurnsOf(c.msgs) = TurnsOf(f.msgs) /\ Sole(f.path)
    BY <1>3, <1>4, <2>2, <2>3
  <2>5. f.path[1] = d.path[1]
    BY <2>2, <2>4 DEF PairsFit, InStep
  <2>6. Apart(c, d)'
    <3>1. d \in Running(q)' /\ c \in Running(p)'
      BY <1>2 DEF Running
    <3>2. QED BY <3>1 DEF SessionFits
  <2>7. QED BY <2>2, <2>4, <2>5, <2>6 DEF Apart
<1>8. QED BY <1>1, <1>2, <1>5, <1>6, <1>7, StepKeepsPairs

LEMMA GoesOnKeepsPairs ==
  ASSUME SessionFits, PairsFit, SessionFits', Grows, NEW p \in Procs, NEW c, NEW e,
         Resaves(p, c, e) \/ Rotates(p, c, e) \/ WritesFile(p, c, e)
  PROVE  PairsFit'
<1>1. /\ c \in Running(p) /\ cli' = [cli EXCEPT ![p] = e] /\ e.path = c.path /\ e.id = c.id
      /\ e.turn = c.turn /\ done' = done /\ shared' = shared
      /\ c.pc \in {"idle", "rotate", "write"} /\ e.pc \in Saves
      /\ c.pc = "idle" \/ e.msgs = c.msgs
      /\ e.msgs = c.msgs \/ (ShouldCompact(c.msgs) /\ e.msgs = Compacted(c.msgs))
  BY DEF Resaves, Rotates, WritesFile, GoesOn, Saves
<1>2. /\ cli'[p] = e /\ \A q \in Procs \ {p} : cli'[q] = cli[q]
      /\ Running(p)' = {e}
  BY <1>1 DEF Running, SessionFits, SessionTyped, Saves
<1>3. CliFits(c) /\ RecordFits(c) /\ c.msgs \in Seq(Messages) /\ c.path \in PathTypes
  BY <1>1, RunningIs
<1>4. CliPairs(c) /\ \A f \in OnFile : InStep(c, f)
  BY <1>1 DEF PairsFit
<1>5. /\ TurnsOf(e.msgs) = TurnsOf(c.msgs)
      /\ \A t : Closed(c.msgs, t) => Closed(e.msgs, t)
      /\ Paired(c.msgs, done) => Paired(e.msgs, done)
  <2>1. CASE e.msgs = c.msgs
    BY <2>1
  <2>2. CASE ShouldCompact(c.msgs) /\ e.msgs = Compacted(c.msgs)
    BY <1>3, <2>2, CompactedIs DEF Paired
  <2>3. QED BY <1>1, <2>1, <2>2
<1>6. c.turn # 0 => Closed(c.msgs, c.turn)
  BY <1>1, <1>4 DEF CliPairs
<1>7. CliPairs(e)'
  BY <1>1, <1>4, <1>5, <1>6 DEF CliPairs, Sole, Saves
<1>8. ASSUME NEW q \in Procs \ {p}, NEW d \in Running(q) PROVE TurnApart(e, d)' /\ TurnApart(d, e)'
  <2>1. TurnApart(c, d) /\ TurnApart(d, c)
    BY <1>1, OthersTurnIs
  <2>2. QED BY <1>1, <1>5, <2>1 DEF TurnApart, Sole
<1>9. ASSUME NEW f \in OnFile, f.path # c.path \/ e.pc \in {"rotate", "write"} PROVE InStep(e, f)'
  <2>1. InStep(c, f)
    BY <1>4
  <2>2. CASE c.turn = 0
    BY <1>1, <1>9, <2>2 DEF InStep
  <2>3. CASE c.turn # 0
    <3>1. c.pc \in Saves
      BY <1>1, <1>3, <2>3 DEF CliFits, Saves
    <3>2. QED BY <1>1, <1>9, <2>1, <3>1 DEF InStep, Sole, Saves, Turning
  <2>4. QED BY <2>2, <2>3
\* What a process puts in place of its file: messages it had, or those of the file.
<1>10. ASSUME NEW g, g \in FileTypes, g.path[1] = c.path[1],
              \/ /\ c.pc # "idle" /\ g.path = c.path /\ g.id = c.id /\ g.msgs = c.msgs
                 /\ ~g.torn
              \/ /\ e.pc = "write" /\ c.pc = "rotate"
                 /\ \E f \in OnFile : f.path = c.path /\ g.msgs = f.msgs /\ g.torn = f.torn
       PROVE  /\ FilePairs(g)' /\ InStep(e, g)'
              /\ \A q \in Procs \ {p} : \A d \in Running(q) : InStep(d, g)'
  <2>1. CASE g.path = c.path /\ g.id = c.id /\ g.msgs = c.msgs /\ ~g.torn /\ c.pc # "idle"
    <3>1. FilePairs(g)'
      BY <1>1, <1>4, <2>1 DEF FilePairs, CliPairs, Sole
    <3>2. InStep(e, g)'
      BY <1>1, <1>6, <2>1 DEF InStep, Turning, Saves
    <3>3. ASSUME NEW q \in Procs \ {p}, NEW d \in Running(q) PROVE InStep(d, g)'
      <4>1. Apart(c, d) /\ TurnApart(c, d)
        BY <1>1, OthersTurnIs
      <4>2. QED BY <1>1, <2>1, <4>1 DEF InStep, Apart, TurnApart, Sole
    <3>4. QED BY <3>1, <3>2, <3>3
  <2>2. ASSUME NEW f \in OnFile, f.path = c.path, g.msgs = f.msgs, g.torn = f.torn,
               e.pc = "write", c.pc = "rotate"
        PROVE  /\ FilePairs(g)' /\ InStep(e, g)'
               /\ \A q \in Procs \ {p} : \A d \in Running(q) : InStep(d, g)'
    <3>1. FilePairs(f) /\ InStep(c, f)
      BY <1>4 DEF PairsFit
    <3>2. FilePairs(g)'
      BY <1>1, <1>10, <2>2, <3>1 DEF FilePairs, Sole
    <3>3. InStep(e, g)'
      BY <1>1, <1>10, <2>2, <3>1 DEF InStep, Turning, Saves, Sole
    <3>4. ASSUME NEW q \in Procs \ {p}, NEW d \in Running(q) PROVE InStep(d, g)'
      <4>1. Apart(c, d) /\ InStep(d, f)
        BY <1>1, OthersTurnIs
      <4>2. QED BY <1>1, <1>10, <2>2, <4>1 DEF InStep, Apart, Sole
    <3>5. QED BY <3>2, <3>3, <3>4
  <2>3. QED BY <1>10, <2>1, <2>2
<1>11. CASE Resaves(p, c, e)
  <2>1. OnFile' = OnFile /\ e.pc = "rotate"
    BY <1>11 DEF Resaves, OnFile
  <2>2. QED BY <1>1, <1>2, <1>7, <1>8, <1>9, <2>1, StepKeepsPairs
<1>12. CASE Rotates(p, c, e)
  <2>1. e.pc = "write" /\ c.pc = "rotate"
    BY <1>12 DEF Rotates
  <2>2. CASE UNCHANGED files
    <3>1. OnFile' = OnFile
      BY <2>2 DEF OnFile
    <3>2. QED BY <1>1, <1>2, <1>7, <1>8, <1>9, <2>1, <3>1, StepKeepsPairs
  <2>3. CASE Renames(c, rotations + 1)
    <3>1. PICK f \in OnFile, g \in FileTypes :
            /\ f.path = c.path /\ g.path = Append(c.path, rotations + 1) /\ g.msgs = f.msgs
            /\ g.torn = f.torn /\ OnFile' = {h \in OnFile : h.path # c.path} \cup {g}
      BY <2>3 DEF Renames
    <3>2. g.path[1] = c.path[1]
      <4>1. c.path \in Seq(Names \cup Nat) /\ c.path # <<>> /\ rotations + 1 \in Names \cup Nat
        BY <1>3 DEF PathTypes, SessionFits, SessionTyped
      <4>2. QED BY <3>1, <4>1
    <3>3. /\ FilePairs(g)' /\ InStep(e, g)'
          /\ \A q \in Procs \ {p} : \A d \in Running(q) : InStep(d, g)'
      BY <1>10, <2>1, <3>1, <3>2
    <3>4. \A h \in OnFile' : InStep(e, h)'
      BY <1>9, <2>1, <3>1, <3>3
    <3>5. QED BY <1>1, <1>2, <1>7, <1>8, <3>1, <3>3, <3>4, StepKeepsPairs
  <2>4. QED BY <1>12, <2>2, <2>3 DEF Rotates
<1>13. CASE WritesFile(p, c, e)
  <2>1. PICK g \in FileTypes :
          /\ g.path = c.path /\ g.id = c.id /\ g.msgs = c.msgs /\ ~g.torn
          /\ OnFile' = {f \in OnFile : f.path # c.path} \cup {g}
    BY <1>13 DEF WritesFile, Stores
  <2>2. c.pc = "write"
    BY <1>13 DEF WritesFile
  <2>3. /\ FilePairs(g)' /\ InStep(e, g)'
        /\ \A q \in Procs \ {p} : \A d \in Running(q) : InStep(d, g)'
    BY <1>10, <2>1, <2>2
  <2>4. \A h \in OnFile' : InStep(e, h)'
    BY <1>9, <2>1, <2>3
  <2>5. QED BY <1>1, <1>2, <1>7, <1>8, <2>1, <2>3, <2>4, StepKeepsPairs
<1>14. QED BY <1>11, <1>12, <1>13

LEMMA CleansKeepsPairs ==
  ASSUME SessionFits, PairsFit, Grows, NEW p \in Procs, NEW c, Cleans(p, c)
  PROVE  PairsFit'
<1>1. /\ c \in Running(p) /\ c.pc = "clean" /\ OnFile' \subseteq OnFile
      /\ done' = done \cup ({c.turn} \ {0}) /\ shared' = shared
  BY DEF Cleans
<1>2. CliPairs(c) /\ (c.turn # 0 => Closed(c.msgs, c.turn)) /\ \A f \in OnFile : InStep(c, f)
  BY <1>1 DEF PairsFit, CliPairs
<1>3. ASSUME NEW msgs, NEW n, MessagesFit(msgs, n), Paired(msgs, done),
             c.turn \in TurnsOf(msgs) \ {0} => Closed(msgs, c.turn)
      PROVE  Paired(msgs, done')
  <2>1. c.turn \notin TurnsOf(msgs) => Closed(msgs, c.turn)
    BY <1>3, ClosedWithout DEF MessagesFit
  <2>2. QED BY <1>1, <1>3, <2>1 DEF Paired
<1>4. ASSUME NEW f \in OnFile' PROVE FilePairs(f)'
  <2>1. FilePairs(f) /\ InStep(c, f) /\ MessagesFit(f.msgs, turn)
    BY <1>1, <1>2, FilesAre DEF PairsFit, RecordFits
  <2>2. SUFFICES ASSUME Sole(f.path), ~f.torn PROVE Paired(f.msgs, done')
    BY <1>1 DEF FilePairs, Sole
  <2>3. Paired(f.msgs, done)
    BY <2>1, <2>2 DEF FilePairs
  <2>4. c.turn \in TurnsOf(f.msgs) \ {0} => Closed(f.msgs, c.turn)
    BY <1>1, <2>1, <2>2 DEF InStep, Saves
  <2>5. QED BY <1>3, <2>1, <2>3, <2>4
<1>5. ASSUME NEW q \in Procs \ {p}, NEW d \in Running(q) PROVE CliPairs(d)'
  <2>1. CliPairs(d) /\ TurnApart(d, c) /\ MessagesFit(d.msgs, turn)
    BY <1>1, OthersTurnIs
  <2>2. Sole(d.path) => Paired(d.msgs, done')
    BY <1>3, <2>1 DEF CliPairs, TurnApart
  <2>3. QED BY <1>1, <2>1, <2>2 DEF CliPairs, Sole
<1>6. ASSUME NEW x \in Running(p)'
      PROVE  /\ x.pc = "idle" /\ x.turn = 0 /\ x.path = c.path /\ x.id = c.id /\ x.msgs = c.msgs
  BY DEF Cleans, Running, Exits, Off, SessionFits, SessionTyped
<1>7. ASSUME NEW x \in Running(p)' PROVE CliPairs(x)' /\ \A f \in OnFile' : InStep(x, f)'
  <2>1. MessagesFit(c.msgs, turn)
    BY <1>1, RunningIs DEF RecordFits
  <2>2. Sole(c.path) => Paired(c.msgs, done')
    BY <1>2, <1>3, <2>1 DEF CliPairs
  <2>3. CliPairs(x)'
    BY <1>1, <1>6, <2>2 DEF CliPairs, Sole
  <2>4. ASSUME NEW f \in OnFile' PROVE InStep(x, f)'
    <3>1. InStep(c, f)
      BY <1>1, <1>2
    <3>2. QED BY <1>1, <1>6, <3>1 DEF InStep, Sole
  <2>5. QED BY <2>3, <2>4
<1>8. /\ \A q \in Procs \ {p} : cli'[q] = cli[q]
      /\ \A q \in Procs \ {p} : Running(q)' = Running(q)
  BY DEF Cleans, Running, Exits, SessionFits, SessionTyped
<1>9. ASSUME NEW q \in Procs, NEW r \in Procs \ {q}, NEW x \in Running(q)', NEW y \in Running(r)'
      PROVE  TurnApart(x, y)'
  <2>1. CASE q = p
    <3>1. TurnApart(c, y)
      BY <1>1, <1>8, <2>1, OthersTurnIs
    <3>2. QED BY <1>1, <1>6, <2>1, <3>1 DEF TurnApart, Sole
  <2>2. CASE r = p
    BY <1>6, <2>2 DEF TurnApart
  <2>3. CASE q # p /\ r # p
    BY <1>1, <1>8, <2>3, OthersTurnIs, PairsStay
  <2>4. QED BY <2>1, <2>2, <2>3
<1>10. ASSUME NEW q \in Procs, NEW x \in Running(q)'
       PROVE  CliPairs(x)' /\ \A f \in OnFile' : InStep(x, f)'
  <2>1. CASE q = p
    BY <1>7, <2>1
  <2>2. CASE q # p
    <3>1. x \in Running(q) /\ \A f \in OnFile : InStep(x, f)
      BY <1>8, <2>2 DEF PairsFit
    <3>2. QED BY <1>1, <1>5, <2>2, <3>1, PairsStay
  <2>3. QED BY <2>1, <2>2
<1>11. QED BY <1>4, <1>9, <1>10 DEF PairsFit

LEMMA OtherStepsKeepPairs ==
  ASSUME SessionFits, PairsFit, Grows, NEW p \in Procs, NEW c, NEW e, NEW f,
         Leaves(p) \/ Tears(p) \/ Cleans(p, c) \/ Forks(p, c, e) \/ Deletes(f)
  PROVE  PairsFit'
<1>1. ASSUME Exits(p)
      PROVE  Running(p)' = {} /\ \A q \in Procs \ {p} : cli'[q] = cli[q]
  BY <1>1 DEF Exits, Running, Off, SessionFits, SessionTyped
<1>2. CASE Leaves(p)
  <2>1. OnFile' = OnFile /\ done' = done /\ Exits(p)
    BY <1>2 DEF Leaves, OnFile
  <2>2. QED BY <1>1, <2>1, StepKeepsPairs
<1>3. CASE Tears(p)
  <2>1. PICK x \in Running(p), o \in OnFile, g \in FileTypes :
          /\ o.path = x.path /\ g.path = x.path /\ g.torn
          /\ OnFile' = {h \in OnFile : h.path # x.path} \cup {g}
    BY <1>3 DEF Tears
  <2>2. shared' = shared /\ done' = done /\ Exits(p)
    BY <1>3 DEF Tears
  <2>3. FilePairs(g)'
    BY <2>1 DEF FilePairs
  <2>4. ASSUME NEW q \in Procs \ {p}, NEW d \in Running(q) PROVE InStep(d, g)'
    <3>1. Apart(x, d)
      BY OthersTurnIs
    <3>2. QED BY <2>1, <2>2, <3>1 DEF InStep, Apart, Sole
  <2>5. QED BY <1>1, <2>1, <2>2, <2>3, <2>4, StepKeepsPairs
<1>4. CASE Forks(p, c, e)
  <2>1. /\ c \in Running(p) /\ cli' = [cli EXCEPT ![p] = e]
        /\ e.msgs = c.msgs /\ e.turn = 0 /\ e.pc = "rotate" /\ e.id \in Names
        /\ e.path = <<e.id>> /\ done' = done
        /\ shared' = shared \cup (IF Sole(c.path) THEN {} ELSE {e.id})
        /\ OnFile' = OnFile
    BY <1>4 DEF Forks, OnFile
  <2>2. /\ cli'[p] = e /\ \A q \in Procs \ {p} : cli'[q] = cli[q]
        /\ Running(p)' = {e}
    BY <2>1 DEF Running, SessionFits, SessionTyped
  <2>3. Sole(e.path)' => Sole(c.path)
    <3>1. e.path[1] = e.id
      BY <2>1
    <3>2. QED BY <2>1, <3>1 DEF Sole
  <2>4. CliPairs(e)'
    BY <2>1, <2>3 DEF CliPairs, PairsFit
  <2>5. \A g \in OnFile' : InStep(e, g)'
    BY <2>1 DEF InStep
  <2>6. ASSUME NEW q \in Procs \ {p}, NEW d \in Running(q)
        PROVE  TurnApart(e, d)' /\ TurnApart(d, e)'
    <3>1. TurnApart(c, d)
      BY <2>1, OthersTurnIs
    <3>2. QED BY <2>1, <2>3, <3>1 DEF TurnApart
  <2>7. QED BY <2>1, <2>2, <2>4, <2>5, <2>6, StepKeepsPairs
<1>5. CASE Deletes(f)
  <2>1. /\ cli' = cli /\ done' = done /\ OnFile' \subseteq OnFile /\ Running(p)' = Running(p)
        /\ \A q \in Procs \ {p} : cli'[q] = cli[q]
    BY <1>5 DEF Deletes, Running
  <2>2. ASSUME NEW x \in Running(p)'
        PROVE  CliPairs(x)' /\ \A g \in OnFile' : InStep(x, g)'
    <3>1. CliPairs(x) /\ \A g \in OnFile : InStep(x, g)
      BY <2>1 DEF PairsFit
    <3>2. QED BY <2>1, <3>1, PairsStay
  <2>3. \A x \in Running(p)' :
          \A q \in Procs \ {p} : \A d \in Running(q) : TurnApart(x, d)' /\ TurnApart(d, x)'
    BY <2>1, OthersTurnIs, PairsStay
  <2>4. QED BY <2>1, <2>2, <2>3, StepKeepsPairs
<1>6. QED BY <1>2, <1>3, <1>4, <1>5, CleansKeepsPairs

LEMMA StepPairs ==
  ASSUME SessionFits, PairsFit, NEW p \in Procs, NEW c, NEW e, NEW m, NEW f,
         SessionStep(p, c, e, m, f)
  PROVE  PairsFit'
<1>1. SessionFits' /\ Grows
  BY StepFits
<1>2. CASE Pushes(p, c, e, m)
  BY <1>1, <1>2, PushKeepsPairs
<1>3. CASE Takes(p, c)
  BY <1>1, <1>3, TakesKeepsPairs
<1>4. CASE Resaves(p, c, e) \/ Rotates(p, c, e) \/ WritesFile(p, c, e)
  BY <1>1, <1>4, GoesOnKeepsPairs
<1>5. CASE Leaves(p) \/ Tears(p) \/ Cleans(p, c) \/ Forks(p, c, e) \/ Deletes(f)
  BY <1>1, <1>5, OtherStepsKeepPairs
<1>6. QED BY <1>2, <1>3, <1>4, <1>5 DEF SessionStep

(***************************************************************************)
(* Paths and what is below them                                            *)
(***************************************************************************)
LEMMA PrefixIs ==
  ASSUME NEW S, NEW s \in Seq(S), NEW t \in Seq(S)
  PROVE  IsPrefix(s, t) <=> Len(s) <= Len(t) /\ \A i \in 1..Len(s) : s[i] = t[i]
<1>1. Len(s) \in Nat /\ Len(t) \in Nat /\ 1 \in Int
  OBVIOUS
<1>2. SUFFICES ASSUME Len(s) <= Len(t)
               PROVE  SubSeq(s, 1, Len(s)) = SubSeq(t, 1, Len(s))
                        <=> \A i \in 1..Len(s) : s[i] = t[i]
  BY DEF IsPrefix
<1> DEFINE n == Len(s)
           u == SubSeq(s, 1, n)
           v == SubSeq(t, 1, n)
<1>3. /\ \A i \in 1..n : s[i] \in S /\ t[i] \in S
      /\ (IF 1 <= n THEN n - 1 + 1 ELSE 0) = n /\ 1..n - 1 + 1 = 1..n
      /\ \A i \in 1..n : 1 + i - 1 = i
  BY <1>1, <1>2
<1>4. /\ u \in Seq(S) /\ Len(u) = IF 1 <= n THEN n - 1 + 1 ELSE 0
      /\ \A i \in 1..n - 1 + 1 : u[i] = s[1 + i - 1]
  BY <1>1, <1>3, SubSeqProperties
<1>5. /\ v \in Seq(S) /\ Len(v) = IF 1 <= n THEN n - 1 + 1 ELSE 0
      /\ \A i \in 1..n - 1 + 1 : v[i] = t[1 + i - 1]
  BY <1>1, <1>3, SubSeqProperties
<1> HIDE DEF u, v
<1> HIDE DEF n
<1>6. /\ Len(u) = n /\ \A i \in 1..n : u[i] = s[i]
      /\ Len(v) = n /\ \A i \in 1..n : v[i] = t[i]
  <2>1. Len(u) = n /\ Len(v) = n
    BY <1>3, <1>4, <1>5
  <2>2. ASSUME NEW i \in 1..n PROVE u[i] = s[i] /\ v[i] = t[i]
    <3>1. i \in 1..n - 1 + 1 /\ 1 + i - 1 = i
      BY <1>3
    <3>2. QED BY <1>4, <1>5, <3>1
  <2>3. QED BY <2>1, <2>2
<1>7. u = v <=> \A i \in 1..n : s[i] = t[i]
  <2>1. u = v => \A i \in 1..n : s[i] = t[i]
    BY <1>6
  <2>2. (\A i \in 1..n : s[i] = t[i]) => u = v
    BY <1>4, <1>5, <1>6, SeqEqual
  <2>3. QED BY <2>1, <2>2
<1>8. QED BY <1>7 DEF n, u, v

\* The path a rotation gives has nothing below it but what was below the old
\* one; none but itself extends it.
LEMMA PathsCompare ==
  ASSUME NEW s \in PathTypes, NEW t \in PathTypes
  PROVE  /\ IsPrefix(s, s)
         /\ IsPrefix(s, t) => s[1] = t[1]
         /\ \A n : t = <<n>> /\ IsPrefix(s, t) => s = t
         /\ \A n \in Nat : IsPrefix(s, Append(t, n)) /\ s # Append(t, n) => IsPrefix(s, t)
         /\ \A n \in Nat : IsPrefix(Append(t, n), s)
              => Len(t) + 1 \in 2..Len(s) /\ s[Len(t) + 1] = n
<1> DEFINE S == Names \cup Nat
<1>1. /\ s \in Seq(S) /\ t \in Seq(S) /\ Len(s) \in Nat /\ Len(t) \in Nat
      /\ 1 <= Len(s) /\ 1 <= Len(t)
  BY DEF PathTypes
<1> HIDE DEF S
<1>2. IsPrefix(s, t) <=> Len(s) <= Len(t) /\ \A i \in 1..Len(s) : s[i] = t[i]
  BY <1>1, PrefixIs
<1>3. IsPrefix(s, s)
  BY <1>1, PrefixIs
<1>4. IsPrefix(s, t) => s[1] = t[1]
  BY <1>1, <1>2
<1>5. ASSUME NEW n, t = <<n>>, IsPrefix(s, t) PROVE s = t
  <2>1. Len(t) = 1
    BY <1>5
  <2>2. Len(s) = 1 /\ s[1] = t[1]
    BY <1>1, <1>4, <1>5, <1>2, <2>1
  <2>3. QED BY <1>1, <2>1, <2>2, SeqEqual
<1>6. ASSUME NEW n \in Nat
      PROVE  /\ IsPrefix(s, Append(t, n)) /\ s # Append(t, n) => IsPrefix(s, t)
             /\ IsPrefix(Append(t, n), s)
                  => Len(t) + 1 \in 2..Len(s) /\ s[Len(t) + 1] = n
  <2> DEFINE u == Append(t, n)
  <2>1. n \in S
    BY DEF S
  <2>2. /\ u \in Seq(S) /\ Len(u) = Len(t) + 1 /\ u[Len(t) + 1] = n
        /\ \A i \in 1..Len(t) : u[i] = t[i]
    BY <1>1, <2>1, AppendProperties
  <2> HIDE DEF u
  <2>3. IsPrefix(s, u) <=> Len(s) <= Len(u) /\ \A i \in 1..Len(s) : s[i] = u[i]
    BY <1>1, <2>2, PrefixIs
  <2>4. IsPrefix(u, s) <=> Len(u) <= Len(s) /\ \A i \in 1..Len(u) : u[i] = s[i]
    BY <1>1, <2>2, PrefixIs
  <2>5. ASSUME IsPrefix(s, u), s # u PROVE IsPrefix(s, t)
    <3>1. CASE Len(s) = Len(u)
      BY <1>1, <2>2, <2>3, <2>5, <3>1, SeqEqual
    <3>2. CASE Len(s) <= Len(t)
      BY <1>1, <1>2, <2>2, <2>3, <2>5, <3>2
    <3>3. QED BY <1>1, <2>2, <2>3, <2>5, <3>1, <3>2
  <2>6. ASSUME IsPrefix(u, s) PROVE Len(t) + 1 \in 2..Len(s) /\ s[Len(t) + 1] = n
    BY <1>1, <2>2, <2>4, <2>6
  <2>7. QED BY <2>5, <2>6 DEF u
<1>7. QED BY <1>3, <1>4, <1>5, <1>6

(***************************************************************************)
(* Turns that ended                                                        *)
(***************************************************************************)
\* The turns of a file that goes are in another of the name.
HeirsStay == \A f \in OnFile : \A t \in TurnsOf(f.msgs) : Heir(t, f.path[1])' =>
  \E g \in OnFile' : g.path[1] = f.path[1] /\ t \in TurnsOf(g.msgs)

\* What two records have in common, their likes have.
LEMMA BelowLike ==
  ASSUME Grows, NEW x, NEW y, NEW u, NEW v, Below(x, y), MessagesFit(x.msgs, turn),
         u.path[1] = x.path[1], TurnsOf(u.msgs) \subseteq TurnsOf(x.msgs),
         IsPrefix(v.path, u.path) => IsPrefix(y.path, x.path),
         TurnsOf(y.msgs) \subseteq TurnsOf(v.msgs)
  PROVE  Below(u, v)'
<1>1. SUFFICES ASSUME IsPrefix(v.path, u.path), NEW t \in TurnsOf(u.msgs), Heir(t, u.path[1])'
               PROVE  t \in TurnsOf(v.msgs)
  BY DEF Below
<1>2. t \in TurnsOf(x.msgs) /\ t \in 1..turn
  BY <1>1 DEF MessagesFit
<1>3. Heir(t, x.path[1])
  BY <1>1, <1>2 DEF Heir, Grows
<1>4. QED BY <1>1, <1>2, <1>3 DEF Below

\* Records of different names, or of a name that two processes had open.
LEMMA BelowNone ==
  ASSUME NEW x, NEW y, x.path \in PathTypes, y.path \in PathTypes,
         x.path[1] = y.path[1] => ~Sole(x.path)'
  PROVE  Below(x, y)' /\ Below(y, x)'
<1>1. /\ IsPrefix(y.path, x.path) => x.path[1] = y.path[1]
      /\ IsPrefix(x.path, y.path) => x.path[1] = y.path[1]
  BY PathsCompare
<1>2. QED BY <1>1 DEF Below, Heir, Sole

LEMMA RecordsAre ==
  ASSUME SessionFits
  PROVE  /\ \A f \in OnFile : MessagesFit(f.msgs, turn) /\ f.path \in PathTypes /\ Numbered(f.path)
         /\ \A q \in Procs : \A d \in Running(q) :
              MessagesFit(d.msgs, turn) /\ d.path \in PathTypes /\ Numbered(d.path)
  BY FilesAre, RunningIs DEF RecordFits

LEMMA StepKeepsTurns ==
  ASSUME SessionFits, TurnsStay, Grows, NEW p \in Procs, HeirsStay,
         \A q \in Procs \ {p} : cli'[q] = cli[q],
         \A q \in Procs \ {p} : \A d \in Running(q) : Stored(d)',
         \A f \in OnFile' :
           \/ f \in OnFile
           \/ /\ \A h \in OnFile' : Below(f, h)' /\ Below(h, f)'
              /\ \A q \in Procs \ {p} : \A d \in Running(q) : Below(f, d)' /\ Below(d, f)',
         \A x \in Running(p)' :
           Stored(x)' /\ \A f \in OnFile' : Below(x, f)' /\ Below(f, x)',
         \A t \in done' \ done : Survives(t)'
  PROVE  TurnsStay'
<1>1. \A q \in Procs \ {p} : Running(q)' = Running(q)
  BY DEF Running
<1>2. /\ \A f \in OnFile : MessagesFit(f.msgs, turn)
      /\ \A q \in Procs : \A d \in Running(q) : MessagesFit(d.msgs, turn)
  BY RecordsAre
<1>3. ASSUME NEW f \in OnFile', NEW h \in OnFile' PROVE Below(f, h)'
  <2>1. CASE f \in OnFile /\ h \in OnFile
    <3>1. Below(f, h)
      BY <2>1 DEF TurnsStay
    <3>2. QED BY <1>2, <2>1, <3>1, BelowLike
  <2>2. QED BY <2>1
<1>4. ASSUME NEW q \in Procs \ {p}, NEW d \in Running(q), NEW f \in OnFile'
      PROVE  Below(f, d)' /\ Below(d, f)'
  <2>1. CASE f \in OnFile
    <3>1. Below(f, d) /\ Below(d, f)
      BY <2>1 DEF TurnsStay
    <3>2. QED BY <1>2, <2>1, <3>1, BelowLike
  <2>2. QED BY <2>1
<1>5. ASSUME NEW q \in Procs, NEW x \in Running(q)'
      PROVE  Stored(x)' /\ \A f \in OnFile' : Below(x, f)' /\ Below(f, x)'
  <2>1. CASE q = p
    BY <2>1
  <2>2. CASE q # p
    BY <1>1, <1>4, <2>2
  <2>3. QED BY <2>1, <2>2
<1>6. ASSUME NEW t \in done PROVE Survives(t)'
  <2>1. t \in 1..turn /\ ranIn'[t] = ranIn[t]
    BY DEF SessionFits, SessionTyped, Grows
  <2>2. SUFFICES ASSUME Heir(t, ranIn[t].path[1])'
                 PROVE  \E g \in OnFile' : g.path[1] = ranIn[t].path[1] /\ t \in TurnsOf(g.msgs)
    BY <2>1 DEF Survives
  <2>3. Heir(t, ranIn[t].path[1])
    BY <2>1, <2>2 DEF Heir, Grows
  <2>4. PICK f \in OnFile : f.path[1] = ranIn[t].path[1] /\ t \in TurnsOf(f.msgs)
    <3>1. Survives(t)
      BY DEF TurnsStay
    <3>2. QED BY <2>3, <3>1 DEF Survives
  <2>5. QED BY <2>1, <2>2, <2>4 DEF HeirsStay, Heir
<1>7. \A t \in done' : Survives(t)'
  BY <1>6
<1>8. QED BY <1>3, <1>5, <1>7 DEF TurnsStay

\* A step that removes only files of the process's own name leaves those that
\* others wrote.
LEMMA OthersAreStored ==
  ASSUME SessionFits, TurnsStay, Grows, NEW p \in Procs, NEW c \in Running(p),
         \A f \in OnFile \ OnFile' :
           f.path[1] = c.path[1] \/ \E g \in OnFile' : g.path = f.path
  PROVE  \A q \in Procs \ {p} : \A d \in Running(q) : Stored(d)'
<1>1. SUFFICES ASSUME NEW q \in Procs \ {p}, NEW d \in Running(q), d.pc = "clean", Sole(d.path)'
               PROVE  (\E f \in OnFile' : f.path = d.path) \/ TurnsOf(d.msgs) \subseteq gone'
  BY DEF Stored
<1>2. Sole(d.path) /\ Stored(d)
  BY <1>1 DEF Grows, Sole, TurnsStay
<1>3. Apart(d, c)
  BY DEF SessionFits
<1>4. CASE \E f \in OnFile : f.path = d.path
  <2>1. PICK f \in OnFile : f.path = d.path
    BY <1>4
  <2>2. f \in OnFile' \/ \E g \in OnFile' : g.path = f.path
    BY <1>2, <1>3, <2>1 DEF Apart
  <2>3. QED BY <2>1, <2>2
<1>5. CASE TurnsOf(d.msgs) \subseteq gone
  BY <1>5 DEF Grows
<1>6. QED BY <1>1, <1>2, <1>4, <1>5 DEF Stored

LEMMA TakesKeepsTurns ==
  ASSUME SessionFits, TurnsStay, Grows, NEW p \in Procs, NEW c, Takes(p, c)
  PROVE  TurnsStay'
<1>1. /\ c.turn = 0 /\ c.pc = "rotate" /\ cli' = [cli EXCEPT ![p] = c]
      /\ done' = done /\ OnFile' = OnFile
  BY DEF Takes, Becomes, OnFile
<1>2. /\ cli'[p] = c /\ \A q \in Procs \ {p} : cli'[q] = cli[q]
      /\ Running(p)' = {c}
  BY <1>1 DEF Running, SessionFits, SessionTyped
<1>3. HeirsStay
  BY <1>1 DEF HeirsStay
<1>4. \A q \in Procs \ {p} : \A d \in Running(q) : Stored(d)'
  <2>1. SUFFICES ASSUME NEW q \in Procs \ {p}, NEW d \in Running(q) PROVE Stored(d)'
    OBVIOUS
  <2>2. Stored(d)
    BY DEF TurnsStay
  <2>3. QED BY <1>1, <2>2 DEF Stored, Sole, Grows
<1>5. /\ \A f \in OnFile : /\ MessagesFit(f.msgs, turn) /\ f.path \in PathTypes
                           /\ f.msgs \in Seq(Messages) /\ f.path[1] \in used
      /\ \A f, g \in OnFile : Below(f, g)
  BY FilesAre, RecordsAre DEF TurnsStay, RecordFits
<1>6. CASE c.msgs = <<>> /\ c.id \in used' \ used /\ c.path = <<c.id>>
  <2>1. c.path \in PathTypes /\ c.path[1] \notin used
    BY <1>6 DEF Takes, PathTypes
  <2>2. \A f \in OnFile : Below(c, f)' /\ Below(f, c)'
    BY <1>5, <2>1, BelowNone
  <2>3. Stored(c)'
    BY <1>1 DEF Stored
  <2>4. QED BY <1>1, <1>2, <1>3, <1>4, <2>2, <2>3, StepKeepsTurns
<1>7. ASSUME NEW f \in OnFile, c.path = f.path,
             \/ c.msgs = <<>> /\ TurnsOf(f.msgs) \subseteq gone'
             \/ c.msgs = f.msgs
             \/ ShouldCompact(f.msgs) /\ c.msgs = Compacted(f.msgs)
      PROVE  TurnsStay'
  <2>1. CASE c.msgs = <<>> /\ TurnsOf(f.msgs) \subseteq gone'
    <3>1. TurnsOf(c.msgs) = {}
      BY <2>1 DEF TurnsOf
    <3>2. ASSUME NEW h \in OnFile PROVE Below(c, h)' /\ Below(h, c)'
      <4>1. Below(c, h)'
        BY <3>1 DEF Below
      <4>2. Below(h, f)'
        BY <1>5, BelowLike
      <4>3. QED BY <1>7, <2>1, <4>1, <4>2 DEF Below, Heir
    <3>3. Stored(c)'
      BY <1>1 DEF Stored
    <3>4. QED BY <1>1, <1>2, <1>3, <1>4, <3>2, <3>3, StepKeepsTurns
  <2>2. CASE TurnsOf(c.msgs) = TurnsOf(f.msgs)
    <3>1. \A h \in OnFile : Below(c, h)' /\ Below(h, c)'
      BY <1>5, <1>7, <2>2, BelowLike
    <3>2. Stored(c)'
      BY <1>1 DEF Stored
    <3>3. QED BY <1>1, <1>2, <1>3, <1>4, <3>1, <3>2, StepKeepsTurns
  <2>3. ShouldCompact(f.msgs) => TurnsOf(Compacted(f.msgs)) = TurnsOf(f.msgs)
    BY <1>5, CompactedIs
  <2>4. QED BY <1>7, <2>1, <2>2, <2>3
<1>8. QED BY <1>6, <1>7 DEF Takes

LEMMA PushKeepsTurns ==
  ASSUME SessionFits, PairsFit, TurnsStay, NEW p \in Procs, NEW c, NEW e, NEW m, Pushes(p, c, e, m)
  PROVE  TurnsStay'
<1>1. /\ c \in Running(p) /\ cli' = [cli EXCEPT ![p] = e] /\ e.path = c.path
      /\ e.pc \in Turning \cup {"rotate"} /\ done' = done /\ shared' = shared
      /\ m \in Messages /\ m.turns = {e.turn}
  BY DEF Pushes
<1>2. /\ SessionFits' /\ Grows /\ Pushed(c, m)
      /\ TurnsOf(e.msgs) = TurnsOf(c.msgs) \cup {e.turn} /\ ranIn'[e.turn].path = c.path
  BY PushFits
<1>3. PICK g \in FileTypes :
        /\ g.path = c.path /\ g \in OnFile'
        /\ OnFile' \subseteq {f \in OnFile : f.path # c.path} \cup {g}
        /\ \A f \in OnFile : f.path # c.path /\ f \notin OnFile' =>
             IsStrictPrefix(c.path, f.path) /\ c.path \notin Paths(files)
        /\ Sole(c.path) => g.id = c.id /\ g.msgs = Append(c.msgs, m) /\ ~g.torn
  BY <1>2 DEF Pushed
<1>4. c.msgs \in Seq(Messages) /\ c.path \in PathTypes /\ MessagesFit(c.msgs, turn)
  BY <1>1, RunningIs DEF RecordFits
<1>5. Sole(c.path) => TurnsOf(g.msgs) = TurnsOf(c.msgs) \cup {e.turn}
  BY <1>1, <1>3, <1>4, TurnsOfAppend
<1>6. /\ cli'[p] = e /\ \A q \in Procs \ {p} : cli'[q] = cli[q]
      /\ Running(p)' = {e}
  BY <1>1 DEF Running, SessionFits, SessionTyped, Turning
<1>7. \A f \in OnFile : Below(c, f) /\ Below(f, c)
  BY <1>1 DEF TurnsStay
\* The process, and its file if it has it alone, have the turn besides; it is
\* looked for below it only if the session's own file is meant.
<1>8. ASSUME NEW u, u.path = c.path, TurnsOf(u.msgs) = TurnsOf(c.msgs) \cup {e.turn},
             NEW h \in OnFile, h.path # c.path
      PROVE  Below(u, h)' /\ Below(h, u)'
  <2>1. MessagesFit(h.msgs, turn) /\ h.path \in PathTypes
    BY RecordsAre
  <2>2. Below(h, u)'
    BY <1>2, <1>7, <1>8, <2>1, BelowLike
  <2>3. Below(c, h)'
    BY <1>2, <1>4, <1>7, BelowLike
  <2>4. SUFFICES ASSUME IsPrefix(h.path, c.path), NEW t \in TurnsOf(u.msgs),
                        Heir(t, c.path[1])'
                 PROVE  t \in TurnsOf(h.msgs)
    BY <1>8, <2>2 DEF Below
  <2>5. CASE t \in TurnsOf(c.msgs)
    BY <2>3, <2>4, <2>5 DEF Below
  <2>6. CASE t = e.turn
    <3>1. c.path = <<c.path[1]>>
      BY <1>2, <2>4, <2>6 DEF Heir
    <3>2. \A n : c.path = <<n>> /\ IsPrefix(h.path, c.path) => h.path = c.path
      BY <1>4, <2>1, PathsCompare
    <3>3. QED BY <1>8, <2>4, <3>1, <3>2
  <2>7. QED BY <1>8, <2>5, <2>6
<1>9. ASSUME NEW u, u.path = c.path, TurnsOf(u.msgs) = TurnsOf(c.msgs) \cup {e.turn},
             NEW v, v.path = c.path, TurnsOf(v.msgs) = TurnsOf(c.msgs) \cup {e.turn}
      PROVE  Below(u, v)'
  BY <1>9 DEF Below
<1>10. ASSUME NEW h \in OnFile', NEW u, u.path = c.path,
              TurnsOf(u.msgs) = TurnsOf(c.msgs) \cup {e.turn}
       PROVE  Below(h, u)' /\ Below(u, h)'
  <2>1. CASE Sole(c.path)
    BY <1>3, <1>5, <1>8, <1>9, <1>10, <2>1
  <2>2. CASE ~Sole(c.path)
    <3>1. h.path \in PathTypes
      BY <1>3, <1>4, RecordsAre
    <3>2. ~Sole(c.path)'
      BY <1>1, <2>2 DEF Sole
    <3>3. QED BY <1>4, <1>10, <3>1, <3>2, BelowNone
  <2>3. QED BY <2>1, <2>2
<1>11. ASSUME NEW h \in OnFile' PROVE Below(h, g)' /\ Below(g, h)'
  <2>1. CASE Sole(c.path)
    BY <1>3, <1>5, <1>10, <2>1
  <2>2. CASE ~Sole(c.path)
    <3>1. h.path \in PathTypes
      BY <1>3, <1>4, RecordsAre
    <3>2. ~Sole(c.path)'
      BY <1>1, <2>2 DEF Sole
    <3>3. QED BY <1>3, <1>4, <3>1, <3>2, BelowNone
  <2>3. QED BY <2>1, <2>2
<1>12. ASSUME NEW q \in Procs \ {p}, NEW d \in Running(q) PROVE Below(g, d)' /\ Below(d, g)'
  <2>1. Apart(c, d) /\ d.path \in PathTypes
    BY <1>1, OthersTurnIs, RecordsAre
  <2>2. QED BY <1>1, <1>3, <1>4, <2>1, BelowNone DEF Apart, Sole
<1>13. HeirsStay
  <2>1. SUFFICES ASSUME NEW f \in OnFile, NEW t \in TurnsOf(f.msgs), Heir(t, f.path[1])'
                 PROVE  \E h \in OnFile' : h.path[1] = f.path[1] /\ t \in TurnsOf(h.msgs)
    BY DEF HeirsStay
  <2>2. CASE f \in OnFile'
    BY <2>2
  <2>3. CASE f \notin OnFile'
    <3>1. f.path \in PathTypes /\ MessagesFit(f.msgs, turn) /\ IsPrefix(c.path, f.path)
      BY <1>3, <1>4, <2>3, RecordsAre, PathsCompare DEF IsStrictPrefix
    <3>2. f.path[1] = c.path[1] /\ Sole(c.path)
      BY <1>1, <1>4, <2>1, <3>1, PathsCompare DEF Heir, Sole
    <3>3. Below(f, c)'
      BY <1>2, <1>7, <3>1, BelowLike
    <3>4. t \in TurnsOf(c.msgs)
      BY <2>1, <3>1, <3>3 DEF Below
    <3>5. QED BY <1>3, <1>5, <3>2, <3>4
  <2>4. QED BY <2>2, <2>3
<1>14. \A q \in Procs \ {p} : \A d \in Running(q) : Stored(d)'
  <2>1. ASSUME NEW f \in OnFile \ OnFile' PROVE f.path[1] = c.path[1]
    <3>1. f.path \in PathTypes /\ (f.path = c.path \/ IsPrefix(c.path, f.path))
      BY <1>3, RecordsAre DEF IsStrictPrefix
    <3>2. QED BY <1>4, <3>1, PathsCompare
  <2>2. QED BY <1>1, <1>2, <2>1, OthersAreStored
<1>15. Stored(e)'
  BY <1>1 DEF Stored, Turning
<1>16. \A f \in OnFile' :
         \/ f \in OnFile
         \/ /\ \A h \in OnFile' : Below(f, h)' /\ Below(h, f)'
            /\ \A q \in Procs \ {p} : \A d \in Running(q) : Below(f, d)' /\ Below(d, f)'
  BY <1>3, <1>11, <1>12
<1>17. \A x \in Running(p)' :
         Stored(x)' /\ \A f \in OnFile' : Below(x, f)' /\ Below(f, x)'
  BY <1>1, <1>2, <1>6, <1>10, <1>15
<1>18. QED BY <1>1, <1>2, <1>6, <1>13, <1>14, <1>16, <1>17, StepKeepsTurns

LEMMA GoesOnKeepsTurns ==
  ASSUME SessionFits, TurnsStay, Grows, NEW p \in Procs, NEW c, NEW e,
         Resaves(p, c, e) \/ Rotates(p, c, e) \/ WritesFile(p, c, e)
  PROVE  TurnsStay'
<1>1. /\ c \in Running(p) /\ cli' = [cli EXCEPT ![p] = e] /\ e.path = c.path
      /\ done' = done /\ shared' = shared /\ e.pc \in Saves
      /\ e.msgs = c.msgs \/ (ShouldCompact(c.msgs) /\ e.msgs = Compacted(c.msgs))
  BY DEF Resaves, Rotates, WritesFile, GoesOn, Saves
<1>2. /\ cli'[p] = e /\ \A q \in Procs \ {p} : cli'[q] = cli[q]
      /\ Running(p)' = {e}
  BY <1>1 DEF Running, SessionFits, SessionTyped, Saves
<1>3. /\ c.msgs \in Seq(Messages) /\ c.path \in PathTypes /\ MessagesFit(c.msgs, turn)
      /\ Numbered(c.path)
  BY <1>1, RunningIs, RecordsAre
<1>4. TurnsOf(e.msgs) = TurnsOf(c.msgs)
  <2>1. ShouldCompact(c.msgs) => TurnsOf(Compacted(c.msgs)) = TurnsOf(c.msgs)
    BY <1>3, CompactedIs
  <2>2. QED BY <1>1, <2>1
<1>5. \A f \in OnFile : Below(c, f) /\ Below(f, c)
  BY <1>1 DEF TurnsStay
<1>6. ASSUME NEW f \in OnFile PROVE Below(e, f)' /\ Below(f, e)'
  <2>1. MessagesFit(f.msgs, turn)
    BY RecordsAre
  <2>2. QED BY <1>1, <1>3, <1>4, <1>5, <2>1, BelowLike
<1>7. CASE OnFile' = OnFile /\ e.pc # "clean"
  <2>1. HeirsStay
    BY <1>7 DEF HeirsStay
  <2>2. \A q \in Procs \ {p} : \A d \in Running(q) : Stored(d)'
    BY <1>1, <1>7, OthersAreStored
  <2>3. Stored(e)'
    BY <1>7 DEF Stored
  <2>4. QED BY <1>1, <1>2, <1>6, <1>7, <2>1, <2>2, <2>3, StepKeepsTurns
<1>8. CASE Renames(c, rotations + 1) /\ rotations' = rotations + 1 /\ e.pc # "clean"
  <2>1. PICK f \in OnFile, g \in FileTypes :
          /\ f.path = c.path /\ g.path = Append(c.path, rotations + 1) /\ g.msgs = f.msgs
          /\ OnFile' = {h \in OnFile : h.path # c.path} \cup {g}
    BY <1>8 DEF Renames
  <2>2. /\ rotations \in Nat /\ rotations + 1 \in Nat /\ ~(rotations + 1 <= rotations)
        /\ g.path \in PathTypes /\ MessagesFit(f.msgs, turn)
    BY RecordsAre DEF SessionFits, SessionTyped, FileTypes
  <2>3. g.path[1] = c.path[1]
    <3>1. c.path \in Seq(Names \cup Nat) /\ c.path # <<>> /\ rotations + 1 \in Names \cup Nat
      BY <1>3, <2>2 DEF PathTypes
    <3>2. QED BY <2>1, <3>1
  <2>4. ASSUME NEW y, y.path \in PathTypes, Numbered(y.path), Below(f, y)
        PROVE  Below(g, y)' /\ Below(y, g)'
    <3>1. y.path # g.path /\ ~IsPrefix(g.path, y.path)
      <4>1. ~IsPrefix(g.path, y.path)
        <5>1. IsPrefix(g.path, y.path) =>
                Len(c.path) + 1 \in 2..Len(y.path) /\ y.path[Len(c.path) + 1] = rotations + 1
          BY <1>3, <2>1, <2>2, <2>4, PathsCompare
        <5>2. QED BY <2>2, <2>4, <5>1 DEF Numbered
      <4>2. IsPrefix(g.path, g.path)
        BY <2>2, PathsCompare
      <4>3. QED BY <4>1, <4>2
    <3>2. Below(y, g)'
      BY <3>1 DEF Below
    <3>3. IsPrefix(y.path, g.path) => IsPrefix(y.path, f.path)
      <4>1. IsPrefix(y.path, Append(c.path, rotations + 1)) /\ y.path # Append(c.path, rotations + 1)
              => IsPrefix(y.path, c.path)
        BY <1>3, <2>2, <2>4, PathsCompare
      <4>2. QED BY <2>1, <3>1, <4>1
    <3>4. Below(g, y)'
      BY <2>1, <2>2, <2>3, <2>4, <3>3, BelowLike
    <3>5. QED BY <3>2, <3>4
  <2>5. ASSUME NEW h \in OnFile PROVE Below(g, h)' /\ Below(h, g)'
    <3>1. h.path \in PathTypes /\ Numbered(h.path) /\ Below(f, h)
      BY RecordsAre DEF TurnsStay
    <3>2. QED BY <2>4, <3>1
  <2>6. Below(g, g)'
    BY DEF Below
  <2>7. ASSUME NEW q \in Procs, NEW d \in Running(q) PROVE Below(g, d)' /\ Below(d, g)'
    <3>1. d.path \in PathTypes /\ Numbered(d.path) /\ Below(f, d)
      BY RecordsAre DEF TurnsStay
    <3>2. QED BY <2>4, <3>1
  <2>8. Below(e, g)' /\ Below(g, e)'
    <3>1. Below(c, g)' /\ Below(g, c)'
      BY <1>1, <2>7
    <3>2. QED BY <1>1, <1>4, <3>1 DEF Below
  <2>9. HeirsStay
    <3>1. \A h \in OnFile : h.path = c.path => h = f
      BY <2>1 DEF SessionFits
    <3>2. QED BY <2>1, <2>3, <3>1 DEF HeirsStay
  <2>10. \A q \in Procs \ {p} : \A d \in Running(q) : Stored(d)'
    <3>1. \A h \in OnFile \ OnFile' : h.path[1] = c.path[1]
      BY <2>1
    <3>2. QED BY <1>1, <3>1, OthersAreStored
  <2>11. Stored(e)'
    BY <1>8 DEF Stored
  <2>12. \A h \in OnFile' :
           \/ h \in OnFile
           \/ /\ \A k \in OnFile' : Below(h, k)' /\ Below(k, h)'
              /\ \A q \in Procs \ {p} : \A d \in Running(q) : Below(h, d)' /\ Below(d, h)'
    BY <2>1, <2>5, <2>6, <2>7
  <2>13. \A h \in OnFile' : Below(e, h)' /\ Below(h, e)'
    BY <1>6, <2>1, <2>8
  <2>14. QED BY <1>1, <1>2, <2>9, <2>10, <2>11, <2>12, <2>13, StepKeepsTurns
<1>9. CASE Stores(c) /\ e.msgs = c.msgs
  <2>1. PICK g \in FileTypes :
          /\ g.path = c.path /\ g.msgs = c.msgs
          /\ OnFile' = {f \in OnFile : f.path # c.path} \cup {g}
    BY <1>9 DEF Stores
  <2>2. ASSUME NEW h \in OnFile PROVE Below(g, h)' /\ Below(h, g)'
    <3>1. Below(e, h)' /\ Below(h, e)'
      BY <1>6
    <3>2. QED BY <1>1, <1>4, <2>1, <3>1 DEF Below
  <2>3. Below(g, g)' /\ Below(e, g)' /\ Below(g, e)'
    BY <1>1, <1>4, <2>1 DEF Below
  <2>4. ASSUME NEW q \in Procs \ {p}, NEW d \in Running(q) PROVE Below(g, d)' /\ Below(d, g)'
    <3>1. Apart(c, d) /\ d.path \in PathTypes
      BY <1>1, RecordsAre DEF SessionFits
    <3>2. QED BY <1>1, <1>3, <2>1, <3>1, BelowNone DEF Apart, Sole
  <2>5. HeirsStay
    <3>1. SUFFICES ASSUME NEW f \in OnFile, NEW t \in TurnsOf(f.msgs), Heir(t, f.path[1])'
                   PROVE  \E h \in OnFile' : h.path[1] = f.path[1] /\ t \in TurnsOf(h.msgs)
      BY DEF HeirsStay
    <3>2. CASE f \in OnFile'
      BY <3>2
    <3>3. CASE f \notin OnFile'
      <4>1. f.path = c.path /\ IsPrefix(f.path, f.path)
        BY <1>3, <2>1, <3>3, PathsCompare
      <4>2. Below(f, e)'
        BY <1>6
      <4>3. t \in TurnsOf(c.msgs)
        BY <1>1, <1>4, <3>1, <4>1, <4>2 DEF Below
      <4>4. QED BY <2>1, <4>1, <4>3
    <3>4. QED BY <3>2, <3>3
  <2>6. \A q \in Procs \ {p} : \A d \in Running(q) : Stored(d)'
    <3>1. \A h \in OnFile \ OnFile' : h.path[1] = c.path[1]
      BY <2>1
    <3>2. QED BY <1>1, <3>1, OthersAreStored
  <2>7. Stored(e)'
    BY <1>1, <2>1 DEF Stored
  <2>8. \A h \in OnFile' :
          \/ h \in OnFile
          \/ /\ \A k \in OnFile' : Below(h, k)' /\ Below(k, h)'
             /\ \A q \in Procs \ {p} : \A d \in Running(q) : Below(h, d)' /\ Below(d, h)'
    BY <2>1, <2>2, <2>3, <2>4
  <2>9. \A h \in OnFile' : Below(e, h)' /\ Below(h, e)'
    BY <1>6, <2>1, <2>3
  <2>10. QED BY <1>1, <1>2, <2>5, <2>6, <2>7, <2>8, <2>9, StepKeepsTurns
<1>10. QED BY <1>7, <1>8, <1>9 DEF Resaves, Rotates, WritesFile, OnFile

LEMMA CleansKeepsTurns ==
  ASSUME SessionFits, TurnsStay, Grows, NEW p \in Procs, NEW c, Cleans(p, c)
  PROVE  TurnsStay'
<1>1. /\ c \in Running(p) /\ c.pc = "clean" /\ OnFile' \subseteq OnFile
      /\ \A f \in OnFile \ OnFile' : IsStrictPrefix(c.path, f.path)
      /\ done' = done \cup ({c.turn} \ {0}) /\ UNCHANGED <<turn, shared, gone, ranIn>>
  BY DEF Cleans
<1>2. /\ \A q \in Procs \ {p} : cli'[q] = cli[q]
      /\ \A x \in Running(p)' :
           x.pc = "idle" /\ x.turn = 0 /\ x.path = c.path /\ x.id = c.id /\ x.msgs = c.msgs
  BY DEF Cleans, Running, Exits, Off, SessionFits, SessionTyped
<1>3. /\ c.path \in PathTypes /\ MessagesFit(c.msgs, turn) /\ CliFits(c)
      /\ Stored(c) /\ \A f \in OnFile : Below(c, f) /\ Below(f, c)
  BY <1>1, RunningIs, RecordsAre DEF TurnsStay
<1>4. \A f \in OnFile \ OnFile' : f.path \in PathTypes /\ f.path[1] = c.path[1]
  BY <1>1, <1>3, RecordsAre, PathsCompare DEF IsStrictPrefix
\* What the process wrote stands for what it removes.
<1>5. ASSUME NEW t \in TurnsOf(c.msgs), Heir(t, c.path[1])
      PROVE  \E g \in OnFile' : g.path[1] = c.path[1] /\ t \in TurnsOf(g.msgs)
  <2>1. PICK g \in OnFile : g.path = c.path
    BY <1>1, <1>3, <1>5 DEF Stored, Heir, Sole
  <2>2. g \in OnFile'
    BY <1>1, <2>1 DEF IsStrictPrefix
  <2>3. Below(c, g) /\ IsPrefix(g.path, c.path)
    BY <1>3, <2>1, PathsCompare
  <2>4. QED BY <1>5, <2>1, <2>2, <2>3 DEF Below
<1>6. HeirsStay
  <2>1. SUFFICES ASSUME NEW f \in OnFile, NEW t \in TurnsOf(f.msgs), Heir(t, f.path[1])
                 PROVE  \E h \in OnFile' : h.path[1] = f.path[1] /\ t \in TurnsOf(h.msgs)
    BY <1>1 DEF HeirsStay, Heir
  <2>2. CASE f \in OnFile'
    BY <2>2
  <2>3. CASE f \notin OnFile'
    <3>1. f.path[1] = c.path[1] /\ Below(f, c) /\ IsPrefix(c.path, f.path)
      BY <1>1, <1>3, <1>4, <2>3 DEF IsStrictPrefix
    <3>2. t \in TurnsOf(c.msgs) /\ Heir(t, c.path[1])
      BY <2>1, <3>1 DEF Below
    <3>3. QED BY <1>5, <3>1, <3>2
  <2>4. QED BY <2>2, <2>3
<1>7. \A q \in Procs \ {p} : \A d \in Running(q) : Stored(d)'
  BY <1>1, <1>4, OthersAreStored
<1>8. \A x \in Running(p)' :
        Stored(x)' /\ \A f \in OnFile' : Below(x, f)' /\ Below(f, x)'
  <2>1. SUFFICES ASSUME NEW x \in Running(p)' PROVE Stored(x)' /\ \A f \in OnFile' : Below(x, f)' /\ Below(f, x)'
    OBVIOUS
  <2>2. Stored(x)'
    BY <1>2 DEF Stored
  <2>3. ASSUME NEW f \in OnFile' PROVE Below(x, f)' /\ Below(f, x)'
    <3>1. f \in OnFile /\ MessagesFit(f.msgs, turn)
      BY <1>1, RecordsAre
    <3>2. QED BY <1>2, <1>3, <3>1, BelowLike
  <2>4. QED BY <2>2, <2>3
<1>9. ASSUME NEW t \in done' \ done PROVE Survives(t)'
  <2>1. t = c.turn /\ t \in TurnsOf(c.msgs) /\ ranIn[t].path = c.path /\ ranIn' = ranIn
    BY <1>1, <1>3, <1>9 DEF CliFits
  <2>2. Heir(t, c.path[1]) => \E g \in OnFile' : g.path[1] = c.path[1] /\ t \in TurnsOf(g.msgs)
    BY <1>5, <2>1
  <2>3. QED BY <1>1, <2>1, <2>2 DEF Survives, Heir
<1>10. QED BY <1>1, <1>2, <1>6, <1>7, <1>8, <1>9, StepKeepsTurns

LEMMA OtherStepsKeepTurns ==
  ASSUME SessionFits, PairsFit, TurnsStay, Grows, NEW p \in Procs, NEW c, NEW e, NEW f,
         Leaves(p) \/ Tears(p) \/ Cleans(p, c) \/ Forks(p, c, e) \/ Deletes(f)
  PROVE  TurnsStay'
<1>1. ASSUME Exits(p)
      PROVE  Running(p)' = {} /\ \A q \in Procs \ {p} : cli'[q] = cli[q]
  BY <1>1 DEF Exits, Running, Off, SessionFits, SessionTyped
<1>2. CASE Leaves(p)
  <2>1. OnFile' = OnFile /\ done' = done /\ Exits(p) /\ shared' = shared /\ gone' = gone
    BY <1>2 DEF Leaves, OnFile
  <2>2. HeirsStay
    BY <2>1 DEF HeirsStay
  <2>3. \A q \in Procs \ {p} : \A d \in Running(q) : Stored(d)'
    BY <2>1 DEF Stored, Sole, TurnsStay
  <2>4. QED BY <1>1, <2>1, <2>2, <2>3, StepKeepsTurns
<1>3. CASE Tears(p)
  <2>1. PICK x \in Running(p), o \in OnFile, g \in FileTypes :
          /\ o.path = x.path /\ g.path = x.path /\ g.msgs = o.msgs
          /\ OnFile' = {h \in OnFile : h.path # x.path} \cup {g}
    BY <1>3 DEF Tears
  <2>2. shared' = shared /\ done' = done /\ Exits(p)
    BY <1>3 DEF Tears
  <2>3. HeirsStay
    <3>1. \A h \in OnFile : h.path = x.path => h = o
      BY <2>1 DEF SessionFits
    <3>2. QED BY <2>1, <3>1 DEF HeirsStay
  <2>4. \A q \in Procs \ {p} : \A d \in Running(q) : Stored(d)'
    <3>1. \A h \in OnFile \ OnFile' : h.path[1] = x.path[1]
      BY <2>1
    <3>2. QED BY <3>1, OthersAreStored
  <2>5. ASSUME NEW y, Below(o, y), Below(y, o), MessagesFit(y.msgs, turn)
        PROVE  Below(g, y)' /\ Below(y, g)'
    <3>1. MessagesFit(o.msgs, turn)
      BY RecordsAre
    <3>2. QED BY <2>1, <2>5, <3>1, BelowLike
  <2>6. \A h \in OnFile : Below(g, h)' /\ Below(h, g)'
    BY <2>5, RecordsAre DEF TurnsStay
  <2>7. Below(g, g)'
    BY DEF Below
  <2>8. \A q \in Procs : \A d \in Running(q) : Below(g, d)' /\ Below(d, g)'
    BY <2>5, RecordsAre DEF TurnsStay
  <2>9. \A h \in OnFile' :
          \/ h \in OnFile
          \/ /\ \A k \in OnFile' : Below(h, k)' /\ Below(k, h)'
             /\ \A q \in Procs \ {p} : \A d \in Running(q) : Below(h, d)' /\ Below(d, h)'
    BY <2>1, <2>6, <2>7, <2>8
  <2>10. QED BY <1>1, <2>2, <2>3, <2>4, <2>9, StepKeepsTurns
<1>4. CASE Forks(p, c, e)
  <2>1. /\ c \in Running(p) /\ cli' = [cli EXCEPT ![p] = e]
        /\ e.pc = "rotate" /\ e.id \in Names \ used /\ e.path = <<e.id>> /\ done' = done
        /\ OnFile' = OnFile
    BY <1>4 DEF Forks, OnFile
  <2>2. /\ cli'[p] = e /\ \A q \in Procs \ {p} : cli'[q] = cli[q]
        /\ Running(p)' = {e}
    BY <2>1 DEF Running, SessionFits, SessionTyped
  <2>3. HeirsStay
    BY <2>1 DEF HeirsStay
  <2>4. \A q \in Procs \ {p} : \A d \in Running(q) : Stored(d)'
    BY <2>1, OthersAreStored
  <2>5. Stored(e)'
    BY <2>1 DEF Stored
  <2>6. ASSUME NEW h \in OnFile PROVE Below(e, h)' /\ Below(h, e)'
    <3>1. e.path \in PathTypes /\ e.path[1] \notin used
      BY <2>1 DEF PathTypes
    <3>2. h.path \in PathTypes /\ h.path[1] \in used
      BY FilesAre DEF RecordFits
    <3>3. QED BY <3>1, <3>2, BelowNone
  <2>7. QED BY <2>1, <2>2, <2>3, <2>4, <2>5, <2>6, StepKeepsTurns
<1>5. CASE Deletes(f)
  <2>1. /\ cli' = cli /\ done' = done /\ shared' = shared
        /\ OnFile' = {h \in OnFile : h.path # f.path} /\ f \in OnFile
        /\ gone' = gone \cup TurnsOf(f.msgs) /\ \A q \in Procs : Running(q)' = Running(q)
        /\ \A q \in Procs \ {p} : cli'[q] = cli[q]
    BY <1>5 DEF Deletes, Running
  <2>2. \A h \in OnFile : h.path = f.path => h = f
    BY <2>1 DEF SessionFits
  <2>3. HeirsStay
    BY <2>1, <2>2 DEF HeirsStay, Heir
  <2>4. ASSUME NEW q \in Procs, NEW d \in Running(q) PROVE Stored(d)'
    <3>1. SUFFICES ASSUME d.pc = "clean", Sole(d.path)
                   PROVE  (\E h \in OnFile' : h.path = d.path) \/ TurnsOf(d.msgs) \subseteq gone'
      BY <2>1 DEF Stored, Sole
    <3>2. Stored(d) /\ InStep(d, f)
      BY <2>1 DEF TurnsStay, PairsFit
    <3>3. CASE d.path = f.path
      <4>1. f.msgs = d.msgs
        BY <3>1, <3>2, <3>3 DEF InStep
      <4>2. QED BY <2>1, <4>1
    <3>4. CASE d.path # f.path
      BY <2>1, <3>1, <3>2, <3>4 DEF Stored
    <3>5. QED BY <3>3, <3>4
  <2>5. ASSUME NEW x \in Running(p), NEW h \in OnFile' PROVE Below(x, h)' /\ Below(h, x)'
    <3>1. Below(x, h) /\ Below(h, x) /\ MessagesFit(x.msgs, turn) /\ MessagesFit(h.msgs, turn)
      BY <2>1, RecordsAre DEF TurnsStay
    <3>2. QED BY <3>1, BelowLike
  <2>6. QED BY <2>1, <2>3, <2>4, <2>5, StepKeepsTurns
<1>6. QED BY <1>2, <1>3, <1>4, <1>5, CleansKeepsTurns

LEMMA StepTurns ==
  ASSUME SessionFits, PairsFit, TurnsStay, NEW p \in Procs, NEW c, NEW e, NEW m, NEW f,
         SessionStep(p, c, e, m, f)
  PROVE  TurnsStay'
<1>1. SessionFits' /\ Grows
  BY StepFits
<1>2. CASE Pushes(p, c, e, m)
  BY <1>2, PushKeepsTurns
<1>3. CASE Takes(p, c)
  BY <1>1, <1>3, TakesKeepsTurns
<1>4. CASE Resaves(p, c, e) \/ Rotates(p, c, e) \/ WritesFile(p, c, e)
  BY <1>1, <1>4, GoesOnKeepsTurns
<1>5. CASE Leaves(p) \/ Tears(p) \/ Cleans(p, c) \/ Forks(p, c, e) \/ Deletes(f)
  BY <1>1, <1>5, OtherStepsKeepTurns
<1>6. QED BY <1>2, <1>3, <1>4, <1>5 DEF SessionStep

(***************************************************************************)
(* The theorems                                                            *)
(***************************************************************************)
LEMMA SessionStarts ==
  ASSUME SessionInit
  PROVE  SessionInv
<1>1. /\ files = <<>> /\ cli = [p \in Procs |-> Off] /\ used = {} /\ turn = 0
      /\ rotations = 0 /\ done = {} /\ shared = {}
      /\ ranIn = [t \in Turns |-> [id |-> NoName, path |-> <<>>]]
      /\ inherits = [n \in Names |-> {}]
  BY DEF SessionInit
<1>2. OnFile = {} /\ \A p \in Procs : Running(p) = {}
  BY <1>1 DEF OnFile, Range, Running, Off
<1>3. Off \in CliTypes
  BY DEF Off, CliTypes
<1>4. SessionTyped
  <2>1. files \in Seq(FileTypes) /\ cli \in [Procs -> CliTypes]
    BY <1>1, <1>3
  <2>2. turn \in 0..MaxTurns /\ done \subseteq 1..turn /\ rotations \in Nat
    BY <1>1, SessionAssumption
  <2>3. ranIn \in [Turns -> [id : Names \cup {NoName}, path : Seq(Names \cup Nat)]]
    BY <1>1
  <2>4. QED BY <1>1, <2>1, <2>2, <2>3 DEF SessionTyped
<1>5. SessionFits
  BY <1>2, <1>4 DEF SessionFits
<1>6. PairsFit
  BY <1>2 DEF PairsFit
<1>7. TurnsStay
  BY <1>1, <1>2 DEF TurnsStay
<1>8. QED BY <1>5, <1>6, <1>7 DEF SessionInv

LEMMA SessionStays ==
  ASSUME SessionInv, [SessionNext]_sessionVars
  PROVE  SessionInv'
<1>1. CASE SessionNext
  <2>1. PICK p \in Procs : \E c, e, m, f : SessionStep(p, c, e, m, f)
    BY <1>1, StepIs DEF SessionInv
  <2>2. PICK c, e, m, f : SessionStep(p, c, e, m, f)
    BY <2>1
  <2>3. QED BY <2>2, StepFits, StepPairs, StepTurns DEF SessionInv
<1>2. CASE UNCHANGED sessionVars
  <2>1. SessionFits'
    BY <1>2 DEF SessionInv, SessionFits, SessionTyped, RecordFits, CliFits, Apart, Running, OnFile,
                Sole, Numbered, MessagesFit, Owns, sessionVars
  <2>2. PairsFit'
    BY <1>2 DEF SessionInv, PairsFit, FilePairs, CliPairs, InStep, TurnApart, Running, OnFile,
                Sole, sessionVars
  <2>3. TurnsStay'
    BY <1>2 DEF SessionInv, TurnsStay, Below, Stored, Survives, Heir, Running, OnFile, Sole,
                sessionVars
  <2>4. QED BY <2>1, <2>2, <2>3 DEF SessionInv
<1>3. QED BY <1>1, <1>2

\* The invariant of the sessions holds in every state of every behaviour.
THEOREM SessionsHold == SessionSpec => []SessionInv
<1>1. SessionInit => SessionInv
  BY SessionStarts
<1>2. SessionInv /\ [SessionNext]_sessionVars => SessionInv'
  BY SessionStays
<1>3. QED BY <1>1, <1>2, PTL DEF SessionSpec

\* A file holds turns of the session it names and those it was forked with: a
\* fork, /clear or a switch never writes into the file it left.
THEOREM FilesAreOwn == SessionSpec => []FileIsOwn
<1>1. SessionInv => FileIsOwn
  <2>1. SUFFICES ASSUME SessionInv, NEW i \in DOMAIN files, NEW t \in TurnsOf(files[i].msgs)
                 PROVE  \/ ranIn[t].id = files[i].id \/ t \in inherits[files[i].id]
                        \/ files[i].path[1] \in shared
    BY DEF FileIsOwn
  <2>2. files[i] \in OnFile
    BY DEF OnFile, Range
  <2>3. Owns(files[i])
    BY <2>1, <2>2 DEF SessionInv, SessionFits, RecordFits
  <2>4. QED BY <2>3 DEF Owns, Sole
<1>2. QED BY <1>1, SessionsHold, PTL

\* Whatever was compacted, saved, rotated and resumed, a request that goes out
\* has its tool results behind their calls, and a call without a result is of a
\* turn that did not end.
THEOREM RequestsArePaired == SessionSpec => []RequestIsPaired
<1>1. SessionInv => RequestIsPaired
  <2>1. SUFFICES ASSUME SessionInv, NEW p \in Procs, cli[p].pc = "request",
                        cli[p].path[1] \notin shared, NEW i \in DOMAIN cli[p].msgs
                 PROVE  /\ cli[p].msgs[i].role = "tool" => FollowsItsCall(cli[p].msgs, i)
                        /\ cli[p].msgs[i].role = "assistant" =>
                             \A use \in cli[p].msgs[i].uses :
                               Answered(cli[p].msgs, i, use) \/ use[1] \notin done
    BY DEF RequestIsPaired
  <2>2. cli[p] \in Running(p) /\ Sole(cli[p].path)
    BY <2>1 DEF Running, Sole
  <2>3. Paired(cli[p].msgs, done)
    BY <2>1, <2>2 DEF SessionInv, PairsFit, CliPairs
  <2>4. QED BY <2>3 DEF Paired, Follows, Closed
<1>2. QED BY <1>1, SessionsHold, PTL

\* A turn that was answered and saved in the session's own file is in a file as
\* long as no second process opened the session and the user did not remove it:
\* a crash between the rename and the snapshot, or while old logs are removed,
\* never loses it.
THEOREM TurnsSurvive == SessionSpec => []CompletedTurnsSurvive
<1>1. SessionInv => CompletedTurnsSurvive
  <2>1. SUFFICES ASSUME SessionInv, NEW t \in done \ gone, ranIn[t].path[1] \notin shared,
                        Len(ranIn[t].path) = 1
                 PROVE  \E i \in DOMAIN files : t \in TurnsOf(files[i].msgs)
    BY DEF CompletedTurnsSurvive
  <2>2. ranIn[t].path = <<ranIn[t].path[1]>>
    <3>1. t \in Turns
      BY <2>1, SessionAssumption DEF SessionInv, SessionFits, SessionTyped, Turns
    <3>2. ranIn[t].path \in Seq(Names \cup Nat)
      BY <2>1, <3>1 DEF SessionInv, SessionFits, SessionTyped
    <3>3. QED BY <2>1, <3>2
  <2>3. Heir(t, ranIn[t].path[1])
    BY <2>1, <2>2 DEF Heir
  <2>4. Survives(t)
    BY <2>1 DEF SessionInv, TurnsStay
  <2>5. PICK f \in OnFile : t \in TurnsOf(f.msgs)
    BY <2>3, <2>4 DEF Survives
  <2>6. QED BY <2>5 DEF OnFile, Range
<1>2. QED BY <1>1, SessionsHold, PTL

(***************************************************************************)
(* The types of the sessions: no path has two files, shared names were     *)
(* given out, and calls wait only in the tool loop.                        *)
(***************************************************************************)
NoneWaits(c) == c.pc # "tools" => c.todo = {}
SessionTypes ==
  SessionInv /\ OneFileEach(files) /\ shared \subseteq used /\ \A p \in Procs : NoneWaits(cli[p])

LEMMA WithoutIsApart ==
  ASSUME NEW S, NEW fs \in Seq(S), NEW gonePaths, OneFileEach(fs)
  PROVE  OneFileEach(Without(fs, gonePaths))
BY OfPathsIs DEF Without

LEMMA WrittenIsApart ==
  ASSUME NEW S, NEW fs \in Seq(S), NEW file, OneFileEach(fs)
  PROVE  Written(fs, file) \in Seq(Range(fs) \cup {file}) /\ OneFileEach(Written(fs, file))
<1> DEFINE T == Range(fs) \cup {file}
           rest == Without(fs, {file.path})
<1>1. fs \in Seq(T)
  <2>1. Len(fs) \in Nat /\ fs = [i \in 1..Len(fs) |-> fs[i]] /\ \A i \in 1..Len(fs) : fs[i] \in T
    BY DEF Range
  <2>2. QED BY <2>1
<1>2. file \in T
  OBVIOUS
<1> HIDE DEF T
<1>3. rest \in Seq(T) /\ Range(rest) = {f \in Range(fs) : f.path \notin {file.path}}
  BY <1>1, WithoutIs
<1>4. OneFileEach(rest)
  BY WithoutIsApart
<1> HIDE DEF rest
<1>5. OneFileEach(Append(rest, file)) /\ Append(rest, file) \in Seq(T)
  <2>1. \A g \in Range(rest) : g.path # file.path
    BY <1>3
  <2>2. QED BY <1>2, <1>3, <1>4, <2>1, AppendIsApart, AppendProperties
<1>6. QED BY <1>5 DEF Written, rest, T

LEMMA CleanedIsApart ==
  ASSUME NEW S, NEW fs \in Seq(S), NEW path, OneFileEach(fs)
  PROVE  OneFileEach(Cleaned(fs, path))
BY WithoutIsApart DEF Cleaned

LEMMA AppendedIsApart ==
  ASSUME NEW fs \in Seq(FileTypes), NEW c, NEW msgs, OneFileEach(fs)
  PROVE  OneFileEach(Appended(fs, c, msgs))
<1>1. \A file : /\ OneFileEach(Written(fs, file))
                /\ OneFileEach(Cleaned(Written(fs, file), c.log))
  BY WrittenIsApart, CleanedIsApart
<1>2. QED BY <1>1, Zenon DEF Appended

\* A rotated log has a number that no file had.
LEMMA RotatedIsApart ==
  ASSUME NEW fs \in Seq(FileTypes), NEW path \in PathTypes, rotations \in Nat, OneFileEach(fs),
         \A f \in Range(fs) : f.path \in PathTypes /\ Numbered(f.path)
  PROVE  OneFileEach(Rotated(fs, path, rotations + 1))
<1> DEFINE new == Append(path, rotations + 1)
           logs == Rotated(fs, path, rotations + 1)
<1>1. ASSUME NEW f \in Range(fs) PROVE f.path # new
  <2>1. path \in Seq(Names \cup Nat) /\ path # <<>> /\ Len(path) \in Nat
    BY DEF PathTypes
  <2>2. Len(new) = Len(path) + 1 /\ new[Len(path) + 1] = rotations + 1
    BY <2>1, AppendProperties
  <2>3. Len(path) + 1 \in 2..Len(path) + 1
    BY <2>1
  <2>4. ~(rotations + 1 <= rotations)
    OBVIOUS
  <2> HIDE DEF new
  <2>5. QED BY <2>2, <2>3, <2>4 DEF Numbered
<1> HIDE DEF new
<1>2. /\ DOMAIN logs = DOMAIN fs
      /\ \A i \in DOMAIN fs : logs[i].path = IF fs[i].path = path THEN new ELSE fs[i].path
  <2>1. \A i \in DOMAIN fs : fs[i] \in FileTypes
    OBVIOUS
  <2>2. \A f \in FileTypes : [f EXCEPT !.path = new].path = new
    BY DEF FileTypes
  <2>3. QED BY <2>1, <2>2 DEF Rotated, new
<1> HIDE DEF logs
<1>3. \A i \in DOMAIN fs : fs[i] \in Range(fs)
  BY DEF Range
<1>4. QED BY <1>1, <1>2, <1>3 DEF OneFileEach, logs

LEMMA FilesStayApart ==
  ASSUME SessionInv, OneFileEach(files), NEW p \in Procs,
         \/ Turn(p) \/ ToolResult(p) \/ (\E n \in 1..MaxUses : AsksForTools(p, n))
         \/ (\E compacts \in BOOLEAN : Answers(p, compacts))
         \/ Rotate(p) \/ WriteSnapshot(p) \/ CleanUp(p) \/ AppendTorn(p)
         \/ (\E i \in DOMAIN files, byAlias \in BOOLEAN : Delete(p, files[i], byAlias))
         \/ UNCHANGED files
  PROVE  OneFileEach(files')
<1>1. files \in Seq(FileTypes) /\ rotations \in Nat
  BY DEF SessionInv, SessionFits, SessionTyped
<1>2. CASE \E msgs : files' = Appended(files, cli[p], msgs)
  BY <1>1, <1>2, AppendedIsApart
<1>3. CASE Rotate(p)
  <2>1. CASE Large(files, cli[p].path)
    <3>1. files' = Rotated(files, cli[p].path, rotations + 1)
      BY <1>3, <2>1 DEF Rotate
    <3>2. \A f \in Range(files) : f.path \in PathTypes /\ Numbered(f.path)
      BY DEF SessionInv, SessionFits, RecordFits, OnFile
    <3>3. cli[p].path \in PathTypes
      BY <1>3, RunningIs DEF SessionInv, Running, Rotate
    <3>4. QED BY <1>1, <3>1, <3>2, <3>3, RotatedIsApart
  <2>2. CASE ~Large(files, cli[p].path)
    BY <1>3, <2>2 DEF Rotate
  <2>3. QED BY <2>1, <2>2
<1>4. CASE \E file : files' = Written(files, file)
  BY <1>1, <1>4, WrittenIsApart
<1>5. CASE CleanUp(p)
  BY <1>1, <1>5, CleanedIsApart DEF CleanUp
<1>6. CASE \E paths : files' = Without(files, paths)
  BY <1>1, <1>6, WithoutIsApart
<1>7. CASE Turn(p) \/ ToolResult(p) \/ (\E n \in 1..MaxUses : AsksForTools(p, n))
           \/ (\E compacts \in BOOLEAN : Answers(p, compacts))
  <2>1. \E msgs : files' = Appended(files, cli[p], msgs)
    BY <1>7, Zenon DEF Turn, ToolResult, AsksForTools, Answers
  <2>2. QED BY <1>2, <2>1
<1>8. CASE WriteSnapshot(p) \/ AppendTorn(p)
  <2>1. \E file : files' = Written(files, file)
    BY <1>8, Zenon DEF WriteSnapshot, AppendTorn
  <2>2. QED BY <1>4, <2>1
<1>9. CASE \E i \in DOMAIN files, byAlias \in BOOLEAN : Delete(p, files[i], byAlias)
  <2>1. \E paths : files' = Without(files, paths)
    BY <1>9, Zenon DEF Delete
  <2>2. QED BY <1>6, <2>1
<1>10. QED BY <1>3, <1>5, <1>7, <1>8, <1>9

\* A session that is new or was read has no calls.
LEMMA TakenUpIsQuiet ==
  ASSUME NEW id, NEW path, NEW msgs, NEW compacted, NEW then
  PROVE  LET c == Saving(Session(id, path, msgs, compacted), then)
         IN c.pc = "rotate" /\ c.todo = {}
BY DEF Saving, Session, Off

LEMMA WaitsOnlyForTools ==
  ASSUME SessionInv, \A p \in Procs : NoneWaits(cli[p]), SessionNext
  PROVE  \A p \in Procs : NoneWaits(cli'[p])
<1>1. cli \in [Procs -> CliTypes]
  BY DEF SessionInv, SessionFits, SessionTyped
<1>2. NoneWaits(Off)
  BY DEF NoneWaits, Off
<1>3. SUFFICES ASSUME NEW p \in Procs,
                      cli' # cli => \E c : NoneWaits(c) /\ cli' = [cli EXCEPT ![p] = c]
               PROVE  \A q \in Procs : NoneWaits(cli'[q])
  <2> DEFINE Goal == \E p \in Procs :
               cli' # cli => \E c : NoneWaits(c) /\ cli' = [cli EXCEPT ![p] = c]
  <2>1. \A p \in Procs : \A c : NoneWaits(c) /\ cli' = [cli EXCEPT ![p] = c] => Goal
    OBVIOUS
  <2>2. cli' = cli /\ Procs # {} => Goal
    OBVIOUS
  <2> HIDE DEF Goal
  <2>3. ASSUME NEW p \in Procs, Launch(p) \/ Clear(p) PROVE Goal
    BY <2>1, <2>3, TakenUpIsQuiet DEF Launch, Clear, Becomes, NoneWaits
  <2>4. ASSUME NEW p \in Procs, NEW i \in DOMAIN files,
               Resume(p, files[i]) \/ ResumedCompact(p, files[i]) \/ ResumedClear(p, files[i])
        PROVE  Goal
    BY <2>1, <2>4, TakenUpIsQuiet
       DEF Resume, ResumedCompact, ResumedClear, Loaded, Becomes, NoneWaits
  <2>5. ASSUME NEW p \in Procs, \/ ProbeFails(p) \/ StreamFails(p) \/ Kill(p) \/ AppendTorn(p)
                                \/ (\E i \in DOMAIN files : ResumeFails(p, files[i]))
        PROVE  Goal
    BY <1>2, <2>1, <2>5 DEF ProbeFails, StreamFails, Kill, AppendTorn, ResumeFails, Exits
  <2>6. ASSUME NEW p \in Procs, NEW i \in DOMAIN files, NEW byAlias \in BOOLEAN,
               Delete(p, files[i], byAlias)
        PROVE  Goal
    BY <2>2, <2>6 DEF Delete
  <2>7. ASSUME NEW p \in Procs, Turn(p) PROVE Goal
    <3> DEFINE e == [cli[p] EXCEPT !.msgs = Append(cli[p].msgs, Message("user", {turn'}, {})),
                                   !.turn = turn', !.pc = "request"]
    <3>1. cli' = [cli EXCEPT ![p] = e] /\ cli[p].pc = "idle" /\ NoneWaits(cli[p])
      BY <1>1, <2>7 DEF Turn
    <3>2. e.pc = "request" /\ e.todo = cli[p].todo
      BY <1>1 DEF CliTypes
    <3> HIDE DEF e
    <3>3. QED BY <2>1, <3>1, <3>2 DEF NoneWaits
  <2>8. ASSUME NEW p \in Procs, NEW n \in 1..MaxUses, AsksForTools(p, n) PROVE Goal
    <3> DEFINE asked == {cli[p].turn} \X (1..n)
               e == [cli[p] EXCEPT
                       !.msgs = Append(cli[p].msgs, Message("assistant", {cli[p].turn}, asked)),
                       !.todo = asked, !.pc = "tools"]
    <3>1. cli' = [cli EXCEPT ![p] = e]
      BY <1>1, <2>8 DEF AsksForTools
    <3>2. e.pc = "tools"
      BY <1>1 DEF CliTypes
    <3> HIDE DEF e
    <3>3. QED BY <2>1, <3>1, <3>2 DEF NoneWaits
  <2>9. ASSUME NEW p \in Procs, ToolResult(p) PROVE Goal
    <3> DEFINE use == CHOOSE u \in cli[p].todo : \A v \in cli[p].todo : u[2] <= v[2]
               left == cli[p].todo \ {use}
               e == [cli[p] EXCEPT !.msgs = Append(cli[p].msgs, Message("tool", {cli[p].turn}, {use})),
                                   !.todo = left, !.pc = IF left = {} THEN "request" ELSE "tools"]
    <3> DEFINE msgs == Append(cli[p].msgs, Message("tool", {cli[p].turn}, {use}))
               next == IF left = {} THEN "request" ELSE "tools"
    <3>0. cli' = [cli EXCEPT ![p].msgs = msgs, ![p].todo = left, ![p].pc = next]
      BY <2>9, Zenon DEF ToolResult
    <3> HIDE DEF use, msgs
    <3>1. cli' = [cli EXCEPT ![p] = e]
      BY <1>1, <3>0 DEF msgs
    <3>2. e.todo = left /\ e.pc = IF left = {} THEN "request" ELSE "tools"
      BY <1>1 DEF CliTypes
    <3> HIDE DEF e, left
    <3>3. QED BY <2>1, <3>1, <3>2 DEF NoneWaits
  <2>10. ASSUME NEW p \in Procs, NEW e \in CliTypes, NoneWaits(e), e.pc # "tools",
                NEW msgs, NEW compacted, NEW then
         PROVE  /\ NoneWaits(Saving(e, then))
                /\ NoneWaits(Saving([e EXCEPT !.msgs = msgs, !.compacted = compacted], then))
    BY <2>10 DEF NoneWaits, Saving, CliTypes
  <2>11. ASSUME NEW p \in Procs, \/ (\E compacts \in BOOLEAN : Answers(p, compacts))
                                 \/ CompactCommand(p)
         PROVE  Goal
    <3>1. cli[p] \in CliTypes /\ NoneWaits(cli[p]) /\ cli[p].pc # "tools"
      BY <1>1, <2>11 DEF Answers, CompactCommand
    <3>2. \E msgs, compacted :
            cli' = [cli EXCEPT ![p] =
                      Saving([cli[p] EXCEPT !.msgs = msgs, !.compacted = compacted], "idle")]
      <4>1. CASE \E compacts \in BOOLEAN : Answers(p, compacts)
        BY <4>1, Zenon DEF Answers
      <4>2. CASE CompactCommand(p)
        BY <4>2, Zenon DEF CompactCommand
      <4>3. QED BY <2>11, <4>1, <4>2
    <3>3. QED BY <2>1, <2>10, <3>1, <3>2
  <2>12. ASSUME NEW p \in Procs, \E then \in {"idle", "off"} : Save(p, then) PROVE Goal
    <3>1. cli[p] \in CliTypes /\ NoneWaits(cli[p]) /\ cli[p].pc # "tools"
      BY <1>1, <2>12 DEF Save
    <3>2. \E then : cli' = [cli EXCEPT ![p] = Saving(cli[p], then)]
      BY <1>1, <2>12 DEF Save
    <3>3. QED BY <2>1, <2>10, <3>1, <3>2
  <2>13. ASSUME NEW p \in Procs, Fork(p) PROVE Goal
    <3> DEFINE e == Forked(cli[p], Fresh)
    <3>1. cli[p] \in CliTypes /\ NoneWaits(cli[p]) /\ cli[p].pc = "idle"
      BY <1>1, <2>13 DEF Fork
    <3>2. cli' = [cli EXCEPT ![p] = Saving(e, "idle")]
      BY <1>1, <2>13 DEF Fork
    <3>3. Saving(e, "idle").pc = "rotate" /\ Saving(e, "idle").todo = cli[p].todo
      BY <3>1 DEF Saving, Forked, CliTypes
    <3> HIDE DEF e
    <3>4. QED BY <2>1, <3>1, <3>2, <3>3 DEF NoneWaits
  <2>14. ASSUME NEW p \in Procs, Rotate(p) \/ WriteSnapshot(p) PROVE Goal
    <3>1. cli[p] \in CliTypes /\ NoneWaits(cli[p]) /\ cli[p].pc # "tools"
      BY <1>1, <2>14 DEF Rotate, WriteSnapshot
    <3>2. PICK pc \in {"write", "clean"} : cli' = [cli EXCEPT ![p].pc = pc]
      BY <2>14 DEF Rotate, WriteSnapshot
    <3>3. cli' = [cli EXCEPT ![p] = [cli[p] EXCEPT !.pc = pc]]
      BY <1>1, <3>2
    <3>4. NoneWaits([cli[p] EXCEPT !.pc = pc])
      BY <3>1 DEF NoneWaits, CliTypes
    <3>5. QED BY <2>1, <3>3, <3>4
  <2>15. ASSUME NEW p \in Procs, CleanUp(p) PROVE Goal
    <3>1. cli[p] \in CliTypes /\ NoneWaits(cli[p]) /\ cli[p].pc # "tools"
      BY <1>1, <2>15 DEF CleanUp
    <3>2. CASE cli[p].then = "off"
      BY <1>2, <2>1, <2>15, <3>2 DEF CleanUp, Exits
    <3>3. CASE cli[p].then # "off"
      <4> DEFINE e == [cli[p] EXCEPT !.pc = "idle", !.turn = 0, !.then = "off"]
      <4>1. cli' = [cli EXCEPT ![p] = e]
        BY <1>1, <2>15, <3>3 DEF CleanUp
      <4>2. NoneWaits(e)
        BY <3>1 DEF NoneWaits, CliTypes
      <4> HIDE DEF e
      <4>3. QED BY <2>1, <4>1, <4>2
    <3>4. QED BY <3>2, <3>3
  <2>16. Goal
    BY <2>3, <2>4, <2>5, <2>6, <2>7, <2>8, <2>9, <2>11, <2>12, <2>13, <2>14, <2>15, Zenon
       DEF SessionNext
  <2>17. QED BY <2>16 DEF Goal
<1>4. QED BY <1>1, <1>3

LEMMA SharedWereUsed ==
  ASSUME SessionInv, shared \subseteq used, SessionNext
  PROVE  shared' \subseteq used'
<1>1. ASSUME NEW p \in Procs, NEW c \in CliTypes, Becomes(p, c), used \subseteq used'
      PROVE  shared' \subseteq used'
  <2>1. ASSUME NEW n \in Names, NEW q \in Procs, Busy(q, n) PROVE n \in used
    <3>1. cli[q] \in Running(q) /\ cli[q].path[1] = n
      BY <2>1 DEF Busy, Running
    <3>2. QED BY <3>1, RunningIs DEF SessionInv, RecordFits
  <2>2. QED BY <1>1, <2>1 DEF Becomes
<1>2. PICK p \in Procs : \E c, e, m, f : SessionStep(p, c, e, m, f)
  BY StepIs DEF SessionInv
<1>3. PICK c, e, m, f : SessionStep(p, c, e, m, f)
  BY <1>2
<1>4. CASE Takes(p, c)
  BY <1>1, <1>4 DEF Takes
<1>5. CASE Forks(p, c, e)
  BY <1>5 DEF Forks
<1>6. CASE \/ Pushes(p, c, e, m) \/ Resaves(p, c, e) \/ Rotates(p, c, e) \/ WritesFile(p, c, e)
           \/ Leaves(p) \/ Tears(p) \/ Cleans(p, c) \/ Deletes(f)
  BY <1>6 DEF Pushes, Resaves, Rotates, WritesFile, GoesOn, Leaves, Tears, Cleans, Deletes
<1>7. QED BY <1>3, <1>4, <1>5, <1>6 DEF SessionStep

LEMMA SessionTypesHold ==
  /\ SessionInit => SessionTypes
  /\ SessionTypes /\ [SessionNext]_sessionVars => SessionTypes'
  /\ SessionTypes => SessionTypeOK
<1>1. ASSUME SessionInit PROVE SessionTypes
  <2>1. SessionInv
    BY <1>1, SessionStarts
  <2>2. files = <<>> /\ shared = {} /\ cli = [p \in Procs |-> Off]
    BY <1>1 DEF SessionInit
  <2>3. QED BY <2>1, <2>2 DEF SessionTypes, OneFileEach, NoneWaits, Off
<1>2. ASSUME SessionTypes, SessionNext PROVE SessionTypes'
  <2>1. SessionInv'
    BY <1>2, SessionStays DEF SessionTypes
  <2>2. OneFileEach(files')
    <3>1. PICK p \in Procs :
            \/ Turn(p) \/ ToolResult(p) \/ (\E n \in 1..MaxUses : AsksForTools(p, n))
            \/ (\E compacts \in BOOLEAN : Answers(p, compacts))
            \/ Rotate(p) \/ WriteSnapshot(p) \/ CleanUp(p) \/ AppendTorn(p)
            \/ (\E i \in DOMAIN files, byAlias \in BOOLEAN : Delete(p, files[i], byAlias))
            \/ UNCHANGED files
      BY <1>2 DEF SessionNext, Launch, ProbeFails, StreamFails, Save, CompactCommand, Clear, Fork,
                  Kill, Resume, ResumeFails, ResumedCompact, ResumedClear
    <3>2. QED BY <1>2, <3>1, FilesStayApart DEF SessionTypes
  <2>3. \A p \in Procs : NoneWaits(cli'[p])
    BY <1>2, WaitsOnlyForTools DEF SessionTypes
  <2>4. shared' \subseteq used'
    BY <1>2, SharedWereUsed DEF SessionTypes
  <2>5. QED BY <2>1, <2>2, <2>3, <2>4 DEF SessionTypes, NoneWaits
<1>3. ASSUME SessionTypes, UNCHANGED sessionVars PROVE SessionTypes'
  <2>1. SessionInv'
    BY <1>3, SessionStays DEF SessionTypes
  <2>2. QED BY <1>3, <2>1 DEF SessionTypes, sessionVars, OneFileEach, NoneWaits
<1>4. ASSUME SessionTypes PROVE SessionTypeOK
  <2>1. SessionTyped
    BY <1>4 DEF SessionTypes, SessionInv, SessionFits
  <2>2. ASSUME NEW i \in DOMAIN files
        PROVE  files[i].id \in Names /\ Range(files[i].msgs) \subseteq Messages
    <3>1. files[i] \in OnFile
      BY DEF OnFile, Range
    <3>2. files[i] \in FileTypes /\ files[i].msgs \in Seq(Messages)
      BY <1>4, <3>1, FilesAre DEF SessionTypes, SessionInv
    <3>3. QED BY <3>2 DEF FileTypes, Range
  <2>3. ASSUME NEW p \in Procs
        PROVE  /\ cli[p].pc \in {"off", "idle", "request", "tools", "rotate", "write", "clean"}
               /\ Range(cli[p].msgs) \subseteq Messages
               /\ (cli[p].pc = "tools") <=> (cli[p].todo # {})
    <3>1. cli[p] \in CliTypes
      BY <2>1 DEF SessionTyped
    <3>2. cli[p].pc \in {"off", "idle"} \cup Turning \cup Saves /\ cli[p].msgs \in Seq(Messages)
      BY <3>1 DEF CliTypes
    <3>3. Range(cli[p].msgs) \subseteq Messages
      BY <3>2 DEF Range
    <3>4. ASSUME cli[p].pc = "tools" PROVE cli[p].todo # {}
      <4>1. cli[p] \in Running(p)
        BY <3>4 DEF Running
      <4>2. QED BY <1>4, <3>4, <4>1 DEF SessionTypes, SessionInv, PairsFit, CliPairs, InLoop
    <3>5. ASSUME cli[p].pc # "tools" PROVE cli[p].todo = {}
      BY <1>4, <3>5 DEF SessionTypes, NoneWaits
    <3>6. QED BY <3>2, <3>3, <3>4, <3>5 DEF Turning, Saves
  <2>4. QED BY <1>4, <2>1, <2>2, <2>3 DEF SessionTypes, SessionTypeOK, SessionTyped, OneFileEach
<1>5. QED BY <1>1, <1>2, <1>3, <1>4
=============================================================================
