----------------------------- MODULE PluginStore -----------------------------
(***************************************************************************)
(* One plugin: its rows in PostgreSQL, its files below plugins.rootDir,    *)
(* the instance and the slot that use it, and the requests that import,    *)
(* install, uninstall and render it.  Rows and files are written one after *)
(* the other, never together.  The process may end between two steps; it   *)
(* then starts again, and the seed runs before it listens.                 *)
(***************************************************************************)
EXTENDS Naturals, FiniteSets, Sequences

CONSTANTS
    Requests,    \* requests that may be in flight at once
    Versions,    \* version strings of the plugin
    Contents,    \* what a ZIP of the plugin may hold
    Offers,      \* what can be installed: <<version, content or Protected>>
    Protected,   \* stands for the content of a protected version: no files
    Nil,         \* NULL, or a path that does not exist
    SeedVersion, SeedContent,  \* the demo plugin
    MaxIds,      \* bound: plugin rows ever created
    MaxCrashes   \* bound: ends of the process other than a failed seed

ASSUME StoreAssumption ==
    /\ Protected \notin Contents /\ Nil \notin Contents /\ Protected # Nil
    /\ Nil \notin Versions
    /\ Offers \subseteq Versions \X (Contents \cup {Protected})
    /\ SeedVersion \in Versions /\ SeedContent \in Contents
    /\ MaxIds \in Nat /\ MaxCrashes \in Nat

VARIABLES
    plugin,      \* id of the Plugin row, 0 when there is none
    lastId,      \* ids are autoincrement: the last one given
    row,         \* PluginVersion rows: version -> content, Protected or Nil
    order,       \* local versions ordered by installedAt
    instance,    \* the PluginInstance and its ScreenSlot
    root,        \* <rootDir>/<slug>/versions exists
    dir,         \* the version directories below it
    crossDevice, \* os.tmpdir() and rootDir are on different file systems
    req,         \* requests in flight
    boot,        \* how far the start of the process is
    seeded,      \* rows the seed has written
    crashes,     \* times the process has ended
    hurt         \* history: versions whose files a race or a crash may have spoiled

store == <<plugin, lastId, row, order, instance>>
files == <<root, dir, crossDevice>>
start == <<boot, seeded, crashes>>
vars == <<store, files, req, start, hurt>>

Files == {"manifest", "index"}
Empty == [f \in Files |-> Nil]
Holding(content) == [f \in Files |-> content]

ASSUME FilesAssumption == Nil \notin [Files -> Contents \cup {Nil}]

Idle == [at |-> "idle"]
NoInstance == [exists |-> FALSE, pin |-> Nil, slot |-> FALSE]

Uncommitted == [at: {"tx"}, version: Versions, content: Contents \cup {Protected}]
Moving == [at: {"clear", "place"}, version: Versions, content: Contents, id: Nat, todo: {{}}]
          \cup [at: {"copy"}, version: Versions, content: Contents, id: Nat,
              todo: (SUBSET Files) \ {{}}]
Uninstalling == [at: {"versions", "drop"}, id: Nat, seen: SUBSET Versions, late: BOOLEAN]
Removing == [at |-> "rm"]
Rendering == [at: {"manifest", "template"}, version: Versions, content: Contents, id: Nat]
Request == {Idle, Removing} \cup Uncommitted \cup Moving \cup Uninstalling \cup Rendering

\* An import of v whose rows are committed and whose files are not in place.
IsMoving(r, v) == req[r].at \in {"clear", "place", "copy"} /\ req[r].version = v
SomeMoving(v) == \E r \in Requests : IsMoving(r, v)
RemovalPending == \E r \in Requests : req[r].at = "rm"

Listening == boot = "up"
Begin(r, record) == req[r] = Idle /\ req' = [req EXCEPT ![r] = record]
Finish(r) == req' = [req EXCEPT ![r] = Idle]

Init ==
    /\ plugin = 0 /\ lastId = 0 /\ order = <<>>
    /\ row = [v \in Versions |-> Nil]
    /\ instance = NoInstance
    /\ root = FALSE /\ dir = [v \in Versions |-> Nil] /\ crossDevice \in BOOLEAN
    /\ req = [r \in Requests |-> Idle]
    /\ boot = "count" /\ seeded = {} /\ crashes = 0
    /\ hurt = {}

-----------------------------------------------------------------------------
(* Import of a ZIP, by upload, from the registry or by the seed.           *)

\* fs.mkdir, recursive, down to the directory of v.
EnsurePluginDirectories(v) ==
    /\ root' = TRUE
    /\ dir' = IF dir[v] = Nil THEN [dir EXCEPT ![v] = Empty] ELSE dir
    /\ UNCHANGED crossDevice

\* Bound: every import may still create a plugin row.
IdsLeft == lastId + Cardinality({r \in Requests : req[r].at = "tx"}) < MaxIds

\* The ZIP is extracted and valid.
Import(r, v, content) ==
    /\ IdsLeft
    /\ Begin(r, [at |-> "tx", version |-> v, content |-> content])
    /\ EnsurePluginDirectories(v)
    /\ UNCHANGED <<store, hurt>>

ImportUpload(r) ==
    /\ Listening
    /\ \E offer \in Offers : offer[2] # Protected /\ Import(r, offer[1], offer[2])
    /\ UNCHANGED start

\* The registry says how a version is executed: a protected one has rows and
\* no files, the ZIP of another is downloaded and imported.
InstallFromRegistry(r) ==
    /\ Listening /\ IdsLeft
    /\ \E offer \in Offers :
          IF offer[2] = Protected
          THEN /\ Begin(r, [at |-> "tx", version |-> offer[1], content |-> Protected])
               /\ UNCHANGED <<store, files, hurt>>
          ELSE Import(r, offer[1], offer[2])
    /\ UNCHANGED start

\* upsert of the plugin and create of the version, at the commit.
AddVersion(v, content) ==
    /\ row[v] = Nil
    /\ row' = [row EXCEPT ![v] = content]
    /\ plugin' = IF plugin = 0 THEN lastId + 1 ELSE plugin
    /\ lastId' = IF plugin = 0 THEN lastId + 1 ELSE lastId
    /\ UNCHANGED instance

ImportTx(r) ==
    /\ req[r].at = "tx" /\ req[r].content # Protected
    /\ AddVersion(req[r].version, req[r].content)
    /\ order' = Append(order, req[r].version)
    /\ req' = [req EXCEPT ![r] = [at |-> "clear", version |-> req[r].version,
                                  content |-> req[r].content, id |-> plugin', todo |-> {}]]
    /\ hurt' = IF RemovalPending THEN hurt \cup {req[r].version} ELSE hurt
    /\ UNCHANGED <<files, start>>

ProtectedTx(r) ==
    /\ req[r].at = "tx" /\ req[r].content = Protected
    /\ AddVersion(req[r].version, Protected)
    /\ Finish(r)
    /\ UNCHANGED <<order, files, start, hurt>>

\* Mutant: createMany with skipDuplicates, and the move goes on.
ImportRefusedIgnored(r) ==
    /\ req[r].at = "tx" /\ row[req[r].version] # Nil /\ req[r].content # Protected
    /\ req' = [req EXCEPT ![r] = [at |-> "clear", version |-> req[r].version,
                                  content |-> req[r].content, id |-> plugin, todo |-> {}]]
    /\ UNCHANGED <<store, files, start, hurt>>

\* @@unique([pluginId, version]): the transaction is rolled back.
ImportRefused(r) ==
    /\ req[r].at = "tx" /\ row[req[r].version] # Nil
    /\ Finish(r)
    /\ UNCHANGED <<store, files, start, hurt>>

\* Mutant: the rename is expected to replace what is there.
ClearKeeps(r) ==
    /\ req[r].at = "clear"
    /\ root' = TRUE
    /\ req' = [req EXCEPT ![r].at = "place"]
    /\ hurt' = hurt \ {req[r].version}
    /\ UNCHANGED <<store, dir, crossDevice, start>>

\* moveExtractedPluginToVersionPath: mkdir of the parent, rm of the target.
\* From here on the files are this import's alone, unless it was overtaken.
Clear(r) ==
    /\ req[r].at = "clear"
    /\ LET v == req[r].version
           alone == /\ req[r].id = plugin /\ ~RemovalPending
                    /\ \A other \in Requests \ {r} : ~IsMoving(other, v)
       IN
       /\ dir' = [dir EXCEPT ![v] = Nil]
       /\ hurt' = IF alone THEN hurt \ {v} ELSE hurt
    /\ root' = TRUE
    /\ req' = [req EXCEPT ![r].at = "place"]
    /\ UNCHANGED <<store, crossDevice, start>>

\* fs.rename, on one file system: onto nothing, or onto an empty directory.
Rename(r) ==
    /\ req[r].at = "place" /\ ~crossDevice
    /\ root /\ dir[req[r].version] \in {Nil, Empty}
    /\ dir' = [dir EXCEPT ![req[r].version] = Holding(req[r].content)]
    /\ Finish(r)
    /\ UNCHANGED <<store, root, crossDevice, start, hurt>>

\* ENOENT or ENOTEMPTY: the request fails, the rows stay.
RenameFails(r) ==
    /\ req[r].at = "place"
    /\ ~root \/ (~crossDevice /\ dir[req[r].version] \notin {Nil, Empty})
    /\ Finish(r)
    /\ UNCHANGED <<store, files, start, hurt>>

\* EXDEV: fs.cp makes the directory, then copies file by file.
CopyBegins(r) ==
    /\ req[r].at = "place" /\ crossDevice /\ root
    /\ dir' = IF dir[req[r].version] = Nil THEN [dir EXCEPT ![req[r].version] = Empty] ELSE dir
    /\ req' = [req EXCEPT ![r].at = "copy", ![r].todo = Files]
    /\ UNCHANGED <<store, root, crossDevice, start, hurt>>

CopyFile(r, f) ==
    /\ req[r].at = "copy" /\ f \in req[r].todo
    /\ dir[req[r].version] # Nil
    /\ dir' = [dir EXCEPT ![req[r].version] = [@ EXCEPT ![f] = req[r].content]]
    /\ req' = [req EXCEPT ![r] = IF req[r].todo = {f} THEN Idle
                                 ELSE [req[r] EXCEPT !.todo = @ \ {f}]]
    /\ UNCHANGED <<store, root, crossDevice, start, hurt>>

CopyFails(r) ==
    /\ req[r].at = "copy" /\ dir[req[r].version] = Nil
    /\ Finish(r)
    /\ UNCHANGED <<store, files, start, hurt>>

-----------------------------------------------------------------------------
(* Uninstall.                                                              *)

\* Mutant: instances that are on a screen do not count.
UninstallReadUnchecked(r) ==
    /\ Listening /\ plugin # 0
    /\ Begin(r, [at |-> "versions", id |-> plugin, seen |-> {}, late |-> FALSE])
    /\ UNCHANGED <<store, files, start, hurt>>

\* 404 without the plugin, 409 when an instance of it is on a screen.
UninstallRead(r) ==
    /\ Listening /\ plugin # 0 /\ ~instance.slot
    /\ Begin(r, [at |-> "versions", id |-> plugin, seen |-> {}, late |-> FALSE])
    /\ UNCHANGED <<store, files, start, hurt>>

\* pluginVersion.deleteMany, not yet committed.
UninstallVersions(r) ==
    /\ req[r].at = "versions"
    /\ req' = [req EXCEPT ![r].at = "drop",
                          ![r].seen = IF req[r].id = plugin THEN {v \in Versions : row[v] # Nil} ELSE {}]
    /\ UNCHANGED <<store, files, start, hurt>>

\* Mutant: no cascade to the instance.
UninstallCommitAlone(r) ==
    /\ req[r].at = "drop"
    /\ req[r].id = plugin /\ \A v \in Versions : row[v] # Nil => v \in req[r].seen
    /\ plugin' = 0 /\ row' = [v \in Versions |-> Nil] /\ order' = <<>>
    /\ req' = [req EXCEPT ![r] = Removing]
    /\ hurt' = hurt \cup {v \in Versions : SomeMoving(v)}
    /\ UNCHANGED <<lastId, instance, files, start>>

\* plugin.delete, which cascades to instances and slots, and the commit.
UninstallCommit(r) ==
    /\ req[r].at = "drop"
    /\ req[r].id = plugin /\ \A v \in Versions : row[v] # Nil => v \in req[r].seen
    /\ plugin' = 0 /\ row' = [v \in Versions |-> Nil] /\ order' = <<>>
    /\ instance' = NoInstance
    /\ req' = [req EXCEPT ![r] = Removing]
    /\ hurt' = hurt \cup {v \in Versions : SomeMoving(v)}
    /\ UNCHANGED <<lastId, files, start>>

\* Mutant: the files go though the transaction has failed.
UninstallFailsAnyway(r) ==
    /\ req[r].at = "drop"
    /\ \/ req[r].id # plugin
       \/ \E v \in Versions : row[v] # Nil /\ v \notin req[r].seen
       \/ \E other \in Requests : req[other].at = "tx" /\ req[other].version \in req[r].seen
    /\ req' = [req EXCEPT ![r] = Removing]
    /\ UNCHANGED <<store, files, start, hurt>>

\* The plugin is gone, an import has added a version, or the transaction is
\* the victim of a deadlock with the import of a version it deletes.
UninstallFails(r) ==
    /\ req[r].at = "drop"
    /\ \/ req[r].id # plugin
       \/ \E v \in Versions : row[v] # Nil /\ v \notin req[r].seen
       \/ \E other \in Requests : req[other].at = "tx" /\ req[other].version \in req[r].seen
    /\ Finish(r)
    /\ UNCHANGED <<store, files, start, hurt>>

\* Mutant: the files stay.
RemoveFilesForgotten(r) ==
    /\ req[r].at = "rm"
    /\ Finish(r)
    /\ hurt' = {v \in hurt : row[v] \in Contents \/ SomeMoving(v)}
    /\ UNCHANGED <<store, files, start>>

\* deletePluginDir.
RemoveFiles(r) ==
    /\ req[r].at = "rm"
    /\ root' = FALSE /\ dir' = [v \in Versions |-> Nil]
    /\ Finish(r)
    /\ hurt' = {v \in hurt : row[v] \in Contents \/ SomeMoving(v)}
    /\ UNCHANGED <<store, crossDevice, start>>

-----------------------------------------------------------------------------
(* What uses the plugin.                                                   *)

CreateInstance(pin) ==
    /\ Listening /\ plugin # 0 /\ ~instance.exists
    /\ pin \in {Nil} \cup {v \in Versions : row[v] # Nil}
    /\ instance' = [exists |-> TRUE, pin |-> pin, slot |-> FALSE]
    /\ UNCHANGED <<plugin, lastId, row, order, files, req, start, hurt>>

\* The slots go with their instance.
RemoveInstance ==
    /\ Listening /\ instance.exists
    /\ instance' = NoInstance
    /\ UNCHANGED <<plugin, lastId, row, order, files, req, start, hurt>>

PlaceSlot ==
    /\ Listening /\ instance.exists /\ ~instance.slot
    /\ instance' = [instance EXCEPT !.slot = TRUE]
    /\ req' = [r \in Requests |-> IF req[r].at \in {"versions", "drop"}
                                  THEN [req[r] EXCEPT !.late = TRUE] ELSE req[r]]
    /\ UNCHANGED <<plugin, lastId, row, order, files, start, hurt>>

RemoveSlot ==
    /\ Listening /\ instance.slot
    /\ instance' = [instance EXCEPT !.slot = FALSE]
    /\ UNCHANGED <<plugin, lastId, row, order, files, req, start, hurt>>

\* The version an instance runs: the pinned one, or the last one installed.
\* A protected version is never chosen, and refused when it is pinned.
Selected(v) ==
    IF instance.pin # Nil THEN v = instance.pin
    ELSE order # <<>> /\ v = order[Len(order)]

RenderBegins(r) ==
    /\ Listening /\ instance.slot
    /\ \E v \in Versions :
          /\ Selected(v) /\ row[v] \in Contents
          /\ Begin(r, [at |-> "manifest", version |-> v, content |-> row[v], id |-> plugin])
    /\ UNCHANGED <<store, files, start, hurt>>

Found(v, f) == dir[v] # Nil /\ dir[v][f] # Nil

ReadManifest(r) ==
    /\ req[r].at = "manifest" /\ Found(req[r].version, "manifest")
    /\ req' = [req EXCEPT ![r].at = "template"]
    /\ UNCHANGED <<store, files, start, hurt>>

ReadTemplate(r) ==
    /\ req[r].at = "template" /\ Found(req[r].version, "index")
    /\ Finish(r)
    /\ UNCHANGED <<store, files, start, hurt>>

\* NotFoundException.
RenderFails(r) ==
    /\ \/ req[r].at = "manifest" /\ ~Found(req[r].version, "manifest")
       \/ req[r].at = "template" /\ ~Found(req[r].version, "index")
    /\ Finish(r)
    /\ UNCHANGED <<store, files, start, hurt>>

\* GET plugins-debug/ensure: anybody may make the directories.
DebugEnsure(v) ==
    /\ Listening
    /\ EnsurePluginDirectories(v)
    /\ UNCHANGED <<store, req, start, hurt>>

-----------------------------------------------------------------------------
(* The start of the process: the seed runs before the server listens.      *)

BootTo(stage) == boot' = stage /\ UNCHANGED <<store, files, req, crashes, hurt>>

\* SEED_ON_STARTUP=false, or a user is there.
SeedSkipped == boot = "count" /\ BootTo("up") /\ UNCHANGED seeded

\* Mutant: the user is created last.
SeedUserLater ==
    /\ boot = "count" /\ "user" \notin seeded
    /\ BootTo("plugin") /\ UNCHANGED seeded

SeedUser ==
    /\ boot = "count" /\ "user" \notin seeded
    /\ BootTo("plugin") /\ seeded' = seeded \cup {"user"}

\* SEED_INITIAL_PLUGIN=false.
SeedWithoutPlugin == boot = "plugin" /\ BootTo("bare") /\ UNCHANGED seeded

SeedImport(r) ==
    /\ boot = "plugin"
    /\ Import(r, SeedVersion, SeedContent)
    /\ boot' = "importing" /\ UNCHANGED <<seeded, crashes>>

Exit ==
    /\ req' = [r \in Requests |-> Idle]
    /\ boot' = "count"
    /\ hurt' = hurt \cup (IF RemovalPending THEN Versions ELSE {v \in Versions : SomeMoving(v)})
    /\ UNCHANGED <<store, files, seeded>>

\* The download fails: nobody catches it, and the process ends.
SeedFails == boot = "plugin" /\ Exit /\ UNCHANGED crashes

AllIdle == \A r \in Requests : req[r] = Idle

SeedDevice ==
    /\ boot = "bare" \/ (boot = "importing" /\ AllIdle)
    /\ BootTo(IF boot = "bare" THEN "bareScreen" ELSE "screen")
    /\ seeded' = seeded \cup {"device"}

SeedScreen ==
    /\ boot \in {"bareScreen", "screen"}
    /\ BootTo(IF boot = "bareScreen" THEN "up" ELSE "instance")
    /\ seeded' = seeded \cup {"screen"}

SeedInstance ==
    /\ boot = "instance" /\ plugin # 0
    /\ instance' = [exists |-> TRUE, pin |-> Nil, slot |-> FALSE]
    /\ boot' = "slot"
    /\ UNCHANGED <<plugin, lastId, row, order, files, req, seeded, crashes, hurt>>

SeedSlot ==
    /\ boot = "slot"
    /\ instance' = [instance EXCEPT !.slot = TRUE]
    /\ boot' = "up"
    /\ UNCHANGED <<plugin, lastId, row, order, files, req, seeded, crashes, hurt>>

Crash == crashes < MaxCrashes /\ crashes' = crashes + 1 /\ Exit

-----------------------------------------------------------------------------
ImportStep(r) ==
    \/ ImportTx(r) \/ ProtectedTx(r) \/ ImportRefused(r) \/ Clear(r) \/ Rename(r) \/ RenameFails(r)
    \/ CopyBegins(r) \/ CopyFails(r)
    \/ \E f \in Files : CopyFile(r, f)

UninstallStep(r) == UninstallVersions(r) \/ UninstallCommit(r) \/ UninstallFails(r) \/ RemoveFiles(r)

RenderStep(r) == ReadManifest(r) \/ ReadTemplate(r) \/ RenderFails(r)

BootStep ==
    \/ SeedSkipped \/ SeedUser \/ SeedWithoutPlugin \/ SeedFails
    \/ SeedDevice \/ SeedScreen \/ SeedInstance \/ SeedSlot
    \/ \E r \in Requests : SeedImport(r)

Next ==
    \/ \E r \in Requests :
          \/ ImportUpload(r) \/ InstallFromRegistry(r) \/ ImportStep(r)
          \/ UninstallRead(r) \/ UninstallStep(r)
          \/ RenderBegins(r) \/ RenderStep(r)
    \/ \E pin \in Versions \cup {Nil} : CreateInstance(pin)
    \/ RemoveInstance \/ PlaceSlot \/ RemoveSlot
    \/ \E v \in Versions : DebugEnsure(v)
    \/ BootStep \/ Crash

\* What has begun goes on: the event loop and the database are fair.
Fairness ==
    /\ WF_vars(BootStep)
    /\ \A r \in Requests : WF_vars(ImportStep(r)) /\ WF_vars(UninstallStep(r))

Spec == Init /\ [][Next]_vars /\ Fairness

-----------------------------------------------------------------------------
(* Properties.                                                             *)

\* Types of the variables; also that the rows of a plugin and its instance
\* go with it.
TypeOK ==
    /\ lastId \in Nat /\ plugin \in 0..lastId
    /\ row \in [Versions -> Contents \cup {Protected, Nil}]
    /\ order \in Seq(Versions)
    /\ instance \in [exists: BOOLEAN, pin: Versions \cup {Nil}, slot: BOOLEAN]
    /\ root \in BOOLEAN /\ crossDevice \in BOOLEAN
    /\ dir \in [Versions -> [Files -> Contents \cup {Nil}] \cup {Nil}]
    /\ req \in [Requests -> Request]
    /\ boot \in {"count", "plugin", "bare", "bareScreen", "importing", "screen", "instance", "slot", "up"}
    /\ seeded \in SUBSET {"user", "device", "screen"}
    /\ crashes \in Nat
    /\ hurt \in SUBSET Versions
    /\ plugin = 0 => row = [v \in Versions |-> Nil] /\ instance = NoInstance

\* Rows and files agree.  A version that no import is still moving has all
\* the files of its row, and without a local row there are none, unless the
\* version is in hurt: an uninstall that committed while its import was still
\* moving, an import that committed before the directory was removed, or a
\* crash in one of these two windows.  Overlapping imports, refused imports,
\* failed uninstalls, renders and edits never spoil a version, and an import
\* that is not overtaken repairs one, whatever lies in its directory.
FilesMatchRows ==
    \A v \in Versions \ hurt : ~SomeMoving(v) =>
        /\ row[v] \in Contents => dir[v] = Holding(row[v])
        /\ row[v] \notin Contents /\ ~RemovalPending => dir[v] \in {Nil, Empty}

\* Only the import an installed version came from writes its files, or one
\* whose plugin has been uninstalled since; and only an uninstall removes
\* them: a second import of the version is refused before it touches a file.
OnlyItsImportWrites ==
    [][\A v \in Versions :
          row[v] \in Contents /\ dir[v] = Holding(row[v]) /\ dir'[v] # dir[v] =>
            \/ RemovalPending
            \/ \E r \in Requests : IsMoving(r, v) /\ (req[r].id # plugin \/ req[r].content = row[v])]_vars

\* PluginExecutionService reads the version row, the manifest and the template
\* at different times; while the plugin is not uninstalled, and the version is
\* not hurt, a template it finds is the one the row came with, even when the
\* import is still moving.
RendersWhatIsInstalled ==
    \A r \in Requests :
        req[r].at = "template" /\ req[r].id = plugin /\ req[r].version \notin hurt
          /\ Found(req[r].version, "index") =>
            dir[req[r].version]["index"] = req[r].content

\* A slot goes with an uninstall only when it was created after the uninstall
\* had looked for slots (plugins.controller.ts promises 409 otherwise).
UninstallSparesSlots ==
    [][\A r \in Requests : UninstallCommit(r) /\ instance.slot => req[r].late]_vars

\* The server comes to listen, also when the demo plugin cannot be downloaded
\* and the first start fails on it.
ServerComesUp == boot # "up" ~> boot = "up"

\* Protected versions have no files and are none of the store's.
LocalVersions == {v \in Versions : row[v] \in Contents}
VersionsInPlace == {v \in LocalVersions \ hurt : dir[v] = Holding(row[v])}

Installed == INSTANCE InstalledVersions WITH
    published <- [v \in Versions |-> IF row[v] \in Contents THEN row[v] ELSE Nil],
    ready <- VersionsInPlace,
    hurt <- LocalVersions \cap hurt

\* Rows and files, written one after the other by requests that overlap, keep
\* the promise of InstalledVersions: once the files of an installed version are
\* in place they stay as they are until the plugin is uninstalled, with all its
\* versions at once.
InstalledStaysInPlace == Installed!Spec
=============================================================================
