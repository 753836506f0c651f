-------------------------- MODULE PluginStoreProofs --------------------------
(***************************************************************************)
(* Theorems about PluginStore, for any requests, versions and builds.      *)
(***************************************************************************)
EXTENDS PluginStore, TLAPS

Transferring == {"clear", "place", "copy"}
Reading == {"manifest", "template"}

(***************************************************************************)
(* Types need the order of the start: no uninstall is under way before the *)
(* server listens, so the plugin of the seed is there when it gets a slot. *)
(***************************************************************************)
BootOK ==
    /\ boot # "up" => \A r \in Requests : req[r].at \in {"idle", "tx"} \cup Transferring
    /\ boot = "slot" => plugin # 0

\* An id is never given twice, and the row of a version is not written over:
\* as long as the plugin has the id a request knows, the row is the one the
\* request has written or read.
IdsOK ==
    \A r \in Requests :
        /\ req[r].at \in Transferring \cup Reading =>
              /\ req[r].id \in 1..lastId
              /\ req[r].id = plugin => row[req[r].version] = req[r].content
        /\ req[r].at \in {"versions", "drop"} => req[r].id \in 1..lastId

\* An uninstall that can still commit knows of the slot, or looked before it.
LateOK ==
    \A r \in Requests :
        req[r].at \in {"versions", "drop"} /\ req[r].id = plugin /\ instance.slot => req[r].late

TypeInv == TypeOK /\ BootOK /\ IdsOK /\ LateOK

(***************************************************************************)
(* The files of a version that is not hurt belong to its one import, which *)
(* no uninstall has overtaken, and hold nothing but what it has copied.    *)
(***************************************************************************)
TransferOK ==
    \A r \in Requests : req[r].at \in Transferring /\ req[r].version \notin hurt =>
        LET v == req[r].version
        IN  /\ req[r].id = plugin /\ ~RemovalPending
            /\ \A p \in Requests : IsMoving(p, v) => p = r
            /\ req[r].at \in {"clear", "place"} => dir[v] \in {Nil, Empty}
            /\ req[r].at = "place" => root
            /\ req[r].at = "copy" =>
                  dir[v] = [f \in Files |-> IF f \in req[r].todo THEN Nil ELSE req[r].content]

\* What an uninstall is about to remove does not belong to a version in order.
RemovalOK == RemovalPending => \A v \in Versions : row[v] \in Contents => v \in hurt

StoreInv == FilesMatchRows /\ TransferOK /\ RemovalOK

-----------------------------------------------------------------------------
(* Types.                                                                  *)

Clearing == [at: {"clear", "place"}, version: Versions, content: Contents, id: Nat, todo: {{}}]
Copying == [at: {"copy"}, version: Versions, content: Contents, id: Nat, todo: (SUBSET Files) \ {{}}]

\* The record of a request in flight has the fields its next statement needs.
LEMMA RequestShape ==
    ASSUME NEW q \in Request
    PROVE  /\ q.at = "tx" => q \in Uncommitted
           /\ q.at \in {"clear", "place"} => q \in Clearing
           /\ q.at = "copy" => q \in Copying
           /\ q.at \in {"versions", "drop"} => q \in Uninstalling
           /\ q.at \in Reading => q \in Rendering
           /\ q.at \in {"idle", "tx", "rm", "versions", "drop"} \cup Transferring \cup Reading
BY DEF Request, Idle, Uncommitted, Moving, Clearing, Copying, Uninstalling, Removing, Rendering,
       Transferring, Reading

LEMMA RequestKinds ==
    /\ Uncommitted \subseteq Request /\ Clearing \subseteq Request /\ Copying \subseteq Request
    /\ Uninstalling \subseteq Request /\ Rendering \subseteq Request
    /\ Idle \in Request /\ Removing \in Request
BY DEF Request, Moving, Clearing, Copying

\* TypeOK in four parts, for the steps below.
Rows ==
    /\ lastId \in Nat /\ plugin \in 0..lastId
    /\ row \in [Versions -> Contents \cup {Protected, Nil}]
    /\ order \in Seq(Versions)
    /\ instance \in [exists: BOOLEAN, pin: Versions \cup {Nil}, slot: BOOLEAN]
    /\ plugin = 0 => row = [v \in Versions |-> Nil] /\ instance = NoInstance

Disk ==
    /\ root \in BOOLEAN /\ crossDevice \in BOOLEAN
    /\ dir \in [Versions -> [Files -> Contents \cup {Nil}] \cup {Nil}]

Started ==
    /\ boot \in {"count", "plugin", "bare", "bareScreen", "importing", "screen", "instance", "slot", "up"}
    /\ seeded \in SUBSET {"user", "device", "screen"}
    /\ crashes \in Nat

LEMMA Parts == TypeOK <=> Rows /\ Disk /\ Started /\ req \in [Requests -> Request] /\ hurt \in SUBSET Versions
BY DEF TypeOK, Rows, Disk, Started

LEMMA TypeInvInit == Init => TypeInv
<1> SUFFICES ASSUME Init PROVE TypeInv
  OBVIOUS
<1>1. \A r \in Requests : req[r] = Idle
  BY DEF Init
<1>2. Rows /\ Disk /\ Started /\ hurt \in SUBSET Versions
  <2>1. Rows
    BY StoreAssumption DEF Init, Rows, NoInstance
  <2>2. Disk
    BY DEF Init, Disk
  <2>3. Started /\ hurt \in SUBSET Versions
    BY DEF Init, Started
  <2> QED
    BY <2>1, <2>2, <2>3
<1>3. req \in [Requests -> Request]
  BY RequestKinds DEF Init
<1>4. BootOK /\ IdsOK /\ LateOK
  BY <1>1 DEF Init, BootOK, IdsOK, LateOK, Idle, Transferring, Reading
<1> QED
  BY <1>2, <1>3, <1>4, Parts DEF TypeInv

LEMMA DiskStep == TypeInv /\ [Next]_vars => Disk'
<1> SUFFICES ASSUME TypeInv, [Next]_vars PROVE Disk'
  OBVIOUS
<1>1. Disk /\ req \in [Requests -> Request]
  BY Parts DEF TypeInv
<1>2. ASSUME NEW v \in Versions, EnsurePluginDirectories(v) PROVE Disk'
  BY <1>1, <1>2 DEF EnsurePluginDirectories, Disk, Empty
<1>3. ASSUME NEW r \in Requests, NEW v, NEW c, Import(r, v, c), v \in Versions PROVE Disk'
  BY <1>2, <1>3 DEF Import
<1>4. ASSUME NEW r \in Requests, ImportUpload(r) \/ InstallFromRegistry(r) PROVE Disk'
  <2>1. CASE UNCHANGED files
    BY <1>1, <2>1 DEF files, Disk
  <2>2. ASSUME NEW offer \in Offers, Import(r, offer[1], offer[2]) PROVE Disk'
    BY <1>3, <2>2, StoreAssumption
  <2> QED
    BY <1>4, <2>1, <2>2 DEF ImportUpload, InstallFromRegistry
<1>5. ASSUME NEW r \in Requests, SeedImport(r) PROVE Disk'
  BY <1>3, <1>5, StoreAssumption DEF SeedImport
<1>6. ASSUME NEW r \in Requests, Clear(r) PROVE Disk'
  BY <1>1, <1>6 DEF Clear, Disk
<1>7. ASSUME NEW r \in Requests, Rename(r) PROVE Disk'
  <2>1. req[r] \in Clearing
    BY <1>1, <1>7, RequestShape DEF Rename
  <2> QED
    BY <1>1, <1>7, <2>1 DEF Rename, Disk, Holding, Clearing
<1>8. ASSUME NEW r \in Requests, CopyBegins(r) PROVE Disk'
  BY <1>1, <1>8 DEF CopyBegins, Disk, Empty
<1>9. ASSUME NEW r \in Requests, NEW f \in Files, CopyFile(r, f) PROVE Disk'
  <2>1. req[r] \in Copying
    BY <1>1, <1>9, RequestShape DEF CopyFile
  <2> QED
    BY <1>1, <1>9, <2>1 DEF CopyFile, Disk, Copying
<1>10. ASSUME NEW r \in Requests, RemoveFiles(r) PROVE Disk'
  BY <1>1, <1>10 DEF RemoveFiles, Disk
<1>11. CASE UNCHANGED files
  BY <1>1, <1>11 DEF files, Disk
<1> QED
  BY <1>2, <1>4, <1>5, <1>6, <1>7, <1>8, <1>9, <1>10, <1>11
     DEF Next, ImportStep, UninstallStep, RenderStep, BootStep, BootTo, vars, files, DebugEnsure,
         ImportTx, ProtectedTx, ImportRefused, RenameFails, CopyFails, UninstallRead, UninstallVersions,
         UninstallCommit, UninstallFails, CreateInstance, RemoveInstance, PlaceSlot, RemoveSlot,
         RenderBegins, ReadManifest, ReadTemplate, RenderFails, SeedSkipped, SeedUser,
         SeedWithoutPlugin, SeedFails, SeedDevice, SeedScreen, SeedInstance, SeedSlot, Exit, Crash

LEMMA RowsStep == TypeInv /\ [Next]_vars => Rows'
<1> SUFFICES ASSUME TypeInv, [Next]_vars PROVE Rows'
  OBVIOUS
<1>1. Rows /\ req \in [Requests -> Request]
  BY Parts DEF TypeInv
<1>2. ASSUME NEW v \in Versions, NEW c \in Contents \cup {Protected}, AddVersion(v, c),
             order' \in Seq(Versions)
      PROVE  Rows'
  BY <1>1, <1>2 DEF AddVersion, Rows
<1>3. ASSUME NEW r \in Requests, ImportTx(r) \/ ProtectedTx(r) PROVE Rows'
  <2>1. req[r] \in Uncommitted
    BY <1>1, <1>3, RequestShape DEF ImportTx, ProtectedTx
  <2>2. CASE ImportTx(r)
    BY <1>1, <1>2, <2>1, <2>2 DEF ImportTx, Uncommitted, Rows
  <2>3. CASE ProtectedTx(r)
    BY <1>1, <1>2, <2>1, <2>3 DEF ProtectedTx, Uncommitted, Rows
  <2> QED
    BY <1>3, <2>2, <2>3
<1>4. ASSUME NEW r \in Requests, UninstallCommit(r) PROVE Rows'
  <2>1. /\ plugin' = 0 /\ lastId' = lastId /\ instance' = NoInstance
        /\ row' = [v \in Versions |-> Nil] /\ order' = << >>
    BY <1>4 DEF UninstallCommit
  <2> QED
    BY <1>1, <2>1 DEF Rows, NoInstance
<1>5. ASSUME UNCHANGED <<plugin, lastId, row, order>>,
             instance' \in [exists: BOOLEAN, pin: Versions \cup {Nil}, slot: BOOLEAN],
             plugin # 0 \/ instance' = NoInstance
      PROVE  Rows'
  BY <1>1, <1>5 DEF Rows
<1>6. ASSUME NEW pin \in Versions \cup {Nil}, CreateInstance(pin) PROVE Rows'
  BY <1>5, <1>6 DEF CreateInstance
<1>7. ASSUME RemoveInstance PROVE Rows'
  BY <1>5, <1>7 DEF RemoveInstance, NoInstance
<1>8. ASSUME PlaceSlot \/ RemoveSlot PROVE Rows'
  <2>1. plugin # 0
    BY <1>1, <1>8 DEF PlaceSlot, RemoveSlot, Rows, NoInstance
  <2>2. instance' \in [exists: BOOLEAN, pin: Versions \cup {Nil}, slot: BOOLEAN]
    BY <1>1, <1>8 DEF PlaceSlot, RemoveSlot, Rows
  <2> QED
    BY <1>5, <1>8, <2>1, <2>2 DEF PlaceSlot, RemoveSlot
<1>9. ASSUME SeedInstance PROVE Rows'
  BY <1>5, <1>9 DEF SeedInstance
<1>10. ASSUME SeedSlot PROVE Rows'
  <2>1. plugin # 0
    BY <1>10 DEF SeedSlot, TypeInv, BootOK
  <2>2. instance' \in [exists: BOOLEAN, pin: Versions \cup {Nil}, slot: BOOLEAN]
    BY <1>1, <1>10 DEF SeedSlot, Rows
  <2> QED
    BY <1>5, <1>10, <2>1, <2>2 DEF SeedSlot
<1>11. CASE UNCHANGED store
  BY <1>1, <1>11 DEF store, Rows
<1> QED
  BY <1>3, <1>4, <1>6, <1>7, <1>8, <1>9, <1>10, <1>11
     DEF Next, ImportStep, UninstallStep, RenderStep, BootStep, BootTo, vars, DebugEnsure,
         ImportUpload, InstallFromRegistry, Import, ImportRefused, Clear, Rename, RenameFails,
         CopyBegins, CopyFile, CopyFails, UninstallRead, UninstallVersions, UninstallFails, RemoveFiles,
         RenderBegins, ReadManifest, ReadTemplate, RenderFails, SeedSkipped, SeedUser,
         SeedWithoutPlugin, SeedFails, SeedImport, SeedDevice, SeedScreen, Exit, Crash

\* What becomes of a request in a step.
LEMMA RequestsStep == TypeInv /\ [Next]_vars => req' \in [Requests -> Request]
<1> SUFFICES ASSUME TypeInv, [Next]_vars PROVE req' \in [Requests -> Request]
  OBVIOUS
<1>1. req \in [Requests -> Request] /\ Rows
  BY Parts DEF TypeInv
<1>2. ASSUME NEW r \in Requests, NEW q \in Request, req' = [req EXCEPT ![r] = q]
      PROVE  req' \in [Requests -> Request]
  BY <1>1, <1>2
<1>3. ASSUME NEW r \in Requests, Finish(r) PROVE req' \in [Requests -> Request]
  BY <1>2, <1>3, RequestKinds DEF Finish
<1>4. ASSUME NEW r \in Requests, NEW v \in Versions, NEW c \in Contents \cup {Protected},
             Begin(r, [at |-> "tx", version |-> v, content |-> c])
      PROVE  req' \in [Requests -> Request]
  BY <1>2, <1>4, RequestKinds DEF Begin, Uncommitted
<1>5. ASSUME NEW r \in Requests, ImportUpload(r) \/ InstallFromRegistry(r) \/ SeedImport(r)
      PROVE  req' \in [Requests -> Request]
  <2>1. CASE ImportUpload(r) \/ InstallFromRegistry(r)
    BY <1>4, <2>1, StoreAssumption DEF ImportUpload, InstallFromRegistry, Import
  <2>2. CASE SeedImport(r)
    BY <1>4, <2>2, StoreAssumption DEF SeedImport, Import
  <2> QED
    BY <1>5, <2>1, <2>2
<1>6. ASSUME NEW r \in Requests, ImportTx(r) PROVE req' \in [Requests -> Request]
  <2>1. req[r] \in Uncommitted /\ req[r].content # Protected
    BY <1>1, <1>6, RequestShape DEF ImportTx
  <2>2. plugin' \in Nat
    BY <1>1, <1>6 DEF ImportTx, AddVersion, Rows
  <2>3. [at |-> "clear", version |-> req[r].version, content |-> req[r].content, id |-> plugin',
         todo |-> {}] \in Clearing
    BY <2>1, <2>2 DEF Uncommitted, Clearing
  <2> QED
    BY <1>2, <1>6, <2>3, RequestKinds DEF ImportTx
<1>7. ASSUME NEW r \in Requests, Clear(r) PROVE req' \in [Requests -> Request]
  <2>1. req[r] \in Clearing
    BY <1>1, <1>7, RequestShape DEF Clear
  <2>2. [req[r] EXCEPT !.at = "place"] \in Clearing
    BY <2>1 DEF Clearing
  <2>3. req' = [req EXCEPT ![r] = [req[r] EXCEPT !.at = "place"]]
    BY <1>7 DEF Clear
  <2> QED
    BY <1>2, <2>2, <2>3, RequestKinds
<1>8. ASSUME NEW r \in Requests, CopyBegins(r) PROVE req' \in [Requests -> Request]
  <2>1. req[r] \in Clearing
    BY <1>1, <1>8, RequestShape DEF CopyBegins
  <2>2. [req[r] EXCEPT !.at = "copy", !.todo = Files] \in Copying
    <3>1. Files \in (SUBSET Files) \ {{}}
      BY DEF Files
    <3> QED
      BY <2>1, <3>1 DEF Clearing, Copying
  <2>3. req' = [req EXCEPT ![r] = [req[r] EXCEPT !.at = "copy", !.todo = Files]]
    BY <1>8 DEF CopyBegins
  <2> QED
    BY <1>2, <2>2, <2>3, RequestKinds
<1>9. ASSUME NEW r \in Requests, NEW f \in Files, CopyFile(r, f) PROVE req' \in [Requests -> Request]
  <2>1. req[r] \in Copying
    BY <1>1, <1>9, RequestShape DEF CopyFile
  <2> DEFINE q == IF req[r].todo = {f} THEN Idle ELSE [req[r] EXCEPT !.todo = @ \ {f}]
  <2>2. ASSUME req[r].todo # {f} PROVE [req[r] EXCEPT !.todo = @ \ {f}] \in Copying
    <3>1. req[r].todo \ {f} \in (SUBSET Files) \ {{}}
      BY <1>9, <2>1, <2>2 DEF CopyFile, Copying
    <3> QED
      BY <2>1, <3>1 DEF Copying
  <2>3. q \in Request
    BY <2>2, RequestKinds
  <2>4. req' = [req EXCEPT ![r] = q]
    BY <1>9 DEF CopyFile
  <2> QED
    BY <1>2, <2>3, <2>4
<1>10. ASSUME NEW r \in Requests, UninstallRead(r) PROVE req' \in [Requests -> Request]
  <2>1. [at |-> "versions", id |-> plugin, seen |-> {}, late |-> FALSE] \in Uninstalling
    BY <1>1 DEF Rows, Uninstalling
  <2> QED
    BY <1>2, <1>10, <2>1, RequestKinds DEF UninstallRead, Begin
<1>11. ASSUME NEW r \in Requests, UninstallVersions(r) PROVE req' \in [Requests -> Request]
  <2>1. req[r] \in Uninstalling
    BY <1>1, <1>11, RequestShape DEF UninstallVersions
  <2>2. PICK S \in SUBSET Versions : req' = [req EXCEPT ![r] = [req[r] EXCEPT !.at = "drop", !.seen = S]]
    BY <1>11 DEF UninstallVersions
  <2>3. [req[r] EXCEPT !.at = "drop", !.seen = S] \in Uninstalling
    BY <2>1 DEF Uninstalling
  <2> QED
    BY <1>2, <2>2, <2>3, RequestKinds
<1>12. ASSUME NEW r \in Requests, UninstallCommit(r) PROVE req' \in [Requests -> Request]
  BY <1>2, <1>12, RequestKinds DEF UninstallCommit
<1>13. ASSUME PlaceSlot PROVE req' \in [Requests -> Request]
  <2>1. ASSUME NEW q \in Requests, req[q].at \in {"versions", "drop"}
        PROVE  [req[q] EXCEPT !.late = TRUE] \in Uninstalling
    <3>1. req[q] \in Uninstalling
      BY <1>1, <2>1, RequestShape
    <3> QED
      BY <3>1 DEF Uninstalling
  <2> QED
    BY <1>1, <1>13, <2>1, RequestKinds DEF PlaceSlot
<1>14. ASSUME NEW r \in Requests, RenderBegins(r) PROVE req' \in [Requests -> Request]
  <2>1. PICK v \in Versions :
            /\ row[v] \in Contents
            /\ Begin(r, [at |-> "manifest", version |-> v, content |-> row[v], id |-> plugin])
    BY <1>14 DEF RenderBegins
  <2>2. [at |-> "manifest", version |-> v, content |-> row[v], id |-> plugin] \in Rendering
    BY <1>1, <2>1 DEF Rows, Rendering
  <2> QED
    BY <1>2, <2>1, <2>2, RequestKinds DEF Begin
<1>15. ASSUME NEW r \in Requests, ReadManifest(r) PROVE req' \in [Requests -> Request]
  <2>1. req[r] \in Rendering
    BY <1>1, <1>15, RequestShape DEF ReadManifest, Reading
  <2>2. [req[r] EXCEPT !.at = "template"] \in Rendering
    BY <2>1 DEF Rendering
  <2>3. req' = [req EXCEPT ![r] = [req[r] EXCEPT !.at = "template"]]
    BY <1>15 DEF ReadManifest
  <2> QED
    BY <1>2, <2>2, <2>3, RequestKinds
<1>16. CASE req' = [r \in Requests |-> Idle]
  BY <1>16, RequestKinds
<1>17. CASE UNCHANGED req
  BY <1>1, <1>17
<1> QED
  BY <1>3, <1>5, <1>6, <1>7, <1>8, <1>9, <1>10, <1>11, <1>12, <1>13, <1>14, <1>15, <1>16, <1>17
     DEF Next, ImportStep, UninstallStep, RenderStep, BootStep, BootTo, vars, DebugEnsure,
         ProtectedTx, ImportRefused, Rename, RenameFails, CopyFails, UninstallFails, RemoveFiles,
         CreateInstance, RemoveInstance, RemoveSlot, ReadTemplate, RenderFails, SeedSkipped, SeedUser,
         SeedWithoutPlugin, SeedFails, SeedDevice, SeedScreen, SeedInstance, SeedSlot, Exit, Crash

LEMMA StartedStep == TypeInv /\ [Next]_vars => Started' /\ hurt' \in SUBSET Versions
<1> SUFFICES ASSUME TypeInv, [Next]_vars PROVE Started' /\ hurt' \in SUBSET Versions
  OBVIOUS
<1>1. Started /\ req \in [Requests -> Request] /\ hurt \in SUBSET Versions
  BY Parts DEF TypeInv
<1>2. hurt' \in SUBSET Versions
  <2>1. ASSUME NEW r \in Requests, ImportTx(r) PROVE hurt' \in SUBSET Versions
    <3>1. req[r].version \in Versions
      BY <1>1, <2>1, RequestShape DEF ImportTx, Uncommitted
    <3> QED
      BY <1>1, <2>1, <3>1 DEF ImportTx
  <2>2. ASSUME NEW r \in Requests, Clear(r) \/ UninstallCommit(r) \/ RemoveFiles(r)
        PROVE  hurt' \in SUBSET Versions
    BY <1>1, <2>2 DEF Clear, UninstallCommit, RemoveFiles
  <2>3. CASE Exit
    BY <1>1, <2>3 DEF Exit
  <2> QED
    BY <1>1, <2>1, <2>2, <2>3
       DEF Next, ImportStep, UninstallStep, RenderStep, BootStep, BootTo, vars, DebugEnsure,
           ImportUpload, InstallFromRegistry, Import, ProtectedTx, ImportRefused, Rename, RenameFails,
           CopyBegins, CopyFile, CopyFails, UninstallRead, UninstallVersions, UninstallFails,
           CreateInstance, RemoveInstance, PlaceSlot, RemoveSlot, RenderBegins, ReadManifest,
           ReadTemplate, RenderFails, SeedSkipped, SeedUser, SeedWithoutPlugin, SeedFails, SeedImport,
           SeedDevice, SeedScreen, SeedInstance, SeedSlot, Crash
<1>3. Started'
  <2>1. CASE UNCHANGED start
    BY <1>1, <2>1 DEF start, Started
  <2>2. CASE BootStep \/ Crash
    BY <1>1, <2>2 DEF BootStep, BootTo, SeedSkipped, SeedUser, SeedWithoutPlugin, SeedFails, SeedImport,
                      SeedDevice, SeedScreen, SeedInstance, SeedSlot, Exit, Crash, Started
  <2> QED
    BY <2>1, <2>2
       DEF Next, ImportStep, UninstallStep, RenderStep, vars, start, DebugEnsure,
           ImportUpload, InstallFromRegistry, ImportTx, ProtectedTx, ImportRefused, Clear, Rename,
           RenameFails, CopyBegins, CopyFile, CopyFails, UninstallRead, UninstallVersions,
           UninstallCommit, UninstallFails, RemoveFiles, CreateInstance, RemoveInstance, PlaceSlot,
           RemoveSlot, RenderBegins, ReadManifest, ReadTemplate, RenderFails
<1> QED
  BY <1>2, <1>3

\* A request changes only when the process ends, when a slot is created, or by
\* a statement of its own.
LEMMA Actor ==
    ASSUME TypeInv, [Next]_vars, NEW p \in Requests, req'[p] # req[p], ~PlaceSlot, ~Exit
    PROVE  \/ ImportUpload(p) \/ InstallFromRegistry(p) \/ SeedImport(p) \/ ImportStep(p)
           \/ UninstallRead(p) \/ UninstallStep(p) \/ RenderBegins(p) \/ RenderStep(p)
<1>1. req \in [Requests -> Request]
  BY Parts DEF TypeInv
<1>2. ASSUME NEW r \in Requests, NEW q, req' = [req EXCEPT ![r] = q] PROVE r = p
  BY <1>1, <1>2
<1>3. ASSUME NEW r \in Requests, Finish(r) PROVE r = p
  BY <1>2, <1>3 DEF Finish
<1>4. ASSUME NEW r \in Requests, ImportUpload(r) \/ InstallFromRegistry(r) \/ SeedImport(r) PROVE r = p
  <2>1. \E v, c : Begin(r, [at |-> "tx", version |-> v, content |-> c])
    BY <1>4 DEF ImportUpload, InstallFromRegistry, SeedImport, Import
  <2> QED
    BY <1>2, <2>1 DEF Begin
<1>5. ASSUME NEW r \in Requests, ImportStep(r) PROVE r = p
  <2>1. CASE ImportTx(r)
    BY <1>2, <2>1 DEF ImportTx
  <2>2. CASE Clear(r)
    <3>1. req' = [req EXCEPT ![r] = [req[r] EXCEPT !.at = "place"]]
      BY <2>2 DEF Clear
    <3> QED
      BY <1>2, <3>1
  <2>3. CASE CopyBegins(r)
    <3>1. req' = [req EXCEPT ![r] = [req[r] EXCEPT !.at = "copy", !.todo = Files]]
      BY <2>3 DEF CopyBegins
    <3> QED
      BY <1>2, <3>1
  <2>4. ASSUME NEW f \in Files, CopyFile(r, f) PROVE r = p
    <3> DEFINE q == IF req[r].todo = {f} THEN Idle ELSE [req[r] EXCEPT !.todo = @ \ {f}]
    <3>1. req' = [req EXCEPT ![r] = q]
      BY <2>4 DEF CopyFile
    <3> QED
      BY <1>2, <3>1
  <2> QED
    BY <1>3, <1>5, <2>1, <2>2, <2>3, <2>4
       DEF ImportStep, ProtectedTx, ImportRefused, Rename, RenameFails, CopyFails
<1>6. ASSUME NEW r \in Requests, UninstallRead(r) \/ UninstallStep(r) \/ RenderBegins(r) \/ RenderStep(r)
      PROVE  r = p
  BY <1>2, <1>6
     DEF UninstallRead, UninstallStep, UninstallVersions, UninstallCommit, UninstallFails, RemoveFiles,
         RenderBegins, RenderStep, ReadManifest, ReadTemplate, RenderFails, Begin, Finish
<1>7. CASE UNCHANGED req
  BY <1>7
<1>8. CASE BootStep \/ Crash
  BY <1>4, <1>7, <1>8
     DEF BootStep, BootTo, SeedSkipped, SeedUser, SeedWithoutPlugin, SeedFails, SeedDevice, SeedScreen,
         SeedInstance, SeedSlot, Crash
<1> QED
  BY <1>4, <1>5, <1>6, <1>7, <1>8
     DEF Next, vars, DebugEnsure, CreateInstance, RemoveInstance, RemoveSlot

(***************************************************************************)
(* Where a request may be after a step, and what it carries from before.   *)
(***************************************************************************)
LEMMA RequestStep ==
    ASSUME TypeInv, [Next]_vars, NEW p \in Requests
    PROVE  \/ req'[p].at \in {"idle", "tx"}
           \/ req[p].at = "rm" /\ req'[p] = req[p]
           \/ ImportTx(p) \/ UninstallRead(p) \/ RenderBegins(p) \/ UninstallCommit(p)
           \/ /\ req[p].at \in Transferring /\ req'[p].at \in Transferring
              /\ Clear(p) \/ CopyBegins(p) \/ (\E f \in Files : CopyFile(p, f)) \/ req'[p] = req[p]
              /\ req'[p].version = req[p].version /\ req'[p].content = req[p].content
              /\ req'[p].id = req[p].id
           \/ /\ req[p].at \in Reading /\ req'[p].at \in Reading
              /\ req'[p].version = req[p].version /\ req'[p].content = req[p].content
              /\ req'[p].id = req[p].id
           \/ /\ req[p].at \in {"versions", "drop"} /\ req'[p].at \in {"versions", "drop"}
              /\ req'[p].id = req[p].id
              /\ req'[p].late = (req[p].late \/ PlaceSlot)
<1> DEFINE Goal ==
           \/ req'[p].at \in {"idle", "tx"}
           \/ req[p].at = "rm" /\ req'[p] = req[p]
           \/ ImportTx(p) \/ UninstallRead(p) \/ RenderBegins(p) \/ UninstallCommit(p)
           \/ /\ req[p].at \in Transferring /\ req'[p].at \in Transferring
              /\ Clear(p) \/ CopyBegins(p) \/ (\E f \in Files : CopyFile(p, f)) \/ req'[p] = req[p]
              /\ req'[p].version = req[p].version /\ req'[p].content = req[p].content
              /\ req'[p].id = req[p].id
           \/ /\ req[p].at \in Reading /\ req'[p].at \in Reading
              /\ req'[p].version = req[p].version /\ req'[p].content = req[p].content
              /\ req'[p].id = req[p].id
           \/ /\ req[p].at \in {"versions", "drop"} /\ req'[p].at \in {"versions", "drop"}
              /\ req'[p].id = req[p].id
              /\ req'[p].late = (req[p].late \/ PlaceSlot)
<1> SUFFICES Goal
  OBVIOUS
<1>1. req \in [Requests -> Request]
  BY Parts DEF TypeInv
<1>2. ASSUME req'[p] = req[p], ~PlaceSlot PROVE Goal
  <2>1. req[p].at \in {"versions", "drop"} => req[p].late \in BOOLEAN
    BY <1>1, RequestShape DEF Uninstalling
  <2> QED
    BY <1>1, <1>2, <2>1, RequestShape
<1>3. CASE Finish(p)
  BY <1>1, <1>3 DEF Finish, Idle
<1>4. ASSUME NEW v, NEW c, Begin(p, [at |-> "tx", version |-> v, content |-> c]) PROVE Goal
  BY <1>1, <1>4 DEF Begin
<1>5. CASE Clear(p)
  <2>1. req[p] \in Clearing
    BY <1>1, <1>5, RequestShape DEF Clear
  <2> QED
    BY <1>1, <1>5, <2>1 DEF Clear, Clearing, Transferring
<1>6. CASE CopyBegins(p)
  <2>1. req[p] \in Clearing
    BY <1>1, <1>6, RequestShape DEF CopyBegins
  <2> QED
    BY <1>1, <1>6, <2>1 DEF CopyBegins, Clearing, Transferring
<1>7. ASSUME NEW f \in Files, CopyFile(p, f) PROVE Goal
  <2>1. req[p] \in Copying
    BY <1>1, <1>7, RequestShape DEF CopyFile
  <2>2. CASE req[p].todo = {f}
    BY <1>1, <1>7, <2>2 DEF CopyFile, Idle
  <2>3. CASE req[p].todo # {f}
    BY <1>1, <1>7, <2>1, <2>3 DEF CopyFile, Copying, Transferring
  <2> QED
    BY <2>2, <2>3
<1>8. ASSUME UninstallVersions(p), ~PlaceSlot PROVE Goal
  <2>1. req[p] \in Uninstalling
    BY <1>1, <1>8, RequestShape DEF UninstallVersions
  <2> QED
    BY <1>1, <1>8, <2>1 DEF UninstallVersions, Uninstalling
<1>9. CASE PlaceSlot
  <2>1. CASE req[p].at \in {"versions", "drop"}
    <3>1. req[p] \in Uninstalling
      BY <1>1, <2>1, RequestShape
    <3>2. req'[p] = [req[p] EXCEPT !.late = TRUE]
      BY <1>9, <2>1 DEF PlaceSlot
    <3> QED
      BY <1>9, <2>1, <3>1, <3>2 DEF Uninstalling
  <2>2. CASE req[p].at \notin {"versions", "drop"}
    <3>1. req'[p] = req[p]
      BY <1>9, <2>2 DEF PlaceSlot
    <3> QED
      BY <1>1, <2>2, <3>1, RequestShape
  <2> QED
    BY <2>1, <2>2
<1>10. CASE ReadManifest(p)
  <2>1. req[p] \in Rendering
    BY <1>1, <1>10, RequestShape DEF ReadManifest, Reading
  <2> QED
    BY <1>1, <1>10, <2>1 DEF ReadManifest, Rendering, Reading
<1>11. CASE Exit
  BY <1>11 DEF Exit, Idle
<1>12. ASSUME ~PlaceSlot, ImportUpload(p) \/ InstallFromRegistry(p) \/ SeedImport(p) PROVE Goal
  <2>1. \E v, c : Begin(p, [at |-> "tx", version |-> v, content |-> c])
    BY <1>12 DEF ImportUpload, InstallFromRegistry, SeedImport, Import
  <2> QED
    BY <1>4, <2>1
<1>13. ASSUME ~PlaceSlot, ImportStep(p) PROVE Goal
  BY <1>3, <1>5, <1>6, <1>7, <1>13
     DEF ImportStep, ProtectedTx, ImportRefused, Rename, RenameFails, CopyFails
<1>14. ASSUME ~PlaceSlot, UninstallRead(p) \/ UninstallStep(p) \/ RenderBegins(p) \/ RenderStep(p)
       PROVE  Goal
  BY <1>3, <1>8, <1>10, <1>14
     DEF UninstallStep, UninstallFails, RemoveFiles, RenderStep, ReadTemplate, RenderFails
<1> HIDE DEF Goal
<1> QED
  BY <1>2, <1>9, <1>11, <1>12, <1>13, <1>14, Actor

\* What becomes of the plugin and its versions: an id is only ever new, a row
\* only filled when it is empty, and all goes at once.
LEMMA RowStep ==
    ASSUME TypeInv, [Next]_vars
    PROVE  \/ UNCHANGED <<plugin, lastId, row>>
           \/ \E r \in Requests, w \in Versions, c \in Contents \cup {Protected} :
                 AddVersion(w, c) /\ req[r].at = "tx" /\ req[r].version = w /\ req[r].content = c
                   /\ (ImportTx(r) \/ ProtectedTx(r))
           \/ (\E r \in Requests : UninstallCommit(r)) /\ plugin' = 0 /\ lastId' = lastId
                /\ row' = [v \in Versions |-> Nil] /\ instance' = NoInstance
<1>1. req \in [Requests -> Request]
  BY Parts DEF TypeInv
<1>2. ASSUME NEW r \in Requests, ImportTx(r) \/ ProtectedTx(r)
      PROVE  /\ req[r].version \in Versions /\ req[r].content \in Contents \cup {Protected}
             /\ req[r].at = "tx" /\ AddVersion(req[r].version, req[r].content)
  <2>1. req[r].at = "tx" /\ AddVersion(req[r].version, req[r].content)
    BY <1>2 DEF ImportTx, ProtectedTx
  <2>2. req[r] \in Uncommitted
    BY <1>1, <2>1, RequestShape
  <2> QED
    BY <2>1, <2>2 DEF Uncommitted
<1>3. CASE \E r \in Requests : ImportTx(r) \/ ProtectedTx(r)
  BY <1>2, <1>3
<1>4. CASE \E r \in Requests : UninstallCommit(r)
  BY <1>4 DEF UninstallCommit
<1>5. CASE UNCHANGED <<plugin, lastId, row>>
  BY <1>5
<1> QED
  BY <1>3, <1>4, <1>5
     DEF Next, ImportStep, UninstallStep, RenderStep, BootStep, BootTo, vars, store, DebugEnsure,
         ImportUpload, InstallFromRegistry, Import, ImportRefused, Clear, Rename, RenameFails,
         CopyBegins, CopyFile, CopyFails, UninstallRead, UninstallVersions, UninstallFails, RemoveFiles,
         CreateInstance, RemoveInstance, PlaceSlot, RemoveSlot,
         RenderBegins, ReadManifest, ReadTemplate, RenderFails, SeedSkipped, SeedUser,
         SeedWithoutPlugin, SeedFails, SeedImport, SeedDevice, SeedScreen, SeedInstance, SeedSlot,
         Exit, Crash

\* A row that a request has written or read stays while its plugin has its id.
LEMMA RowKept ==
    ASSUME TypeInv, [Next]_vars, NEW i \in 1..lastId, NEW v \in Versions, NEW c \in Contents,
           i = plugin => row[v] = c, i = plugin'
    PROVE  i = plugin /\ row'[v] = c /\ ~\E r \in Requests : UninstallCommit(r)
<1>1. Rows /\ Rows'
  BY Parts, RowsStep DEF TypeInv
<1>2. CASE UNCHANGED <<plugin, lastId, row>>
  <2>1. plugin # 0
    BY <1>1, <1>2 DEF Rows
  <2> QED
    BY <1>1, <1>2, <2>1 DEF Rows, UninstallCommit
<1>3. ASSUME NEW w \in Versions, NEW d \in Contents \cup {Protected}, AddVersion(w, d)
      PROVE  i = plugin /\ row'[v] = c /\ plugin' # 0
  BY <1>1, <1>3, StoreAssumption DEF Rows, AddVersion
<1>4. plugin' # 0
  BY <1>1 DEF Rows
<1>5. ~\E r \in Requests : UninstallCommit(r)
  BY <1>4 DEF UninstallCommit
<1> QED
  BY <1>1, <1>2, <1>3, <1>4, <1>5, RowStep

LEMMA IdsStep == TypeInv /\ [Next]_vars => IdsOK'
<1> SUFFICES ASSUME TypeInv, [Next]_vars, NEW p \in Requests
             PROVE  /\ req'[p].at \in Transferring \cup Reading =>
                          /\ req'[p].id \in 1..lastId'
                          /\ req'[p].id = plugin' => row'[req'[p].version] = req'[p].content
                    /\ req'[p].at \in {"versions", "drop"} => req'[p].id \in 1..lastId'
  BY DEF IdsOK
<1> DEFINE Goal == /\ req'[p].at \in Transferring \cup Reading =>
                          /\ req'[p].id \in 1..lastId'
                          /\ req'[p].id = plugin' => row'[req'[p].version] = req'[p].content
                   /\ req'[p].at \in {"versions", "drop"} => req'[p].id \in 1..lastId'
<1>1. /\ Rows /\ Rows' /\ req \in [Requests -> Request]
      /\ req[p].at \in Transferring \cup Reading =>
            /\ req[p].id \in 1..lastId
            /\ req[p].id = plugin => row[req[p].version] = req[p].content
      /\ req[p].at \in {"versions", "drop"} => req[p].id \in 1..lastId
  BY Parts, RowsStep DEF TypeInv, IdsOK
<1>2. lastId' \in Nat /\ lastId <= lastId'
  BY <1>1, RowStep DEF Rows, AddVersion
<1>3. CASE ImportTx(p)
  <2>1. req[p] \in Uncommitted /\ req[p].content # Protected
    BY <1>1, <1>3, RequestShape DEF ImportTx
  <2>2. /\ req'[p].at = "clear" /\ req'[p].version = req[p].version
        /\ req'[p].content = req[p].content /\ req'[p].id = plugin'
    BY <1>1, <1>3 DEF ImportTx
  <2>3. plugin' \in 1..lastId' /\ row'[req[p].version] = req[p].content
    BY <1>1, <1>3, <2>1 DEF ImportTx, AddVersion, Rows, Uncommitted
  <2> QED
    BY <2>2, <2>3
<1>4. CASE UninstallRead(p)
  <2>1. req'[p].at = "versions" /\ req'[p].id = plugin /\ plugin # 0
    BY <1>1, <1>4 DEF UninstallRead, Begin
  <2> QED
    BY <1>1, <1>2, <2>1 DEF Rows, Transferring, Reading
<1>5. CASE RenderBegins(p)
  <2>1. PICK v \in Versions :
            /\ row[v] \in Contents
            /\ Begin(p, [at |-> "manifest", version |-> v, content |-> row[v], id |-> plugin])
    BY <1>5 DEF RenderBegins
  <2>2. /\ req'[p].at = "manifest" /\ req'[p].version = v
        /\ req'[p].content = row[v] /\ req'[p].id = plugin
    BY <1>1, <2>1 DEF Begin
  <2>3. row' = row /\ plugin' = plugin /\ lastId' = lastId
    BY <1>5 DEF RenderBegins, store
  <2>4. plugin # 0
    BY <1>1, <2>1, StoreAssumption DEF Rows
  <2> QED
    BY <1>1, <2>2, <2>3, <2>4 DEF Rows
<1>6. ASSUME req[p].at \in Transferring \cup Reading, req'[p].id = req[p].id,
             req'[p].version = req[p].version, req'[p].content = req[p].content,
             req'[p].at \in Transferring \cup Reading
      PROVE  Goal
  <2>1. req[p].version \in Versions /\ req[p].content \in Contents
    BY <1>1, <1>6, RequestShape DEF Transferring, Reading, Clearing, Copying, Rendering
  <2>2. req[p].id \in 1..lastId'
    BY <1>1, <1>2, <1>6 DEF Rows
  <2>3. ASSUME req[p].id = plugin' PROVE row'[req[p].version] = req[p].content
    BY <1>1, <1>6, <2>1, <2>3, RowKept
  <2> QED
    BY <1>6, <2>2, <2>3 DEF Transferring, Reading
<1>7. CASE req[p].at \in {"versions", "drop"} /\ req'[p].at \in {"versions", "drop"} /\ req'[p].id = req[p].id
  BY <1>1, <1>2, <1>7 DEF Rows, Transferring, Reading
<1>8. CASE req'[p].at \in {"idle", "tx", "rm"}
  BY <1>8 DEF Transferring, Reading
<1>9. CASE UninstallCommit(p)
  BY <1>1, <1>8, <1>9 DEF UninstallCommit, Removing
<1> QED
  BY <1>3, <1>4, <1>5, <1>6, <1>7, <1>8, <1>9, RequestStep

LEMMA BootStays == TypeInv /\ [Next]_vars => BootOK'
<1> SUFFICES ASSUME TypeInv, [Next]_vars PROVE BootOK'
  OBVIOUS
<1>1. BootOK /\ Rows /\ Rows' /\ req \in [Requests -> Request]
  BY Parts, RowsStep DEF TypeInv
<1>2. ASSUME boot' # "up", NEW p \in Requests PROVE req'[p].at \in {"idle", "tx"} \cup Transferring
  <2>1. CASE Exit
    BY <2>1 DEF Exit, Idle
  <2>2. CASE boot # "up"
    <3>1. req[p].at \in {"idle", "tx"} \cup Transferring
      BY <1>1, <2>2 DEF BootOK
    <3>2. ~UninstallRead(p) /\ ~RenderBegins(p) /\ ~UninstallCommit(p)
      BY <2>2, <3>1 DEF UninstallRead, RenderBegins, UninstallCommit, Listening, Transferring
    <3>3. ImportTx(p) => req'[p].at = "clear"
      BY <1>1 DEF ImportTx
    <3> QED
      BY <3>1, <3>2, <3>3, RequestStep DEF Transferring, Reading
  <2>3. boot = "up" => Exit
    BY <1>2
       DEF Next, ImportStep, UninstallStep, RenderStep, BootStep, BootTo, vars, start, DebugEnsure,
           ImportUpload, InstallFromRegistry, ImportTx, ProtectedTx, ImportRefused, Clear, Rename,
           RenameFails, CopyBegins, CopyFile, CopyFails, UninstallRead, UninstallVersions,
           UninstallCommit, UninstallFails, RemoveFiles, CreateInstance, RemoveInstance, PlaceSlot,
           RemoveSlot, RenderBegins, ReadManifest, ReadTemplate, RenderFails, SeedSkipped, SeedUser,
           SeedWithoutPlugin, SeedFails, SeedImport, SeedDevice, SeedScreen, SeedInstance, SeedSlot, Crash
  <2> QED
    BY <2>1, <2>2, <2>3
<1>3. ASSUME boot' = "slot" PROVE plugin' # 0
  <2>1. (boot = "slot" \/ SeedInstance) /\ boot # "up"
    BY <1>3
       DEF Next, ImportStep, UninstallStep, RenderStep, BootStep, BootTo, vars, start, DebugEnsure,
           ImportUpload, InstallFromRegistry, ImportTx, ProtectedTx, ImportRefused, Clear, Rename,
           RenameFails, CopyBegins, CopyFile, CopyFails, UninstallRead, UninstallVersions,
           UninstallCommit, UninstallFails, RemoveFiles, CreateInstance, RemoveInstance, PlaceSlot,
           RemoveSlot, RenderBegins, ReadManifest, ReadTemplate, RenderFails, SeedSkipped, SeedUser,
           SeedWithoutPlugin, SeedFails, SeedImport, SeedDevice, SeedScreen, SeedInstance, SeedSlot,
           Exit, Crash
  <2>2. plugin # 0
    BY <1>1, <2>1 DEF BootOK, SeedInstance
  <2>3. ASSUME NEW r \in Requests, UninstallCommit(r) PROVE FALSE
    BY <1>1, <2>1, <2>3 DEF BootOK, UninstallCommit, Transferring
  <2> QED
    BY <1>1, <2>2, <2>3, RowStep DEF AddVersion, Rows
<1> QED
  BY <1>2, <1>3 DEF BootOK

LEMMA LateStep == TypeInv /\ [Next]_vars => LateOK'
<1> SUFFICES ASSUME TypeInv, [Next]_vars, NEW p \in Requests,
                    req'[p].at \in {"versions", "drop"}, req'[p].id = plugin', instance'.slot
             PROVE  req'[p].late
  BY DEF LateOK
<1>1. Rows /\ Rows' /\ req \in [Requests -> Request] /\ IdsOK /\ LateOK /\ BootOK
  BY Parts, RowsStep DEF TypeInv
<1>2. ~ImportTx(p) /\ ~RenderBegins(p) /\ ~UninstallCommit(p)
  BY <1>1 DEF ImportTx, RenderBegins, UninstallCommit, Begin, Removing
<1>3. ~UninstallRead(p)
  BY <1>1 DEF UninstallRead, store
<1>4. /\ req[p].at \in {"versions", "drop"} /\ req'[p].id = req[p].id
      /\ req'[p].late = (req[p].late \/ PlaceSlot)
  BY <1>2, <1>3, RequestStep DEF Transferring, Reading
<1>5. req[p].id \in 1..lastId
  BY <1>1, <1>4 DEF IdsOK
<1>6. plugin = plugin'
  BY <1>1, <1>4, <1>5, RowStep DEF Rows, AddVersion
<1>7. ASSUME ~PlaceSlot PROVE instance.slot
  <2>1. ~SeedSlot
    BY <1>1, <1>4 DEF SeedSlot, BootOK, Transferring
  <2>2. ASSUME NEW pin \in Versions \cup {Nil}, CreateInstance(pin) PROVE FALSE
    BY <2>2 DEF CreateInstance
  <2>3. ~RemoveInstance /\ ~RemoveSlot /\ ~SeedInstance
    BY <1>1 DEF RemoveInstance, RemoveSlot, SeedInstance, NoInstance, Rows
  <2>4. ASSUME NEW r \in Requests, UninstallCommit(r) PROVE FALSE
    BY <2>4 DEF UninstallCommit, NoInstance
  <2>5. instance' = instance
    BY <1>7, <2>1, <2>2, <2>3, <2>4
       DEF Next, ImportStep, UninstallStep, RenderStep, BootStep, BootTo, vars, store, DebugEnsure,
           ImportUpload, InstallFromRegistry, Import, ImportTx, ProtectedTx, AddVersion, ImportRefused,
           Clear, Rename, RenameFails, CopyBegins, CopyFile, CopyFails, UninstallRead,
           UninstallVersions, UninstallFails, RemoveFiles, RenderBegins, ReadManifest, ReadTemplate,
           RenderFails, SeedSkipped, SeedUser, SeedWithoutPlugin, SeedFails, SeedImport, SeedDevice,
           SeedScreen, Exit, Crash
  <2> QED
    BY <2>5
<1>8. req[p].late \/ PlaceSlot
  BY <1>1, <1>4, <1>6, <1>7 DEF LateOK
<1> QED
  BY <1>4, <1>8

LEMMA TypeInvStep == TypeInv /\ [Next]_vars => TypeInv'
<1> SUFFICES ASSUME TypeInv, [Next]_vars PROVE TypeInv'
  OBVIOUS
<1>1. Rows' /\ Disk' /\ Started' /\ req' \in [Requests -> Request] /\ hurt' \in SUBSET Versions
  BY RowsStep, DiskStep, StartedStep, RequestsStep
<1>2. TypeOK'
  BY <1>1 DEF TypeOK, Rows, Disk, Started
<1> QED
  BY <1>2, IdsStep, BootStays, LateStep DEF TypeInv

\* TypeOK holds for every number of requests, versions, builds and crashes.
THEOREM StoreTypes == Spec => []TypeOK
<1>1. Spec => []TypeInv
  BY TypeInvInit, TypeInvStep, PTL DEF Spec
<1>2. TypeInv => TypeOK
  BY DEF TypeInv
<1> QED
  BY <1>1, <1>2, PTL

\* UninstallSparesSlots: an uninstall that takes a slot with it had looked for
\* slots before that slot was created.
THEOREM SlotsSpared == Spec => UninstallSparesSlots
<1>1. Spec => []TypeInv
  BY TypeInvInit, TypeInvStep, PTL DEF Spec
<1>2. TypeInv => \A r \in Requests : UninstallCommit(r) /\ instance.slot => req[r].late
  BY DEF TypeInv, LateOK, UninstallCommit
<1> QED
  BY <1>1, <1>2, PTL DEF UninstallSparesSlots

-----------------------------------------------------------------------------
(* Files.                                                                  *)

LEMMA MoverShape ==
    ASSUME TypeInv, NEW r \in Requests, req[r].at \in Transferring
    PROVE  /\ req[r].version \in Versions /\ req[r].content \in Contents /\ req[r].id \in 1..lastId
           /\ req[r].id = plugin => row[req[r].version] = req[r].content
           /\ IsMoving(r, req[r].version)
           /\ req[r].at \in {"clear", "place"} => req[r] \in Clearing
           /\ req[r].at = "copy" => req[r] \in Copying
<1>1. req[r] \in Request
  BY Parts DEF TypeInv
<1>2. req[r] \in Clearing \/ req[r] \in Copying
  BY <1>1, RequestShape DEF Transferring
<1> QED
  BY <1>1, <1>2, RequestShape DEF TypeInv, IdsOK, IsMoving, Transferring, Clearing, Copying

LEMMA RemovalStep ==
    ASSUME TypeInv, [Next]_vars, RemovalPending', ~\E r \in Requests : UninstallCommit(r)
    PROVE  RemovalPending
<1>1. PICK p \in Requests : req'[p].at = "rm"
  BY DEF RemovalPending
<1>2. ~ImportTx(p) /\ ~UninstallRead(p) /\ ~RenderBegins(p)
  BY <1>1, Parts DEF TypeInv, ImportTx, UninstallRead, RenderBegins, Begin
<1>3. req[p].at = "rm"
  BY <1>1, <1>2, RequestStep DEF Transferring, Reading
<1> QED
  BY <1>3 DEF RemovalPending

LEMMA RemovalEnds ==
    ASSUME TypeInv, [Next]_vars, RemovalPending, ~RemovalPending'
    PROVE  Exit \/ \E r \in Requests : RemoveFiles(r)
<1>1. PICK p \in Requests : req[p].at = "rm" /\ req'[p].at # "rm"
  BY DEF RemovalPending
<1>2. ASSUME PlaceSlot PROVE FALSE
  BY <1>1, <1>2, Parts DEF TypeInv, PlaceSlot
<1>3. ASSUME ~Exit PROVE RemoveFiles(p)
  <2>1. \/ ImportUpload(p) \/ InstallFromRegistry(p) \/ SeedImport(p) \/ ImportStep(p)
        \/ UninstallRead(p) \/ UninstallStep(p) \/ RenderBegins(p) \/ RenderStep(p)
    BY <1>1, <1>2, <1>3, Actor
  <2> QED
    BY <1>1, <2>1
       DEF ImportUpload, InstallFromRegistry, SeedImport, Import, ImportStep, UninstallRead, UninstallStep,
           RenderBegins, RenderStep, Begin, Idle, ImportTx, ProtectedTx, ImportRefused, Clear, Rename,
           RenameFails, CopyBegins, CopyFails, CopyFile, UninstallVersions, UninstallCommit,
           UninstallFails, ReadManifest, ReadTemplate, RenderFails
<1> QED
  BY <1>3

LEMMA MoveEnds ==
    ASSUME TypeInv, [Next]_vars, NEW v \in Versions, SomeMoving(v), ~SomeMoving(v)', ~Exit
    PROVE  \E r \in Requests : IsMoving(r, v) /\
              \/ Rename(r) \/ RenameFails(r) \/ CopyFails(r)
              \/ \E f \in Files : CopyFile(r, f) /\ req[r].todo = {f}
<1>1. PICK p \in Requests : IsMoving(p, v)
  BY DEF SomeMoving
<1>2. ~IsMoving(p, v)' /\ req[p].at \in Transferring /\ req \in [Requests -> Request]
  BY <1>1, Parts DEF SomeMoving, IsMoving, Transferring, TypeInv
<1>3. req'[p] # req[p]
  BY <1>1, <1>2 DEF IsMoving
<1>4. ASSUME PlaceSlot PROVE FALSE
  BY <1>2, <1>3, <1>4 DEF PlaceSlot, Transferring
<1>5. ImportStep(p)
  <2>1. \/ ImportUpload(p) \/ InstallFromRegistry(p) \/ SeedImport(p) \/ ImportStep(p)
        \/ UninstallRead(p) \/ UninstallStep(p) \/ RenderBegins(p) \/ RenderStep(p)
    BY <1>3, <1>4, Actor
  <2> QED
    BY <1>2, <2>1
       DEF ImportUpload, InstallFromRegistry, SeedImport, Import, UninstallRead, UninstallStep,
           RenderBegins, RenderStep, Begin, Idle, UninstallVersions, UninstallCommit, UninstallFails,
           RemoveFiles, ReadManifest, ReadTemplate, RenderFails, Transferring
<1>6. ~ImportTx(p) /\ ~ProtectedTx(p) /\ ~ImportRefused(p)
  BY <1>2 DEF ImportTx, ProtectedTx, ImportRefused, Transferring
<1>7. ~Clear(p)
  BY <1>1, <1>2, MoverShape DEF Clear, IsMoving, Clearing
<1>8. ~CopyBegins(p)
  BY <1>1, <1>2, MoverShape DEF CopyBegins, IsMoving, Clearing
<1>9. ASSUME NEW f \in Files, CopyFile(p, f) PROVE req[p].todo = {f}
  BY <1>1, <1>2, <1>9, MoverShape DEF CopyFile, IsMoving, Copying
<1> QED
  BY <1>1, <1>5, <1>6, <1>7, <1>8, <1>9 DEF ImportStep

\* Only a commit makes a request move a version.
LEMMA MoveBegins ==
    ASSUME TypeInv, [Next]_vars, NEW v, NEW p \in Requests, IsMoving(p, v)', ~IsMoving(p, v)
    PROVE  ImportTx(p) /\ req[p].version = v
<1>1. req \in [Requests -> Request]
  BY Parts DEF TypeInv
<1>2. req'[p].at \in Transferring /\ req'[p].version = v
  BY DEF IsMoving, Transferring
<1>3. ~UninstallRead(p) /\ ~RenderBegins(p) /\ ~UninstallCommit(p)
  BY <1>1, <1>2 DEF UninstallRead, RenderBegins, UninstallCommit, Begin, Removing, Transferring
<1>4. ImportTx(p)
  BY <1>2, <1>3, RequestStep DEF IsMoving, Transferring, Reading
<1> QED
  BY <1>1, <1>2, <1>4 DEF ImportTx

\* What a step does to the directory of a version.
LEMMA DirStep ==
    ASSUME TypeInv, [Next]_vars, NEW v \in Versions
    PROVE  \/ dir'[v] = dir[v] /\ (root => root')
           \/ dir[v] = Nil /\ dir'[v] = Empty /\ (root => root')
           \/ \E r \in Requests : RemoveFiles(r)
           \/ \E r \in Requests : IsMoving(r, v) /\ (Clear(r) \/ Rename(r) \/ CopyBegins(r)
                                                     \/ \E f \in Files : CopyFile(r, f))
<1>1. Disk /\ req \in [Requests -> Request]
  BY Parts DEF TypeInv
<1>2. CASE UNCHANGED <<root, dir>>
  BY <1>2
<1>3. ASSUME NEW w, EnsurePluginDirectories(w)
      PROVE  root' /\ (dir'[v] = dir[v] \/ (dir[v] = Nil /\ dir'[v] = Empty))
  <2>1. root' /\ dir' = IF dir[w] = Nil THEN [dir EXCEPT ![w] = Empty] ELSE dir
    BY <1>3 DEF EnsurePluginDirectories
  <2>2. CASE w = v
    BY <1>1, <2>1, <2>2 DEF Disk
  <2>3. CASE w # v
    BY <1>1, <2>1, <2>3 DEF Disk
  <2> QED
    BY <2>1, <2>2, <2>3
<1>4. ASSUME NEW r \in Requests, Clear(r) \/ Rename(r) \/ CopyBegins(r) \/ \E f \in Files : CopyFile(r, f)
      PROVE  IsMoving(r, v) \/ (dir'[v] = dir[v] /\ (root => root'))
  <2>1. ASSUME req[r].version # v PROVE dir'[v] = dir[v] /\ (root => root')
    BY <1>1, <1>4, <2>1 DEF Clear, Rename, CopyBegins, CopyFile, Disk
  <2>2. req[r].at \in {"clear", "place", "copy"}
    BY <1>4 DEF Clear, Rename, CopyBegins, CopyFile
  <2> QED
    BY <2>1, <2>2 DEF IsMoving
<1>5. ASSUME NEW r \in Requests, ImportUpload(r) \/ InstallFromRegistry(r) \/ SeedImport(r)
      PROVE  UNCHANGED <<root, dir>> \/ \E w : EnsurePluginDirectories(w)
  BY <1>5 DEF ImportUpload, InstallFromRegistry, SeedImport, Import, files
<1> QED
  BY <1>2, <1>3, <1>4, <1>5
     DEF Next, ImportStep, UninstallStep, RenderStep, BootStep, BootTo, vars, files, DebugEnsure,
         ImportTx, ProtectedTx, ImportRefused, RenameFails, CopyFails, UninstallRead, UninstallVersions,
         UninstallCommit, UninstallFails, CreateInstance, RemoveInstance, PlaceSlot, RemoveSlot,
         RenderBegins, ReadManifest, ReadTemplate, RenderFails, SeedSkipped, SeedUser,
         SeedWithoutPlugin, SeedFails, SeedDevice, SeedScreen, SeedInstance, SeedSlot, Exit, Crash

\* When a version ceases to be hurt.
LEMMA HurtStep ==
    ASSUME TypeInv, [Next]_vars, NEW v \in Versions, v \in hurt, v \notin hurt'
    PROVE  \/ \E r \in Requests : /\ Clear(r) /\ req[r].version = v /\ req[r].id = plugin /\ ~RemovalPending
                                  /\ \A p \in Requests \ {r} : ~IsMoving(p, v)
           \/ row[v] \notin Contents /\ ~SomeMoving(v) /\ \E r \in Requests : RemoveFiles(r)
<1>1. hurt \in SUBSET Versions
  BY Parts DEF TypeInv
<1>2. ASSUME NEW r \in Requests, ImportTx(r) PROVE FALSE
  BY <1>1, <1>2 DEF ImportTx
<1>3. ASSUME NEW r \in Requests, UninstallCommit(r) PROVE FALSE
  BY <1>3 DEF UninstallCommit
<1>4. ASSUME NEW r \in Requests, Clear(r)
      PROVE  /\ req[r].version = v /\ req[r].id = plugin /\ ~RemovalPending
             /\ \A p \in Requests \ {r} : ~IsMoving(p, v)
  BY <1>4 DEF Clear
<1>5. ASSUME NEW r \in Requests, RemoveFiles(r) PROVE row[v] \notin Contents /\ ~SomeMoving(v)
  BY <1>5 DEF RemoveFiles
<1>6. ~Exit
  BY DEF Exit
<1>7. hurt' # hurt
  OBVIOUS
<1> QED
  BY <1>2, <1>3, <1>4, <1>5, <1>6, <1>7
     DEF Next, ImportStep, UninstallStep, RenderStep, BootStep, BootTo, vars, DebugEnsure,
         ImportUpload, InstallFromRegistry, Import, ProtectedTx, ImportRefused, Rename, RenameFails,
         CopyBegins, CopyFile, CopyFails, UninstallRead, UninstallVersions, UninstallFails,
         CreateInstance, RemoveInstance, PlaceSlot, RemoveSlot, RenderBegins, ReadManifest,
         ReadTemplate, RenderFails, SeedSkipped, SeedUser, SeedWithoutPlugin, SeedFails, SeedImport,
         SeedDevice, SeedScreen, SeedInstance, SeedSlot, Crash

LEMMA StoreInvInit == Init => StoreInv
<1> SUFFICES ASSUME Init PROVE StoreInv
  OBVIOUS
<1>1. \A r \in Requests : req[r] = Idle
  BY DEF Init
<1>2. FilesMatchRows
  BY StoreAssumption DEF Init, FilesMatchRows
<1>3. TransferOK /\ RemovalOK
  BY <1>1 DEF TransferOK, RemovalOK, RemovalPending, Transferring, Idle
<1> QED
  BY <1>2, <1>3 DEF StoreInv

LEMMA RemovalKept == TypeInv /\ StoreInv /\ [Next]_vars => RemovalOK'
<1> SUFFICES ASSUME TypeInv, StoreInv, [Next]_vars, RemovalPending',
                    NEW v \in Versions, row'[v] \in Contents
             PROVE  v \in hurt'
  BY DEF RemovalOK
<1>1. ASSUME NEW r \in Requests, UninstallCommit(r) PROVE FALSE
  BY <1>1, StoreAssumption DEF UninstallCommit
<1>2. RemovalPending
  BY <1>1, RemovalStep
<1>3. CASE row'[v] # row[v]
  <2>1. PICK r \in Requests : /\ req[r].version = v /\ (ImportTx(r) \/ ProtectedTx(r))
                              /\ AddVersion(v, req[r].content) /\ req[r].content = row'[v]
    BY <1>1, <1>3, Parts, RowStep DEF AddVersion, TypeInv, Rows
  <2>2. ~ProtectedTx(r)
    BY <2>1, StoreAssumption DEF ProtectedTx
  <2> QED
    BY <1>2, <2>1, <2>2 DEF ImportTx
<1>4. CASE row'[v] = row[v]
  <2>1. v \in hurt
    BY <1>2, <1>4 DEF StoreInv, RemovalOK
  <2> QED
    BY <1>2, <1>4, <2>1, HurtStep
<1> QED
  BY <1>3, <1>4

LEMMA TransferKept == TypeInv /\ StoreInv /\ [Next]_vars => TransferOK'
<1> SUFFICES ASSUME TypeInv, StoreInv, [Next]_vars, NEW r \in Requests, NEW v \in Versions,
                    req'[r].at \in Transferring, v = req'[r].version, v \notin hurt'
             PROVE  /\ req'[r].id = plugin' /\ ~RemovalPending'
                    /\ \A p \in Requests : IsMoving(p, v)' => p = r
                    /\ req'[r].at \in {"clear", "place"} => dir'[v] \in {Nil, Empty}
                    /\ req'[r].at = "place" => root'
                    /\ req'[r].at = "copy" =>
                          dir'[v] = [f \in Files |-> IF f \in req'[r].todo THEN Nil ELSE req'[r].content]
  BY TypeInvStep, RequestsStep, RequestShape DEF TransferOK, Transferring, Clearing, Copying
<1> DEFINE Goal == /\ req'[r].id = plugin' /\ ~RemovalPending'
                   /\ \A p \in Requests : IsMoving(p, v)' => p = r
                   /\ req'[r].at \in {"clear", "place"} => dir'[v] \in {Nil, Empty}
                   /\ req'[r].at = "place" => root'
                   /\ req'[r].at = "copy" =>
                         dir'[v] = [f \in Files |-> IF f \in req'[r].todo THEN Nil ELSE req'[r].content]
<1> SUFFICES Goal
  OBVIOUS
<1>1. /\ Rows /\ Disk /\ req \in [Requests -> Request] /\ hurt \in SUBSET Versions
      /\ FilesMatchRows /\ TransferOK /\ RemovalOK
  BY Parts DEF TypeInv, StoreInv
\* Nobody else begins to move v when it has a row.
<1>2. ASSUME NEW p \in Requests, IsMoving(p, v)', ~IsMoving(p, v) PROVE ImportTx(p) /\ row[v] = Nil
  BY <1>2, MoveBegins DEF ImportTx, AddVersion
<1>3. CASE ImportTx(r)
  <2>1. req[r] \in Uncommitted /\ req[r].content # Protected
    BY <1>1, <1>3, RequestShape DEF ImportTx
  <2>2. /\ req'[r].at = "clear" /\ req[r].version = v /\ req'[r].id = plugin'
        /\ row[v] = Nil /\ dir' = dir
        /\ hurt' = IF RemovalPending THEN hurt \cup {v} ELSE hurt
    BY <1>1, <1>3 DEF ImportTx, AddVersion, files
  <2>3. ~RemovalPending /\ v \notin hurt
    BY <2>2
  <2>4. ASSUME NEW q \in Requests, UninstallCommit(q) PROVE FALSE
    BY <1>1, <1>3, <2>1, <2>4 DEF UninstallCommit, ImportTx, AddVersion, Uncommitted, Rows
  <2>5. ~RemovalPending'
    BY <2>3, <2>4, RemovalStep
  <2>6. ASSUME NEW p \in Requests, IsMoving(p, v) PROVE FALSE
    <3>1. req[p].at \in Transferring /\ req[p].version = v
      BY <2>6 DEF IsMoving, Transferring
    <3>2. req[p].id = plugin
      BY <1>1, <2>3, <3>1 DEF TransferOK
    <3> QED
      BY <2>2, <3>1, <3>2, MoverShape, StoreAssumption
  <2>7. ASSUME NEW p \in Requests, IsMoving(p, v)' PROVE p = r
    <3>1. ImportTx(p)
      BY <1>2, <2>6, <2>7
    <3> QED
      BY <1>1, <1>3, <3>1 DEF ImportTx
  <2>8. dir[v] \in {Nil, Empty}
    BY <1>1, <2>2, <2>3, <2>6, StoreAssumption DEF FilesMatchRows, SomeMoving
  <2> QED
    BY <2>2, <2>5, <2>7, <2>8
<1>4. ASSUME ~ImportTx(r)
      PROVE  /\ req[r].at \in Transferring /\ req[r].version = v
             /\ Clear(r) \/ CopyBegins(r) \/ (\E f \in Files : CopyFile(r, f)) \/ req'[r] = req[r]
             /\ req'[r].content = req[r].content /\ req'[r].id = req[r].id
  <2>1. ~UninstallRead(r) /\ ~RenderBegins(r) /\ ~UninstallCommit(r)
    BY <1>1 DEF UninstallRead, RenderBegins, UninstallCommit, Begin, Removing, Transferring
  <2> QED
    BY <1>4, <2>1, RequestStep DEF Transferring, Reading
\* The import was not overtaken before the step, and is not in the step.
<1>5. ASSUME ~ImportTx(r)
      PROVE  /\ req[r].id = plugin /\ ~RemovalPending /\ row[v] = req[r].content
             /\ \A p \in Requests : IsMoving(p, v) => p = r
             /\ v \in hurt => Clear(r)
  <2>1. IsMoving(r, v)
    BY <1>4, <1>5, MoverShape
  <2>2. CASE v \in hurt
    <3>1. ~\E q \in Requests : RemoveFiles(q) /\ ~SomeMoving(v)
      BY <2>1 DEF SomeMoving
    <3>2. /\ Clear(r) /\ req[r].id = plugin /\ ~RemovalPending
          /\ \A p \in Requests \ {r} : ~IsMoving(p, v)
      BY <2>1, <2>2, <3>1, HurtStep
    <3> QED
      BY <1>4, <1>5, <3>2, MoverShape
  <2>3. CASE v \notin hurt
    BY <1>1, <1>4, <1>5, <2>3, MoverShape DEF TransferOK
  <2> QED
    BY <2>2, <2>3
<1>6. ASSUME ~ImportTx(r), NEW q \in Requests, UninstallCommit(q) PROVE FALSE
  <2>1. SomeMoving(v)
    BY <1>4, <1>6, MoverShape DEF SomeMoving
  <2> QED
    BY <1>6, <2>1 DEF UninstallCommit
<1>7. ASSUME ~ImportTx(r)
      PROVE  /\ req'[r].id = plugin' /\ ~RemovalPending'
             /\ \A p \in Requests : IsMoving(p, v)' => p = r
  <2>1. ~RemovalPending'
    BY <1>5, <1>6, <1>7, RemovalStep
  <2>2. plugin' = plugin
    BY <1>1, <1>4, <1>5, <1>6, <1>7, MoverShape, RowStep DEF AddVersion, Rows
  <2>3. req[r].content \in Contents
    BY <1>4, <1>7, MoverShape
  <2>4. ASSUME NEW p \in Requests, IsMoving(p, v)' PROVE p = r
    BY <1>2, <1>5, <1>7, <2>3, <2>4, StoreAssumption
  <2> QED
    BY <1>4, <1>5, <1>7, <2>1, <2>2, <2>4
<1>8. CASE Clear(r)
  <2>1. ~ImportTx(r)
    BY <1>8 DEF Clear, ImportTx
  <2>2. req[r] \in Clearing /\ req[r].version = v
    BY <1>4, <1>8, <2>1, MoverShape DEF Clear
  <2>3. req'[r].at = "place" /\ dir'[v] = Nil /\ root'
    BY <1>1, <1>8, <2>2 DEF Clear, Clearing, Disk
  <2> QED
    BY <1>7, <2>1, <2>3
<1>9. ASSUME ~ImportTx(r), ~Clear(r)
      PROVE  /\ req[r].at \in {"clear", "place"} => dir[v] \in {Nil, Empty}
             /\ req[r].at = "place" => root
             /\ req[r].at = "copy" => dir[v] = [f \in Files |-> IF f \in req[r].todo THEN Nil ELSE req[r].content]
  BY <1>1, <1>4, <1>5, <1>9 DEF TransferOK
<1>10. CASE CopyBegins(r)
  <2>1. ~ImportTx(r) /\ ~Clear(r)
    BY <1>10 DEF Clear, ImportTx, CopyBegins
  <2>2. req[r] \in Clearing /\ req[r].version = v /\ dir[v] \in {Nil, Empty}
    BY <1>4, <1>9, <1>10, <2>1, MoverShape DEF CopyBegins
  <2>3. req'[r].at = "copy" /\ req'[r].todo = Files /\ dir'[v] = Empty
    BY <1>1, <1>10, <2>2 DEF CopyBegins, Clearing, Disk
  <2>4. Empty = [f \in Files |-> IF f \in req'[r].todo THEN Nil ELSE req'[r].content]
    BY <2>3 DEF Empty
  <2> QED
    BY <1>7, <2>1, <2>3, <2>4
<1>11. ASSUME NEW f \in Files, CopyFile(r, f) PROVE Goal
  <2>1. ~ImportTx(r) /\ ~Clear(r) /\ req[r].at = "copy"
    BY <1>11 DEF Clear, ImportTx, CopyFile
  <2>2. req[r] \in Copying /\ req[r].version = v
    BY <1>4, <2>1, MoverShape
  <2>3. dir[v] = [g \in Files |-> IF g \in req[r].todo THEN Nil ELSE req[r].content]
    BY <1>9, <2>1
  <2>4. req[r].todo # {f}
    BY <1>1, <1>11 DEF CopyFile, Idle, Transferring
  <2>5. /\ req'[r].at = "copy" /\ req'[r].todo = req[r].todo \ {f}
        /\ req'[r].content = req[r].content
    BY <1>1, <1>11, <2>2, <2>4 DEF CopyFile, Copying
  <2>6. dir'[v] = [dir[v] EXCEPT ![f] = req[r].content]
    BY <1>1, <1>11, <2>2 DEF CopyFile, Disk
  <2>7. dir'[v] = [g \in Files |-> IF g \in req[r].todo \ {f} THEN Nil ELSE req[r].content]
    BY <2>3, <2>6
  <2> QED
    BY <1>7, <2>1, <2>5, <2>7
<1>12. CASE req'[r] = req[r] /\ ~ImportTx(r) /\ ~Clear(r) /\ ~CopyBegins(r) /\ ~\E f \in Files : CopyFile(r, f)
  <2>1. ~\E q \in Requests : RemoveFiles(q)
    BY <1>5, <1>12 DEF RemoveFiles, RemovalPending
  <2>2. ~Rename(r)
    BY <1>1, <1>12 DEF Rename, Finish, Idle, Transferring
  <2>3. /\ dir'[v] = dir[v] \/ (dir[v] = Nil /\ dir'[v] = Empty)
        /\ root => root'
    BY <1>5, <1>12, <2>1, <2>2, DirStep
  <2>4. req[r].at = "copy" => dir[v] # Nil
    BY <1>1, <1>9, <1>12, FilesAssumption, MoverShape
  <2> QED
    BY <1>7, <1>9, <1>12, <2>3, <2>4 DEF Transferring
<1> HIDE DEF Goal
<1> QED
  BY <1>3, <1>4, <1>8, <1>10, <1>11, <1>12

LEMMA FilesKept == TypeInv /\ StoreInv /\ [Next]_vars => FilesMatchRows'
<1> SUFFICES ASSUME TypeInv, StoreInv, [Next]_vars,
                    NEW v \in Versions, v \notin hurt', ~SomeMoving(v)'
             PROVE  /\ row'[v] \in Contents => dir'[v] = Holding(row'[v])
                    /\ row'[v] \notin Contents /\ ~RemovalPending' => dir'[v] \in {Nil, Empty}
  BY DEF FilesMatchRows, Holding
<1> DEFINE Goal == /\ row'[v] \in Contents => dir'[v] = Holding(row'[v])
                   /\ row'[v] \notin Contents /\ ~RemovalPending' => dir'[v] \in {Nil, Empty}
<1> SUFFICES Goal
  OBVIOUS
<1>1. /\ Rows /\ Disk /\ req \in [Requests -> Request] /\ hurt \in SUBSET Versions
      /\ FilesMatchRows /\ TransferOK /\ RemovalOK
  BY Parts DEF TypeInv, StoreInv
<1>2. \A c \in Contents : Holding(c) # Nil
  BY FilesAssumption DEF Holding
\* Nothing but an uninstall or a finished move touches a version like this.
<1>3. ASSUME v \notin hurt, ~SomeMoving(v), RemovalPending => RemovalPending',
             row'[v] = row[v] \/ (row[v] \notin Contents /\ row'[v] \notin Contents),
             dir'[v] = dir[v] \/ (dir[v] = Nil /\ dir'[v] = Empty)
      PROVE  Goal
  BY <1>1, <1>2, <1>3 DEF FilesMatchRows
<1>4. ASSUME NEW r \in Requests, RemoveFiles(r) PROVE Goal
  <2>1. RemovalPending /\ row' = row /\ dir'[v] = Nil
    BY <1>4 DEF RemoveFiles, RemovalPending, store
  <2>2. ASSUME row[v] \in Contents PROVE FALSE
    BY <1>1, <1>4, <2>1, <2>2 DEF RemovalOK, RemoveFiles
  <2> QED
    BY <2>1, <2>2
<1>5. ASSUME NEW r \in Requests, UninstallCommit(r) PROVE Goal
  <2>1. row'[v] = Nil /\ req'[r].at = "rm"
    BY <1>1, <1>5 DEF UninstallCommit, Removing
  <2> QED
    BY <2>1, StoreAssumption DEF RemovalPending
<1>6. CASE Exit
  <2>1. ~RemovalPending /\ ~SomeMoving(v) /\ v \notin hurt /\ row' = row /\ dir' = dir
    BY <1>6 DEF Exit, store, files
  <2> QED
    BY <1>3, <2>1
<1>7. ASSUME NEW r \in Requests, IsMoving(r, v),
             \/ Rename(r) \/ RenameFails(r) \/ CopyFails(r)
             \/ \E f \in Files : CopyFile(r, f) /\ req[r].todo = {f}
      PROVE  Goal
  <2>1. req[r].at \in Transferring /\ req[r].version = v
    BY <1>7 DEF IsMoving, Transferring
  <2>2. v \notin hurt /\ row' = row
    BY <1>7 DEF Rename, RenameFails, CopyFails, CopyFile, store
  <2>3. row[v] = req[r].content /\ req[r].content \in Contents
    BY <1>1, <2>1, <2>2, MoverShape DEF TransferOK
  <2>4. CASE Rename(r)
    <3>1. dir'[v] = Holding(req[r].content)
      BY <1>1, <2>1, <2>4 DEF Rename, Disk
    <3> QED
      BY <2>2, <2>3, <3>1
  <2>5. ~RenameFails(r)
    BY <1>1, <2>1, <2>2 DEF TransferOK, RenameFails
  <2>6. ASSUME NEW f \in Files, CopyFile(r, f), req[r].todo = {f} PROVE Goal
    <3>1. dir[v] = [g \in Files |-> IF g \in {f} THEN Nil ELSE req[r].content]
      BY <1>1, <2>1, <2>2, <2>6 DEF TransferOK, CopyFile
    <3>2. dir'[v] = [dir[v] EXCEPT ![f] = req[r].content]
      BY <1>1, <2>1, <2>6 DEF CopyFile, Disk
    <3>3. dir'[v] = Holding(req[r].content)
      BY <3>1, <3>2 DEF Holding
    <3> QED
      BY <2>2, <2>3, <3>3
  <2>7. ASSUME CopyFails(r) PROVE FALSE
    <3>1. dir[v] = [g \in Files |-> IF g \in req[r].todo THEN Nil ELSE req[r].content] /\ dir[v] = Nil
      BY <1>1, <2>1, <2>2, <2>7 DEF TransferOK, CopyFails
    <3>2. dir[v] \in [Files -> Contents \cup {Nil}]
      BY <2>3, <3>1
    <3> QED
      BY <3>1, <3>2, FilesAssumption
  <2> QED
    BY <1>7, <2>4, <2>5, <2>6, <2>7
<1>8. ASSUME ~\E r \in Requests : RemoveFiles(r), ~\E r \in Requests : UninstallCommit(r), ~Exit, ~SomeMoving(v)
      PROVE  Goal
  <2>1. dir'[v] = dir[v] \/ (dir[v] = Nil /\ dir'[v] = Empty)
    BY <1>8, DirStep DEF SomeMoving
  <2>2. RemovalPending => RemovalPending'
    BY <1>8, RemovalEnds
  <2>3. v \notin hurt
    <3>1. ASSUME NEW r \in Requests, Clear(r), req[r].version = v PROVE FALSE
      BY <1>8, <3>1 DEF Clear, SomeMoving, IsMoving
    <3> QED
      BY <1>8, <3>1, HurtStep
  <2>4. ASSUME row'[v] # row[v] PROVE row[v] \notin Contents /\ row'[v] \notin Contents
    <3>1. PICK r \in Requests : /\ req[r].version = v /\ (ImportTx(r) \/ ProtectedTx(r))
                                /\ AddVersion(v, req[r].content) /\ req[r].content = row'[v]
      BY <1>1, <1>8, <2>4, RowStep DEF AddVersion, Rows
    <3>2. ASSUME ImportTx(r) PROVE FALSE
      <4>1. req'[r].at = "clear" /\ req'[r].version = v
        BY <1>1, <3>1, <3>2 DEF ImportTx
      <4> QED
        BY <4>1 DEF SomeMoving, IsMoving
    <3>3. row'[v] = Protected
      BY <3>1, <3>2 DEF ProtectedTx
    <3> QED
      BY <3>1, <3>3, StoreAssumption DEF AddVersion
  <2> QED
    BY <1>3, <1>8, <2>1, <2>2, <2>3, <2>4
<1> HIDE DEF Goal
<1> QED
  BY <1>4, <1>5, <1>6, <1>7, <1>8, MoveEnds

LEMMA Store == Spec => [](TypeInv /\ StoreInv)
<1>1. Init => TypeInv /\ StoreInv
  BY TypeInvInit, StoreInvInit
<1>2. TypeInv /\ StoreInv /\ [Next]_vars => (TypeInv /\ StoreInv)'
  BY TypeInvStep, FilesKept, TransferKept, RemovalKept DEF StoreInv
<1> QED
  BY <1>1, <1>2, PTL DEF Spec

\* FilesMatchRows holds, whatever overlaps, fails or crashes.
THEOREM FilesFollowRows == Spec => []FilesMatchRows
BY Store, PTL DEF StoreInv

\* RendersWhatIsInstalled: a template that is found belongs to the row the
\* render has read.
THEOREM RendersAreInstalled == Spec => []RendersWhatIsInstalled
<1>1. TypeInv /\ StoreInv => RendersWhatIsInstalled
  <2> SUFFICES ASSUME TypeInv, StoreInv, NEW r \in Requests, NEW v, v = req[r].version,
                      req[r].at = "template", req[r].id = plugin, v \notin hurt, Found(v, "index")
               PROVE  dir[v]["index"] = req[r].content
    BY DEF RendersWhatIsInstalled
  <2>1. req[r] \in Rendering
    BY Parts, RequestShape DEF TypeInv, Reading
  <2>2. v \in Versions /\ req[r].content \in Contents /\ row[v] = req[r].content
    BY <2>1 DEF TypeInv, IdsOK, Reading, Rendering
  <2>3. CASE ~SomeMoving(v)
    <3>1. dir[v] = Holding(req[r].content)
      BY <2>2, <2>3 DEF StoreInv, FilesMatchRows
    <3> QED
      BY <3>1 DEF Holding, Files
  <2>4. ASSUME NEW p \in Requests, IsMoving(p, v) PROVE dir[v]["index"] = req[r].content
    <3>1. req[p].at \in Transferring /\ req[p].version = v
      BY <2>4 DEF IsMoving, Transferring
    <3>2. req[p].content = req[r].content
      BY <2>2, <3>1, MoverShape DEF StoreInv, TransferOK
    <3>3. req[p].at \notin {"clear", "place"}
      <4>1. dir[v] \notin {Nil, Empty}
        BY DEF Found, Empty, Files
      <4> QED
        BY <3>1, <4>1 DEF StoreInv, TransferOK
    <3>4. dir[v] = [f \in Files |-> IF f \in req[p].todo THEN Nil ELSE req[p].content]
      BY <3>1, <3>3 DEF StoreInv, TransferOK, Transferring
    <3> QED
      BY <3>2, <3>4 DEF Found, Files
  <2> QED
    BY <2>3, <2>4 DEF SomeMoving
<1> QED
  BY <1>1, Store, PTL

\* OnlyItsImportWrites: whoever changes the files of a version in order is the
\* uninstall, the import the row came from, or one of a plugin that is gone.
THEOREM OneWriter == Spec => OnlyItsImportWrites
<1>1. TypeInv /\ [Next]_vars =>
        \A v \in Versions :
          row[v] \in Contents /\ dir[v] = Holding(row[v]) /\ dir'[v] # dir[v] =>
            \/ RemovalPending
            \/ \E r \in Requests : IsMoving(r, v) /\ (req[r].id # plugin \/ req[r].content = row[v])
  <2> SUFFICES ASSUME TypeInv, [Next]_vars, NEW v \in Versions, row[v] \in Contents,
                      dir[v] = Holding(row[v]), dir'[v] # dir[v], ~RemovalPending
               PROVE  \E r \in Requests : IsMoving(r, v) /\ (req[r].id # plugin \/ req[r].content = row[v])
    OBVIOUS
  <2>1. dir[v] # Nil
    BY FilesAssumption DEF Holding
  <2>2. ~\E r \in Requests : RemoveFiles(r)
    BY DEF RemoveFiles, RemovalPending
  <2>3. PICK r \in Requests : IsMoving(r, v)
    BY <2>1, <2>2, DirStep
  <2>4. req[r].id # plugin \/ req[r].content = row[v]
    BY <2>3, MoverShape DEF IsMoving, Transferring
  <2> QED
    BY <2>3, <2>4
<1>2. Spec => []TypeInv
  BY Store, PTL
<1> QED
  BY <1>1, <1>2, PTL DEF Spec, OnlyItsImportWrites

-----------------------------------------------------------------------------
(* The refinement of InstalledVersions.                                    *)

PublishedNow == [v \in Versions |-> IF row[v] \in Contents THEN row[v] ELSE Nil]
HurtNow == LocalVersions \cap hurt

\* The files of a local version that is not hurt are in place exactly when no
\* import is moving them: what the mapping says of files, requests tell.
Rest == {v \in LocalVersions \ hurt : ~SomeMoving(v)}
PlaceOK == VersionsInPlace = Rest

LEMMA InPlaceAtRest == TypeInv /\ StoreInv => PlaceOK
<1> SUFFICES ASSUME TypeInv, StoreInv, NEW v \in Versions, row[v] \in Contents, v \notin hurt
             PROVE  dir[v] = Holding(row[v]) <=> ~SomeMoving(v)
  BY DEF PlaceOK, VersionsInPlace, Rest, LocalVersions
<1>1. ASSUME ~SomeMoving(v) PROVE dir[v] = Holding(row[v])
  BY <1>1 DEF StoreInv, FilesMatchRows
<1>2. ASSUME NEW r \in Requests, IsMoving(r, v) PROVE dir[v] # Holding(row[v])
  <2>1. req[r].at \in Transferring /\ req[r].version = v
    BY <1>2 DEF IsMoving, Transferring
  <2>2. Holding(row[v]) \notin {Nil, Empty}
    <3>1. Holding(row[v]) # Nil
      BY FilesAssumption DEF Holding
    <3>2. Holding(row[v])["index"] # Empty["index"]
      BY StoreAssumption DEF Holding, Empty, Files
    <3> QED
      BY <3>1, <3>2
  <2>3. CASE req[r].at \in {"clear", "place"}
    BY <2>1, <2>2, <2>3 DEF StoreInv, TransferOK
  <2>4. CASE req[r].at = "copy"
    <3>1. dir[v] = [f \in Files |-> IF f \in req[r].todo THEN Nil ELSE req[r].content]
      BY <2>1, <2>4 DEF StoreInv, TransferOK
    <3>2. PICK f \in Files : f \in req[r].todo
      BY <2>1, <2>4, MoverShape DEF Copying
    <3>3. dir[v][f] = Nil /\ Holding(row[v])[f] = row[v]
      BY <3>1, <3>2 DEF Holding
    <3> QED
      BY <3>3, StoreAssumption
  <2> QED
    BY <2>1, <2>3, <2>4 DEF Transferring
<1> QED
  BY <1>1, <1>2 DEF SomeMoving

LEMMA InstalledInit == Init => Installed!Init
<1> SUFFICES ASSUME Init PROVE Installed!Init
  OBVIOUS
<1>1. row = [v \in Versions |-> Nil]
  BY DEF Init
<1>2. LocalVersions = {}
  BY <1>1, StoreAssumption DEF LocalVersions
<1> QED
  BY <1>1, <1>2, StoreAssumption DEF Installed!Init, VersionsInPlace

\* Who changes the set of hurt versions.
LEMMA HurtKept ==
    ASSUME TypeInv, [Next]_vars, hurt' # hurt
    PROVE  \/ Exit
           \/ \E r \in Requests : ImportTx(r) \/ Clear(r) \/ UninstallCommit(r) \/ RemoveFiles(r)
BY DEF Next, ImportStep, UninstallStep, RenderStep, BootStep, BootTo, vars, DebugEnsure,
       ImportUpload, InstallFromRegistry, Import, ProtectedTx, ImportRefused, Rename, RenameFails,
       CopyBegins, CopyFile, CopyFails, UninstallRead, UninstallVersions, UninstallFails,
       CreateInstance, RemoveInstance, PlaceSlot, RemoveSlot, RenderBegins, ReadManifest,
       ReadTemplate, RenderFails, SeedSkipped, SeedUser, SeedWithoutPlugin, SeedFails, SeedImport,
       SeedDevice, SeedScreen, SeedInstance, SeedSlot, Crash

LEMMA CommitPublishes ==
    ASSUME TypeInv, StoreInv, PlaceOK, PlaceOK', [Next]_vars, NEW r \in Requests, ImportTx(r)
    PROVE  Installed!Next
<1>1. /\ Rows /\ req \in [Requests -> Request] /\ req[r] \in Uncommitted /\ req[r].at = "tx"
      /\ req[r].content # Protected
  BY Parts, RequestShape DEF TypeInv, ImportTx
<1>2. PICK v \in Versions, c \in Contents : v = req[r].version /\ c = req[r].content
  BY <1>1 DEF Uncommitted
<1>3. /\ row[v] = Nil /\ row' = [row EXCEPT ![v] = c]
      /\ hurt' \in {hurt, hurt \cup {v}}
      /\ req'[r].at = "clear" /\ req'[r].version = v
      /\ \A q \in Requests \ {r} : req'[q] = req[q]
  BY <1>1, <1>2 DEF ImportTx, AddVersion
<1>4. LocalVersions' = LocalVersions \cup {v} /\ v \notin LocalVersions
  BY <1>1, <1>2, <1>3, StoreAssumption DEF LocalVersions, Rows
<1>5. SomeMoving(v)' /\ \A w \in Versions \ {v} : SomeMoving(w)' <=> SomeMoving(w)
  BY <1>1, <1>2, <1>3 DEF SomeMoving, IsMoving
<1>6. Rest' = Rest
  BY <1>3, <1>4, <1>5 DEF Rest, LocalVersions
<1>7. HurtNow' \in {HurtNow, HurtNow \cup {v}}
  BY <1>3, <1>4 DEF HurtNow
<1>8. PublishedNow[v] = Nil /\ PublishedNow' = [PublishedNow EXCEPT ![v] = c]
  BY <1>1, <1>2, <1>3, StoreAssumption DEF PublishedNow, Rows
<1>9. Installed!Publish(v, c)
  BY <1>6, <1>7, <1>8 DEF Installed!Publish, PlaceOK, HurtNow, PublishedNow
<1> QED
  BY <1>9 DEF Installed!Next

LEMMA ExitCrashes ==
    ASSUME TypeInv, StoreInv, PlaceOK, PlaceOK', Exit
    PROVE  Installed!Next
<1>1. /\ hurt' = hurt \cup (IF RemovalPending THEN Versions ELSE {v \in Versions : SomeMoving(v)})
      /\ row' = row /\ \A r \in Requests : req'[r] = Idle
  BY DEF Exit, store
<1>2. \A v \in Versions : ~SomeMoving(v)'
  BY <1>1 DEF SomeMoving, IsMoving, Idle
<1>3. LocalVersions' = LocalVersions /\ PublishedNow' = PublishedNow
  BY <1>1 DEF LocalVersions, PublishedNow
<1>4. Rest' = Rest /\ HurtNow' = LocalVersions \ Rest
  <2>1. CASE RemovalPending
    <3>1. LocalVersions \subseteq hurt
      BY <2>1 DEF StoreInv, RemovalOK, LocalVersions
    <3> QED
      BY <1>1, <1>3, <2>1, <3>1 DEF Rest, HurtNow, LocalVersions
  <2>2. CASE ~RemovalPending
    BY <1>1, <1>2, <1>3, <2>2 DEF Rest, HurtNow, LocalVersions
  <2> QED
    BY <2>1, <2>2
<1>5. LocalVersions = {v \in Versions : PublishedNow[v] # Nil}
  BY StoreAssumption DEF LocalVersions, PublishedNow
<1>6. Installed!Crash
  BY <1>3, <1>4, <1>5 DEF Installed!Crash, Installed!Published, PlaceOK, HurtNow, PublishedNow
<1> QED
  BY <1>6 DEF Installed!Next

LEMMA ClearMends ==
    ASSUME TypeInv, StoreInv, PlaceOK, PlaceOK', NEW r \in Requests, Clear(r)
    PROVE  [Installed!Next]_<<PublishedNow, VersionsInPlace, HurtNow>>
<1> DEFINE v == req[r].version
<1>1. /\ req \in [Requests -> Request] /\ req[r] \in Clearing /\ v \in Versions /\ SomeMoving(v)
      /\ hurt \in SUBSET Versions
  BY Parts, MoverShape DEF TypeInv, Clear, Transferring, SomeMoving
<1>2. /\ row' = row /\ hurt' \in {hurt, hurt \ {v}}
      /\ req' = [req EXCEPT ![r] = [req[r] EXCEPT !.at = "place"]]
  BY DEF Clear, store
<1>3. req'[r].at = "place" /\ req'[r].version = v /\ req[r].at = "clear"
  BY <1>1, <1>2 DEF Clear, Clearing
<1>4. \A w \in Versions : SomeMoving(w)' <=> SomeMoving(w)
  BY <1>1, <1>2, <1>3 DEF SomeMoving, IsMoving
<1>5. LocalVersions' = LocalVersions /\ PublishedNow' = PublishedNow
  BY <1>2 DEF LocalVersions, PublishedNow
<1>6. Rest' = Rest
  BY <1>1, <1>2, <1>4, <1>5 DEF Rest, LocalVersions
<1>7. HurtNow' = HurtNow \/ (v \in HurtNow /\ HurtNow' = HurtNow \ {v})
  BY <1>2, <1>5 DEF HurtNow
<1>8. CASE HurtNow' = HurtNow
  BY <1>5, <1>6, <1>8 DEF PlaceOK
<1>9. CASE v \in HurtNow /\ HurtNow' = HurtNow \ {v}
  <2>1. Installed!Mend(v)
    BY <1>5, <1>6, <1>9 DEF Installed!Mend, PlaceOK, HurtNow, PublishedNow
  <2> HIDE DEF v
  <2> QED
    BY <1>1, <2>1 DEF Installed!Next
<1> QED
  BY <1>7, <1>8, <1>9

LEMMA CommitWithdraws ==
    ASSUME NEW r \in Requests, UninstallCommit(r)
    PROVE  Installed!Next
<1>1. row' = [v \in Versions |-> Nil]
  BY DEF UninstallCommit
<1>2. LocalVersions' = {}
  BY <1>1, StoreAssumption DEF LocalVersions
<1>3. VersionsInPlace' = {} /\ PublishedNow' = [v \in Versions |-> Nil]
  BY <1>1, <1>2, StoreAssumption DEF VersionsInPlace, PublishedNow
<1>4. Installed!Withdraw
  BY <1>2, <1>3 DEF Installed!Withdraw, PublishedNow
<1> QED
  BY <1>4 DEF Installed!Next

\* A removal does nothing to a version with a row: they are all hurt, and stay so.
LEMMA RemovalStutters ==
    ASSUME TypeInv, StoreInv, PlaceOK, PlaceOK', NEW r \in Requests, RemoveFiles(r)
    PROVE  UNCHANGED <<PublishedNow, VersionsInPlace, HurtNow>>
<1>1. /\ row' = row /\ req' = [req EXCEPT ![r] = Idle] /\ req[r].at = "rm"
      /\ hurt' = {v \in hurt : row[v] \in Contents \/ SomeMoving(v)}
  BY DEF RemoveFiles, Finish, store
<1>2. \A w \in Versions : SomeMoving(w)' <=> SomeMoving(w)
  BY <1>1, Parts DEF TypeInv, SomeMoving, IsMoving, Idle
<1>3. LocalVersions' = LocalVersions /\ PublishedNow' = PublishedNow
  BY <1>1 DEF LocalVersions, PublishedNow
<1>4. HurtNow' = HurtNow /\ Rest' = Rest
  BY <1>1, <1>2, <1>3 DEF HurtNow, Rest, LocalVersions
<1> QED
  BY <1>3, <1>4 DEF PlaceOK

\* When rows and hurt versions stay, only the end of a move is seen.
LEMMA MoveCompletes ==
    ASSUME TypeInv, StoreInv, PlaceOK, PlaceOK', [Next]_vars, PublishedNow' = PublishedNow,
           LocalVersions' = LocalVersions, hurt' = hurt, ~Exit, ~\E r \in Requests : ImportTx(r)
    PROVE  [Installed!Next]_<<PublishedNow, VersionsInPlace, HurtNow>>
<1>1. HurtNow' = HurtNow
  BY DEF HurtNow
<1>2. ASSUME NEW w \in Versions, SomeMoving(w)' PROVE SomeMoving(w)
  BY <1>2, MoveBegins DEF SomeMoving
<1>3. CASE \A w \in Versions : SomeMoving(w) => SomeMoving(w)'
  <2>1. Rest' = Rest
    BY <1>2, <1>3 DEF Rest, LocalVersions
  <2> QED
    BY <1>1, <2>1 DEF PlaceOK
<1>4. ASSUME NEW v \in Versions, SomeMoving(v), ~SomeMoving(v)'
      PROVE  [Installed!Next]_<<PublishedNow, VersionsInPlace, HurtNow>>
  <2>1. PICK r \in Requests : IsMoving(r, v) /\ Finish(r)
    BY <1>4, MoveEnds DEF Rename, RenameFails, CopyFails, CopyFile, Finish
  <2>2. ASSUME NEW w \in Versions \ {v}, SomeMoving(w) PROVE SomeMoving(w)'
    <3>1. PICK p \in Requests : IsMoving(p, w)
      BY <2>2 DEF SomeMoving
    <3>2. req'[p] = req[p]
      BY <2>1, <3>1, Parts DEF TypeInv, Finish, IsMoving
    <3> QED
      BY <3>1, <3>2 DEF SomeMoving, IsMoving
  <2>3. Rest' = Rest \cup ({v} \cap (LocalVersions \ hurt)) /\ v \notin Rest
    BY <1>2, <1>4, <2>2 DEF Rest, LocalVersions
  <2>4. CASE v \in LocalVersions \ hurt
    <3>1. Rest' = Rest \cup {v} /\ v \in LocalVersions \ (Rest \cup HurtNow)
      BY <2>3, <2>4 DEF HurtNow
    <3>2. LocalVersions = {w \in Versions : PublishedNow[w] # Nil}
      BY StoreAssumption DEF LocalVersions, PublishedNow
    <3>3. Installed!Complete(v)
      BY <1>1, <3>1, <3>2 DEF Installed!Complete, Installed!Published, PlaceOK, HurtNow, PublishedNow
    <3> QED
      BY <3>3 DEF Installed!Next
  <2>5. CASE v \notin LocalVersions \ hurt
    BY <1>1, <2>3, <2>5 DEF PlaceOK
  <2> QED
    BY <2>4, <2>5
<1> QED
  BY <1>3, <1>4

LEMMA InstalledStep ==
    ASSUME TypeInv, StoreInv, PlaceOK, PlaceOK', [Next]_vars
    PROVE  [Installed!Next]_<<PublishedNow, VersionsInPlace, HurtNow>>
<1>1. CASE Exit
  BY <1>1, ExitCrashes
<1>2. ASSUME NEW r \in Requests, ImportTx(r) \/ Clear(r) \/ UninstallCommit(r) \/ RemoveFiles(r)
      PROVE  [Installed!Next]_<<PublishedNow, VersionsInPlace, HurtNow>>
  BY <1>2, CommitPublishes, ClearMends, CommitWithdraws, RemovalStutters
<1>3. ASSUME ~Exit,
             ~\E r \in Requests : ImportTx(r) \/ Clear(r) \/ UninstallCommit(r) \/ RemoveFiles(r)
      PROVE  [Installed!Next]_<<PublishedNow, VersionsInPlace, HurtNow>>
  <2>1. hurt' = hurt
    BY <1>3, HurtKept
  <2>2. \A v \in Versions : row'[v] = row[v] \/ (row[v] = Nil /\ row'[v] = Protected)
    BY <1>3, Parts, RowStep DEF TypeInv, Rows, AddVersion, ProtectedTx
  <2>3. PublishedNow' = PublishedNow /\ LocalVersions' = LocalVersions
    BY <2>2, StoreAssumption DEF PublishedNow, LocalVersions
  <2> QED
    BY <1>3, <2>1, <2>3, MoveCompletes
<1> QED
  BY <1>1, <1>2, <1>3

\* InstalledStaysInPlace: for any requests, versions and builds, on one file
\* system or two, a version in place stays as it was published until all go.
THEOREM InstalledRefines == Spec => InstalledStaysInPlace
<1>1. Init => Installed!Init
  BY InstalledInit
<1>2. TypeInv /\ StoreInv => PlaceOK
  BY InPlaceAtRest
<1>3. TypeInv /\ StoreInv /\ PlaceOK /\ PlaceOK' /\ [Next]_vars
        => [Installed!Next]_<<PublishedNow, VersionsInPlace, HurtNow>>
  BY InstalledStep
<1> QED
  BY <1>1, <1>2, <1>3, Store, PTL
     DEF Spec, InstalledStaysInPlace, Installed!Spec, PublishedNow, HurtNow
=============================================================================
