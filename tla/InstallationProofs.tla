-------------------------- MODULE InstallationProofs --------------------------
(***************************************************************************)
(* Proofs that the originals of the client and its identity survive any    *)
(* number of operations, stops and changes by others.                      *)
(***************************************************************************)
EXTENDS InstallationProps, TLAPS

(* The types of disk, books and operation. *)
Pcs == {"idle", "copy", "verify", "config", "steam", "shim", "vivox",
        "vivoxBackup", "vivoxLegacy", "runtime", "proxy", "crouch", "battleye",
        "patch", "marker", "settings", "assert", "configBackup", "write", "port"}
Typed ==
  /\ source \in [Files -> {"absent", "stock", "foreign"}]
  /\ client \in [{"staging", "root"} -> [Files -> Contents]]
  /\ marker \in [id : Nat, hashes : [Critical -> Contents]]
  /\ settings \in Nat /\ nextId \in Nat
  /\ op \in [kind : {"none", "install", "adopt", "launch"}, pc : Pcs,
             dir : {"staging", "root"}, todo : SUBSET GameFiles,
             hashes : [Critical -> Contents], vivox : Contents]

(* Which operation is where. *)
Placed ==
  /\ op.kind = "none" => op.pc = "idle"
  /\ op.kind = "install" <=> op.dir = "staging"
  /\ op.pc \in {"copy", "verify"} => op.kind = "install"
  /\ op.pc \in {"config", "steam", "battleye", "patch", "marker"}
       => op.kind \in {"install", "adopt"}
  /\ op.pc \in {"assert", "configBackup", "write", "port"} => op.kind = "launch"

(* A root has the supported executable, which nobody takes away; and so has
   what is about to become one. *)
Rooted ==
  /\ client.root = Nothing \/ client.root.exe = "stock"
  /\ op.kind = "install" => op.hashes.exe = "stock"
  /\ op.kind \in {"adopt", "launch"} => client.root.exe = "stock"
  /\ op.pc \notin {"idle", "copy", "verify", "settings"} => Dir.exe = "stock"

(* The Vivox DLL: a stock one in every root, and in the backup's name from its
   verification on. *)
Backed ==
  /\ Exists("root") => VivoxStock(client.root)
  /\ op.pc \in {"runtime", "proxy", "crouch", "battleye", "patch", "marker"}
       => Dir.vivoxBackup = "stock"

(* The identity: what the settings remember is on the disk. *)
Known ==
  /\ settings # 0 => marker.id = settings
  /\ marker.id # 0 => Exists("root")

IInv == Typed /\ Placed /\ Rooted /\ Backed /\ Known

(* The empty directory has nothing in it, the Steam client has its files. *)
LEMMA Directories ==
  /\ Nothing \in [Files -> Contents] /\ Nothing.exe = "absent"
  /\ SteamClient \in [Files -> Contents]
  /\ SteamClient \in [Files -> {"absent", "stock", "foreign"}]
  /\ SteamClient.exe = "stock" /\ SteamClient.vivox = "stock"
  /\ OldClient \in [Files -> Contents]
  /\ OldClient.exe = "stock" /\ OldClient.vivoxLegacy = "stock"
BY DEF Nothing, SteamClient, OldClient, Files, GameFiles, Critical, Contents

(* No operation runs at first, and every client has its stock DLL. *)
LEMMA InitHolds == Init => IInv
<1> SUFFICES ASSUME Init PROVE IInv
  OBVIOUS
<1> USE Directories
<1>1. NoMarker \in [id : Nat, hashes : [Critical -> Contents]] /\ NoMarker.id = 0
  BY DEF NoMarker, Contents
<1>2. /\ NoOp \in [kind : {"none", "install", "adopt", "launch"}, pc : Pcs,
             dir : {"staging", "root"}, todo : SUBSET GameFiles,
             hashes : [Critical -> Contents], vivox : Contents]
      /\ NoOp.kind = "none" /\ NoOp.pc = "idle" /\ NoOp.dir = "root"
  BY <1>1 DEF NoOp, Pcs, Contents
<1>3. Typed
  BY <1>1, <1>2 DEF Init, Typed, Contents
<1>4. Placed /\ Rooted
  BY <1>2 DEF Init, Placed, Rooted
<1>5. Backed
  BY <1>2 DEF Init, Backed, Exists, VivoxStock, StockOf
<1>6. Known
  BY <1>1 DEF Init, Known, Exists
<1> QED BY <1>3, <1>4, <1>5, <1>6 DEF IInv

(* Where the backup of the Vivox DLL is verified. *)
Verified == {"runtime", "proxy", "crouch", "battleye", "patch", "marker"}

(* A step of an operation within its own directory keeps the invariant when the
   executable stays and no stock DLL is lost. *)
LEMMA WithinHolds ==
  ASSUME IInv, Typed', Placed',
         UNCHANGED <<marker, settings>>,
         op'.kind = op.kind, op'.dir = op.dir, op'.hashes = op.hashes,
         op.pc \notin {"idle", "copy", "verify", "settings"},
         \A d \in {"staging", "root"} : d # op.dir => client'[d] = client[d],
         client'[op.dir].exe = Dir.exe,
         VivoxStock(Dir) => VivoxStock(client'[op.dir]),
         op'.pc \in Verified => client'[op.dir].vivoxBackup = "stock"
  PROVE  IInv'
<1>1. Dir.exe = "stock" /\ client'[op.dir].exe = "stock" /\ op.dir \in {"staging", "root"}
  BY DEF IInv, Rooted, Typed
<1>2. (client.root = Nothing <=> client'.root = Nothing)
  BY <1>1, Directories DEF Dir
<1>3. Rooted'
  BY <1>1, <1>2 DEF IInv, Rooted, Dir
<1>4. Backed'
  <2>1. Exists("root")' => VivoxStock(client'.root)
    BY <1>1, <1>2 DEF IInv, Backed, Exists, Dir
  <2> QED BY <2>1, <1>1 DEF Backed, Dir, Verified
<1>5. Known'
  BY <1>2 DEF IInv, Known, Exists
<1> QED BY <1>3, <1>4, <1>5 DEF IInv

(* What Put does, and that copyOnce is one. *)
LEMMA PutEffect ==
  ASSUME Typed, NEW f \in Files, NEW c \in Contents, Put(f, c)
  PROVE  /\ client' \in [{"staging", "root"} -> [Files -> Contents]]
         /\ client'[op.dir] = [Dir EXCEPT ![f] = c]
         /\ \A d \in {"staging", "root"} : d # op.dir => client'[d] = client[d]
         /\ op.dir \in {"staging", "root"} /\ Dir \in [Files -> Contents]
BY DEF Typed, Put, Dir

(* The names of the files are different. *)
LEMMA Names ==
  {"exe", "config", "steam", "battleye", "vivox", "configBackup", "steamBackup",
   "battleyeBackup", "vivoxBackup", "vivoxLegacy", "runtime", "crouch"} = Files
BY DEF Files, GameFiles, Critical

(* A step writes one file that is neither executable nor Vivox DLL. *)
LEMMA PutHolds ==
  ASSUME IInv, NEW f \in Files \ {"exe", "vivox", "vivoxBackup", "vivoxLegacy"},
         NEW c \in Contents, NEW pc \in Pcs, NEW next \in Pcs,
         Put(f, c), Step(pc, next), UNCHANGED <<Books, source>>,
         pc \notin {"idle", "copy", "verify", "settings"},
         next \in Verified => pc \in Verified,
         Placed'
  PROVE  IInv'
<1>1. /\ op' \in [kind : {"none", "install", "adopt", "launch"}, pc : Pcs,
             dir : {"staging", "root"}, todo : SUBSET GameFiles,
             hashes : [Critical -> Contents], vivox : Contents]
      /\ op'.kind = op.kind /\ op'.dir = op.dir /\ op'.hashes = op.hashes
      /\ op'.pc = next /\ op.pc = pc
  BY DEF IInv, Typed, Step
<1>2. /\ client' \in [{"staging", "root"} -> [Files -> Contents]]
      /\ client'[op.dir] = [Dir EXCEPT ![f] = c]
      /\ \A d \in {"staging", "root"} : d # op.dir => client'[d] = client[d]
      /\ Dir \in [Files -> Contents]
  BY PutEffect DEF IInv
<1>3. Typed'
  BY <1>1, <1>2 DEF IInv, Typed, Books
<1>4. \A g \in {"exe", "vivox", "vivoxBackup", "vivoxLegacy"} : client'[op.dir][g] = Dir[g]
  BY <1>2, Names
<1>5. VivoxStock(Dir) => VivoxStock(client'[op.dir])
  BY <1>4 DEF VivoxStock, StockOf
<1>6. op'.pc \in Verified => client'[op.dir].vivoxBackup = "stock"
  BY <1>1, <1>4 DEF IInv, Backed, Verified
<1> QED BY <1>1, <1>2, <1>3, <1>4, <1>5, <1>6, WithinHolds DEF Books

(* copyOnce writes one file with what was in another or stays. *)
LEMMA CopyHolds ==
  ASSUME IInv, Placed', NEW from \in Files,
         NEW to \in {"configBackup", "steamBackup", "battleyeBackup"},
         NEW pc \in {"config", "configBackup", "steam", "battleye"}, NEW next \in Pcs,
         next \in Verified => pc \in Verified,
         CopyOnce(from, to, pc, next)
  PROVE  IInv'
<1>1. DEFINE c == IF Dir[to] = "absent" THEN Dir[from] ELSE Dir[to]
<1>2. c \in Contents /\ to \in Files
  BY Names DEF IInv, Typed, Dir
<1>3. to \in Files \ {"exe", "vivox", "vivoxBackup", "vivoxLegacy"}
  BY <1>2
<1>4. Put(to, c) /\ Step(pc, next) /\ UNCHANGED <<Books, source>>
  BY DEF CopyOnce, Outside
<1>5. pc \in Pcs /\ pc \notin {"idle", "copy", "verify", "settings"}
  BY DEF Pcs
<1> HIDE DEF c
<1> QED BY <1>2, <1>3, <1>4, <1>5, PutHolds

(* Where a step leads, and that the operation's kind and directory stay. *)
LEMMA StepPlaced ==
  ASSUME IInv, NEW pc \in Pcs, NEW next \in Pcs, Step(pc, next),
         pc # "idle", next # "idle",
         next \in {"copy", "verify"} => pc \in {"copy", "verify"},
         next \in {"config", "steam", "battleye", "patch", "marker"}
           => op.kind \in {"install", "adopt"},
         next \in {"assert", "configBackup", "write", "port"} => op.kind = "launch"
  PROVE  /\ Placed' /\ op' = [op EXCEPT !.pc = next]
         /\ op' \in [kind : {"none", "install", "adopt", "launch"}, pc : Pcs,
             dir : {"staging", "root"}, todo : SUBSET GameFiles,
             hashes : [Critical -> Contents], vivox : Contents]
         /\ op'.kind = op.kind /\ op'.dir = op.dir /\ op'.hashes = op.hashes
         /\ op'.pc = next /\ op.pc = pc /\ op'.vivox = op.vivox
<1>1. /\ op' \in [kind : {"none", "install", "adopt", "launch"}, pc : Pcs,
             dir : {"staging", "root"}, todo : SUBSET GameFiles,
             hashes : [Critical -> Contents], vivox : Contents]
      /\ op'.kind = op.kind /\ op'.dir = op.dir /\ op'.hashes = op.hashes
      /\ op'.pc = next /\ op.pc = pc /\ op' = [op EXCEPT !.pc = next]
      /\ op'.vivox = op.vivox
  BY DEF IInv, Typed, Step
<1>2. Placed'
  BY <1>1 DEF IInv, Placed
<1> QED BY <1>1, <1>2

(* The copies and the configuration. *)
LEMMA ConfigureHolds ==
  IInv /\ (BackupConfig \/ KeepConfig \/ BackupSteam \/ DeployShim
           \/ BackupBattlEye \/ PatchBattlEye \/ AssertVivox \/ WriteConfig) => IInv'
<1> SUFFICES ASSUME IInv, BackupConfig \/ KeepConfig \/ BackupSteam \/ DeployShim
                          \/ BackupBattlEye \/ PatchBattlEye \/ AssertVivox \/ WriteConfig
             PROVE  IInv'
  OBVIOUS
<1>0. /\ {"config", "steam", "shim", "vivox", "battleye", "patch", "marker",
           "assert", "configBackup", "write", "port"} \subseteq Pcs
      /\ {"config", "steam", "battleye"} \subseteq Files
  BY Names DEF Pcs
<1>1. CASE BackupConfig
  <2>1. Step("config", "steam")
    BY <1>1 DEF BackupConfig, CopyOnce
  <2>2. op.kind \in {"install", "adopt"}
    BY <2>1 DEF IInv, Placed, Step
  <2>3. Placed'
    BY <1>0, <2>1, <2>2, StepPlaced
  <2> QED BY <1>0, <1>1, <2>3, CopyHolds DEF BackupConfig, Verified
<1>2. CASE KeepConfig
  <2>1. Step("configBackup", "write")
    BY <1>2 DEF KeepConfig, CopyOnce
  <2>2. op.kind = "launch"
    BY <2>1 DEF IInv, Placed, Step
  <2>3. Placed'
    BY <1>0, <2>1, <2>2, StepPlaced
  <2> QED BY <1>0, <1>2, <2>3, CopyHolds DEF KeepConfig, Verified
<1>3. CASE BackupSteam
  <2>1. Step("steam", "shim")
    BY <1>3 DEF BackupSteam, CopyOnce
  <2>2. Placed'
    BY <1>0, <2>1, StepPlaced
  <2> QED BY <1>0, <1>3, <2>2, CopyHolds DEF BackupSteam, Verified
<1>4. CASE DeployShim
  <2>1. PICK next \in {"assert", "vivox"} :
           Step("shim", next) /\ (next = "assert" => op.kind = "launch")
    BY <1>4, Zenon DEF DeployShim
  <2>2. Placed'
    BY <1>0, <2>1, StepPlaced
  <2>3. "steam" \in Files \ {"exe", "vivox", "vivoxBackup", "vivoxLegacy"}
        /\ "ours" \in Contents
    BY <1>0 DEF Contents
  <2>4. Put("steam", "ours") /\ UNCHANGED <<Books, source>>
    BY <1>4 DEF DeployShim, Outside
  <2>5. next \in Pcs /\ next \notin Verified
    BY <1>0, <2>1 DEF Verified
  <2> QED BY <1>0, <2>1, <2>2, <2>3, <2>4, <2>5, PutHolds
<1>5. CASE BackupBattlEye
  <2>1. CASE CopyOnce("battleye", "battleyeBackup", "battleye", "patch")
    <3>1. Step("battleye", "patch")
      BY <2>1 DEF CopyOnce
    <3>2. op.kind \in {"install", "adopt"}
      BY <3>1 DEF IInv, Placed, Step
    <3>3. Placed'
      BY <1>0, <3>1, <3>2, StepPlaced
    <3> QED BY <1>0, <2>1, <3>3, CopyHolds DEF Verified
  <2>2. CASE Step("battleye", "marker") /\ UNCHANGED <<client, Books, Outside>>
    <3>1. op.kind \in {"install", "adopt"} /\ op.pc = "battleye"
      BY <2>2 DEF IInv, Placed, Step
    <3>2. Placed' /\ op'.kind = op.kind /\ op'.dir = op.dir /\ op'.hashes = op.hashes
          /\ op' \in [kind : {"none", "install", "adopt", "launch"}, pc : Pcs,
             dir : {"staging", "root"}, todo : SUBSET GameFiles,
             hashes : [Critical -> Contents], vivox : Contents]
      BY <1>0, <2>2, <3>1, StepPlaced
    <3>3. Typed'
      BY <2>2, <3>2 DEF IInv, Typed, Books, Outside
    <3>4. Dir.vivoxBackup = "stock" /\ op.dir \in {"staging", "root"}
      BY <3>1 DEF IInv, Backed, Typed
    <3> QED BY <2>2, <3>1, <3>2, <3>3, <3>4, WithinHolds DEF Books, Dir
  <2> QED BY <1>5, <2>1, <2>2 DEF BackupBattlEye
<1>6. CASE PatchBattlEye
  <2>1. Step("patch", "marker") /\ Put("battleye", "ours") /\ UNCHANGED <<Books, source>>
    BY <1>6 DEF PatchBattlEye, Outside
  <2>2. op.kind \in {"install", "adopt"}
    BY <2>1 DEF IInv, Placed, Step
  <2>3. Placed'
    BY <1>0, <2>1, <2>2, StepPlaced
  <2>4. "battleye" \in Files \ {"exe", "vivox", "vivoxBackup", "vivoxLegacy"}
        /\ "ours" \in Contents
    BY <1>0 DEF Contents
  <2> QED BY <1>0, <2>1, <2>3, <2>4, PutHolds DEF Verified
<1>7. CASE AssertVivox
  <2>1. op.pc = "assert" /\ op.kind = "launch"
    BY <1>7 DEF AssertVivox, IInv, Placed, Step
  <2>2. Placed' /\ op'.kind = op.kind /\ op'.dir = op.dir /\ op'.hashes = op.hashes
        /\ op' \in [kind : {"none", "install", "adopt", "launch"}, pc : Pcs,
             dir : {"staging", "root"}, todo : SUBSET GameFiles,
             hashes : [Critical -> Contents], vivox : Contents]
        /\ op'.pc = "configBackup"
    BY <1>0, <1>7, <2>1, StepPlaced DEF AssertVivox
  <2>3. Typed'
    BY <1>7, <2>2 DEF AssertVivox, IInv, Typed, Books, Outside
  <2> QED BY <1>7, <2>1, <2>2, <2>3, WithinHolds DEF AssertVivox, Books, Dir, Verified
<1>8. CASE WriteConfig
  <2>1. Step("write", "port") /\ Put("config", "ours") /\ UNCHANGED <<Books, source>>
    BY <1>8 DEF WriteConfig, Outside
  <2>2. op.kind = "launch"
    BY <2>1 DEF IInv, Placed, Step
  <2>3. Placed'
    BY <1>0, <2>1, <2>2, StepPlaced
  <2>4. "config" \in Files \ {"exe", "vivox", "vivoxBackup", "vivoxLegacy"}
        /\ "ours" \in Contents
    BY <1>0 DEF Contents
  <2> QED BY <1>0, <2>1, <2>3, <2>4, PutHolds DEF Verified
<1> QED BY <1>1, <1>2, <1>3, <1>4, <1>5, <1>6, <1>7, <1>8

(* The repair of the Vivox files: no stock DLL goes before another is verified. *)
LEMMA DeployHolds == IInv /\ Deploy => IInv'
<1> SUFFICES ASSUME IInv, Deploy PROVE IInv'
  OBVIOUS
<1>0. /\ {"shim", "vivox", "vivoxBackup", "vivoxLegacy", "runtime", "proxy",
           "crouch", "battleye"} \subseteq Pcs
      /\ {"exe", "vivox", "vivoxBackup", "vivoxLegacy", "runtime", "crouch"} \subseteq Files
      /\ {"absent", "stock", "ours"} \subseteq Contents
      /\ Dir \in [Files -> Contents] /\ op.dir \in {"staging", "root"}
      /\ Typed
  BY Names DEF Pcs, Contents, IInv, Typed, Dir
<1>1. CASE ReadVivox
  <2>1. op' = [op EXCEPT !.pc = "vivoxBackup", !.vivox = Dir.vivox] /\ op.pc = "vivox"
        /\ UNCHANGED <<source, client, marker, settings, nextId>>
    BY <1>1 DEF ReadVivox, Books, Outside
  <2>2. op'.kind = op.kind /\ op'.dir = op.dir /\ op'.hashes = op.hashes
        /\ op'.pc = "vivoxBackup"
        /\ op' \in [kind : {"none", "install", "adopt", "launch"}, pc : Pcs,
             dir : {"staging", "root"}, todo : SUBSET GameFiles,
             hashes : [Critical -> Contents], vivox : Contents]
    BY <1>0, <2>1 DEF Typed
  <2>3. Typed'
    BY <2>1, <2>2 DEF IInv, Typed
  <2>4. Placed'
    BY <2>1, <2>2 DEF IInv, Placed
  <2> QED BY <2>1, <2>2, <2>3, <2>4, WithinHolds DEF Dir, Verified
<1>2. CASE BackupVivox
  <2>1. PICK from \in {"vivoxBackup", "vivoxLegacy", "vivox"} :
          /\ Step("vivoxBackup", "vivoxLegacy") /\ Put("vivoxBackup", Dir[from])
          /\ UNCHANGED <<source, marker, settings, nextId>>
          /\ Dir.vivoxBackup = "stock" => from = "vivoxBackup"
    BY <1>2 DEF BackupVivox, Books, Outside
  <2>2. Dir[from] \in Contents
    BY <1>0
  <2>3. /\ client' \in [{"staging", "root"} -> [Files -> Contents]]
        /\ client'[op.dir] = [Dir EXCEPT !["vivoxBackup"] = Dir[from]]
        /\ \A d \in {"staging", "root"} : d # op.dir => client'[d] = client[d]
    BY <1>0, <2>1, <2>2, PutEffect
  <2>4. Placed' /\ op'.kind = op.kind /\ op'.dir = op.dir /\ op'.hashes = op.hashes
        /\ op' \in [kind : {"none", "install", "adopt", "launch"}, pc : Pcs,
             dir : {"staging", "root"}, todo : SUBSET GameFiles,
             hashes : [Critical -> Contents], vivox : Contents]
        /\ op'.pc = "vivoxLegacy" /\ op.pc = "vivoxBackup"
    BY <1>0, <2>1, StepPlaced
  <2>5. Typed'
    BY <1>0, <2>1, <2>3, <2>4 DEF Typed
  <2>6. VivoxStock(Dir) => VivoxStock(client'[op.dir])
    BY <1>0, <2>1, <2>3 DEF VivoxStock, StockOf
  <2>7. client'[op.dir].exe = Dir.exe
    BY <1>0, <2>3
  <2> QED BY <2>1, <2>3, <2>4, <2>5, <2>6, <2>7, WithinHolds DEF Verified
<1>3. CASE RemoveLegacy
  <2>1. PICK c \in Contents :
          /\ Step("vivoxLegacy", "runtime") /\ Put("vivoxLegacy", c)
          /\ UNCHANGED <<source, marker, settings, nextId>>
          /\ Dir.vivoxBackup = "stock"
    BY <1>0, <1>3 DEF RemoveLegacy, Books, Outside
  <2>2. /\ client' \in [{"staging", "root"} -> [Files -> Contents]]
        /\ client'[op.dir] = [Dir EXCEPT !["vivoxLegacy"] = c]
        /\ \A d \in {"staging", "root"} : d # op.dir => client'[d] = client[d]
    BY <1>0, <2>1, PutEffect
  <2>3. Placed' /\ op'.kind = op.kind /\ op'.dir = op.dir /\ op'.hashes = op.hashes
        /\ op' \in [kind : {"none", "install", "adopt", "launch"}, pc : Pcs,
             dir : {"staging", "root"}, todo : SUBSET GameFiles,
             hashes : [Critical -> Contents], vivox : Contents]
        /\ op.pc = "vivoxLegacy"
    BY <1>0, <2>1, StepPlaced
  <2>4. Typed'
    BY <1>0, <2>1, <2>2, <2>3 DEF Typed
  <2>5. client'[op.dir].vivoxBackup = "stock" /\ client'[op.dir].exe = Dir.exe
    BY <1>0, <2>1, <2>2
  <2>6. VivoxStock(client'[op.dir])
    BY <2>5 DEF VivoxStock, StockOf
  <2> QED BY <2>1, <2>2, <2>3, <2>4, <2>5, <2>6, WithinHolds
<1>4. CASE RepairRuntime
  <2>1. Step("runtime", "proxy") /\ Put("runtime", "ours") /\ UNCHANGED <<Books, source>>
    BY <1>4 DEF RepairRuntime, Outside
  <2>2. Placed'
    BY <1>0, <2>1, StepPlaced
  <2> QED BY <1>0, <2>1, <2>2, PutHolds DEF Verified
<1>5. CASE DeployProxy
  <2>1. PICK c \in Contents :
          /\ Step("proxy", "crouch") /\ Put("vivox", c)
          /\ UNCHANGED <<source, marker, settings, nextId>>
    BY <1>0, <1>5 DEF DeployProxy, Books, Outside
  <2>2. /\ client' \in [{"staging", "root"} -> [Files -> Contents]]
        /\ client'[op.dir] = [Dir EXCEPT !["vivox"] = c]
        /\ \A d \in {"staging", "root"} : d # op.dir => client'[d] = client[d]
    BY <1>0, <2>1, PutEffect
  <2>3. Placed' /\ op'.kind = op.kind /\ op'.dir = op.dir /\ op'.hashes = op.hashes
        /\ op' \in [kind : {"none", "install", "adopt", "launch"}, pc : Pcs,
             dir : {"staging", "root"}, todo : SUBSET GameFiles,
             hashes : [Critical -> Contents], vivox : Contents]
        /\ op.pc = "proxy"
    BY <1>0, <2>1, StepPlaced
  <2>4. Typed'
    BY <1>0, <2>1, <2>2, <2>3 DEF Typed
  <2>5. client'[op.dir].vivoxBackup = "stock" /\ client'[op.dir].exe = Dir.exe
    BY <1>0, <2>2, <2>3 DEF IInv, Backed
  <2>6. VivoxStock(client'[op.dir])
    BY <2>5 DEF VivoxStock, StockOf
  <2> QED BY <2>1, <2>2, <2>3, <2>4, <2>5, <2>6, WithinHolds
<1>6. CASE WriteCrouch
  <2>1. PICK next \in {"shim", "battleye"} :
          /\ Step("crouch", next) /\ Put("crouch", "ours") /\ UNCHANGED <<Books, source>>
          /\ op.kind = "launch" <=> next = "shim"
    BY <1>6, Zenon DEF WriteCrouch, AfterVivox, Outside
  <2>2. op.kind # "none" /\ op.kind \in {"none", "install", "adopt", "launch"}
    BY <2>1 DEF IInv, Placed, Typed, Step
  <2>3. next = "battleye" => op.kind \in {"install", "adopt"}
    BY <2>1, <2>2
  <2>4. Placed'
    BY <1>0, <2>1, <2>3, StepPlaced
  <2>5. "crouch" \in Files \ {"exe", "vivox", "vivoxBackup", "vivoxLegacy"}
        /\ next \in Pcs /\ "crouch" \in Verified
    BY <1>0, <2>1 DEF Verified
  <2> QED BY <1>0, <2>1, <2>4, <2>5, PutHolds
<1> QED BY <1>1, <1>2, <1>3, <1>4, <1>5, <1>6 DEF Deploy

(* The record of no operation, and the names of its parts. *)
LEMMA Idle ==
  /\ NoOp \in [kind : {"none", "install", "adopt", "launch"}, pc : Pcs,
             dir : {"staging", "root"}, todo : SUBSET GameFiles,
             hashes : [Critical -> Contents], vivox : Contents]
  /\ NoOp.kind = "none" /\ NoOp.pc = "idle" /\ NoOp.dir = "root"
  /\ DOMAIN NoOp = {"kind", "pc", "dir", "todo", "hashes", "vivox"}
BY DEF NoOp, NoMarker, Pcs, Contents

(* Installing: a fresh staging directory, copied and verified. *)
LEMMA CopiesHold ==
  IInv /\ (BeginInstall \/ VerifyCopy \/ \E f \in GameFiles : CopyFile(f)) => IInv'
<1> SUFFICES ASSUME IInv,
                    BeginInstall \/ VerifyCopy \/ \E f \in GameFiles : CopyFile(f)
             PROVE  IInv'
  OBVIOUS
<1>0. /\ {"copy", "verify", "config"} \subseteq Pcs
      /\ "exe" \in Critical /\ Critical \subseteq Files /\ GameFiles \subseteq Files
      /\ Dir \in [Files -> Contents] /\ op.dir \in {"staging", "root"}
      /\ Typed /\ source \in [Files -> Contents]
  BY DEF Pcs, Critical, Contents, IInv, Typed, Dir, Files, GameFiles
<1>1. CASE BeginInstall
  <2>1. /\ op.kind = "none" /\ client.root = Nothing /\ source.exe = "stock"
        /\ op' = [NoOp EXCEPT !.kind = "install", !.pc = "copy", !.dir = "staging",
                              !.todo = GameFiles, !.hashes = Hashes(source)]
        /\ client' = [client EXCEPT !.staging = Nothing]
        /\ UNCHANGED <<source, marker, settings, nextId>>
    BY <1>1 DEF BeginInstall, Running, Exists, Books, Outside
  <2>2. Hashes(source) \in [Critical -> Contents] /\ Hashes(source).exe = "stock"
    BY <1>0, <2>1 DEF Hashes
  <2>3. /\ op' \in [kind : {"none", "install", "adopt", "launch"}, pc : Pcs,
             dir : {"staging", "root"}, todo : SUBSET GameFiles,
             hashes : [Critical -> Contents], vivox : Contents]
        /\ op'.kind = "install" /\ op'.pc = "copy" /\ op'.dir = "staging"
        /\ op'.hashes.exe = "stock"
    BY <1>0, <2>1, <2>2, Idle
  <2>4. /\ client' \in [{"staging", "root"} -> [Files -> Contents]]
        /\ client'.root = client.root
    BY <1>0, <2>1, Directories DEF Typed
  <2>5. Typed'
    BY <1>0, <2>1, <2>3, <2>4 DEF Typed
  <2>6. Placed' /\ Rooted' /\ Backed' /\ Known'
    BY <2>1, <2>3, <2>4 DEF IInv, Placed, Rooted, Backed, Known, Exists
  <2> QED BY <2>5, <2>6 DEF IInv
<1>2. CASE VerifyCopy
  <2>1. /\ Step("verify", "config") /\ op.pc = "verify"
        /\ Hashes(Dir) = op.hashes
        /\ UNCHANGED <<source, client, marker, settings, nextId>>
    BY <1>2 DEF VerifyCopy, Books, Outside, Step
  <2>2. op.kind = "install" /\ op.hashes.exe = "stock"
    BY <2>1 DEF IInv, Placed, Rooted
  <2>3. Dir.exe = "stock"
    BY <1>0, <2>1, <2>2 DEF Hashes
  <2>4. /\ Placed' /\ op'.kind = op.kind /\ op'.dir = op.dir /\ op'.hashes = op.hashes
        /\ op' \in [kind : {"none", "install", "adopt", "launch"}, pc : Pcs,
             dir : {"staging", "root"}, todo : SUBSET GameFiles,
             hashes : [Critical -> Contents], vivox : Contents]
        /\ op'.pc = "config"
    BY <1>0, <2>1, <2>2, StepPlaced
  <2>5. Typed'
    BY <1>0, <2>1, <2>4 DEF Typed
  <2>6. Rooted' /\ Backed' /\ Known'
    BY <2>1, <2>2, <2>3, <2>4 DEF IInv, Rooted, Backed, Known, Exists, Dir
  <2> QED BY <2>4, <2>5, <2>6 DEF IInv
<1>3. ASSUME NEW f \in GameFiles, CopyFile(f) PROVE IInv'
  <2>1. PICK next \in {"verify", "copy"} :
          /\ op.pc = "copy" /\ Put(f, source[f])
          /\ op' = [op EXCEPT !.todo = @ \ {f}, !.pc = next]
          /\ UNCHANGED <<source, marker, settings, nextId>>
    BY <1>3 DEF CopyFile, Books, Outside
  <2>2. op.kind = "install" /\ op.dir = "staging"
    BY <2>1 DEF IInv, Placed
  <2>3. f \in Files /\ source[f] \in Contents
    BY <1>0
  <2>4. /\ client' \in [{"staging", "root"} -> [Files -> Contents]]
        /\ client'.root = client.root
    BY <1>0, <2>1, <2>2, <2>3, PutEffect
  <2>5. /\ op'.kind = op.kind /\ op'.dir = op.dir /\ op'.hashes = op.hashes
        /\ op' \in [kind : {"none", "install", "adopt", "launch"}, pc : Pcs,
             dir : {"staging", "root"}, todo : SUBSET GameFiles,
             hashes : [Critical -> Contents], vivox : Contents]
        /\ op'.pc = next
    BY <1>0, <2>1 DEF Typed
  <2>6. Typed'
    BY <1>0, <2>1, <2>4, <2>5 DEF Typed
  <2>7. Placed' /\ Rooted' /\ Backed' /\ Known'
    BY <2>1, <2>2, <2>4, <2>5 DEF IInv, Placed, Rooted, Backed, Known, Exists
  <2> QED BY <2>6, <2>7 DEF IInv
<1> QED BY <1>1, <1>2, <1>3

(* Adopting and launching begin at a root that is there. *)
LEMMA BeginsHold == IInv /\ (BeginAdopt \/ BeginLaunch) => IInv'
<1> SUFFICES ASSUME IInv, BeginAdopt \/ BeginLaunch PROVE IInv'
  OBVIOUS
<1>0. /\ {"config", "vivox"} \subseteq Pcs /\ "exe" \in Files
      /\ Critical \subseteq Files /\ client.root \in [Files -> Contents] /\ Typed
  BY DEF Pcs, Critical, IInv, Typed, Files, GameFiles
<1>1. PICK kind \in {"adopt", "launch"}, pc \in {"config", "vivox"},
           h \in [Critical -> Contents] :
        /\ op' = [NoOp EXCEPT !.kind = kind, !.pc = pc, !.hashes = h]
        /\ pc = "config" => kind = "adopt"
        /\ op.kind = "none" /\ client.root.exe = "stock"
        /\ UNCHANGED <<source, client, marker, settings, nextId>>
  <2>1. CASE BeginAdopt
    <3>1. Hashes(client.root) \in [Critical -> Contents]
      BY <1>0 DEF Hashes
    <3> QED BY <2>1, <3>1 DEF BeginAdopt, Running, Books, Outside
  <2>2. CASE BeginLaunch
    <3>1. client.root.exe = "stock"
      BY <2>2, Directories DEF BeginLaunch, IInv, Rooted
    <3>2. NoOp.hashes \in [Critical -> Contents]
      BY Idle
    <3>3. op' = [NoOp EXCEPT !.kind = "launch", !.pc = "vivox", !.hashes = NoOp.hashes]
      BY <2>2 DEF BeginLaunch, NoOp
    <3> QED BY <2>2, <3>1, <3>2, <3>3 DEF BeginLaunch, Running, Books, Outside
  <2> QED BY <2>1, <2>2
<1>2. /\ op' \in [kind : {"none", "install", "adopt", "launch"}, pc : Pcs,
             dir : {"staging", "root"}, todo : SUBSET GameFiles,
             hashes : [Critical -> Contents], vivox : Contents]
      /\ op'.kind = kind /\ op'.pc = pc /\ op'.dir = "root"
  BY <1>0, <1>1, Idle
<1>3. Typed'
  BY <1>0, <1>1, <1>2 DEF Typed
<1>4. Placed' /\ Rooted' /\ Backed' /\ Known'
  BY <1>1, <1>2 DEF IInv, Placed, Rooted, Backed, Known, Exists, Dir
<1> QED BY <1>3, <1>4 DEF IInv

(* An operation ends, with a root that has its executable and a stock DLL. *)
LEMMA EndHolds ==
  ASSUME IInv, op' = NoOp, UNCHANGED <<source, marker, nextId>>,
         settings' \in {settings, marker.id},
         client' \in [{"staging", "root"} -> [Files -> Contents]],
         \/ client'.root = client.root
         \/ /\ client.root.exe = "stock" /\ client'.root.exe = "stock"
            /\ VivoxStock(client.root) => VivoxStock(client'.root)
  PROVE  IInv'
<1>1. Typed'
  BY Idle DEF IInv, Typed
<1>2. Placed'
  BY Idle DEF Placed
<1>3. client.root = Nothing <=> client'.root = Nothing
  BY Directories
<1>4. Rooted' /\ Backed' /\ Known'
  BY <1>3, Idle DEF IInv, Rooted, Backed, Known, Exists
<1> QED BY <1>1, <1>2, <1>4 DEF IInv

(* The end of an installation: the marker and the rename, then the settings. *)
LEMMA FinishHolds == IInv /\ (WriteMarker \/ SetInstallation \/ WritePort) => IInv'
<1> SUFFICES ASSUME IInv, WriteMarker \/ SetInstallation \/ WritePort PROVE IInv'
  OBVIOUS
<1>0. /\ {"marker", "settings"} \subseteq Pcs /\ {"config", "battleye"} \subseteq Files
      /\ Dir \in [Files -> Contents] /\ op.dir \in {"staging", "root"}
      /\ client \in [{"staging", "root"} -> [Files -> Contents]] /\ Typed
      /\ {"absent", "stock", "ours"} \subseteq Contents
  BY DEF Pcs, Contents, IInv, Typed, Dir, Files, GameFiles, Critical
<1>1. CASE WriteMarker
  <2>1. PICK keeps \in BOOLEAN :
          /\ Step("marker", "settings") /\ op.pc = "marker"
          /\ keeps <=> op.kind = "adopt" /\ marker.id # 0
          /\ marker' = [id |-> IF keeps THEN marker.id ELSE nextId, hashes |-> op.hashes]
          /\ nextId' = IF keeps THEN nextId ELSE nextId + 1
          /\ op.kind = "install" => ~Exists("root")
          /\ client' = [client EXCEPT !.root = Dir, !.staging = Nothing]
          /\ UNCHANGED <<settings, source>>
    BY <1>1 DEF WriteMarker, Outside, Step
  <2>2. /\ Placed' /\ op'.kind = op.kind /\ op'.dir = op.dir /\ op'.hashes = op.hashes
        /\ op' \in [kind : {"none", "install", "adopt", "launch"}, pc : Pcs,
             dir : {"staging", "root"}, todo : SUBSET GameFiles,
             hashes : [Critical -> Contents], vivox : Contents]
        /\ op'.pc = "settings"
    BY <1>0, <2>1, StepPlaced
  <2>3. op.kind \in {"install", "adopt"} /\ Dir.exe = "stock" /\ Dir.vivoxBackup = "stock"
    BY <2>1 DEF IInv, Placed, Rooted, Backed
  <2>4. /\ client' \in [{"staging", "root"} -> [Files -> Contents]]
        /\ client'.root = Dir /\ client'.root # Nothing
    BY <1>0, <2>1, <2>3, Directories
  <2>5. op.hashes \in [Critical -> Contents] /\ marker.id \in Nat /\ nextId \in Nat
    BY DEF IInv, Typed
  <2>6. nextId' \in Nat /\ marker' \in [id : Nat, hashes : [Critical -> Contents]]
    <3>1. CASE keeps
      BY <2>1, <2>5, <3>1
    <3>2. CASE ~keeps
      BY <2>1, <2>5, <3>2
    <3> QED BY <3>1, <3>2
  <2>7. Typed'
    BY <1>0, <2>1, <2>2, <2>4, <2>6 DEF Typed
  <2>8. Rooted'
    BY <2>2, <2>3, <2>4, <2>1 DEF IInv, Rooted
  <2>9. Backed'
    BY <2>2, <2>3, <2>4 DEF Backed, VivoxStock, StockOf
  <2>10. Known'
    <3>1. settings # 0 => keeps
      BY <2>1, <2>3 DEF IInv, Known
    <3> QED BY <2>1, <2>4, <3>1 DEF IInv, Known, Exists
  <2> QED BY <2>2, <2>7, <2>8, <2>9, <2>10 DEF IInv
<1>2. CASE SetInstallation
  <2>1. op' = NoOp /\ UNCHANGED <<source, client, marker, nextId>> /\ settings' = marker.id
    BY <1>2 DEF SetInstallation, Outside
  <2> QED BY <1>0, <2>1, EndHolds
<1>3. CASE WritePort
  <2>1. PICK c \in Contents :
          /\ op.pc = "port" /\ op' = NoOp
          /\ client' = [client EXCEPT !.root.battleye = c]
          /\ UNCHANGED <<source, marker, settings, nextId>>
    BY <1>0, <1>3 DEF WritePort, Books, Outside
  <2>2. client.root.exe = "stock"
    BY <2>1 DEF IInv, Placed, Rooted
  <2>3. /\ client' \in [{"staging", "root"} -> [Files -> Contents]]
        /\ client'.root.exe = client.root.exe
        /\ \A g \in {"vivox", "vivoxBackup", "vivoxLegacy"} : client'.root[g] = client.root[g]
    BY <1>0, <2>1, Names
  <2>4. VivoxStock(client.root) => VivoxStock(client'.root)
    BY <2>3 DEF VivoxStock, StockOf
  <2> QED BY <2>1, <2>2, <2>3, <2>4, EndHolds
<1> QED BY <1>1, <1>2, <1>3

(* Wherever an operation stops, only a file it was writing is cut short. *)
LEMMA StopsHold == IInv /\ (Stop \/ Refuse) => IInv'
<1> SUFFICES ASSUME IInv, Stop \/ Refuse PROVE IInv'
  OBVIOUS
<1>0. /\ Dir \in [Files -> Contents] /\ op.dir \in {"staging", "root"} /\ "torn" \in Contents
      /\ client \in [{"staging", "root"} -> [Files -> Contents]]
  BY DEF Contents, IInv, Typed, Dir
<1>1. PICK dir \in Torn :
        /\ StopAs(dir) /\ op' = NoOp /\ Running
        /\ UNCHANGED <<source, marker, settings, nextId>>
  BY DEF Stop, Refuse, Torn, Books, Outside
<1>2. Written \subseteq {"configBackup", "steamBackup", "battleyeBackup", "steam",
                        "battleye", "config"}
  BY DEF Written
<1>3. /\ dir \in [Files -> Contents]
      /\ \A g \in {"exe", "vivox", "vivoxBackup", "vivoxLegacy"} : dir[g] = Dir[g]
  <2>1. CASE dir = Dir
    BY <1>0, <2>1
  <2>2. ASSUME NEW f \in Written, dir = [Dir EXCEPT ![f] = "torn"]
        PROVE  /\ dir \in [Files -> Contents]
               /\ \A g \in {"exe", "vivox", "vivoxBackup", "vivoxLegacy"} : dir[g] = Dir[g]
    BY <1>0, <1>2, <2>2, Names
  <2> QED BY <2>1, <2>2 DEF Torn
<1>4. CASE op.dir = "root"
  <2>1. client'.root = dir /\ client' \in [{"staging", "root"} -> [Files -> Contents]]
    BY <1>0, <1>1, <1>3, <1>4 DEF StopAs
  <2>2. client.root.exe = "stock" /\ Dir = client.root
    BY <1>1, <1>4 DEF IInv, Placed, Rooted, Typed, Running, Dir
  <2>3. VivoxStock(client.root) => VivoxStock(client'.root)
    BY <1>3, <2>1, <2>2 DEF VivoxStock, StockOf
  <2> QED BY <1>1, <1>3, <2>1, <2>2, <2>3, EndHolds
<1>5. CASE op.dir = "staging"
  <2>1. /\ client'.root = client.root
        /\ client' \in [{"staging", "root"} -> [Files -> Contents]]
    BY <1>0, <1>1, <1>5, Directories DEF StopAs
  <2> QED BY <1>1, <2>1, EndHolds
<1> QED BY <1>0, <1>4, <1>5

(* What others change is not the last stock DLL, nor a verified backup. *)
LEMMA DriftHolds == IInv /\ Drift => IInv'
<1> SUFFICES ASSUME IInv, Drift PROVE IInv'
  OBVIOUS
<1>0. {"steam", "vivox", "runtime", "crouch", "vivoxBackup"} \cup Critical \subseteq Files
      /\ {"stock", "foreign"} \subseteq Contents
      /\ client \in [{"staging", "root"} -> [Files -> Contents]]
      /\ op.dir \in {"staging", "root"}
  BY DEF Files, GameFiles, Critical, Contents, IInv, Typed
<1>1. ASSUME NEW f \in Critical \cup {"vivox"}, SteamUpdates(f) PROVE IInv'
  <2>1. /\ source' = [source EXCEPT ![f] = "foreign"]
        /\ UNCHANGED <<client, marker, settings, nextId, op>>
    BY <1>1 DEF SteamUpdates, Books
  <2>2. source' \in [Files -> {"absent", "stock", "foreign"}]
    BY <1>0, <2>1 DEF IInv, Typed
  <2> QED BY <2>1, <2>2 DEF IInv, Typed, Placed, Rooted, Backed, Known, Exists, Dir,
                            VivoxStock, StockOf
<1>2. ASSUME NEW f \in {"steam", "vivox", "runtime", "crouch", "vivoxBackup"},
             NEW c \in {"stock", "foreign"}, FileDrifts(f, c)
      PROVE  IInv'
  <2>1. /\ client.root # Nothing
        /\ f = "vivoxBackup" => op.kind = "none"
        /\ client' = [client EXCEPT !.root[f] = c]
        /\ VivoxStock(client.root) => VivoxStock(client'.root)
        /\ UNCHANGED <<source, marker, settings, nextId, op>>
    BY <1>2 DEF FileDrifts, Exists, Running, Books
  <2>2. /\ client' \in [{"staging", "root"} -> [Files -> Contents]]
        /\ client'.staging = client.staging /\ client'.root.exe = client.root.exe
        /\ f # "vivoxBackup" => client'.root.vivoxBackup = client.root.vivoxBackup
    BY <1>0, <2>1, Names
  <2>3. client.root.exe = "stock" /\ client'.root # Nothing
    BY <2>1, <2>2, Directories DEF IInv, Rooted
  <2>4. Typed'
    BY <2>1, <2>2 DEF IInv, Typed
  <2>5. Placed'
    BY <2>1 DEF IInv, Placed
  <2>6. op.kind = "none" => op.pc = "idle"
    BY DEF IInv, Placed
  <2>7. Rooted'
    BY <1>0, <2>1, <2>2, <2>3 DEF IInv, Rooted, Dir
  <2>8. Backed'
    BY <1>0, <2>1, <2>2, <2>3, <2>6 DEF IInv, Backed, Exists, Dir
  <2>9. Known'
    BY <2>1, <2>3 DEF IInv, Known, Exists
  <2> QED BY <2>4, <2>5, <2>7, <2>8, <2>9 DEF IInv
<1> QED BY <1>1, <1>2 DEF Drift

(* Every step keeps the invariant. *)
LEMMA NextHolds == IInv /\ [Next]_vars => IInv'
<1> SUFFICES ASSUME IInv, [Next]_vars PROVE IInv'
  OBVIOUS
<1>1. CASE BeginInstall \/ BeginAdopt \/ BeginLaunch
  BY <1>1, CopiesHold, BeginsHold
<1>2. CASE OpStep
  BY <1>2, CopiesHold, ConfigureHolds, DeployHolds, FinishHolds DEF OpStep
<1>3. CASE Stop \/ Refuse
  BY <1>3, StopsHold
<1>4. CASE Drift
  BY <1>4, DriftHolds
<1>5. CASE UNCHANGED vars
  BY <1>5 DEF vars, IInv, Typed, Placed, Rooted, Backed, Known, Exists, Dir,
              VivoxStock, StockOf
<1> QED BY <1>1, <1>2, <1>3, <1>4, <1>5 DEF Next

(* The invariant holds of every behaviour. *)
LEMMA Inductive == Spec => []IInv
BY InitHolds, NextHolds, PTL DEF Spec

(* Whatever stops or changes, one of the three names of the Vivox DLL holds
   the stock one (vivox-client.ts, deployVivoxCompatibilityWithPolicy). *)
THEOREM StockTheorem == Spec => []StockRecoverable
<1>1. IInv => StockRecoverable
  BY DEF IInv, Backed, StockRecoverable
<1> QED BY <1>1, Inductive, PTL

(* The settings never name another installation than the disk's marker. *)
THEOREM IdentityTheorem == Spec => []IdentityKept
<1>1. IInv => IdentityKept
  BY DEF IInv, Known, IdentityKept
<1> QED BY <1>1, Inductive, PTL

(* The Steam DLL: the shim is never taken for a backup, and is deployed only
   beside one. *)
Kept(dir) ==
  /\ dir.steamBackup # "ours"
  /\ dir.steam = "ours" => dir.steamBackup # "absent"
SteamInv ==
  /\ Kept(client.root) /\ Kept(client.staging)
  /\ op.pc = "shim" \/ op.kind = "launch" => Dir.steamBackup # "absent"

(* What a step may not do to the Steam DLL *)
SteamSafe ==
  Exists("root") /\ SteamStock(client.root)
    => \/ SteamStock(client'.root)
       \/ client.root.steamBackup \in {"torn", "foreign"}

(* No client is there at first that has a shim and no backup. *)
LEMMA SteamBegins == Init => SteamInv
<1>1. Kept(Nothing) /\ Kept(SteamClient) /\ Kept(OldClient)
  BY DEF Kept, Nothing, SteamClient, OldClient, Files, GameFiles, Critical
<1>2. NoOp.kind = "none" /\ NoOp.pc = "idle"
  BY DEF NoOp
<1> QED BY <1>1, <1>2 DEF Init, SteamInv

(* A step that leaves the Steam DLLs alone, and the operation in its place. *)
LEMMA SteamSame ==
  ASSUME IInv, SteamInv,
         \A d \in {"staging", "root"} : /\ client'[d].steam = client[d].steam
                                       /\ client'[d].steamBackup = client[d].steamBackup,
         op'.pc = "shim" \/ op'.kind = "launch"
           => op'.dir = op.dir /\ op.kind = "launch"
  PROVE  SteamInv' /\ SteamSafe
<1>1. SteamSafe
  BY DEF SteamSafe, SteamStock, StockOf
<1>2. op.dir \in {"staging", "root"}
  BY DEF IInv, Typed
<1> QED BY <1>1, <1>2 DEF SteamInv, Kept, Dir

(* Where a step leads, the operation and its directory stay. *)
LEMMA StepStays ==
  ASSUME IInv, NEW pc, NEW next, Step(pc, next)
  PROVE  /\ op'.kind = op.kind /\ op'.dir = op.dir /\ op'.pc = next /\ op.pc = pc
BY DEF IInv, Typed, Step

(* The same, where one other file is written. *)
LEMMA SteamOther ==
  ASSUME IInv, SteamInv, NEW f \in Files \ {"steam", "steamBackup"}, NEW c, Put(f, c),
         NEW pc, NEW next, Step(pc, next), next = "shim" => op.kind = "launch"
  PROVE  SteamInv' /\ SteamSafe
<1>1. client' = [client EXCEPT ![op.dir][f] = c]
  BY DEF Put
<1>2. client \in [{"staging", "root"} -> [Files -> Contents]] /\ op.dir \in {"staging", "root"}
  BY DEF IInv, Typed
<1>3. \A d \in {"staging", "root"} : /\ client'[d].steam = client[d].steam
                                     /\ client'[d].steamBackup = client[d].steamBackup
  BY <1>1, <1>2, Names
<1>4. op'.kind = op.kind /\ op'.dir = op.dir /\ op'.pc = next
  BY StepStays
<1> QED BY <1>3, <1>4, SteamSame

(* The same of a copy that is made once. *)
LEMMA SteamOtherCopy ==
  ASSUME IInv, SteamInv, NEW from, NEW to \in {"configBackup", "battleyeBackup"},
         NEW pc, NEW next, CopyOnce(from, to, pc, next), next # "shim"
  PROVE  SteamInv' /\ SteamSafe
<1> DEFINE c == IF Dir[to] = "absent" THEN Dir[from] ELSE Dir[to]
<1>1. Put(to, c) /\ Step(pc, next)
  BY DEF CopyOnce
<1>2. to \in Files \ {"steam", "steamBackup"}
  BY Names
<1> HIDE DEF c
<1> QED BY <1>1, <1>2, SteamOther

(* The steps that write neither of the two. *)
LEMMA SteamUntouched ==
  ASSUME IInv, SteamInv,
         \/ BackupConfig \/ KeepConfig \/ BackupBattlEye \/ PatchBattlEye
         \/ WriteConfig \/ BackupVivox \/ RemoveLegacy \/ RepairRuntime
         \/ DeployProxy \/ WriteCrouch
  PROVE  SteamInv' /\ SteamSafe
<1>0. {"config", "battleye", "vivox", "vivoxBackup", "vivoxLegacy", "runtime", "crouch"}
        \subseteq Files \ {"steam", "steamBackup"}
  BY Names
<1>1. CASE BackupConfig
  BY <1>1, SteamOtherCopy DEF BackupConfig
<1>2. CASE KeepConfig
  BY <1>2, SteamOtherCopy DEF KeepConfig
<1>3. CASE BackupBattlEye
  <2>1. CASE CopyOnce("battleye", "battleyeBackup", "battleye", "patch")
    BY <2>1, SteamOtherCopy
  <2>2. CASE Step("battleye", "marker") /\ UNCHANGED <<client, Books, Outside>>
    <3>1. op'.kind = op.kind /\ op'.dir = op.dir /\ op'.pc = "marker"
      BY <2>2, StepStays
    <3> QED BY <2>2, <3>1, SteamSame
  <2> QED BY <1>3, <2>1, <2>2 DEF BackupBattlEye
<1>4. CASE PatchBattlEye
  BY <1>0, <1>4, SteamOther DEF PatchBattlEye
<1>5. CASE WriteConfig
  BY <1>0, <1>5, SteamOther DEF WriteConfig
<1>6. CASE BackupVivox
  <2>1. Step("vivoxBackup", "vivoxLegacy")
    BY <1>6 DEF BackupVivox
  <2>2. PICK c : Put("vivoxBackup", c)
    BY <1>6 DEF BackupVivox
  <2> QED BY <1>0, <2>1, <2>2, SteamOther
<1>7. CASE RemoveLegacy
  <2>1. Step("vivoxLegacy", "runtime")
    BY <1>7 DEF RemoveLegacy
  <2>2. PICK c : Put("vivoxLegacy", c)
    BY <1>7 DEF RemoveLegacy
  <2> QED BY <1>0, <2>1, <2>2, SteamOther
<1>8. CASE RepairRuntime
  BY <1>0, <1>8, SteamOther DEF RepairRuntime
<1>9. CASE DeployProxy
  <2>1. Step("proxy", "crouch")
    BY <1>9 DEF DeployProxy
  <2>2. PICK c : Put("vivox", c)
    BY <1>9 DEF DeployProxy
  <2> QED BY <1>0, <2>1, <2>2, SteamOther
<1>10. CASE WriteCrouch
  <2>1. AfterVivox = "shim" => op.kind = "launch"
    BY Zenon DEF AfterVivox
  <2>2. Put("crouch", "ours") /\ Step("crouch", AfterVivox)
    BY <1>10 DEF WriteCrouch
  <2> QED BY <1>0, <2>1, <2>2, SteamOther
<1> QED BY <1>1, <1>2, <1>3, <1>4, <1>5, <1>6, <1>7, <1>8, <1>9, <1>10

(* The steps that leave the client as it is, or one file of the root that is
   neither of the two. *)
LEMMA SteamIdle ==
  ASSUME IInv, SteamInv,
         BeginAdopt \/ BeginLaunch \/ VerifyCopy \/ ReadVivox \/ AssertVivox
           \/ SetInstallation \/ WritePort
  PROVE  SteamInv' /\ SteamSafe
<1>1. CASE BeginAdopt
  <2>1. op'.pc = "config" /\ op'.kind = "adopt" /\ UNCHANGED client
    BY <1>1, Idle DEF BeginAdopt
  <2> QED BY <2>1, SteamSame
<1>2. CASE BeginLaunch
  <2>1. op'.dir = "root" /\ client' = client /\ client.root.steamBackup # "absent"
    BY <1>2, Idle DEF BeginLaunch
  <2> QED BY <2>1 DEF SteamInv, SteamSafe, SteamStock, StockOf, Dir, Kept
<1>3. CASE VerifyCopy \/ AssertVivox
  <2>1. op'.kind = op.kind /\ op'.dir = op.dir /\ op'.pc # "shim" /\ UNCHANGED client
    BY <1>3, StepStays DEF VerifyCopy, AssertVivox
  <2> QED BY <2>1, SteamSame
<1>4. CASE ReadVivox
  <2>1. op'.kind = op.kind /\ op'.dir = op.dir /\ op'.pc # "shim" /\ UNCHANGED client
    BY <1>4 DEF ReadVivox, IInv, Typed
  <2> QED BY <2>1, SteamSame
<1>5. CASE SetInstallation
  BY <1>5, Idle, SteamSame DEF SetInstallation
<1>6. CASE WritePort
  <2>1. op'.kind = "none" /\ op'.pc = "idle"
    BY <1>6, Idle DEF WritePort
  <2>2. PICK c : client' = [client EXCEPT !.root.battleye = c]
    BY <1>6 DEF WritePort
  <2>3. \A d \in {"staging", "root"} : /\ client'[d].steam = client[d].steam
                                       /\ client'[d].steamBackup = client[d].steamBackup
    BY <2>2, Names DEF IInv, Typed
  <2> QED BY <2>1, <2>3, SteamSame
<1> QED BY <1>1, <1>2, <1>3, <1>4, <1>5, <1>6

(* The two writes: the backup is of a DLL that is not the shim, and the shim
   comes after the backup. *)
LEMMA SteamWritten ==
  ASSUME IInv, SteamInv, BackupSteam \/ DeployShim
  PROVE  SteamInv' /\ SteamSafe
<1>0. /\ client \in [{"staging", "root"} -> [Files -> Contents]]
      /\ op.dir \in {"staging", "root"} /\ Kept(Dir)
  BY DEF IInv, Typed, SteamInv, Dir
<1>1. CASE BackupSteam
  <2> DEFINE c == IF Dir.steamBackup = "absent" THEN Dir.steam ELSE Dir.steamBackup
  <2>1. /\ client' = [client EXCEPT ![op.dir]["steamBackup"] = c]
        /\ Dir.steam # "absent" /\ Step("steam", "shim")
    BY <1>1 DEF BackupSteam, CopyOnce, Put
  <2>2. c # "ours" /\ c # "absent" /\ (Dir.steamBackup = "stock" => c = "stock")
    BY <1>0, <2>1 DEF Kept
  <2>3. op'.dir = op.dir
    BY <2>1, StepStays
  <2> HIDE DEF c
  <2>4. /\ client'[op.dir].steamBackup = c /\ client'[op.dir].steam = Dir.steam
        /\ \A d \in {"staging", "root"} : d # op.dir => client'[d] = client[d]
    BY <1>0, <2>1, Names DEF Dir
  <2>5. SteamInv'
    BY <1>0, <2>2, <2>3, <2>4 DEF SteamInv, Kept, Dir
  <2>6. SteamSafe
    BY <1>0, <2>2, <2>4 DEF SteamSafe, SteamStock, StockOf, Dir
  <2> QED BY <2>5, <2>6
<1>2. CASE DeployShim
  <2>1. op.pc = "shim" /\ op'.dir = op.dir /\ Put("steam", "ours")
    BY <1>2, StepStays DEF DeployShim
  <2>2. /\ client'[op.dir].steamBackup = Dir.steamBackup /\ client'[op.dir].steam = "ours"
        /\ \A d \in {"staging", "root"} : d # op.dir => client'[d] = client[d]
    BY <1>0, <2>1, Names DEF Dir, Put
  <2>3. Dir.steamBackup \in Contents \ {"absent", "ours"}
    BY <1>0, <2>1, Names DEF SteamInv, Kept, Dir
  <2>4. SteamInv'
    BY <1>0, <2>1, <2>2, <2>3 DEF SteamInv, Kept, Dir
  <2>5. SteamSafe
    BY <1>0, <2>2, <2>3 DEF SteamSafe, SteamStock, StockOf, Dir, Contents
  <2> QED BY <2>4, <2>5
<1> QED BY <1>1, <1>2

(* An installation, file by file; its rename comes where there is no root. *)
LEMMA SteamInstalled ==
  ASSUME IInv, SteamInv,
         BeginInstall \/ WriteMarker \/ \E f \in GameFiles : CopyFile(f)
  PROVE  SteamInv' /\ SteamSafe
<1>0. /\ client \in [{"staging", "root"} -> [Files -> Contents]]
      /\ op.dir \in {"staging", "root"} /\ Kept(Dir) /\ Kept(Nothing)
      /\ source \in [Files -> {"absent", "stock", "foreign"}]
  BY DEF IInv, Typed, SteamInv, Dir, Kept, Nothing, Files, GameFiles, Critical
<1>1. CASE BeginInstall
  <2>1. /\ client'.root = client.root /\ client'.staging = Nothing
        /\ op'.kind = "install" /\ op'.pc = "copy"
    BY <1>0, <1>1, Idle DEF BeginInstall
  <2> QED BY <1>0, <2>1 DEF SteamInv, SteamSafe, SteamStock, StockOf
<1>2. CASE WriteMarker
  <2>1. /\ client'.root = Dir /\ client'.staging = Nothing
        /\ op.kind = "install" => ~Exists("root")
        /\ op.pc = "marker" /\ op'.pc = "settings" /\ op'.kind = op.kind
    BY <1>0, <1>2, StepStays DEF WriteMarker
  <2>2. op.kind \in {"install", "adopt"} /\ (op.kind = "adopt" => op.dir = "root")
    BY <1>0, <2>1 DEF IInv, Placed
  <2>3. SteamInv'
    BY <1>0, <2>1, <2>2 DEF SteamInv
  <2>4. SteamSafe
    BY <2>1, <2>2 DEF SteamSafe, Dir
  <2> QED BY <2>3, <2>4
<1>3. ASSUME NEW f \in GameFiles, CopyFile(f) PROVE SteamInv' /\ SteamSafe
  <2>1. /\ op.pc = "copy" /\ Put(f, source[f])
        /\ op'.pc \in {"copy", "verify"} /\ op'.kind = op.kind
    BY <1>3 DEF CopyFile, IInv, Typed
  <2>2. op.kind = "install" /\ op.dir = "staging"
    BY <2>1 DEF IInv, Placed
  <2>3. /\ f \in Files \ {"steamBackup"}
        /\ source[f] # "ours"
    BY <1>0 DEF Files, GameFiles, Critical
  <2>4. /\ client'.root = client.root
        /\ client'.staging.steamBackup = client.staging.steamBackup
        /\ client'.staging.steam = "ours" => client.staging.steam = "ours"
    BY <1>0, <2>1, <2>2, <2>3, Names DEF Put
  <2> QED BY <2>1, <2>2, <2>4 DEF SteamInv, SteamSafe, SteamStock, StockOf, Kept
<1> QED BY <1>1, <1>2, <1>3

(* A backup that is cut short leaves the DLL, a shim that is cut short the
   backup. *)
LEMMA SteamStopped ==
  ASSUME IInv, SteamInv, Stop \/ Refuse
  PROVE  SteamInv' /\ SteamSafe
<1>0. /\ client \in [{"staging", "root"} -> [Files -> Contents]]
      /\ op.dir \in {"staging", "root"} /\ Kept(Dir) /\ Kept(Nothing)
  BY DEF IInv, Typed, SteamInv, Dir, Kept, Nothing, Files, GameFiles, Critical
<1>1. PICK dir \in Torn : StopAs(dir) /\ op' = NoOp
  BY DEF Stop, Refuse, Torn
<1>2. op'.pc = "idle" /\ op'.kind = "none"
  BY <1>1, Idle
<1>3. /\ dir.steam = Dir.steam \/ (op.pc = "shim" /\ dir.steam = "torn")
      /\ \/ dir.steamBackup = Dir.steamBackup
         \/ Dir.steamBackup = "absent" /\ dir.steamBackup = "torn"
      /\ dir.steam = Dir.steam \/ dir.steamBackup = Dir.steamBackup
  <2>1. CASE dir = Dir
    BY <2>1
  <2>2. ASSUME NEW f \in Written, dir = [Dir EXCEPT ![f] = "torn"]
        PROVE  <1>3!:
    <3>1. /\ f \in Files
          /\ f = "steam" => op.pc = "shim"
          /\ f = "steamBackup" => Dir.steamBackup = "absent"
      BY <2>2, Names DEF Written
    <3> QED BY <1>0, <2>2, <3>1, Names DEF Dir
  <2> QED BY <2>1, <2>2 DEF Torn
<1>4. CASE op.dir = "root"
  <2>1. client'.root = dir /\ client'.staging = client.staging /\ Dir = client.root
    BY <1>0, <1>1, <1>4 DEF StopAs, Dir
  <2>2. SteamInv'
    BY <1>2, <1>3, <2>1 DEF SteamInv, Kept
  <2>3. Dir.steamBackup \in Contents /\ "steam" \in Files
    BY <1>0, Names DEF Dir
  <2>4. SteamSafe
    BY <1>3, <2>1, <2>3 DEF SteamInv, Kept, SteamSafe, SteamStock, StockOf, Contents
  <2> QED BY <2>2, <2>4
<1>5. CASE op.dir = "staging"
  <2>1. client'.root = client.root /\ client'.staging = Nothing
    BY <1>0, <1>1, <1>5 DEF StopAs
  <2> QED BY <1>0, <1>2, <2>1 DEF SteamInv, SteamSafe, SteamStock, StockOf
<1> QED BY <1>0, <1>4, <1>5

(* Others do not take the last stock DLL, and put no shim. *)
LEMMA SteamDrifts ==
  ASSUME IInv, SteamInv, Drift
  PROVE  SteamInv' /\ SteamSafe
<1>1. ASSUME NEW f \in Critical \cup {"vivox"}, SteamUpdates(f)
      PROVE  SteamInv' /\ SteamSafe
  <2>1. client' = client /\ op' = op
    BY <1>1 DEF SteamUpdates
  <2>2. op'.pc = "shim" \/ op'.kind = "launch" => Dir.steamBackup # "absent"
    BY <2>1 DEF SteamInv
  <2> QED BY <2>1, <2>2 DEF SteamInv, SteamSafe, Dir
<1>2. ASSUME NEW f \in {"steam", "vivox", "runtime", "crouch", "vivoxBackup"},
             NEW c \in {"stock", "foreign"}, FileDrifts(f, c)
      PROVE  SteamInv' /\ SteamSafe
  <2>1. /\ client \in [{"staging", "root"} -> [Files -> Contents]]
        /\ op.dir \in {"staging", "root"}
    BY DEF IInv, Typed
  <2>2. /\ client' = [client EXCEPT !.root[f] = c] /\ op' = op
        /\ SteamStock(client.root) => SteamStock(client'.root)
    BY <1>2 DEF FileDrifts
  <2>3. /\ client'.staging = client.staging
        /\ client'.root.steamBackup = client.root.steamBackup
        /\ client'.root.steam = "ours" => client.root.steam = "ours"
    BY <2>1, <2>2, Names
  <2>4. (Dir.steamBackup)' = Dir.steamBackup
    BY <2>1, <2>2, <2>3 DEF Dir
  <2> QED BY <2>2, <2>3, <2>4 DEF SteamInv, SteamSafe, Kept
<1> QED BY <1>1, <1>2 DEF Drift

(* Every step keeps the invariant, and a stock Steam DLL. *)
LEMMA SteamHolds ==
  ASSUME IInv, SteamInv, [Next]_vars
  PROVE  SteamInv' /\ [SteamSafe]_vars
<1>1. CASE UNCHANGED vars
  BY <1>1 DEF vars, SteamInv, Kept, Dir
<1>2. CASE OpStep
  BY <1>2, SteamUntouched, SteamIdle, SteamWritten, SteamInstalled DEF OpStep, Deploy
<1>3. CASE Next
  BY <1>2, <1>3, SteamIdle, SteamInstalled, SteamStopped, SteamDrifts DEF Next
<1> QED BY <1>1, <1>3

(* No operation and no stop takes the last stock Steam DLL, unless copyOnce was
   content with a backup that is none (installer.ts, deployOpenSourceShim). *)
THEOREM SteamTheorem == Spec => SteamDllKept
<1>1. Init => IInv /\ SteamInv
  BY InitHolds, SteamBegins
<1>2. IInv /\ SteamInv /\ [Next]_vars => (IInv /\ SteamInv)' /\ [SteamSafe]_vars
  BY NextHolds, SteamHolds
<1> QED BY <1>1, <1>2, PTL DEF Spec, SteamDllKept, SteamSafe
=============================================================================
