---------------------------- MODULE GameplayPatch ----------------------------
(***************************************************************************)
(* The client patch (src/electron/services/gameplay-patch.ts): a proxy     *)
(* dinput8.dll next to H1Z1.exe and the marker that makes it act.  The     *)
(* launcher deploys or removes the pair in several file operations, each   *)
(* of which may fail, and any of which may be the last one before it dies. *)
(* A DLL that a running game has mapped can be neither replaced nor        *)
(* deleted.                                                                *)
(*                                                                         *)
(* The temporary files are left out: their names are unique and a left one *)
(* is never read.                                                          *)
(***************************************************************************)

VARIABLES
  dll,     \* dinput8.dll: this launcher's, one it replaced, or an unknown one
  marker,  \* the opt-in: this launcher's, an older launcher's, or none
  apply    \* the deployment or removal under way

patchVars == <<dll, marker, apply>>

Modes    == {"patched", "clean"}
DllFiles == {"absent", "active", "retired", "foreign"}
Markers  == {"none", "current", "older"}

NoApply == [pc |-> "idle", mode |-> "clean", seen |-> "absent"]

(* applyGameplayPatchMode *)
StartApply(mode) ==
  [pc |-> IF mode = "patched" THEN "deploy" ELSE "depatch",
   mode |-> mode, seen |-> "absent"]

Working == apply.pc \notin {"idle", "done", "failed"}

Move(pc) == apply' = [apply EXCEPT !.pc = pc]

PatchInit ==
  /\ dll \in {"absent", "retired"}
  /\ marker \in IF dll = "retired" THEN {"none", "older"} ELSE {"none"}
  /\ apply = NoApply

-----------------------------------------------------------------------------
(***************************************************************************)
(* deployGameplayPatchWithPolicy.                                          *)
(***************************************************************************)
(* Mutant of Unknown: every DLL of the client may be replaced *)
NothingUnknown(file) == FALSE

(* inspectManagedEntry: an unknown DLL is an error *)
Unknown(file) == file = "foreign"

InspectForDeploy ==
  /\ apply.pc = "deploy" /\ ~Unknown(dll)
  /\ apply' = [apply EXCEPT
                 !.seen = dll,
                 !.pc = IF dll # "active" THEN "stage"
                        ELSE IF marker = "current" THEN "done" ELSE "mark"]
  /\ UNCHANGED <<dll, marker>>

(* The staged copy is complete; is the old file still the one inspected? *)
RecheckBeforeRename ==
  /\ apply.pc = "stage" /\ dll = apply.seen
  /\ Move("rename")
  /\ UNCHANGED <<dll, marker>>

(* Mutant of RenameOver: the marker comes before the DLL *)
MarkThenRename(mapped) ==
  /\ apply.pc = "rename" /\ ~mapped
  /\ \/ marker # "current" /\ marker' = "current" /\ UNCHANGED <<dll, apply>>
     \/ marker = "current" /\ dll' = "active" /\ Move("verify") /\ UNCHANGED marker

RenameOver(mapped) ==
  /\ apply.pc = "rename" /\ ~mapped
  /\ dll' = "active"
  /\ Move("verify")
  /\ UNCHANGED marker

VerifyDeployed ==
  /\ apply.pc = "verify" /\ dll = "active"
  /\ Move("mark")
  /\ UNCHANGED <<dll, marker>>

WriteMarker ==
  /\ apply.pc = "mark"
  /\ marker' = "current"
  /\ Move("done")
  /\ UNCHANGED dll

(* The marker was not written, or was and cannot be read back *)
WriteMarkerFails(written) ==
  /\ apply.pc = "mark"
  /\ marker' = IF written THEN "current" ELSE marker
  /\ Move(IF apply.seen = "active" THEN "failed" ELSE "withdraw")
  /\ UNCHANGED dll

(* "Fail closed": the new DLL is deleted again, if it can be *)
WithdrawDll(mapped) ==
  /\ apply.pc = "withdraw"
  /\ \/ ~mapped /\ dll' = "absent"
     \/ UNCHANGED dll
  /\ Move("failed")
  /\ UNCHANGED marker

-----------------------------------------------------------------------------
(***************************************************************************)
(* depatchGameplayPatchWithPolicy.                                         *)
(***************************************************************************)
RemoveMarker ==
  /\ apply.pc = "depatch"
  /\ marker' = "none"
  /\ Move("inspect")
  /\ UNCHANGED dll

InspectForRemoval ==
  /\ apply.pc = "inspect" /\ ~Unknown(dll)
  /\ Move(IF dll = "absent" THEN "done" ELSE "unlink")
  /\ UNCHANGED <<dll, marker>>

UnlinkDll(mapped) ==
  /\ apply.pc = "unlink" /\ ~mapped
  /\ dll' = "absent"
  /\ Move("done")
  /\ UNCHANGED marker

(* A file that is unknown, locked, unreadable, not the one seen before *)
PatchFails ==
  /\ Working /\ apply.pc # "withdraw"
  /\ Move("failed")
  /\ UNCHANGED <<dll, marker>>

PatchStep(mapped) ==
  \/ InspectForDeploy \/ RecheckBeforeRename \/ RenameOver(mapped)
  \/ VerifyDeployed \/ WriteMarker \/ WithdrawDll(mapped)
  \/ RemoveMarker \/ InspectForRemoval \/ UnlinkDll(mapped)

-----------------------------------------------------------------------------
(* gameplayPatchInstallState and assertGameplayPatchState *)
FilesMatch(mode) ==
  IF mode = "patched" THEN dll = "active" /\ marker = "current"
                      ELSE dll = "absent" /\ marker = "none"

(* Between this and the file operation that follows, somebody may still
   exchange the DLL: the code says it cannot exclude it *)
InWindow == apply.pc \in {"rename", "verify", "mark", "withdraw", "unlink"}

(* The player, a support instruction or another tool changes a file *)
FilesDrift(mapped) ==
  /\ \/ ~mapped /\ dll' \in DllFiles \ {dll} /\ UNCHANGED marker
     \/ marker' \in {"none", "older"} \ {marker} /\ UNCHANGED dll
  /\ UNCHANGED apply
==============================================================================
