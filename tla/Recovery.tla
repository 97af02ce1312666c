------------------------------ MODULE Recovery ------------------------------
(***************************************************************************)
(* libbb/bb_recovery.c on top of the settings of Persist: snapshots of the *)
(* persist partition, taken while the system runs and processes set        *)
(* values, and restored, like the factory reset, in the recovery system    *)
(* that deploy/boot/recovery-init sets up.                                 *)
(*                                                                         *)
(* Snapshots lie on the recovery partition.  The shell commands are taken  *)
(* apart where a power cut may come between their effects; mkfs refuses a  *)
(* partition that is mounted, and mount one that is mounted there already. *)
(***************************************************************************)
EXTENDS Persist

CONSTANT Labels      \* of snapshots

VARIABLES
  mode,        \* "normal", or "boot" and then "recovery"
  attached,    \* the recovery partition is mounted on /recovery
  reimaging,   \* the persist partition is mounted on /tmp/reimage
  snap,        \* the snapshots
  dirty,       \* those that a power cut may damage
  tool,        \* the call of this library under way, and its last result
  captured     \* history: per snapshot, what the settings were while it was taken

snapshots == <<snap, dirty>>
recovery  == <<mode, attached, reimaging, snapshots, tool, captured>>
vars      == <<persist, recovery>>

Nothing == [n \in Namespaces |-> Empty]
NoSnapshot == [exists |-> FALSE, manifest |-> "none", archive |-> "none", files |-> Nothing]
NoTool == [pc |-> "idle", label |-> CHOOSE l \in Labels : TRUE, todo |-> {}, result |-> "none"]

Init ==
  /\ PersistInitial
  /\ mode = "normal" /\ attached = FALSE /\ reimaging = FALSE
  /\ snap = [l \in Labels |-> NoSnapshot] /\ dirty = {}
  /\ tool = NoTool
  /\ captured = [l \in Labels |-> [n \in Namespaces |-> {}]]

\* A step of Persist; what an archive under way may hold grows with the settings.
Watched ==
  /\ captured' = IF tool.pc = "files"
                   THEN [captured EXCEPT ![tool.label] = [n \in Namespaces |-> @[n] \cup {settings'[n]}]]
                   ELSE captured
  /\ UNCHANGED <<mode, attached, reimaging, snapshots, tool>>

-----------------------------------------------------------------------------
(* bb_snapshot_create *)

\* It fails when an earlier call has left the recovery partition mounted.
CreateMount ==
  /\ mode = "normal" /\ tool.pc = "idle" /\ ~attached
  /\ attached' = TRUE
  /\ \E l \in Labels : tool' = [NoTool EXCEPT !.pc = "manifest", !.label = l]
  /\ UNCHANGED <<persist, mode, reimaging, snapshots, captured>>

\* The directory and the manifest, empty if the partition is full.
CreateManifest ==
  /\ tool.pc = "manifest"
  /\ \E manifest \in IF DiskMayFill THEN {"whole", "empty"} ELSE {"whole"} :
       snap' = [snap EXCEPT ![tool.label].exists = TRUE, ![tool.label].manifest = manifest]
  /\ dirty' = dirty \cup {tool.label}
  /\ tool' = [tool EXCEPT !.pc = "tar"]
  /\ UNCHANGED <<persist, mode, attached, reimaging, captured>>

\* tar starts the archive afresh, also one of the same label.
CreateTar ==
  /\ tool.pc = "tar"
  /\ snap' = [snap EXCEPT ![tool.label].archive = "torn", ![tool.label].files = Nothing]
  /\ tool' = [tool EXCEPT !.pc = "files", !.todo = Namespaces]
  /\ captured' = [captured EXCEPT ![tool.label] = [n \in Namespaces |-> {settings[n]}]]
  /\ UNCHANGED <<persist, mode, attached, reimaging, dirty>>

\* It reads what is in /persist.
CreateFile ==
  /\ tool.pc = "files"
  /\ \E n \in tool.todo :
       /\ snap' = [snap EXCEPT ![tool.label].files[n] = Text(conf[Here][n])]
       /\ tool' = [tool EXCEPT !.todo = @ \ {n}]
  /\ spoiled' = (spoiled \/ Here # "persist")
  /\ UNCHANGED <<system, files, calls, disk, settings, saved, sets, reboots>>
  /\ UNCHANGED <<mode, attached, reimaging, dirty, captured>>

\* tar has finished, or failed for want of space; the call returns 0.
CreateEnd ==
  /\ tool.pc = "files"
  /\ \/ tool.todo = {} /\ snap' = [snap EXCEPT ![tool.label].archive = "whole"]
     \/ DiskMayFill /\ UNCHANGED snap
  /\ tool' = NoTool
  /\ UNCHANGED <<persist, mode, attached, reimaging, dirty, captured>>

Create == CreateMount \/ CreateManifest \/ CreateTar \/ CreateFile \/ CreateEnd

-----------------------------------------------------------------------------
(* bb_recovery_list_snapshots, bb_snapshot_delete *)

List ==
  /\ mode # "boot" /\ tool.pc = "idle"
  /\ attached' = TRUE
  /\ UNCHANGED <<persist, mode, reimaging, snapshots, tool, captured>>

\* rm removes the files in any order,
DeleteFile ==
  /\ mode # "boot" /\ tool.pc = "idle"
  /\ attached' = TRUE
  /\ \E l \in Labels :
       /\ snap[l].exists
       /\ \/ snap' = [snap EXCEPT ![l].manifest = "none"]
          \/ snap' = [snap EXCEPT ![l].archive = "none", ![l].files = Nothing]
       /\ tool' = [NoTool EXCEPT !.pc = "remove", !.label = l]
  /\ UNCHANGED <<persist, mode, reimaging, dirty, captured>>

\* and then the directory.
DeleteEnd ==
  /\ tool.pc = "remove"
  /\ snap' = [snap EXCEPT ![tool.label] = NoSnapshot]
  /\ dirty' = dirty \ {tool.label}
  /\ tool' = NoTool
  /\ UNCHANGED <<persist, mode, attached, reimaging, captured>>

Manage == List \/ DeleteFile \/ DeleteEnd

-----------------------------------------------------------------------------
(* bb_recovery_restore_snapshot, with bb_recovery_reimage; factory reset *)

\* It looks for the snapshot before it mounts.  An empty manifest is read
\* without an error: the call returns 0 and has restored nothing.
Restore ==
  /\ mode = "recovery" /\ tool.pc = "idle"
  /\ \E l \in Labels :
       /\ attached /\ snap[l].exists
       /\ tool' = CASE snap[l].manifest = "none"  -> [NoTool EXCEPT !.result = "failed"]
                    [] snap[l].manifest = "empty" -> [NoTool EXCEPT !.result = "nothing"]
                    [] snap[l].manifest = "whole" -> [NoTool EXCEPT !.pc = "format", !.label = l]
  /\ UNCHANGED <<persist, mode, attached, reimaging, snapshots, captured>>

MkfsRefuses == "persist" \in mounts \/ reimaging

\* The persist partition is empty.
Format ==
  /\ conf' = [conf EXCEPT !["persist"] = [n \in Namespaces |-> NoFile]]
  /\ tmp' = [tmp EXCEPT !["persist"] = [n \in Namespaces |-> NoFile]]
  /\ data' = [i \in Inodes |-> IF i[1] = "persist" THEN Empty ELSE data[i]]
  /\ disk' = [disk EXCEPT !["persist"] = Nothing]
  /\ settings' = Nothing /\ saved' = Nothing
  /\ UNCHANGED <<system, calls, spoiled, sets, reboots>>

RestoreFormat ==
  /\ tool.pc = "format"
  /\ \/ /\ MkfsRefuses
        /\ tool' = [NoTool EXCEPT !.result = "failed"]
        /\ UNCHANGED <<persist, reimaging>>
     \/ /\ ~MkfsRefuses /\ Format
        /\ reimaging' = TRUE
        /\ tool' = [tool EXCEPT !.pc = "untar", !.todo = Namespaces]
  /\ UNCHANGED <<mode, attached, snapshots, captured>>

RestoreFile ==
  /\ tool.pc = "untar"
  /\ \E n \in tool.todo :
       LET text == snap[tool.label].files[n]
       IN /\ data' = [data EXCEPT ![<<"persist", n, 1>>] = text]
          /\ conf' = [conf EXCEPT !["persist"][n] = IF text = Empty THEN NoFile ELSE <<"persist", n, 1>>]
          /\ settings' = [settings EXCEPT ![n] = text]
          /\ tool' = [tool EXCEPT !.todo = @ \ {n}]
  /\ UNCHANGED <<system, tmp, calls, disk, saved, spoiled, sets, reboots>>
  /\ UNCHANGED <<mode, attached, reimaging, snapshots, captured>>

\* Mutant: the outcome of tar is lost.
RestoreEnd_NoTest ==
  /\ tool.pc = "untar" /\ tool.todo = {}
  /\ reimaging' = FALSE
  /\ disk' = [disk EXCEPT !["persist"] = [n \in Namespaces |-> Text(conf["persist"][n])]]
  /\ saved' = settings
  /\ tool' = [NoTool EXCEPT !.label = tool.label, !.result = "restored"]
  /\ UNCHANGED <<system, files, calls, settings, spoiled, sets, reboots>>
  /\ UNCHANGED <<mode, attached, snapshots, captured>>

\* umount writes back.  tar fails at the end of a torn archive, or finds none;
\* then nobody unmounts.
RestoreEnd ==
  /\ tool.pc = "untar"
  /\ \/ /\ tool.todo = {} /\ snap[tool.label].archive = "whole"
        /\ reimaging' = FALSE
        /\ disk' = [disk EXCEPT !["persist"] = [n \in Namespaces |-> Text(conf["persist"][n])]]
        /\ saved' = settings
        /\ tool' = [NoTool EXCEPT !.label = tool.label, !.result = "restored"]
     \/ /\ snap[tool.label].archive # "whole"
        /\ tool' = [NoTool EXCEPT !.result = "failed"]
        /\ UNCHANGED <<reimaging, disk, saved>>
  /\ UNCHANGED <<system, files, calls, settings, spoiled, sets, reboots>>
  /\ UNCHANGED <<mode, attached, snapshots, captured>>

\* Of the factory reset, what it does to the settings: mkfs, or nothing, and
\* success in both cases.
FactoryReset ==
  /\ mode = "recovery" /\ tool.pc = "idle"
  /\ IF MkfsRefuses THEN UNCHANGED persist ELSE Format
  /\ tool' = NoTool
  /\ UNCHANGED <<mode, attached, reimaging, snapshots, captured>>

-----------------------------------------------------------------------------
(* The board *)

\* recovery-init mounts the persist partition if it can; the operator may
\* unmount it in the recovery shell.
RecoveryInit ==
  /\ mode = "boot"
  /\ mode' = "recovery"
  /\ mounts' \in {{}, {"persist"}}
  /\ UNCHANGED <<slot, files, calls, disk, history, sets, reboots>>
  /\ UNCHANGED <<attached, reimaging, snapshots, tool, captured>>

Unmount ==
  /\ mode = "recovery" /\ "persist" \in mounts
  /\ mounts' = {}
  /\ UNCHANGED <<slot, files, calls, disk, history, sets, reboots>>
  /\ UNCHANGED recovery

\* What a power cut leaves of a snapshot that was not written back.
Damaged(s) ==
  {[s EXCEPT !.manifest = left[1], !.archive = left[2]] :
     left \in (IF s.manifest = "whole" THEN {"whole", "empty"} ELSE {s.manifest})
                \X (IF s.archive = "whole" THEN {"whole", "torn"} ELSE {s.archive})}

PowerCut ==
  /\ Reboot
  /\ mode' \in {"normal", "boot"}
  /\ attached' = FALSE /\ reimaging' = FALSE
  /\ snap' \in {s \in [Labels -> UNION {Damaged(snap[l]) : l \in Labels}] :
                  \A l \in Labels : IF l \in dirty THEN s[l] \in Damaged(snap[l])
                                                   ELSE s[l] = snap[l]}
  /\ dirty' = {} /\ tool' = NoTool
  /\ UNCHANGED captured

WriteBack ==
  /\ Sync
  /\ dirty' = {}
  /\ UNCHANGED <<mode, attached, reimaging, snap, tool, captured>>

Next == \/ mode = "normal" /\ Running /\ Watched
        \/ Create \/ Manage \/ Restore \/ RestoreFormat \/ RestoreFile \/ RestoreEnd
        \/ FactoryReset \/ RecoveryInit \/ Unmount \/ PowerCut \/ WriteBack

Spec == Init /\ [][Next]_vars

-----------------------------------------------------------------------------
(* Correctness *)

TypeOK ==
  /\ PersistTypeOK
  /\ mode \in {"normal", "boot", "recovery"} /\ {attached, reimaging} \subseteq BOOLEAN
  /\ \A l \in Labels : /\ snap[l].manifest \in {"none", "empty", "whole"}
                       /\ snap[l].archive \in {"none", "torn", "whole"}
                       /\ ~snap[l].exists => snap[l] = NoSnapshot
  /\ tool.pc \in {"idle", "manifest", "tar", "files", "remove", "format", "untar"}
  /\ tool.todo \subseteq Namespaces /\ tool.result \in {"none", "failed", "nothing", "restored"}

\* A restore that reports success has brought back, of every namespace, what was
\* set at some moment while the snapshot was taken, whatever was set meanwhile
\* and although nobody looks at how tar ended when it was taken.
RestoreFaithful ==
  tool.result = "restored" /\ ~spoiled =>
    \A n \in Namespaces : Text(conf["persist"][n]) \in captured[tool.label][n]
=============================================================================
