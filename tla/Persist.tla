------------------------------- MODULE Persist -------------------------------
(***************************************************************************)
(* The settings of libbb/bb_persist.c: a file of key=value lines for each  *)
(* namespace, on the persist partition, which both root slots share.       *)
(* Several processes get and set at the same time, nobody locks, and the   *)
(* board may lose power and come up from the other slot.                   *)
(*                                                                         *)
(* A step is one system call that others can notice.  Of the file system   *)
(* the model has names, inodes, and that a rename is atomic but may be     *)
(* undone by a power cut until it is on the disk.  The lines of a file are *)
(* a function from keys to values; a line that is cut short counts as      *)
(* missing.                                                                *)
(***************************************************************************)
EXTENDS Naturals, FiniteSets

CONSTANTS
  Namespaces, Keys, Values, NoValue,
  Slots,            \* the root slots
  Setters, Owner,   \* processes that set, and the namespace each one writes
  DiskMayFill,      \* whether fclose may find the partition full
  MaxSets, MaxReboots   \* bounds

ASSUME PersistAssumption == /\ NoValue \notin Values
                            /\ "persist" \notin Slots
                            /\ IsFiniteSet(Setters) /\ Owner \in [Setters -> Namespaces]
                            /\ DiskMayFill \in BOOLEAN
                            /\ MaxSets \in Nat /\ MaxReboots \in Nat

VARIABLES
  slot,       \* the root slot that runs
  mounts,     \* what is mounted: "persist" on /persist, "log" on /var/log/persist
  data,       \* what is in each inode
  conf, tmp,  \* the inode of <namespace>.conf and of <namespace>.conf.tmp
  setter, getter,   \* the calls under way
  disk,       \* what a power cut leaves of the settings at least
  settings, saved,  \* history: what the calls have set, and what of it is on the disk
  spoiled,    \* history: a call wrote elsewhere, or found the partition full
  sets, reboots

files   == <<data, conf, tmp>>
calls   == <<setter, getter>>
system  == <<slot, mounts>>
history == <<settings, saved, spoiled>>
persist == <<system, files, calls, disk, history, sets, reboots>>

Contents == [Keys -> Values \cup {NoValue}]
Empty == [k \in Keys |-> NoValue]

\* /persist is a directory of the root slot while nothing is mounted on it.
Places == {"persist"} \cup Slots
Here == IF "persist" \in mounts THEN "persist" ELSE slot

\* A file is known by its place, its namespace and a number.
NoFile == <<>>
Inodes == Places \X Namespaces \X (1 .. 2 * Cardinality(Setters) + 3)
Text(file) == IF file = NoFile THEN Empty ELSE data[file]

Opened == {setter[s].in : s \in Setters} \cup {setter[s].out : s \in Setters} \cup {getter.in}
Named == {conf[p][n] : p \in Places, n \in Namespaces}
           \cup {tmp[p][n] : p \in Places, n \in Namespaces}
Unused(n) == {i \in Inodes : i[1] = Here /\ i[2] = n} \ (Named \cup Opened)
Fresh(n) == CHOOSE i \in Unused(n) : \A j \in Unused(n) : i[3] <= j[3]

NoSet == [pc |-> "idle", key |-> NoValue, value |-> NoValue,
          in |-> NoFile, out |-> NoFile, text |-> Empty, short |-> FALSE]
NoGet == [pc |-> "idle", ns |-> NoValue, key |-> NoValue,
          in |-> NoFile, result |-> NoValue, possible |-> {}]

PersistInitial ==
  /\ slot \in Slots /\ mounts = {}
  /\ data = [i \in Inodes |-> Empty]
  /\ conf = [p \in Places |-> [n \in Namespaces |-> NoFile]] /\ tmp = conf
  /\ setter = [s \in Setters |-> NoSet] /\ getter = NoGet
  /\ disk = [p \in Places |-> [n \in Namespaces |-> Empty]]
  /\ settings = [n \in Namespaces |-> Empty] /\ saved = settings
  /\ spoiled = FALSE
  /\ sets = 0 /\ reboots = 0

-----------------------------------------------------------------------------
(* Mounting *)

\* The system mounts the log partition.
MountLog ==
  /\ mounts' = mounts \cup {"log"}
  /\ UNCHANGED <<slot, files, calls, disk, history, sets, reboots>>

\* bb_persist_init looks for "/persist" anywhere in the lines of /proc/mounts,
\* and finds it in "/var/log/persist" too: then it mounts nothing.
PersistInit ==
  /\ mounts = {}
  /\ mounts' = {"persist"}
  /\ UNCHANGED <<slot, files, calls, disk, history, sets, reboots>>

\* A call of bb_persist_init has returned 0.
Initialised == mounts # {}

-----------------------------------------------------------------------------
(* bb_persist_config_set *)

SetOpen(s) ==
  /\ Initialised /\ setter[s].pc = "idle" /\ sets < MaxSets
  /\ \E k \in Keys, v \in Values :
       setter' = [setter EXCEPT ![s] = [NoSet EXCEPT !.pc = "create", !.key = k, !.value = v,
                                                     !.in = conf[Here][Owner[s]]]]
  /\ sets' = sets + 1
  /\ UNCHANGED <<system, files, getter, disk, history, reboots>>

\* Mutant: the file itself is written.
SetCreate_InPlace(s) ==
  /\ setter[s].pc = "create"
  /\ LET n == Owner[s]
         file == IF conf[Here][n] # NoFile THEN conf[Here][n] ELSE Fresh(n)
     IN /\ data' = [data EXCEPT ![file] = Empty]
        /\ tmp' = [tmp EXCEPT ![Here][n] = file]
        /\ setter' = [setter EXCEPT ![s].pc = "copy", ![s].out = file]
  /\ UNCHANGED <<system, conf, getter, disk, history, sets, reboots>>

\* The temporary file is created, or one that exists is emptied.
SetCreate(s) ==
  /\ setter[s].pc = "create"
  /\ LET n == Owner[s]
         file == IF tmp[Here][n] # NoFile THEN tmp[Here][n] ELSE Fresh(n)
     IN /\ data' = [data EXCEPT ![file] = Empty]
        /\ tmp' = [tmp EXCEPT ![Here][n] = file]
        /\ setter' = [setter EXCEPT ![s].pc = "copy", ![s].out = file]
  /\ UNCHANGED <<system, conf, getter, disk, history, sets, reboots>>

\* It cannot be created: the call fails, and all it changed is that the
\* descriptor of the old file leaks.
SetRefused(s) ==
  /\ setter[s].pc = "create" /\ DiskMayFill
  /\ setter' = [setter EXCEPT ![s] = NoSet]
  /\ UNCHANGED <<system, files, getter, disk, history, sets, reboots>>

\* Mutant: the other lines are not copied.
SetCopy_KeyOnly(s) ==
  /\ setter[s].pc = "copy"
  /\ setter' = [setter EXCEPT ![s].pc = "close", ![s].in = NoFile,
                              ![s].text = [Empty EXCEPT ![setter[s].key] = setter[s].value]]
  /\ UNCHANGED <<system, files, getter, disk, history, sets, reboots>>

\* The lines are read, with the value replaced or appended.
SetCopy(s) ==
  /\ setter[s].pc = "copy"
  /\ setter' = [setter EXCEPT ![s].pc = "close", ![s].in = NoFile,
                              ![s].text = [Text(setter[s].in) EXCEPT ![setter[s].key] = setter[s].value]]
  /\ UNCHANGED <<system, files, getter, disk, history, sets, reboots>>

\* fclose writes them; that the partition is full goes unnoticed.
SetClose(s) ==
  /\ setter[s].pc = "close"
  /\ \E missing \in IF DiskMayFill THEN SUBSET Keys ELSE {{}} :
       LET text == [k \in Keys |-> IF k \in missing THEN NoValue ELSE setter[s].text[k]]
       IN /\ data' = [data EXCEPT ![setter[s].out] = text]
          /\ setter' = [setter EXCEPT ![s].pc = "rename", ![s].short = (text # setter[s].text)]
  /\ UNCHANGED <<system, conf, tmp, getter, disk, history, sets, reboots>>

\* The call returns 0, whatever has happened.
Returned(s) ==
  /\ setter' = [setter EXCEPT ![s] = NoSet]
  /\ settings' = [settings EXCEPT ![Owner[s]][setter[s].key] = setter[s].value]
  /\ spoiled' = (spoiled \/ setter[s].short \/ Here # "persist")
  /\ getter' = IF getter.pc = "read" /\ getter.ns = Owner[s] /\ getter.key = setter[s].key
                 THEN [getter EXCEPT !.possible = @ \cup {setter[s].value}] ELSE getter
  /\ UNCHANGED <<system, disk, saved, sets, reboots>>

\* Mutant: a second name instead of a new one.
SetRename_Link(s) ==
  /\ setter[s].pc = "rename"
  /\ conf' = [conf EXCEPT ![Here][Owner[s]] = tmp[Here][Owner[s]]]
  /\ Returned(s)
  /\ UNCHANGED <<data, tmp>>

\* Without a temporary file, which another call has renamed, rename fails.
SetRename(s) ==
  /\ setter[s].pc = "rename"
  /\ LET n == Owner[s]
     IN IF tmp[Here][n] = NoFile
          THEN UNCHANGED <<conf, tmp>>
          ELSE /\ conf' = [conf EXCEPT ![Here][n] = tmp[Here][n]]
               /\ tmp' = [tmp EXCEPT ![Here][n] = NoFile]
  /\ Returned(s)
  /\ UNCHANGED data

-----------------------------------------------------------------------------
(* bb_persist_config_get *)

GetOpen ==
  /\ Initialised /\ getter.pc # "read"
  /\ \E n \in Namespaces, k \in Keys :
       getter' = [pc |-> "read", ns |-> n, key |-> k, in |-> conf[Here][n],
                  result |-> NoValue, possible |-> {settings[n][k]}]
  /\ UNCHANGED <<system, files, setter, disk, history, sets, reboots>>

GetRead ==
  /\ getter.pc = "read"
  /\ getter' = [getter EXCEPT !.pc = "done", !.in = NoFile, !.result = Text(getter.in)[getter.key]]
  /\ UNCHANGED <<system, files, setter, disk, history, sets, reboots>>

-----------------------------------------------------------------------------
(* The board *)

\* The kernel writes back what was renamed.
Sync ==
  /\ disk' = [p \in Places |-> [n \in Namespaces |-> Text(conf[p][n])]]
  /\ saved' = settings
  /\ UNCHANGED <<system, files, calls, settings, spoiled, sets, reboots>>

Unsaved == {f \in Places \X Namespaces : Text(conf[f[1]][f[2]]) # disk[f[1]][f[2]]}

\* The power goes and comes back, perhaps with the other slot.  Of each file
\* the last rename counts, or the state on the disk; a temporary file may stay.
Reboot ==
  /\ reboots < MaxReboots
  /\ slot' \in Slots /\ mounts' = {}
  /\ \E lost \in SUBSET Unsaved :
       LET left == [p \in Places |-> [n \in Namespaces |->
                      IF <<p, n>> \in lost THEN disk[p][n] ELSE Text(conf[p][n])]]
           name(p, n) == <<p, n, 1>>
       IN /\ data' = [i \in Inodes |-> IF i[3] = 1 THEN left[i[1]][i[2]] ELSE Empty]
          /\ conf' = [p \in Places |-> [n \in Namespaces |->
                        IF left[p][n] = Empty THEN NoFile ELSE name(p, n)]]
          /\ disk' = left
          /\ settings' = [n \in Namespaces |->
                            IF <<"persist", n>> \in lost THEN saved[n] ELSE settings[n]]
  /\ saved' = settings'
  /\ tmp' \in {[p \in Places |-> [n \in Namespaces |->
                  IF stale /\ tmp[p][n] # NoFile THEN <<p, n, 2>> ELSE NoFile]] : stale \in BOOLEAN}
  /\ setter' = [s \in Setters |-> NoSet] /\ getter' = NoGet
  /\ reboots' = reboots + 1
  /\ UNCHANGED <<spoiled, sets>>

-----------------------------------------------------------------------------
Set(s) == \/ SetOpen(s) \/ SetCreate(s) \/ SetRefused(s) \/ SetCopy(s) \/ SetClose(s)
          \/ SetRename(s)

Get == GetOpen \/ GetRead

\* The system that has booted; the module that extends this one adds the rest.
Running == MountLog \/ PersistInit \/ Get \/ \E s \in Setters : Set(s)

-----------------------------------------------------------------------------
(* Correctness *)

PersistTypeOK ==
  /\ slot \in Slots /\ mounts \subseteq {"persist", "log"}
  /\ data \in [Inodes -> Contents]
  /\ \A p \in Places, n \in Namespaces :
       /\ {conf[p][n], tmp[p][n]} \subseteq Inodes \cup {NoFile}
       /\ conf[p][n] = tmp[p][n] => conf[p][n] = NoFile
  /\ \A s \in Setters : /\ setter[s].pc \in {"idle", "create", "copy", "close", "rename"}
                        /\ {setter[s].in, setter[s].out} \subseteq Inodes \cup {NoFile}
                        /\ setter[s].text \in Contents
  /\ getter.pc \in {"idle", "read", "done"} /\ getter.result \in Values \cup {NoValue}
  /\ \A n \in Namespaces : settings[n] \in Contents /\ saved[n] \in Contents
  /\ sets \in 0 .. MaxSets /\ reboots \in 0 .. MaxReboots

\* With one writer for each namespace, the files hold exactly what the calls
\* have set: no key of the file is lost, no half-written file takes the place of
\* a good one, and a power cut undoes whole calls only.
SettingsKept == ~spoiled => \A n \in Namespaces : Text(conf["persist"][n]) = settings[n]

\* A get returns a value that was set, and not overwritten before the get began,
\* also after an update has changed the slot.
SettingsSurvive ==
  getter.pc = "done" /\ "persist" \in mounts /\ ~spoiled => getter.result \in getter.possible
=============================================================================
