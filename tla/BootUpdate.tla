----------------------------- MODULE BootUpdate -----------------------------
(***************************************************************************)
(* The A/B boot scheme: U-Boot's script deploy/boot/boot.cmd, the          *)
(* environment it shares with user space, bb_update_install of             *)
(* tools/bb-update/bb_update.c, the recovery request, the re-imaging and   *)
(* the factory reset of libbb/bb_recovery.c, and the boot-ok service       *)
(* (whose program is not in the repository).                               *)
(*                                                                         *)
(* Power may fail between any two steps.  A step of U-Boot or of the       *)
(* installer is what lies between two writes to the eMMC.  The content of  *)
(* a partition is reduced to whether it works.                             *)
(***************************************************************************)
EXTENDS Integers, FiniteSets

CONSTANTS
  BootLimit,        \* boot_limit of the environment
  PackageSlots,     \* target slots packages may name: "=" is the other slot, "c"
                    \* any character that names none
  MaxInstalls,      \* bound on the installations and factory resets
  MaxPowerLosses,   \* bound on the power losses
  RecoveryMayFail   \* whether the recovery partition may fail to boot

ASSUME BootAssumption == /\ BootLimit \in Nat
                         /\ MaxInstalls \in Nat /\ MaxPowerLosses \in Nat
ASSUME PackageAssumption == PackageSlots \subseteq {"=", "a", "b", "c"}
ASSUME RecoveryAssumption == RecoveryMayFail \in BOOLEAN

VARIABLES
  env,          \* the environment on the eMMC
  ram,          \* U-Boot's copy of it
  machine,      \* what runs: nothing, a part of boot.cmd, a system, or the prompt
  booted,       \* the slot whose partitions run
  cmdline,      \* boot_slot= of the kernel command line
  service,      \* progress of the boot-ok service
  recoveryWorks, \* whether the recovery partition always boots; fixed
  image,        \* content of the partitions of each slot
  install,      \* what the installer does next, "idle" if it does not run
  package,      \* the package being installed
  target,       \* its target slot
  reset,        \* what the factory reset does next, "idle" if it does not run
  tries,        \* history: attempts on the slot of the environment, since its count
                \* was set, that were not confirmed, up to BootLimit + 1
  inherited,    \* history: that slot was set without a count of its own, on top of
                \* one from which attempts were missing
  forced,       \* history: a package was installed over the running slot, or a
                \* factory reset was begun
  installs, losses

firmware == <<env, ram>>
system   == <<booted, cmdline, service, recoveryWorks>>
count    == <<tries, inherited>>
history  == <<count, forced, installs, losses>>
updater  == <<install, package, target, reset>>
vars     == <<firmware, machine, system, image, updater, history>>

Slots == {"a", "b"}
Works == [boot |-> "good", root |-> "good"]
Good(s) == image[s] = Works

\* The slot whose partitions stand for a name: boot.cmd and bb_update_install send
\* everything but "a" to those of b.
Part(name) == IF name = "a" THEN "a" ELSE "b"

NoPackage == [content |-> "bad", slot |-> "=", hasBoot |-> FALSE]

Init ==
  /\ env = [slot |-> "a", ok |-> 0, attempt |-> BootLimit, recovery |-> 0]
  /\ ram = env
  /\ machine = "off"
  /\ booted = "a" /\ cmdline = "a" /\ service = "done"
  /\ recoveryWorks \in {TRUE, ~RecoveryMayFail}
  /\ image \in [Slots -> {Works, [boot |-> "empty", root |-> "empty"]}]
  /\ Good("a")
  /\ install = "idle" /\ package = NoPackage /\ target = "a" /\ reset = "idle"
  /\ tries = 0 /\ inherited = FALSE /\ forced = FALSE
  /\ installs = 0 /\ losses = 0

-----------------------------------------------------------------------------
(* boot.cmd *)

\* Parts 1 and 2.
LoadEnv ==
  /\ machine = "off"
  /\ ram' = IF env.recovery = 1 THEN [env EXCEPT !.slot = "recovery"] ELSE env
  /\ machine' = "slot_check"
  /\ UNCHANGED <<env, system, image, updater, history>>

\* Part 3: any slot but a and b becomes a, also "recovery", and gets its count.
SlotCheck ==
  /\ machine = "slot_check"
  /\ \/ ram.slot \in Slots /\ UNCHANGED firmware
     \/ /\ ram.slot \notin Slots
        /\ ram' = [ram EXCEPT !.slot = "a", !.attempt = BootLimit, !.ok = 0]
        /\ env' = ram'
  /\ tries' = IF ram'.slot = env.slot THEN tries ELSE 0
  /\ inherited' = (inherited /\ ram.slot \in Slots)
  /\ machine' = "ok_check"
  /\ UNCHANGED <<system, image, updater, forced, installs, losses>>

\* One more attempt on the same slot, or the first on another or after a
\* confirmation.
Attempt == IF ram'.slot = ram.slot /\ ram.ok = 0
           THEN IF tries > BootLimit THEN tries ELSE tries + 1
           ELSE 1

\* What the history keeps of part 4.
Counted == /\ tries' = Attempt
           /\ inherited' = (inherited /\ ram'.slot = ram.slot /\ ram.ok = 0)

\* Where U-Boot goes from a slot that is given up.
NextSlot == IF ram.slot = "a" THEN "b" ELSE "recovery"

\* Part 4: out of attempts, the next slot; an attempt is paid for by each boot
\* after one that was not confirmed; a confirmation is used up.
GiveUp == /\ ram.ok = 0 /\ ram.attempt <= 1
          /\ ram' = [ram EXCEPT !.slot = NextSlot, !.attempt = BootLimit]

Retry == /\ ram.ok = 0 /\ ram.attempt > 1
         /\ ram' = [ram EXCEPT !.attempt = @ - 1]

StartOver == /\ ram.ok # 0
             /\ ram' = [ram EXCEPT !.attempt = BootLimit, !.ok = 0]

\* Mutant: the decremented counter is not saved.
OkCheck_NoSave ==
  /\ machine = "ok_check"
  /\ \/ (GiveUp \/ StartOver) /\ env' = ram'
     \/ Retry /\ UNCHANGED env
  /\ Counted
  /\ machine' = "select"
  /\ UNCHANGED <<system, image, updater, forced, installs, losses>>

\* Mutant: one attempt too many.
OkCheck_OffByOne ==
  /\ machine = "ok_check"
  /\ \/ ram.attempt # 1 /\ (GiveUp \/ Retry)
     \/ ram.ok = 0 /\ ram.attempt = 1 /\ ram' = [ram EXCEPT !.attempt = 0]
     \/ StartOver
  /\ env' = ram'
  /\ Counted
  /\ machine' = "select"
  /\ UNCHANGED <<system, image, updater, forced, installs, losses>>

\* Mutant: the next slot inherits the attempts that are left.
OkCheck_KeepAttempts ==
  /\ machine = "ok_check"
  /\ \/ ram.ok = 0 /\ ram.attempt <= 1 /\ ram' = [ram EXCEPT !.slot = NextSlot]
     \/ Retry \/ StartOver
  /\ env' = ram'
  /\ Counted
  /\ machine' = "select"
  /\ UNCHANGED <<system, image, updater, forced, installs, losses>>

\* Every branch saves the environment.
OkCheck ==
  /\ machine = "ok_check"
  /\ GiveUp \/ Retry \/ StartOver
  /\ env' = ram'
  /\ Counted
  /\ machine' = "select"
  /\ UNCHANGED <<system, image, updater, forced, installs, losses>>

\* booti: without a kernel the script ends at the prompt; a system that does
\* not work panics or hangs and is reset ("panic=5", the watchdog).
StartSlot(s) ==
  /\ booted' = s /\ cmdline' = ram.slot /\ UNCHANGED recoveryWorks
  /\ \/ image[s].boot = "empty" /\ machine' = "prompt" /\ UNCHANGED service
     \/ Good(s) /\ machine' = "up" /\ service' = "started"
     \/ image[s].boot # "empty" /\ ~Good(s) /\ machine' = "off" /\ UNCHANGED service

\* Part 5; when the recovery system does not boot, the script goes on to part 6,
\* where everything but slot a means the partitions of slot b.
BootRecovery ==
  /\ machine = "select" /\ ram.slot = "recovery"
  /\ \/ machine' = "recovery" /\ UNCHANGED system
     \/ ~recoveryWorks /\ StartSlot("b")
  /\ UNCHANGED <<firmware, image, updater, history>>

\* Part 6.
BootSlot ==
  /\ machine = "select" /\ ram.slot \in Slots
  /\ StartSlot(ram.slot)
  /\ UNCHANGED <<firmware, image, updater, history>>

UBoot == LoadEnv \/ SlotCheck \/ OkCheck \/ BootRecovery \/ BootSlot

-----------------------------------------------------------------------------
(* The boot-ok service of the running system *)

ConfirmOk ==
  /\ machine = "up" /\ service = "started"
  /\ env' = [env EXCEPT !.ok = 1]
  /\ service' = "confirmed"
  /\ tries' = 0 /\ inherited' = FALSE
  /\ UNCHANGED <<ram, machine, booted, cmdline, recoveryWorks, image, updater, forced,
                 installs, losses>>

ConfirmAttempts ==
  /\ machine = "up" /\ service = "confirmed"
  /\ env' = [env EXCEPT !.attempt = BootLimit]
  /\ service' = "done"
  /\ inherited' = FALSE
  /\ UNCHANGED <<ram, machine, booted, cmdline, recoveryWorks, image, updater, tries,
                 forced, installs, losses>>

-----------------------------------------------------------------------------
(* bb_update_install *)

\* bb_update_current_slot takes the slot from the command line; what is not "a"
\* counts as the other one.
Opposite(current) == IF current = "a" THEN "b" ELSE "a"

\* Mutant: the package goes to the running slot.
TargetSlot_Same(slot) == IF slot = "=" THEN cmdline ELSE slot

\* Mutant: the slot of the manifest is used as it is.
TargetSlot_Verbatim(slot) == slot

\* "=" selects the slot that does not run; an explicit slot is taken as it is.
TargetSlot(slot) == IF slot = "=" THEN Opposite(cmdline) ELSE slot

\* What bb_update_verify lets through: it looks at the first word only, so the
\* payload may be anything, and the manifest may name any slot.  A package it
\* refuses changes nothing.
Packages == [content : {"good", "bad"}, slot : PackageSlots, hasBoot : BOOLEAN]

\* The package is accepted and the target chosen.
InstallStart ==
  /\ machine = "up" /\ install = "idle" /\ installs < MaxInstalls
  /\ package' \in Packages
  /\ target' = TargetSlot(package'.slot)
  /\ forced' = (forced \/ (package'.slot # "=" /\ Part(package'.slot) = booted))
  /\ installs' = installs + 1
  /\ install' = "format_boot"
  /\ UNCHANGED <<firmware, machine, system, image, reset, count, losses>>

\* The installer moves on; at its end it forgets the package.
Installing(from, to) ==
  /\ machine = "up" /\ install = from /\ install' = to
  /\ package' = IF to = "idle" THEN NoPackage ELSE package
  /\ target' = IF to = "idle" THEN "a" ELSE target
  /\ UNCHANGED <<ram, machine, system, reset, forced, installs, losses>>

\* A part of the target's partitions gets a content, or keeps what it has:
\* nobody looks whether a command failed.
Overwrite(part, contents) ==
  \/ UNCHANGED image
  \/ \E content \in contents : image' = [image EXCEPT ![Part(target)][part] = content]

FormatBoot == /\ Installing("format_boot", "format_root")
              /\ Overwrite("boot", {"empty"})
              /\ UNCHANGED <<env, count>>

FormatRoot == /\ Installing("format_root", "extract")
              /\ Overwrite("root", {"empty"})
              /\ UNCHANGED <<env, count>>

\* A package that cannot be extracted ends the installation here, after the
\* formatting.
Extract == /\ \E to \in {"write_boot", "idle"} : Installing("extract", to)
           /\ UNCHANGED <<env, image, count>>

\* What a write leaves, if anything: its content, or part of it.
Written == {package.content, "bad"}

\* A package need not have a boot part.
WriteBoot ==
  /\ Installing("write_boot", "write_root")
  /\ Overwrite("boot", IF package.hasBoot THEN Written ELSE {})
  /\ UNCHANGED <<env, count>>

WriteRoot == /\ Installing("write_root", "set_boot_slot")
             /\ Overwrite("root", Written)
             /\ UNCHANGED <<env, count>>

\* fw_setenv boot_slot: another slot starts without attempts of its own, on the
\* count of the one before it; after a confirmation that count starts over.
SetSlot(slot) ==
  /\ env' = [env EXCEPT !.slot = slot]
  /\ IF slot = env.slot
     THEN UNCHANGED count
     ELSE tries' = 0 /\ inherited' = (env.ok = 0 /\ env.attempt < BootLimit)

\* fw_setenv boot_attempt 3
SetAttempts == /\ env' = [env EXCEPT !.attempt = 3]
               /\ tries' = 0 /\ inherited' = FALSE

\* Three calls of fw_setenv, each only if the one before succeeded.  A failure
\* is a warning and ends the installation like success.
SetBootSlot ==
  /\ \/ Installing("set_boot_slot", "set_boot_attempt") /\ SetSlot(target)
     \/ Installing("set_boot_slot", "idle") /\ UNCHANGED <<env, count>>
  /\ UNCHANGED image

SetBootAttempt ==
  /\ \/ Installing("set_boot_attempt", "set_boot_ok") /\ SetAttempts
     \/ Installing("set_boot_attempt", "idle") /\ UNCHANGED <<env, count>>
  /\ UNCHANGED image

SetBootOk ==
  /\ Installing("set_boot_ok", "idle")
  /\ env' \in {env, [env EXCEPT !.ok = 0]}
  /\ UNCHANGED <<image, count>>

Installer == \/ InstallStart \/ FormatBoot \/ FormatRoot \/ Extract \/ WriteBoot
             \/ WriteRoot \/ SetBootSlot \/ SetBootAttempt \/ SetBootOk

-----------------------------------------------------------------------------
(* bb_recovery_request, bb_recovery_reimage, bb_recovery_factory_reset *)

RequestRecovery ==
  /\ machine = "up" /\ env.recovery = 0
  /\ env' = [env EXCEPT !.recovery = 1]
  /\ UNCHANGED <<ram, machine, system, image, updater, history>>

\* The operator of the recovery system re-images the partitions of a slot that
\* does not work: formatted first, then written, or not.
Reimage ==
  /\ machine = "recovery" /\ reset = "idle"
  /\ \E s \in Slots, part \in {"boot", "root"}, content \in {"good", "empty"} :
       /\ ~Good(s)
       /\ image' = [image EXCEPT ![s][part] = content]
  /\ UNCHANGED <<firmware, machine, system, updater, history>>

\* The factory reset overwrites both root partitions, good or not.
ResetStart ==
  /\ machine = "recovery" /\ reset = "idle" /\ installs < MaxInstalls
  /\ reset' = "root_a"
  /\ forced' = TRUE /\ installs' = installs + 1
  /\ UNCHANGED <<firmware, machine, system, image, install, package, target, count, losses>>

\* It moves on, whatever has failed.
Resetting(from, to) ==
  /\ machine = "recovery" /\ reset = from /\ reset' = to
  /\ UNCHANGED <<ram, machine, system, install, package, target, forced, installs, losses>>

\* dd of a factory image that may be missing, or may not fit what is left on the
\* boot partition.
ResetRoot(s, from, to) ==
  /\ Resetting(from, to)
  /\ \/ UNCHANGED image
     \/ \E content \in {"good", "bad"} : image' = [image EXCEPT ![s].root = content]
  /\ UNCHANGED <<env, count>>

\* Each of its four calls of fw_setenv may fail.
ResetEnv ==
  /\ \/ Resetting("boot_slot", "boot_attempt") /\ SetSlot("a")
     \/ Resetting("boot_attempt", "boot_ok") /\ SetAttempts
     \/ /\ Resetting("boot_ok", "recovery_mode")
        /\ env' = [env EXCEPT !.ok = 0] /\ UNCHANGED count
     \/ /\ Resetting("recovery_mode", "idle")
        /\ env' = [env EXCEPT !.recovery = 0] /\ UNCHANGED count
     \/ /\ \/ Resetting("boot_slot", "boot_attempt") \/ Resetting("boot_attempt", "boot_ok")
           \/ Resetting("boot_ok", "recovery_mode") \/ Resetting("recovery_mode", "idle")
        /\ UNCHANGED <<env, count>>
  /\ UNCHANGED image

\* Its last steps, the formatting of two partitions, are not of the boot scheme.
FactoryReset == \/ ResetStart
                \/ ResetRoot("a", "root_a", "root_b") \/ ResetRoot("b", "root_b", "boot_slot")
                \/ ResetEnv

-----------------------------------------------------------------------------
(* Power *)

Down == /\ machine' = "off" /\ install' = "idle" /\ reset' = "idle"
        /\ package' = NoPackage /\ target' = "a"
        /\ UNCHANGED <<firmware, system, image, count, forced, installs>>

PowerLoss == /\ machine # "off" /\ losses < MaxPowerLosses
             /\ losses' = losses + 1
             /\ Down

\* An orderly restart of a system, and somebody who resets a board at the prompt.
Restart == /\ machine \in {"up", "recovery"} /\ install = "idle" /\ reset = "idle"
           /\ Down /\ UNCHANGED losses

ResetAtPrompt == /\ machine = "prompt"
                 /\ Down /\ UNCHANGED losses

-----------------------------------------------------------------------------
Next == \/ UBoot \/ ConfirmOk \/ ConfirmAttempts \/ Installer
        \/ RequestRecovery \/ Reimage \/ FactoryReset
        \/ PowerLoss \/ Restart \/ ResetAtPrompt

\* U-Boot runs when there is power.  Nothing else need ever happen: in particular
\* nobody need reset a board that stands at the prompt.
Spec == Init /\ [][Next]_vars /\ WF_vars(UBoot)

-----------------------------------------------------------------------------
(* Correctness *)

EnvType == [slot : Slots \cup {"c", "recovery"}, ok : {0, 1}, attempt : Nat, recovery : {0, 1}]
Contents == {"good", "bad", "empty"}

TypeOK ==
  /\ env \in EnvType /\ ram \in EnvType
  /\ machine \in {"off", "slot_check", "ok_check", "select", "up", "recovery", "prompt"}
  /\ booted \in Slots /\ cmdline \in Slots \cup {"recovery"}
  /\ service \in {"started", "confirmed", "done"}
  /\ image \in [Slots -> [boot : Contents, root : Contents]]
  /\ install \in {"idle", "format_boot", "format_root", "extract", "write_boot",
                  "write_root", "set_boot_slot", "set_boot_attempt", "set_boot_ok"}
  /\ package \in [content : {"good", "bad"}, slot : {"=", "a", "b", "c"}, hasBoot : BOOLEAN]
  /\ target \in Slots \cup {"c"} /\ recoveryWorks \in BOOLEAN
  /\ reset \in {"idle", "root_a", "root_b", "boot_slot", "boot_attempt", "boot_ok",
                "recovery_mode"}
  /\ tries \in 0 .. BootLimit + 1 /\ inherited \in BOOLEAN /\ forced \in BOOLEAN
  /\ installs \in 0 .. MaxInstalls /\ losses \in 0 .. MaxPowerLosses

\* Whatever fails, and whenever power is lost, one slot can still boot, and a
\* system that runs does not lose the partitions it runs from, unless a package
\* was installed over the running system or a factory reset begun.
SomeSlotBoots ==
  ~forced => /\ \E s \in Slots : Good(s)
             /\ machine = "up" => Good(booted)

\* "Max attempts per slot": a slot that is never confirmed is tried at most
\* boot_limit times in a row (while the recovery flag does not reset the count
\* at every boot).
AttemptsBounded == env.recovery = 0 => tries <= BootLimit

\* A slot is not given up early: U-Boot moves on only after boot_limit - 1 attempts
\* on this slot without a confirmation, whatever fw_setenv calls were cut short.
\* The one exception: of a system that was not confirmed yet, fw_setenv boot_slot
\* took effect and boot_attempt did not.  Then the new slot inherits what the old
\* one had left, and may be given up untried.
GivenUpLate ==
  [][machine = "ok_check" /\ ram'.slot # ram.slot /\ ~inherited
       => tries >= BootLimit - 1]_vars

\* A board that is switched on comes up, in a slot that works or in recovery,
\* from every environment and every content an interrupted update or factory
\* reset can leave, unless nothing works (with the recovery flag set it may retry
\* a broken slot a for ever), or ends at the prompt and is left there: when the
\* boot partition of its slot is empty the script just ends, whatever the other
\* slot holds, and the attempts that remain are counted only if somebody resets it.
ComesUp ==
  \/ <>[](machine = "prompt")
  \/ (machine = "off" /\ env.recovery = 0)
        ~> \/ machine \in {"up", "recovery"}
           \/ ~recoveryWorks /\ \A s \in Slots : ~Good(s)

\* "Both slots failed! Entering recovery mode."
RecoveryIsLast == machine = "recovery" => \A s \in Slots : ~Good(s)
=============================================================================
