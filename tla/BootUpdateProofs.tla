-------------------------- MODULE BootUpdateProofs --------------------------
(***************************************************************************)
(* Proofs about the A/B boot scheme, for every number of installations and *)
(* power losses.                                                           *)
(*                                                                         *)
(* The partitions: the running slot is good and is never the target of an  *)
(* installer, so that every step of an installation leaves it alone.  The  *)
(* counter: what has been tried and what is left add up to boot_limit, or  *)
(* one more, in the environment on the eMMC, at every point where power    *)
(* can fail; they add up to less only for a slot that inherited its count, *)
(* from a system that was not confirmed.  For that the 3 that              *)
(* bb_update_install writes must not exceed what boot_limit and the        *)
(* comparison with 1 make of it: the upper bound needs boot_limit >= 2,    *)
(* the lower one boot_limit <= 3.  A factory reset                         *)
(* writes the same 3, and runs only when the flag that asks for the        *)
(* recovery system is not set, since with it U-Boot never gets there.      *)
(***************************************************************************)
EXTENDS BootUpdate, TLAPS

\* The installer runs in a running system, and works on the other slot.
SlotInv ==
  /\ install # "idle" => machine = "up"
  /\ reset # "idle" => machine = "recovery" /\ forced
  /\ machine = "up" => cmdline = booted \/ (cmdline = "recovery" /\ booted = "b")
  /\ ~forced => /\ \E s \in Slots : Good(s)
                /\ machine = "up" => Good(booted)
                /\ install # "idle" => Part(target) # booted

\* U-Boot's copy differs from the environment only by the recovery request, and
\* that leads to slot a: the recovery system runs only without a request.
RamInv ==
  /\ machine \in {"slot_check", "ok_check"} =>
       /\ ram.ok = env.ok /\ ram.attempt = env.attempt /\ ram.recovery = env.recovery
       /\ ram.slot = env.slot \/ (ram.slot = "recovery" /\ machine = "slot_check")
       /\ env.recovery = 0 => ram.slot = env.slot
       /\ env.recovery = 1 => ram.slot = IF machine = "slot_check" THEN "recovery" ELSE "a"
       /\ machine = "ok_check" => ram.slot \in Slots
  /\ machine \in {"select", "recovery"} => env.ok = 0
  /\ machine = "select" => env.recovery = 0 \/ ram.slot \in Slots
  /\ machine = "recovery" => env.recovery = 0

\* What is left of the attempts, and what was used.
CountInv ==
  /\ machine = "up" /\ service = "confirmed" => tries = 0
  /\ BootLimit >= 2 =>
       env.attempt >= 1 /\ (env.recovery = 0 => tries + env.attempt <= BootLimit + 1)
  /\ BootLimit <= 3 =>
       /\ env.ok = 0 /\ ~inherited => tries + env.attempt >= BootLimit
       /\ install = "set_boot_ok" => env.attempt >= BootLimit

\* The parts of TypeOK.
EnvTypes == env \in EnvType /\ ram \in EnvType

ImageTypes == image \in [Slots -> [boot : Contents, root : Contents]]

PackageTypes ==
  /\ package \in [content : {"good", "bad"}, slot : {"=", "a", "b", "c"}, hasBoot : BOOLEAN]
  /\ forced \in BOOLEAN /\ recoveryWorks \in BOOLEAN /\ inherited \in BOOLEAN

StateTypes ==
  /\ machine \in {"off", "slot_check", "ok_check", "select", "up", "recovery", "prompt"}
  /\ booted \in Slots /\ cmdline \in Slots \cup {"recovery"}
  /\ service \in {"started", "confirmed", "done"}
  /\ install \in {"idle", "format_boot", "format_root", "extract", "write_boot",
                  "write_root", "set_boot_slot", "set_boot_attempt", "set_boot_ok"}
  /\ target \in Slots \cup {"c"}
  /\ reset \in {"idle", "root_a", "root_b", "boot_slot", "boot_attempt", "boot_ok",
                "recovery_mode"}
  /\ tries \in 0 .. BootLimit + 1
  /\ installs \in 0 .. MaxInstalls /\ losses \in 0 .. MaxPowerLosses

IInv == EnvTypes /\ ImageTypes /\ PackageTypes /\ StateTypes /\ SlotInv /\ RamInv /\ CountInv

-----------------------------------------------------------------------------
\* The initial states satisfy the invariant.
LEMMA InitIInv == Init => IInv
<1>. SUFFICES ASSUME Init PROVE IInv
  OBVIOUS
<1>. USE BootAssumption DEF Init
<1>1. EnvTypes
  BY DEF EnvTypes, EnvType, Slots
<1>2. ImageTypes
  <2>1. {Works, [boot |-> "empty", root |-> "empty"]} \subseteq [boot : Contents, root : Contents]
    BY DEF Works, Contents
  <2>2. image \in [Slots -> {Works, [boot |-> "empty", root |-> "empty"]}]
    BY Zenon
  <2>. QED BY <2>1, <2>2 DEF ImageTypes
<1>3. PackageTypes /\ StateTypes
  <2>1. PackageTypes
    <3>1. recoveryWorks \in BOOLEAN
      BY RecoveryAssumption, Zenon
    <3>2. package \in [content : {"good", "bad"}, slot : {"=", "a", "b", "c"}, hasBoot : BOOLEAN]
      BY DEF NoPackage
    <3>. QED BY <3>1, <3>2, Zenon DEF PackageTypes
  <2>2. StateTypes
    BY DEF StateTypes, Slots
  <2>. QED BY <2>1, <2>2
<1>4. SlotInv
  BY DEF SlotInv, Slots
<1>5. RamInv /\ CountInv
  BY DEF RamInv, CountInv
<1>. QED BY <1>1, <1>2, <1>3, <1>4, <1>5 DEF IInv

-----------------------------------------------------------------------------
(* U-Boot's steps leave the partitions alone. *)

\* Part 2 may only turn the slot into recovery.
LEMMA LoadEnvStep == ASSUME IInv, LoadEnv PROVE IInv'
<1>. USE DEF IInv
<1>1. /\ machine' = "slot_check"
      /\ UNCHANGED <<env, booted, cmdline, service, recoveryWorks, reset, image, install,
                     package, target, tries, inherited, forced, installs, losses>>
      /\ machine = "off"
  BY DEF LoadEnv, system, updater, history, count
<1>2. /\ ram' \in EnvType
      /\ ram'.ok = env.ok /\ ram'.attempt = env.attempt /\ ram'.recovery = env.recovery
      /\ ram'.slot = env.slot \/ ram'.slot = "recovery"
      /\ env.recovery = 0 => ram'.slot = env.slot
      /\ env.recovery = 1 => ram'.slot = "recovery"
  <2>1. CASE env.recovery = 1
    <3>1. ram' = [env EXCEPT !.slot = "recovery"]
      BY <2>1 DEF LoadEnv
    <3>. QED BY <2>1, <3>1 DEF EnvTypes, EnvType
  <2>2. CASE env.recovery # 1
    <3>1. ram' = env
      BY <2>2 DEF LoadEnv
    <3>. QED BY <2>2, <3>1 DEF EnvTypes
  <2>. QED BY <2>1, <2>2
<1>3. EnvTypes' /\ ImageTypes' /\ PackageTypes' /\ StateTypes'
  BY <1>1, <1>2 DEF EnvTypes, ImageTypes, PackageTypes, StateTypes
<1>4. SlotInv'
  BY <1>1 DEF SlotInv, Good
<1>5. RamInv' /\ CountInv'
  BY <1>1, <1>2 DEF RamInv, CountInv, SlotInv
<1>. QED BY <1>3, <1>4, <1>5

\* An invalid slot starts the count anew.
LEMMA SlotCheckStep == ASSUME IInv, SlotCheck PROVE IInv'
<1>. USE BootAssumption DEF IInv
<1>1. /\ machine = "slot_check" /\ machine' = "ok_check"
      /\ UNCHANGED <<booted, cmdline, service, recoveryWorks, reset, image, install,
                     package, target, forced, installs, losses>>
      /\ tries' = IF ram'.slot = env.slot THEN tries ELSE 0
      /\ inherited' = (inherited /\ ram.slot \in Slots)
  BY DEF SlotCheck, system, updater
<1>2. CASE ram.slot \in Slots /\ UNCHANGED firmware
  <2>1. tries' = tries /\ inherited' = inherited /\ UNCHANGED <<env, ram>>
    <3>1. UNCHANGED <<env, ram>> /\ ram.slot = env.slot
      BY <1>1, <1>2 DEF RamInv, Slots, firmware
    <3>2. inherited \in BOOLEAN
      BY DEF PackageTypes
    <3>. QED BY <1>1, <1>2, <3>1, <3>2
  <2>2. EnvTypes' /\ ImageTypes' /\ PackageTypes' /\ StateTypes'
    BY <1>1, <2>1 DEF EnvTypes, ImageTypes, PackageTypes, StateTypes
  <2>3. SlotInv' /\ RamInv' /\ CountInv'
    BY <1>1, <1>2, <2>1 DEF SlotInv, Good, RamInv, CountInv, Slots
  <2>. QED BY <2>2, <2>3
<1>3. CASE ram.slot \notin Slots
  <2>1. ram' = [ram EXCEPT !.slot = "a", !.attempt = BootLimit, !.ok = 0] /\ env' = ram'
    BY <1>3 DEF SlotCheck
  <2>2. /\ ram' \in EnvType /\ ram'.slot = "a" /\ ram'.ok = 0 /\ ram'.attempt = BootLimit
        /\ ram'.recovery = ram.recovery
    BY <2>1 DEF EnvTypes, EnvType, Slots
  <2>3. tries' \in 0 .. BootLimit + 1 /\ (env.recovery = 0 => tries' = 0) /\ ~inherited'
    <3>1. env.recovery = 0 => ram'.slot # env.slot
      BY <1>1, <1>3, <2>2 DEF RamInv, Slots
    <3>2. tries' = 0 \/ tries' = tries
      BY <1>1
    <3>3. ~inherited'
      BY <1>1, <1>3
    <3>. QED BY <1>1, <3>1, <3>2, <3>3 DEF StateTypes
  <2>4. EnvTypes' /\ ImageTypes' /\ PackageTypes' /\ StateTypes'
    BY <1>1, <2>1, <2>2, <2>3 DEF EnvTypes, ImageTypes, PackageTypes, StateTypes
  <2>5. SlotInv'
    BY <1>1 DEF SlotInv, Good
  <2>6. RamInv' /\ CountInv'
    BY <1>1, <2>1, <2>2, <2>3 DEF SlotInv, RamInv, CountInv, Slots
  <2>. QED BY <2>4, <2>5, <2>6
<1>. QED BY <1>2, <1>3 DEF SlotCheck

\* What part 4 leaves in each of its three branches.
LEMMA OkCheckCases ==
  ASSUME IInv, OkCheck
  PROVE  /\ env' = ram' /\ ram' \in EnvType /\ tries' \in 0 .. BootLimit + 1
         /\ ram'.ok = 0 /\ ram'.recovery = env.recovery
         /\ \/ ram'.attempt = BootLimit /\ tries' = 1 /\ ~inherited'
            \/ /\ ram.ok = 0 /\ ram'.slot = ram.slot /\ inherited' = inherited
               /\ ram.attempt > 1 /\ ram'.attempt = ram.attempt - 1
               /\ tries' = IF tries > BootLimit THEN tries ELSE tries + 1
         /\ ram'.slot # ram.slot => ram.ok = 0 /\ ram.attempt <= 1
         /\ env.recovery = 0 \/ ram'.slot \in Slots
<1>. USE DEF IInv
<1>1. /\ ram \in EnvType /\ ram.slot \in Slots /\ ram.recovery = env.recovery
      /\ BootLimit \in Nat /\ tries \in 0 .. BootLimit + 1 /\ env' = ram'
  BY BootAssumption DEF EnvTypes, StateTypes, RamInv, OkCheck
<1>2. CASE GiveUp
  <2>1. /\ NextSlot \in Slots \cup {"recovery"} /\ NextSlot # ram.slot
        /\ env.recovery = 1 => NextSlot \in Slots
    BY <1>1 DEF Slots, NextSlot, RamInv, OkCheck
  <2>2. /\ ram' \in EnvType /\ ram'.slot = NextSlot /\ ram'.attempt = BootLimit
        /\ ram'.ok = ram.ok /\ ram'.recovery = ram.recovery
    BY <1>1, <1>2, <2>1 DEF GiveUp, EnvType
  <2>3. tries' = 1 /\ ~inherited'
    BY <2>1, <2>2 DEF OkCheck, Counted, Attempt
  <2>. QED BY <1>1, <1>2, <2>1, <2>2, <2>3 DEF GiveUp, EnvType
<1>3. CASE Retry
  <2>1. /\ ram' \in EnvType /\ ram'.slot = ram.slot /\ ram'.attempt = ram.attempt - 1
        /\ ram'.ok = ram.ok /\ ram'.recovery = ram.recovery
    BY <1>1, <1>3 DEF Retry, EnvType
  <2>2. tries' = IF tries > BootLimit THEN tries ELSE tries + 1
    BY <1>3, <2>1 DEF Retry, OkCheck, Counted, Attempt
  <2>3. inherited' = inherited
    BY <1>3, <2>1 DEF Retry, OkCheck, Counted, PackageTypes
  <2>. QED BY <1>1, <1>3, <2>1, <2>2, <2>3 DEF Retry
<1>4. CASE StartOver
  <2>1. /\ ram' \in EnvType /\ ram'.slot = ram.slot /\ ram'.attempt = BootLimit
        /\ ram'.ok = 0 /\ ram'.recovery = ram.recovery
    BY <1>1, <1>4 DEF StartOver, EnvType
  <2>2. tries' = 1 /\ ~inherited'
    BY <1>4 DEF StartOver, OkCheck, Counted, Attempt
  <2>. QED BY <1>1, <2>1, <2>2
<1>. QED BY <1>1, <1>2, <1>3, <1>4 DEF OkCheck, EnvType

\* An attempt moves from what is left to what was tried.
LEMMA OkCheckStep == ASSUME IInv, OkCheck PROVE IInv'
<1>. USE BootAssumption DEF IInv
<1>1. /\ machine = "ok_check" /\ machine' = "select"
      /\ UNCHANGED <<booted, cmdline, service, recoveryWorks, reset, image, install,
                     package, target, forced, installs, losses>>
  BY DEF OkCheck, system, updater
<1>2. EnvTypes' /\ ImageTypes' /\ StateTypes'
  BY <1>1, OkCheckCases DEF EnvTypes, ImageTypes, StateTypes
<1>3. SlotInv' /\ PackageTypes'
  <2>1. inherited' \in BOOLEAN
    BY DEF OkCheck, Counted
  <2>. QED BY <1>1, <2>1 DEF SlotInv, Good, PackageTypes
<1>4. RamInv'
  BY <1>1, OkCheckCases DEF RamInv
<1>5. CountInv'
  BY <1>1, OkCheckCases DEF SlotInv, RamInv, CountInv, EnvTypes, EnvType, StateTypes
<1>. QED BY <1>2, <1>3, <1>4, <1>5

\* A system comes up only in a slot that works.
LEMMA StartSlotStep ==
  ASSUME IInv, NEW s \in Slots, StartSlot(s), machine = "select",
         ram.slot = s \/ (ram.slot = "recovery" /\ s = "b"),
         UNCHANGED <<firmware, image, updater, history>>
  PROVE  IInv'
<1>. USE DEF IInv, StartSlot, firmware, updater, history, count
<1>1. EnvTypes' /\ ImageTypes' /\ PackageTypes' /\ StateTypes'
  BY DEF EnvTypes, ImageTypes, PackageTypes, StateTypes, Slots
<1>2. SlotInv'
  BY DEF SlotInv, Good, Slots
<1>3. RamInv' /\ CountInv'
  BY DEF RamInv, CountInv
<1>. QED BY <1>1, <1>2, <1>3 DEF IInv

\* The steps of the script.
LEMMA UBootStep == ASSUME IInv, UBoot PROVE IInv'
<1>1. CASE BootRecovery
  <2>1. CASE machine' = "recovery" /\ UNCHANGED system
    <3>. USE <1>1, <2>1 DEF BootRecovery, IInv, firmware, system, updater, history, count
    <3>1. EnvTypes' /\ ImageTypes' /\ PackageTypes' /\ StateTypes'
      BY DEF EnvTypes, ImageTypes, PackageTypes, StateTypes
    <3>2. SlotInv' /\ CountInv'
      BY DEF SlotInv, CountInv, Good
    <3>3. RamInv'
      BY DEF RamInv, Slots
    <3>. QED BY <3>1, <3>2, <3>3
  <2>2. CASE StartSlot("b")
    BY <1>1, <2>2, StartSlotStep DEF BootRecovery, Slots
  <2>. QED BY <1>1, <2>1, <2>2 DEF BootRecovery
<1>2. CASE BootSlot
  BY <1>2, StartSlotStep DEF BootSlot
<1>. QED BY <1>1, <1>2, LoadEnvStep, SlotCheckStep, OkCheckStep DEF UBoot

-----------------------------------------------------------------------------
(* User space *)

\* The boot-ok service ends the count.
LEMMA ServiceStep == ASSUME IInv, ConfirmOk \/ ConfirmAttempts PROVE IInv'
<1>. USE BootAssumption DEF IInv
<1>1. /\ machine = "up"
      /\ UNCHANGED <<ram, machine, booted, cmdline, recoveryWorks, reset, image, install,
                     package, target, forced, installs, losses>>
      /\ inherited' = FALSE
  BY DEF ConfirmOk, ConfirmAttempts, updater
<1>2. SlotInv' /\ RamInv' /\ ImageTypes' /\ PackageTypes'
  BY <1>1 DEF SlotInv, RamInv, ImageTypes, PackageTypes, Good
<1>3. CASE ConfirmOk
  <2>1. env' = [env EXCEPT !.ok = 1] /\ service' = "confirmed" /\ tries' = 0
    BY <1>3 DEF ConfirmOk
  <2>2. env' \in EnvType /\ env'.ok = 1 /\ env'.attempt = env.attempt
        /\ env'.recovery = env.recovery
    BY <2>1 DEF EnvTypes, EnvType
  <2>3. EnvTypes' /\ StateTypes' /\ CountInv'
    BY <1>1, <2>1, <2>2 DEF EnvTypes, EnvType, StateTypes, CountInv
  <2>. QED BY <1>2, <2>3
<1>4. CASE ConfirmAttempts
  <2>1. /\ env' = [env EXCEPT !.attempt = BootLimit] /\ service' = "done"
        /\ service = "confirmed" /\ tries' = tries
    BY <1>4 DEF ConfirmAttempts
  <2>2. env' \in EnvType /\ env'.attempt = BootLimit
    BY <2>1 DEF EnvTypes, EnvType
  <2>3. EnvTypes' /\ StateTypes' /\ CountInv'
    BY <1>1, <2>1, <2>2 DEF EnvTypes, StateTypes, CountInv
  <2>. QED BY <1>2, <2>3
<1>. QED BY <1>3, <1>4

\* The slot the installer chooses does not run, unless the package insists.
LEMMA InstallStartStep == ASSUME IInv, InstallStart PROVE IInv'
<1>. USE DEF IInv
<1>1. /\ machine = "up" /\ install = "idle" /\ install' = "format_boot"
      /\ installs < MaxInstalls /\ installs' = installs + 1
      /\ forced' = (forced \/ (package'.slot # "=" /\ Part(package'.slot) = booted))
      /\ UNCHANGED <<env, ram, machine, booted, cmdline, service, recoveryWorks, reset,
                     image, tries, inherited, losses>>
  BY DEF InstallStart, firmware, system, count
<1>2. package' \in [content : {"good", "bad"}, slot : {"=", "a", "b", "c"}, hasBoot : BOOLEAN]
  BY PackageAssumption DEF InstallStart, Packages
<1>3. target' \in Slots \cup {"c"} /\ (~forced' => Part(target') # booted)
  <2>1. target' = IF package'.slot = "=" THEN IF cmdline = "a" THEN "b" ELSE "a"
                                         ELSE package'.slot
    BY DEF InstallStart, TargetSlot, Opposite
  <2>. QED BY <1>1, <1>2, <2>1 DEF SlotInv, StateTypes, Slots, Part
<1>4. EnvTypes' /\ ImageTypes'
  BY <1>1 DEF EnvTypes, ImageTypes
<1>5. PackageTypes' /\ StateTypes'
  <2>1. PackageTypes'
    BY <1>1, <1>2 DEF PackageTypes
  <2>2. StateTypes'
    BY <1>1, <1>3, BootAssumption DEF StateTypes
  <2>. QED BY <2>1, <2>2
<1>6. SlotInv'
  BY <1>1, <1>3 DEF SlotInv, Good, StateTypes
<1>7. RamInv' /\ CountInv'
  BY <1>1 DEF RamInv, CountInv
<1>. QED BY <1>4, <1>5, <1>6, <1>7

\* At its end the installer forgets the package.
LEMMA InstallingTypes ==
  ASSUME IInv, NEW from, NEW to, Installing(from, to)
  PROVE  /\ package' \in [content : {"good", "bad"}, slot : {"=", "a", "b", "c"},
                          hasBoot : BOOLEAN]
         /\ target' \in Slots \cup {"c"}
         /\ to # "idle" => target' = target
BY DEF Installing, NoPackage, IInv, PackageTypes, StateTypes, Slots

\* A step of the installer that changes at most the content of the target.
LEMMA WriteStep ==
  ASSUME IInv, NEW from, NEW to, Installing(from, to), from # "idle",
         to \in {"idle", "format_root", "extract", "write_boot", "write_root",
                 "set_boot_slot"},
         UNCHANGED <<env, count>>, ImageTypes',
         \A s \in Slots \ {Part(target)} : image'[s] = image[s]
  PROVE  IInv'
<1>. USE DEF IInv, Installing, system, count
<1>1. EnvTypes' /\ PackageTypes' /\ StateTypes'
  BY InstallingTypes DEF EnvTypes, PackageTypes, StateTypes
<1>2. SlotInv'
  <2>1. to # "idle" => target' = target
    BY InstallingTypes
  <2>. QED BY <2>1 DEF SlotInv, Good, StateTypes, Slots
<1>3. RamInv' /\ CountInv'
  BY DEF RamInv, CountInv
<1>. QED BY <1>1, <1>2, <1>3

\* What a write to one part of the partitions of a slot leaves.
LEMMA WrittenImage ==
  ASSUME ImageTypes, NEW t \in Slots, NEW content \in Contents,
         \/ image' = [image EXCEPT ![t].boot = content]
         \/ image' = [image EXCEPT ![t].root = content]
  PROVE  ImageTypes' /\ \A s \in Slots \ {t} : image'[s] = image[s]
BY DEF ImageTypes

\* A command that may fail writes to the target's partitions only.
LEMMA OverwrittenImage ==
  ASSUME ImageTypes, NEW part \in {"boot", "root"}, NEW contents \in SUBSET Contents,
         Overwrite(part, contents)
  PROVE  ImageTypes' /\ \A s \in Slots \ {Part(target)} : image'[s] = image[s]
<1>1. CASE UNCHANGED image
  BY <1>1 DEF ImageTypes
<1>2. CASE \E content \in contents : image' = [image EXCEPT ![Part(target)][part] = content]
  <2>1. PICK content \in contents : image' = [image EXCEPT ![Part(target)][part] = content]
    BY <1>2
  <2>2. Part(target) \in Slots /\ content \in Contents
    BY <2>1 DEF Part, Slots
  <2>3. CASE part = "boot"
    BY <2>1, <2>2, <2>3, WrittenImage
  <2>4. CASE part = "root"
    BY <2>1, <2>2, <2>4, WrittenImage
  <2>. QED BY <2>3, <2>4
<1>. QED BY <1>1, <1>2 DEF Overwrite

\* Another slot starts without attempts, and inherits the count only from a slot
\* that was not confirmed and had attempts missing.
LEMMA SetSlotCases ==
  ASSUME IInv, NEW slot \in Slots \cup {"c"}, SetSlot(slot)
  PROVE  /\ env' \in EnvType
         /\ env'.ok = env.ok /\ env'.attempt = env.attempt /\ env'.recovery = env.recovery
         /\ \/ tries' = tries /\ inherited' = inherited
            \/ tries' = 0 /\ inherited' = (env.ok = 0 /\ env.attempt < BootLimit)
<1>1. env' = [env EXCEPT !.slot = slot]
  BY DEF SetSlot
<1>2. /\ env' \in EnvType
      /\ env'.ok = env.ok /\ env'.attempt = env.attempt /\ env'.recovery = env.recovery
  BY <1>1 DEF IInv, EnvTypes, EnvType
<1>. QED BY <1>2 DEF SetSlot, count

\* fw_setenv keeps the environment an environment, and the count on its way.
LEMMA SetSlotCount ==
  ASSUME IInv, NEW slot \in Slots \cup {"c"}, SetSlot(slot)
  PROVE  /\ tries' \in 0 .. BootLimit + 1 /\ inherited' \in BOOLEAN
         /\ tries = 0 => tries' = 0
         /\ (BootLimit >= 2 /\ env.recovery = 0) => tries' + env.attempt <= BootLimit + 1
         /\ (BootLimit <= 3 /\ env.ok = 0 /\ ~inherited') => tries' + env.attempt >= BootLimit
<1>1. /\ BootLimit \in Nat /\ tries \in 0 .. BootLimit + 1 /\ env.attempt \in Nat
      /\ inherited \in BOOLEAN
  BY BootAssumption DEF IInv, EnvTypes, EnvType, PackageTypes, StateTypes
<1>2. CASE tries' = tries /\ inherited' = inherited
  BY <1>1, <1>2 DEF IInv, CountInv
<1>3. CASE tries' = 0 /\ inherited' = (env.ok = 0 /\ env.attempt < BootLimit)
  <2>1. tries' \in 0 .. BootLimit + 1 /\ (tries = 0 => tries' = 0)
    BY <1>1, <1>3
  <2>2. (BootLimit >= 2 /\ env.recovery = 0) => tries' + env.attempt <= BootLimit + 1
    BY <1>1, <1>3 DEF IInv, CountInv
  <2>3. (env.ok = 0 /\ ~inherited') => ~(env.attempt < BootLimit)
    BY <1>3
  <2>4. inherited' \in BOOLEAN
    BY <1>3
  <2>. QED BY <1>1, <1>3, <2>1, <2>2, <2>3, <2>4
<1>. QED BY <1>2, <1>3, SetSlotCases

LEMMA SetEnvStep ==
  ASSUME IInv, SetBootSlot \/ SetBootAttempt \/ SetBootOk PROVE IInv'
<1>. USE BootAssumption DEF IInv
<1>1. /\ machine = "up" /\ install # "idle"
      /\ install' \in {"set_boot_attempt", "set_boot_ok", "idle"}
      /\ UNCHANGED <<ram, machine, booted, cmdline, service, recoveryWorks, reset,
                     forced, installs, losses, image>>
  BY DEF SetBootSlot, SetBootAttempt, SetBootOk, Installing, system
<1>2. /\ package' \in [content : {"good", "bad"}, slot : {"=", "a", "b", "c"},
                       hasBoot : BOOLEAN]
      /\ target' \in Slots \cup {"c"}
      /\ install' # "idle" => target' = target
  BY InstallingTypes DEF SetBootSlot, SetBootAttempt, SetBootOk, Installing
<1>3. SlotInv' /\ RamInv' /\ ImageTypes'
  BY <1>1, <1>2 DEF SlotInv, RamInv, ImageTypes, Good
<1>4. CASE UNCHANGED <<env, count>> /\ install' # "set_boot_ok"
  <2>1. EnvTypes' /\ StateTypes' /\ CountInv'
    BY <1>1, <1>2, <1>4 DEF EnvTypes, StateTypes, CountInv, count
  <2>2. PackageTypes'
    BY <1>1, <1>2, <1>4 DEF PackageTypes, count
  <2>. QED BY <1>3, <2>1, <2>2
<1>5. CASE SetSlot(target) /\ install' # "set_boot_ok"
  <2>1. target \in Slots \cup {"c"}
    BY DEF StateTypes
  <2>2. /\ tries' \in 0 .. BootLimit + 1 /\ inherited' \in BOOLEAN
        /\ tries = 0 => tries' = 0
        /\ (BootLimit >= 2 /\ env.recovery = 0) => tries' + env.attempt <= BootLimit + 1
        /\ (BootLimit <= 3 /\ env.ok = 0 /\ ~inherited') => tries' + env.attempt >= BootLimit
    BY <1>5, <2>1, SetSlotCount
  <2>3. /\ env' \in EnvType
        /\ env'.ok = env.ok /\ env'.attempt = env.attempt /\ env'.recovery = env.recovery
    BY <1>5, <2>1, SetSlotCases
  <2>4. EnvTypes' /\ StateTypes'
    BY <1>1, <1>2, <2>2, <2>3 DEF EnvTypes, StateTypes
  <2>5. PackageTypes'
    BY <1>1, <1>2, <2>2 DEF PackageTypes
  <2>6. CountInv'
    BY <1>1, <1>5, <2>2, <2>3 DEF CountInv
  <2>. QED BY <1>3, <2>4, <2>5, <2>6
<1>6. CASE SetAttempts
  <2>1. env' \in EnvType /\ env'.attempt = 3 /\ tries' = 0 /\ inherited' = FALSE
    BY <1>6 DEF SetAttempts, EnvTypes, EnvType
  <2>2. EnvTypes' /\ StateTypes' /\ CountInv'
    BY <1>1, <1>2, <2>1 DEF EnvTypes, StateTypes, CountInv
  <2>3. PackageTypes'
    BY <1>1, <1>2, <2>1 DEF PackageTypes
  <2>. QED BY <1>3, <2>2, <2>3
<1>7. CASE SetBootOk
  <2>1. /\ env' = [env EXCEPT !.ok = 0] \/ env' = env
        /\ install = "set_boot_ok" /\ install' = "idle"
        /\ tries' = tries /\ inherited' = inherited
    BY <1>7 DEF SetBootOk, Installing, count
  <2>2. env' \in EnvType /\ env'.attempt = env.attempt /\ env'.recovery = env.recovery
    BY <2>1 DEF EnvTypes, EnvType
  <2>3. EnvTypes' /\ StateTypes' /\ CountInv'
    BY <1>1, <1>2, <2>1, <2>2 DEF EnvTypes, EnvType, StateTypes, CountInv
  <2>4. PackageTypes'
    BY <1>1, <1>2, <2>1 DEF PackageTypes
  <2>. QED BY <1>3, <2>3, <2>4
<1>. QED BY <1>4, <1>5, <1>6, <1>7 DEF SetBootSlot, SetBootAttempt, Installing

\* The steps of bb_update_install.
LEMMA InstallerStep == ASSUME IInv, Installer PROVE IInv'
<1>1. ImageTypes /\ package.content \in Contents /\ "empty" \in Contents
  BY DEF IInv, PackageTypes, Contents
<1>2. Written \subseteq Contents
  BY <1>1 DEF Written, Contents
<1>3. CASE FormatBoot
  <2>1. ImageTypes' /\ \A s \in Slots \ {Part(target)} : image'[s] = image[s]
    BY <1>1, <1>3, OverwrittenImage DEF FormatBoot
  <2>. QED BY <1>3, <2>1, WriteStep DEF FormatBoot
<1>4. CASE FormatRoot
  <2>1. ImageTypes' /\ \A s \in Slots \ {Part(target)} : image'[s] = image[s]
    BY <1>1, <1>4, OverwrittenImage DEF FormatRoot
  <2>. QED BY <1>4, <2>1, WriteStep DEF FormatRoot
<1>5. CASE Extract
  BY <1>1, <1>5, WriteStep DEF Extract, ImageTypes
<1>6. CASE WriteBoot
  <2>1. Overwrite("boot", IF package.hasBoot THEN Written ELSE {})
    BY <1>6 DEF WriteBoot
  <2>2. ImageTypes' /\ \A s \in Slots \ {Part(target)} : image'[s] = image[s]
    BY <1>1, <1>2, <2>1, OverwrittenImage
  <2>. QED BY <1>6, <2>2, WriteStep DEF WriteBoot
<1>7. CASE WriteRoot
  <2>1. ImageTypes' /\ \A s \in Slots \ {Part(target)} : image'[s] = image[s]
    BY <1>1, <1>2, <1>7, OverwrittenImage DEF WriteRoot
  <2>. QED BY <1>7, <2>1, WriteStep DEF WriteRoot
<1>. QED
  BY <1>3, <1>4, <1>5, <1>6, <1>7, InstallStartStep, SetEnvStep DEF Installer

\* The flag ends the bound on the attempts, and nothing else.
LEMMA RequestStep == ASSUME IInv, RequestRecovery PROVE IInv'
<1>. USE DEF IInv
<1>1. /\ machine = "up" /\ env' = [env EXCEPT !.recovery = 1]
      /\ UNCHANGED <<ram, machine, booted, cmdline, service, recoveryWorks, reset, image,
                     install, package, target, tries, inherited, forced, installs, losses>>
  BY DEF RequestRecovery, system, updater, history, count
<1>2. /\ env' \in EnvType /\ env'.recovery = 1
      /\ env'.ok = env.ok /\ env'.attempt = env.attempt
  BY <1>1 DEF EnvTypes, EnvType
<1>3. EnvTypes' /\ ImageTypes' /\ PackageTypes' /\ StateTypes'
  BY <1>1, <1>2 DEF EnvTypes, ImageTypes, PackageTypes, StateTypes
<1>4. SlotInv'
  BY <1>1 DEF SlotInv, Good
<1>5. RamInv' /\ CountInv'
  BY <1>1, <1>2 DEF RamInv, CountInv
<1>. QED BY <1>3, <1>4, <1>5

\* The recovery system re-images only slots that do not work.
LEMMA ReimageStep == ASSUME IInv, Reimage PROVE IInv'
<1>. USE DEF IInv
<1>1. /\ machine = "recovery"
      /\ UNCHANGED <<env, ram, machine, booted, cmdline, service, recoveryWorks, reset,
                     install, package, target, tries, inherited, forced, installs, losses>>
  BY DEF Reimage, firmware, system, updater, history, count
<1>2. PICK t \in Slots, content \in Contents :
        /\ ~Good(t)
        /\ \/ image' = [image EXCEPT ![t].boot = content]
           \/ image' = [image EXCEPT ![t].root = content]
  <2>1. PICK s \in Slots, part \in {"boot", "root"}, content \in {"good", "empty"} :
          ~Good(s) /\ image' = [image EXCEPT ![s][part] = content]
    BY DEF Reimage
  <2>2. content \in Contents
    BY DEF Contents
  <2>3. CASE part = "boot"
    BY <2>1, <2>2, <2>3
  <2>4. CASE part = "root"
    BY <2>1, <2>2, <2>4
  <2>. QED BY <2>3, <2>4
<1>3. ImageTypes' /\ \A s \in Slots \ {t} : image'[s] = image[s]
  BY <1>2, WrittenImage
<1>4. EnvTypes' /\ PackageTypes' /\ StateTypes'
  BY <1>1 DEF EnvTypes, PackageTypes, StateTypes
<1>5. SlotInv'
  BY <1>1, <1>2, <1>3 DEF SlotInv, Good
<1>6. RamInv' /\ CountInv'
  BY <1>1 DEF RamInv, CountInv
<1>. QED BY <1>3, <1>4, <1>5, <1>6

\* A factory reset has no slot to spare, but counts like an installation.
LEMMA ResetStep == ASSUME IInv, FactoryReset PROVE IInv'
<1>. USE BootAssumption DEF IInv
<1>1. /\ machine = "recovery" /\ forced'
      /\ reset' \in {"idle", "root_a", "root_b", "boot_slot", "boot_attempt", "boot_ok",
                     "recovery_mode"}
      /\ installs' \in 0 .. MaxInstalls
      /\ UNCHANGED <<ram, machine, booted, cmdline, service, recoveryWorks, install,
                     package, target, losses>>
  BY DEF FactoryReset, ResetStart, ResetRoot, ResetEnv, Resetting, system, firmware, SlotInv,
     StateTypes
<1>2. /\ env.recovery = 0 /\ env.ok = 0 /\ env \in EnvType
      /\ tries \in 0 .. BootLimit + 1 /\ BootLimit \in Nat /\ inherited \in BOOLEAN
  BY <1>1 DEF RamInv, EnvTypes, StateTypes, PackageTypes
<1>3. /\ env' \in EnvType /\ env'.recovery = 0 /\ env'.ok = 0
      /\ tries' \in 0 .. BootLimit + 1 /\ inherited' \in BOOLEAN
      /\ BootLimit >= 2 => env'.attempt >= 1 /\ tries' + env'.attempt <= BootLimit + 1
      /\ (BootLimit <= 3 /\ ~inherited') => tries' + env'.attempt >= BootLimit
  <2>1. CASE env' \in EnvType /\ env'.attempt = env.attempt /\ env'.recovery = 0
             /\ env'.ok = 0 /\ UNCHANGED count
    BY <1>2, <2>1 DEF CountInv, count
  <2>2. CASE SetSlot("a")
    <3>1. "a" \in Slots \cup {"c"}
      BY DEF Slots
    <3>2. /\ env' \in EnvType
          /\ env'.ok = env.ok /\ env'.attempt = env.attempt /\ env'.recovery = env.recovery
      BY <2>2, <3>1, SetSlotCases
    <3>3. /\ tries' \in 0 .. BootLimit + 1 /\ inherited' \in BOOLEAN
          /\ (BootLimit >= 2 /\ env.recovery = 0) => tries' + env.attempt <= BootLimit + 1
          /\ (BootLimit <= 3 /\ env.ok = 0 /\ ~inherited')
               => tries' + env.attempt >= BootLimit
      BY <2>2, <3>1, SetSlotCount
    <3>. QED BY <1>2, <3>2, <3>3 DEF CountInv
  <2>3. CASE SetAttempts
    <3>1. env' \in EnvType /\ env'.attempt = 3 /\ env'.recovery = 0 /\ env'.ok = 0
      BY <1>2, <2>3 DEF SetAttempts, EnvType
    <3>2. tries' = 0 /\ ~inherited' /\ inherited' \in BOOLEAN
      BY <2>3 DEF SetAttempts
    <3>. QED BY <1>2, <3>1, <3>2
  <2>4. CASE UNCHANGED <<env, count>>
    BY <1>2, <2>1, <2>4
  <2>5. CASE UNCHANGED count /\ (env' = [env EXCEPT !.ok = 0]
                                  \/ env' = [env EXCEPT !.recovery = 0])
    BY <1>2, <2>1, <2>5 DEF EnvType
  <2>. QED BY <2>2, <2>3, <2>4, <2>5
       DEF FactoryReset, ResetStart, ResetRoot, ResetEnv, firmware
<1>4. ImageTypes'
  <2>1. CASE UNCHANGED image
    BY <2>1 DEF ImageTypes
  <2>2. CASE \E s \in Slots, content \in {"good", "bad"} :
               image' = [image EXCEPT ![s].root = content]
    <3>1. PICK s \in Slots, content \in Contents : image' = [image EXCEPT ![s].root = content]
      BY <2>2 DEF Contents
    <3>. QED BY <3>1, WrittenImage
  <2>. QED BY <2>1, <2>2 DEF FactoryReset, ResetStart, ResetRoot, ResetEnv, Slots
<1>5. PackageTypes' /\ StateTypes'
  <2>1. PackageTypes'
    BY <1>1, <1>3
    DEF PackageTypes, FactoryReset, ResetStart, ResetRoot, ResetEnv, Resetting
  <2>2. StateTypes'
    BY <1>1, <1>2, <1>3 DEF StateTypes
  <2>. QED BY <2>1, <2>2
<1>6. EnvTypes' /\ SlotInv' /\ RamInv'
  BY <1>1, <1>2, <1>3 DEF EnvTypes, SlotInv, RamInv
<1>7. CountInv'
  BY <1>1, <1>2, <1>3 DEF CountInv, SlotInv, EnvType
<1>. QED BY <1>4, <1>5, <1>6, <1>7

\* Power may fail anywhere.
LEMMA DownStep == ASSUME IInv, PowerLoss \/ Restart \/ ResetAtPrompt PROVE IInv'
<1>. USE DEF IInv
<1>1. /\ machine' = "off" /\ install' = "idle" /\ reset' = "idle"
      /\ losses' \in 0 .. MaxPowerLosses
      /\ package' = NoPackage /\ target' = "a"
      /\ UNCHANGED <<env, ram, booted, cmdline, service, recoveryWorks, image, tries,
                     inherited, forced, installs>>
  BY BootAssumption
  DEF PowerLoss, Restart, ResetAtPrompt, Down, firmware, system, StateTypes, count
<1>2. EnvTypes' /\ ImageTypes' /\ PackageTypes' /\ StateTypes'
  BY <1>1 DEF EnvTypes, ImageTypes, PackageTypes, StateTypes, NoPackage, Slots
<1>3. SlotInv'
  BY <1>1 DEF SlotInv, Good
<1>4. RamInv' /\ CountInv'
  BY <1>1 DEF RamInv, CountInv
<1>. QED BY <1>2, <1>3, <1>4

-----------------------------------------------------------------------------
\* The invariant holds in every reachable state of the board.
THEOREM BootInvariant == Spec => []IInv
<1>1. IInv /\ [Next]_vars => IInv'
  <2>. SUFFICES ASSUME IInv, [Next]_vars PROVE IInv'
    OBVIOUS
  <2>1. CASE UNCHANGED vars
    BY <2>1 DEF vars, firmware, system, updater, history, count, IInv, EnvTypes, ImageTypes,
       PackageTypes, StateTypes, SlotInv, RamInv, CountInv, Good
  <2>. QED
    BY <2>1, UBootStep, ServiceStep, InstallerStep, RequestStep, ReimageStep, ResetStep, DownStep
    DEF Next
<1>. QED BY <1>1, InitIInv, PTL DEF Spec

\* The state of the board is well typed, its counter of attempts included.
THEOREM TypeCorrect == Spec => []TypeOK
<1>1. IInv => TypeOK
  BY DEF IInv, TypeOK, EnvTypes, ImageTypes, PackageTypes, StateTypes
<1>. QED BY <1>1, BootInvariant, PTL

\* Power lost anywhere in any number of installations leaves a slot that boots,
\* and bb_update_install with "=" never writes to the partitions it runs from.
THEOREM SomeSlotAlwaysBoots == Spec => []SomeSlotBoots
<1>1. IInv => SomeSlotBoots
  BY DEF IInv, SlotInv, SomeSlotBoots
<1>. QED BY <1>1, BootInvariant, PTL

\* The flag with which bb_recovery_request asks for the recovery system keeps the
\* board out of it: part 3 of boot.cmd takes the slot "recovery" of part 2 for an
\* invalid one.
THEOREM RequestKeepsOut == Spec => [](machine = "recovery" => env.recovery = 0)
<1>1. IInv => (machine = "recovery" => env.recovery = 0)
  BY DEF IInv, RamInv
<1>. QED BY <1>1, BootInvariant, PTL

\* With boot_limit at least 2 a slot gets at most boot_limit attempts.
THEOREM AttemptsAreBounded == ASSUME BootLimit >= 2 PROVE Spec => []AttemptsBounded
<1>1. IInv => AttemptsBounded
  BY BootAssumption DEF IInv, EnvTypes, EnvType, StateTypes, CountInv, AttemptsBounded
<1>. QED BY <1>1, BootInvariant, PTL

\* With boot_limit at most the 3 that bb_update_install writes, no slot is given
\* up before boot_limit - 1 attempts on it failed, unless it inherited the count of
\* an unconfirmed slot because only the first fw_setenv took effect.
THEOREM NotGivenUpEarly == ASSUME BootLimit <= 3 PROVE Spec => GivenUpLate
<1>1. IInv /\ [Next]_vars =>
        [machine = "ok_check" /\ ram'.slot # ram.slot /\ ~inherited
           => tries >= BootLimit - 1]_vars
  <2>. SUFFICES ASSUME IInv, Next, machine = "ok_check", ram'.slot # ram.slot, ~inherited
                PROVE  tries >= BootLimit - 1
    OBVIOUS
  <2>1. OkCheck
    BY DEF IInv, SlotInv, Next, UBoot, LoadEnv, SlotCheck, OkCheck, BootRecovery, BootSlot,
       firmware, ConfirmOk, ConfirmAttempts, Installer, InstallStart, FormatBoot, FormatRoot,
       Extract, WriteBoot, WriteRoot, SetBootSlot, SetBootAttempt, SetBootOk, Installing,
       RequestRecovery, Reimage, FactoryReset, ResetStart, ResetRoot, ResetEnv, Resetting,
       PowerLoss, Restart, ResetAtPrompt, Down
  <2>2. ram.ok = 0 /\ ram.attempt <= 1
    BY <2>1, OkCheckCases
  <2>. QED BY <2>1, <2>2, BootAssumption
    DEF OkCheck, IInv, RamInv, CountInv, EnvTypes, EnvType, StateTypes
<1>. QED BY <1>1, BootInvariant, PTL DEF Spec, GivenUpLate
=============================================================================
