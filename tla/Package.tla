------------------------------- MODULE Package -------------------------------
(***************************************************************************)
(* The making of an update package by bb_update_create, and its way        *)
(* through bb_update_verify and the extraction of bb_update_install        *)
(* (tools/bb-update/bb_update.c).  What the installer does with the        *)
(* payload afterwards is in BootUpdate.                                    *)
(*                                                                         *)
(* Two writers share the file: the stdio stream of bb_update_create, whose *)
(* buffer is larger than the header and reaches the file at fclose, at     *)
(* offset 0; and tar, whose output the shell appends to the file.  A byte  *)
(* is what it is part of and its place in that.                            *)
(***************************************************************************)
EXTENDS Integers, Sequences, SequencesExt

CONSTANTS
  HeaderLen,      \* bytes of magic, version and manifest
  ArchiveLen,     \* bytes of a compressed archive
  ShellMayFail    \* whether cp, tar and the temporary directory may fail

VARIABLES
  step,       \* of the tool: create, then install on another machine
  given,      \* the payloads on the command line of create
  staged,     \* those in the temporary directory
  buffer,     \* what the stdio stream has not written yet
  file,       \* the package
  unpacked    \* the payloads in the installer's temporary directory

vars == <<step, given, staged, buffer, file, unpacked>>

Payloads == {"boot.tar.gz", "rootfs.tar.gz", "post-install.sh"}

Bytes(what, n) == [i \in 1 .. n |-> <<what, i>>]

Header == Bytes({"header"}, HeaderLen)
Archive(payloads) == Bytes(payloads, ArchiveLen)

\* The bytes from offset 0 on are replaced.
WrittenAt0(f, bytes) == bytes \o SubSeq(f, Len(bytes) + 1, Len(f))

Init ==
  /\ step = "idle"
  /\ given = {} /\ staged = {} /\ unpacked = {}
  /\ buffer = <<>> /\ file = <<>>

-----------------------------------------------------------------------------
(* bb_update_create *)

\* The root file system is required, the rest is not.
CommandLines == {S \in SUBSET Payloads : "rootfs.tar.gz" \in S}

\* fwrite fills the buffer.
WriteHeader ==
  /\ step = "idle"
  /\ given' \in CommandLines
  /\ file' = <<>>
  /\ buffer' = Header
  /\ step' = "stage"
  /\ UNCHANGED <<staged, unpacked>>

fclose(to) ==
  /\ file' = WrittenAt0(file, buffer)
  /\ buffer' = <<>>
  /\ step' = to

\* A script that cannot be read is left out; a cp that fails goes unnoticed.
Stage ==
  /\ step = "stage"
  /\ \/ \E S \in IF ShellMayFail THEN SUBSET given ELSE {given, given \ {"post-install.sh"}} :
          /\ staged' = S /\ step' = "append"
          /\ UNCHANGED <<buffer, file>>
     \/ ShellMayFail /\ fclose("failed") /\ UNCHANGED staged
  /\ UNCHANGED <<given, unpacked>>

\* So does a tar that fails.
AppendTar ==
  /\ step = "append"
  /\ \E n \in IF ShellMayFail THEN 0 .. ArchiveLen ELSE {ArchiveLen} :
       file' = file \o SubSeq(Archive(staged), 1, n)
  /\ step' = "close"
  /\ UNCHANGED <<given, staged, buffer, unpacked>>

Close ==
  /\ step = "close"
  /\ fclose("created")
  /\ UNCHANGED <<given, staged, unpacked>>

Create == WriteHeader \/ Stage \/ AppendTar \/ Close

-----------------------------------------------------------------------------
(* bb_update_verify and the extraction *)

\* Only the first word is looked at.
Verify ==
  /\ step = "created"
  /\ step' = IF IsPrefix(SubSeq(Header, 1, 1), file) THEN "verified" ELSE "refused"
  /\ UNCHANGED <<given, staged, buffer, file, unpacked>>

\* tail -c +N begins with the N-th byte.
tail(n) == SubSeq(file, n, Len(file))

\* tar takes a whole archive and nothing else.
Extract ==
  /\ step = "verified"
  /\ \/ \E S \in SUBSET Payloads :
          /\ tail(HeaderLen) = Archive(S)
          /\ unpacked' = S /\ step' = "extracted"
     \/ /\ \A S \in SUBSET Payloads : tail(HeaderLen) # Archive(S)
        /\ step' = "not extracted" /\ UNCHANGED unpacked
  /\ UNCHANGED <<given, staged, buffer, file>>

Next == Create \/ Verify \/ Extract

Spec == Init /\ [][Next]_vars

-----------------------------------------------------------------------------
(* Correctness *)

\* ".bbu is: [4B magic][4B version][manifest][tar archive with boot.tar.gz,
\* rootfs.tar.gz, post-install.sh]": what create has packed, the installer
\* finds in the package that create has reported as created and verify has let
\* through.
PayloadArrives == step \in {"extracted", "not extracted"} => unpacked = staged
=============================================================================
