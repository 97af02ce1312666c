------------------------------ MODULE BlockLog ------------------------------
(***************************************************************************)
(* libbb/bb_log.c: the log file each block (a process) appends to and cuts *)
(* at a limit, and the reports of fatal messages that all blocks write to  *)
(* /persist/crash.                                                         *)
(*                                                                         *)
(* A record has the size 1 and is its number in the file's history; 0 is a *)
(* hole.  A message below the block's level leaves no trace and is no step *)
(* here; a fatal one is never below.  What bb_log_write does under the     *)
(* mutex is one step; the report of a fatal message is written after the   *)
(* mutex is released, one step for each thing another thread, of the same  *)
(* block or of another, can notice.  Nothing here is ever synced.          *)
(***************************************************************************)
EXTENDS Integers, Sequences, FiniteSets

CONSTANTS
  Blocks,    \* processes, each with a log file of its own
  Threads,   \* the threads that log fatal messages
  Owner,     \* the block each belongs to
  Masks,     \* per block, the destinations it may ask bb_log_init for
  MaxSize,   \* max_size, in records
  MaxMsgs,   \* bound on the records each block writes to its file
  MaxSec     \* bound on the seconds of the clock

ASSUME LogAssumption == /\ Owner \in [Threads -> Blocks]
                        /\ \A b \in Blocks : Masks[b] \subseteq SUBSET {"file", "stderr"}
                        /\ MaxSize \in Nat \ {0, 1} /\ MaxMsgs \in Nat /\ MaxSec \in Nat

VARIABLES
  up,             \* the block runs, after bb_log_init
  dest_mask,      \* its destinations
  current_size,   \* what it takes for the size of its file
  file, disk,     \* its file, as it is read and as it is on the disk
  written, lost,  \* history: records written so far, whether one failed
  now,            \* the clock, in seconds
  reporter,       \* per thread: where its bb_log_crash is, and its second
  report,         \* per second: the blocks whose text the report holds
  latest,         \* the second of the report the link "latest" names
  stored,         \* the seconds whose report is on the disk
  openings,       \* history, per second: how often its report was opened; 2 is
                  \* twice or more
  done, spoiled,  \* history: reports written by their block, and seconds in which
                  \* one was not: the writing failed, its block died over it, or
                  \* the power was cut too early
  linked          \* history: a report was linked, and since then the power was not
                  \* cut, and no block died or failed between removing and making
                  \* the link

fileVars   == <<current_size, file, disk, written, lost>>
reportVars == <<reporter, report, latest, stored, openings, done, spoiled, linked>>
logVars    == <<up, dest_mask, now, fileVars, reportVars>>

Levels == {"fatal", "info"}
Secs == 0 .. MaxSec
None == -1
Idle == [pc |-> "idle", sec |-> 0]
Half == MaxSize \div 2

LogInit ==
  /\ up = [b \in Blocks |-> FALSE]
  /\ dest_mask = [b \in Blocks |-> {}]
  /\ current_size = [b \in Blocks |-> 0] /\ file = [b \in Blocks |-> <<>>]
  /\ disk = [b \in Blocks |-> <<>>]
  /\ written = [b \in Blocks |-> 0] /\ lost = [b \in Blocks |-> FALSE]
  /\ now = 0
  /\ reporter = [t \in Threads |-> Idle]
  /\ report = [s \in Secs |-> {}] /\ latest = None
  /\ stored = {} /\ openings = [s \in Secs |-> 0]
  /\ done = {} /\ spoiled = {} /\ linked = FALSE

-----------------------------------------------------------------------------
\* A file that cannot be opened is taken off the mask; that may leave none.
Open(b) ==
  /\ ~up[b] /\ up' = [up EXCEPT ![b] = TRUE]
  /\ \E mask \in Masks[b] : \E ok \in BOOLEAN :
       /\ dest_mask' = [dest_mask EXCEPT ![b] = IF ok THEN mask ELSE mask \ {"file"}]
       /\ current_size' = [current_size EXCEPT ![b] =
                             IF ok /\ "file" \in mask THEN Len(file[b]) ELSE 0]
  /\ UNCHANGED <<file, disk, written, lost, now, reportVars>>

\* ftruncate: cuts a longer file at the end, and fills up a shorter one.
Resized(f, n) == [i \in 1 .. n |-> IF i <= Len(f) THEN f[i] ELSE 0]

\* Mutant: the counter is not reset when the file is cut.
LogToFile_KeepSize(b, ok) ==
  LET f == IF ok THEN Append(file[b], written[b] + 1) ELSE file[b]
      over == current_size[b] + 1 > MaxSize
  IN  /\ file' = [file EXCEPT ![b] = IF over THEN Resized(f, Half) ELSE f]
      /\ current_size' = [current_size EXCEPT ![b] = @ + 1]

\* The result of write is not looked at: a full partition makes it fail, and
\* the record is counted all the same.  The cut takes the newest records, this
\* one too, where the comment "truncate from beginning" promises the oldest.
LogToFile(b, ok) ==
  LET f == IF ok THEN Append(file[b], written[b] + 1) ELSE file[b]
      over == current_size[b] + 1 > MaxSize
  IN  /\ file' = [file EXCEPT ![b] = IF over THEN Resized(f, Half) ELSE f]
      /\ current_size' = [current_size EXCEPT ![b] = IF over THEN Half ELSE @ + 1]

\* A thread that logs a fatal message goes on to bb_log_crash.
Write(b, l) ==
  /\ up[b] /\ dest_mask[b] # {}
  /\ IF "file" \in dest_mask[b]
     THEN \E ok \in BOOLEAN :
            /\ written[b] < MaxMsgs /\ LogToFile(b, ok)
            /\ written' = [written EXCEPT ![b] = @ + 1]
            /\ lost' = [lost EXCEPT ![b] = @ \/ ~ok]
            /\ UNCHANGED disk
     ELSE UNCHANGED fileVars
  /\ IF l = "fatal"
     THEN \E t \in Threads :
            /\ Owner[t] = b /\ reporter[t] = Idle
            /\ reporter' = [reporter EXCEPT ![t].pc = "open"]
     ELSE UNCHANGED reporter
  /\ UNCHANGED <<up, dest_mask, now, report, latest, stored, openings, done, spoiled, linked>>

\* The seconds of the reports that a thread of a block in S is writing.
Writing(S) == {s \in Secs : \E t \in Threads :
                 Owner[t] \in S /\ reporter[t].pc = "text" /\ reporter[t].sec = s}
Linking(S) == \E t \in Threads : Owner[t] \in S /\ reporter[t].pc = "link"

\* The blocks in S end: their descriptors and their threads are gone.
End(S) ==
  /\ up' = [b \in Blocks |-> up[b] /\ b \notin S]
  /\ dest_mask' = [b \in Blocks |-> IF b \in S THEN {} ELSE dest_mask[b]]
  /\ current_size' = [b \in Blocks |-> IF b \in S THEN 0 ELSE current_size[b]]
  /\ reporter' = [t \in Threads |-> IF Owner[t] \in S THEN Idle ELSE reporter[t]]
  /\ UNCHANGED <<now, disk, written, lost, openings>>

\* bb_log_close, or the death of the process at any point.
Die(b) ==
  /\ up[b] /\ End({b})
  /\ spoiled' = spoiled \cup Writing({b}) /\ linked' = (linked /\ ~Linking({b}))
  /\ UNCHANGED <<file, report, latest, stored, done>>

-----------------------------------------------------------------------------
(* bb_log_crash *)

Step(t, from, to, sec) ==
  /\ reporter[t].pc = from
  /\ reporter' = [reporter EXCEPT ![t] = [pc |-> to, sec |-> sec]]
  /\ UNCHANGED <<up, dest_mask, now, fileVars>>

\* The report of second s is opened, and truncated if it exists.
Opened(s) ==
  /\ report' = [report EXCEPT ![s] = {}]
  /\ openings' = [openings EXCEPT ![s] = IF @ = 0 THEN 1 ELSE 2]
  /\ stored' = stored \ {s}
  /\ UNCHANGED <<latest, done, spoiled, linked>>

\* Mutant: one file for all reports.
CrashOpen_OneFile(t) ==
  \/ /\ Step(t, "open", "text", now)
     /\ report' = [s \in Secs |-> {}]
     /\ openings' = [openings EXCEPT ![now] = IF @ = 0 THEN 1 ELSE 2]
     /\ stored' = stored \ {now}
     /\ UNCHANGED <<latest, done, spoiled, linked>>
  \/ Step(t, "open", "idle", 0) /\ UNCHANGED <<report, latest, stored, openings, done, spoiled, linked>>

\* The file is named after the second; a failure to open it ends the report.
CrashOpen(t) ==
  \/ Step(t, "open", "text", now) /\ Opened(now)
  \/ Step(t, "open", "idle", 0) /\ UNCHANGED <<report, latest, stored, openings, done, spoiled, linked>>

\* The results of dprintf are not looked at.  Each opening writes from its own
\* start of the file, and may so cover what another one has written.
CrashText(t) ==
  LET b == Owner[t]
      s == reporter[t].sec
  IN  /\ Step(t, "text", "unlink", s)
      /\ \/ /\ \E text \in {report[s] \cup {b}, {b}} : report' = [report EXCEPT ![s] = text]
            /\ done' = done \cup {<<b, s>>} /\ stored' = stored \ {s}
            /\ UNCHANGED spoiled
         \/ /\ spoiled' = spoiled \cup {s}
            /\ UNCHANGED <<report, done, stored>>
      /\ UNCHANGED <<latest, openings, linked>>

CrashUnlink(t) ==
  /\ Step(t, "unlink", "link", reporter[t].sec)
  /\ latest' = None
  /\ UNCHANGED <<report, stored, openings, done, spoiled, linked>>

\* symlink finds the link made by another thread meanwhile, or makes it, or fails;
\* its result is not looked at.
CrashLink(t) ==
  /\ Step(t, "link", "idle", 0)
  /\ \/ latest' = (IF latest = None THEN reporter[t].sec ELSE latest) /\ linked' = TRUE
     \/ latest = None /\ linked' = FALSE /\ UNCHANGED latest
  /\ UNCHANGED <<report, stored, openings, done, spoiled>>

Crash(t) == CrashOpen(t) \/ CrashText(t) \/ CrashUnlink(t) \/ CrashLink(t)

-----------------------------------------------------------------------------
(* The clock, which can be set, and the disk *)

Tick == /\ now' \in Secs \ {now}
        /\ UNCHANGED <<up, dest_mask, fileVars, reportVars>>

StoreFile(b) ==
  /\ disk[b] # file[b] /\ disk' = [disk EXCEPT ![b] = file[b]]
  /\ UNCHANGED <<up, dest_mask, now, current_size, file, written, lost, reportVars>>

Reports == {s \in Secs : openings[s] > 0}

StoreReport(s) ==
  /\ s \in Reports \ stored /\ stored' = stored \cup {s}
  /\ UNCHANGED <<up, dest_mask, now, fileVars,
                 reporter, report, latest, openings, done, spoiled, linked>>

\* What is not on the disk is lost or not; the link may be an earlier one, or none.
PowerOff ==
  /\ End(Blocks)
  /\ file' = disk
  /\ \E gone \in SUBSET (Reports \ stored) :
       report' = [s \in Secs |-> IF s \in gone THEN {} ELSE report[s]]
  /\ latest' \in Reports \cup {None} /\ linked' = FALSE
  /\ spoiled' = spoiled \cup Writing(Blocks) \cup (Reports \ stored)
  /\ done' = {d \in done : d[2] \in stored}
  /\ stored' = Reports

LogNext ==
  \/ \E b \in Blocks : \/ Open(b) \/ Die(b) \/ StoreFile(b)
                       \/ \E l \in Levels : Write(b, l)
  \/ \E t \in Threads : Crash(t)
  \/ \E s \in Secs : StoreReport(s)
  \/ Tick

-----------------------------------------------------------------------------
(* Correctness *)

LogTypeOK ==
  /\ up \in [Blocks -> BOOLEAN]
  /\ dest_mask \in [Blocks -> SUBSET {"file", "stderr"}]
  /\ current_size \in [Blocks -> 0 .. MaxSize] /\ lost \in [Blocks -> BOOLEAN]
  /\ \A b \in Blocks : /\ written[b] \in 0 .. MaxMsgs
                       /\ file[b] \in Seq(0 .. written[b]) /\ disk[b] \in Seq(0 .. written[b])
  /\ reporter \in [Threads -> [pc : {"idle", "open", "text", "unlink", "link"}, sec : Secs]]
  /\ now \in Secs /\ report \in [Secs -> SUBSET Blocks]
  /\ latest \in Secs \cup {None} /\ linked \in BOOLEAN
  /\ openings \in [Secs -> 0 .. 2] /\ stored \subseteq Reports
  /\ done \subseteq Blocks \X Reports /\ spoiled \subseteq Reports

\* The counter stands for the file: it is never behind it, so the limit holds,
\* and while every write succeeds it is exact and the file has no hole.  The
\* records are in the order they were written.
SizeTracked ==
  \A b \in Blocks :
    /\ Len(file[b]) <= MaxSize
    /\ "file" \in dest_mask[b] => Len(file[b]) <= current_size[b]
    /\ ~lost[b] => /\ \A i \in DOMAIN file[b] : file[b][i] # 0
                   /\ "file" \in dest_mask[b] => Len(file[b]) = current_size[b]
    /\ \A i, j \in DOMAIN file[b] :
         i < j /\ file[b][j] # 0 => file[b][i] < file[b][j]

\* A report that was written in full is intact, unless its second saw another fatal
\* message, of another block or of its own, or the power was cut before the report
\* was on the disk.  A report that nobody is writing has text, unless a write to it
\* failed, its block died over it, or the power was cut too early.  And once a report
\* was linked, the link leads to a report as long as no thread is between removing
\* and making it, unless a block died there, the symlink failed or the power was cut.
ReportsKept ==
  /\ \A d \in done : openings[d[2]] = 1 => report[d[2]] = {d[1]}
  /\ \A s \in Reports \ (spoiled \cup Writing(Blocks)) : report[s] # {}
  /\ linked /\ ~Linking(Blocks) => latest \in Reports
=============================================================================
