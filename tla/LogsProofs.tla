----------------------------- MODULE LogsProofs -----------------------------
(***************************************************************************)
(* Proofs about the logs of a board, for any limit on the size of a file   *)
(* and any number of blocks, messages, entries, failing writes, deaths,    *)
(* restarts and power cuts.                                                *)
(*                                                                         *)
(* The files' invariant is SizeTracked with what it takes for one more     *)
(* record: the counter is within the limit, no record in the file is newer *)
(* than the last one written, and all this holds of what is on the disk.   *)
(* The reports' invariant adds to ReportsKept that a report somebody works *)
(* on or the link leads to has been opened, that a report opened once has  *)
(* a single writer and no text before this has written it, and that while  *)
(* the link is gone some thread is about to make it.                       *)
(*                                                                         *)
(* The entries' invariant says of each log that its pieces are in the      *)
(* order of the additions, that no more of them lack a newline than there  *)
(* were faults, and that an entry no cut may take is a piece with a        *)
(* newline.  A reader then misses such an entry only where it was glued to *)
(* a piece without one.                                                    *)
(***************************************************************************)
EXTENDS Logs, FiniteSetTheorems, SequenceTheorems, TLAPS

\* The records of a file are in the order they were written, and none is newer
\* than the last of them.
Ordered(f, last) ==
  /\ f \in Seq(Nat)
  /\ \A i \in DOMAIN f : f[i] <= last
  /\ \A i, j \in DOMAIN f : i < j /\ f[j] # 0 => f[i] < f[j]

NoHole(f) == \A i \in DOMAIN f : f[i] # 0

Filing(b) == "file" \in dest_mask[b]

Tracked(b) ==
  /\ Ordered(file[b], written[b]) /\ Len(file[b]) <= MaxSize
  /\ current_size[b] <= MaxSize
  /\ Filing(b) => Len(file[b]) <= current_size[b]
  /\ ~lost[b] => NoHole(file[b]) /\ (Filing(b) => Len(file[b]) = current_size[b])
  /\ Ordered(disk[b], written[b]) /\ Len(disk[b]) <= MaxSize
  /\ ~lost[b] => NoHole(disk[b])

FileTypes ==
  /\ dest_mask \in [Blocks -> SUBSET {"file", "stderr"}]
  /\ current_size \in [Blocks -> Nat] /\ written \in [Blocks -> Nat]
  /\ lost \in [Blocks -> BOOLEAN] /\ file \in [Blocks -> Seq(Nat)]
  /\ disk \in [Blocks -> Seq(Nat)]

FileInv == FileTypes /\ \A b \in Blocks : Tracked(b)

-----------------------------------------------------------------------------
(* One file *)

LEMMA HalfFacts == MaxSize \in Nat /\ Half \in Nat /\ Half < MaxSize
BY LogAssumption DEF Half

\* ftruncate.
LEMMA ResizedFacts ==
  ASSUME NEW f \in Seq(Nat), NEW n \in Nat
  PROVE  /\ Resized(f, n) \in Seq(Nat) /\ Len(Resized(f, n)) = n
         /\ DOMAIN Resized(f, n) = 1 .. n
         /\ \A i \in 1 .. n : Resized(f, n)[i] = IF i <= Len(f) THEN f[i] ELSE 0
<1>1. \A i \in 1 .. n : i <= Len(f) => f[i] \in Nat
  BY ElementOfSeq, LenProperties
<1>2. Resized(f, n) \in [1 .. n -> Nat]
  BY <1>1 DEF Resized
<1>3. Resized(f, n) \in Seq(Nat)
  BY <1>2, SeqDef
<1>4. DOMAIN Resized(f, n) = 1 .. n
  BY <1>2
<1>5. Len(Resized(f, n)) = n
  BY <1>3, <1>4, LenProperties
<1>. QED
  BY <1>3, <1>4, <1>5 DEF Resized

\* Cutting and filling a file keeps the order of its records; cutting leaves no
\* hole where there was none.
LEMMA ResizedOrdered ==
  ASSUME NEW last \in Nat, NEW f, Ordered(f, last), NEW n \in Nat
  PROVE  /\ Ordered(Resized(f, n), last)
         /\ NoHole(f) /\ n <= Len(f) => NoHole(Resized(f, n))
<1>1. f \in Seq(Nat) /\ Len(f) \in Nat /\ DOMAIN f = 1 .. Len(f)
  BY LenProperties DEF Ordered
<1>. DEFINE g == Resized(f, n)
<1>2. \A i \in 1 .. n : g[i] = IF i <= Len(f) THEN f[i] ELSE 0
  BY <1>1, ResizedFacts
<1>3. \A i \in DOMAIN f : f[i] \in Nat
  BY <1>1, ElementOfSeq
<1>4. g \in Seq(Nat) /\ DOMAIN g = 1 .. n
  BY <1>1, ResizedFacts
<1>. HIDE DEF g
<1>5. \A i \in DOMAIN g : (i \in DOMAIN f /\ g[i] = f[i]) \/ (i > Len(f) /\ g[i] = 0)
  BY <1>1, <1>2, <1>4
<1>6. \A i \in DOMAIN g : g[i] <= last
  BY <1>5 DEF Ordered
<1>7. ASSUME NEW i \in DOMAIN g, NEW j \in DOMAIN g, i < j, g[j] # 0 PROVE g[i] < g[j]
  <2>1. j \in DOMAIN f /\ g[j] = f[j]
    BY <1>5, <1>7
  <2>2. i \in DOMAIN f /\ g[i] = f[i]
    BY <1>1, <1>4, <1>5, <1>7, <2>1
  <2>. QED
    BY <1>7, <2>1, <2>2 DEF Ordered
<1>8. ASSUME NoHole(f), n <= Len(f) PROVE NoHole(g)
  BY <1>1, <1>4, <1>5, <1>8 DEF NoHole
<1>. QED
  BY <1>4, <1>6, <1>7, <1>8 DEF Ordered, g

\* write: the next record comes after the others.
LEMMA AppendOrdered ==
  ASSUME NEW last \in Nat, NEW f, Ordered(f, last)
  PROVE  /\ Ordered(Append(f, last + 1), last + 1)
         /\ Len(Append(f, last + 1)) = Len(f) + 1
         /\ NoHole(f) => NoHole(Append(f, last + 1))
<1>. DEFINE g == Append(f, last + 1)
<1>1. f \in Seq(Nat) /\ Len(f) \in Nat /\ DOMAIN f = 1 .. Len(f)
  BY LenProperties DEF Ordered
<1>2. /\ g \in Seq(Nat) /\ Len(g) = Len(f) + 1 /\ g[Len(f) + 1] = last + 1
      /\ \A i \in 1 .. Len(f) : g[i] = f[i]
  BY <1>1, AppendProperties
<1>3. DOMAIN g = 1 .. Len(f) + 1
  BY <1>2, LenProperties
<1>4. \A i \in DOMAIN f : f[i] \in Nat
  BY <1>1, ElementOfSeq
<1>. HIDE DEF g
<1>5. \A i \in DOMAIN g : i \in DOMAIN f \/ i = Len(f) + 1
  BY <1>1, <1>3
<1>6. \A i \in DOMAIN g : g[i] <= last + 1
  BY <1>1, <1>2, <1>4, <1>5 DEF Ordered
<1>7. ASSUME NEW i \in DOMAIN g, NEW j \in DOMAIN g, i < j, g[j] # 0 PROVE g[i] < g[j]
  <2>1. i \in DOMAIN f
    BY <1>1, <1>3, <1>7
  <2>2. CASE j \in DOMAIN f
    BY <1>1, <1>2, <1>7, <2>1, <2>2 DEF Ordered
  <2>3. CASE j = Len(f) + 1
    BY <1>1, <1>2, <1>4, <2>1, <2>3 DEF Ordered
  <2>. QED
    BY <1>5, <2>2, <2>3
<1>8. ASSUME NoHole(f) PROVE NoHole(g)
  BY <1>1, <1>2, <1>5, <1>8 DEF NoHole
<1>. QED
  BY <1>2, <1>6, <1>7, <1>8 DEF Ordered, g

\* A record that is not written leaves the others older than the next number.
LEMMA LaterOrdered ==
  ASSUME NEW last \in Nat, NEW f, Ordered(f, last)
  PROVE  Ordered(f, last + 1)
<1>1. f \in Seq(Nat) /\ \A i \in DOMAIN f : f[i] \in Nat /\ f[i] <= last
  BY ElementOfSeq, LenProperties DEF Ordered
<1>2. \A i \in DOMAIN f : f[i] <= last + 1
  BY <1>1
<1>. QED
  BY <1>2 DEF Ordered

-----------------------------------------------------------------------------
(* The steps *)

LEMMA InitFiles == Init => FileInv
<1>. SUFFICES ASSUME Init PROVE FileInv
  OBVIOUS
<1>1. FileTypes
  BY EmptySeq DEF Init, LogInit, FileTypes
<1>2. ASSUME NEW b \in Blocks PROVE Tracked(b)
  <2>1. file[b] = <<>> /\ disk[b] = <<>> /\ current_size[b] = 0 /\ dest_mask[b] = {}
    BY DEF Init, LogInit
  <2>2. /\ Len(file[b]) = 0 /\ DOMAIN file[b] = {} /\ file[b] \in Seq(Nat)
        /\ disk[b] = file[b]
    BY <2>1, EmptySeq
  <2>. QED
    BY <2>1, <2>2, HalfFacts DEF Tracked, Ordered, NoHole, Filing
<1>. QED
  BY <1>1, <1>2 DEF FileInv

\* A step that leaves the files alone and only closes some of them.
LEMMA OnlyClosed ==
  ASSUME FileInv, UNCHANGED <<file, disk, written, lost>>,
         dest_mask' \in [Blocks -> SUBSET {"file", "stderr"}],
         current_size' \in [Blocks -> Nat],
         \A b \in Blocks : \/ dest_mask'[b] = dest_mask[b] /\ current_size'[b] = current_size[b]
                           \/ ~Filing(b)' /\ current_size'[b] <= MaxSize
  PROVE  FileInv'
BY DEF FileInv, FileTypes, Tracked, Filing

\* bb_log_init: the counter starts at the size of the file.
LEMMA OpenStep == ASSUME FileInv, NEW b \in Blocks, Open(b) PROVE FileInv'
<1>1. PICK mask \in Masks[b], ok \in BOOLEAN :
        /\ dest_mask' = [dest_mask EXCEPT ![b] = IF ok THEN mask ELSE mask \ {"file"}]
        /\ current_size' = [current_size EXCEPT ![b] =
                              IF ok /\ "file" \in mask THEN Len(file[b]) ELSE 0]
  BY DEF Open
<1>2. mask \subseteq {"file", "stderr"}
  BY LogAssumption
<1>3. UNCHANGED <<file, disk, written, lost>>
  BY DEF Open
<1>4. \A c \in Blocks : Len(file[c]) \in Nat
  BY LenProperties DEF FileInv, FileTypes
<1>5. FileTypes'
  BY <1>1, <1>2, <1>3, <1>4 DEF FileInv, FileTypes
<1>6. ASSUME NEW c \in Blocks PROVE Tracked(c)'
  <2>1. CASE c = b
    <3>1. current_size'[b] = IF Filing(b)' THEN Len(file[b]) ELSE 0
      BY <1>1 DEF FileInv, FileTypes, Filing
    <3>. QED
      BY <1>3, <1>4, <2>1, <3>1, HalfFacts DEF FileInv, Tracked
  <2>2. CASE c # b
    BY <1>1, <1>3, <2>2 DEF FileInv, FileTypes, Tracked, Filing
  <2>. QED
    BY <2>1, <2>2
<1>. QED
  BY <1>5, <1>6 DEF FileInv

\* bb_log_write to a file: the record and the cut.
LEMMA FileStep ==
  ASSUME FileInv, NEW b \in Blocks, NEW ok \in BOOLEAN, Filing(b), LogToFile(b, ok),
         UNCHANGED <<dest_mask, disk>>, written' = [written EXCEPT ![b] = @ + 1],
         lost' = [lost EXCEPT ![b] = @ \/ ~ok]
  PROVE  FileInv'
<1>. DEFINE f == IF ok THEN Append(file[b], written[b] + 1) ELSE file[b]
            over == current_size[b] + 1 > MaxSize
<1>1. /\ written[b] \in Nat /\ current_size[b] \in Nat /\ Tracked(b)
      /\ Ordered(file[b], written[b]) /\ Len(file[b]) \in Nat
  BY LenProperties DEF FileInv, FileTypes, Tracked
<1>2. /\ Ordered(f, written[b] + 1) /\ f \in Seq(Nat) /\ Len(f) \in Nat
      /\ Len(f) = Len(file[b]) + (IF ok THEN 1 ELSE 0)
      /\ NoHole(file[b]) => NoHole(f)
  <2>1. CASE ok
    BY <1>1, <2>1, AppendOrdered, LenProperties DEF Ordered
  <2>2. CASE ~ok
    <3>1. f = file[b]
      BY <2>2
    <3>3. Ordered(file[b], written[b] + 1)
      BY <1>1, LaterOrdered
    <3>. QED
      BY <1>1, <2>2, <3>1, <3>3 DEF Ordered
  <2>. QED
    BY <2>1, <2>2
<1>3. /\ file'[b] = IF over THEN Resized(f, Half) ELSE f
      /\ current_size'[b] = IF over THEN Half ELSE current_size[b] + 1
      /\ written'[b] = written[b] + 1 /\ lost'[b] = (lost[b] \/ ~ok)
      /\ \A c \in Blocks \ {b} : /\ file'[c] = file[c] /\ current_size'[c] = current_size[c]
                               /\ written'[c] = written[c] /\ lost'[c] = lost[c]
  BY DEF LogToFile, FileInv, FileTypes
<1>. HIDE DEF f
<1>4. /\ Ordered(Resized(f, Half), written[b] + 1)
      /\ NoHole(f) /\ Half <= Len(f) => NoHole(Resized(f, Half))
      /\ Resized(f, Half) \in Seq(Nat) /\ Len(Resized(f, Half)) = Half
  <2>1. written[b] + 1 \in Nat
    BY <1>1
  <2>2. Resized(f, Half) \in Seq(Nat) /\ Len(Resized(f, Half)) = Half
    BY <1>2, HalfFacts, ResizedFacts
  <2>. QED
    BY <1>2, <2>1, <2>2, HalfFacts, ResizedOrdered
<1>5. FileTypes'
  <2>1. file' = [file EXCEPT ![b] = IF over THEN Resized(f, Half) ELSE f]
    BY DEF LogToFile, f
  <2>2. current_size' = [current_size EXCEPT ![b] = IF over THEN Half ELSE @ + 1]
    BY DEF LogToFile
  <2>3. (IF over THEN Resized(f, Half) ELSE f) \in Seq(Nat)
    BY <1>2, <1>4
  <2>4. (IF over THEN Half ELSE current_size[b] + 1) \in Nat
    BY <1>1, HalfFacts
  <2>5. file' \in [Blocks -> Seq(Nat)] /\ current_size' \in [Blocks -> Nat]
    BY <2>1, <2>2, <2>3, <2>4 DEF FileInv, FileTypes
  <2>6. written' \in [Blocks -> Nat]
    BY <1>1 DEF FileInv, FileTypes
  <2>7. (lost[b] \/ ~ok) \in BOOLEAN
    OBVIOUS
  <2>8. lost' \in [Blocks -> BOOLEAN]
    BY <2>7 DEF FileInv, FileTypes
  <2>. QED
    BY <2>5, <2>6, <2>8 DEF FileInv, FileTypes
<1>6. Tracked(b)'
  <2>0. /\ Ordered(disk'[b], written'[b]) /\ Len(disk'[b]) <= MaxSize
        /\ ~lost'[b] => NoHole(disk'[b])
    BY <1>1, <1>3, LaterOrdered DEF Tracked
  <2>1. /\ Len(file[b]) <= current_size[b] /\ current_size[b] <= MaxSize
        /\ ~lost[b] => NoHole(file[b]) /\ Len(file[b]) = current_size[b]
    BY <1>1 DEF Tracked
  <2>2. CASE over
    <3>1. ASSUME ~lost'[b] PROVE NoHole(Resized(f, Half))
      <4>1. ok /\ ~lost[b]
        BY <1>3, <3>1
      <4>2. Len(f) = current_size[b] + 1 /\ NoHole(f)
        BY <1>2, <2>1, <4>1
      <4>3. Half <= Len(f)
        BY <1>1, <2>2, <4>2, HalfFacts
      <4>. QED
        BY <1>4, <4>2, <4>3
    <3>2. file'[b] = Resized(f, Half) /\ current_size'[b] = Half
      BY <1>3, <2>2
    <3>. QED
      BY <1>3, <1>4, <2>0, <3>1, <3>2, HalfFacts DEF Tracked
  <2>3. CASE ~over
    <3>1. file'[b] = f /\ current_size'[b] = current_size[b] + 1
      BY <1>3, <2>3
    <3>2. Len(f) <= current_size[b] + 1 /\ Len(f) <= MaxSize /\ current_size[b] + 1 <= MaxSize
      <4>1. Len(f) <= Len(file[b]) + 1
        BY <1>1, <1>2
      <4>2. Len(f) \in Nat /\ Len(file[b]) \in Nat /\ current_size[b] \in Nat
        BY <1>1, <1>2
      <4>. QED
        BY <2>1, <2>3, <4>1, <4>2, HalfFacts
    <3>3. ~lost'[b] => NoHole(f) /\ Len(f) = current_size[b] + 1
      BY <1>1, <1>2, <1>3, <2>1
    <3>4. Ordered(f, written'[b])
      BY <1>2, <1>3
    <3>. QED
      BY <2>0, <3>1, <3>2, <3>3, <3>4 DEF Tracked
  <2>. QED
    BY <2>2, <2>3
<1>7. \A c \in Blocks \ {b} : Tracked(c)'
  BY <1>3 DEF FileInv, Tracked, Filing
<1>. QED
  BY <1>5, <1>6, <1>7 DEF FileInv

LEMMA LogStep == ASSUME FileInv, LogNext PROVE FileInv'
<1>1. ASSUME NEW b \in Blocks, NEW l \in Levels, Write(b, l) PROVE FileInv'
  <2>1. CASE Filing(b)
    BY <1>1, <2>1, FileStep DEF Write, Filing
  <2>2. CASE ~Filing(b)
    BY <1>1, <2>2, OnlyClosed DEF Write, Filing, fileVars, FileInv, FileTypes
  <2>. QED
    BY <2>1, <2>2
<1>2. ASSUME NEW b \in Blocks, Die(b) PROVE FileInv'
  <2>1. /\ UNCHANGED <<file, disk, written, lost>>
        /\ dest_mask' = [c \in Blocks |-> IF c \in {b} THEN {} ELSE dest_mask[c]]
        /\ current_size' = [c \in Blocks |-> IF c \in {b} THEN 0 ELSE current_size[c]]
    BY <1>2 DEF Die, End
  <2>2. dest_mask' \in [Blocks -> SUBSET {"file", "stderr"}] /\ current_size' \in [Blocks -> Nat]
    BY <2>1 DEF FileInv, FileTypes
  <2>3. ASSUME NEW c \in Blocks
        PROVE  \/ dest_mask'[c] = dest_mask[c] /\ current_size'[c] = current_size[c]
               \/ ~Filing(c)' /\ current_size'[c] <= MaxSize
    BY <2>1, HalfFacts DEF Filing
  <2>. QED
    BY <2>1, <2>2, <2>3, OnlyClosed
<1>3. ASSUME NEW t \in Threads, Crash(t) PROVE FileInv'
  BY <1>3, OnlyClosed DEF Crash, CrashOpen, CrashText, CrashUnlink, CrashLink, Step, fileVars,
     FileInv, FileTypes
<1>4. CASE Tick
  BY <1>4, OnlyClosed DEF Tick, fileVars, FileInv, FileTypes
<1>5. ASSUME NEW b \in Blocks, StoreFile(b) PROVE FileInv'
  BY <1>5 DEF StoreFile, FileInv, FileTypes, Tracked, Filing
<1>6. ASSUME NEW s \in Secs, StoreReport(s) PROVE FileInv'
  BY <1>6, OnlyClosed DEF StoreReport, fileVars, FileInv, FileTypes
<1>. QED
  BY <1>1, <1>2, <1>3, <1>4, <1>5, <1>6, OpenStep DEF LogNext

\* A power cut leaves of each file what was on the disk, and closes it.
LEMMA PowerOffFiles == ASSUME FileInv, PowerOff PROVE FileInv'
<1>1. /\ file' = disk /\ UNCHANGED <<disk, written, lost>>
      /\ dest_mask' = [b \in Blocks |-> {}] /\ current_size' = [b \in Blocks |-> 0]
  BY DEF PowerOff, End
<1>2. FileTypes'
  BY <1>1 DEF FileInv, FileTypes
<1>3. ASSUME NEW b \in Blocks PROVE Tracked(b)'
  BY <1>1, HalfFacts DEF FileInv, Tracked, Filing
<1>. QED
  BY <1>2, <1>3 DEF FileInv

\* The files' part of the logs keeps its invariant, whatever the other part does.
THEOREM FilesTracked == Spec => []FileInv
<1>1. FileInv /\ [Next]_<<logVars, entryVars>> => FileInv'
  <2>. SUFFICES ASSUME FileInv, [Next]_<<logVars, entryVars>> PROVE FileInv'
    OBVIOUS
  <2>1. CASE LogNext
    BY <2>1, LogStep
  <2>2. CASE UNCHANGED logVars
    BY <2>2, OnlyClosed DEF logVars, fileVars, FileInv, FileTypes
  <2>3. CASE PowerCut
    BY <2>3, PowerOffFiles DEF PowerCut
  <2>. QED
    BY <2>1, <2>2, <2>3 DEF Next
<1>. QED
  BY <1>1, InitFiles, PTL DEF Spec

\* The counter of bb_log_write stands for the file, so the file keeps within
\* max_size whatever is written and fails, and however often the block restarts;
\* and the records in it are in order.
THEOREM SizeAlwaysTracked == Spec => []SizeTracked
<1>1. FileInv => SizeTracked
  BY DEF FileInv, Tracked, Ordered, NoHole, Filing, SizeTracked
<1>. QED BY <1>1, FilesTracked, PTL

-----------------------------------------------------------------------------
(* The crash reports *)

PCs == {"idle", "open", "text", "unlink", "link"}
Busy == {"text", "unlink", "link"}

ReportTypes ==
  /\ now \in Secs
  /\ reporter \in [Threads -> [pc : PCs, sec : Secs]]
  /\ report \in [Secs -> SUBSET Blocks]
  /\ latest \in Secs \cup {None} /\ linked \in BOOLEAN
  /\ openings \in [Secs -> 0 .. 2] /\ stored \subseteq Reports
  /\ done \subseteq Blocks \X Reports /\ spoiled \subseteq Reports

\* Thread t writes the report of second s.
At(t, s) == reporter[t].pc = "text" /\ reporter[t].sec = s

Intact == \A d \in done : openings[d[2]] = 1 => report[d[2]] = {d[1]}
SoleWriter ==
  \A s \in Secs : \A t \in Threads :
    openings[s] = 1 /\ At(t, s) => report[s] = {} /\ \A u \in Threads : At(u, s) => u = t
Filled == \A s \in Reports \ spoiled : report[s] # {} \/ \E t \in Threads : At(t, s)
Known ==
  /\ \A t \in Threads : reporter[t].pc \in Busy => reporter[t].sec \in Reports
  /\ latest # None => latest \in Reports
Relinked == linked /\ latest = None => \E t \in Threads : reporter[t].pc = "link"

ReportInv == ReportTypes /\ Known /\ Intact /\ SoleWriter /\ Filled /\ Relinked

LEMMA SecFacts == 0 \in Secs /\ Secs \subseteq Nat /\ None \notin Secs
<1>1. 0 \in Secs /\ Secs \subseteq Nat
  BY LogAssumption DEF Secs
<1>. QED
  BY <1>1 DEF None

\* Every thread is a block's.
LEMMA AllThreads ==
  ASSUME ReportTypes
  PROVE  /\ Writing(Blocks) = {s \in Secs : \E t \in Threads : At(t, s)}
         /\ Linking(Blocks) <=> \E t \in Threads : reporter[t].pc = "link"
<1>1. \A t \in Threads : Owner[t] \in Blocks
  BY LogAssumption
<1>. QED
  BY <1>1 DEF Writing, Linking, At

LEMMA InitReports == Init => ReportInv
<1>. SUFFICES ASSUME Init PROVE ReportInv
  OBVIOUS
<1>1. /\ now = 0 /\ reporter = [t \in Threads |-> Idle] /\ report = [s \in Secs |-> {}]
      /\ latest = None /\ stored = {} /\ openings = [s \in Secs |-> 0]
      /\ done = {} /\ spoiled = {} /\ linked = FALSE
  BY DEF Init, LogInit
<1>2. Idle \in [pc : PCs, sec : Secs] /\ Idle.pc = "idle"
  BY SecFacts DEF Idle, PCs
<1>3. ReportTypes
  <2>1. /\ now \in Secs /\ latest \in Secs \cup {None} /\ linked \in BOOLEAN
        /\ stored \subseteq Reports /\ done \subseteq Blocks \X Reports /\ spoiled \subseteq Reports
    BY <1>1, SecFacts
  <2>2. report \in [Secs -> SUBSET Blocks] /\ openings \in [Secs -> 0 .. 2]
    BY <1>1
  <2>3. reporter \in [Threads -> [pc : PCs, sec : Secs]]
    BY <1>1, <1>2
  <2>. QED
    BY <2>1, <2>2, <2>3 DEF ReportTypes
<1>4. Reports = {}
  <2>1. \A s \in Secs : ~(openings[s] > 0)
    BY <1>1
  <2>. QED
    BY <2>1 DEF Reports
<1>5. Known /\ Intact /\ Filled /\ Relinked
  BY <1>1, <1>2, <1>4 DEF Known, Busy, Intact, Filled, Relinked
<1>6. SoleWriter
  BY <1>1 DEF SoleWriter
<1>. QED
  BY <1>3, <1>5, <1>6 DEF ReportInv

\* What a step of a report does to the reporters.
LEMMA StepFacts ==
  ASSUME ReportTypes, NEW t \in Threads, NEW from \in PCs, NEW to \in PCs, NEW sec \in Secs,
         Step(t, from, to, sec)
  PROVE  /\ reporter' \in [Threads -> [pc : PCs, sec : Secs]]
         /\ reporter[t].pc = from /\ reporter'[t] = [pc |-> to, sec |-> sec]
         /\ \A u \in Threads \ {t} : reporter'[u] = reporter[u]
         /\ now' = now
BY DEF Step, ReportTypes

\* A step that only moves reporters, none of them at a report or at the link.
LEMMA OnlyReporters ==
  ASSUME ReportInv, UNCHANGED <<report, latest, openings, done, spoiled, linked>>,
         reporter' \in [Threads -> [pc : PCs, sec : Secs]], now' \in Secs,
         stored' \subseteq Reports',
         \A t \in Threads : \/ reporter'[t] = reporter[t]
                            \/ reporter'[t].pc \notin Busy /\ reporter[t].pc \notin Busy
  PROVE  ReportInv'
<1>1. UNCHANGED Reports
  BY DEF Reports
<1>2. \A t \in Threads, s \in Secs : At(t, s)' <=> At(t, s)
  BY DEF At, Busy
<1>3. \A t \in Threads : reporter'[t].pc = "link" <=> reporter[t].pc = "link"
  BY DEF Busy
<1>4. ReportTypes'
  BY <1>1 DEF ReportInv, ReportTypes
<1>5. Known'
  BY <1>1 DEF ReportInv, Known
<1>6. Intact'
  BY DEF ReportInv, Intact
<1>7. SoleWriter'
  BY <1>2 DEF ReportInv, SoleWriter
<1>8. Filled'
  <2>1. Reports \subseteq Secs
    BY DEF Reports
  <2>. QED
    BY <1>1, <1>2, <2>1 DEF ReportInv, Filled
<1>9. Relinked'
  BY <1>3 DEF ReportInv, Relinked
<1>. QED
  BY <1>4, <1>5, <1>6, <1>7, <1>8, <1>9 DEF ReportInv

LEMMA ReportsUntouched ==
  ASSUME ReportInv, UNCHANGED reportVars, now' \in Secs
  PROVE  ReportInv'
BY OnlyReporters DEF ReportInv, ReportTypes, reportVars, Reports

LEMMA WriteStep == ASSUME ReportInv, NEW b \in Blocks, NEW l \in Levels, Write(b, l) PROVE ReportInv'
<1>1. /\ UNCHANGED <<now, report, latest, stored, openings, done, spoiled, linked>>
      /\ now \in Secs /\ stored' \subseteq Reports'
  BY DEF Write, ReportInv, ReportTypes, Reports
<1>2. CASE l = "fatal"
  <2>1. PICK t \in Threads : reporter[t] = Idle /\ reporter' = [reporter EXCEPT ![t].pc = "open"]
    BY <1>2 DEF Write
  <2>2. reporter' = [reporter EXCEPT ![t] = [pc |-> "open", sec |-> 0]]
    <3>1. reporter' = [reporter EXCEPT ![t] = [reporter[t] EXCEPT !.pc = "open"]]
      BY <2>1
    <3>2. [Idle EXCEPT !.pc = "open"] = [pc |-> "open", sec |-> 0]
      BY DEF Idle
    <3>. QED
      BY <2>1, <3>1, <3>2
  <2>3. reporter' \in [Threads -> [pc : PCs, sec : Secs]]
    BY <2>2, SecFacts DEF ReportInv, ReportTypes, PCs
  <2>4. /\ reporter'[t].pc = "open" /\ reporter[t].pc = "idle"
        /\ \A u \in Threads \ {t} : reporter'[u] = reporter[u]
    BY <2>1, <2>2 DEF Idle, ReportInv, ReportTypes
  <2>. QED
    BY <1>1, <2>3, <2>4, OnlyReporters DEF Busy
<1>3. CASE l # "fatal"
  BY <1>1, <1>3, ReportsUntouched DEF Write, reportVars
<1>. QED
  BY <1>2, <1>3

\* bb_log_close, or a death: the reports the block was writing are spoiled.
LEMMA DieStep == ASSUME ReportInv, NEW b \in Blocks, Die(b) PROVE ReportInv'
<1>1. /\ reporter' = [t \in Threads |-> IF Owner[t] = b THEN Idle ELSE reporter[t]]
      /\ linked' = (linked /\ ~Linking({b})) /\ spoiled' = spoiled \cup Writing({b})
      /\ UNCHANGED <<now, report, latest, stored, openings, done>>
  BY DEF Die, End
<1>2. Idle \in [pc : PCs, sec : Secs] /\ Idle.pc = "idle"
  BY SecFacts DEF Idle, PCs
<1>3. UNCHANGED Reports
  BY <1>1 DEF Reports
<1>4. \A t \in Threads : reporter'[t].pc # "idle" => reporter'[t] = reporter[t]
  BY <1>1, <1>2
<1>5. ReportTypes'
  <2>1. Writing({b}) \subseteq Reports
    BY DEF Writing, ReportInv, Known, Busy
  <2>2. reporter' \in [Threads -> [pc : PCs, sec : Secs]]
    BY <1>1, <1>2 DEF ReportInv, ReportTypes
  <2>3. linked' \in BOOLEAN
    BY <1>1
  <2>4. spoiled' \subseteq Reports'
    BY <1>1, <1>3, <2>1 DEF ReportInv, ReportTypes
  <2>. QED
    BY <1>1, <1>3, <2>2, <2>3, <2>4 DEF ReportInv, ReportTypes
<1>6. Known'
  BY <1>1, <1>3, <1>4 DEF ReportInv, Known, Busy
<1>7. Intact'
  BY <1>1 DEF ReportInv, Intact
<1>8. \A t \in Threads, s \in Secs : At(t, s)' => At(t, s)
  BY <1>4 DEF At
<1>9. SoleWriter'
  BY <1>1, <1>8 DEF ReportInv, SoleWriter
<1>10. Filled'
  <2>1. ASSUME NEW s \in Reports \ spoiled', NEW t \in Threads, At(t, s) PROVE At(t, s)'
    <3>1. s \in Secs /\ s \notin Writing({b})
      BY <1>1 DEF Reports
    <3>2. Owner[t] # b
      BY <2>1, <3>1 DEF Writing, At
    <3>. QED
      BY <1>1, <2>1, <3>2 DEF At
  <2>2. \A s \in Reports \ spoiled' : report[s] # {} \/ \E t \in Threads : At(t, s)
    BY <1>1 DEF ReportInv, Filled
  <2>. QED
    BY <1>1, <1>3, <2>1, <2>2 DEF Filled
<1>11. Relinked'
  <2>. SUFFICES ASSUME linked', latest' = None
                PROVE  \E t \in Threads : reporter'[t].pc = "link"
    BY DEF Relinked
  <2>1. PICK t \in Threads : reporter[t].pc = "link"
    BY <1>1 DEF ReportInv, Relinked
  <2>2. Owner[t] # b
    BY <1>1, <2>1 DEF Linking
  <2>. QED
    BY <1>1, <2>1, <2>2
<1>. QED
  BY <1>5, <1>6, <1>7, <1>9, <1>10, <1>11 DEF ReportInv

\* A power cut: a report that was on the disk is what it was.
LEMMA PowerOffStep == ASSUME ReportInv, PowerOff PROVE ReportInv'
<1>1. PICK gone \in SUBSET (Reports \ stored) :
        report' = [s \in Secs |-> IF s \in gone THEN {} ELSE report[s]]
  BY DEF PowerOff
<1>2. /\ reporter' = [t \in Threads |-> Idle]
      /\ latest' \in Reports \cup {None} /\ linked' = FALSE
      /\ spoiled' = spoiled \cup Writing(Blocks) \cup (Reports \ stored)
      /\ done' = {d \in done : d[2] \in stored} /\ stored' = Reports
      /\ UNCHANGED <<now, openings>>
  <2>1. \A t \in Threads : Owner[t] \in Blocks
    BY LogAssumption
  <2>. QED
    BY <2>1 DEF PowerOff, End
<1>3. Idle \in [pc : PCs, sec : Secs] /\ Idle.pc = "idle"
  BY SecFacts DEF Idle, PCs
<1>4. UNCHANGED Reports /\ Reports \subseteq Secs
  BY <1>2 DEF Reports
<1>5. \A s \in Secs : s \in stored \/ s \notin Reports => report'[s] = report[s]
  BY <1>1
<1>6. ReportTypes'
  <2>1. Writing(Blocks) \subseteq Reports
    BY DEF Writing, ReportInv, Known, Busy
  <2>2. report' \in [Secs -> SUBSET Blocks]
    BY <1>1 DEF ReportInv, ReportTypes
  <2>3. reporter' \in [Threads -> [pc : PCs, sec : Secs]]
    BY <1>2, <1>3
  <2>4. spoiled' \subseteq Reports' /\ done' \subseteq Blocks \X Reports'
    BY <1>2, <1>4, <2>1 DEF ReportInv, ReportTypes
  <2>. QED
    BY <1>2, <1>4, <2>2, <2>3, <2>4 DEF ReportInv, ReportTypes
<1>7. Known'
  BY <1>2, <1>3, <1>4 DEF Known, Busy
<1>8. Intact'
  <2>1. \A d \in done' : d \in done /\ d[2] \in stored /\ d[2] \in Secs
    BY <1>2, <1>4 DEF ReportInv, ReportTypes
  <2>. QED
    BY <1>2, <1>5, <2>1 DEF ReportInv, Intact
<1>9. SoleWriter'
  BY <1>2, <1>3 DEF SoleWriter, At
<1>10. Filled'
  <2>1. ASSUME NEW s \in Reports \ spoiled' PROVE report'[s] # {}
    <3>1. s \in Secs /\ s \in stored /\ s \notin spoiled /\ s \notin Writing(Blocks)
      BY <1>2, <1>4
    <3>2. ~ \E t \in Threads : At(t, s)
      BY <3>1, AllThreads DEF ReportInv
    <3>3. report[s] # {}
      BY <3>1, <3>2 DEF ReportInv, Filled
    <3>. QED
      BY <1>5, <3>1, <3>3
  <2>. QED
    BY <1>4, <2>1 DEF Filled
<1>11. Relinked'
  BY <1>2 DEF Relinked
<1>. QED
  BY <1>6, <1>7, <1>8, <1>9, <1>10, <1>11 DEF ReportInv

LEMMA CrashOpenStep == ASSUME ReportInv, NEW t \in Threads, CrashOpen(t) PROVE ReportInv'
<1>0. /\ ReportTypes /\ now \in Secs
      /\ 0 \in Secs /\ "open" \in PCs /\ "text" \in PCs /\ "idle" \in PCs
  <2>1. ReportTypes /\ now \in Secs
    BY DEF ReportInv, ReportTypes
  <2>. QED
    BY <2>1, SecFacts DEF PCs
<1>1. CASE Step(t, "open", "text", now) /\ Opened(now)
  <2>1. /\ reporter' \in [Threads -> [pc : PCs, sec : Secs]]
        /\ reporter[t].pc = "open" /\ reporter'[t] = [pc |-> "text", sec |-> now]
        /\ \A u \in Threads \ {t} : reporter'[u] = reporter[u]
        /\ now' = now
    BY <1>0, <1>1, StepFacts
  <2>2. /\ report'[now] = {} /\ report' \in [Secs -> SUBSET Blocks]
        /\ \A s \in Secs \ {now} : report'[s] = report[s]
    BY <1>0, <1>1 DEF Opened, ReportTypes
  <2>3. /\ openings'[now] = (IF openings[now] = 0 THEN 1 ELSE 2)
        /\ openings' \in [Secs -> 0 .. 2]
        /\ \A s \in Secs \ {now} : openings'[s] = openings[s]
    BY <1>0, <1>1 DEF Opened, ReportTypes
  <2>4. stored' = stored \ {now} /\ UNCHANGED <<latest, done, spoiled, linked>>
    BY <1>1 DEF Opened
  <2>5. Reports' = Reports \cup {now} /\ Reports \subseteq Secs
    BY <1>0, <2>3 DEF Reports, ReportTypes
  <2>6. ReportTypes'
    BY <1>0, <2>1, <2>2, <2>3, <2>4, <2>5 DEF ReportTypes
  <2>7. Known'
    BY <2>1, <2>4, <2>5 DEF ReportInv, Known, Busy
  <2>8. Intact'
    <3>1. ASSUME NEW d \in done, openings'[d[2]] = 1 PROVE report'[d[2]] = {d[1]}
      <4>1. d[2] \in Secs /\ openings[d[2]] > 0 /\ openings[d[2]] \in 0 .. 2
        BY <1>0 DEF ReportTypes, Reports
      <4>2. d[2] # now
        BY <2>3, <3>1, <4>1
      <4>. QED
        BY <2>2, <2>3, <3>1, <4>1, <4>2 DEF ReportInv, Intact
    <3>. QED
      BY <2>4, <3>1 DEF Intact
  <2>9. \A u \in Threads, s \in Secs : At(u, s)' => At(u, s) \/ (u = t /\ s = now)
    BY <2>1 DEF At
  <2>10. SoleWriter'
    <3>1. ASSUME NEW s \in Secs, NEW u \in Threads, openings'[s] = 1, At(u, s)'
          PROVE  report'[s] = {} /\ \A v \in Threads : At(v, s)' => v = u
      <4>1. CASE s = now
        <5>1. openings[now] = 0 /\ now \notin Reports
          BY <1>0, <2>3, <3>1, <4>1 DEF ReportTypes, Reports
        <5>2. ASSUME NEW v \in Threads, At(v, now) PROVE FALSE
          BY <5>1, <5>2 DEF ReportInv, Known, Busy, At
        <5>. QED
          BY <2>2, <2>9, <3>1, <4>1, <5>2
      <4>2. CASE s # now
        <5>1. openings[s] = 1 /\ At(u, s) /\ report'[s] = report[s]
          BY <2>2, <2>3, <2>9, <3>1, <4>2
        <5>. QED
          BY <2>9, <4>2, <5>1 DEF ReportInv, SoleWriter
      <4>. QED
        BY <4>1, <4>2
    <3>. QED
      BY <3>1 DEF SoleWriter
  <2>11. Filled'
    <3>2. ASSUME NEW u \in Threads, NEW s, At(u, s) PROVE At(u, s)'
      BY <2>1, <3>2 DEF At
    <3>3. ASSUME NEW s \in Reports \ spoiled, s # now
          PROVE  report'[s] # {} \/ \E u \in Threads : At(u, s)'
      BY <2>2, <2>5, <3>2, <3>3 DEF ReportInv, Filled
    <3>4. ASSUME NEW s \in Reports' \ spoiled'
          PROVE  report'[s] # {} \/ \E u \in Threads : At(u, s)'
      <4>1. CASE s = now
        BY <2>1, <4>1 DEF At
      <4>2. CASE s # now
        BY <2>4, <2>5, <3>3, <4>2
      <4>. QED
        BY <4>1, <4>2
    <3>. QED
      BY <3>4 DEF Filled
  <2>12. Relinked'
    BY <2>1, <2>4 DEF ReportInv, Relinked
  <2>. QED
    BY <2>6, <2>7, <2>8, <2>10, <2>11, <2>12 DEF ReportInv
<1>2. CASE /\ Step(t, "open", "idle", 0)
           /\ UNCHANGED <<report, latest, stored, openings, done, spoiled, linked>>
  <2>1. /\ reporter' \in [Threads -> [pc : PCs, sec : Secs]]
        /\ reporter[t].pc = "open" /\ reporter'[t] = [pc |-> "idle", sec |-> 0]
        /\ \A u \in Threads \ {t} : reporter'[u] = reporter[u]
        /\ now' = now
    BY <1>0, <1>2, StepFacts
  <2>2. stored' \subseteq Reports'
    BY <1>0, <1>2 DEF ReportTypes, Reports
  <2>. QED
    BY <1>0, <1>2, <2>1, <2>2, OnlyReporters DEF Busy
<1>. QED
  BY <1>1, <1>2 DEF CrashOpen

LEMMA CrashTextStep == ASSUME ReportInv, NEW t \in Threads, CrashText(t) PROVE ReportInv'
<1>. DEFINE b == Owner[t]
            s == reporter[t].sec
            Wrote == /\ \E text \in {report[s] \cup {b}, {b}} : report' = [report EXCEPT ![s] = text]
                     /\ done' = done \cup {<<b, s>>} /\ stored' = stored \ {s}
                     /\ UNCHANGED spoiled
            Failed == /\ spoiled' = spoiled \cup {s}
                      /\ UNCHANGED <<report, done, stored>>
<1>0. /\ ReportTypes /\ s \in Secs /\ b \in Blocks /\ "text" \in PCs /\ "unlink" \in PCs
      /\ Reports \subseteq Secs
  BY LogAssumption DEF ReportInv, ReportTypes, PCs, Reports
<1>1. /\ Step(t, "text", "unlink", s) /\ UNCHANGED <<latest, openings, linked>>
      /\ Wrote \/ Failed
  BY DEF CrashText
<1>2. s \in Reports /\ At(t, s)
  BY <1>1 DEF ReportInv, Known, Busy, Step, At
<1>. HIDE DEF b, s, Wrote, Failed
<1>3. /\ reporter' \in [Threads -> [pc : PCs, sec : Secs]]
      /\ reporter[t].pc = "text" /\ reporter'[t] = [pc |-> "unlink", sec |-> s]
      /\ \A u \in Threads \ {t} : reporter'[u] = reporter[u]
      /\ now' = now
  BY <1>0, <1>1, StepFacts
<1>4. UNCHANGED Reports
  BY <1>1 DEF Reports
<1>5. Known'
  BY <1>1, <1>2, <1>3, <1>4 DEF ReportInv, Known, Busy
<1>6. Relinked'
  BY <1>1, <1>3 DEF ReportInv, Relinked
<1>7. /\ \A u \in Threads, c \in Secs : At(u, c)' => At(u, c) /\ u # t
      /\ \A u \in Threads, c \in Secs : At(u, c) /\ c # s => At(u, c)'
  BY <1>2, <1>3 DEF At
<1>8. openings[s] = 1 => report[s] = {} /\ \A u \in Threads : At(u, s) => u = t
  BY <1>0, <1>2 DEF ReportInv, SoleWriter
<1>9. CASE Wrote
  <2>1. PICK text \in {report[s] \cup {b}, {b}} : report' = [report EXCEPT ![s] = text]
    BY <1>9 DEF Wrote
  <2>2. done' = done \cup {<<b, s>>} /\ stored' = stored \ {s} /\ UNCHANGED spoiled
    BY <1>9 DEF Wrote
  <2>3. report'[s] = text /\ \A c \in Secs \ {s} : report'[c] = report[c]
    BY <1>0, <2>1 DEF ReportTypes
  <2>4. ReportTypes'
    BY <1>0, <1>1, <1>2, <1>3, <1>4, <2>1, <2>2 DEF ReportTypes
  <2>5. Intact'
    <3>1. ASSUME NEW d \in done', openings[d[2]] = 1 PROVE report'[d[2]] = {d[1]}
      <4>1. d[2] \in Secs /\ (d \in done \/ d = <<b, s>>)
        BY <1>0, <2>2 DEF ReportTypes
      <4>2. CASE d \in done
        <5>1. report[d[2]] = {d[1]}
          BY <3>1, <4>2 DEF ReportInv, Intact
        <5>2. d[2] # s
          BY <1>8, <3>1, <5>1
        <5>. QED
          BY <2>3, <4>1, <5>1, <5>2
      <4>3. CASE d = <<b, s>>
        BY <1>8, <2>3, <3>1, <4>3
      <4>. QED
        BY <4>1, <4>2, <4>3
    <3>. QED
      BY <1>1, <3>1 DEF Intact
  <2>6. SoleWriter'
    <3>1. ASSUME NEW c \in Secs, NEW u \in Threads, openings[c] = 1, At(u, c)'
          PROVE  report'[c] = {} /\ \A v \in Threads : At(v, c)' => v = u
      <4>1. At(u, c) /\ c # s
        BY <1>7, <1>8, <3>1
      <4>. QED
        BY <1>7, <2>3, <3>1, <4>1 DEF ReportInv, SoleWriter
    <3>. QED
      BY <1>1, <3>1 DEF SoleWriter
  <2>7. Filled'
    <3>1. report'[s] # {}
      BY <2>3
    <3>2. ASSUME NEW c \in Reports \ spoiled, c # s
          PROVE  report'[c] # {} \/ \E u \in Threads : At(u, c)'
      <4>1. c \in Secs
        BY <1>0
      <4>. QED
        BY <1>7, <2>3, <3>2, <4>1 DEF ReportInv, Filled
    <3>. QED
      BY <1>4, <2>2, <3>1, <3>2 DEF Filled
  <2>. QED
    BY <1>5, <1>6, <2>4, <2>5, <2>6, <2>7 DEF ReportInv
<1>10. CASE Failed
  <2>1. spoiled' = spoiled \cup {s} /\ UNCHANGED <<report, done, stored>>
    BY <1>10 DEF Failed
  <2>2. ReportTypes'
    BY <1>0, <1>1, <1>2, <1>3, <1>4, <2>1 DEF ReportTypes
  <2>3. Intact'
    BY <1>1, <2>1 DEF ReportInv, Intact
  <2>4. SoleWriter'
    BY <1>1, <1>7, <2>1 DEF ReportInv, SoleWriter
  <2>5. Filled'
    <3>1. ASSUME NEW c \in Reports \ spoiled, c # s
          PROVE  report[c] # {} \/ \E u \in Threads : At(u, c)'
      <4>1. c \in Secs
        BY <1>0
      <4>. QED
        BY <1>7, <3>1, <4>1 DEF ReportInv, Filled
    <3>. QED
      BY <1>4, <2>1, <3>1 DEF Filled
  <2>. QED
    BY <1>5, <1>6, <2>2, <2>3, <2>4, <2>5 DEF ReportInv
<1>. QED
  BY <1>1, <1>9, <1>10

\* The last two steps of a report change only the link.
LEMMA LinkStep ==
  ASSUME ReportInv, NEW t \in Threads, NEW from \in {"unlink", "link"}, NEW to \in {"link", "idle"},
         NEW sec \in Secs, Step(t, from, to, sec),
         to = "link" => sec = reporter[t].sec,
         UNCHANGED <<report, stored, openings, done, spoiled>>,
         linked' \in BOOLEAN, latest' \in Reports \cup {None},
         linked' /\ latest' = None => to = "link"
  PROVE  ReportInv'
<1>0. ReportTypes /\ from \in PCs /\ to \in PCs
  BY DEF ReportInv, PCs
<1>1. /\ reporter' \in [Threads -> [pc : PCs, sec : Secs]]
      /\ reporter[t].pc = from /\ reporter'[t] = [pc |-> to, sec |-> sec]
      /\ \A u \in Threads \ {t} : reporter'[u] = reporter[u]
      /\ now' = now
  BY <1>0, StepFacts
<1>2. UNCHANGED Reports /\ Reports \subseteq Secs
  BY DEF Reports
<1>3. ReportTypes'
  BY <1>0, <1>1, <1>2 DEF ReportTypes
<1>4. Known'
  BY <1>1, <1>2 DEF ReportInv, Known, Busy
<1>5. \A u \in Threads, s \in Secs : At(u, s)' <=> At(u, s)
  BY <1>1 DEF At
<1>6. Intact' /\ SoleWriter'
  BY <1>5 DEF ReportInv, Intact, SoleWriter
<1>7. Filled'
  BY <1>2, <1>5 DEF ReportInv, Filled
<1>8. Relinked'
  BY <1>1 DEF Relinked
<1>. QED
  BY <1>3, <1>4, <1>6, <1>7, <1>8 DEF ReportInv

LEMMA CrashStep == ASSUME ReportInv, NEW t \in Threads, Crash(t) PROVE ReportInv'
<1>1. CASE CrashUnlink(t)
  <2>1. reporter[t].sec \in Secs /\ linked \in BOOLEAN
    BY DEF ReportInv, ReportTypes
  <2>. QED
    BY <1>1, <2>1, LinkStep DEF CrashUnlink
<1>2. CASE CrashLink(t)
  <2>1. reporter[t].pc = "link" /\ reporter[t].sec \in Reports
    BY <1>2 DEF CrashLink, Step, ReportInv, Known, Busy
  <2>2. Reports \subseteq Secs /\ linked' \in BOOLEAN
    BY <1>2 DEF CrashLink, Reports
  <2>3. latest' \in Reports \cup {None} /\ (linked' => latest' # None)
    BY <1>2, <2>1, <2>2, SecFacts DEF CrashLink, ReportInv, Known
  <2>. QED
    BY <1>2, <2>2, <2>3, SecFacts, LinkStep DEF CrashLink
<1>. QED
  BY <1>1, <1>2, CrashOpenStep, CrashTextStep DEF Crash

\* The invariant of the reports holds whatever blocks die and restart, whatever
\* writes fail and however often the power is cut.
THEOREM ReportsTracked == Spec => []ReportInv
<1>1. ReportInv /\ [Next]_<<logVars, entryVars>> => ReportInv'
  <2>. SUFFICES ASSUME ReportInv, [Next]_<<logVars, entryVars>> PROVE ReportInv'
    OBVIOUS
  <2>0. now \in Secs
    BY DEF ReportInv, ReportTypes
  <2>1. ASSUME NEW b \in Blocks, Open(b) PROVE ReportInv'
    BY <2>0, <2>1, ReportsUntouched DEF Open
  <2>2. CASE Tick
    BY <2>2, ReportsUntouched DEF Tick
  <2>3. ASSUME NEW b \in Blocks, StoreFile(b) PROVE ReportInv'
    BY <2>0, <2>3, ReportsUntouched DEF StoreFile
  <2>4. ASSUME NEW s \in Secs, StoreReport(s) PROVE ReportInv'
    <3>1. stored' \subseteq Reports'
      BY <2>4 DEF StoreReport, ReportInv, ReportTypes, Reports
    <3>. QED
      BY <2>0, <2>4, <3>1, OnlyReporters DEF StoreReport, ReportInv, ReportTypes
  <2>5. CASE UNCHANGED logVars
    BY <2>0, <2>5, ReportsUntouched DEF logVars
  <2>. QED
    BY <2>1, <2>2, <2>3, <2>4, <2>5, WriteStep, DieStep, CrashStep, PowerOffStep
    DEF Next, LogNext, PowerCut
<1>. QED
  BY <1>1, InitReports, PTL DEF Spec

\* bb_log_crash: a report that was written in full keeps its text unless its second
\* sees another fatal message, of its own block or another, or the power is cut
\* before it is on the disk; no other report is empty but where a write failed, a
\* block died or the power was cut; and the link to the latest report is never lost
\* but where a block died between unlink and symlink, symlink failed or the power
\* was cut.
THEOREM ReportsAlwaysKept == Spec => []ReportsKept
<1>1. ReportInv => ReportsKept
  <2>. SUFFICES ASSUME ReportInv PROVE ReportsKept
    OBVIOUS
  <2>1. /\ Writing(Blocks) = {s \in Secs : \E t \in Threads : At(t, s)}
        /\ Linking(Blocks) <=> \E t \in Threads : reporter[t].pc = "link"
        /\ Reports \subseteq Secs
    BY AllThreads DEF ReportInv, Reports
  <2>2. \A s \in Reports \ (spoiled \cup Writing(Blocks)) : report[s] # {}
    BY <2>1 DEF ReportInv, Filled
  <2>3. linked /\ ~Linking(Blocks) => latest \in Reports
    BY <2>1 DEF ReportInv, Relinked, Known
  <2>. QED
    BY <2>2, <2>3 DEF ReportInv, Intact, ReportsKept
<1>. QED
  BY <1>1, ReportsTracked, PTL

-----------------------------------------------------------------------------
(* The types.  The two parts share no variable, so each has an invariant of *)
(* its own; a power cut is a step of both.                                  *)

Running == up \in [Blocks -> BOOLEAN] /\ \A b \in Blocks : written[b] <= MaxMsgs

LEMMA RunningStep ==
  ASSUME FileInv, Running, [Next]_<<logVars, entryVars>>
  PROVE  Running'
<1>. USE DEF Running
<1>1. written \in [Blocks -> Nat]
  BY DEF FileInv, FileTypes
<1>2. ASSUME NEW b \in Blocks, Open(b) PROVE Running'
  BY <1>2 DEF Open
<1>3. ASSUME NEW S \in SUBSET Blocks, End(S) PROVE Running'
  BY <1>3 DEF End
<1>4. ASSUME NEW t \in Threads, Crash(t) PROVE Running'
  BY <1>4 DEF Crash, CrashOpen, CrashText, CrashUnlink, CrashLink, Step, fileVars
<1>5. ASSUME NEW b \in Blocks, NEW l \in Levels, Write(b, l) PROVE Running'
  <2>1. up' = up
    BY <1>5 DEF Write
  <2>2. CASE Filing(b)
    <3>1. written[b] < MaxMsgs /\ written' = [written EXCEPT ![b] = @ + 1]
      BY <1>5, <2>2 DEF Write, Filing
    <3>. QED BY <1>1, <2>1, <3>1, LogAssumption
  <2>3. CASE ~Filing(b)
    BY <1>5, <2>1, <2>3 DEF Write, Filing, fileVars
  <2>. QED BY <2>2, <2>3
<1>6. CASE Tick \/ (\E b \in Blocks : StoreFile(b)) \/ \E s \in Secs : StoreReport(s)
  BY <1>6 DEF Tick, StoreFile, StoreReport, fileVars
<1>7. CASE UNCHANGED logVars
  BY <1>7 DEF logVars, fileVars
<1>. QED
  BY <1>2, <1>3, <1>4, <1>5, <1>6, <1>7 DEF Next, LogNext, Die, PowerCut, PowerOff

Pieces == [id : 1 .. MaxAdds, whole : BOOLEAN, nl : BOOLEAN]

EntryInv ==
  /\ pieces \in [Logs -> Seq(Pieces)]
  /\ synced \in [Logs -> Nat] /\ \A l \in Logs : synced[l] <= Len(pieces[l])
  /\ adds \in 0 .. MaxAdds /\ faults \in Nat
  /\ expected \in [Logs -> SUBSET (1 .. adds)]

LEMMA TornPiece == ASSUME NEW piece \in Pieces, NEW w \in BOOLEAN PROVE Torn(piece, w) \in Pieces
<1>. DEFINE v == piece.whole /\ w
<1>1. v \in BOOLEAN /\ Torn(piece, w) = [piece EXCEPT !.whole = v, !.nl = FALSE]
  BY DEF Torn
<1>. HIDE DEF v
<1>. QED
  BY <1>1 DEF Pieces

\* What an append leaves: one more piece, whole or torn, or nothing.
LEMMA AddCases ==
  ASSUME EntryInv, NEW l \in Logs, Add(l)
  PROVE  /\ adds \in Nat /\ adds < MaxAdds /\ adds' = adds + 1 /\ faults \in Nat /\ UNCHANGED synced
         /\ \/ /\ pieces' = [pieces EXCEPT ![l] = Append(pieces[l], Added(adds + 1))]
               /\ expected' = [expected EXCEPT ![l] = expected[l] \cup {adds + 1}]
               /\ UNCHANGED faults
            \/ /\ \E w \in BOOLEAN :
                    pieces' = [pieces EXCEPT ![l] = Append(pieces[l], Torn(Added(adds + 1), w))]
               /\ faults' = faults + 1 /\ UNCHANGED expected
            \/ UNCHANGED <<pieces, faults, expected>>
<1>1. /\ adds \in Nat /\ adds < MaxAdds /\ faults \in Nat /\ UNCHANGED synced
  BY EntryAssumption DEF Add, EntryInv
<1>2. adds' = adds + 1
  BY DEF Add
<1>. QED
  BY <1>1, <1>2, Zenon DEF Add

\* One more entry of one of the logs.
LEMMA AddStep == ASSUME EntryInv, NEW l \in Logs, Add(l) PROVE EntryInv'
<1>1. /\ adds \in Nat /\ adds' = adds + 1 /\ adds' \in 0 .. MaxAdds /\ adds' \in 1 .. MaxAdds
      /\ UNCHANGED synced /\ faults' \in Nat
  BY AddCases, EntryAssumption
<1>2. Added(adds + 1) \in Pieces
  BY <1>1 DEF Added, Pieces
<1>3. pieces' = pieces \/ \E piece \in Pieces : pieces' = [pieces EXCEPT ![l] = Append(pieces[l], piece)]
  BY <1>2, TornPiece, AddCases
<1>4. pieces' \in [Logs -> Seq(Pieces)] /\ \A k \in Logs : synced'[k] <= Len(pieces'[k])
  <2>1. CASE pieces' = pieces
    BY <1>1, <2>1 DEF EntryInv
  <2>2. ASSUME NEW piece \in Pieces, pieces' = [pieces EXCEPT ![l] = Append(pieces[l], piece)]
        PROVE  pieces' \in [Logs -> Seq(Pieces)] /\ \A k \in Logs : synced'[k] <= Len(pieces'[k])
    <3>1. /\ pieces[l] \in Seq(Pieces) /\ Len(pieces[l]) \in Nat
          /\ Append(pieces[l], piece) \in Seq(Pieces)
          /\ Len(Append(pieces[l], piece)) = Len(pieces[l]) + 1
      BY AppendProperties, LenProperties DEF EntryInv
    <3>2. pieces' \in [Logs -> Seq(Pieces)]
      BY <2>2, <3>1 DEF EntryInv
    <3>3. \A k \in Logs : synced'[k] <= Len(pieces'[k])
      BY <1>1, <2>2, <3>1 DEF EntryInv
    <3>. QED BY <3>2, <3>3
  <2>. QED BY <1>3, <2>1, <2>2
<1>5. expected' \in [Logs -> SUBSET (1 .. adds')]
  <2>1. 1 .. adds \subseteq 1 .. adds' /\ adds + 1 \in 1 .. adds'
    BY <1>1
  <2>2. expected' = expected \/ expected' = [expected EXCEPT ![l] = expected[l] \cup {adds + 1}]
    BY AddCases
  <2>3. expected[l] \cup {adds + 1} \in SUBSET (1 .. adds')
    BY <2>1 DEF EntryInv
  <2>4. expected \in [Logs -> SUBSET (1 .. adds')]
    BY <2>1 DEF EntryInv
  <2>. QED BY <2>2, <2>3, <2>4
<1>. QED BY <1>1, <1>4, <1>5 DEF EntryInv

\* What a power cut leaves of a log is a log.
LEMMA RemainsType ==
  ASSUME EntryInv, NEW l \in Logs, NEW r \in Remains(l)
  PROVE  r \in Seq(Pieces)
<1>1. /\ pieces[l] \in Seq(Pieces) /\ Len(pieces[l]) \in Nat /\ synced[l] \in Nat
      /\ \A i \in 1 .. Len(pieces[l]) : pieces[l][i] \in Pieces
  BY ElementOfSeq, LenProperties DEF EntryInv
<1>2. ASSUME NEW n \in Int, n <= Len(pieces[l]) PROVE SubSeq(pieces[l], 1, n) \in Seq(Pieces)
  <2>1. \A i \in 1 .. n : pieces[l][i] \in Pieces
    BY <1>1, <1>2
  <2>. QED BY <2>1, SubSeqProperties
<1>3. CASE r \in {SubSeq(pieces[l], 1, n) : n \in synced[l] .. Len(pieces[l])}
  BY <1>1, <1>2, <1>3
<1>4. ASSUME NEW n \in synced[l] + 1 .. Len(pieces[l]), NEW w \in BOOLEAN,
             r = Append(SubSeq(pieces[l], 1, n - 1), Torn(pieces[l][n], w))
      PROVE  r \in Seq(Pieces)
  <2>1. n - 1 \in Int /\ n - 1 <= Len(pieces[l]) /\ n \in 1 .. Len(pieces[l])
    BY <1>1
  <2>2. SubSeq(pieces[l], 1, n - 1) \in Seq(Pieces)
    BY <1>2, <2>1
  <2>3. pieces[l][n] \in Pieces
    BY <1>1, <2>1
  <2>4. Torn(pieces[l][n], w) \in Pieces
    BY <2>3, TornPiece
  <2>. QED BY <1>4, <2>2, <2>4, AppendProperties
<1>5. \/ r \in {SubSeq(pieces[l], 1, n) : n \in synced[l] .. Len(pieces[l])}
      \/ \E n \in synced[l] + 1 .. Len(pieces[l]), w \in BOOLEAN :
           r = Append(SubSeq(pieces[l], 1, n - 1), Torn(pieces[l][n], w))
  BY DEF Remains
<1>. QED BY <1>3, <1>4, <1>5

LEMMA CutStep == ASSUME EntryInv, Cut PROVE EntryInv'
<1>1. PICK b \in Remains("boot"), u \in Remains("update") :
        /\ pieces' = [l \in Logs |-> IF l = "boot" THEN b ELSE u]
        /\ synced' = [l \in Logs |-> Len(pieces'[l])]
  BY DEF Cut
<1>2. b \in Seq(Pieces) /\ u \in Seq(Pieces)
  BY RemainsType DEF Logs
<1>3. pieces' \in [Logs -> Seq(Pieces)]
  BY <1>1, <1>2
<1>4. \A l \in Logs : Len(pieces'[l]) \in Nat
  BY <1>3, LenProperties
<1>5. synced' \in [Logs -> Nat] /\ \A l \in Logs : synced'[l] <= Len(pieces'[l])
  BY <1>1, <1>4
<1>6. adds' = adds /\ faults' \in Nat
  BY DEF Cut, EntryInv
<1>7. expected' \in [Logs -> SUBSET (1 .. adds)]
  <2>1. \A l \in Logs : expected'[l] \subseteq expected[l]
    BY DEF Cut
  <2>2. DOMAIN expected' = Logs /\ expected' = [l \in Logs |-> expected'[l]]
    BY DEF Cut
  <2>. QED BY <2>1, <2>2 DEF EntryInv
<1>. QED BY <1>3, <1>5, <1>6, <1>7 DEF EntryInv

LEMMA EntryStep ==
  ASSUME EntryInv, [Next]_<<logVars, entryVars>>
  PROVE  EntryInv'
<1>1. ASSUME NEW l \in Logs, WriteBack(l) PROVE EntryInv'
  <2>1. \A k \in Logs : Len(pieces[k]) \in Nat
    BY LenProperties DEF EntryInv
  <2>. QED BY <1>1, <2>1 DEF WriteBack, EntryInv
<1>2. CASE UNCHANGED entryVars
  BY <1>2 DEF entryVars, EntryInv
<1>3. CASE bb_persist_boot_log_add \/ bb_persist_update_log_add
  BY <1>3, AddStep DEF bb_persist_boot_log_add, bb_persist_update_log_add, Logs
<1>. QED
  BY <1>1, <1>2, <1>3, CutStep DEF Next, EntryNext, PowerCut

LEMMA InitEntries == Init => EntryInv
<1>1. ASSUME Init PROVE /\ pieces = [l \in Logs |-> <<>>] /\ synced = [l \in Logs |-> 0]
                        /\ adds = 0 /\ faults = 0 /\ expected = [l \in Logs |-> {}]
  BY <1>1 DEF Init, EntryInit
<1>2. <<>> \in Seq(Pieces) /\ Len(<<>>) = 0
  BY EmptySeq
<1>3. 0 \in 0 .. MaxAdds
  BY EntryAssumption
<1>4. ASSUME Init PROVE pieces \in [Logs -> Seq(Pieces)] /\ \A l \in Logs : pieces[l] = <<>>
  BY <1>1, <1>2, <1>4
<1>5. ASSUME Init PROVE synced \in [Logs -> Nat] /\ \A l \in Logs : synced[l] <= Len(pieces[l])
  BY <1>1, <1>2, <1>4, <1>5
<1>6. ASSUME Init PROVE expected \in [Logs -> SUBSET (1 .. adds)]
  BY <1>1, <1>6
<1>. QED BY <1>1, <1>3, <1>4, <1>5, <1>6 DEF EntryInv

\* The files, reports and logs of entries stay well typed: no counter leaves its
\* range, a file holds no record that was not written, and a log holds no entry
\* that was not added, whatever power cuts tear.
THEOREM TypeCorrect == Spec => []TypeOK
<1>1. Init => Running
  BY LogAssumption DEF Init, LogInit, Running
<1>2. FileInv /\ Running /\ [Next]_<<logVars, entryVars>> => Running'
  BY RunningStep
<1>3. EntryInv /\ [Next]_<<logVars, entryVars>> => EntryInv'
  BY EntryStep
<1>4. Spec => []Running
  BY <1>1, <1>2, FilesTracked, PTL DEF Spec
<1>5. Spec => []EntryInv
  BY <1>3, InitEntries, PTL DEF Spec
<1>6. FileInv /\ ReportInv /\ Running => LogTypeOK
  <2>. SUFFICES ASSUME FileInv, ReportInv, Running PROVE LogTypeOK
    OBVIOUS
  <2>1. ASSUME NEW b \in Blocks PROVE file[b] \in Seq(0 .. written[b]) /\ disk[b] \in Seq(0 .. written[b])
    <3>1. written[b] \in Nat /\ Ordered(file[b], written[b]) /\ Ordered(disk[b], written[b])
      BY DEF FileInv, FileTypes, Tracked
    <3>2. ASSUME NEW f, Ordered(f, written[b]) PROVE f \in Seq(0 .. written[b])
      <4>1. /\ Len(f) \in Nat /\ DOMAIN f = 1 .. Len(f)
            /\ \A i \in 1 .. Len(f) : f[i] \in Nat
            /\ f \in [1 .. Len(f) -> Nat]
        BY <3>2, ElementOfSeq, LenProperties DEF Ordered
      <4>2. f \in [1 .. Len(f) -> 0 .. written[b]]
        BY <3>1, <3>2, <4>1 DEF Ordered
      <4>. QED BY <4>1, <4>2, SeqDef
    <3>. QED BY <3>1, <3>2
  <2>2. current_size \in [Blocks -> 0 .. MaxSize]
    BY HalfFacts DEF FileInv, FileTypes, Tracked
  <2>3. \A b \in Blocks : written[b] \in 0 .. MaxMsgs
    BY LogAssumption DEF Running, FileInv, FileTypes
  <2>4. reporter \in [Threads -> [pc : {"idle", "open", "text", "unlink", "link"}, sec : Secs]]
    BY DEF ReportInv, ReportTypes, PCs
  <2>. QED
    BY <2>1, <2>2, <2>3, <2>4 DEF LogTypeOK, Running, FileInv, FileTypes, ReportInv,
       ReportTypes
<1>7. EntryInv => EntryTypeOK
  <2>. SUFFICES ASSUME EntryInv PROVE EntryTypeOK
    OBVIOUS
  <2>1. \A l \in Logs : Len(pieces[l]) \in Nat
    BY LenProperties DEF EntryInv
  <2>2. \A l \in Logs : synced[l] \in 0 .. Len(pieces[l])
    BY <2>1 DEF EntryInv
  <2>3. \A l \in Logs : pieces[l] \in Seq([id : 1 .. MaxAdds, whole : BOOLEAN, nl : BOOLEAN])
    BY Zenon DEF EntryInv, Pieces
  <2>4. \A l \in Logs : expected[l] \subseteq 1 .. adds
    BY DEF EntryInv
  <2>. QED BY <2>2, <2>3, <2>4 DEF EntryInv, EntryTypeOK
<1>. QED
  BY <1>4, <1>5, <1>6, <1>7, FilesTracked, ReportsTracked, PTL DEF TypeOK

-----------------------------------------------------------------------------
(* The entries *)

TornOf(p) == {i \in DOMAIN p : ~p[i].nl}

\* The pieces of a log after n additions and c faults: in the order of the additions,
\* those without a newline no more than the faults.
Legible(p, n, c) ==
  /\ \A i \in DOMAIN p : p[i].id <= n /\ (p[i].whole \/ ~p[i].nl)
  /\ \A i, j \in DOMAIN p : i < j => p[i].id < p[j].id
  /\ Cardinality(TornOf(p)) <= c

Holds(p, entries) == \A e \in entries : \E i \in DOMAIN p : p[i].id = e /\ p[i].nl

EntriesLast ==
  \A l \in Logs : Legible(pieces[l], adds, faults) /\ Holds(pieces[l], expected[l])

LEMMA PieceFacts ==
  ASSUME NEW p \in Seq(Pieces)
  PROVE  /\ Len(p) \in Nat /\ DOMAIN p = 1 .. Len(p)
         /\ \A i \in DOMAIN p : /\ p[i].id \in 1 .. MaxAdds /\ p[i].id \in Nat \ {0}
                                /\ p[i].whole \in BOOLEAN /\ p[i].nl \in BOOLEAN
         /\ IsFiniteSet(DOMAIN p)
         /\ IsFiniteSet(TornOf(p)) /\ Cardinality(TornOf(p)) \in Nat
<1>1. Len(p) \in Nat /\ DOMAIN p = 1 .. Len(p)
  BY LenProperties
<1>2. \A i \in DOMAIN p : p[i] \in Pieces
  BY <1>1, ElementOfSeq
<1>3. IsFiniteSet(DOMAIN p)
  BY <1>1, FS_Interval
<1>4. TornOf(p) \in SUBSET DOMAIN p
  BY DEF TornOf
<1>5. IsFiniteSet(TornOf(p)) /\ Cardinality(TornOf(p)) \in Nat
  BY <1>3, <1>4, FS_Subset, FS_CardinalityType
<1>. QED
  BY <1>1, <1>2, <1>3, <1>5, EntryAssumption DEF Pieces

\* One more entry is newer than the others, and tears none.
LEMMA AddedLegible ==
  ASSUME NEW p \in Seq(Pieces), NEW n \in Nat, n < MaxAdds, NEW c \in Nat, Legible(p, n, c),
         NEW entries, Holds(p, entries)
  PROVE  /\ Legible(Append(p, Added(n + 1)), n + 1, c)
         /\ Holds(Append(p, Added(n + 1)), entries \cup {n + 1})
<1>. DEFINE q == Append(p, Added(n + 1))
<1>1. /\ Len(p) \in Nat /\ DOMAIN p = 1 .. Len(p)
      /\ \A i \in DOMAIN p : p[i].id \in Nat
  BY PieceFacts
<1>2. Added(n + 1) \in Pieces /\ Added(n + 1).id = n + 1 /\ Added(n + 1).nl /\ Added(n + 1).whole
  BY EntryAssumption DEF Added, Pieces
<1>3. /\ q \in Seq(Pieces) /\ DOMAIN q = 1 .. Len(p) + 1
      /\ q[Len(p) + 1] = Added(n + 1) /\ \A i \in DOMAIN p : q[i] = p[i]
  BY <1>1, <1>2, AppendProperties, LenProperties
<1>. HIDE DEF q
<1>4. \A i \in DOMAIN q : i \in DOMAIN p \/ (i = Len(p) + 1 /\ q[i] = Added(n + 1))
  BY <1>1, <1>3
<1>5. TornOf(q) = TornOf(p)
  <2>1. DOMAIN p \subseteq DOMAIN q
    BY <1>1, <1>3
  <2>. QED
    BY <1>2, <1>3, <1>4, <2>1 DEF TornOf
<1>6. \A i \in DOMAIN q : q[i].id <= n + 1 /\ (q[i].whole \/ ~q[i].nl)
  BY <1>1, <1>2, <1>3, <1>4 DEF Legible
<1>7. ASSUME NEW i \in DOMAIN q, NEW j \in DOMAIN q, i < j PROVE q[i].id < q[j].id
  <2>1. i \in DOMAIN p
    BY <1>1, <1>3, <1>7
  <2>2. CASE j \in DOMAIN p
    BY <1>3, <1>7, <2>1, <2>2 DEF Legible
  <2>3. CASE j = Len(p) + 1
    BY <1>1, <1>2, <1>3, <2>1, <2>3 DEF Legible
  <2>. QED
    BY <1>4, <2>2, <2>3
<1>8. DOMAIN p \subseteq DOMAIN q /\ Len(p) + 1 \in DOMAIN q
  BY <1>1, <1>3
<1>9. Holds(q, entries)
  BY <1>3, <1>8 DEF Holds
<1>10. Holds(q, {n + 1})
  BY <1>2, <1>3, <1>8 DEF Holds
<1>. QED
  BY <1>5, <1>6, <1>7, <1>9, <1>10 DEF Legible, Holds, q

\* The beginning of a log is one, and holds what is in its first pieces.
LEMMA PrefixLegible ==
  ASSUME NEW p \in Seq(Pieces), NEW n \in Nat, NEW c \in Nat, Legible(p, n, c),
         NEW entries, Holds(p, entries), NEW m \in 0 .. Len(p), NEW k \in 0 .. m
  PROVE  /\ SubSeq(p, 1, m) \in Seq(Pieces) /\ Len(SubSeq(p, 1, m)) = m
         /\ \A i \in 1 .. m : SubSeq(p, 1, m)[i] = p[i]
         /\ Legible(SubSeq(p, 1, m), n, c)
         /\ Holds(SubSeq(p, 1, m), entries \cap {p[i].id : i \in 1 .. k})
<1>. DEFINE q == SubSeq(p, 1, m)
<1>1. /\ Len(p) \in Nat /\ DOMAIN p = 1 .. Len(p)
      /\ \A i \in DOMAIN p : p[i] \in Pieces /\ p[i].id \in Nat
  BY PieceFacts, ElementOfSeq
<1>2. \A i \in 1 .. m : p[i] \in Pieces
  BY <1>1
<1>3. q \in Seq(Pieces) /\ Len(q) = m /\ \A i \in 1 .. m : q[i] = p[i]
  BY <1>1, <1>2, SubSeqProperties
<1>. HIDE DEF q
<1>4. DOMAIN q = 1 .. m /\ DOMAIN q \subseteq DOMAIN p
  BY <1>1, <1>3, LenProperties
<1>5. TornOf(q) \in SUBSET TornOf(p)
  BY <1>3, <1>4 DEF TornOf
<1>6. Cardinality(TornOf(q)) <= c
  <2>1. /\ Cardinality(TornOf(q)) \in Nat /\ Cardinality(TornOf(p)) \in Nat
        /\ IsFiniteSet(TornOf(p)) /\ Cardinality(TornOf(p)) <= c
    BY <1>3, PieceFacts DEF Legible
  <2>2. Cardinality(TornOf(q)) <= Cardinality(TornOf(p))
    BY <1>5, <2>1, FS_Subset
  <2>. QED
    BY <2>1, <2>2
<1>7. Legible(q, n, c)
  BY <1>3, <1>4, <1>6 DEF Legible
<1>8. ASSUME NEW e \in entries, NEW i \in 1 .. k, e = p[i].id
      PROVE  \E j \in DOMAIN q : q[j].id = e /\ q[j].nl
  <2>1. i \in DOMAIN q /\ i \in DOMAIN p /\ i \in 1 .. m
    BY <1>4
  <2>2. PICK j \in DOMAIN p : p[j].id = e /\ p[j].nl
    BY DEF Holds
  <2>3. p[i].id \in Nat /\ ~(i < j) /\ ~(j < i)
    BY <1>1, <1>8, <2>1, <2>2 DEF Legible
  <2>4. i = j
    BY <1>1, <2>1, <2>3
  <2>. QED
    BY <1>3, <2>1, <2>2, <2>4
<1>9. Holds(q, entries \cap {p[i].id : i \in 1 .. k})
  BY <1>8 DEF Holds
<1>. QED
  BY <1>3, <1>7, <1>9 DEF q

\* A torn last piece is one more without a newline.
LEMMA TornLegible ==
  ASSUME NEW q \in Seq(Pieces), NEW n \in Nat, NEW c \in Nat, Legible(q, n, c),
         NEW piece \in Pieces, piece.id <= n, NEW w \in BOOLEAN,
         \A i \in DOMAIN q : q[i].id < piece.id,
         NEW entries, Holds(q, entries)
  PROVE  /\ Legible(Append(q, Torn(piece, w)), n, c + 1)
         /\ Holds(Append(q, Torn(piece, w)), entries)
<1>. DEFINE last == Torn(piece, w)
            r == Append(q, last)
<1>1. /\ Len(q) \in Nat /\ DOMAIN q = 1 .. Len(q)
      /\ \A i \in DOMAIN q : q[i].id \in Nat
      /\ IsFiniteSet(TornOf(q)) /\ Cardinality(TornOf(q)) \in Nat
  BY PieceFacts
<1>2. last \in Pieces /\ last.id = piece.id /\ ~last.nl
  BY DEF Torn, Pieces
<1>3. /\ r \in Seq(Pieces) /\ DOMAIN r = 1 .. Len(q) + 1
      /\ r[Len(q) + 1] = last /\ \A i \in DOMAIN q : r[i] = q[i]
  BY <1>1, <1>2, AppendProperties, LenProperties
<1>. HIDE DEF r, last
<1>4. \A i \in DOMAIN r : i \in DOMAIN q \/ (i = Len(q) + 1 /\ r[i] = last)
  BY <1>1, <1>3
<1>5. DOMAIN q \subseteq DOMAIN r /\ Len(q) + 1 \in DOMAIN r
  BY <1>1, <1>3
<1>6. TornOf(r) = TornOf(q) \cup {Len(q) + 1}
  BY <1>2, <1>3, <1>4, <1>5 DEF TornOf
<1>7. Cardinality(TornOf(r)) <= c + 1
  <2>1. Cardinality(TornOf(r)) = Cardinality(TornOf(q))
          \/ Cardinality(TornOf(r)) = Cardinality(TornOf(q)) + 1
    BY <1>1, <1>6, FS_AddElement
  <2>. QED
    BY <1>1, <2>1 DEF Legible
<1>8. \A i \in DOMAIN r : r[i].id <= n /\ (r[i].whole \/ ~r[i].nl)
  BY <1>2, <1>3, <1>4 DEF Legible
<1>9. ASSUME NEW i \in DOMAIN r, NEW j \in DOMAIN r, i < j PROVE r[i].id < r[j].id
  <2>1. i \in DOMAIN q
    BY <1>1, <1>3, <1>9
  <2>2. CASE j \in DOMAIN q
    BY <1>3, <1>9, <2>1, <2>2 DEF Legible
  <2>3. CASE j = Len(q) + 1
    BY <1>2, <1>3, <2>1, <2>3
  <2>. QED
    BY <1>4, <2>2, <2>3
<1>10. Holds(r, entries)
  BY <1>3, <1>5 DEF Holds
<1>. QED
  BY <1>7, <1>8, <1>9, <1>10 DEF Legible, r, last

\* What a power cut leaves of a log that holds something.
LEMMA RemainsLegible ==
  ASSUME EntryInv, EntriesLast, NEW l \in Logs, NEW r \in Remains(l)
  PROVE  /\ Legible(r, adds, faults + 1)
         /\ Holds(r, expected[l] \cap {pieces[l][i].id : i \in 1 .. synced[l]})
<1>. DEFINE p == pieces[l]
            still == expected[l] \cap {p[i].id : i \in 1 .. synced[l]}
<1>1. /\ p \in Seq(Pieces) /\ adds \in Nat /\ faults \in Nat
      /\ synced[l] \in Nat /\ synced[l] <= Len(p) /\ Legible(p, adds, faults) /\ Holds(p, expected[l])
  BY EntryAssumption DEF EntryInv, EntriesLast
<1>2. Len(p) \in Nat /\ DOMAIN p = 1 .. Len(p) /\ \A i \in DOMAIN p : p[i] \in Pieces
  BY <1>1, PieceFacts, ElementOfSeq
<1>. HIDE DEF p
<1>3. ASSUME NEW m \in synced[l] .. Len(p)
      PROVE  /\ SubSeq(p, 1, m) \in Seq(Pieces) /\ Len(SubSeq(p, 1, m)) = m
             /\ \A i \in 1 .. m : SubSeq(p, 1, m)[i] = p[i]
             /\ Legible(SubSeq(p, 1, m), adds, faults) /\ Holds(SubSeq(p, 1, m), still)
  <2>1. m \in 0 .. Len(p) /\ synced[l] \in 0 .. m
    BY <1>1, <1>2
  <2>. QED
    BY <1>1, <2>1, PrefixLegible
<1>4. ASSUME NEW m \in synced[l] .. Len(p), r = SubSeq(p, 1, m)
      PROVE  Legible(r, adds, faults + 1) /\ Holds(r, still)
  <2>1. Legible(r, adds, faults) /\ Holds(r, still) /\ Cardinality(TornOf(r)) \in Nat
    BY <1>3, <1>4, PieceFacts
  <2>. QED
    BY <1>1, <2>1 DEF Legible
<1>5. ASSUME NEW m \in synced[l] + 1 .. Len(p), NEW w \in BOOLEAN,
             r = Append(SubSeq(p, 1, m - 1), Torn(p[m], w))
      PROVE  Legible(r, adds, faults + 1) /\ Holds(r, still)
  <2>1. m - 1 \in synced[l] .. Len(p) /\ m \in DOMAIN p /\ m \in Nat
    BY <1>1, <1>2
  <2>2. PICK q \in Seq(Pieces) :
          /\ q = SubSeq(p, 1, m - 1) /\ Len(q) = m - 1 /\ \A i \in 1 .. m - 1 : q[i] = p[i]
          /\ Legible(q, adds, faults) /\ Holds(q, still)
    BY <1>3, <2>1
  <2>3. p[m] \in Pieces /\ p[m].id <= adds
    BY <1>1, <1>2, <2>1 DEF Legible
  <2>4. \A i \in DOMAIN q : q[i].id < p[m].id
    <3>1. \A i \in 1 .. m - 1 : i \in DOMAIN p /\ i < m
      BY <1>2, <2>1
    <3>2. DOMAIN q = 1 .. m - 1
      BY <2>2, LenProperties
    <3>. QED
      BY <1>1, <2>1, <2>2, <3>1, <3>2 DEF Legible
  <2>. QED
    BY <1>1, <1>5, <2>2, <2>3, <2>4, TornLegible
<1>6. \/ \E m \in synced[l] .. Len(p) : r = SubSeq(p, 1, m)
      \/ \E m \in synced[l] + 1 .. Len(p), w \in BOOLEAN :
           r = Append(SubSeq(p, 1, m - 1), Torn(p[m], w))
  BY DEF Remains, p
<1>. QED
  BY <1>4, <1>5, <1>6 DEF p

LEMMA EntriesInit == Init => EntriesLast
<1>. SUFFICES ASSUME Init PROVE EntriesLast
  OBVIOUS
<1>1. adds = 0 /\ faults = 0 /\ \A l \in Logs : expected[l] = {}
  BY DEF Init, EntryInit
<1>2. ASSUME NEW l \in Logs PROVE DOMAIN pieces[l] = {}
  <2>1. pieces[l] = <<>>
    BY DEF Init, EntryInit
  <2>. QED
    BY <2>1, EmptySeq
<1>3. ASSUME NEW l \in Logs PROVE Legible(pieces[l], adds, faults)
  <2>1. TornOf(pieces[l]) = {} /\ Cardinality({}) = 0
    BY <1>2, FS_EmptySet DEF TornOf
  <2>2. Cardinality(TornOf(pieces[l])) = 0
    BY <2>1
  <2>. QED
    BY <1>1, <1>2, <2>2 DEF Legible
<1>. QED
  BY <1>1, <1>3 DEF EntriesLast, Holds

\* An addition that leaves nothing.
LEMMA LaterLegible ==
  ASSUME NEW p \in Seq(Pieces), NEW n \in Nat, NEW c \in Nat, NEW d \in Nat, c <= d, Legible(p, n, c)
  PROVE  Legible(p, n + 1, d)
<1>1. (\A i \in DOMAIN p : p[i].id \in Nat) /\ Cardinality(TornOf(p)) \in Nat
  BY PieceFacts
<1>. QED
  BY <1>1 DEF Legible

\* Additions and power cuts keep the logs in order, with one more piece without a
\* newline at most for each fault, and keep what a cut may not take.
LEMMA EntriesStep ==
  ASSUME EntryInv, EntriesLast, [Next]_<<logVars, entryVars>>
  PROVE  EntriesLast'
<1>1. ASSUME NEW l \in Logs, Add(l) PROVE EntriesLast'
  <2>1. /\ adds \in Nat /\ adds < MaxAdds /\ adds' = adds + 1 /\ faults \in Nat
        /\ adds + 1 \in Nat /\ faults + 1 \in Nat /\ faults' \in {faults, faults + 1}
    BY <1>1, AddCases
  <2>2. /\ pieces \in [Logs -> Seq(Pieces)] /\ expected \in [Logs -> SUBSET (1 .. adds)]
        /\ \A k \in Logs : /\ pieces[k] \in Seq(Pieces) /\ Legible(pieces[k], adds, faults)
                           /\ Holds(pieces[k], expected[k])
    BY DEF EntryInv, EntriesLast
  <2>3. ASSUME NEW k \in Logs, pieces'[k] = pieces[k], expected'[k] = expected[k]
        PROVE  Legible(pieces'[k], adds', faults') /\ Holds(pieces'[k], expected'[k])
    <3>1. faults' \in Nat /\ faults <= faults'
      BY <2>1
    <3>2. Legible(pieces[k], adds + 1, faults')
      BY <2>1, <2>2, <3>1, LaterLegible
    <3>. QED
      BY <2>1, <2>2, <2>3, <3>2
  <2>4. CASE /\ pieces' = [pieces EXCEPT ![l] = Append(pieces[l], Added(adds + 1))]
             /\ expected' = [expected EXCEPT ![l] = expected[l] \cup {adds + 1}]
             /\ UNCHANGED faults
    <3>1. /\ Legible(Append(pieces[l], Added(adds + 1)), adds + 1, faults)
          /\ Holds(Append(pieces[l], Added(adds + 1)), expected[l] \cup {adds + 1})
      BY <2>1, <2>2, AddedLegible
    <3>2. /\ pieces'[l] = Append(pieces[l], Added(adds + 1)) /\ expected'[l] = expected[l] \cup {adds + 1}
          /\ \A k \in Logs \ {l} : pieces'[k] = pieces[k] /\ expected'[k] = expected[k]
      BY <2>2, <2>4
    <3>. QED
      BY <2>1, <2>3, <2>4, <3>1, <3>2 DEF EntriesLast
  <2>5. ASSUME NEW w \in BOOLEAN, faults' = faults + 1, UNCHANGED expected,
               pieces' = [pieces EXCEPT ![l] = Append(pieces[l], Torn(Added(adds + 1), w))]
        PROVE  EntriesLast'
    <3>1. Added(adds + 1) \in Pieces /\ Added(adds + 1).id = adds + 1
      BY <2>1, EntryAssumption DEF Added, Pieces
    <3>2. pieces[l] \in Seq(Pieces) /\ Legible(pieces[l], adds + 1, faults)
      BY <2>1, <2>2, LaterLegible
    <3>3. \A i \in DOMAIN pieces[l] : pieces[l][i].id < adds + 1
      <4>1. \A i \in DOMAIN pieces[l] : pieces[l][i].id \in Nat /\ pieces[l][i].id <= adds
        BY <2>2, PieceFacts DEF Legible
      <4>. QED
        BY <2>1, <4>1
    <3>4. /\ Legible(Append(pieces[l], Torn(Added(adds + 1), w)), adds + 1, faults + 1)
          /\ Holds(Append(pieces[l], Torn(Added(adds + 1), w)), expected[l])
      <4>1. Holds(pieces[l], expected[l]) /\ Added(adds + 1).id <= adds + 1
        BY <2>1, <2>2, <3>1
      <4>2. \A i \in DOMAIN pieces[l] : pieces[l][i].id < Added(adds + 1).id
        BY <3>1, <3>3
      <4>. QED
        BY <2>1, <3>1, <3>2, <4>1, <4>2, TornLegible
    <3>5. /\ pieces'[l] = Append(pieces[l], Torn(Added(adds + 1), w)) /\ expected' = expected
          /\ \A k \in Logs \ {l} : pieces'[k] = pieces[k]
      BY <2>2, <2>5
    <3>. QED
      BY <2>1, <2>3, <2>5, <3>4, <3>5 DEF EntriesLast
  <2>6. CASE UNCHANGED <<pieces, faults, expected>>
    BY <2>3, <2>6 DEF EntriesLast
  <2>. QED
    BY <1>1, <2>4, <2>5, <2>6, AddCases
<1>2. CASE Cut
  <2>1. PICK b \in Remains("boot"), u \in Remains("update") :
          pieces' = [l \in Logs |-> IF l = "boot" THEN b ELSE u]
    BY <1>2 DEF Cut
  <2>2. /\ adds' = adds /\ adds \in Nat /\ faults \in Nat /\ faults' = IF adds = 0 THEN 0 ELSE faults + 1
        /\ \A l \in Logs : expected'[l] = expected[l] \cap {pieces[l][i].id : i \in 1 .. synced[l]}
    BY <1>2 DEF Cut, EntryInv
  <2>3. ASSUME NEW l \in Logs PROVE Legible(pieces'[l], adds', faults') /\ Holds(pieces'[l], expected'[l])
    <3>1. PICK r \in Remains(l) : pieces'[l] = r
      BY <2>1 DEF Logs
    <3>2. /\ Legible(r, adds, faults + 1)
          /\ Holds(r, expected[l] \cap {pieces[l][i].id : i \in 1 .. synced[l]})
      BY <3>1, RemainsLegible
    <3>3. CASE adds = 0
      <4>1. r \in Seq(Pieces)
        BY <3>1, RemainsType
      <4>2. DOMAIN r = {}
        BY <2>2, <3>2, <3>3, <4>1, PieceFacts DEF Legible
      <4>3. TornOf(r) = {}
        BY <4>2 DEF TornOf
      <4>4. Cardinality(TornOf(r)) <= faults'
        BY <2>2, <3>3, <4>3, FS_EmptySet
      <4>5. Legible(r, adds', faults')
        BY <4>2, <4>4 DEF Legible
      <4>. QED
        BY <2>2, <3>1, <3>2, <4>5
    <3>. QED
      BY <2>2, <3>1, <3>2, <3>3
  <2>. QED
    BY <2>3 DEF EntriesLast
<1>3. ASSUME NEW l \in Logs, WriteBack(l) PROVE EntriesLast'
  BY <1>3 DEF WriteBack, EntriesLast
<1>4. CASE UNCHANGED entryVars
  BY <1>4 DEF entryVars, EntriesLast
<1>5. CASE bb_persist_boot_log_add \/ bb_persist_update_log_add
  BY <1>1, <1>5 DEF bb_persist_boot_log_add, bb_persist_update_log_add, Logs
<1>. QED
  BY <1>2, <1>3, <1>4, <1>5 DEF Next, EntryNext, PowerCut

-----------------------------------------------------------------------------
(* The readers *)

\* The least element of a set of numbers.
LEMMA MinFacts ==
  ASSUME NEW S \in SUBSET Nat, S # {}
  PROVE  Min(S) \in S /\ \A y \in S : Min(S) <= y
<1>. DEFINE Upto == {0 .. x : x \in S}
<1>1. Upto \subseteq FiniteSubsetsOf(Nat) /\ Upto # {}
  <2>1. ASSUME NEW x \in S PROVE 0 .. x \in FiniteSubsetsOf(Nat)
    BY FS_Interval DEF FiniteSubsetsOf
  <2>. QED
    BY <2>1
<1>2. PICK U \in Upto : \A V \in Upto : <<V, U>> \notin StrictSubsetOrdering(Nat)
  <2>. HIDE DEF Upto
  <2>. QED
    BY <1>1, FS_StrictSubsetOrderingWellFounded, WFMin
<1>3. PICK x \in S : U = 0 .. x
  OBVIOUS
<1>4. ASSUME NEW y \in S PROVE x <= y
  <2>1. SUFFICES ASSUME y < x PROVE FALSE
    OBVIOUS
  <2>2. 0 .. y \subseteq 0 .. x /\ 0 .. y # 0 .. x
    BY <2>1
  <2>3. 0 .. y \in SUBSET Nat /\ 0 .. x \in SUBSET Nat
    OBVIOUS
  <2>4. <<0 .. y, 0 .. x>> \in StrictSubsetOrdering(Nat)
    BY <2>2, <2>3, Zenon DEF StrictSubsetOrdering
  <2>. QED
    BY <1>2, <1>3, <2>4
<1>. QED
  BY <1>4 DEF Min

\* A reader that has not filled the array has come to the end of the file.
LEMMA FirstOfAll ==
  ASSUME NEW S \in SUBSET Nat, IsFiniteSet(S), Cardinality(FirstOf(S)) < MaxEntries
  PROVE  FirstOf(S) = S
<1>. DEFINE left == S \ FirstOf(S)
<1>1. SUFFICES ASSUME left # {} PROVE FALSE
  BY DEF FirstOf
<1>2. PICK m \in left : \A y \in left : m <= y
  <2>1. left \in SUBSET Nat
    OBVIOUS
  <2>. HIDE DEF left
  <2>. QED
    BY <1>1, <2>1, MinFacts
<1>. DEFINE before == {j \in S : j < m}
<1>3. before \in SUBSET FirstOf(S)
  <2>1. ASSUME NEW j \in S, j < m, j \notin FirstOf(S) PROVE FALSE
    <3>1. m <= j /\ j \in Nat /\ m \in Nat
      BY <1>2, <2>1
    <3>. QED
      BY <2>1, <3>1
  <2>. QED
    BY <2>1
<1>4. FirstOf(S) \in SUBSET S
  BY DEF FirstOf
<1>5. IsFiniteSet(FirstOf(S)) /\ Cardinality(FirstOf(S)) \in Nat
  BY <1>4, FS_Subset, FS_CardinalityType
<1>6. Cardinality(before) <= Cardinality(FirstOf(S)) /\ Cardinality(before) \in Nat
  BY <1>3, <1>5, FS_Subset, FS_CardinalityType
<1>7. Cardinality(before) < MaxEntries
  BY <1>5, <1>6, EntryAssumption
<1>. QED
  BY <1>2, <1>7 DEF FirstOf

\* What makes a reading of log l a good one, whichever lines D the reader takes for
\* entries: it takes every line that is not torn for the entry it holds, and a torn
\* one for an entry of the line or for one that was never added.
GoodReading(l, D, r) ==
  /\ D \subseteq Starts(l) /\ DOMAIN r = FirstOf(D)
  /\ \A i \in Starts(l) : pieces[l][i].nl => i \in D
  /\ \A i \in DOMAIN r : \/ ~pieces[l][i].nl /\ r[i] = 0
                         \/ \E k \in Line(l, i) : r[i] = pieces[l][k].id
  /\ \A i \in DOMAIN r : pieces[l][i].nl => r[i] = pieces[l][i].id

\* No line reaches beyond the first piece of a later one.
LEMMA LinesApart ==
  ASSUME EntryInv, NEW l \in Logs, NEW i \in Starts(l), NEW j \in Starts(l), i < j,
         NEW k \in Line(l, i)
  PROVE  k < j
<1>1. i \in Nat \ {0} /\ j \in Nat \ {0} /\ k \in Nat /\ i <= k
  BY PieceFacts DEF EntryInv, Starts, Line
<1>2. SUFFICES ASSUME j <= k PROVE FALSE
  BY <1>1
<1>3. j - 1 \in i .. k - 1
  BY <1>1, <1>2
<1>. QED
  BY <1>1, <1>3 DEF Line, Starts

LEMMA GoodKept ==
  ASSUME EntryInv, EntriesLast, NEW l \in Logs, NEW D, NEW r, GoodReading(l, D, r)
  PROVE  Kept(l, r)
<1>. DEFINE p == pieces[l]
            torn == TornOf(p)
<1>1. /\ p \in Seq(Pieces) /\ adds \in Nat /\ faults \in Nat
      /\ Legible(p, adds, faults) /\ Holds(p, expected[l])
  BY EntryAssumption DEF EntryInv, EntriesLast
<1>2. /\ Len(p) \in Nat /\ DOMAIN p = 1 .. Len(p) /\ \A i \in DOMAIN p : p[i].id \in Nat \ {0}
      /\ IsFiniteSet(DOMAIN p) /\ IsFiniteSet(torn) /\ Cardinality(torn) \in Nat
      /\ Cardinality(torn) <= faults
  BY <1>1, PieceFacts DEF Legible
<1>3. D \subseteq DOMAIN p /\ D \in SUBSET Nat /\ DOMAIN r \subseteq D
  BY <1>2 DEF GoodReading, Starts, FirstOf
<1>4. \A i \in Starts(l) : \A k \in Line(l, i) : i <= k /\ k \in DOMAIN p
  BY DEF Line
<1>5. \A i \in DOMAIN r : i \in Starts(l)
  BY <1>3 DEF GoodReading
<1>. HIDE DEF p
<1>6. \A i \in DOMAIN r : r[i] = 0 \/ \E k \in Line(l, i) : r[i] = p[k].id
  BY DEF GoodReading, p
<1>7. ASSUME NEW i \in DOMAIN r, NEW j \in DOMAIN r, i < j, r[j] # 0 PROVE r[i] < r[j]
  <2>1. i \in Starts(l) /\ j \in Starts(l) /\ i \in Nat /\ j \in Nat
    BY <1>3, <1>5
  <2>2. PICK k \in Line(l, j) : r[j] = p[k].id
    BY <1>6, <1>7
  <2>3. j <= k /\ k \in DOMAIN p /\ k \in Nat /\ p[k].id \in Nat \ {0}
    BY <1>2, <1>4, <2>1
  <2>4. CASE r[i] = 0
    BY <2>2, <2>3, <2>4
  <2>5. ASSUME NEW h \in Line(l, i), r[i] = p[h].id PROVE r[i] < r[j]
    <3>1. h < j /\ h \in DOMAIN p
      BY <1>4, <1>7, <2>1, LinesApart
    <3>2. h < k
      BY <1>2, <2>1, <2>3, <3>1
    <3>. QED
      BY <1>1, <2>2, <2>3, <2>5, <3>1, <3>2 DEF Legible
  <2>. QED
    BY <1>6, <2>4, <2>5
<1>8. Cardinality({i \in DOMAIN r : r[i] = 0}) <= faults
  <2>. DEFINE zeros == {i \in DOMAIN r : r[i] = 0}
  <2>1. ASSUME NEW i \in zeros PROVE i \in torn
    <3>1. i \in DOMAIN p /\ i \in DOMAIN r /\ r[i] = 0 /\ i \in Starts(l)
      BY <1>3, <1>5
    <3>2. ~p[i].nl
      <4>1. ASSUME NEW k \in Line(l, i), r[i] = p[k].id PROVE FALSE
        BY <1>2, <1>4, <3>1, <4>1
      <4>. QED
        BY <3>1, <4>1 DEF GoodReading, p
    <3>. QED
      BY <3>1, <3>2 DEF TornOf
  <2>2. zeros \in SUBSET torn
    BY <2>1
  <2>. HIDE DEF zeros, torn
  <2>3. IsFiniteSet(zeros) /\ Cardinality(zeros) <= Cardinality(torn) /\ Cardinality(zeros) \in Nat
    BY <1>2, <2>2, FS_Subset, FS_CardinalityType
  <2>4. Cardinality(zeros) <= faults
    BY <1>1, <1>2, <2>3
  <2>. QED
    BY <2>4 DEF zeros
<1>9. ASSUME Cardinality(DOMAIN r) < MaxEntries
      PROVE  Cardinality(expected[l] \ Range(r)) <= faults
  <2>1. DOMAIN r = D
    <3>1. IsFiniteSet(D)
      BY <1>2, <1>3, FS_Subset
    <3>. QED
      BY <1>3, <1>9, <3>1, FirstOfAll DEF GoodReading
  <2>. DEFINE missing == expected[l] \ Range(r)
              before == {t \in torn : t + 1 \in DOMAIN p /\ p[t + 1].id \in missing}
              f == [t \in before |-> p[t + 1].id]
  <2>2. ASSUME NEW e \in missing PROVE \E t \in before : f[t] = e
    <3>1. PICK i \in DOMAIN p : p[i].id = e /\ p[i].nl
      BY <1>1 DEF Holds
    <3>2. i \notin Starts(l)
      <4>1. SUFFICES ASSUME i \in Starts(l) PROVE FALSE
        OBVIOUS
      <4>2. i \in DOMAIN r /\ r[i] = e
        BY <2>1, <3>1, <4>1 DEF GoodReading, p
      <4>. QED
        BY <4>2 DEF Range
    <3>3. i # 1 /\ ~p[i - 1].nl
      BY <3>1, <3>2 DEF Starts, p
    <3>4. i - 1 \in DOMAIN p /\ (i - 1) + 1 = i
      BY <1>2, <3>3
    <3>5. i - 1 \in before
      BY <3>1, <3>3, <3>4 DEF TornOf
    <3>. QED
      BY <3>1, <3>4, <3>5
  <2>3. f \in Surjection(before, missing)
    <3>1. f \in [before -> missing]
      OBVIOUS
    <3>. HIDE DEF f, before, missing
    <3>. QED
      BY <2>2, <3>1, Zenon DEF Surjection
  <2>4. before \in SUBSET torn
    OBVIOUS
  <2>. HIDE DEF f, before, missing, torn
  <2>5. IsFiniteSet(before) /\ Cardinality(before) <= Cardinality(torn) /\ Cardinality(before) \in Nat
    BY <1>2, <2>4, FS_Subset, FS_CardinalityType
  <2>6. IsFiniteSet(missing) /\ Cardinality(missing) <= Cardinality(before) /\ Cardinality(missing) \in Nat
    BY <2>3, <2>5, FS_Surjection, FS_CardinalityType
  <2>7. Cardinality(missing) <= faults
    BY <1>1, <1>2, <2>5, <2>6
  <2>. QED
    BY <2>7 DEF missing
<1>. QED
  BY <1>7, <1>8, <1>9 DEF Kept

\* A line that is not torn is its first piece alone.
LEMMA WholeLine ==
  ASSUME EntryInv, EntriesLast, NEW l \in Logs, NEW i \in Starts(l)
  PROVE  /\ i \in Line(l, i) /\ Line(l, i) \subseteq Nat
         /\ pieces[l][i].nl => pieces[l][i].whole /\ Line(l, i) = {i}
<1>1. /\ pieces[l] \in Seq(Pieces) /\ DOMAIN pieces[l] \subseteq Nat /\ i \in DOMAIN pieces[l]
      /\ Legible(pieces[l], adds, faults) /\ i \in Nat
  BY PieceFacts DEF EntryInv, EntriesLast, Starts
<1>2. i \in Line(l, i) /\ Line(l, i) \subseteq Nat
  BY <1>1 DEF Line
<1>3. ASSUME pieces[l][i].nl, NEW k \in Line(l, i), k # i PROVE FALSE
  <2>1. i <= k /\ k \in Nat
    BY <1>2 DEF Line
  <2>2. i \in i .. k - 1
    BY <1>1, <1>3, <2>1
  <2>. QED
    BY <1>3, <2>2 DEF Line
<1>. QED
  BY <1>1, <1>2, <1>3 DEF Legible

LEMMA BootReadingGood ==
  ASSUME EntryInv, EntriesLast,
         NEW refused \in SUBSET {i \in Starts("boot") : ~pieces["boot"][i].whole}
  PROVE  GoodReading("boot", Starts("boot") \ refused, Ids(BootReading(refused)))
<1>. DEFINE D == Starts("boot") \ refused
            r == Ids(BootReading(refused))
<1>1. "boot" \in Logs
  BY DEF Logs
<1>2. \A i \in Starts("boot") : /\ i \in Line("boot", i)
                                /\ pieces["boot"][i].nl => /\ pieces["boot"][i].whole
                                                           /\ Line("boot", i) = {i}
  BY <1>1, WholeLine
<1>3. /\ DOMAIN r = FirstOf(D)
      /\ \A i \in DOMAIN r : r[i] = IF pieces["boot"][i].whole /\ Line("boot", i) = {i}
                                    THEN pieces["boot"][i].id ELSE 0
  BY DEF BootReading, Ids, Shown, Garbled
<1>4. DOMAIN r \subseteq Starts("boot")
  BY <1>3 DEF FirstOf
<1>5. ASSUME NEW i \in Starts("boot"), pieces["boot"][i].nl PROVE i \in D
  BY <1>2, <1>5
<1>. HIDE DEF r
<1>6. ASSUME NEW i \in DOMAIN r PROVE /\ \/ ~pieces["boot"][i].nl /\ r[i] = 0
                                         \/ \E k \in Line("boot", i) : r[i] = pieces["boot"][k].id
                                      /\ pieces["boot"][i].nl => r[i] = pieces["boot"][i].id
  BY <1>2, <1>3, <1>4
<1>. QED
  BY <1>3, <1>5, <1>6 DEF GoodReading, r

LEMMA UpdateReadingGood ==
  ASSUME EntryInv, EntriesLast,
         NEW mixed \in SUBSET {i \in Starts("update") : ~pieces["update"][i].whole}
  PROVE  GoodReading("update", Starts("update"), Ids(UpdateReading(mixed)))
<1>. DEFINE r == Ids(UpdateReading(mixed))
            wholes(i) == {k \in Line("update", i) : pieces["update"][k].whole}
<1>1. "update" \in Logs
  BY DEF Logs
<1>2. \A i \in Starts("update") : /\ i \in Line("update", i) /\ Line("update", i) \subseteq Nat
                                  /\ pieces["update"][i].nl => /\ pieces["update"][i].whole
                                                               /\ Line("update", i) = {i}
  BY <1>1, WholeLine
<1>3. /\ DOMAIN r = FirstOf(Starts("update"))
      /\ \A i \in DOMAIN r : r[i] = IF i \in mixed \/ wholes(i) = {} THEN 0
                                    ELSE pieces["update"][Min(wholes(i))].id
  BY DEF UpdateReading, Ids, Shown, Garbled
<1>4. DOMAIN r \subseteq Starts("update")
  BY <1>3 DEF FirstOf
<1>. HIDE DEF r
<1>5. ASSUME NEW i \in DOMAIN r
      PROVE  /\ \/ ~pieces["update"][i].nl /\ r[i] = 0
                \/ \E k \in Line("update", i) : r[i] = pieces["update"][k].id
             /\ pieces["update"][i].nl => r[i] = pieces["update"][i].id
  <2>1. i \in Starts("update")
    BY <1>4
  <2>2. CASE i \in mixed \/ wholes(i) = {}
    <3>1. ~pieces["update"][i].nl
      BY <1>2, <2>1, <2>2
    <3>. QED
      BY <1>3, <2>2, <3>1
  <2>3. CASE i \notin mixed /\ wholes(i) # {}
    <3>1. wholes(i) \in SUBSET Nat /\ wholes(i) \subseteq Line("update", i)
      BY <1>2, <2>1
    <3>2. PICK k \in wholes(i) : k = Min(wholes(i))
      <4>. HIDE DEF wholes
      <4>. QED
        BY <2>3, <3>1, MinFacts
    <3>3. r[i] = pieces["update"][k].id
      BY <1>3, <2>3, <3>2
    <3>4. pieces["update"][i].nl => k = i
      BY <1>2, <2>1, <3>1, <3>2
    <3>. QED
      BY <3>1, <3>2, <3>3, <3>4
  <2>. QED
    BY <2>2, <2>3
<1>. QED
  BY <1>3, <1>5 DEF GoodReading, r

\* Whatever power cuts and failing appends tear, the readers of both logs return the
\* entries in the order of the additions; each fault costs at most one of those that
\* were written in full and on the disk or written later, and makes at most one that
\* was never added.
THEOREM EntriesAlwaysKept == Spec => []EntriesKept
<1>1. EntryInv /\ [Next]_<<logVars, entryVars>> => EntryInv'
  BY EntryStep
<1>2. EntryInv /\ EntriesLast /\ [Next]_<<logVars, entryVars>> => EntriesLast'
  BY EntriesStep
<1>3. EntryInv /\ EntriesLast => EntriesKept
  <2>. SUFFICES ASSUME EntryInv, EntriesLast PROVE EntriesKept
    OBVIOUS
  <2>1. ASSUME NEW r \in BootReadings PROVE Kept("boot", Ids(r))
    <3>1. PICK refused \in SUBSET {i \in Starts("boot") : ~pieces["boot"][i].whole} :
            r = BootReading(refused)
      BY DEF BootReadings
    <3>. QED
      BY <3>1, BootReadingGood, GoodKept DEF Logs
  <2>2. ASSUME NEW r \in UpdateReadings PROVE Kept("update", Ids(r))
    <3>1. PICK mixed \in SUBSET {i \in Starts("update") : ~pieces["update"][i].whole} :
            r = UpdateReading(mixed)
      BY DEF UpdateReadings
    <3>. QED
      BY <3>1, UpdateReadingGood, GoodKept DEF Logs
  <2>. QED
    BY <2>1, <2>2 DEF EntriesKept
<1>. QED
  BY <1>1, <1>2, <1>3, InitEntries, EntriesInit, PTL DEF Spec
=============================================================================
