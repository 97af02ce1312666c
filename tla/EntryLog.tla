------------------------------ MODULE EntryLog ------------------------------
(***************************************************************************)
(* The boot log and the update log of libbb/bb_persist.c: text files of    *)
(* one line per entry that are appended to, never cut and never synced,    *)
(* and what their readers make of a line that a power cut or a full        *)
(* partition has torn.                                                     *)
(*                                                                         *)
(* A file is the sequence of the pieces of text the appends have left:     *)
(* the entry, whether its text is whole, and whether its newline is there. *)
(* Of what an entry says there is its number and whether it reports a      *)
(* success.                                                                *)
(***************************************************************************)
EXTENDS Integers, Sequences, FiniteSets, FiniteSetsExt, Functions

CONSTANTS
  MaxEntries,   \* max_entries of the readers
  MaxAdds,      \* bound on the entries
  Succeeded     \* the entries that report a success

ASSUME EntryAssumption == MaxEntries \in Nat /\ MaxAdds \in Nat /\ Succeeded \subseteq Nat

VARIABLES
  pieces,     \* per log
  synced,     \* per log: how many of the pieces are on the disk
  adds,       \* entries handed to the add functions
  faults,     \* torn appends, and power cuts since the first entry
  expected    \* history, per log: the entries that were written in full and
              \* that no power cut may have taken

entryVars == <<pieces, synced, adds, faults, expected>>

Logs == {"boot", "update"}

EntryInit ==
  /\ pieces = [l \in Logs |-> <<>>] /\ synced = [l \in Logs |-> 0]
  /\ adds = 0 /\ faults = 0 /\ expected = [l \in Logs |-> {}]

Added(id) == [id |-> id, whole |-> TRUE, nl |-> TRUE]

Torn(piece, w) == [piece EXCEPT !.whole = @ /\ w, !.nl = FALSE]

\* The results of fprintf and fclose are not looked at: on a full partition an
\* entry is torn or leaves nothing, and 0 is returned; -1 only if fopen fails.
Add(l) ==
  /\ adds < MaxAdds /\ adds' = adds + 1
  /\ \/ /\ pieces' = [pieces EXCEPT ![l] = Append(@, Added(adds'))]
        /\ expected' = [expected EXCEPT ![l] = @ \cup {adds'}]
        /\ UNCHANGED faults
     \/ /\ \E w \in BOOLEAN :
             pieces' = [pieces EXCEPT ![l] = Append(@, Torn(Added(adds'), w))]
        /\ faults' = faults + 1
        /\ UNCHANGED expected
     \/ UNCHANGED <<pieces, faults, expected>>
  /\ UNCHANGED synced

bb_persist_boot_log_add == Add("boot")
bb_persist_update_log_add == Add("update")

WriteBack(l) ==
  /\ synced[l] < Len(pieces[l])
  /\ synced' = [synced EXCEPT ![l] = Len(pieces[l])]
  /\ UNCHANGED <<pieces, adds, faults, expected>>

\* What a power cut may leave of a file: the pieces on the disk and some of the
\* others, the last one of these perhaps in part.
Remains(l) ==
  {SubSeq(pieces[l], 1, n) : n \in synced[l] .. Len(pieces[l])}
    \cup {Append(SubSeq(pieces[l], 1, n - 1), Torn(pieces[l][n], w)) :
            n \in synced[l] + 1 .. Len(pieces[l]), w \in BOOLEAN}

Cut ==
  /\ faults' = IF adds = 0 THEN 0 ELSE faults + 1
  /\ \E b \in Remains("boot"), u \in Remains("update") :
       /\ pieces' = [l \in Logs |-> IF l = "boot" THEN b ELSE u]
       /\ synced' = [l \in Logs |-> Len(pieces'[l])]
  /\ expected' = [l \in Logs |-> expected[l] \cap {pieces[l][i].id : i \in 1 .. synced[l]}]
  /\ UNCHANGED adds

EntryNext == \/ bb_persist_boot_log_add \/ bb_persist_update_log_add
             \/ \E l \in Logs : WriteBack(l)

-----------------------------------------------------------------------------
(* The readers *)

Starts(l) == {i \in DOMAIN pieces[l] : i = 1 \/ pieces[l][i - 1].nl}

\* The line that starts with piece i: the piece and those glued to it.
Line(l, i) == {k \in DOMAIN pieces[l] : i <= k /\ \A j \in i .. k - 1 : ~pieces[l][j].nl}

\* The lines that fill the array: no more than max_entries.
FirstOf(S) == {i \in S : Cardinality({j \in S : j < i}) < MaxEntries}

\* bb_persist_update_log_add writes success as a number and its reader looks for
\* the t of "true": no entry of the update log reads as a success.
Shown(l, id) == [id |-> id, success |-> l = "boot" /\ id \in Succeeded]
Garbled == [id |-> 0, success |-> FALSE]

\* A reading is the array, in the order of the lines its entries are from; the
\* number 0 is an entry that was never added, whatever it says.  sscanf refuses some of the torn
\* lines, and takes the digits of two glued entries for one number.
BootReading(refused) ==
  [i \in FirstOf(Starts("boot") \ refused) |->
     IF pieces["boot"][i].whole /\ Line("boot", i) = {i}
     THEN Shown("boot", pieces["boot"][i].id) ELSE Garbled]

\* Mutant: the reader stops at the first damaged line.
BootReadings_Stop ==
  LET damaged == {i \in Starts("boot") : ~pieces["boot"][i].whole \/ Line("boot", i) # {i}}
  IN  {BootReading({i \in Starts("boot") : \E j \in damaged : j <= i})}

BootReadings ==
  {BootReading(refused) : refused \in SUBSET {i \in Starts("boot") : ~pieces["boot"][i].whole}}

\* strstr finds the first of each key: of a torn entry what there is of it, and what
\* is missing in those glued to it, perhaps everything in the first whole one.
UpdateReading(mixed) ==
  LET wholes(i) == {k \in Line("update", i) : pieces["update"][k].whole}
  IN  [i \in FirstOf(Starts("update")) |->
         IF i \in mixed \/ wholes(i) = {} THEN Garbled
         ELSE Shown("update", pieces["update"][Min(wholes(i))].id)]

UpdateReadings ==
  {UpdateReading(mixed) : mixed \in SUBSET {i \in Starts("update") : ~pieces["update"][i].whole}}

-----------------------------------------------------------------------------
(* Correctness *)

EntryTypeOK ==
  /\ \A l \in Logs : /\ pieces[l] \in Seq([id : 1 .. MaxAdds, whole : BOOLEAN, nl : BOOLEAN])
                     /\ synced[l] \in 0 .. Len(pieces[l])
                     /\ expected[l] \subseteq 1 .. adds
  /\ adds \in 0 .. MaxAdds /\ faults \in Nat

Ids(r) == [i \in DOMAIN r |-> r[i].id]

\* The numbers of a reading are in the order of the additions; each fault costs
\* at most one of the entries that were written in full and were on the disk at
\* the last power cut or added after it, and makes at most one never added.
Kept(l, ids) ==
  /\ \A i, j \in DOMAIN ids : i < j /\ ids[j] # 0 => ids[i] < ids[j]
  /\ Cardinality({i \in DOMAIN ids : ids[i] = 0}) <= faults
  /\ Cardinality(DOMAIN ids) < MaxEntries => Cardinality(expected[l] \ Range(ids)) <= faults

\* The readers of both logs: a line torn by a power cut or by an append to a full
\* partition costs no more than itself and the entry that the next append glues
\* to it.  An append that leaves nothing is lost without a trace, and what an
\* update entry says of its success is never read back: of both nothing is kept.
EntriesKept ==
  /\ \A r \in BootReadings : Kept("boot", Ids(r))
  /\ \A r \in UpdateReadings : Kept("update", Ids(r))
=============================================================================
