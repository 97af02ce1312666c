--------------------------- MODULE RecoveryProofs ---------------------------
(***************************************************************************)
(* Proofs about the settings, their snapshots and restores, for any        *)
(* namespaces, keys and values, root slots and processes, any number of    *)
(* calls and power cuts, and partitions that may fill at any time.         *)
(*                                                                         *)
(* The types hold for any number of writers: the inodes never run out, and *)
(* no two names lead to one.  That nothing is lost holds with one writer   *)
(* for each namespace.  Its invariant adds that a call's temporary file is *)
(* its own, that what a get has opened is not written any more, what each  *)
(* call is about to put in place, and that the disk is a state of whole    *)
(* calls; and for a restore, that a whole archive holds of every namespace *)
(* what was set while it was taken.                                        *)
(***************************************************************************)
EXTENDS Recovery, FiniteSetTheorems, WellFoundedInduction, TLAPS

\* An inode lies where its name is.
MayName(p, n) == {NoFile} \cup {i \in Inodes : i[1] = p /\ i[2] = n}
File == {NoFile} \cup Inodes

\* No two names lead to one inode.
NamesOK(c, t) ==
  /\ c \in [Places -> [Namespaces -> File]] /\ t \in [Places -> [Namespaces -> File]]
  /\ \A p \in Places, n \in Namespaces :
       /\ c[p][n] \in MayName(p, n) /\ t[p][n] \in MayName(p, n)
       /\ c[p][n] = t[p][n] => c[p][n] = NoFile

FilesOK ==
  /\ slot \in Slots /\ mounts \subseteq {"persist", "log"}
  /\ data \in [Inodes -> Contents]
  /\ NamesOK(conf, tmp)

SetTypes == [pc : {"idle", "create", "copy", "close", "rename"},
             key : Keys \cup {NoValue}, value : Values \cup {NoValue},
             in : File, out : File, text : Contents, short : BOOLEAN]
GetTypes == [pc : {"idle", "read", "done"}, ns : Namespaces \cup {NoValue}, key : Keys \cup {NoValue},
             in : File, result : Values \cup {NoValue}, possible : SUBSET (Values \cup {NoValue})]

\* What a call that is under way has.
CallsOK ==
  /\ setter \in [Setters -> SetTypes] /\ getter \in GetTypes
  /\ \A s \in Setters :
       /\ setter[s].pc # "idle" => setter[s].key \in Keys /\ setter[s].value \in Values
       /\ setter[s].pc = "create" => setter[s].out = NoFile
       /\ setter[s].pc \in {"copy", "close", "rename"} => setter[s].out \in Inodes
  /\ getter.pc = "read" => getter.ns \in Namespaces /\ getter.key \in Keys

HistoryOK ==
  /\ disk \in [Places -> [Namespaces -> Contents]]
  /\ settings \in [Namespaces -> Contents] /\ saved \in [Namespaces -> Contents]
  /\ spoiled \in BOOLEAN /\ sets \in 0 .. MaxSets /\ reboots \in 0 .. MaxReboots

-----------------------------------------------------------------------------
(* Inodes *)

LEMMA NoFileIsNone == NoFile \notin Inodes
BY DEF NoFile, Inodes

LEMMA InodeParts ==
  ASSUME NEW i \in Inodes
  PROVE  /\ i = <<i[1], i[2], i[3]>> /\ i[1] \in Places /\ i[2] \in Namespaces
         /\ i[3] \in 1 .. 2 * Cardinality(Setters) + 3
BY DEF Inodes

LEMMA Roomy == /\ Cardinality(Setters) \in Nat
               /\ \A p \in Places, n \in Namespaces : /\ <<p, n, 1>> \in Inodes /\ <<p, n, 2>> \in Inodes
<1>1. Cardinality(Setters) \in Nat
  BY PersistAssumption, FS_CardinalityType
<1>2. PICK c \in Nat : c = 2 * Cardinality(Setters) + 3
  BY <1>1
<1>3. 1 \in 1 .. c /\ 2 \in 1 .. c
  BY <1>1, <1>2
<1>. QED
  BY <1>1, <1>2, <1>3 DEF Inodes

LEMMA HereIsPlace == ASSUME FilesOK PROVE Here \in Places
BY DEF FilesOK, Here, Places

\* A set of numbers that is not empty has a least one.
LEMMA Least ==
  ASSUME NEW S \in SUBSET Nat, S # {}
  PROVE  \E x \in S : \A y \in S : x <= y
<1>. DEFINE Upto == {0 .. x : x \in S}
<1>1. Upto \subseteq FiniteSubsetsOf(Nat) /\ Upto # {}
  <2>1. ASSUME NEW x \in S PROVE 0 .. x \in FiniteSubsetsOf(Nat)
    BY FS_Interval DEF FiniteSubsetsOf
  <2>. QED
    BY <2>1
<1>2. PICK U \in Upto : \A V \in Upto : <<V, U>> \notin StrictSubsetOrdering(Nat)
  <2>. HIDE DEF Upto
  <2>. QED
    BY <1>1, FS_StrictSubsetOrderingWellFounded, WFMin
<1>3. PICK x \in S : U = 0 .. x
  OBVIOUS
<1>4. ASSUME NEW y \in S, y < x PROVE FALSE
  <2>1. 0 .. y \subseteq 0 .. x /\ 0 .. y # 0 .. x
    BY <1>4
  <2>2. 0 .. y \in SUBSET Nat /\ 0 .. x \in SUBSET Nat
    OBVIOUS
  <2>3. <<0 .. y, 0 .. x>> \in StrictSubsetOrdering(Nat)
    BY <2>1, <2>2, Zenon DEF StrictSubsetOrdering
  <2>. QED
    BY <1>2, <1>3, <2>3
<1>. QED
  BY <1>4

\* There is always an inode for a temporary file: every call has two files open at
\* most, this one has only one.
LEMMA FreshFacts ==
  ASSUME FilesOK, CallsOK, NEW s \in Setters, setter[s].out = NoFile, tmp[Here][Owner[s]] = NoFile
  PROVE  /\ Fresh(Owner[s]) \in Inodes \ (Named \cup Opened)
         /\ Fresh(Owner[s]) \in MayName(Here, Owner[s])
<1>. DEFINE n == Owner[s]
            h == Here
            In == {setter[t].in : t \in Setters}
            Out == {setter[t].out : t \in Setters}
            Two == {conf[h][n], getter.in}
            Used == In \cup Out \cup Two
<1>1. n \in Namespaces /\ h \in Places /\ IsFiniteSet(Setters)
  BY PersistAssumption, HereIsPlace
<1>2. PICK c \in Nat : c = Cardinality(Setters)
  BY Roomy
<1>. HIDE DEF n, h
<1>3. Unused(n) # {}
  <2>. SUFFICES ASSUME Unused(n) = {} PROVE FALSE
    OBVIOUS
  <2>1. IsFiniteSet(In) /\ Cardinality(In) <= c /\ Cardinality(In) \in Nat
    <3>1. [t \in Setters |-> setter[t].in] \in Surjection(Setters, In)
      BY DEF Surjection
    <3>. QED
      BY <1>1, <1>2, <3>1, FS_Surjection, FS_CardinalityType
  <2>2. IsFiniteSet(Out) /\ Cardinality(Out) <= c /\ Cardinality(Out) \in Nat
    <3>1. [t \in Setters |-> setter[t].out] \in Surjection(Setters, Out)
      BY DEF Surjection
    <3>. QED
      BY <1>1, <1>2, <3>1, FS_Surjection, FS_CardinalityType
  <2>3. IsFiniteSet(Two) /\ Cardinality(Two) <= 2 /\ Cardinality(Two) \in Nat
    <3>1. PICK T : T = {conf[h][n]}
      OBVIOUS
    <3>2. IsFiniteSet(T) /\ Cardinality(T) = 1
      BY <3>1, FS_Singleton
    <3>3. Two = T \cup {getter.in}
      BY <3>1
    <3>4. PICK g : g = getter.in
      OBVIOUS
    <3>5. /\ IsFiniteSet(T \cup {g})
          /\ Cardinality(T \cup {g}) = IF g \in T THEN Cardinality(T) ELSE Cardinality(T) + 1
      BY <3>2, FS_AddElement
    <3>6. Cardinality(T \cup {g}) <= 2 /\ Cardinality(T \cup {g}) \in Nat
      BY <3>2, <3>5
    <3>. QED
      BY <3>3, <3>4, <3>5, <3>6
  <2>. HIDE DEF In, Out, Two
  <2>4. IsFiniteSet(Used) /\ Cardinality(Used) <= 2 * c + 2 /\ Cardinality(Used) \in Nat
    <3>1. /\ IsFiniteSet(In \cup Out)
          /\ Cardinality(In \cup Out) = Cardinality(In) + Cardinality(Out) - Cardinality(In \cap Out)
      BY <2>1, <2>2, FS_Union
    <3>2. /\ IsFiniteSet(Used)
          /\ Cardinality(Used) = Cardinality(In \cup Out) + Cardinality(Two)
                                   - Cardinality((In \cup Out) \cap Two)
      BY <3>1, <2>3, FS_Union
    <3>3. Cardinality(In \cap Out) \in Nat /\ Cardinality((In \cup Out) \cap Two) \in Nat
      BY <2>1, <2>3, FS_Intersection, FS_CardinalityType
    <3>4. Cardinality(Used) \in Nat
      BY <3>2, FS_CardinalityType
    <3>. QED
      BY <2>1, <2>2, <2>3, <3>1, <3>2, <3>3, <3>4
  <2>5. ASSUME NEW j \in 1 .. 2 * c + 3 PROVE <<h, n, j>> \in Used
    <3>1. <<h, n, j>> \in Inodes
      BY <1>1, <1>2 DEF Inodes
    <3>2. <<h, n, j>> \in Named \cup Opened
      BY <3>1 DEF Unused, h
    <3>3. ASSUME NEW p \in Places, NEW m \in Namespaces,
                 <<h, n, j>> = conf[p][m] \/ <<h, n, j>> = tmp[p][m]
          PROVE  <<h, n, j>> \in Two
      <4>1. p = h /\ m = n
        <5>1. <<h, n, j>> \in MayName(p, m)
          BY <3>3 DEF FilesOK, NamesOK
        <5>2. <<h, n, j>>[1] = p /\ <<h, n, j>>[2] = m
          BY <3>1, <5>1, NoFileIsNone DEF MayName
        <5>. QED
          BY <5>2
      <4>2. <<h, n, j>> # tmp[h][n]
        BY <3>1, NoFileIsNone DEF h, n
      <4>. QED
        BY <3>3, <4>1, <4>2 DEF Two
    <3>4. <<h, n, j>> \in Named => <<h, n, j>> \in Two
      BY <3>3 DEF Named
    <3>5. <<h, n, j>> \in Opened => <<h, n, j>> \in Used
      BY DEF Opened, In, Out, Two
    <3>. QED
      BY <3>2, <3>4, <3>5
  <2>. HIDE DEF Used
  <2>6. PICK J : J = {<<h, n, j>> : j \in 1 .. 2 * c + 3}
    OBVIOUS
  <2>7. Cardinality(J) = 2 * c + 3
    <3>1. IsFiniteSet(1 .. 2 * c + 3) /\ Cardinality(1 .. 2 * c + 3) = 2 * c + 3
      <4>1. PICK b \in Nat : b = 2 * c + 3
        BY <1>2
      <4>2. b >= 1
        BY <1>2, <4>1
      <4>3. IsFiniteSet(1 .. b) /\ Cardinality(1 .. b) = IF 1 > b THEN 0 ELSE b - 1 + 1
        BY <4>1, FS_Interval
      <4>4. IsFiniteSet(1 .. b) /\ Cardinality(1 .. b) = b
        BY <4>2, <4>3
      <4>. QED
        BY <4>1, <4>4
    <3>2. PICK f : f = [j \in 1 .. 2 * c + 3 |-> <<h, n, j>>]
      OBVIOUS
    <3>3. f \in [1 .. 2 * c + 3 -> J]
      BY <2>6, <3>2
    <3>4. \A i, j \in 1 .. 2 * c + 3 : f[i] = f[j] => i = j
      BY <3>2
    <3>5. \A y \in J : \E j \in 1 .. 2 * c + 3 : f[j] = y
      BY <2>6, <3>2
    <3>6. f \in Injection(1 .. 2 * c + 3, J)
      BY <3>3, <3>4, Zenon DEF Injection, IsInjective
    <3>7. f \in Surjection(1 .. 2 * c + 3, J)
      BY <3>3, <3>5, Zenon DEF Surjection
    <3>8. f \in Bijection(1 .. 2 * c + 3, J)
      BY <3>6, <3>7, Zenon DEF Bijection
    <3>. QED
      BY <3>1, <3>8, FS_Bijection DEF ExistsBijection
  <2>8. Cardinality(J) <= Cardinality(Used)
    BY <2>4, <2>5, <2>6, FS_Subset
  <2>. QED
    BY <1>2, <2>4, <2>7, <2>8
<1>4. PICK i \in Unused(n) : \A j \in Unused(n) : i[3] <= j[3]
  <2>1. PICK N : N = {j[3] : j \in Unused(n)}
    OBVIOUS
  <2>2. N \in SUBSET Nat /\ N # {}
    BY <1>3, <2>1, InodeParts DEF Unused
  <2>3. PICK k \in N : \A j \in N : k <= j
    BY <2>2, Least
  <2>. QED
    BY <2>1, <2>3
<1>5. Fresh(n) \in Unused(n)
  BY <1>4 DEF Fresh
<1>. QED
  BY <1>5 DEF Unused, MayName, n

-----------------------------------------------------------------------------
(* The types *)

SnapTypes == [exists : BOOLEAN, manifest : {"none", "empty", "whole"},
              archive : {"none", "torn", "whole"}, files : [Namespaces -> Contents]]
ToolTypes == [pc : {"idle", "manifest", "tar", "files", "remove", "format", "untar"},
              label : Labels \cup {NoTool.label}, todo : SUBSET Namespaces,
              result : {"none", "failed", "nothing", "restored"}]

\* Snapshots are taken in the system that runs and restored in the recovery system.
ToolOK ==
  /\ mode \in {"normal", "boot", "recovery"} /\ attached \in BOOLEAN /\ reimaging \in BOOLEAN
  /\ snap \in [Labels -> SnapTypes] /\ tool \in ToolTypes
  /\ captured \in [Labels -> [Namespaces -> SUBSET Contents]]
  /\ \A l \in Labels : ~snap[l].exists => snap[l] = NoSnapshot
  /\ tool.pc # "idle" \/ tool.result = "restored" => tool.label \in Labels
  /\ tool.pc \in {"manifest", "tar", "files"} => mode = "normal"
  /\ tool.pc \in {"tar", "files"} => snap[tool.label].exists
  /\ tool.pc \in {"format", "untar"} => mode = "recovery"
  /\ tool.pc = "untar" => \A n \in Namespaces : tmp["persist"][n] = NoFile
  /\ tool.result = "restored" => mode = "recovery" /\ tool.pc = "idle"

\* Calls are under way in the system that runs only, after bb_persist_init.
Quiet ==
  (\E s \in Setters : setter[s].pc # "idle") \/ getter.pc # "idle"
    => mode = "normal" /\ Initialised

\* The types, with what they need; it holds for any number of writers.
TInv == FilesOK /\ CallsOK /\ HistoryOK /\ ToolOK /\ Quiet

-----------------------------------------------------------------------------
(* One writer for each namespace *)

\* The API does not ask for it; without it two calls share a temporary file.
OneWriter == \A s, t \in Setters : Owner[s] = Owner[t] => s = t

\* What a call is to leave in the file.
Line(s) == [settings[Owner[s]] EXCEPT ![setter[s].key] = setter[s].value]

\* A call writes a temporary file of its own, out of the file nobody else replaces;
\* and what a get has opened is not written any more.
Apart(s) ==
  /\ setter[s].pc \in {"copy", "close", "rename"} => setter[s].out = tmp[Here][Owner[s]]
  /\ setter[s].pc \in {"create", "copy"} => setter[s].in = conf[Here][Owner[s]]

ReadersApart ==
  getter.pc = "read" => /\ getter.in \in MayName(Here, getter.ns)
                        /\ getter.in = tmp[Here][getter.ns] => getter.in = NoFile

\* Until a call has written elsewhere or short, the files and the disk hold what
\* was set,
Kept == ~spoiled => \A n \in Namespaces : /\ Text(conf["persist"][n]) = settings[n]
                                          /\ disk["persist"][n] = saved[n]

\* each call is about to put the settings in place with its own line added,
Writes(s) ==
  /\ setter[s].pc = "close" => setter[s].text = Line(s)
  /\ setter[s].pc = "rename" => setter[s].short \/ data[setter[s].out] = Line(s)

\* and a get sees one of the values set since it began.
Reads ==
  /\ getter.pc = "read" => Text(getter.in)[getter.key] \in getter.possible
  /\ getter.pc = "done" => getter.result \in getter.possible

InPlace == ~spoiled /\ "persist" \in mounts => Reads /\ \A s \in Setters : Writes(s)

KInv == ReadersApart /\ (\A s \in Setters : Apart(s)) /\ Kept /\ InPlace

\* What an archive holds was set while it was taken; what is read into it is as well.
Archived ==
  ~spoiled =>
    /\ \A l \in Labels, n \in Namespaces :
         snap[l].archive = "whole" => snap[l].files[n] \in captured[l][n]
    /\ tool.pc = "files" =>
         \A n \in Namespaces :
           /\ settings[n] \in captured[tool.label][n]
           /\ n \notin tool.todo => snap[tool.label].files[n] \in captured[tool.label][n]

\* A restore puts the archive's files in place one by one.
Restored ==
  /\ tool.pc = "untar" =>
       \A n \in Namespaces \ tool.todo :
         Text(conf["persist"][n]) = snap[tool.label].files[n]
  /\ tool.result = "restored" /\ ~spoiled =>
       \A n \in Namespaces : Text(conf["persist"][n]) \in captured[tool.label][n]

IInv == TInv /\ KInv /\ Archived /\ Restored

LEMMA TypesMeanTypeOK == TInv => TypeOK
<1>. SUFFICES ASSUME TInv PROVE TypeOK
  OBVIOUS
<1>1. \A p \in Places, n \in Namespaces :
        /\ {conf[p][n], tmp[p][n]} \subseteq Inodes \cup {NoFile}
        /\ conf[p][n] = tmp[p][n] => conf[p][n] = NoFile
  BY DEF TInv, FilesOK, NamesOK, MayName
<1>2. \A s \in Setters : /\ setter[s].pc \in {"idle", "create", "copy", "close", "rename"}
                         /\ {setter[s].in, setter[s].out} \subseteq Inodes \cup {NoFile}
                         /\ setter[s].text \in Contents
  BY DEF TInv, CallsOK, SetTypes, File
<1>3. getter.pc \in {"idle", "read", "done"} /\ getter.result \in Values \cup {NoValue}
  BY DEF TInv, CallsOK, GetTypes
<1>4. \A n \in Namespaces : settings[n] \in Contents /\ saved[n] \in Contents
  BY DEF TInv, HistoryOK
<1>5. PersistTypeOK
  BY <1>1, <1>2, <1>3, <1>4 DEF TInv, FilesOK, HistoryOK, PersistTypeOK
<1>6. \A l \in Labels : /\ snap[l].manifest \in {"none", "empty", "whole"}
                        /\ snap[l].archive \in {"none", "torn", "whole"}
  BY DEF TInv, ToolOK, SnapTypes
<1>7. /\ tool.pc \in {"idle", "manifest", "tar", "files", "remove", "format", "untar"}
      /\ tool.todo \subseteq Namespaces /\ tool.result \in {"none", "failed", "nothing", "restored"}
  BY DEF TInv, ToolOK, ToolTypes
<1>. QED
  BY <1>5, <1>6, <1>7 DEF TInv, ToolOK, TypeOK

LEMMA EmptyText == Empty \in Contents
BY DEF Empty, Contents

LEMMA TextTypes == ASSUME FilesOK, NEW f \in File PROVE Text(f) \in Contents
BY EmptyText DEF FilesOK, File, Text

LEMMA TypesAtFirst == Init => TInv
<1>. SUFFICES ASSUME Init PROVE TInv
  OBVIOUS
<1>. USE EmptyText DEF Init, PersistInitial
<1>1. FilesOK
  BY DEF FilesOK, NamesOK, MayName, File
<1>2. CallsOK
  BY DEF CallsOK, SetTypes, GetTypes, NoSet, NoGet, File
<1>3. HistoryOK
  <2>1. sets \in 0 .. MaxSets /\ reboots \in 0 .. MaxReboots
    BY PersistAssumption
  <2>2. settings \in [Namespaces -> Contents] /\ saved \in [Namespaces -> Contents]
    OBVIOUS
  <2>. QED
    BY <2>1, <2>2 DEF HistoryOK
<1>4. ToolOK
  BY DEF ToolOK, SnapTypes, ToolTypes, NoSnapshot, NoTool, Nothing
<1>5. Quiet
  BY DEF Quiet, NoSet, NoGet
<1>. QED
  BY <1>1, <1>2, <1>3, <1>4, <1>5 DEF TInv

-----------------------------------------------------------------------------
(* The calls that set and get keep the types *)

LEMMA NamesChange ==
  ASSUME FilesOK, NEW p \in Places, NEW n \in Namespaces, NEW c \in MayName(p, n), NEW t \in MayName(p, n),
         c = t => c = NoFile
  PROVE  NamesOK([conf EXCEPT ![p][n] = c], [tmp EXCEPT ![p][n] = t])
<1>1. c \in File /\ t \in File
  BY DEF MayName, File
<1>2. /\ [conf EXCEPT ![p][n] = c] \in [Places -> [Namespaces -> File]]
      /\ [tmp EXCEPT ![p][n] = t] \in [Places -> [Namespaces -> File]]
  BY <1>1 DEF FilesOK, NamesOK
<1>3. ASSUME NEW q \in Places, NEW m \in Namespaces
      PROVE  /\ [conf EXCEPT ![p][n] = c][q][m] \in MayName(q, m)
             /\ [tmp EXCEPT ![p][n] = t][q][m] \in MayName(q, m)
             /\ [conf EXCEPT ![p][n] = c][q][m] = [tmp EXCEPT ![p][n] = t][q][m]
                  => [conf EXCEPT ![p][n] = c][q][m] = NoFile
  <2>1. CASE q = p /\ m = n
    BY <2>1 DEF FilesOK, NamesOK
  <2>2. CASE ~(q = p /\ m = n)
    <3>1. /\ [conf EXCEPT ![p][n] = c][q][m] = conf[q][m]
          /\ [tmp EXCEPT ![p][n] = t][q][m] = tmp[q][m]
      BY <2>2 DEF FilesOK, NamesOK
    <3>. QED
      BY <3>1 DEF FilesOK, NamesOK
  <2>. QED
    BY <2>1, <2>2
<1>. QED
  BY <1>2, <1>3 DEF NamesOK

LEMMA SameNames ==
  ASSUME FilesOK, NEW p \in Places, NEW n \in Namespaces
  PROVE  /\ conf = [conf EXCEPT ![p][n] = conf[p][n]]
         /\ tmp = [tmp EXCEPT ![p][n] = tmp[p][n]]
BY DEF FilesOK, NamesOK

LEMMA SetterTypes ==
  ASSUME CallsOK, NEW s \in Setters
  PROVE  /\ setter[s].pc \in {"idle", "create", "copy", "close", "rename"}
         /\ setter[s].key \in Keys \cup {NoValue} /\ setter[s].value \in Values \cup {NoValue}
         /\ setter[s].in \in File /\ setter[s].out \in File
         /\ setter[s].text \in Contents /\ setter[s].short \in BOOLEAN
BY DEF CallsOK, SetTypes

\* The file a call creates, and the names and contents after it.
LEMMA CreatedFile ==
  ASSUME TInv, NEW s \in Setters, SetCreate(s)
  PROVE  \E i \in Inodes :
           /\ i \in MayName(Here, Owner[s])
           /\ i = tmp[Here][Owner[s]] \/ i \notin Named \cup Opened
           /\ data' = [data EXCEPT ![i] = Empty]
           /\ tmp' = [tmp EXCEPT ![Here][Owner[s]] = i] /\ conf' = conf
           /\ setter' = [setter EXCEPT ![s].pc = "copy", ![s].out = i]
           /\ i # conf[Here][Owner[s]]
<1>1. Here \in Places /\ Owner[s] \in Namespaces
  BY PersistAssumption, HereIsPlace DEF TInv
<1>2. CASE tmp[Here][Owner[s]] # NoFile
  <2>1. tmp[Here][Owner[s]] \in MayName(Here, Owner[s]) /\ tmp[Here][Owner[s]] # conf[Here][Owner[s]]
    BY <1>1, <1>2 DEF TInv, FilesOK, NamesOK
  <2>2. tmp[Here][Owner[s]] \in Inodes
    BY <1>2, <2>1 DEF MayName
  <2>. QED
    BY <1>2, <2>1, <2>2 DEF SetCreate
<1>3. CASE tmp[Here][Owner[s]] = NoFile
  <2>1. setter[s].out = NoFile
    BY DEF SetCreate, TInv, CallsOK
  <2>2. /\ Fresh(Owner[s]) \in Inodes \ (Named \cup Opened)
        /\ Fresh(Owner[s]) \in MayName(Here, Owner[s])
    BY <1>3, <2>1, FreshFacts DEF TInv
  <2>3. conf[Here][Owner[s]] \in Named
    BY <1>1 DEF Named
  <2>. QED
    BY <1>3, <2>2, <2>3 DEF SetCreate
<1>. QED
  BY <1>2, <1>3

\* What each step of a setter does to a call.
LEMMA SetKeepsFiles ==
  ASSUME TInv, NEW s \in Setters, Set(s)
  PROVE  FilesOK' /\ UNCHANGED <<system, disk, saved, reboots>>
<1>1. Here \in Places /\ Owner[s] \in Namespaces
  BY PersistAssumption, HereIsPlace DEF TInv
<1>2. CASE SetOpen(s) \/ SetRefused(s) \/ SetCopy(s)
  BY <1>2 DEF SetOpen, SetRefused, SetCopy, files, system, history, TInv, FilesOK
<1>3. CASE SetCreate(s)
  <2>1. PICK i \in Inodes :
           /\ i \in MayName(Here, Owner[s])
           /\ data' = [data EXCEPT ![i] = Empty]
           /\ tmp' = [tmp EXCEPT ![Here][Owner[s]] = i] /\ conf' = conf
           /\ i # conf[Here][Owner[s]]
    BY <1>3, CreatedFile
  <2>2. UNCHANGED <<system, disk, saved, reboots>>
    BY <1>3 DEF SetCreate, history
  <2>3. conf[Here][Owner[s]] \in MayName(Here, Owner[s])
    BY <1>1 DEF TInv, FilesOK, NamesOK
  <2>4. NamesOK(conf', tmp')
    <3>1. NamesOK([conf EXCEPT ![Here][Owner[s]] = conf[Here][Owner[s]]],
                  [tmp EXCEPT ![Here][Owner[s]] = i])
      BY <1>1, <2>1, <2>3, NamesChange DEF TInv
    <3>2. conf' = [conf EXCEPT ![Here][Owner[s]] = conf[Here][Owner[s]]]
      BY <1>1, <2>1, SameNames DEF TInv
    <3>. QED
      BY <2>1, <3>1, <3>2
  <2>5. data' \in [Inodes -> Contents]
    BY <2>1, EmptyText DEF TInv, FilesOK
  <2>. QED
    BY <2>2, <2>4, <2>5 DEF TInv, FilesOK, system
<1>4. CASE SetClose(s)
  <2>1. UNCHANGED <<system, disk, saved, reboots, conf, tmp>>
    BY <1>4 DEF SetClose, history
  <2>2. PICK missing \in SUBSET Keys :
          data' = [data EXCEPT ![setter[s].out] =
                     [k \in Keys |-> IF k \in missing THEN NoValue ELSE setter[s].text[k]]]
    BY <1>4 DEF SetClose
  <2>3. [k \in Keys |-> IF k \in missing THEN NoValue ELSE setter[s].text[k]] \in Contents
    BY SetterTypes DEF TInv, Contents
  <2>4. data' \in [Inodes -> Contents]
    BY <2>2, <2>3 DEF TInv, FilesOK
  <2>. QED
    BY <2>1, <2>4 DEF TInv, FilesOK, system
<1>5. CASE SetRename(s)
  <2>1. UNCHANGED <<system, disk, saved, reboots, data>>
    BY <1>5 DEF SetRename, Returned
  <2>2. tmp[Here][Owner[s]] \in MayName(Here, Owner[s]) /\ NoFile \in MayName(Here, Owner[s])
    BY <1>1 DEF TInv, FilesOK, NamesOK, MayName
  <2>3. NamesOK([conf EXCEPT ![Here][Owner[s]] = tmp[Here][Owner[s]]],
                [tmp EXCEPT ![Here][Owner[s]] = NoFile])
    BY <1>1, <2>2, NamesChange DEF TInv
  <2>4. NamesOK(conf', tmp')
    BY <1>5, <2>3 DEF SetRename, TInv, FilesOK
  <2>. QED
    BY <2>1, <2>4 DEF TInv, FilesOK, system
<1>. QED
  BY <1>2, <1>3, <1>4, <1>5 DEF Set

LEMMA SetKeepsCalls ==
  ASSUME TInv, NEW s \in Setters, Set(s)
  PROVE  CallsOK'
<1>. DEFINE new == setter'[s]
<1>1. \A t \in Setters \ {s} : setter'[t] = setter[t]
  BY DEF Set, SetOpen, SetCreate, SetRefused, SetCopy, SetClose, SetRename, Returned, TInv, CallsOK
<1>2. CASE SetOpen(s)
  <2>1. conf[Here][Owner[s]] \in File
    BY PersistAssumption, HereIsPlace DEF TInv, FilesOK, NamesOK
  <2>2. PICK k \in Keys, v \in Values :
          setter' = [setter EXCEPT ![s] = [NoSet EXCEPT !.pc = "create", !.key = k, !.value = v,
                                                        !.in = conf[Here][Owner[s]]]]
    BY <1>2 DEF SetOpen
  <2>3. setter' \in [Setters -> SetTypes]
    BY <2>1, <2>2, EmptyText DEF TInv, CallsOK, SetTypes, NoSet, File
  <2>4. UNCHANGED getter
    BY <1>2 DEF SetOpen
  <2>. QED
    BY <1>1, <2>2, <2>3, <2>4 DEF TInv, CallsOK, NoSet
<1>3. CASE SetCreate(s)
  <2>1. PICK i \in Inodes : setter' = [setter EXCEPT ![s].pc = "copy", ![s].out = i]
    BY <1>3, CreatedFile
  <2>2. setter' \in [Setters -> SetTypes]
    <3>1. PICK old \in SetTypes : old = setter[s]
      BY DEF TInv, CallsOK
    <3>2. [old EXCEPT !.pc = "copy", !.out = i] \in SetTypes
      BY DEF SetTypes, File
    <3>3. setter' = [setter EXCEPT ![s] = [old EXCEPT !.pc = "copy", !.out = i]]
      BY <2>1, <3>1 DEF TInv, CallsOK
    <3>. QED
      BY <3>2, <3>3 DEF TInv, CallsOK
  <2>3. UNCHANGED getter /\ setter[s].pc = "create"
    BY <1>3 DEF SetCreate
  <2>. QED
    BY <1>1, <2>1, <2>2, <2>3 DEF TInv, CallsOK
<1>4. CASE SetRefused(s)
  <2>1. setter' = [setter EXCEPT ![s] = NoSet] /\ UNCHANGED getter
    BY <1>4 DEF SetRefused
  <2>2. setter' \in [Setters -> SetTypes]
    BY <2>1, EmptyText DEF TInv, CallsOK, SetTypes, NoSet, File
  <2>. QED
    BY <1>1, <2>1, <2>2 DEF TInv, CallsOK, NoSet
<1>5. CASE SetCopy(s)
  <2>1. PICK x : x = [Text(setter[s].in) EXCEPT ![setter[s].key] = setter[s].value]
    OBVIOUS
  <2>2. x \in Contents
    <3>1. Text(setter[s].in) \in Contents
      BY TextTypes, SetterTypes DEF TInv
    <3>. QED
      BY <2>1, <3>1, SetterTypes DEF TInv, Contents
  <2>3. /\ setter' = [setter EXCEPT ![s].pc = "close", ![s].in = NoFile, ![s].text = x]
        /\ UNCHANGED getter /\ setter[s].pc = "copy"
    BY <1>5, <2>1 DEF SetCopy
  <2>4. setter' \in [Setters -> SetTypes]
    <3>1. PICK old \in SetTypes : old = setter[s]
      BY DEF TInv, CallsOK
    <3>2. [old EXCEPT !.pc = "close", !.in = NoFile, !.text = x] \in SetTypes
      BY <2>2 DEF SetTypes, File
    <3>3. setter' = [setter EXCEPT ![s] = [old EXCEPT !.pc = "close", !.in = NoFile, !.text = x]]
      BY <2>3, <3>1 DEF TInv, CallsOK
    <3>. QED
      BY <3>2, <3>3 DEF TInv, CallsOK
  <2>. QED
    BY <1>1, <2>3, <2>4 DEF TInv, CallsOK
<1>6. CASE SetClose(s)
  <2>1. PICK b \in BOOLEAN : setter' = [setter EXCEPT ![s].pc = "rename", ![s].short = b]
    BY <1>6 DEF SetClose
  <2>2. UNCHANGED getter /\ setter[s].pc = "close"
    BY <1>6 DEF SetClose
  <2>3. setter' \in [Setters -> SetTypes]
    <3>1. PICK old \in SetTypes : old = setter[s]
      BY DEF TInv, CallsOK
    <3>2. [old EXCEPT !.pc = "rename", !.short = b] \in SetTypes
      BY DEF SetTypes, File
    <3>3. setter' = [setter EXCEPT ![s] = [old EXCEPT !.pc = "rename", !.short = b]]
      BY <2>1, <3>1 DEF TInv, CallsOK
    <3>. QED
      BY <3>2, <3>3 DEF TInv, CallsOK
  <2>. QED
    BY <1>1, <2>1, <2>2, <2>3 DEF TInv, CallsOK
<1>7. CASE SetRename(s)
  <2>1. setter' = [setter EXCEPT ![s] = NoSet] /\ setter[s].pc = "rename"
    BY <1>7 DEF SetRename, Returned
  <2>2. setter' \in [Setters -> SetTypes]
    BY <2>1, EmptyText DEF TInv, CallsOK, SetTypes, NoSet, File
  <2>3. setter[s].value \in Values
    BY <2>1 DEF TInv, CallsOK
  <2>4. /\ getter' = getter \/ getter' = [getter EXCEPT !.possible = @ \cup {setter[s].value}]
        /\ getter \in GetTypes
    BY <1>7 DEF SetRename, Returned, TInv, CallsOK
  <2>5. getter' \in GetTypes /\ getter'.pc = getter.pc /\ getter'.ns = getter.ns /\ getter'.key = getter.key
    BY <2>3, <2>4 DEF GetTypes
  <2>. QED
    BY <1>1, <2>1, <2>2, <2>5 DEF TInv, CallsOK, NoSet
<1>. QED
  BY <1>2, <1>3, <1>4, <1>5, <1>6, <1>7 DEF Set

LEMMA SetKeepsHistory ==
  ASSUME TInv, NEW s \in Setters, Set(s)
  PROVE  HistoryOK'
<1>1. UNCHANGED <<disk, saved, reboots>>
  BY SetKeepsFiles
<1>2. settings' \in [Namespaces -> Contents] /\ spoiled' \in BOOLEAN
  <2>1. CASE SetRename(s)
    <3>1. setter[s].key \in Keys /\ setter[s].value \in Values /\ setter[s].short \in BOOLEAN
      BY <2>1, SetterTypes DEF SetRename, TInv, CallsOK
    <3>2. settings' \in [Namespaces -> Contents]
      BY <2>1, <3>1 DEF SetRename, Returned, TInv, HistoryOK, Contents
    <3>. QED
      BY <2>1, <3>2 DEF SetRename, Returned
  <2>2. CASE ~SetRename(s)
    BY <2>2 DEF Set, SetOpen, SetCreate, SetRefused, SetCopy, SetClose, history, TInv, HistoryOK
  <2>. QED
    BY <2>1, <2>2
<1>3. sets' \in 0 .. MaxSets
  <2>1. CASE SetOpen(s)
    BY <2>1, PersistAssumption DEF SetOpen, TInv, HistoryOK
  <2>2. CASE ~SetOpen(s)
    BY <2>2 DEF Set, SetRename, Returned, SetCreate, SetRefused, SetCopy, SetClose, TInv, HistoryOK
  <2>. QED
    BY <2>1, <2>2
<1>. QED
  BY <1>1, <1>2, <1>3 DEF TInv, HistoryOK

LEMMA RunningKeepsTypes ==
  ASSUME TInv, mode = "normal", Running, Watched
  PROVE  TInv'
<1>1. FilesOK' /\ CallsOK' /\ HistoryOK'
  <2>1. CASE MountLog \/ PersistInit
    <3>1. UNCHANGED <<slot, files, calls, disk, history, sets, reboots>> /\ mounts' \subseteq {"persist", "log"}
      BY <2>1 DEF MountLog, PersistInit, TInv, FilesOK
    <3>. QED
      BY <3>1 DEF files, calls, history, TInv, FilesOK, CallsOK, HistoryOK
  <2>2. CASE GetOpen
    <3>1. PICK n \in Namespaces, k \in Keys :
            getter' = [pc |-> "read", ns |-> n, key |-> k, in |-> conf[Here][n],
                       result |-> NoValue, possible |-> {settings[n][k]}]
      BY <2>2 DEF GetOpen
    <3>2. conf[Here][n] \in File /\ settings[n][k] \in Values \cup {NoValue}
      BY HereIsPlace DEF TInv, FilesOK, NamesOK, HistoryOK, Contents
    <3>3. getter' \in GetTypes
      BY <3>1, <3>2 DEF GetTypes
    <3>4. UNCHANGED <<system, files, setter, disk, history, sets, reboots>>
      BY <2>2 DEF GetOpen
    <3>. QED
      BY <3>1, <3>3, <3>4 DEF system, files, history, TInv, FilesOK, CallsOK, HistoryOK
  <2>3. CASE GetRead
    <3>1. Text(getter.in)[getter.key] \in Values \cup {NoValue}
      <4>1. Text(getter.in) \in Contents
        BY TextTypes DEF TInv, CallsOK, GetTypes
      <4>2. getter.key \in Keys
        BY <2>3 DEF GetRead, TInv, CallsOK
      <4>. QED
        BY <4>1, <4>2 DEF Contents
    <3>2. getter' \in GetTypes /\ getter'.pc = "done"
      BY <2>3, <3>1 DEF GetRead, TInv, CallsOK, GetTypes, File
    <3>3. UNCHANGED <<system, files, setter, disk, history, sets, reboots>>
      BY <2>3 DEF GetRead
    <3>. QED
      BY <3>2, <3>3 DEF system, files, history, TInv, FilesOK, CallsOK, HistoryOK
  <2>4. ASSUME NEW s \in Setters, Set(s) PROVE FilesOK' /\ CallsOK' /\ HistoryOK'
    BY <2>4, SetKeepsFiles, SetKeepsCalls, SetKeepsHistory
  <2>. QED
    BY <2>1, <2>2, <2>3, <2>4 DEF Running, Get
<1>2. ToolOK'
  <2>1. UNCHANGED <<mode, attached, reimaging, snap, dirty, tool>>
    BY DEF Watched, snapshots
  <2>2. captured' \in [Labels -> [Namespaces -> SUBSET Contents]]
    <3>1. CASE tool.pc = "files"
      <4>1. captured' = [captured EXCEPT ![tool.label] = [n \in Namespaces |-> @[n] \cup {settings'[n]}]]
        BY <3>1 DEF Watched
      <4>2. \A n \in Namespaces : settings'[n] \in Contents
        BY <1>1 DEF HistoryOK
      <4>3. captured \in [Labels -> [Namespaces -> SUBSET Contents]] /\ tool.label \in Labels
        BY <3>1 DEF TInv, ToolOK
      <4>4. PICK x : x = [n \in Namespaces |-> captured[tool.label][n] \cup {settings'[n]}]
        OBVIOUS
      <4>5. x \in [Namespaces -> SUBSET Contents]
        BY <4>2, <4>3, <4>4
      <4>. QED
        BY <4>1, <4>3, <4>4, <4>5
    <3>2. CASE tool.pc # "files"
      BY <3>2 DEF Watched, TInv, ToolOK
    <3>. QED
      BY <3>1, <3>2
  <2>. QED
    BY <2>1, <2>2 DEF TInv, ToolOK
<1>3. Quiet'
  <2>1. UNCHANGED mode
    BY DEF Watched
  <2>2. CASE MountLog \/ PersistInit
    BY <2>1, <2>2 DEF MountLog, PersistInit, Quiet, Initialised, TInv
  <2>3. CASE GetOpen \/ GetRead
    <3>1. UNCHANGED mounts /\ UNCHANGED setter /\ Initialised
      BY <2>3 DEF GetOpen, GetRead, system, TInv, Quiet
    <3>. QED
      BY <2>1, <3>1 DEF Quiet, Initialised
  <2>4. ASSUME NEW s \in Setters, Set(s) PROVE Quiet'
    <3>1. UNCHANGED mounts
      BY <2>4, SetKeepsFiles DEF system
    <3>2. Initialised
      BY <2>4 DEF Set, SetOpen, SetCreate, SetRefused, SetCopy, SetClose, SetRename, TInv, Quiet
    <3>. QED
      BY <2>1, <3>1, <3>2 DEF Quiet, Initialised
  <2>. QED
    BY <2>2, <2>3, <2>4 DEF Running, Get
<1>. QED
  BY <1>1, <1>2, <1>3 DEF TInv

-----------------------------------------------------------------------------
(* Snapshots, recovery and power keep the types *)

PersistOK == FilesOK /\ CallsOK /\ HistoryOK

LEMMA PersistKept ==
  ASSUME TInv, UNCHANGED persist
  PROVE  PersistOK' /\ (UNCHANGED mode => Quiet')
<1>1. UNCHANGED <<slot, mounts, data, conf, tmp, setter, getter, disk, settings, saved, spoiled, sets, reboots>>
  BY DEF persist, system, files, calls, history
<1>. QED
  BY <1>1 DEF TInv, PersistOK, FilesOK, CallsOK, HistoryOK, Quiet, Initialised

LEMMA SnapParts ==
  ASSUME ToolOK, NEW l \in Labels
  PROVE  /\ snap[l] \in SnapTypes /\ snap[l].exists \in BOOLEAN
         /\ snap[l].manifest \in {"none", "empty", "whole"} /\ snap[l].archive \in {"none", "torn", "whole"}
         /\ \A n \in Namespaces : snap[l].files[n] \in Contents
BY DEF ToolOK, SnapTypes

LEMMA NothingTypes == Nothing \in [Namespaces -> Contents] /\ NoSnapshot \in SnapTypes /\ NoTool \in ToolTypes
BY EmptyText DEF Nothing, NoSnapshot, SnapTypes, NoTool, ToolTypes

\* One snapshot changes, and stays one of a label that exists.
LEMMA SnapChange ==
  ASSUME ToolOK, NEW l \in Labels, NEW x \in SnapTypes, x.exists \/ x = NoSnapshot
  PROVE  /\ [snap EXCEPT ![l] = x] \in [Labels -> SnapTypes]
         /\ \A k \in Labels : ~[snap EXCEPT ![l] = x][k].exists => [snap EXCEPT ![l] = x][k] = NoSnapshot
BY DEF ToolOK

LEMMA CreateKeepsTypes == TInv /\ Create => TInv'
<1>. SUFFICES ASSUME TInv, Create PROVE TInv'
  OBVIOUS
<1>1. CASE CreateMount
  <2>1. PICK l \in Labels : tool' = [NoTool EXCEPT !.pc = "manifest", !.label = l]
    BY <1>1 DEF CreateMount
  <2>2. UNCHANGED <<persist, mode, reimaging, snap, dirty, captured>> /\ attached' = TRUE /\ mode = "normal"
    BY <1>1 DEF CreateMount, snapshots
  <2>3. /\ tool' \in ToolTypes /\ tool'.pc = "manifest" /\ tool'.label \in Labels
        /\ tool'.result = "none"
    BY <2>1 DEF NoTool, ToolTypes
  <2>4. ToolOK'
    BY <2>2, <2>3 DEF TInv, ToolOK
  <2>. QED
    BY <2>2, <2>4, PersistKept DEF TInv, PersistOK
<1>2. CASE CreateManifest
  <2>1. PICK m \in {"whole", "empty"} :
          snap' = [snap EXCEPT ![tool.label].exists = TRUE, ![tool.label].manifest = m]
    BY <1>2 DEF CreateManifest
  <2>2. /\ UNCHANGED <<persist, mode, attached, reimaging, captured>>
        /\ tool.pc = "manifest" /\ tool' = [tool EXCEPT !.pc = "tar"]
    BY <1>2 DEF CreateManifest
  <2>3. PICK x : x = [snap[tool.label] EXCEPT !.exists = TRUE, !.manifest = m]
    OBVIOUS
  <2>4. tool.label \in Labels /\ tool \in ToolTypes /\ mode = "normal" /\ tool.result # "restored"
    BY <2>2 DEF TInv, ToolOK
  <2>5. x \in SnapTypes /\ x.exists /\ snap' = [snap EXCEPT ![tool.label] = x]
    <3>1. PICK old \in SnapTypes : old = snap[tool.label]
      BY <2>4, SnapParts DEF TInv
    <3>2. x = [old EXCEPT !.exists = TRUE, !.manifest = m]
      BY <2>3, <3>1
    <3>3. x \in SnapTypes /\ x.exists
      BY <3>2 DEF SnapTypes
    <3>4. snap' = [snap EXCEPT ![tool.label] = x]
      BY <2>1, <2>3, <2>4 DEF TInv, ToolOK
    <3>. QED
      BY <3>3, <3>4
  <2>6. /\ tool' \in ToolTypes /\ tool'.pc = "tar" /\ tool'.label = tool.label
        /\ tool'.result = tool.result
    BY <2>2, <2>4 DEF ToolTypes
  <2>7. snap' \in [Labels -> SnapTypes] /\ \A l \in Labels : ~snap'[l].exists => snap'[l] = NoSnapshot
    BY <2>4, <2>5, SnapChange DEF TInv
  <2>8. snap'[tool.label].exists
    BY <2>4, <2>5 DEF TInv, ToolOK
  <2>9. ToolOK'
    BY <2>2, <2>4, <2>6, <2>7, <2>8 DEF TInv, ToolOK
  <2>. QED
    BY <2>2, <2>9, PersistKept DEF TInv, PersistOK
<1>3. CASE CreateTar
  <2>1. /\ snap' = [snap EXCEPT ![tool.label].archive = "torn", ![tool.label].files = Nothing]
        /\ tool.pc = "tar" /\ tool' = [tool EXCEPT !.pc = "files", !.todo = Namespaces]
        /\ captured' = [captured EXCEPT ![tool.label] = [n \in Namespaces |-> {settings[n]}]]
        /\ UNCHANGED <<persist, mode, attached, reimaging>>
    BY <1>3 DEF CreateTar
  <2>2. /\ tool.label \in Labels /\ tool \in ToolTypes /\ mode = "normal" /\ tool.result # "restored"
        /\ snap[tool.label].exists
    BY <2>1 DEF TInv, ToolOK
  <2>3. PICK x : x = [snap[tool.label] EXCEPT !.archive = "torn", !.files = Nothing]
    OBVIOUS
  <2>4. x \in SnapTypes /\ x.exists /\ snap' = [snap EXCEPT ![tool.label] = x]
    BY <2>1, <2>2, <2>3, SnapParts, NothingTypes DEF TInv, ToolOK, SnapTypes
  <2>5. /\ tool' \in ToolTypes /\ tool'.pc = "files" /\ tool'.label = tool.label
        /\ tool'.result = tool.result
    BY <2>1, <2>2 DEF ToolTypes
  <2>6. snap' \in [Labels -> SnapTypes] /\ \A l \in Labels : ~snap'[l].exists => snap'[l] = NoSnapshot
    BY <2>2, <2>4, SnapChange DEF TInv
  <2>7. snap'[tool.label].exists
    BY <2>2, <2>4 DEF TInv, ToolOK
  <2>8. captured' \in [Labels -> [Namespaces -> SUBSET Contents]]
    BY <2>1 DEF TInv, ToolOK, HistoryOK
  <2>9. ToolOK'
    BY <2>1, <2>2, <2>5, <2>6, <2>7, <2>8 DEF TInv, ToolOK
  <2>. QED
    BY <2>1, <2>9, PersistKept DEF TInv, PersistOK
<1>4. CASE CreateFile
  <2>1. PICK n \in tool.todo : /\ snap' = [snap EXCEPT ![tool.label].files[n] = Text(conf[Here][n])]
                               /\ tool' = [tool EXCEPT !.todo = @ \ {n}]
    BY <1>4 DEF CreateFile
  <2>2. /\ spoiled' = (spoiled \/ Here # "persist") /\ tool.pc = "files"
        /\ UNCHANGED <<system, files, calls, disk, settings, saved, sets, reboots>>
        /\ UNCHANGED <<mode, attached, reimaging, captured>>
    BY <1>4 DEF CreateFile
  <2>3. /\ tool.label \in Labels /\ tool \in ToolTypes /\ mode = "normal" /\ tool.result # "restored"
        /\ snap[tool.label].exists
    BY <2>2 DEF TInv, ToolOK
  <2>4. n \in Namespaces
    BY <2>1, <2>3 DEF ToolTypes
  <2>5. Text(conf[Here][n]) \in Contents
    BY <2>4, HereIsPlace, TextTypes DEF TInv, FilesOK, NamesOK
  <2>6. PICK f : f = [snap[tool.label].files EXCEPT ![n] = Text(conf[Here][n])]
    OBVIOUS
  <2>7. PICK x : x = [snap[tool.label] EXCEPT !.files = f]
    OBVIOUS
  <2>8. f \in [Namespaces -> Contents]
    BY <2>3, <2>5, <2>6, SnapParts DEF TInv, SnapTypes
  <2>9. x \in SnapTypes /\ x.exists
    BY <2>3, <2>7, <2>8, SnapParts DEF TInv, SnapTypes
  <2>10. snap' = [snap EXCEPT ![tool.label] = x]
    BY <2>1, <2>3, <2>6, <2>7 DEF TInv, ToolOK, SnapTypes
  <2>11. /\ tool' \in ToolTypes /\ tool'.pc = "files" /\ tool'.label = tool.label
        /\ tool'.result = tool.result
    BY <2>1, <2>2, <2>3 DEF ToolTypes
  <2>12. snap' \in [Labels -> SnapTypes] /\ \A l \in Labels : ~snap'[l].exists => snap'[l] = NoSnapshot
    BY <2>3, <2>9, <2>10, SnapChange DEF TInv
  <2>13. snap'[tool.label].exists
    BY <2>3, <2>9, <2>10 DEF TInv, ToolOK
  <2>14. ToolOK'
    BY <2>2, <2>3, <2>11, <2>12, <2>13 DEF TInv, ToolOK
  <2>15. PersistOK' /\ Quiet'
    BY <2>2 DEF system, files, calls, TInv, PersistOK, FilesOK, CallsOK, HistoryOK, Quiet, Initialised
  <2>. QED
    BY <2>14, <2>15 DEF TInv, PersistOK
<1>5. CASE CreateEnd
  <2>1. /\ tool.pc = "files" /\ tool' = NoTool
        /\ snap' = [snap EXCEPT ![tool.label].archive = "whole"] \/ snap' = snap
        /\ UNCHANGED <<persist, mode, attached, reimaging, captured>>
    BY <1>5 DEF CreateEnd
  <2>2. tool.label \in Labels /\ snap[tool.label].exists
    BY <2>1 DEF TInv, ToolOK
  <2>3. PICK x : x = [snap[tool.label] EXCEPT !.archive = "whole"]
    OBVIOUS
  <2>4. x \in SnapTypes /\ x.exists
    BY <2>2, <2>3, SnapParts DEF TInv, SnapTypes
  <2>5. snap' \in [Labels -> SnapTypes] /\ \A l \in Labels : ~snap'[l].exists => snap'[l] = NoSnapshot
    <3>1. CASE snap' = snap
      BY <3>1 DEF TInv, ToolOK
    <3>2. CASE snap' = [snap EXCEPT ![tool.label].archive = "whole"]
      <4>1. snap' = [snap EXCEPT ![tool.label] = x]
        BY <2>2, <2>3, <3>2 DEF TInv, ToolOK
      <4>. QED
        BY <2>2, <2>4, <4>1, SnapChange DEF TInv
    <3>. QED
      BY <2>1, <3>1, <3>2
  <2>6. tool' \in ToolTypes /\ tool'.pc = "idle" /\ tool'.result = "none"
    BY <2>1, NothingTypes DEF NoTool
  <2>7. ToolOK'
    BY <2>1, <2>5, <2>6 DEF TInv, ToolOK
  <2>. QED
    BY <2>1, <2>7, PersistKept DEF TInv, PersistOK
<1>. QED
  BY <1>1, <1>2, <1>3, <1>4, <1>5 DEF Create

LEMMA ManageKeepsTypes == TInv /\ Manage => TInv'
<1>. SUFFICES ASSUME TInv, Manage PROVE TInv'
  OBVIOUS
<1>1. UNCHANGED <<persist, mode, reimaging, captured>> /\ attached' \in BOOLEAN
  BY DEF Manage, List, DeleteFile, DeleteEnd, TInv, ToolOK
<1>2. ToolOK'
  <2>1. CASE List
    BY <1>1, <2>1 DEF List, snapshots, TInv, ToolOK, persist, files
  <2>2. CASE DeleteFile
    <3>1. PICK l \in Labels :
            /\ snap[l].exists
            /\ \/ snap' = [snap EXCEPT ![l].manifest = "none"]
               \/ snap' = [snap EXCEPT ![l].archive = "none", ![l].files = Nothing]
            /\ tool' = [NoTool EXCEPT !.pc = "remove", !.label = l]
      BY <2>2 DEF DeleteFile
    <3>2. PICK x : x = [snap[l] EXCEPT !.manifest = "none"]
      OBVIOUS
    <3>3. PICK y : y = [snap[l] EXCEPT !.archive = "none", !.files = Nothing]
      OBVIOUS
    <3>4. x \in SnapTypes /\ x.exists
      BY <3>1, <3>2, SnapParts DEF TInv, SnapTypes
    <3>5. y \in SnapTypes /\ y.exists
      BY <3>1, <3>3, SnapParts, NothingTypes DEF TInv, SnapTypes
    <3>6. snap' = [snap EXCEPT ![l] = x] \/ snap' = [snap EXCEPT ![l] = y]
      BY <3>1, <3>2, <3>3 DEF TInv, ToolOK
    <3>7. snap' \in [Labels -> SnapTypes] /\ \A k \in Labels : ~snap'[k].exists => snap'[k] = NoSnapshot
      BY <3>4, <3>5, <3>6, SnapChange DEF TInv
    <3>8. tool' \in ToolTypes /\ tool'.pc = "remove" /\ tool'.label \in Labels /\ tool'.result = "none"
      BY <3>1 DEF NoTool, ToolTypes
    <3>. QED
      BY <1>1, <3>7, <3>8 DEF TInv, ToolOK
  <2>3. CASE DeleteEnd
    <3>1. tool.label \in Labels /\ snap' = [snap EXCEPT ![tool.label] = NoSnapshot] /\ tool' = NoTool
      BY <2>3 DEF DeleteEnd, TInv, ToolOK
    <3>2. snap' \in [Labels -> SnapTypes] /\ \A k \in Labels : ~snap'[k].exists => snap'[k] = NoSnapshot
      BY <3>1, NothingTypes, SnapChange DEF TInv
    <3>3. tool' \in ToolTypes /\ tool'.pc = "idle" /\ tool'.result = "none"
      BY <3>1, NothingTypes DEF NoTool
    <3>. QED
      BY <1>1, <3>2, <3>3 DEF TInv, ToolOK
  <2>. QED
    BY <2>1, <2>2, <2>3 DEF Manage
<1>. QED
  BY <1>1, <1>2, PersistKept DEF TInv, PersistOK

\* mkfs leaves a partition without files, and every temporary file of it is gone.
LEMMA FormatKeepsTypes ==
  ASSUME TInv, Format
  PROVE  PersistOK' /\ \A n \in Namespaces : conf'["persist"][n] = NoFile /\ tmp'["persist"][n] = NoFile
<1>1. "persist" \in Places
  BY DEF Places
<1>2. UNCHANGED <<slot, mounts, setter, getter, spoiled, sets, reboots>>
  BY DEF Format, system, calls
<1>3. PICK none : none = [n \in Namespaces |-> NoFile]
  OBVIOUS
<1>4. none \in [Namespaces -> File] /\ \A n \in Namespaces : none[n] = NoFile
  BY <1>3 DEF File
<1>5. conf' = [conf EXCEPT !["persist"] = none] /\ tmp' = [tmp EXCEPT !["persist"] = none]
  BY <1>3 DEF Format
<1>6. NamesOK(conf', tmp')
  <2>1. conf' \in [Places -> [Namespaces -> File]] /\ tmp' \in [Places -> [Namespaces -> File]]
    BY <1>1, <1>4, <1>5 DEF TInv, FilesOK, NamesOK
  <2>2. ASSUME NEW p \in Places, NEW n \in Namespaces
        PROVE  /\ conf'[p][n] \in MayName(p, n) /\ tmp'[p][n] \in MayName(p, n)
               /\ conf'[p][n] = tmp'[p][n] => conf'[p][n] = NoFile
    BY <1>1, <1>4, <1>5 DEF TInv, FilesOK, NamesOK, MayName
  <2>. QED
    BY <2>1, <2>2 DEF NamesOK
<1>7. data' \in [Inodes -> Contents]
  BY EmptyText DEF Format, TInv, FilesOK
<1>8. disk' \in [Places -> [Namespaces -> Contents]] /\ settings' \in [Namespaces -> Contents]
      /\ saved' \in [Namespaces -> Contents]
  BY <1>1, NothingTypes DEF Format, TInv, HistoryOK
<1>9. FilesOK'
  BY <1>2, <1>6, <1>7 DEF TInv, FilesOK
<1>10. CallsOK' /\ HistoryOK'
  BY <1>2, <1>8 DEF TInv, CallsOK, HistoryOK
<1>11. \A n \in Namespaces : conf'["persist"][n] = NoFile /\ tmp'["persist"][n] = NoFile
  BY <1>1, <1>4, <1>5 DEF TInv, FilesOK, NamesOK
<1>. QED
  BY <1>9, <1>10, <1>11 DEF PersistOK

LEMMA NoCalls == ASSUME Quiet, mode # "normal"
                 PROVE  (\A s \in Setters : setter[s].pc = "idle") /\ getter.pc = "idle"
BY DEF Quiet

LEMMA RestoreKeepsTypes == TInv /\ (Restore \/ RestoreFormat) => TInv'
<1>. SUFFICES ASSUME TInv, Restore \/ RestoreFormat PROVE TInv'
  OBVIOUS
<1>1. CASE Restore
  <2>1. PICK l \in Labels :
          \/ snap[l].manifest = "none" /\ tool' = [NoTool EXCEPT !.result = "failed"]
          \/ snap[l].manifest = "empty" /\ tool' = [NoTool EXCEPT !.result = "nothing"]
          \/ snap[l].manifest = "whole" /\ tool' = [NoTool EXCEPT !.pc = "format", !.label = l]
    BY <1>1, SnapParts DEF Restore, TInv
  <2>2. /\ tool' \in ToolTypes /\ tool'.result \in {"none", "failed", "nothing"}
        /\ tool'.pc = "idle" \/ (tool'.pc = "format" /\ tool'.label \in Labels)
    BY <2>1 DEF NoTool, ToolTypes
  <2>3. UNCHANGED <<persist, mode, attached, reimaging, snapshots, captured>> /\ mode = "recovery"
    BY <1>1 DEF Restore
  <2>4. ToolOK'
    BY <2>2, <2>3 DEF TInv, ToolOK, snapshots
  <2>. QED
    BY <2>3, <2>4, PersistKept DEF TInv, PersistOK
<1>2. CASE RestoreFormat
  <2>1. /\ tool.pc = "format" /\ mode = "recovery" /\ tool.label \in Labels /\ tool \in ToolTypes
        /\ UNCHANGED <<mode, attached, snapshots, captured>> /\ tool.result # "restored"
    BY <1>2 DEF RestoreFormat, TInv, ToolOK
  <2>2. CASE tool' = [NoTool EXCEPT !.result = "failed"] /\ UNCHANGED <<persist, reimaging>>
    <3>1. tool' \in ToolTypes /\ tool'.pc = "idle" /\ tool'.result = "failed"
      BY <2>2 DEF NoTool, ToolTypes
    <3>2. ToolOK'
      BY <2>1, <2>2, <3>1 DEF TInv, ToolOK, snapshots
    <3>. QED
      BY <2>1, <2>2, <3>2, PersistKept DEF TInv, PersistOK
  <2>3. CASE /\ Format /\ reimaging' = TRUE
             /\ tool' = [tool EXCEPT !.pc = "untar", !.todo = Namespaces]
    <3>1. tool' \in ToolTypes /\ tool'.pc = "untar" /\ tool'.result = tool.result /\ tool'.label = tool.label
      BY <2>1, <2>3 DEF ToolTypes
    <3>2. PersistOK' /\ \A n \in Namespaces : tmp'["persist"][n] = NoFile
      BY <2>3, FormatKeepsTypes
    <3>3. ToolOK'
      BY <2>1, <2>3, <3>1, <3>2 DEF TInv, ToolOK, snapshots
    <3>4. Quiet'
      BY <2>1, <2>3, NoCalls DEF TInv, Format, calls, Quiet
    <3>. QED
      BY <3>2, <3>3, <3>4 DEF TInv, PersistOK
  <2>. QED
    BY <1>2, <2>2, <2>3 DEF RestoreFormat
<1>. QED
  BY <1>1, <1>2

LEMMA RestoreFileKeepsTypes == TInv /\ RestoreFile => TInv'
<1>. SUFFICES ASSUME TInv, RestoreFile PROVE TInv'
  OBVIOUS
<1>1. /\ tool.pc = "untar" /\ mode = "recovery" /\ tool.label \in Labels /\ tool \in ToolTypes
      /\ tool.result # "restored" /\ "persist" \in Places
      /\ \A n \in Namespaces : tmp["persist"][n] = NoFile
  BY DEF RestoreFile, TInv, ToolOK, Places
<1>2. PICK n \in tool.todo :
        /\ data' = [data EXCEPT ![<<"persist", n, 1>>] = snap[tool.label].files[n]]
        /\ conf' = [conf EXCEPT !["persist"][n] =
                      IF snap[tool.label].files[n] = Empty THEN NoFile ELSE <<"persist", n, 1>>]
        /\ settings' = [settings EXCEPT ![n] = snap[tool.label].files[n]]
        /\ tool' = [tool EXCEPT !.todo = @ \ {n}]
  BY DEF RestoreFile
<1>3. /\ UNCHANGED <<system, tmp, calls, disk, saved, spoiled, sets, reboots>>
      /\ UNCHANGED <<mode, attached, reimaging, snapshots, captured>>
  BY DEF RestoreFile
<1>4. n \in Namespaces
  BY <1>1, <1>2 DEF ToolTypes
<1>5. snap[tool.label].files[n] \in Contents
  BY <1>1, <1>4, SnapParts DEF TInv
<1>6. PICK c : c = IF snap[tool.label].files[n] = Empty THEN NoFile ELSE <<"persist", n, 1>>
  OBVIOUS
<1>7. <<"persist", n, 1>> \in Inodes
  BY <1>1, <1>4, Roomy
<1>8. c \in MayName("persist", n) /\ NoFile \in MayName("persist", n)
  BY <1>6, <1>7 DEF MayName
<1>9. NamesOK([conf EXCEPT !["persist"][n] = c], [tmp EXCEPT !["persist"][n] = tmp["persist"][n]])
  BY <1>1, <1>4, <1>8, NamesChange DEF TInv
<1>10. NamesOK(conf', tmp')
  <2>1. tmp' = [tmp EXCEPT !["persist"][n] = tmp["persist"][n]]
    BY <1>1, <1>3, <1>4, SameNames DEF TInv
  <2>2. conf' = [conf EXCEPT !["persist"][n] = c]
    BY <1>2, <1>6
  <2>. QED
    BY <1>9, <2>1, <2>2
<1>11. FilesOK'
  BY <1>2, <1>3, <1>5, <1>10 DEF system, TInv, FilesOK
<1>12. CallsOK' /\ HistoryOK'
  BY <1>2, <1>3, <1>5 DEF calls, TInv, CallsOK, HistoryOK
<1>13. tool' \in ToolTypes /\ tool'.pc = "untar" /\ tool'.result = tool.result /\ tool'.label = tool.label
  BY <1>1, <1>2 DEF ToolTypes
<1>14. ToolOK'
  BY <1>1, <1>3, <1>13 DEF TInv, ToolOK, snapshots
<1>15. Quiet'
  BY <1>1, <1>3, NoCalls DEF TInv, calls, Quiet
<1>. QED
  BY <1>11, <1>12, <1>14, <1>15 DEF TInv

LEMMA RestoreEndKeepsTypes == TInv /\ RestoreEnd => TInv'
<1>. SUFFICES ASSUME TInv, RestoreEnd PROVE TInv'
  OBVIOUS
<1>1. /\ UNCHANGED <<system, files, calls, settings, spoiled, sets, reboots>>
      /\ UNCHANGED <<mode, attached, snapshots, captured>>
      /\ tool.pc = "untar" /\ mode = "recovery" /\ tool.label \in Labels
  BY DEF RestoreEnd, TInv, ToolOK
<1>2. /\ tool' = [NoTool EXCEPT !.label = tool.label, !.result = "restored"]
           \/ tool' = [NoTool EXCEPT !.result = "failed"]
      /\ reimaging' \in BOOLEAN
  BY DEF RestoreEnd, TInv, ToolOK
<1>3. /\ tool' \in ToolTypes /\ tool'.pc = "idle"
      /\ tool'.result = "restored" => tool'.label \in Labels
  BY <1>1, <1>2 DEF NoTool, ToolTypes
<1>4. ToolOK'
  BY <1>1, <1>2, <1>3 DEF TInv, ToolOK, snapshots, files
<1>5. disk' \in [Places -> [Namespaces -> Contents]] /\ saved' \in [Namespaces -> Contents]
  <2>1. PICK d : d = [n \in Namespaces |-> Text(conf["persist"][n])]
    OBVIOUS
  <2>2. d \in [Namespaces -> Contents]
    BY <2>1, TextTypes DEF TInv, FilesOK, NamesOK, Places
  <2>3. /\ disk' = [disk EXCEPT !["persist"] = d] \/ disk' = disk
        /\ saved' = settings \/ saved' = saved
    BY <2>1 DEF RestoreEnd
  <2>. QED
    BY <2>2, <2>3 DEF TInv, HistoryOK
<1>6. FilesOK' /\ CallsOK' /\ HistoryOK' /\ Quiet'
  BY <1>1, <1>5 DEF system, files, calls, TInv, FilesOK, CallsOK, HistoryOK, Quiet, Initialised
<1>. QED
  BY <1>4, <1>6 DEF TInv

LEMMA ResetKeepsTypes == TInv /\ FactoryReset => TInv'
<1>. SUFFICES ASSUME TInv, FactoryReset PROVE TInv'
  OBVIOUS
<1>1. UNCHANGED <<mode, attached, reimaging, snapshots, captured>> /\ mode = "recovery" /\ tool' = NoTool
  BY DEF FactoryReset
<1>2. tool' \in ToolTypes /\ tool'.pc = "idle" /\ tool'.result = "none"
  BY <1>1, NothingTypes DEF NoTool
<1>3. ToolOK'
  BY <1>1, <1>2 DEF TInv, ToolOK, snapshots
<1>4. PersistOK' /\ Quiet'
  <2>1. CASE UNCHANGED persist
    BY <1>1, <2>1, PersistKept
  <2>2. CASE Format
    BY <1>1, <2>2, FormatKeepsTypes, NoCalls DEF TInv, Format, calls, Quiet
  <2>. QED
    BY <2>1, <2>2 DEF FactoryReset
<1>. QED
  BY <1>3, <1>4 DEF TInv, PersistOK

LEMMA MountKeepsTypes == TInv /\ (RecoveryInit \/ Unmount) => TInv'
<1>. SUFFICES ASSUME TInv, RecoveryInit \/ Unmount PROVE TInv'
  OBVIOUS
<1>1. /\ UNCHANGED <<slot, files, calls, disk, history, sets, reboots>>
      /\ UNCHANGED <<attached, reimaging, snapshots, tool, captured>>
      /\ mounts' \subseteq {"persist", "log"} /\ mode' = "recovery" /\ mode # "normal"
      /\ mode = "boot" \/ mode = mode'
  BY DEF RecoveryInit, Unmount, recovery
<1>2. PersistOK'
  BY <1>1 DEF files, calls, history, TInv, PersistOK, FilesOK, CallsOK, HistoryOK
<1>3. ToolOK'
  BY <1>1 DEF TInv, ToolOK, snapshots, files
<1>4. Quiet'
  BY <1>1, NoCalls DEF TInv, calls, Quiet
<1>. QED
  BY <1>2, <1>3, <1>4 DEF TInv, PersistOK

LEMMA DamagedParts ==
  ASSUME NEW x \in SnapTypes, NEW y \in Damaged(x)
  PROVE  /\ y \in SnapTypes /\ y.exists = x.exists /\ y.files = x.files
         /\ y.archive = "whole" => x.archive = "whole"
         /\ x = NoSnapshot => y = NoSnapshot
<1>1. PICK M : M = IF x.manifest = "whole" THEN {"whole", "empty"} ELSE {x.manifest}
  OBVIOUS
<1>2. PICK A : A = IF x.archive = "whole" THEN {"whole", "torn"} ELSE {x.archive}
  OBVIOUS
<1>3. PICK left \in M \X A : y = [x EXCEPT !.manifest = left[1], !.archive = left[2]]
  BY <1>1, <1>2 DEF Damaged
<1>4. PICK m \in M, a \in A : y = [x EXCEPT !.manifest = m, !.archive = a]
  BY <1>3
<1>5. /\ m \in {"none", "empty", "whole"} /\ a \in {"none", "torn", "whole"}
      /\ a = "whole" => x.archive = "whole"
      /\ x.manifest = "none" => m = "none"
      /\ x.archive = "none" => a = "none"
  BY <1>4, <1>1, <1>2 DEF SnapTypes
<1>6. y \in SnapTypes /\ y.exists = x.exists /\ y.files = x.files /\ y.archive = a
  BY <1>4, <1>5 DEF SnapTypes
<1>7. x = NoSnapshot => y = NoSnapshot
  <2>1. ASSUME x = NoSnapshot PROVE y = NoSnapshot
    <3>1. m = "none" /\ a = "none"
      BY <1>5, <2>1 DEF NoSnapshot
    <3>. QED
      BY <1>4, <2>1, <3>1 DEF NoSnapshot
  <2>. QED
    BY <2>1
<1>. QED
  BY <1>6, <1>7, <1>5

\* What a power cut leaves of the snapshots.
LEMMA SnapsLeft ==
  ASSUME ToolOK, PowerCut
  PROVE  /\ snap' \in [Labels -> SnapTypes]
         /\ \A l \in Labels : /\ snap'[l].exists = snap[l].exists /\ snap'[l].files = snap[l].files
                              /\ snap'[l].archive = "whole" => snap[l].archive = "whole"
                              /\ snap[l] = NoSnapshot => snap'[l] = NoSnapshot
<1>1. /\ snap' \in [Labels -> UNION {Damaged(snap[l]) : l \in Labels}]
      /\ \A l \in Labels : snap'[l] \in Damaged(snap[l]) \/ snap'[l] = snap[l]
  BY DEF PowerCut
<1>2. ASSUME NEW l \in Labels
      PROVE  /\ snap'[l] \in SnapTypes
             /\ snap'[l].exists = snap[l].exists /\ snap'[l].files = snap[l].files
             /\ snap'[l].archive = "whole" => snap[l].archive = "whole"
             /\ snap[l] = NoSnapshot => snap'[l] = NoSnapshot
  BY <1>1, SnapParts, DamagedParts
<1>. QED
  BY <1>1, <1>2

\* The texts that count after a power cut.
Left(lost) == [p \in Places |-> [n \in Namespaces |->
                 IF <<p, n>> \in lost THEN disk[p][n] ELSE Text(conf[p][n])]]

LEMMA LeftOver ==
  ASSUME TInv, Reboot
  PROVE  \E lost \in SUBSET Unsaved :
           /\ Left(lost) \in [Places -> [Namespaces -> Contents]]
           /\ data' = [i \in Inodes |-> IF i[3] = 1 THEN Left(lost)[i[1]][i[2]] ELSE Empty]
           /\ conf' = [p \in Places |-> [n \in Namespaces |->
                         IF Left(lost)[p][n] = Empty THEN NoFile ELSE <<p, n, 1>>]]
           /\ disk' = Left(lost)
           /\ settings' = [n \in Namespaces |->
                             IF <<"persist", n>> \in lost THEN saved[n] ELSE settings[n]]
<1>1. PICK lost \in SUBSET Unsaved :
           /\ data' = [i \in Inodes |-> IF i[3] = 1 THEN Left(lost)[i[1]][i[2]] ELSE Empty]
           /\ conf' = [p \in Places |-> [n \in Namespaces |->
                         IF Left(lost)[p][n] = Empty THEN NoFile ELSE <<p, n, 1>>]]
           /\ disk' = Left(lost)
           /\ settings' = [n \in Namespaces |->
                             IF <<"persist", n>> \in lost THEN saved[n] ELSE settings[n]]
  BY DEF Reboot, Left
<1>2. Left(lost) \in [Places -> [Namespaces -> Contents]]
  <2>1. \A p \in Places, n \in Namespaces : Text(conf[p][n]) \in Contents /\ disk[p][n] \in Contents
    BY TextTypes DEF TInv, FilesOK, NamesOK, HistoryOK
  <2>. QED
    BY <2>1 DEF Left
<1>. QED
  BY <1>1, <1>2

LEMMA CutKeepsTypes == TInv /\ PowerCut => TInv'
<1>. SUFFICES ASSUME TInv, PowerCut PROVE TInv'
  OBVIOUS
<1>1. PICK lost \in SUBSET Unsaved :
           /\ Left(lost) \in [Places -> [Namespaces -> Contents]]
           /\ data' = [i \in Inodes |-> IF i[3] = 1 THEN Left(lost)[i[1]][i[2]] ELSE Empty]
           /\ conf' = [p \in Places |-> [n \in Namespaces |->
                         IF Left(lost)[p][n] = Empty THEN NoFile ELSE <<p, n, 1>>]]
           /\ disk' = Left(lost)
           /\ settings' = [n \in Namespaces |->
                             IF <<"persist", n>> \in lost THEN saved[n] ELSE settings[n]]
  BY LeftOver DEF PowerCut
<1>2. /\ slot' \in Slots /\ mounts' = {} /\ saved' = settings' /\ UNCHANGED <<spoiled, sets>>
      /\ setter' = [s \in Setters |-> NoSet] /\ getter' = NoGet
      /\ reboots < MaxReboots /\ reboots' = reboots + 1
  BY DEF PowerCut, Reboot
<1>3. PICK stale \in BOOLEAN :
        tmp' = [p \in Places |-> [n \in Namespaces |->
                  IF stale /\ tmp[p][n] # NoFile THEN <<p, n, 2>> ELSE NoFile]]
  BY DEF PowerCut, Reboot
<1>4. data' \in [Inodes -> Contents]
  <2>1. PICK L \in [Places -> [Namespaces -> Contents]] : L = Left(lost)
    BY <1>1
  <2>2. ASSUME NEW i \in Inodes PROVE (IF i[3] = 1 THEN L[i[1]][i[2]] ELSE Empty) \in Contents
    BY InodeParts, EmptyText
  <2>. QED
    BY <1>1, <2>1, <2>2
<1>5. NamesOK(conf', tmp')
  <2>1. ASSUME NEW p \in Places, NEW n \in Namespaces
        PROVE  /\ conf'[p][n] \in MayName(p, n) /\ tmp'[p][n] \in MayName(p, n)
               /\ conf'[p][n] = tmp'[p][n] => conf'[p][n] = NoFile
    <3>1. <<p, n, 1>> \in MayName(p, n) /\ <<p, n, 2>> \in MayName(p, n) /\ NoFile \in MayName(p, n)
      BY Roomy DEF MayName
    <3>2. conf'[p][n] \in {NoFile, <<p, n, 1>>} /\ tmp'[p][n] \in {NoFile, <<p, n, 2>>}
      BY <1>1, <1>3
    <3>3. NoFile # <<p, n, 2>>
      BY Roomy, NoFileIsNone
    <3>4. <<p, n, 1>> # <<p, n, 2>>
      OBVIOUS
    <3>. QED
      BY <3>1, <3>2, <3>3, <3>4
  <2>2. conf' \in [Places -> [Namespaces -> File]] /\ tmp' \in [Places -> [Namespaces -> File]]
    BY <1>1, <1>3, Roomy DEF File
  <2>. QED
    BY <2>1, <2>2 DEF NamesOK
<1>6. FilesOK'
  BY <1>2, <1>4, <1>5 DEF FilesOK
<1>7. CallsOK'
  BY <1>2, EmptyText DEF CallsOK, SetTypes, GetTypes, NoSet, NoGet, File
<1>8. HistoryOK'
  <2>1. reboots' \in 0 .. MaxReboots
    BY <1>2, PersistAssumption DEF TInv, HistoryOK
  <2>2. settings' \in [Namespaces -> Contents]
    BY <1>1 DEF TInv, HistoryOK
  <2>. QED
    BY <1>1, <1>2, <2>1, <2>2 DEF TInv, HistoryOK
<1>9. ToolOK'
  <2>1. /\ mode' \in {"normal", "boot"} /\ attached' = FALSE /\ reimaging' = FALSE
        /\ tool' = NoTool /\ UNCHANGED captured
    BY DEF PowerCut
  <2>2. tool' \in ToolTypes /\ tool'.pc = "idle" /\ tool'.result = "none"
    BY <2>1, NothingTypes DEF NoTool
  <2>3. snap' \in [Labels -> SnapTypes] /\ \A l \in Labels : ~snap'[l].exists => snap'[l] = NoSnapshot
    BY SnapsLeft DEF TInv, ToolOK
  <2>. QED
    BY <2>1, <2>2, <2>3 DEF TInv, ToolOK
<1>10. Quiet'
  BY <1>2 DEF Quiet, NoSet, NoGet
<1>. QED
  BY <1>6, <1>7, <1>8, <1>9, <1>10 DEF TInv

LEMMA SyncKeepsTypes == TInv /\ WriteBack => TInv'
<1>. SUFFICES ASSUME TInv, WriteBack PROVE TInv'
  OBVIOUS
<1>1. /\ UNCHANGED <<system, files, calls, settings, spoiled, sets, reboots>>
      /\ UNCHANGED <<mode, attached, reimaging, snap, tool, captured>>
  BY DEF WriteBack, Sync
<1>2. disk' \in [Places -> [Namespaces -> Contents]] /\ saved' = settings
  <2>1. \A p \in Places, n \in Namespaces : Text(conf[p][n]) \in Contents
    BY TextTypes DEF TInv, FilesOK, NamesOK
  <2>2. disk' = [p \in Places |-> [n \in Namespaces |-> Text(conf[p][n])]] /\ saved' = settings
    BY DEF WriteBack, Sync
  <2>. QED
    BY <2>1, <2>2
<1>3. PersistOK' /\ Quiet'
  BY <1>1, <1>2 DEF system, files, calls, TInv, PersistOK, FilesOK, CallsOK, HistoryOK, Quiet, Initialised
<1>4. ToolOK'
  BY <1>1 DEF files, TInv, ToolOK
<1>. QED
  BY <1>3, <1>4 DEF TInv, PersistOK

LEMMA TypesKept == TInv /\ [Next]_vars => TInv'
<1>1. CASE UNCHANGED vars
  <2>1. ASSUME TInv PROVE TInv'
    <3>1. ToolOK'
      BY <1>1, <2>1 DEF vars, persist, files, recovery, snapshots, TInv, ToolOK
    <3>. QED
      BY <1>1, <2>1, <3>1, PersistKept DEF vars, recovery, TInv, PersistOK
  <2>. QED
    BY <2>1
<1>2. CASE Next
  BY <1>2, RunningKeepsTypes, CreateKeepsTypes, ManageKeepsTypes, RestoreKeepsTypes,
     RestoreFileKeepsTypes, RestoreEndKeepsTypes, ResetKeepsTypes, MountKeepsTypes,
     CutKeepsTypes, SyncKeepsTypes DEF Next
<1>. QED
  BY <1>1, <1>2

\* Every variable of the settings, the snapshots and the calls under way has its type:
\* above all no two names lead to one inode, and a call always finds one for its
\* temporary file (bb_persist_config_set), and restore never meets one.
THEOREM TypeCorrect == Spec => []TypeOK
<1>1. Spec => []TInv
  BY TypesAtFirst, TypesKept, PTL DEF Spec
<1>. QED
  BY <1>1, TypesMeanTypeOK, PTL

-----------------------------------------------------------------------------
(* Calls that set and get keep what was set *)

\* No two names lead to the same inode.
LEMMA Distinct ==
  ASSUME FilesOK, NEW p \in Places, NEW q \in Places, NEW n \in Namespaces, NEW m \in Namespaces
  PROVE  /\ conf[p][n] \in Inodes => conf[p][n] # tmp[q][m]
         /\ tmp[p][n] \in Inodes /\ tmp[p][n] = tmp[q][m] => p = q /\ n = m
<1>1. /\ conf[p][n] \in MayName(p, n) /\ tmp[q][m] \in MayName(q, m) /\ tmp[p][n] \in MayName(p, n)
      /\ conf[p][n] = tmp[p][n] => conf[p][n] = NoFile
  BY DEF FilesOK, NamesOK
<1>. QED
  BY <1>1, NoFileIsNone DEF MayName

\* The file that a call writes is nobody else's.
LEMMA Untouched ==
  ASSUME OneWriter, TInv, ReadersApart, \A t \in Setters : Apart(t),
         NEW s \in Setters, NEW i \in Inodes, NEW x,
         i \in MayName(Here, Owner[s]), i # conf[Here][Owner[s]],
         i = tmp[Here][Owner[s]] \/ i \notin Named \cup Opened,
         data' = [data EXCEPT ![i] = x]
  PROVE  /\ \A p \in Places, m \in Namespaces : conf[p][m] # NoFile => data'[conf[p][m]] = data[conf[p][m]]
         /\ \A t \in Setters \ {s} :
              setter[t].pc = "rename" => data'[setter[t].out] = data[setter[t].out]
         /\ getter.pc = "read" => /\ getter.in # i
                                  /\ getter.in # NoFile => data'[getter.in] = data[getter.in]
<1>1. Here \in Places /\ Owner \in [Setters -> Namespaces]
  BY PersistAssumption, HereIsPlace DEF TInv
<1>2. \A j \in Inodes : j # i => data'[j] = data[j]
  BY DEF TInv, FilesOK
<1>3. ASSUME NEW p \in Places, NEW m \in Namespaces, conf[p][m] # NoFile
      PROVE  data'[conf[p][m]] = data[conf[p][m]]
  <2>1. conf[p][m] \in MayName(p, m)
    BY DEF TInv, FilesOK, NamesOK
  <2>2. conf[p][m] \in Inodes
    BY <1>3, <2>1 DEF MayName
  <2>3. conf[p][m] # i
    BY <2>1, <2>2, NoFileIsNone DEF MayName
  <2>. QED
    BY <1>2, <2>2, <2>3
<1>4. ASSUME NEW t \in Setters \ {s}, setter[t].pc = "rename"
      PROVE  data'[setter[t].out] = data[setter[t].out]
  <2>1. setter[t].out = tmp[Here][Owner[t]] /\ setter[t].out \in Inodes
    BY <1>4 DEF Apart, TInv, CallsOK
  <2>2. setter[t].out \in MayName(Here, Owner[t])
    BY <1>1, <2>1 DEF TInv, FilesOK, NamesOK
  <2>3. Owner[t] # Owner[s]
    BY DEF OneWriter
  <2>4. setter[t].out # i
    BY <2>1, <2>2, <2>3, NoFileIsNone DEF MayName
  <2>. QED
    BY <1>2, <2>1, <2>4
<1>5. ASSUME getter.pc = "read"
      PROVE  getter.in # i /\ (getter.in # NoFile => data'[getter.in] = data[getter.in])
  <2>1. getter.in \in MayName(Here, getter.ns)
    BY <1>5 DEF ReadersApart
  <2>2. ASSUME getter.in = i PROVE FALSE
    <3>1. getter.ns = Owner[s]
      BY <2>1, <2>2, NoFileIsNone DEF MayName
    <3>2. getter.in \in Opened
      BY DEF Opened
    <3>3. getter.in # tmp[Here][getter.ns]
      BY <1>5, <2>2, NoFileIsNone DEF ReadersApart
    <3>. QED
      BY <2>2, <3>1, <3>2, <3>3
  <2>3. getter.in \in File
    BY <2>1 DEF MayName, File
  <2>. QED
    BY <1>2, <2>2, <2>3 DEF File
<1>. QED
  BY <1>3, <1>4, <1>5

LEMMA HereNow == ASSUME TInv PROVE "persist" \in mounts <=> Here = "persist"
BY PersistAssumption DEF TInv, FilesOK, Here

\* While nobody is in the middle of a call there is nothing to say about calls.
LEMMA NobodyCalls ==
  ASSUME (\A s \in Setters : setter'[s].pc = "idle"), getter'.pc = "idle"
  PROVE  ReadersApart' /\ (\A s \in Setters : Apart(s)') /\ InPlace'
BY DEF ReadersApart, Apart, InPlace, Reads, Writes

LEMMA SameKept ==
  ASSUME KInv, UNCHANGED <<system, files, calls, disk, settings, saved>>, spoiled => spoiled'
  PROVE  KInv'
<1>1. UNCHANGED <<slot, mounts, data, conf, tmp, setter, getter, disk, settings, saved>>
  BY DEF system, files, calls
<1>. QED
  BY <1>1 DEF KInv, ReadersApart, Apart, Kept, InPlace, Reads, Writes, Line, Here, Text

LEMMA MountKeeps ==
  ASSUME TInv, KInv, MountLog \/ PersistInit
  PROVE  KInv'
<1>1. UNCHANGED <<slot, data, conf, tmp, setter, getter, disk, settings, saved, spoiled>>
  BY DEF MountLog, PersistInit, files, calls, history
<1>2. Kept'
  BY <1>1 DEF KInv, Kept, Text
<1>3. CASE MountLog
  <2>1. Here' = Here /\ ("persist" \in mounts' <=> "persist" \in mounts)
    BY <1>1, <1>3 DEF MountLog, Here
  <2>. QED
    BY <1>1, <1>2, <2>1 DEF KInv, ReadersApart, Apart, InPlace, Reads, Writes, Line, Text
<1>4. CASE PersistInit
  <2>1. (\A s \in Setters : setter'[s].pc = "idle") /\ getter'.pc = "idle"
    BY <1>1, <1>4 DEF PersistInit, TInv, Quiet, Initialised
  <2>. QED
    BY <1>2, <2>1, NobodyCalls DEF KInv
<1>. QED
  BY <1>3, <1>4

LEMMA GetKeeps ==
  ASSUME TInv, KInv, Get
  PROVE  KInv'
<1>1. UNCHANGED <<slot, mounts, data, conf, tmp, setter, disk, settings, saved, spoiled>>
  BY DEF Get, GetOpen, GetRead, system, files, history
<1>2. Kept' /\ (\A s \in Setters : Apart(s)') /\ Here' = Here
  BY <1>1 DEF KInv, Kept, Text, Apart, Here
<1>3. \A s \in Setters : Writes(s) => Writes(s)'
  BY <1>1 DEF Writes, Line
<1>4. CASE GetOpen
  <2>1. PICK n \in Namespaces, k \in Keys :
          getter' = [pc |-> "read", ns |-> n, key |-> k, in |-> conf[Here][n],
                     result |-> NoValue, possible |-> {settings[n][k]}]
    BY <1>4 DEF GetOpen
  <2>2. ReadersApart'
    <3>1. conf[Here][n] \in MayName(Here, n) /\ (conf[Here][n] = tmp[Here][n] => conf[Here][n] = NoFile)
      BY HereIsPlace DEF TInv, FilesOK, NamesOK
    <3>. QED
      BY <1>1, <1>2, <2>1, <3>1 DEF ReadersApart
  <2>3. ~spoiled /\ "persist" \in mounts => Reads'
    <3>1. ASSUME ~spoiled, "persist" \in mounts PROVE Reads'
      <4>1. Text(conf[Here][n]) = settings[n]
        BY <3>1, HereNow DEF KInv, Kept
      <4>2. Text(getter.in)' = settings[n]
        BY <1>1, <2>1, <4>1 DEF Text
      <4>. QED
        BY <2>1, <4>2 DEF Reads
    <3>. QED
      BY <3>1
  <2>. QED
    BY <1>1, <1>2, <1>3, <2>2, <2>3 DEF KInv, InPlace
<1>5. CASE GetRead
  <2>1. getter' = [getter EXCEPT !.pc = "done", !.in = NoFile, !.result = Text(getter.in)[getter.key]]
        /\ getter.pc = "read" /\ getter \in GetTypes
    BY <1>5 DEF GetRead, TInv, CallsOK
  <2>2. /\ getter'.pc = "done" /\ getter'.possible = getter.possible
        /\ getter'.result = Text(getter.in)[getter.key]
    BY <2>1 DEF GetTypes
  <2>3. ReadersApart' /\ (Reads => Reads')
    BY <2>1, <2>2 DEF ReadersApart, Reads
  <2>. QED
    BY <1>1, <1>2, <1>3, <2>3 DEF KInv, InPlace
<1>. QED
  BY <1>4, <1>5 DEF Get

LEMMA OpenKeeps ==
  ASSUME TInv, KInv, NEW s \in Setters, SetOpen(s) \/ SetRefused(s)
  PROVE  KInv'
<1>1. UNCHANGED <<slot, mounts, data, conf, tmp, getter, disk, settings, saved, spoiled>>
  BY DEF SetOpen, SetRefused, system, files, history
<1>2. Kept' /\ ReadersApart' /\ Here' = Here
  BY <1>1 DEF KInv, Kept, Text, ReadersApart, Here
<1>3. Reads => Reads'
  BY <1>1 DEF Reads, Text
<1>4. \A t \in Setters \ {s} : setter'[t] = setter[t]
  BY DEF SetOpen, SetRefused, TInv, CallsOK
<1>5. /\ setter'[s].pc \in {"idle", "create"}
      /\ setter'[s].pc = "create" => setter'[s].in = conf[Here][Owner[s]]
  <2>1. CASE SetOpen(s)
    <3>1. PICK k \in Keys, v \in Values :
            setter' = [setter EXCEPT ![s] = [NoSet EXCEPT !.pc = "create", !.key = k, !.value = v,
                                                          !.in = conf[Here][Owner[s]]]]
      BY <2>1 DEF SetOpen
    <3>. QED
      BY <3>1 DEF NoSet, TInv, CallsOK
  <2>2. CASE SetRefused(s)
    BY <2>2 DEF SetRefused, NoSet, TInv, CallsOK
  <2>. QED
    BY <2>1, <2>2
<1>6. ASSUME NEW t \in Setters PROVE Apart(t)' /\ (Writes(t) => Writes(t)')
  <2>1. CASE t = s
    BY <1>1, <1>2, <1>5, <2>1 DEF Apart, Writes
  <2>2. CASE t # s
    BY <1>1, <1>2, <1>4, <2>2 DEF KInv, Apart, Writes, Line
  <2>. QED
    BY <2>1, <2>2
<1>. QED
  BY <1>1, <1>2, <1>3, <1>6 DEF KInv, InPlace

LEMMA CreateKeeps ==
  ASSUME OneWriter, TInv, KInv, NEW s \in Setters, SetCreate(s)
  PROVE  KInv'
<1>1. UNCHANGED <<slot, mounts, conf, getter, disk, settings, saved, spoiled>> /\ setter[s].pc = "create"
  BY DEF SetCreate, system, history
<1>2. PICK i \in Inodes :
           /\ i \in MayName(Here, Owner[s])
           /\ i = tmp[Here][Owner[s]] \/ i \notin Named \cup Opened
           /\ data' = [data EXCEPT ![i] = Empty]
           /\ tmp' = [tmp EXCEPT ![Here][Owner[s]] = i]
           /\ setter' = [setter EXCEPT ![s].pc = "copy", ![s].out = i]
           /\ i # conf[Here][Owner[s]]
  BY CreatedFile
<1>3. /\ \A p \in Places, m \in Namespaces : conf[p][m] # NoFile => data'[conf[p][m]] = data[conf[p][m]]
      /\ \A t \in Setters \ {s} :
              setter[t].pc = "rename" => data'[setter[t].out] = data[setter[t].out]
      /\ getter.pc = "read" => /\ getter.in # i
                               /\ getter.in # NoFile => data'[getter.in] = data[getter.in]
  BY <1>2, Untouched DEF KInv
<1>4. Here' = Here /\ Here \in Places /\ Owner \in [Setters -> Namespaces]
  BY <1>1, HereIsPlace, PersistAssumption DEF Here, TInv
<1>5. Kept'
  <2>1. "persist" \in Places
    BY DEF Places
  <2>. QED
    BY <1>1, <1>3, <2>1 DEF KInv, Kept, Text
<1>6. ReadersApart'
  <2>1. ASSUME getter.pc = "read", getter.in = tmp'[Here][getter.ns] PROVE getter.in = NoFile
    <3>1. getter.ns \in Namespaces
      BY <2>1 DEF TInv, CallsOK
    <3>2. CASE getter.ns = Owner[s]
      BY <1>2, <1>3, <1>4, <2>1, <3>2 DEF TInv, FilesOK, NamesOK
    <3>3. CASE getter.ns # Owner[s]
      <4>1. tmp'[Here][getter.ns] = tmp[Here][getter.ns]
        BY <1>2, <1>4, <3>1, <3>3 DEF TInv, FilesOK, NamesOK
      <4>. QED
        BY <2>1, <4>1 DEF KInv, ReadersApart
    <3>. QED
      BY <3>2, <3>3
  <2>. QED
    BY <1>1, <1>4, <2>1 DEF KInv, ReadersApart
<1>7. Reads => Reads'
  BY <1>1, <1>3 DEF Reads, Text
<1>8. /\ \A t \in Setters \ {s} : setter'[t] = setter[t]
      /\ setter'[s].pc = "copy" /\ setter'[s].out = i /\ setter'[s].in = setter[s].in
  BY <1>2 DEF TInv, CallsOK, SetTypes
<1>9. ASSUME NEW t \in Setters PROVE Apart(t)' /\ (Writes(t) => Writes(t)')
  <2>1. CASE t = s
    <3>1. tmp'[Here][Owner[s]] = i
      BY <1>2, <1>4 DEF TInv, FilesOK, NamesOK
    <3>. QED
      BY <1>1, <1>4, <1>8, <2>1, <3>1 DEF KInv, Apart, Writes
  <2>2. CASE t # s
    <3>1. tmp'[Here][Owner[t]] = tmp[Here][Owner[t]]
      BY <1>2, <1>4, <2>2 DEF OneWriter, TInv, FilesOK, NamesOK
    <3>2. Apart(t)'
      BY <1>1, <1>4, <1>8, <2>2, <3>1 DEF KInv, Apart
    <3>3. Writes(t) => Writes(t)'
      BY <1>1, <1>3, <1>8, <2>2 DEF Writes, Line
    <3>. QED
      BY <3>2, <3>3
  <2>. QED
    BY <2>1, <2>2
<1>. QED
  BY <1>1, <1>5, <1>6, <1>7, <1>9 DEF KInv, InPlace

LEMMA CopyKeeps ==
  ASSUME TInv, KInv, NEW s \in Setters, SetCopy(s)
  PROVE  KInv'
<1>1. UNCHANGED <<slot, mounts, data, conf, tmp, getter, disk, settings, saved, spoiled>>
      /\ setter[s].pc = "copy"
  BY DEF SetCopy, system, files, history
<1>2. Kept' /\ ReadersApart' /\ Here' = Here
  BY <1>1 DEF KInv, Kept, Text, ReadersApart, Here
<1>3. Reads => Reads'
  BY <1>1 DEF Reads, Text
<1>4. PICK x : x = [Text(setter[s].in) EXCEPT ![setter[s].key] = setter[s].value]
  OBVIOUS
<1>5. setter' = [setter EXCEPT ![s].pc = "close", ![s].in = NoFile, ![s].text = x]
  BY <1>4 DEF SetCopy
<1>6. /\ \A t \in Setters \ {s} : setter'[t] = setter[t]
      /\ setter'[s].pc = "close" /\ setter'[s].out = setter[s].out
      /\ setter'[s].text = x /\ setter'[s].key = setter[s].key /\ setter'[s].value = setter[s].value
  BY <1>5 DEF TInv, CallsOK, SetTypes
<1>7. \A t \in Setters : Apart(t)'
  BY <1>1, <1>2, <1>6 DEF KInv, Apart
<1>8. ASSUME NEW t \in Setters, ~spoiled, "persist" \in mounts, Writes(t) PROVE Writes(t)'
  <2>1. CASE t = s
    <3>1. setter[s].in = conf["persist"][Owner[s]]
      BY <1>1, <1>8, HereNow DEF KInv, Apart
    <3>2. Text(setter[s].in) = settings[Owner[s]]
      BY <1>8, <3>1, PersistAssumption DEF KInv, Kept
    <3>. QED
      BY <1>1, <1>4, <1>6, <2>1, <3>2 DEF Writes, Line
  <2>2. CASE t # s
    BY <1>1, <1>6, <1>8, <2>2 DEF Writes, Line
  <2>. QED
    BY <2>1, <2>2
<1>. QED
  BY <1>1, <1>2, <1>3, <1>7, <1>8 DEF KInv, InPlace

LEMMA CloseKeeps ==
  ASSUME OneWriter, TInv, KInv, NEW s \in Setters, SetClose(s)
  PROVE  KInv'
<1>1. UNCHANGED <<slot, mounts, conf, tmp, getter, disk, settings, saved, spoiled>> /\ setter[s].pc = "close"
  BY DEF SetClose, system, history
<1>2. PICK text : /\ data' = [data EXCEPT ![setter[s].out] = text]
                  /\ setter' = [setter EXCEPT ![s].pc = "rename", ![s].short = (text # setter[s].text)]
  BY DEF SetClose
<1>3. Here' = Here /\ Here \in Places /\ Owner \in [Setters -> Namespaces]
  BY <1>1, HereIsPlace, PersistAssumption DEF Here, TInv
<1>4. setter[s].out \in Inodes /\ setter[s].out = tmp[Here][Owner[s]]
  BY <1>1 DEF TInv, CallsOK, KInv, Apart
<1>5. setter[s].out \in MayName(Here, Owner[s]) /\ setter[s].out # conf[Here][Owner[s]]
  BY <1>3, <1>4, NoFileIsNone DEF TInv, FilesOK, NamesOK
<1>6. /\ \A p \in Places, m \in Namespaces : conf[p][m] # NoFile => data'[conf[p][m]] = data[conf[p][m]]
      /\ \A t \in Setters \ {s} :
              setter[t].pc = "rename" => data'[setter[t].out] = data[setter[t].out]
      /\ getter.pc = "read" => (getter.in # NoFile => data'[getter.in] = data[getter.in])
  <2>1. PICK i \in Inodes : i = setter[s].out
    BY <1>4
  <2>. QED
    BY <1>2, <1>4, <1>5, <2>1, Untouched DEF KInv
<1>7. Kept'
  <2>1. "persist" \in Places
    BY DEF Places
  <2>. QED
    BY <1>1, <1>6, <2>1 DEF KInv, Kept, Text
<1>8. ReadersApart' /\ (Reads => Reads')
  BY <1>1, <1>3, <1>6 DEF KInv, ReadersApart, Reads, Text
<1>9. /\ \A t \in Setters \ {s} : setter'[t] = setter[t]
      /\ setter'[s].pc = "rename" /\ setter'[s].out = setter[s].out
      /\ setter'[s].key = setter[s].key /\ setter'[s].value = setter[s].value
      /\ setter'[s].short = (text # setter[s].text)
  BY <1>2 DEF TInv, CallsOK, SetTypes
<1>10. \A t \in Setters : Apart(t)'
  BY <1>1, <1>3, <1>9 DEF KInv, Apart
<1>11. ASSUME NEW t \in Setters, Writes(t) PROVE Writes(t)'
  <2>1. CASE t = s
    <3>1. data'[setter[s].out] = text /\ setter[s].text = Line(s) /\ Line(s)' = Line(s)
      BY <1>1, <1>2, <1>4, <1>9, <1>11, <2>1 DEF Writes, Line, TInv, FilesOK
    <3>. QED
      BY <1>9, <2>1, <3>1 DEF Writes
  <2>2. CASE t # s
    BY <1>1, <1>6, <1>9, <1>11, <2>2 DEF Writes, Line
  <2>. QED
    BY <2>1, <2>2
<1>. QED
  BY <1>1, <1>7, <1>8, <1>10, <1>11 DEF KInv, InPlace

LEMMA RenameKeeps ==
  ASSUME OneWriter, TInv, KInv, NEW s \in Setters, SetRename(s)
  PROVE  KInv'
<1>1. UNCHANGED <<slot, mounts, data, disk, saved>> /\ setter[s].pc = "rename"
  BY DEF SetRename, Returned, system
<1>2. Here' = Here /\ Here \in Places /\ Owner \in [Setters -> Namespaces]
  BY <1>1, HereIsPlace, PersistAssumption DEF Here, TInv
<1>3. setter[s].out \in Inodes /\ setter[s].out = tmp[Here][Owner[s]]
  BY <1>1 DEF TInv, CallsOK, KInv, Apart
<1>4. /\ conf' = [conf EXCEPT ![Here][Owner[s]] = setter[s].out]
      /\ tmp' = [tmp EXCEPT ![Here][Owner[s]] = NoFile]
  BY <1>3, NoFileIsNone DEF SetRename
<1>5. /\ setter' = [setter EXCEPT ![s] = NoSet]
      /\ settings' = [settings EXCEPT ![Owner[s]][setter[s].key] = setter[s].value]
      /\ spoiled' = (spoiled \/ setter[s].short \/ Here # "persist")
  BY DEF SetRename, Returned
<1>6. /\ settings'[Owner[s]] = Line(s)
      /\ \A n \in Namespaces : n # Owner[s] => settings'[n] = settings[n]
  BY <1>2, <1>5 DEF Line, TInv, HistoryOK
<1>7. /\ getter'.pc = getter.pc /\ getter'.ns = getter.ns /\ getter'.key = getter.key
      /\ getter'.in = getter.in /\ getter'.result = getter.result
      /\ getter.possible \subseteq getter'.possible
  BY DEF SetRename, Returned, TInv, CallsOK, GetTypes
<1>8. Kept'
  <2>1. ASSUME ~spoiled', NEW n \in Namespaces
        PROVE  Text(conf["persist"][n])' = settings'[n] /\ disk'["persist"][n] = saved'[n]
    <3>1. ~spoiled /\ ~setter[s].short /\ Here = "persist" /\ "persist" \in mounts /\ "persist" \in Places
      BY <1>2, <1>5, <2>1, HereNow DEF TInv, HistoryOK
    <3>2. data[setter[s].out] = Line(s)
      BY <1>1, <3>1 DEF KInv, InPlace, Writes
    <3>3. CASE n = Owner[s]
      <4>1. conf'["persist"][n] = setter[s].out
        BY <1>4, <3>1, <3>3 DEF TInv, FilesOK, NamesOK
      <4>. QED
        BY <1>1, <1>3, <1>6, <3>1, <3>2, <3>3, <4>1, NoFileIsNone DEF Text, KInv, Kept
    <3>4. CASE n # Owner[s]
      <4>1. conf'["persist"][n] = conf["persist"][n]
        BY <1>4, <3>1, <3>4 DEF TInv, FilesOK, NamesOK
      <4>. QED
        BY <1>1, <1>6, <3>1, <3>4, <4>1 DEF Text, KInv, Kept
    <3>. QED
      BY <3>3, <3>4
  <2>. QED
    BY <2>1 DEF Kept
<1>9. ReadersApart'
  <2>1. ASSUME getter.pc = "read" PROVE tmp'[Here][getter.ns] = NoFile \/ tmp'[Here][getter.ns] = tmp[Here][getter.ns]
    BY <1>2, <1>4, <2>1 DEF TInv, CallsOK, FilesOK, NamesOK
  <2>. QED
    BY <1>2, <1>7, <2>1 DEF KInv, ReadersApart
<1>10. Reads => Reads'
  BY <1>1, <1>7 DEF Reads, Text
<1>11. (\A t \in Setters \ {s} : setter'[t] = setter[t]) /\ setter'[s].pc = "idle"
  BY <1>5 DEF NoSet, TInv, CallsOK
<1>12. ASSUME NEW t \in Setters PROVE Apart(t)' /\ (Writes(t) => Writes(t)')
  <2>1. CASE t = s
    BY <1>11, <2>1 DEF Apart, Writes
  <2>2. CASE t # s
    <3>1. Owner[t] # Owner[s] /\ Owner[t] \in Namespaces
      BY <1>2, <2>2 DEF OneWriter
    <3>2. conf'[Here][Owner[t]] = conf[Here][Owner[t]] /\ tmp'[Here][Owner[t]] = tmp[Here][Owner[t]]
      BY <1>2, <1>4, <3>1 DEF TInv, FilesOK, NamesOK
    <3>3. Apart(t)'
      BY <1>2, <1>11, <2>2, <3>2 DEF KInv, Apart
    <3>4. Writes(t) => Writes(t)'
      BY <1>1, <1>6, <1>11, <2>2, <3>1 DEF Writes, Line
    <3>. QED
      BY <3>3, <3>4
  <2>. QED
    BY <2>1, <2>2
<1>13. ~spoiled' => ~spoiled
  BY <1>5
<1>. QED
  BY <1>1, <1>8, <1>9, <1>10, <1>12, <1>13 DEF KInv, InPlace

LEMMA RunningKeeps ==
  ASSUME OneWriter, TInv, KInv, Running
  PROVE  KInv'
BY MountKeeps, GetKeeps, OpenKeeps, CreateKeeps, CopyKeeps, CloseKeeps, RenameKeeps DEF Running, Set

-----------------------------------------------------------------------------
(* Recovery and power keep what was set *)

LEMMA FormatKeeps ==
  ASSUME TInv, KInv, mode # "normal", Format
  PROVE  KInv'
<1>1. (\A s \in Setters : setter'[s].pc = "idle") /\ getter'.pc = "idle"
  BY NoCalls DEF TInv, Format, calls
<1>2. \A n \in Namespaces : conf'["persist"][n] = NoFile
  BY FormatKeepsTypes
<1>3. settings' = Nothing /\ saved' = Nothing /\ disk' = [disk EXCEPT !["persist"] = Nothing]
  BY DEF Format
<1>4. \A n \in Namespaces : /\ Text(conf["persist"][n])' = Empty /\ settings'[n] = Empty
                            /\ disk'["persist"][n] = saved'[n]
  BY <1>2, <1>3 DEF Text, Nothing, TInv, HistoryOK, Places
<1>5. Kept'
  BY <1>4 DEF Kept
<1>. QED
  BY <1>1, <1>5, NobodyCalls DEF KInv

\* The text of a namespace that a restore puts in place, and those it leaves alone.
LEMMA FileRestored ==
  ASSUME TInv, RestoreFile
  PROVE  \E n \in tool.todo :
           /\ n \in Namespaces /\ tool'.todo = tool.todo \ {n}
           /\ Text(conf["persist"][n])' = snap[tool.label].files[n]
           /\ settings'[n] = snap[tool.label].files[n]
           /\ \A m \in Namespaces \ {n} : /\ Text(conf["persist"][m])' = Text(conf["persist"][m])
                                          /\ settings'[m] = settings[m]
<1>1. tool \in ToolTypes /\ "persist" \in Places /\ tool.label \in Labels
  BY DEF RestoreFile, TInv, ToolOK, Places
<1>2. PICK n \in tool.todo :
        /\ data' = [data EXCEPT ![<<"persist", n, 1>>] = snap[tool.label].files[n]]
        /\ conf' = [conf EXCEPT !["persist"][n] =
                      IF snap[tool.label].files[n] = Empty THEN NoFile ELSE <<"persist", n, 1>>]
        /\ settings' = [settings EXCEPT ![n] = snap[tool.label].files[n]]
        /\ tool' = [tool EXCEPT !.todo = @ \ {n}]
  BY DEF RestoreFile
<1>3. n \in Namespaces /\ tool'.todo = tool.todo \ {n}
  BY <1>1, <1>2 DEF ToolTypes
<1>4. PICK i \in Inodes : i = <<"persist", n, 1>>
  BY <1>1, <1>3, Roomy
<1>5. data'[i] = snap[tool.label].files[n] /\ \A j \in Inodes : j # i => data'[j] = data[j]
  BY <1>2, <1>4 DEF TInv, FilesOK
<1>6. /\ settings'[n] = snap[tool.label].files[n]
      /\ \A m \in Namespaces \ {n} : settings'[m] = settings[m]
  BY <1>2, <1>3 DEF TInv, HistoryOK
<1>7. Text(conf["persist"][n])' = snap[tool.label].files[n]
  <2>1. conf'["persist"][n] = IF snap[tool.label].files[n] = Empty THEN NoFile ELSE i
    BY <1>1, <1>2, <1>3, <1>4 DEF TInv, FilesOK, NamesOK
  <2>. QED
    BY <1>5, <2>1, NoFileIsNone DEF Text
<1>8. ASSUME NEW m \in Namespaces \ {n}
      PROVE  Text(conf["persist"][m])' = Text(conf["persist"][m])
  <2>1. conf'["persist"][m] = conf["persist"][m]
    BY <1>1, <1>2, <1>3 DEF TInv, FilesOK, NamesOK
  <2>2. conf["persist"][m] # i /\ conf["persist"][m] \in File
    <3>1. conf["persist"][m] \in MayName("persist", m)
      BY <1>1 DEF TInv, FilesOK, NamesOK
    <3>2. PICK j \in MayName("persist", m) : j = conf["persist"][m]
      BY <3>1
    <3>3. j \in File /\ (j = NoFile \/ j[2] = m)
      BY DEF MayName, File
    <3>4. i[2] = n /\ i # NoFile
      BY <1>4, NoFileIsNone
    <3>. QED
      BY <3>2, <3>3, <3>4
  <2>. QED
    BY <1>5, <2>1, <2>2 DEF Text, File
<1>. QED
  BY <1>3, <1>6, <1>7, <1>8

LEMMA RestoreKeeps ==
  ASSUME TInv, KInv, RestoreFile \/ RestoreEnd
  PROVE  KInv'
<1>1. mode # "normal" /\ UNCHANGED <<calls, spoiled>>
  BY DEF RestoreFile, RestoreEnd, TInv, ToolOK
<1>2. (\A s \in Setters : setter'[s].pc = "idle") /\ getter'.pc = "idle"
  BY <1>1, NoCalls DEF TInv, calls
<1>3. Kept'
  <2>1. CASE RestoreFile
    <3>1. UNCHANGED <<disk, saved>>
      BY <2>1 DEF RestoreFile
    <3>. QED
      BY <1>1, <2>1, <3>1, FileRestored DEF KInv, Kept
  <2>2. CASE RestoreEnd
    <3>1. UNCHANGED <<data, conf, settings>>
      BY <2>2 DEF RestoreEnd, files
    <3>2. CASE UNCHANGED <<disk, saved>>
      BY <1>1, <3>1, <3>2 DEF KInv, Kept, Text
    <3>3. CASE /\ disk' = [disk EXCEPT !["persist"] = [n \in Namespaces |-> Text(conf["persist"][n])]]
               /\ saved' = settings
      <4>1. \A n \in Namespaces : disk'["persist"][n] = Text(conf["persist"][n])
        BY <3>3 DEF TInv, HistoryOK, Places
      <4>. QED
        BY <1>1, <3>1, <3>3, <4>1 DEF KInv, Kept, Text
    <3>. QED
      BY <2>2, <3>2, <3>3 DEF RestoreEnd
  <2>. QED
    BY <2>1, <2>2
<1>. QED
  BY <1>2, <1>3, NobodyCalls DEF KInv

LEMMA MountsKeep ==
  ASSUME TInv, KInv, RecoveryInit \/ Unmount
  PROVE  KInv'
<1>1. mode # "normal" /\ UNCHANGED <<files, calls, disk, history>>
  BY DEF RecoveryInit, Unmount
<1>2. (\A s \in Setters : setter'[s].pc = "idle") /\ getter'.pc = "idle"
  BY <1>1, NoCalls DEF TInv, calls
<1>3. Kept'
  BY <1>1 DEF KInv, Kept, files, history, Text
<1>. QED
  BY <1>2, <1>3, NobodyCalls DEF KInv

\* A power cut undoes whole calls, in the files and in what counts as set.
LEMMA CutKeeps ==
  ASSUME TInv, KInv, PowerCut
  PROVE  KInv'
<1>1. PICK lost \in SUBSET Unsaved :
           /\ Left(lost) \in [Places -> [Namespaces -> Contents]]
           /\ data' = [i \in Inodes |-> IF i[3] = 1 THEN Left(lost)[i[1]][i[2]] ELSE Empty]
           /\ conf' = [p \in Places |-> [n \in Namespaces |->
                         IF Left(lost)[p][n] = Empty THEN NoFile ELSE <<p, n, 1>>]]
           /\ disk' = Left(lost)
           /\ settings' = [n \in Namespaces |->
                             IF <<"persist", n>> \in lost THEN saved[n] ELSE settings[n]]
  BY LeftOver DEF PowerCut
<1>2. /\ saved' = settings' /\ UNCHANGED spoiled
      /\ setter' = [s \in Setters |-> NoSet] /\ getter' = NoGet
  BY DEF PowerCut, Reboot
<1>3. (\A s \in Setters : setter'[s].pc = "idle") /\ getter'.pc = "idle"
  BY <1>2 DEF NoSet, NoGet
<1>4. ASSUME ~spoiled, NEW n \in Namespaces
      PROVE  Text(conf["persist"][n])' = settings'[n] /\ disk'["persist"][n] = saved'[n]
  <2>1. PICK text : text = Left(lost)["persist"][n]
    OBVIOUS
  <2>2. "persist" \in Places
    BY DEF Places
  <2>3. text = settings'[n]
    BY <1>1, <1>4, <2>1, <2>2 DEF KInv, Kept, Left
  <2>4. PICK i \in Inodes : i = <<"persist", n, 1>>
    BY <2>2, Roomy
  <2>5. data'[i] = text
    BY <1>1, <2>1, <2>4
  <2>6. conf'["persist"][n] = IF text = Empty THEN NoFile ELSE i
    BY <1>1, <2>1, <2>2, <2>4
  <2>7. Text(conf["persist"][n])' = text
    BY <2>5, <2>6, NoFileIsNone DEF Text
  <2>. QED
    BY <1>1, <1>2, <2>1, <2>3, <2>7
<1>5. Kept'
  BY <1>2, <1>4 DEF Kept
<1>. QED
  BY <1>3, <1>5, NobodyCalls DEF KInv

LEMMA SyncKeeps ==
  ASSUME TInv, KInv, Sync
  PROVE  KInv'
<1>1. UNCHANGED <<slot, mounts, data, conf, tmp, setter, getter, settings, spoiled>> /\ saved' = settings
  BY DEF Sync, system, files, calls
<1>2. Kept'
  <2>1. \A n \in Namespaces : disk'["persist"][n] = Text(conf["persist"][n])
    BY DEF Sync, Places
  <2>. QED
    BY <1>1, <2>1 DEF KInv, Kept, Text
<1>. QED
  BY <1>1, <1>2 DEF KInv, ReadersApart, Apart, InPlace, Reads, Writes, Line, Here, Text

\* Snapshots read the files and leave them alone.
LEMMA SnapshotsKeep ==
  ASSUME KInv, Create \/ Manage \/ Restore \/ UNCHANGED persist
  PROVE  KInv'
<1>1. CASE CreateFile
  BY <1>1, SameKept DEF CreateFile
<1>2. CASE UNCHANGED persist
  BY <1>2, SameKept DEF persist, history
<1>. QED
  BY <1>1, <1>2 DEF Create, CreateMount, CreateManifest, CreateTar, CreateEnd, Manage, List,
                    DeleteFile, DeleteEnd, Restore

LEMMA SettingsStepKept ==
  ASSUME OneWriter, TInv, KInv, [Next]_vars
  PROVE  KInv'
<1>1. CASE UNCHANGED vars
  BY <1>1, SnapshotsKeep DEF vars
<1>2. CASE RestoreFormat \/ FactoryReset
  <2>1. mode # "normal" /\ (UNCHANGED persist \/ Format)
    BY <1>2 DEF RestoreFormat, FactoryReset, TInv, ToolOK
  <2>. QED
    BY <2>1, SnapshotsKeep, FormatKeeps
<1>. QED
  BY <1>1, <1>2, RunningKeeps, SnapshotsKeep, RestoreKeeps, MountsKeep, CutKeeps, SyncKeeps
     DEF Next, PowerCut, WriteBack

-----------------------------------------------------------------------------
(* Snapshots hold what was set, and a restore brings it back *)

LEMMA NothingRestored ==
  ASSUME tool'.pc # "untar", tool'.result # "restored"
  PROVE  Restored'
BY DEF Restored

\* An archive that is whole stays as it is, or is not under way.
LEMMA SameArchives ==
  ASSUME Archived, spoiled => spoiled', UNCHANGED captured, tool'.pc # "files",
         \A l \in Labels : snap'[l].archive = "whole" =>
                             snap[l].archive = "whole" /\ snap'[l].files = snap[l].files
  PROVE  Archived'
BY DEF Archived

LEMMA SpoiledForGood == ASSUME TInv, Next PROVE spoiled => spoiled'
<1>1. Running => (spoiled => spoiled')
  BY DEF Running, MountLog, PersistInit, Get, GetOpen, GetRead, Set, SetOpen, SetCreate, SetRefused,
         SetCopy, SetClose, SetRename, Returned, history
<1>2. Create \/ Manage \/ Restore \/ UNCHANGED persist => (spoiled => spoiled')
  BY DEF Create, CreateMount, CreateManifest, CreateTar, CreateFile, CreateEnd, Manage, List,
         DeleteFile, DeleteEnd, Restore, persist, history
<1>3. RestoreFormat \/ RestoreFile \/ RestoreEnd \/ FactoryReset => (spoiled => spoiled')
  BY <1>2 DEF RestoreFormat, RestoreFile, RestoreEnd, FactoryReset, Format
<1>4. RecoveryInit \/ Unmount \/ PowerCut \/ WriteBack => (spoiled => spoiled')
  BY DEF RecoveryInit, Unmount, PowerCut, Reboot, WriteBack, Sync, history
<1>. QED
  BY <1>1, <1>2, <1>3, <1>4 DEF Next

LEMMA RunningKeepsArchives ==
  ASSUME TInv, TInv', Archived, spoiled => spoiled', mode = "normal", Watched
  PROVE  Archived' /\ Restored'
<1>1. UNCHANGED <<mode, snap, tool>>
  BY DEF Watched, snapshots
<1>2. Restored'
  BY <1>1, NothingRestored DEF TInv, ToolOK
<1>3. CASE tool.pc # "files"
  BY <1>1, <1>2, <1>3, SameArchives DEF Watched
<1>4. CASE tool.pc = "files"
  <2>1. tool.label \in Labels /\ captured \in [Labels -> [Namespaces -> SUBSET Contents]]
    BY <1>4 DEF TInv, ToolOK
  <2>2. captured' = [captured EXCEPT ![tool.label] = [n \in Namespaces |-> @[n] \cup {settings'[n]}]]
    BY <1>4 DEF Watched
  <2>3. ASSUME NEW l \in Labels, NEW n \in Namespaces
        PROVE  captured[l][n] \subseteq captured'[l][n] /\ settings'[n] \in captured'[tool.label][n]
    BY <2>1, <2>2
  <2>. QED
    BY <1>1, <1>2, <2>1, <2>3 DEF Archived
<1>. QED
  BY <1>3, <1>4

LEMMA CreateKeepsArchives ==
  ASSUME TInv, TInv', KInv, Archived, spoiled => spoiled', Create
  PROVE  Archived' /\ Restored'
<1>1. Restored'
  <2>1. tool'.pc # "untar" /\ tool'.result # "restored"
    BY DEF Create, CreateMount, CreateManifest, CreateTar, CreateFile, CreateEnd, TInv, ToolOK,
           ToolTypes, NoTool
  <2>. QED
    BY <2>1, NothingRestored
<1>2. CASE CreateMount
  <2>1. UNCHANGED <<snap, captured>> /\ tool'.pc = "manifest"
    BY <1>2 DEF CreateMount, snapshots, NoTool
  <2>. QED
    BY <1>1, <2>1, SameArchives
<1>3. CASE CreateManifest
  <2>1. PICK m : snap' = [snap EXCEPT ![tool.label].exists = TRUE, ![tool.label].manifest = m]
    BY <1>3 DEF CreateManifest
  <2>2. \A l \in Labels : snap'[l].archive = snap[l].archive /\ snap'[l].files = snap[l].files
    BY <2>1 DEF TInv, ToolOK, SnapTypes
  <2>3. tool'.pc = "tar" /\ UNCHANGED captured
    BY <1>3 DEF CreateManifest, TInv, ToolOK, ToolTypes
  <2>. QED
    BY <1>1, <2>2, <2>3, SameArchives
<1>4. CASE CreateTar
  <2>1. /\ snap' = [snap EXCEPT ![tool.label].archive = "torn", ![tool.label].files = Nothing]
        /\ captured' = [captured EXCEPT ![tool.label] = [n \in Namespaces |-> {settings[n]}]]
        /\ UNCHANGED persist /\ tool.label \in Labels
    BY <1>4 DEF CreateTar, TInv, ToolOK
  <2>2. tool'.pc = "files" /\ tool'.todo = Namespaces /\ tool'.label = tool.label
    BY <1>4 DEF CreateTar, TInv, ToolOK, ToolTypes
  <2>3. /\ snap'[tool.label].archive = "torn"
        /\ \A l \in Labels \ {tool.label} : snap'[l] = snap[l] /\ captured'[l] = captured[l]
    BY <2>1 DEF TInv, ToolOK, SnapTypes
  <2>4. \A n \in Namespaces : settings'[n] \in captured'[tool.label][n]
    BY <2>1 DEF TInv, ToolOK, persist, history
  <2>. QED
    BY <1>1, <2>2, <2>3, <2>4 DEF Archived
<1>5. CASE CreateFile
  <2>1. PICK n \in tool.todo : /\ snap' = [snap EXCEPT ![tool.label].files[n] = Text(conf[Here][n])]
                               /\ tool' = [tool EXCEPT !.todo = @ \ {n}]
    BY <1>5 DEF CreateFile
  <2>2. /\ spoiled' = (spoiled \/ Here # "persist") /\ tool.pc = "files" /\ UNCHANGED <<settings, captured>>
        /\ tool.label \in Labels /\ tool \in ToolTypes
    BY <1>5 DEF CreateFile, TInv, ToolOK
  <2>3. tool'.pc = "files" /\ tool'.todo = tool.todo \ {n} /\ tool'.label = tool.label /\ n \in Namespaces
    BY <2>1, <2>2 DEF ToolTypes
  <2>4. PICK f : f = [snap[tool.label].files EXCEPT ![n] = Text(conf[Here][n])]
    OBVIOUS
  <2>5. /\ \A l \in Labels : snap'[l].archive = snap[l].archive
        /\ \A l \in Labels \ {tool.label} : snap'[l].files = snap[l].files
        /\ snap'[tool.label].files[n] = Text(conf[Here][n])
        /\ \A m \in Namespaces \ {n} : snap'[tool.label].files[m] = snap[tool.label].files[m]
    <3>1. snap' = [snap EXCEPT ![tool.label].files = f]
      BY <2>1, <2>2, <2>4 DEF TInv, ToolOK
    <3>2. /\ \A l \in Labels : snap'[l].archive = snap[l].archive
          /\ \A l \in Labels \ {tool.label} : snap'[l].files = snap[l].files
          /\ snap'[tool.label].files = f
      BY <2>2, <3>1 DEF TInv, ToolOK, SnapTypes
    <3>3. snap[tool.label].files \in [Namespaces -> Contents]
      BY <2>2 DEF TInv, ToolOK, SnapTypes
    <3>. QED
      BY <2>3, <2>4, <3>2, <3>3
  <2>6. ASSUME ~spoiled' PROVE snap'[tool.label].files[n] \in captured[tool.label][n]
    <3>1. ~spoiled /\ Here = "persist"
      BY <2>2, <2>6
    <3>2. Text(conf[Here][n]) = settings[n]
      BY <2>3, <3>1 DEF KInv, Kept
    <3>. QED
      BY <2>2, <2>3, <2>5, <3>1, <3>2 DEF Archived
  <2>7. ASSUME ~spoiled', NEW m \in Namespaces, snap[tool.label].files[m] \in captured[tool.label][m]
        PROVE  snap'[tool.label].files[m] \in captured[tool.label][m]
    BY <2>5, <2>6, <2>7
  <2>8. ASSUME ~spoiled', NEW l \in Labels, NEW m \in Namespaces, snap'[l].archive = "whole"
        PROVE  snap'[l].files[m] \in captured[l][m]
    <3>1. snap[l].files[m] \in captured[l][m]
      BY <2>2, <2>5, <2>8 DEF Archived
    <3>. QED
      BY <2>5, <2>7, <2>8, <3>1
  <2>9. ASSUME ~spoiled', NEW m \in Namespaces
        PROVE  /\ settings[m] \in captured[tool.label][m]
               /\ m \notin tool'.todo => snap'[tool.label].files[m] \in captured[tool.label][m]
    <3>1. /\ settings[m] \in captured[tool.label][m]
          /\ m \notin tool.todo => snap[tool.label].files[m] \in captured[tool.label][m]
      BY <2>2, <2>9 DEF Archived
    <3>. QED
      BY <2>3, <2>6, <2>7, <2>9, <3>1
  <2>. QED
    BY <1>1, <2>2, <2>3, <2>8, <2>9 DEF Archived
<1>6. CASE CreateEnd
  <2>1. /\ tool.pc = "files" /\ tool.label \in Labels /\ UNCHANGED captured
        /\ tool'.pc = "idle" /\ UNCHANGED spoiled
    BY <1>6 DEF CreateEnd, TInv, ToolOK, NoTool, persist, history
  <2>2. CASE UNCHANGED snap
    BY <1>1, <2>1, <2>2, SameArchives
  <2>3. CASE tool.todo = {} /\ snap' = [snap EXCEPT ![tool.label].archive = "whole"]
    <3>1. /\ \A l \in Labels : snap'[l].files = snap[l].files
          /\ \A l \in Labels \ {tool.label} : snap'[l].archive = snap[l].archive
      BY <2>3 DEF TInv, ToolOK, SnapTypes
    <3>2. ASSUME ~spoiled, NEW l \in Labels, NEW n \in Namespaces, snap'[l].archive = "whole"
          PROVE  snap'[l].files[n] \in captured[l][n]
      BY <2>1, <2>3, <3>1, <3>2 DEF Archived
    <3>. QED
      BY <1>1, <2>1, <3>2 DEF Archived
  <2>. QED
    BY <1>6, <2>2, <2>3 DEF CreateEnd
<1>. QED
  BY <1>1, <1>2, <1>3, <1>4, <1>5, <1>6 DEF Create

LEMMA ManageKeepsArchives ==
  ASSUME TInv, Archived, Restored, Manage
  PROVE  Archived' /\ Restored'
<1>1. UNCHANGED persist /\ UNCHANGED captured
  BY DEF Manage, List, DeleteFile, DeleteEnd
<1>2. UNCHANGED <<data, conf, spoiled, settings>>
  BY <1>1 DEF persist, files, history
<1>3. CASE List
  BY <1>2, <1>3 DEF List, snapshots, Archived, Restored, Text
<1>4. CASE DeleteFile
  <2>1. PICK l \in Labels :
            /\ \/ snap' = [snap EXCEPT ![l].manifest = "none"]
               \/ snap' = [snap EXCEPT ![l].archive = "none", ![l].files = Nothing]
            /\ tool' = [NoTool EXCEPT !.pc = "remove", !.label = l]
    BY <1>4 DEF DeleteFile
  <2>2. tool'.pc = "remove" /\ tool'.result = "none"
    BY <2>1 DEF NoTool
  <2>3. \A k \in Labels : snap'[k].archive = "whole" =>
                            snap[k].archive = "whole" /\ snap'[k].files = snap[k].files
    BY <2>1 DEF TInv, ToolOK, SnapTypes
  <2>. QED
    BY <1>1, <1>2, <2>2, <2>3, SameArchives, NothingRestored
<1>5. CASE DeleteEnd
  <2>1. snap' = [snap EXCEPT ![tool.label] = NoSnapshot] /\ tool'.pc = "idle" /\ tool'.result = "none"
    BY <1>5 DEF DeleteEnd, NoTool
  <2>2. \A k \in Labels : snap'[k].archive = "whole" =>
                            snap[k].archive = "whole" /\ snap'[k].files = snap[k].files
    BY <2>1 DEF TInv, ToolOK, NoSnapshot
  <2>. QED
    BY <1>1, <1>2, <2>1, <2>2, SameArchives, NothingRestored
<1>. QED
  BY <1>3, <1>4, <1>5 DEF Manage

LEMMA RestoreKeepsArchives ==
  ASSUME TInv, TInv', Archived, Restored, spoiled => spoiled',
         Restore \/ RestoreFormat \/ RestoreFile \/ RestoreEnd \/ FactoryReset
  PROVE  Archived' /\ Restored'
<1>1. UNCHANGED <<snapshots, captured, mode>> /\ mode = "recovery"
  BY DEF Restore, RestoreFormat, RestoreFile, RestoreEnd, FactoryReset, TInv, ToolOK
<1>2. Archived'
  BY <1>1, SameArchives DEF snapshots, TInv, ToolOK
<1>3. CASE Restore
  <2>1. PICK l \in Labels :
          \/ tool' = [NoTool EXCEPT !.result = "failed"]
          \/ tool' = [NoTool EXCEPT !.result = "nothing"]
          \/ tool' = [NoTool EXCEPT !.pc = "format", !.label = l]
    BY <1>3, SnapParts DEF Restore, TInv
  <2>. QED
    BY <1>2, <2>1, NothingRestored DEF NoTool
<1>4. CASE RestoreFormat
  <2>1. CASE tool' = [NoTool EXCEPT !.result = "failed"]
    BY <1>2, <2>1, NothingRestored DEF NoTool
  <2>2. CASE tool' = [tool EXCEPT !.pc = "untar", !.todo = Namespaces]
    <3>1. tool'.todo = Namespaces /\ tool'.result = tool.result /\ tool.result # "restored"
      BY <1>4, <2>2 DEF RestoreFormat, TInv, ToolOK, ToolTypes
    <3>. QED
      BY <1>2, <3>1 DEF Restored
  <2>. QED
    BY <1>4, <2>1, <2>2 DEF RestoreFormat
<1>5. CASE RestoreFile
  <2>1. PICK n \in tool.todo :
           /\ n \in Namespaces /\ tool'.todo = tool.todo \ {n}
           /\ Text(conf["persist"][n])' = snap[tool.label].files[n]
           /\ \A m \in Namespaces \ {n} : Text(conf["persist"][m])' = Text(conf["persist"][m])
    BY <1>5, FileRestored
  <2>2. tool.pc = "untar" /\ tool'.label = tool.label /\ tool'.result # "restored" /\ UNCHANGED snap
    BY <1>1, <1>5 DEF RestoreFile, TInv, ToolOK, ToolTypes, snapshots
  <2>3. ASSUME NEW m \in Namespaces \ tool'.todo
        PROVE  Text(conf["persist"][m])' = snap[tool.label].files[m]
    BY <2>1, <2>2 DEF Restored
  <2>. QED
    BY <1>2, <2>2, <2>3 DEF Restored
<1>6. CASE RestoreEnd
  <2>1. UNCHANGED <<data, conf, spoiled>> /\ tool.pc = "untar" /\ tool.label \in Labels
    BY <1>6 DEF RestoreEnd, files, TInv, ToolOK
  <2>2. CASE tool' = [NoTool EXCEPT !.result = "failed"]
    BY <1>2, <2>2, NothingRestored DEF NoTool
  <2>3. CASE /\ tool.todo = {} /\ snap[tool.label].archive = "whole"
             /\ tool' = [NoTool EXCEPT !.label = tool.label, !.result = "restored"]
    <3>1. tool'.pc = "idle" /\ tool'.label = tool.label
      BY <2>3 DEF NoTool
    <3>2. ASSUME ~spoiled, NEW n \in Namespaces
          PROVE  Text(conf["persist"][n]) \in captured[tool.label][n]
      BY <2>1, <2>3, <3>2 DEF Archived, Restored
    <3>. QED
      BY <1>1, <1>2, <2>1, <3>1, <3>2 DEF Restored, Text
  <2>. QED
    BY <1>6, <2>2, <2>3 DEF RestoreEnd
<1>7. CASE FactoryReset
  BY <1>2, <1>7, NothingRestored DEF FactoryReset, NoTool
<1>. QED
  BY <1>3, <1>4, <1>5, <1>6, <1>7

LEMMA BoardKeepsArchives ==
  ASSUME TInv, Archived, Restored, spoiled => spoiled',
         RecoveryInit \/ Unmount \/ PowerCut \/ WriteBack \/ UNCHANGED vars
  PROVE  Archived' /\ Restored'
<1>1. CASE PowerCut
  <2>1. tool'.pc = "idle" /\ tool'.result = "none" /\ UNCHANGED captured
    BY <1>1 DEF PowerCut, NoTool
  <2>. QED
    BY <1>1, <2>1, SnapsLeft, SameArchives, NothingRestored DEF TInv
<1>2. CASE ~PowerCut
  <2>1. UNCHANGED <<data, conf, spoiled, settings, snap, tool, captured>>
    BY <1>2 DEF RecoveryInit, Unmount, WriteBack, Sync, vars, persist, files, history, recovery, snapshots
  <2>. QED
    BY <2>1 DEF Archived, Restored, Text
<1>. QED
  BY <1>1, <1>2

-----------------------------------------------------------------------------
(* What is proved *)

LEMMA InitEstablishes == Init => IInv
<1>. SUFFICES ASSUME Init PROVE IInv
  OBVIOUS
<1>1. (\A s \in Setters : setter[s].pc = "idle") /\ getter.pc = "idle"
  BY DEF Init, PersistInitial, NoSet, NoGet
<1>2. ReadersApart /\ (\A s \in Setters : Apart(s)) /\ InPlace
  BY <1>1 DEF ReadersApart, Apart, InPlace, Reads, Writes
<1>3. Kept
  BY DEF Init, PersistInitial, Kept, Text, Places
<1>4. Archived /\ Restored
  BY DEF Init, Archived, Restored, NoSnapshot, NoTool
<1>. QED
  BY <1>2, <1>3, <1>4, TypesAtFirst DEF IInv, KInv

LEMMA NextKeeps ==
  ASSUME OneWriter, IInv, [Next]_vars
  PROVE  IInv'
<1>1. TInv' /\ KInv'
  BY TypesKept, SettingsStepKept DEF IInv
<1>2. Archived' /\ Restored'
  <2>1. CASE UNCHANGED vars
    <3>1. UNCHANGED spoiled
      BY <2>1 DEF vars, persist, history
    <3>. QED
      BY <2>1, <3>1, BoardKeepsArchives DEF IInv
  <2>2. CASE Next
    BY <1>1, <2>2, SpoiledForGood, RunningKeepsArchives, CreateKeepsArchives, ManageKeepsArchives,
       RestoreKeepsArchives, BoardKeepsArchives DEF Next, IInv
  <2>. QED
    BY <2>1, <2>2
<1>. QED
  BY <1>1, <1>2 DEF IInv

\* The inductive invariant holds for any namespaces, keys, slots and processes, if
\* no two processes write the same namespace.
THEOREM SettingsInvariant == ASSUME OneWriter PROVE Spec => []IInv
BY OneWriter, InitEstablishes, NextKeeps, PTL DEF Spec

\* The files hold exactly what bb_persist_config_set was asked to set, through
\* slots, power cuts, restores and factory resets.
THEOREM SettingsAlwaysKept == ASSUME OneWriter PROVE Spec => []SettingsKept
<1>1. IInv => SettingsKept
  BY DEF IInv, KInv, Kept, SettingsKept
<1>. QED
  BY <1>1, SettingsInvariant, PTL

\* bb_persist_config_get returns one of the values set since it began.
THEOREM GetsSurvive == ASSUME OneWriter PROVE Spec => []SettingsSurvive
<1>1. IInv => SettingsSurvive
  BY DEF IInv, KInv, InPlace, Reads, SettingsSurvive
<1>. QED
  BY <1>1, SettingsInvariant, PTL

\* bb_recovery_restore_snapshot reports success only for what was set while the
\* snapshot was taken.
THEOREM RestoresAreFaithful == ASSUME OneWriter PROVE Spec => []RestoreFaithful
<1>1. IInv => RestoreFaithful
  BY DEF IInv, Restored, RestoreFaithful
<1>. QED
  BY <1>1, SettingsInvariant, PTL
=============================================================================
