--------------------------- MODULE LedBlockProofs ---------------------------
(***************************************************************************)
(* Proofs about the LED block and the client side of the bus under it, for *)
(* any lines, any buffer, and any number of commands and threads.          *)
(*                                                                         *)
(* HandledInOrder is not inductive: it needs that the part of the stream   *)
(* that is not handled begins at a line, and so that the first newline in  *)
(* the buffer ends the next of the lines that were sent (NextLine).  What  *)
(* FlattenSeq returns is computed from its recursive function, which       *)
(* exists and is unique; both follow from a least counterexample.          *)
(*                                                                         *)
(* OneLateWrite is not inductive: it needs that a thread which has written *)
(* late is asleep after that write or done, so that its next test sends it *)
(* out of the loop.  While active is set nothing is late, and setting and  *)
(* clearing it starts the count again.                                     *)
(***************************************************************************)
EXTENDS LedBlock, FiniteSetTheorems, SequenceTheorems, WellFoundedInduction, TLAPS

-----------------------------------------------------------------------------
(* FlattenSeq: its recursive function exists and is determined by the        *)
(* sequence, so that what it returns can be computed from either end.        *)

\* A set of numbers that is not empty has a least one.
LEMMA Least ==
  ASSUME NEW S \in SUBSET Nat, S # {}
  PROVE  \E x \in S : \A y \in S : x <= y
<1>. DEFINE Upto == {0 .. x : x \in S}
<1>1. Upto \subseteq FiniteSubsetsOf(Nat) /\ Upto # {}
  <2>1. ASSUME NEW x \in S PROVE 0 .. x \in FiniteSubsetsOf(Nat)
    BY FS_Interval DEF FiniteSubsetsOf
  <2>. QED
    BY <2>1
<1>2. PICK U \in Upto : \A V \in Upto : <<V, U>> \notin StrictSubsetOrdering(Nat)
  <2>. HIDE DEF Upto
  <2>. QED
    BY <1>1, FS_StrictSubsetOrderingWellFounded, WFMin
<1>3. PICK x \in S : U = 0 .. x
  OBVIOUS
<1>4. ASSUME NEW y \in S, y < x PROVE FALSE
  <2>1. 0 .. y \subseteq 0 .. x /\ 0 .. y # 0 .. x
    BY <1>4
  <2>2. 0 .. y \in SUBSET Nat /\ 0 .. x \in SUBSET Nat
    OBVIOUS
  <2>3. <<0 .. y, 0 .. x>> \in StrictSubsetOrdering(Nat)
    BY <2>1, <2>2, Zenon DEF StrictSubsetOrdering
  <2>. QED
    BY <1>2, <1>3, <2>3
<1>. QED
  BY <1>4

\* f[i] is the concatenation of the first i elements of s.
IsFlat(f, s, n) == f = [i \in 1 .. n |-> IF i = 1 THEN s[i] ELSE f[i - 1] \o s[i]]

LEMMA FlatExists == ASSUME NEW s, NEW n \in Nat PROVE \E f : IsFlat(f, s, n)
<1>. DEFINE Without == {m \in Nat : ~ \E f : IsFlat(f, s, m)}
<1>1. SUFFICES ASSUME Without # {} PROVE FALSE
  OBVIOUS
<1>2. PICK m \in Without : \A k \in Without : m <= k
  <2>1. Without \in SUBSET Nat
    OBVIOUS
  <2>. HIDE DEF Without
  <2>. QED
    BY <1>1, <2>1, Least
<1>3. m # 0
  <2>1. IsFlat([i \in {} |-> 0], s, 0)
    BY DEF IsFlat
  <2>. QED
    BY <2>1
<1>4. PICK f : IsFlat(f, s, m - 1)
  BY <1>2, <1>3
<1>. DEFINE g == [i \in 1 .. m |-> IF i < m THEN f[i] ELSE IF i = 1 THEN s[i] ELSE f[i - 1] \o s[i]]
<1>5. ASSUME NEW i \in 1 .. m PROVE g[i] = IF i = 1 THEN s[i] ELSE g[i - 1] \o s[i]
  <2>1. CASE i < m
    <3>1. i \in 1 .. m - 1 /\ (i # 1 => i - 1 \in 1 .. m - 1 /\ i - 1 \in 1 .. m /\ i - 1 < m)
      BY <2>1
    <3>2. f[i] = IF i = 1 THEN s[i] ELSE f[i - 1] \o s[i]
      BY <1>4, <3>1 DEF IsFlat
    <3>. QED
      BY <2>1, <3>1, <3>2
  <2>2. CASE i = m
    <3>1. i # 1 => i - 1 \in 1 .. m /\ i - 1 < m
      BY <2>2
    <3>2. g[i] = IF i = 1 THEN s[i] ELSE f[i - 1] \o s[i]
      BY <2>2
    <3>3. i # 1 => g[i - 1] = f[i - 1]
      BY <3>1
    <3>. QED
      BY <3>2, <3>3
  <2>. QED
    BY <2>1, <2>2
<1>6. IsFlat(g, s, m)
  <2>1. g = [i \in 1 .. m |-> g[i]]
    OBVIOUS
  <2>. HIDE DEF g
  <2>. QED
    BY <1>5, <2>1 DEF IsFlat
<1>. QED
  BY <1>6

LEMMA FlatValue ==
  ASSUME NEW s, NEW n \in Nat, NEW f, IsFlat(f, s, n), NEW i \in 1 .. n
  PROVE  f[i] = IF i = 1 THEN s[i] ELSE f[i - 1] \o s[i]
BY DEF IsFlat

\* Sequences that agree on their first n elements have the same concatenations.
Agree(s, t, n) == \A i \in 1 .. n : s[i] = t[i]

LEMMA FlatSame ==
  ASSUME NEW s, NEW t, NEW f, NEW g, NEW k \in Nat, NEW n \in Nat, n <= k,
         IsFlat(f, s, k), IsFlat(g, t, n), Agree(s, t, n)
  PROVE  Agree(f, g, n)
<1>. USE DEF Agree
<1>. DEFINE Differ == {i \in 1 .. n : f[i] # g[i]}
<1>1. SUFFICES ASSUME Differ # {} PROVE FALSE
  OBVIOUS
<1>2. PICK m \in Differ : \A i \in Differ : m <= i
  <2>1. Differ \in SUBSET Nat
    OBVIOUS
  <2>. HIDE DEF Differ
  <2>. QED
    BY <1>1, <2>1, Least
<1>3. m \in 1 .. n /\ m \in 1 .. k /\ n \in Nat /\ f[m] # g[m]
  OBVIOUS
<1>4. /\ f[m] = IF m = 1 THEN s[m] ELSE f[m - 1] \o s[m]
      /\ g[m] = IF m = 1 THEN t[m] ELSE g[m - 1] \o t[m]
  BY <1>3, FlatValue
<1>5. m # 1 => m - 1 \in 1 .. n /\ m - 1 \notin Differ
  BY <1>2, <1>3
<1>6. m # 1 => f[m - 1] = g[m - 1]
  BY <1>5
<1>. QED
  BY <1>3, <1>4, <1>6

\* The concatenations are sequences, and each is a prefix of the later ones.
LEMMA FlatTyped ==
  ASSUME NEW S, NEW n \in Nat, NEW s \in [1 .. n -> Seq(S)], NEW f, IsFlat(f, s, n)
  PROVE  \A i \in 1 .. n : f[i] \in Seq(S)
<1>. DEFINE Bad == {i \in 1 .. n : f[i] \notin Seq(S)}
<1>1. SUFFICES ASSUME Bad # {} PROVE FALSE
  OBVIOUS
<1>2. PICK m \in Bad : \A i \in Bad : m <= i
  <2>1. Bad \in SUBSET Nat
    OBVIOUS
  <2>. HIDE DEF Bad
  <2>. QED
    BY <1>1, <2>1, Least
<1>3. m \in 1 .. n /\ f[m] \notin Seq(S) /\ s[m] \in Seq(S)
  OBVIOUS
<1>4. f[m] = IF m = 1 THEN s[m] ELSE f[m - 1] \o s[m]
  BY <1>3, FlatValue
<1>5. m # 1 => m - 1 \in 1 .. n /\ m - 1 \notin Bad
  BY <1>2, <1>3
<1>6. m # 1 => f[m - 1] \in Seq(S)
  BY <1>5
<1>. QED
  BY <1>3, <1>4, <1>6, ConcatProperties

Starts(S, a, b) == \E r \in Seq(S) : b = a \o r

LEMMA FlatPrefix ==
  ASSUME NEW S, NEW n \in Nat, NEW s \in [1 .. n -> Seq(S)], NEW f, IsFlat(f, s, n), NEW i \in 1 .. n
  PROVE  Starts(S, f[i], f[n])
<1>1. \A j \in 1 .. n : f[j] \in Seq(S)
  BY FlatTyped
<1>2. \A j \in 1 .. n : f[j] = IF j = 1 THEN s[j] ELSE f[j - 1] \o s[j]
  BY FlatValue
<1>3. ASSUME NEW a \in Seq(S), NEW b \in Seq(S), NEW c \in Seq(S)
      PROVE  (a \o b) \o c = a \o (b \o c) /\ b \o c \in Seq(S)
  BY ConcatAssociative, ConcatProperties
<1>. DEFINE Bad == {j \in i .. n : ~Starts(S, f[i], f[j])}
<1>4. Starts(S, f[i], f[i])
  <2>1. <<>> \in Seq(S)
    BY EmptySeq
  <2>2. f[i] \o <<>> = f[i]
    BY <1>1, ConcatEmptySeq
  <2>. QED
    BY <2>1, <2>2 DEF Starts
<1>5. ASSUME NEW m \in i + 1 .. n, Starts(S, f[i], f[m - 1]) PROVE Starts(S, f[i], f[m])
  <2>1. PICK r \in Seq(S) : f[m - 1] = f[i] \o r
    BY <1>5 DEF Starts
  <2>2. m \in 1 .. n /\ m # 1 /\ f[i] \in Seq(S)
    BY <1>1
  <2>3. f[m] = IF m = 1 THEN s[m] ELSE f[m - 1] \o s[m]
    BY <1>2, <2>2
  <2>4. s[m] \in Seq(S) /\ f[m] = (f[i] \o r) \o s[m]
    BY <2>1, <2>2, <2>3
  <2>5. (f[i] \o r) \o s[m] = f[i] \o (r \o s[m]) /\ r \o s[m] \in Seq(S)
    BY <1>3, <2>2, <2>4
  <2>. QED
    BY <2>4, <2>5 DEF Starts
<1>6. SUFFICES ASSUME Bad # {} PROVE FALSE
  <2>1. n \in i .. n
    OBVIOUS
  <2>2. Bad = {} => Starts(S, f[i], f[n])
    BY <2>1
  <2>. QED
    BY <2>2
<1>7. PICK m \in Bad : \A j \in Bad : m <= j
  <2>1. Bad \in SUBSET Nat
    OBVIOUS
  <2>. HIDE DEF Bad
  <2>. QED
    BY <1>6, <2>1, Least
<1>8. m \in i + 1 .. n /\ ~Starts(S, f[i], f[m])
  BY <1>4
<1>9. m - 1 \in i .. n /\ m - 1 \notin Bad
  BY <1>7, <1>8
<1>. QED
  BY <1>5, <1>8, <1>9

LEMMA FlattenIsFlat ==
  ASSUME NEW s, NEW n \in Nat \ {0}, Len(s) = n
  PROVE  \E f : IsFlat(f, s, n) /\ FlattenSeq(s) = f[n]
<1>. DEFINE f == CHOOSE f : IsFlat(f, s, n)
<1>1. IsFlat(f, s, n)
  BY FlatExists
<1>2. FlattenSeq(s) = f[n]
  BY DEF FlattenSeq, IsFlat
<1>. QED
  BY <1>1, <1>2


LEMMA FlattenTyped ==
  ASSUME NEW S, NEW s \in Seq(Seq(S))
  PROVE  FlattenSeq(s) \in Seq(S)
<1>1. CASE Len(s) = 0
  <2>1. FlattenSeq(s) = <<>>
    BY <1>1, EmptySeq DEF FlattenSeq
  <2>. QED
    BY <2>1, EmptySeq
<1>2. CASE Len(s) # 0
  <2>1. PICK n \in Nat \ {0} : Len(s) = n /\ s \in [1 .. n -> Seq(S)]
    BY <1>2, LenProperties
  <2>2. PICK f : IsFlat(f, s, n) /\ FlattenSeq(s) = f[n]
    BY <2>1, FlattenIsFlat
  <2>3. n \in Nat /\ n \in 1 .. n
    OBVIOUS
  <2>4. f[n] \in Seq(S)
    BY <2>1, <2>2, <2>3, FlatTyped
  <2>. QED
    BY <2>2, <2>4
<1>. QED
  BY <1>1, <1>2

\* Flattening the first k + 1 elements adds the last of them.
Joined(a, b) == a \o b

LEMMA FlattenNext ==
  ASSUME NEW S, NEW f, NEW s \in Seq(Seq(S)), NEW t \in Seq(Seq(S)), NEW n \in Nat, NEW k \in Nat,
         Len(s) = n, Len(t) = k, k < n, IsFlat(f, s, n), Agree(s, t, k)
  PROVE  f[k + 1] = Joined(FlattenSeq(t), s[k + 1])
<1>1. k + 1 \in 1 .. n /\ s[k + 1] \in Seq(S)
  BY LenProperties, ElementOfSeq
<1>2. f[k + 1] = IF k + 1 = 1 THEN s[k + 1] ELSE f[k] \o s[k + 1]
  BY <1>1, FlatValue
<1>3. CASE k = 0
  <2>1. FlattenSeq(t) = <<>>
    BY <1>3, EmptySeq DEF FlattenSeq
  <2>2. <<>> \o s[k + 1] = s[k + 1]
    BY <1>1, ConcatEmptySeq
  <2>. QED
    BY <1>2, <1>3, <2>1, <2>2 DEF Joined
<1>4. CASE k # 0
  <2>1. PICK g : IsFlat(g, t, k) /\ FlattenSeq(t) = g[k]
    BY <1>1, <1>4, FlattenIsFlat
  <2>2. k <= n
    OBVIOUS
  <2>3. Agree(f, g, k)
    BY <2>1, <2>2, FlatSame
  <2>4. f[k] = g[k] /\ k + 1 # 1
    BY <1>4, <2>3 DEF Agree
  <2>. QED
    BY <1>2, <2>1, <2>4 DEF Joined
<1>. QED
  BY <1>3, <1>4

LEMMA FlattenAppend ==
  ASSUME NEW S, NEW s \in Seq(Seq(S)), NEW x \in Seq(S)
  PROVE  FlattenSeq(Append(s, x)) = FlattenSeq(s) \o x
<1>1. PICK t : t = Append(s, x)
  OBVIOUS
<1>2. PICK k \in Nat : /\ Len(s) = k /\ t \in Seq(Seq(S)) /\ Len(t) = k + 1
                       /\ \A i \in 1 .. k : t[i] = s[i]
                       /\ t[k + 1] = x
  BY <1>1, AppendProperties, LenProperties
<1>3. PICK n \in Nat \ {0} : n = k + 1
  OBVIOUS
<1>4. PICK f : IsFlat(f, t, n) /\ FlattenSeq(t) = f[n]
  BY <1>2, <1>3, FlattenIsFlat
<1>5. n \in Nat /\ k < n /\ Len(t) = n
  BY <1>2, <1>3
<1>6. Agree(t, s, k)
  BY <1>2 DEF Agree
<1>7. f[k + 1] = Joined(FlattenSeq(s), t[k + 1])
  BY <1>2, <1>4, <1>5, <1>6, FlattenNext
<1>. QED
  BY <1>1, <1>2, <1>3, <1>4, <1>7 DEF Joined

\* A flattened sequence is what its first k elements flatten to, the next one, and
\* something more.
LEMMA FlattenSplit ==
  ASSUME NEW S, NEW n \in Nat, NEW s \in Seq(Seq(S)), Len(s) = n,
         NEW k \in Nat, k < n, NEW t \in Seq(Seq(S)), Len(t) = k, Agree(s, t, k)
  PROVE  Starts(S, Joined(FlattenSeq(t), s[k + 1]), FlattenSeq(s))
<1>1. n \in Nat \ {0} /\ k + 1 \in 1 .. n /\ s \in [1 .. n -> Seq(S)]
  BY LenProperties
<1>2. PICK f : IsFlat(f, s, n) /\ FlattenSeq(s) = f[n]
  BY <1>1, FlattenIsFlat
<1>3. Starts(S, f[k + 1], f[n])
  BY <1>1, <1>2, FlatPrefix
<1>4. f[k + 1] = Joined(FlattenSeq(t), s[k + 1])
  BY <1>2, FlattenNext
<1>. QED
  BY <1>2, <1>3, <1>4

\* The middle of three sequences.
LEMMA Middle ==
  ASSUME NEW S, NEW a \in Seq(S), NEW b \in Seq(S), NEW c \in Seq(S), NEW x, x = (a \o b) \o c
  PROVE  /\ Len(x) = Len(a) + Len(b) + Len(c)
         /\ \A j \in 1 .. Len(b) : x[Len(a) + j] = b[j]
<1>1. Len(a) \in Nat /\ Len(b) \in Nat /\ Len(c) \in Nat
  BY LenProperties
<1>2. /\ a \o b \in Seq(S) /\ Len(a \o b) = Len(a) + Len(b)
      /\ \A i \in 1 .. Len(a) + Len(b) : (a \o b)[i] = IF i <= Len(a) THEN a[i] ELSE b[i - Len(a)]
  BY ConcatProperties
<1>. DEFINE ab == a \o b
<1>. HIDE DEF ab
<1>3. /\ Len(ab \o c) = Len(ab) + Len(c)
      /\ \A i \in 1 .. Len(ab) + Len(c) : (ab \o c)[i] = IF i <= Len(ab) THEN ab[i] ELSE c[i - Len(ab)]
  BY <1>2, ConcatProperties DEF ab
<1>4. ASSUME NEW j \in 1 .. Len(b) PROVE (ab \o c)[Len(a) + j] = b[j]
  <2>1. Len(ab) = Len(a) + Len(b)
    BY <1>2 DEF ab
  <2>2. /\ Len(a) + j \in 1 .. Len(ab) + Len(c) /\ Len(a) + j <= Len(ab)
        /\ Len(a) + j \in 1 .. Len(a) + Len(b) /\ ~(Len(a) + j <= Len(a))
        /\ (Len(a) + j) - Len(a) = j
    BY <1>1, <2>1
  <2>3. (ab \o c)[Len(a) + j] = ab[Len(a) + j]
    BY <1>3, <2>2
  <2>4. ab[Len(a) + j] = b[j]
    BY <1>2, <2>2 DEF ab
  <2>. QED
    BY <2>3, <2>4
<1>. QED
  BY <1>1, <1>2, <1>3, <1>4 DEF ab

-----------------------------------------------------------------------------
(* What the client has, and the next line of it. *)

Pieces == UNION {Range(line) : line \in Lines}

LEMMA LineTyped ==
  ASSUME NEW line \in Lines
  PROVE  /\ line \in Seq(Pieces) /\ Len(line) \in Nat \ {0}
         /\ \A i \in 1 .. Len(line) : line[i].newline = (i = Len(line))
<1>1. IsLine(line)
  BY ClientAssumption
<1>2. /\ line \in Seq(Range(line)) /\ line # <<>>
      /\ \A i \in DOMAIN line : line[i].newline = (i = Len(line))
  BY <1>1 DEF IsLine
<1>3. PICK R : R = Range(line)
  OBVIOUS
<1>4. line \in Seq(R) /\ R \subseteq Pieces
  BY <1>2, <1>3 DEF Pieces
<1>5. /\ line \in [1 .. Len(line) -> R] /\ Len(line) \in Nat /\ DOMAIN line = 1 .. Len(line)
      /\ Len(line) # 0
  BY <1>2, <1>4, LenProperties, EmptySeq
<1>6. line \in Seq(Pieces)
  <2>1. \A i \in 1 .. Len(line) : line[i] \in Pieces
    BY <1>4, <1>5
  <2>2. line = [i \in 1 .. Len(line) |-> line[i]]
    BY <1>5
  <2>. QED
    BY <2>1, <2>2, <1>5, SeqDef
<1>. QED
  BY <1>2, <1>5, <1>6

\* The lines sent are a sequence of sequences of pieces.
LEMMA SentTyped ==
  ASSUME NEW s \in SeqOf(Lines, MaxLines)
  PROVE  /\ s \in Seq(Seq(Pieces)) /\ Len(s) \in Nat /\ Len(s) <= MaxLines
         /\ \A i \in 1 .. Len(s) : s[i] \in Lines
<1>1. PICK m \in 0 .. MaxLines : s \in [1 .. m -> Lines]
  BY DEF SeqOf
<1>2. m \in Nat /\ m <= MaxLines /\ MaxLines \in Nat
  BY ClientAssumption
<1>3. \A i \in 1 .. m : s[i] \in Lines /\ s[i] \in Seq(Pieces)
  BY <1>1, LineTyped
<1>4. s \in Seq(Seq(Pieces)) /\ Len(s) = m
  <2>1. PICK P : P = Seq(Pieces)
    OBVIOUS
  <2>2. s \in [1 .. m -> P]
    BY <1>1, <1>3, <2>1
  <2>3. s \in Seq(P)
    BY <1>2, <2>2
  <2>4. Len(s) = m
    BY <1>2, <2>2, <2>3, LenProperties
  <2>. QED
    BY <2>1, <2>3, <2>4
<1>. QED
  BY <1>2, <1>3, <1>4

\* b has its first newline at i.
Ends(b, i) == /\ i \in 1 .. Len(b) /\ b[i].newline
              /\ \A j \in 1 .. Len(b) : b[j].newline => i <= j

\* The first line of the buffer, if a complete one is there, is the next one of
\* those that were sent.
LEMMA NextLine ==
  ASSUME NEW s \in SeqOf(Lines, MaxLines), NEW k \in Nat, k <= Len(s),
         NEW h \in Seq(Seq(Pieces)), Len(h) = k, Agree(s, h, k),
         NEW b \in Seq(Pieces), NEW r \in Seq(Pieces),
         (FlattenSeq(h) \o b) \o r = FlattenSeq(s),
         NEW i, Ends(b, i)
  PROVE  k < Len(s) /\ SubSeq(b, 1, i) = s[k + 1]
<1>1. PICK n \in Nat : /\ Len(s) = n /\ s \in Seq(Seq(Pieces))
                       /\ \A j \in 1 .. n : s[j] \in Lines
  BY SentTyped
<1>2. PICK F \in Seq(Pieces) : F = FlattenSeq(h)
  BY FlattenTyped
<1>3. PICK X : X = (F \o b) \o r /\ X = FlattenSeq(s)
  BY <1>2
<1>4. PICK f \in Nat, m \in Nat, q \in Nat : f = Len(F) /\ m = Len(b) /\ q = Len(r)
  BY LenProperties
<1>5. i \in 1 .. m /\ b[i].newline /\ \A j \in 1 .. m : b[j].newline => i <= j
  BY <1>4 DEF Ends
<1>6. Len(X) = f + m + q /\ \A j \in 1 .. m : X[f + j] = b[j]
  <2>1. X = (F \o b) \o r
    BY <1>3
  <2>2. Len(X) = Len(F) + Len(b) + Len(r) /\ \A j \in 1 .. Len(b) : X[Len(F) + j] = b[j]
    BY <2>1, Middle
  <2>. QED
    BY <1>4, <2>2
<1>7. k < n
  <2>1. SUFFICES ASSUME k = n PROVE FALSE
    BY <1>1
  <2>2. s = h
    <3>1. \A j \in 1 .. n : s[j] = h[j]
      BY <2>1 DEF Agree
    <3>2. Len(s) = n /\ Len(h) = n
      BY <1>1, <2>1
    <3>3. PICK P : P = Seq(Pieces)
      OBVIOUS
    <3>4. s \in Seq(P) /\ h \in Seq(P)
      BY <1>1, <3>3
    <3>. QED
      BY <3>1, <3>2, <3>4, SeqEqual
  <2>3. X = F
    BY <1>2, <1>3, <2>2
  <2>. QED
    BY <1>4, <1>6, <1>5, <2>3
<1>8. PICK l : l = s[k + 1]
  OBVIOUS
<1>9. l \in Lines
  BY <1>1, <1>7, <1>8
<1>10. PICK e \in Nat \ {0} : /\ e = Len(l) /\ l \in Seq(Pieces)
                            /\ \A j \in 1 .. e : l[j].newline = (j = e)
  BY <1>9, LineTyped
<1>11. PICK c \in Seq(Pieces) : X = (F \o l) \o c
  <2>1. Starts(Pieces, Joined(FlattenSeq(h), s[k + 1]), FlattenSeq(s))
    BY <1>1, <1>7, FlattenSplit
  <2>2. Starts(Pieces, Joined(F, l), X)
    BY <1>2, <1>3, <1>8, <2>1
  <2>. QED
    BY <2>2 DEF Starts, Joined
<1>12. \A j \in 1 .. e : X[f + j] = l[j]
  BY <1>4, <1>10, <1>11, Middle
<1>13. ASSUME NEW j \in 1 .. m, j <= e PROVE b[j] = l[j]
  <2>1. j \in 1 .. e
    BY <1>13
  <2>. QED
    BY <1>6, <1>12, <2>1
<1>14. i <= e
  <2>1. SUFFICES ASSUME e < i PROVE FALSE
    BY <1>5
  <2>2. e \in 1 .. m /\ e \in 1 .. e
    BY <1>5, <2>1
  <2>3. b[e] = l[e]
    BY <1>13, <2>2
  <2>4. l[e].newline
    BY <1>10, <2>2
  <2>5. i <= e
    BY <1>5, <2>2, <2>3, <2>4
  <2>. QED
    BY <1>5, <2>1, <2>5
<1>15. i = e
  <2>1. i \in 1 .. e /\ b[i] = l[i]
    BY <1>13, <1>5, <1>14
  <2>. QED
    BY <1>10, <1>5, <2>1
<1>16. SubSeq(b, 1, i) = l
  <2>1. \A j \in 1 .. i : b[j] \in Pieces
    BY <1>4, <1>5, ElementOfSeq
  <2>2. PICK w : w = SubSeq(b, 1, i)
    OBVIOUS
  <2>3. /\ w \in Seq(Pieces) /\ Len(w) = i
        /\ \A j \in 1 .. i : w[j] = b[j]
    BY <1>5, <2>1, <2>2, SubSeqProperties
  <2>4. ASSUME NEW j \in 1 .. i PROVE w[j] = l[j]
    <3>1. j \in 1 .. m /\ j <= e
      BY <1>5, <1>15
    <3>2. b[j] = l[j]
      BY <1>13, <3>1
    <3>. QED
      BY <2>3, <3>2
  <2>5. w = l
    <3>1. l \in Seq(Pieces) /\ Len(w) = Len(l)
      BY <1>10, <1>15, <2>3
    <3>. QED
      BY <2>3, <2>4, <3>1, SeqEqual
  <2>. QED
    BY <2>2, <2>5
<1>. QED
  BY <1>1, <1>7, <1>8, <1>16

-----------------------------------------------------------------------------
(* bb_bus_poll *)

\* What was handled are the first lines that were sent, and it is, with what is in
\* the buffer and some rest, everything that was sent; the rest is what the stream
\* still has, unless the connection is lost.
ClientInv ==
  /\ sent \in SeqOf(Lines, MaxLines) /\ buf \in Seq(Pieces) /\ stream \in Seq(Pieces)
  /\ Len(buf) <= BufSize
  /\ lost \in BOOLEAN /\ (lost => stream = <<>>)
  /\ handled \in Seq(Seq(Pieces)) /\ Len(handled) <= Len(sent) /\ Agree(sent, handled, Len(handled))
  /\ \E rest \in Seq(Pieces) : /\ (FlattenSeq(handled) \o buf) \o rest = FlattenSeq(sent)
                               /\ ~lost => rest = stream

LEMMA InitClientInv == ASSUME ClientInit PROVE ClientInv
<1>1. PICK s : s = sent /\ s \in SeqOf(Lines, MaxLines)
  BY DEF ClientInit
<1>2. s \in Seq(Seq(Pieces)) /\ Len(s) \in Nat
  BY <1>1, SentTyped
<1>3. PICK P : P = Seq(Pieces)
  OBVIOUS
<1>4. <<>> \in Seq(P) /\ <<>> \in P /\ Len(<<>>) = 0
  BY <1>3, EmptySeq
<1>5. FlattenSeq(<<>>) = <<>>
  BY <1>4 DEF FlattenSeq
<1>6. PICK x \in Seq(Pieces) : x = FlattenSeq(s)
  BY <1>2, FlattenTyped
<1>7. (<<>> \o <<>>) \o x = x
  <2>1. <<>> \in Seq(Pieces)
    BY <1>3, <1>4
  <2>2. <<>> \o <<>> = <<>> /\ <<>> \o x = x
    BY <2>1, ConcatEmptySeq
  <2>. QED
    BY <2>2
<1>8. Agree(s, <<>>, 0)
  BY DEF Agree
<1>9. BufSize \in Nat
  BY ClientAssumption
<1>10. stream = x /\ buf = <<>> /\ handled = <<>> /\ lost = FALSE
  BY <1>1, <1>6 DEF ClientInit
<1>11. (FlattenSeq(handled) \o buf) \o x = FlattenSeq(sent)
  BY <1>1, <1>5, <1>6, <1>7, <1>10
<1>12. handled \in Seq(Seq(Pieces)) /\ Agree(sent, handled, Len(handled))
  BY <1>1, <1>3, <1>4, <1>8, <1>10
<1>13. Len(handled) <= Len(sent) /\ Len(buf) <= BufSize
  BY <1>1, <1>2, <1>4, <1>9, <1>10
<1>14. buf \in Seq(Pieces)
  BY <1>3, <1>4, <1>10
<1>. QED
  BY <1>1, <1>10, <1>11, <1>12, <1>13, <1>14 DEF ClientInv

LEMMA Regroup ==
  ASSUME NEW S, NEW a \in Seq(S), NEW b \in Seq(S), NEW c \in Seq(S), NEW d \in Seq(S)
  PROVE  Joined(Joined(a, Joined(b, c)), d) = Joined(Joined(a, b), Joined(c, d))
<1>1. (a \o b) \o c = a \o (b \o c)
  BY ConcatAssociative, SMTT(60)
<1>2. PICK ab \in Seq(S) : ab = a \o b
  BY ConcatProperties
<1>3. (ab \o c) \o d = ab \o (c \o d)
  BY ConcatAssociative, SMTT(60)
<1>. QED
  BY <1>1, <1>2, <1>3 DEF Joined

\* A read moves what arrived from the stream to the buffer; it finds the connection
\* open.
LEMMA RecvStep == ASSUME ClientInv, Recv PROVE ClientInv'
<1>1. PICK n \in 1 .. Len(stream) :
         /\ Len(buf) + n <= BufSize
         /\ buf' = buf \o SubSeq(stream, 1, n)
         /\ stream' = SubSeq(stream, n + 1, Len(stream))
  BY DEF Recv
<1>2. PICK st \in Seq(Pieces), b \in Seq(Pieces) : st = stream /\ b = buf
  BY DEF ClientInv
<1>3. PICK m \in Nat : m = Len(st) /\ n \in 1 .. m
  BY <1>1, <1>2, LenProperties
<1>4. ~lost
  <2>1. Len(<<>>) = 0
    BY EmptySeq
  <2>2. st # <<>>
    BY <1>3, <2>1
  <2>. QED
    BY <1>2, <2>2 DEF ClientInv
<1>5. PICK p, q : p = SubSeq(st, 1, n) /\ q = SubSeq(st, n + 1, m)
  OBVIOUS
<1>6. buf' = b \o p /\ stream' = q
  BY <1>1, <1>2, <1>3, <1>5
<1>7. p \in Seq(Pieces) /\ q \in Seq(Pieces) /\ Len(p) = n
  <2>1. \A i \in 1 .. m : st[i] \in Pieces
    BY <1>3, ElementOfSeq
  <2>2. n \in Int /\ m \in Int /\ 1 \in Int /\ n + 1 \in Int
    BY <1>3
  <2>3. /\ \A i \in 1 .. n : st[i] \in Pieces
        /\ \A i \in n + 1 .. m : st[i] \in Pieces
    BY <1>3, <2>1
  <2>4. SubSeq(st, 1, n) \in Seq(Pieces) /\ Len(SubSeq(st, 1, n)) = n
    BY <1>3, <2>2, <2>3, SubSeqProperties
  <2>5. SubSeq(st, n + 1, m) \in Seq(Pieces)
    BY <2>2, <2>3, SubSeqProperties
  <2>. QED
    BY <1>5, <2>4, <2>5
<1>8. p \o q = st
  <2>1. 1 \in 1 .. Len(st) + 1 /\ n \in 1 - 1 .. Len(st) /\ m \in n .. Len(st)
    BY <1>3
  <2>2. SubSeq(st, 1, n) \o SubSeq(st, n + 1, m) = SubSeq(st, 1, m)
    BY <2>1, ConcatAdjacentSubSeq
  <2>3. SubSeq(st, 1, Len(st)) = st
    BY SubSeqFull
  <2>. QED
    BY <1>3, <1>5, <2>2, <2>3
<1>9. PICK F, X : /\ F \in Seq(Pieces) /\ F = FlattenSeq(handled) /\ X = FlattenSeq(sent)
                  /\ (F \o b) \o st = X
  <2>1. FlattenSeq(handled) \in Seq(Pieces)
    BY FlattenTyped DEF ClientInv
  <2>2. (FlattenSeq(handled) \o buf) \o stream = FlattenSeq(sent)
    BY <1>4 DEF ClientInv
  <2>. QED
    BY <1>2, <2>1, <2>2
<1>10. (F \o (b \o p)) \o q = X
  <2>1. Joined(Joined(F, Joined(b, p)), q) = Joined(Joined(F, b), Joined(p, q))
    BY <1>7, <1>9, Regroup
  <2>. QED
    BY <1>8, <1>9, <2>1 DEF Joined
<1>11. b \o p \in Seq(Pieces) /\ Len(b \o p) = Len(b) + n
  BY <1>7, ConcatProperties
<1>12. UNCHANGED <<sent, handled, lost>>
  BY DEF Recv
<1>13. Len(buf') <= BufSize /\ buf' \in Seq(Pieces)
  BY <1>1, <1>2, <1>6, <1>11
<1>14. (FlattenSeq(handled') \o buf') \o q = FlattenSeq(sent')
  BY <1>6, <1>9, <1>10, <1>12
<1>. QED
  BY <1>4, <1>6, <1>7, <1>12, <1>13, <1>14 DEF ClientInv

\* A line leaves the buffer for the handler, and it is the next one.
LEMMA TakeLineStep ==
  ASSUME ClientInv, TakeLine
  PROVE  /\ ClientInv'
         /\ \E l \in Lines : /\ l = SubSeq(buf, 1, Min(Newlines))
                             /\ handled' # <<>> /\ Last(handled') = l
<1>1. PICK s, h, b : s = sent /\ h = handled /\ b = buf
  OBVIOUS
<1>2. /\ s \in SeqOf(Lines, MaxLines) /\ b \in Seq(Pieces) /\ h \in Seq(Seq(Pieces))
      /\ Len(h) <= Len(s) /\ Agree(s, h, Len(h)) /\ Len(b) <= BufSize
  BY <1>1 DEF ClientInv
<1>3. PICK k \in Nat, n \in Nat : k = Len(h) /\ n = Len(b)
  BY <1>2, LenProperties
<1>4. PICK N : N = Newlines
  OBVIOUS
<1>5. N = {i \in 1 .. n : b[i].newline} /\ N # {}
  <2>1. DOMAIN b = 1 .. n
    BY <1>2, <1>3, LenProperties
  <2>. QED
    BY <1>1, <1>4, <2>1 DEF TakeLine, Newlines
<1>6. PICK nl : nl = Min(N)
  OBVIOUS
<1>7. nl \in N /\ \A i \in N : nl <= i
  <2>1. N \in SUBSET Nat
    BY <1>5
  <2>2. \E x \in N : \A y \in N : x <= y
    BY <1>5, <2>1, Least
  <2>. QED
    BY <1>6, <2>2 DEF Min
<1>8. nl \in 1 .. n /\ b[nl].newline /\ \A j \in 1 .. n : b[j].newline => nl <= j
  BY <1>5, <1>7
<1>9. PICK r \in Seq(Pieces) : (FlattenSeq(h) \o b) \o r = FlattenSeq(s) /\ (~lost => r = stream)
  BY <1>1 DEF ClientInv
<1>10. PICK l : l = SubSeq(b, 1, nl)
  OBVIOUS
<1>11. k < Len(s) /\ l = s[k + 1]
  <2>1. Ends(b, nl)
    BY <1>3, <1>8 DEF Ends
  <2>2. (FlattenSeq(h) \o b) \o r = FlattenSeq(s)
    BY <1>9
  <2>3. k <= Len(s) /\ Agree(s, h, k)
    BY <1>2, <1>3
  <2>4. k < Len(s) /\ SubSeq(b, 1, nl) = s[k + 1]
    BY <1>2, <1>3, <2>1, <2>2, <2>3, NextLine
  <2>. QED
    BY <1>10, <2>4
<1>12. l \in Lines /\ l \in Seq(Pieces) /\ Len(s) \in Nat
  <2>1. Len(s) \in Nat /\ \A i \in 1 .. Len(s) : s[i] \in Lines
    BY <1>2, SentTyped
  <2>2. k + 1 \in 1 .. Len(s)
    BY <1>11, <2>1
  <2>3. l \in Lines
    BY <1>11, <2>1, <2>2
  <2>. QED
    BY <2>1, <2>3, LineTyped
<1>13. PICK c, g : c = SubSeq(b, nl + 1, n) /\ g = Append(h, l)
  OBVIOUS
<1>14. handled' = g /\ buf' = c /\ UNCHANGED <<sent, stream, lost>>
  BY <1>1, <1>3, <1>4, <1>6, <1>10, <1>13 DEF TakeLine
<1>15. c \in Seq(Pieces) /\ Len(c) <= BufSize
  <2>1. \A i \in 1 .. n : b[i] \in Pieces
    BY <1>2, <1>3, ElementOfSeq
  <2>2. nl + 1 \in Int /\ n \in Int /\ \A i \in nl + 1 .. n : b[i] \in Pieces
    BY <1>3, <1>8, <2>1
  <2>3. SubSeq(b, nl + 1, n) \in Seq(Pieces)
        /\ Len(SubSeq(b, nl + 1, n)) = IF nl + 1 <= n THEN n - (nl + 1) + 1 ELSE 0
    BY <2>2, SubSeqProperties
  <2>4. n <= BufSize /\ BufSize \in Nat
    BY <1>2, <1>3, ClientAssumption
  <2>. QED
    BY <1>3, <1>8, <1>13, <2>3, <2>4
<1>16. l \o c = b
  <2>1. 1 \in 1 .. Len(b) + 1 /\ nl \in 1 - 1 .. Len(b) /\ n \in nl .. Len(b)
    BY <1>3, <1>8
  <2>2. SubSeq(b, 1, nl) \o SubSeq(b, nl + 1, n) = SubSeq(b, 1, n)
    BY <1>2, <2>1, ConcatAdjacentSubSeq
  <2>3. SubSeq(b, 1, Len(b)) = b
    BY <1>2, SubSeqFull
  <2>. QED
    BY <1>3, <1>10, <1>13, <2>2, <2>3
<1>17. /\ g \in Seq(Seq(Pieces)) /\ Len(g) = k + 1
       /\ \A i \in 1 .. k : g[i] = h[i]
       /\ g[k + 1] = l
  <2>1. PICK P : P = Seq(Pieces)
    OBVIOUS
  <2>2. h \in Seq(P) /\ l \in P
    BY <1>2, <1>12, <2>1
  <2>. QED
    BY <1>3, <1>13, <2>1, <2>2, AppendProperties
<1>18. Agree(s, g, Len(g)) /\ Len(g) <= Len(s)
  <2>1. \A i \in 1 .. k : s[i] = g[i]
    BY <1>2, <1>3, <1>17 DEF Agree
  <2>2. s[k + 1] = g[k + 1]
    BY <1>11, <1>17
  <2>3. Agree(s, g, k + 1)
    BY <1>3, <2>1, <2>2 DEF Agree
  <2>. QED
    BY <1>3, <1>11, <1>12, <1>17, <2>3
<1>19. (FlattenSeq(g) \o c) \o r = FlattenSeq(s)
  <2>. l \in Seq(Pieces) /\ c \in Seq(Pieces)
    BY <1>12, <1>15
  <2>1. PICK F \in Seq(Pieces) : F = FlattenSeq(h)
    BY <1>2, FlattenTyped
  <2>2. FlattenSeq(g) = F \o l
    BY <1>2, <1>13, <2>1, FlattenAppend
  <2>3. (F \o l) \o c = F \o (l \o c)
    BY ConcatAssociative
  <2>4. (F \o b) \o r = FlattenSeq(s)
    BY <1>9, <2>1
  <2>. QED
    BY <1>16, <2>2, <2>3, <2>4
<1>20. ClientInv'
  <2>1. (FlattenSeq(handled') \o buf') \o r = FlattenSeq(sent')
    BY <1>1, <1>14, <1>19
  <2>2. handled' \in Seq(Seq(Pieces)) /\ Len(handled') <= Len(sent') /\ Agree(sent', handled', Len(handled'))
    BY <1>1, <1>14, <1>17, <1>18
  <2>3. buf' \in Seq(Pieces) /\ Len(buf') <= BufSize
    BY <1>14, <1>15
  <2>4. ~lost' => r = stream'
    BY <1>9, <1>14
  <2>. QED
    BY <1>14, <2>1, <2>2, <2>3, <2>4 DEF ClientInv
<1>21. handled' # <<>> /\ Last(handled') = l
  <2>1. Len(<<>>) = 0
    BY EmptySeq
  <2>2. g # <<>> /\ g[Len(g)] = l
    BY <1>3, <1>17, <2>1
  <2>. QED
    BY <1>14, <2>2 DEF Last
<1>. QED
  BY <1>1, <1>4, <1>6, <1>10, <1>12, <1>20, <1>21

LEMMA LoseBusStep == ASSUME ClientInv, LoseBus PROVE ClientInv'
<1>1. <<>> \in Seq(Pieces)
  BY EmptySeq
<1>2. UNCHANGED <<sent, buf, handled>> /\ lost' = TRUE /\ stream' = <<>>
  BY DEF LoseBus
<1>3. PICK r \in Seq(Pieces) : (FlattenSeq(handled) \o buf) \o r = FlattenSeq(sent)
  BY DEF ClientInv
<1>4. (FlattenSeq(handled') \o buf') \o r = FlattenSeq(sent')
  BY <1>2, <1>3
<1>. QED
  BY <1>1, <1>2, <1>4 DEF ClientInv

LEMMA ClientUntouched == ASSUME ClientInv, UNCHANGED client PROVE ClientInv'
<1>1. sent' = sent /\ stream' = stream /\ buf' = buf /\ lost' = lost /\ handled' = handled
  BY DEF client
<1>. QED
  BY <1>1, Zenon DEF ClientInv

\* A sequence that agrees with the beginning of another one is a prefix of it.
LEMMA AgreeIsPrefix ==
  ASSUME NEW S, NEW a \in Seq(S), NEW x \in Seq(S), Len(a) <= Len(x), Agree(x, a, Len(a))
  PROVE  IsPrefix(a, x)
<1>1. PICK n \in Nat : n = Len(a)
  BY LenProperties
<1>2. \A i \in 1 .. n : a[i] \in S /\ x[i] = a[i]
  BY <1>1, ElementOfSeq DEF Agree
<1>3. \A i \in 1 .. n : x[i] \in S
  BY <1>2
<1>4. PICK y, z : y = SubSeq(a, 1, n) /\ z = SubSeq(x, 1, n)
  OBVIOUS
<1>5. /\ y \in Seq(S) /\ Len(y) = n /\ \A i \in 1 .. n : y[i] = a[i]
      /\ z \in Seq(S) /\ Len(z) = n /\ \A i \in 1 .. n : z[i] = x[i]
  BY <1>2, <1>3, <1>4, SubSeqProperties
<1>6. y = z
  BY <1>2, <1>5, SeqEqual
<1>. QED
  BY <1>1, <1>4, <1>6 DEF IsPrefix

LEMMA PrefixOfConcat ==
  ASSUME NEW S, NEW a \in Seq(S), NEW r \in Seq(S), NEW x, x = a \o r
  PROVE  IsPrefix(a, x)
<1>1. PICK n \in Nat, m \in Nat : n = Len(a) /\ m = Len(r)
  BY LenProperties
<1>2. /\ x \in Seq(S) /\ Len(x) = n + m
      /\ \A i \in 1 .. n + m : x[i] = IF i <= n THEN a[i] ELSE r[i - n]
  BY <1>1, ConcatProperties
<1>3. Len(a) <= Len(x) /\ Agree(x, a, Len(a))
  BY <1>1, <1>2 DEF Agree
<1>. QED
  BY <1>2, <1>3, AgreeIsPrefix

LEMMA InOrder == ASSUME ClientInv PROVE HandledInOrder
<1>1. PICK s, h, b : s = sent /\ h = handled /\ b = buf
  OBVIOUS
<1>2. PICK r \in Seq(Pieces) : (FlattenSeq(h) \o b) \o r = FlattenSeq(s) /\ (~lost => r = stream)
  BY <1>1 DEF ClientInv
<1>3. /\ s \in SeqOf(Lines, MaxLines) /\ b \in Seq(Pieces) /\ h \in Seq(Seq(Pieces))
      /\ Len(h) <= Len(s) /\ Agree(s, h, Len(h)) /\ lost \in BOOLEAN
  BY <1>1 DEF ClientInv
<1>4. IsPrefix(h, s)
  <2>1. PICK P : P = Seq(Pieces)
    OBVIOUS
  <2>2. h \in Seq(P) /\ s \in Seq(P)
    BY <1>3, <2>1, SentTyped
  <2>. QED
    BY <1>3, <2>2, AgreeIsPrefix
<1>5. PICK a \in Seq(Pieces) : a = FlattenSeq(h) \o b
  BY <1>3, FlattenTyped, ConcatProperties
<1>6. IsPrefix(a, FlattenSeq(s))
  <2>1. FlattenSeq(s) = a \o r
    BY <1>2, <1>5
  <2>. QED
    BY <2>1, PrefixOfConcat
<1>7. ~lost => a \o stream = FlattenSeq(s)
  BY <1>2, <1>5
<1>. QED
  BY <1>1, <1>4, <1>5, <1>6, <1>7 DEF HandledInOrder

-----------------------------------------------------------------------------
(* blink_thread: a thread is late at most once. *)

\* Where a thread may be after a late write.
AfterWrite == {"lit", "dark", "done", "ended", "none"}

LateInv ==
  /\ blinker \in [Threads -> Blinking \cup {"none", "ended"}]
  /\ late \in [Threads -> {0, 1}]
  /\ \A t \in Threads : late[t] = 1 => ~active /\ blinker[t] \in AfterWrite

LEMMA InitLate == Init => LateInv
BY DEF Init, LateInv, Blinking

\* A step that leaves the threads and the flag alone, and one that starts the
\* count again.
LEMMA Untouched == ASSUME LateInv, UNCHANGED <<active, blinker, late>> PROVE LateInv'
BY DEF LateInv

LEMMA CountedAgain ==
  ASSUME LateInv, late' = [t \in Threads |-> 0],
         blinker' \in [Threads -> Blinking \cup {"none", "ended"}]
  PROVE  LateInv'
BY DEF LateInv

\* bb_block_main_loop, on_cmd and stop.
LEMMA MainStep == ASSUME LateInv, Main PROVE LateInv'
<1>. USE DEF client, block, blink, threads
<1>1. CASE StartBlock \/ EnterLoop \/ Poll \/ LinesDone \/ Show \/ SetCount \/ StopOff
  <2>1. UNCHANGED <<active, blinker, late>>
    BY <1>1 DEF StartBlock, EnterLoop, Poll, LinesDone, Show, SetCount, StopOff
  <2>. QED
    BY <2>1, Untouched
<1>2. CASE OnCommand \/ BeginStop
  <2>1. \/ UNCHANGED <<active, blinker, late>>
        \/ late' = [t \in Threads |-> 0] /\ UNCHANGED blinker
    BY <1>2 DEF OnCommand, BeginStop, StopBlinking
  <2>. QED
    BY <2>1, Untouched, CountedAgain DEF LateInv
<1>3. CASE CreateThread
  <2>1. late' = [t \in Threads |-> 0]
    BY <1>3 DEF CreateThread
  <2>2. UNCHANGED blinker \/ \E t \in Threads : blinker' = [blinker EXCEPT ![t] = "test_active"]
    BY <1>3 DEF CreateThread
  <2>3. blinker' \in [Threads -> Blinking \cup {"none", "ended"}]
    BY <2>2 DEF LateInv, Blinking
  <2>. QED
    BY <2>1, <2>3, CountedAgain
<1>4. CASE Exit
  BY <1>4 DEF Exit, LateInv, AfterWrite
<1>. QED
  BY <1>1, <1>2, <1>3, <1>4 DEF Main

\* blink_thread.
LEMMA BlinkerStep == ASSUME LateInv, NEW t \in Threads, Blinker(t) PROVE LateInv'
<1>. USE DEF Goes, blink, LateInv, AfterWrite, Blinking
<1>1. CASE TestActive(t)
  BY <1>1 DEF TestActive
<1>2. CASE TestCount(t)
  BY <1>2 DEF TestCount
<1>3. CASE TurnOn(t)
  BY <1>3 DEF TurnOn, Writes
<1>4. CASE AfterOn(t)
  BY <1>4 DEF AfterOn
<1>5. CASE TurnOff(t)
  BY <1>5 DEF TurnOff, Writes
<1>6. CASE AfterOff(t)
  BY <1>6 DEF AfterOff
<1>7. CASE Done(t)
  BY <1>7 DEF Done
<1>. QED
  BY <1>1, <1>2, <1>3, <1>4, <1>5, <1>6, <1>7 DEF Blinker

-----------------------------------------------------------------------------
(* bb_block_main_loop and blink_thread on top of it *)

Leds == [lit : BOOLEAN, trigger : {"none", "heartbeat"}]

\* The command that is being carried out is the last line that was handled.
BlockInv ==
  /\ main \in {"init", "ready", "loop", "lines", "show", "blink", "create", "stop",
               "stopped", "exited", "crashed"}
  /\ hasLed \in BOOLEAN /\ running \in BOOLEAN /\ active \in BOOLEAN
  /\ state \in {"init", "ready", "running", "stopped"}
  /\ count \in 0 .. MaxCount
  /\ cycles \in [Threads -> 0 .. MaxCount + 1]
  /\ led \in Leds
  /\ main \in {"show", "blink"} =>
       \E l \in Lines : /\ handled # <<>> /\ Last(handled) = l
                        /\ Last(l).cmd \in IF main = "blink" THEN {"blink"}
                                           ELSE {"on", "off", "heartbeat"}

\* A write leaves a brightness and a trigger.
LEMMA WrittenTyped ==
  ASSUME led \in Leds, NEW shown \in {"on", "off", "heartbeat", "none"}
  PROVE  Written(shown) \in Leds
BY DEF Leds, Written, Off

LEMMA MinTyped ==
  ASSUME NEW a \in Nat, NEW b \in Nat
  PROVE  Min({a, b}) \in 0 .. b
<1>1. \E x \in {a, b} : \A y \in {a, b} : x <= y
  OBVIOUS
<1>2. Min({a, b}) \in {a, b} /\ \A y \in {a, b} : Min({a, b}) <= y
  BY <1>1 DEF Min
<1>. QED
  BY <1>2

LEMMA InitBlock == ASSUME Init PROVE BlockInv
<1>1. 0 \in 0 .. MaxCount /\ 0 \in 0 .. MaxCount + 1
  BY LedAssumption
<1>2. count \in 0 .. MaxCount /\ cycles \in [Threads -> 0 .. MaxCount + 1]
  BY <1>1 DEF Init
<1>3. led \in Leds /\ hasLed \in BOOLEAN
  BY DEF Init, Leds
<1>. QED
  BY <1>2, <1>3 DEF Init, BlockInv

LEMMA BlockMain == ASSUME ClientInv, BlockInv, Main PROVE ClientInv' /\ BlockInv'
<1>. USE DEF block, blink, threads
<1>1. CASE StartBlock
  <2>1. UNCHANGED client /\ UNCHANGED <<hasLed, running, active, count, cycles>>
    BY <1>1 DEF StartBlock
  <2>2. Written("none") \in Leds
    BY WrittenTyped DEF BlockInv
  <2>. QED
    BY <1>1, <2>1, <2>2, ClientUntouched DEF StartBlock, BlockInv
<1>2. CASE EnterLoop
  BY <1>2, ClientUntouched DEF EnterLoop, BlockInv
<1>3. CASE Poll
  BY <1>3, RecvStep DEF Poll, BlockInv
<1>4. CASE LinesDone
  BY <1>4, ClientUntouched DEF LinesDone, BlockInv
<1>5. CASE OnCommand
  <2>1. ClientInv' /\ \E l \in Lines : /\ l = SubSeq(buf, 1, Min(Newlines))
                                       /\ handled' # <<>> /\ Last(handled') = l
    BY <1>5, TakeLineStep DEF OnCommand
  <2>2. PICK l \in Lines : /\ l = SubSeq(buf, 1, Min(Newlines))
                           /\ handled' # <<>> /\ Last(handled') = l
    BY <2>1
  <2>3. PICK cmd : cmd = Last(l).cmd
    OBVIOUS
  <2>4. \/ UNCHANGED <<main, active>> /\ state' \in {state, "running"}
        \/ /\ cmd \in Commands \ {"status"} /\ active' = FALSE
           /\ main' = IF cmd = "blink" THEN "blink" ELSE "show"
           /\ UNCHANGED state
    BY <1>5, <2>2, <2>3 DEF OnCommand, StopBlinking
  <2>5. UNCHANGED <<hasLed, running, led, count, cycles>> /\ main = "lines"
    BY <1>5 DEF OnCommand, StopBlinking
  <2>. QED
    BY <2>1, <2>2, <2>3, <2>4, <2>5 DEF BlockInv, Commands
<1>6. CASE Show
  <2>1. Command.cmd \in {"on", "off", "heartbeat"}
    BY <1>6 DEF Show, BlockInv, Command
  <2>2. Written(Command.cmd) \in Leds
    BY <2>1, WrittenTyped DEF BlockInv
  <2>. QED
    BY <1>6, <2>2, ClientUntouched DEF Show, BlockInv
<1>7. CASE SetCount
  <2>1. Command.count \in 0 .. MaxCount
    BY <1>7, LedAssumption DEF SetCount, BlockInv, Command
  <2>. QED
    BY <1>7, <2>1, ClientUntouched DEF SetCount, BlockInv
<1>8. CASE CreateThread
  BY <1>8, ClientUntouched DEF CreateThread, BlockInv
<1>9. CASE BeginStop
  BY <1>9, ClientUntouched DEF BeginStop, StopBlinking, BlockInv
<1>10. CASE StopOff
  <2>1. Written("off") \in Leds
    BY WrittenTyped DEF BlockInv
  <2>. QED
    BY <1>10, <2>1, ClientUntouched DEF StopOff, BlockInv
<1>11. CASE Exit
  BY <1>11, ClientUntouched DEF Exit, BlockInv
<1>. QED
  BY <1>1, <1>2, <1>3, <1>4, <1>5, <1>6, <1>7, <1>8, <1>9, <1>10, <1>11 DEF Main

LEMMA BlockBlinker ==
  ASSUME ClientInv, BlockInv, NEW t \in Threads, Blinker(t)
  PROVE  ClientInv' /\ BlockInv'
<1>1. UNCHANGED client /\ UNCHANGED <<hasLed, main, running, state, active, count, handled>>
  BY DEF Blinker, TestActive, TestCount, TurnOn, AfterOn, TurnOff, AfterOff, Done, Goes,
         block, blink, client
<1>2. ClientInv'
  BY <1>1, ClientUntouched
<1>3. cycles' \in [Threads -> 0 .. MaxCount + 1]
  <2>1. cycles' = cycles \/ cycles' = [cycles EXCEPT ![t] = Min({@ + 1, MaxCount + 1})]
    BY DEF Blinker, TestActive, TestCount, TurnOn, AfterOn, TurnOff, AfterOff, Done, Writes
  <2>2. cycles[t] + 1 \in Nat /\ MaxCount + 1 \in Nat
    BY LedAssumption DEF BlockInv
  <2>3. Min({cycles[t] + 1, MaxCount + 1}) \in 0 .. MaxCount + 1
    BY <2>2, MinTyped
  <2>. QED
    BY <2>1, <2>3 DEF BlockInv
<1>4. led' \in Leds
  <2>1. Written("on") \in Leds /\ Written("off") \in Leds
    BY WrittenTyped DEF BlockInv
  <2>. QED
    BY <2>1 DEF Blinker, TestActive, TestCount, TurnOn, AfterOn, TurnOff, AfterOff, Done, Writes,
                BlockInv
<1>. QED
  BY <1>1, <1>2, <1>3, <1>4 DEF BlockInv

\* Everything together: what the client has, the block, and the late writes.
LedInv == ClientInv /\ BlockInv /\ LateInv

\* It holds in every state: a poll, a command, a write of any thread, a signal and
\* a lost bus keep it.
THEOREM LedInvariant == Spec => []LedInv
<1>1. Init => LedInv
  BY InitClientInv, InitBlock, InitLate DEF LedInv, Init
<1>2. LedInv /\ [Next]_vars => LedInv'
  <2>. SUFFICES ASSUME LedInv, [Next]_vars PROVE LedInv'
    OBVIOUS
  <2>. ClientInv /\ BlockInv /\ LateInv
    BY DEF LedInv
  <2>1. CASE Main
    BY <2>1, MainStep, BlockMain DEF LedInv
  <2>2. CASE \E t \in Threads : Blinker(t)
    BY <2>2, BlinkerStep, BlockBlinker DEF LedInv
  <2>3. CASE Signal
    <3>1. ClientInv'
      BY <2>3, ClientUntouched DEF Signal
    <3>2. BlockInv' /\ LateInv'
      BY <2>3, Untouched DEF Signal, BlockInv, client, blink, threads
    <3>. QED
      BY <3>1, <3>2 DEF LedInv
  <2>4. CASE BusLost
    <3>1. ClientInv'
      BY <2>4, LoseBusStep DEF BusLost
    <3>2. BlockInv' /\ LateInv'
      BY <2>4, Untouched DEF BusLost, LoseBus, BlockInv, block, blink, threads
    <3>. QED
      BY <3>1, <3>2 DEF LedInv
  <2>5. CASE UNCHANGED vars
    <3>1. ClientInv'
      BY <2>5, ClientUntouched DEF vars
    <3>2. BlockInv' /\ LateInv'
      BY <2>5, Untouched DEF vars, BlockInv, client, block, blink, threads
    <3>. QED
      BY <3>1, <3>2 DEF LedInv
  <2>. QED
    BY <2>1, <2>2, <2>3, <2>4, <2>5 DEF Next
<1>. QED
  BY <1>1, <1>2, PTL DEF Spec

\* Every variable keeps its type; for the count and the LED that is because what
\* the main thread carries out is a whole line that was sent.
THEOREM TypeCorrect == Spec => []TypeOK
<1>1. LedInv => TypeOK
  <2>. SUFFICES ASSUME LedInv PROVE TypeOK
    OBVIOUS
  <2>1. ClientTypeOK
    BY DEF LedInv, ClientInv, ClientTypeOK
  <2>2. late \in [Threads -> Nat]
    BY DEF LedInv, LateInv
  <2>3. blinker \in [Threads -> Blinking \cup {"none", "ended"}]
    BY DEF LedInv, LateInv
  <2>. QED
    BY <2>1, <2>2, <2>3 DEF LedInv, BlockInv, Leds, TypeOK
<1>. QED
  BY <1>1, LedInvariant, PTL

\* bb_bus_poll gives its handler the lines that were sent, whole, in order and once
\* each, wherever the reads cut the stream, whatever the size of the buffer, and up
\* to the moment the connection is lost.
THEOREM LinesInOrder == Spec => []HandledInOrder
<1>1. LedInv => HandledInOrder
  BY InOrder DEF LedInv
<1>. QED
  BY <1>1, LedInvariant, PTL

\* A blink thread that was told to stop, by a command or by the end of the block,
\* writes to the LED at most once more, whatever commands follow, however many
\* threads overlap, and whether or not pthread_create works.
THEOREM LateOnce == Spec => []OneLateWrite
<1>1. LedInv => OneLateWrite
  BY DEF LedInv, LateInv, OneLateWrite
<1>. QED
  BY <1>1, LedInvariant, PTL
=============================================================================
