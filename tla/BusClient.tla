----------------------------- MODULE BusClient ------------------------------
(***************************************************************************)
(* The receiving side of libbb/bb_bus.c: bb_bus_poll reads what has        *)
(* arrived into one static buffer, hands every complete line to the        *)
(* handler, and keeps the rest for the next call.                          *)
(*                                                                         *)
(* A line is a sequence of pieces, the last of which has the newline; a    *)
(* read ends after any piece.  The module that extends this one says when  *)
(* the operations happen.                                                  *)
(***************************************************************************)
EXTENDS Integers, SequencesExt

CONSTANTS
  Lines,       \* the lines the daemon may send, each a sequence of pieces
  MaxLines,    \* bound on the lines sent
  BufSize      \* pieces that fit the buffer beside its terminating zero

IsLine(line) == /\ line \in Seq(Range(line)) /\ line # <<>>
                /\ \A i \in DOMAIN line : line[i].newline = (i = Len(line))

ASSUME ClientAssumption == /\ \A line \in Lines : IsLine(line)
                           /\ MaxLines \in Nat /\ BufSize \in Nat \ {0}

VARIABLES
  sent,      \* the lines the daemon sends to this client
  stream,    \* the pieces of them that were not read yet
  buf,       \* the static buffer of bb_bus_poll
  lost,      \* the daemon has closed the connection
  handled    \* history: the lines given to the handler

client == <<sent, stream, buf, lost, handled>>

ClientInit ==
  /\ sent \in SeqOf(Lines, MaxLines)
  /\ stream = FlattenSeq(sent)
  /\ buf = <<>> /\ handled = <<>>
  /\ lost = FALSE

\* Mutant: the space that is used is not subtracted.
Recv_Overrun ==
  /\ \E n \in 1 .. Len(stream) :
       /\ n <= BufSize
       /\ buf' = buf \o SubSeq(stream, 1, n)
       /\ stream' = SubSeq(stream, n + 1, Len(stream))
  /\ UNCHANGED <<sent, lost, handled>>

\* select and recv: some of what the daemon sent arrives.  The call fails when
\* the connection is lost, and when the buffer is full without a newline.
Recv ==
  /\ \E n \in 1 .. Len(stream) :
       /\ Len(buf) + n <= BufSize
       /\ buf' = buf \o SubSeq(stream, 1, n)
       /\ stream' = SubSeq(stream, n + 1, Len(stream))
  /\ UNCHANGED <<sent, lost, handled>>

Newlines == {i \in DOMAIN buf : buf[i].newline}

\* Mutant: a read that ends in the middle of a line loses that part.
TakeLine_DropRest ==
  /\ Newlines # {}
  /\ LET nl == Min(Newlines)
     IN /\ handled' = Append(handled, SubSeq(buf, 1, nl))
        /\ buf' = IF Cardinality(Newlines) = 1 THEN <<>> ELSE SubSeq(buf, nl + 1, Len(buf))
  /\ UNCHANGED <<sent, stream, lost>>

\* The next complete line leaves the buffer and goes to the handler.
TakeLine ==
  /\ Newlines # {}
  /\ LET nl == Min(Newlines)
     IN /\ handled' = Append(handled, SubSeq(buf, 1, nl))
        /\ buf' = SubSeq(buf, nl + 1, Len(buf))
  /\ UNCHANGED <<sent, stream, lost>>

\* The daemon goes away; what was under way does not arrive.
LoseBus ==
  /\ ~lost
  /\ lost' = TRUE /\ stream' = <<>>
  /\ UNCHANGED <<sent, buf, handled>>

-----------------------------------------------------------------------------
(* Correctness *)

ClientTypeOK ==
  /\ sent \in SeqOf(Lines, MaxLines)
  /\ Len(buf) <= BufSize
  /\ lost \in BOOLEAN

\* However the stream is cut into reads, the handler gets the lines that were
\* sent, whole, in order and once each: what was handled, what is in the buffer
\* and what has not arrived are together what was sent.
HandledInOrder ==
  LET got == FlattenSeq(handled) \o buf
  IN /\ IsPrefix(handled, sent)
     /\ IF lost THEN IsPrefix(got, FlattenSeq(sent))
                ELSE got \o stream = FlattenSeq(sent)
=============================================================================
