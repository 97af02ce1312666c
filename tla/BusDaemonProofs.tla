--------------------------- MODULE BusDaemonProofs ---------------------------
(***************************************************************************)
(* Proofs about the bus daemon, for any number of connections, any topics, *)
(* any limits of the tables, and clients that send and leave at any time.  *)
(***************************************************************************)
EXTENDS BusDaemon, FiniteSetTheorems, FunctionTheorems, SequenceTheorems, TLAPS

-----------------------------------------------------------------------------
(* The inductive invariant *)

\* The parts of TypeOK.
NetworkTypes ==
  /\ program \in [Conns -> {"block", "ping", "pub", "sub"}]
  /\ peer \in [Conns -> {"new", "up", "gone"}]
  /\ sent \in [Conns -> Nat]
  /\ toDaemon \in [Conns -> Seq(Requests)]
  /\ backlog \in Seq(Conns)

TableTypes ==
  /\ fd \in [Conns -> Fds \cup {0}] /\ reg \in [Conns -> Ids \cup {NotWatched}]
  /\ clients \in [Ids -> Fds \cup {0}]
  /\ num_clients \in Int /\ num_clients <= MaxClients /\ (~moved => num_clients >= 0)
  /\ moved \in BOOLEAN

DeliveryTypes ==
  /\ inbox \in [Conns -> Seq(Requests \cup {PONG})]
  /\ subs \in Seq([topic : Patterns, fds : SUBSET Fds]) /\ Len(subs) <= MaxSubs
  /\ wants \in [Conns -> SUBSET Patterns]


EventTypes ==
  /\ pc \in {"wait", "event", "lines"} /\ lines \in Seq(Requests)
  /\ event.data \in Ids \cup {SrvFd, NotWatched}
  /\ \A e \in batch : e.data \in Ids \cup {SrvFd} /\ e.hup \in BOOLEAN
  /\ event.hup \in BOOLEAN
  /\ pc = "wait" => event = NoEvent
  /\ pc # "wait" => event.data \in Ids \cup {SrvFd} /\ num_clients >= 0
  /\ pc = "lines" => event.data # SrvFd
  /\ pc # "lines" => lines = <<>>

\* A connection that waits for accept has no descriptor, and an open descriptor
\* belongs to one connection.
Connected ==
  /\ \A c \in Conns : peer[c] = "new" => fd[c] = 0 /\ c \notin Range(backlog)
  /\ \A i \in DOMAIN backlog : fd[backlog[i]] = 0
  /\ \A i, j \in DOMAIN backlog : backlog[i] = backlog[j] => i = j
  /\ \A c \in Conns : fd[c] = 0 => reg[c] = NotWatched /\ wants[c] = {}
  /\ \A c, d \in Conns : fd[c] = fd[d] /\ fd[c] # 0 => c = d

\* No index that is in use, however stale, leads to an entry never written.
Written ==
  /\ \A i \in Ids : i < num_clients => clients[i] # 0
  /\ \A c \in Watched : clients[reg[c]] # 0
  /\ \A e \in batch : e.data # SrvFd => clients[e.data] # 0
  /\ pc # "wait" /\ event.data # SrvFd => clients[event.data] # 0
  /\ pc = "lines" => Owners # {}

\* Each topic has one entry; a topic that somebody wants and has none found the
\* table full, and the table stays full.
Entries ==
  /\ \A i, j \in DOMAIN subs : subs[i].topic = subs[j].topic => i = j
  /\ \A c \in Conns : \A p \in wants[c] : find_sub(p) # {} \/ Len(subs) >= MaxSubs

\* While no entry has been moved, the events still to be handled are of different
\* connections, which are watched, and a client that wants a topic is watched.
Of(e, c) == reg[c] = e.data /\ (e.hup => peer[c] = "gone")

EventsInStep ==
  /\ \A e \in batch : e.data # SrvFd => \E c \in Watched : Of(e, c)
  /\ \A e, f \in batch : e.data = f.data /\ e.data # SrvFd => e = f
  /\ pc # "wait" /\ event.data # SrvFd =>
       /\ \E c \in Watched : Of(event, c)
       /\ \A e \in batch : e.data # event.data
  /\ \A c \in Conns : wants[c] # {} => c \in Watched

\* What was sent and fits one read has been read before the lines are handled.
Drained ==
  /\ \A c \in Conns : Len(toDaemon[c]) <= sent[c]
  /\ pc = "lines" /\ event.hup /\ ~moved =>
       \A c \in Owners : sent[c] <= RecvLines => toDaemon[c] = <<>>

IInv == /\ NetworkTypes /\ TableTypes /\ DeliveryTypes /\ EventTypes /\ Connected /\ Written
        /\ IndicesInStep /\ SubsFaithful /\ Entries /\ Drained
        /\ ~moved => EventsInStep

LEMMA TypesMeanTypeOK ==
  NetworkTypes /\ TableTypes /\ DeliveryTypes /\ EventTypes => TypeOK
BY DEF NetworkTypes, TableTypes, DeliveryTypes, EventTypes, TypeOK

-----------------------------------------------------------------------------
(* Constants and descriptors *)

LEMMA Constants ==
  /\ IsFiniteSet(Conns) /\ Cardinality(Conns) \in Nat
  /\ MaxClients \in Nat \ {0} /\ SrvFd \in Nat \ {0} /\ RecvLines \in Nat \ {0}
  /\ Ids \subseteq Nat /\ NotWatched \notin Ids /\ SrvFd # NotWatched
  /\ Fds \subseteq Nat /\ 0 \notin Fds /\ IsFiniteSet(Fds)
  /\ Cardinality(Fds) = Cardinality(Conns)
<1>1. IsFiniteSet(Conns) /\ Cardinality(Conns) \in Nat
  BY BusAssumption, FS_CardinalityType
<1>2. IsFiniteSet(Fds) /\ Cardinality(Fds) = Cardinality(Conns)
  <2>. DEFINE a == SrvFd + 2
              b == SrvFd + 1 + Cardinality(Conns)
  <2>1. a \in Int /\ b \in Int /\ b - a + 1 = Cardinality(Conns) /\ Cardinality(Conns) >= 0
    BY <1>1, BusAssumption
  <2>2. Fds = a .. b
    BY DEF Fds
  <2>. HIDE DEF a, b
  <2>3. IsFiniteSet(a .. b) /\ Cardinality(a .. b) = IF a > b THEN 0 ELSE b - a + 1
    BY <2>1, FS_Interval
  <2>. QED
    BY <1>1, <2>1, <2>2, <2>3
<1>. QED
  BY <1>1, <1>2, BusAssumption DEF Ids, NotWatched, Fds

LEMMA IndexNumbers == \A i \in Ids : i \in Int /\ 0 <= i /\ i < MaxClients
BY Constants DEF Ids

\* A sequence written as a function on an interval.
LEMMA SeqOfFunction ==
  ASSUME NEW S, NEW n \in Nat, NEW f \in [1 .. n -> S]
  PROVE  f \in Seq(S) /\ Len(f) = n
<1>1. f \in Seq(S)
  BY SeqDef
<1>2. Len(f) \in Nat /\ DOMAIN f = 1 .. Len(f) /\ DOMAIN f = 1 .. n
  BY <1>1, LenProperties
<1>. QED
  BY <1>2, <1>1

\* A set of numbers that is not empty has a least one.
LEMMA Least ==
  ASSUME NEW S \in SUBSET Nat, S # {}
  PROVE  \E x \in S : \A y \in S : x <= y
<1>. DEFINE Upto == {0 .. x : x \in S}
<1>1. Upto \subseteq FiniteSubsetsOf(Nat) /\ Upto # {}
  <2>1. ASSUME NEW x \in S PROVE 0 .. x \in FiniteSubsetsOf(Nat)
    BY FS_Interval DEF FiniteSubsetsOf
  <2>. QED
    BY <2>1
<1>2. PICK U \in Upto : \A V \in Upto : <<V, U>> \notin StrictSubsetOrdering(Nat)
  <2>. HIDE DEF Upto
  <2>. QED
    BY <1>1, FS_StrictSubsetOrderingWellFounded, WFMin
<1>3. PICK x \in S : U = 0 .. x
  OBVIOUS
<1>4. ASSUME NEW y \in S, y < x PROVE FALSE
  <2>1. 0 .. y \subseteq 0 .. x /\ 0 .. y # 0 .. x
    BY <1>4
  <2>2. 0 .. y \in SUBSET Nat /\ 0 .. x \in SUBSET Nat
    OBVIOUS
  <2>3. <<0 .. y, 0 .. x>> \in StrictSubsetOrdering(Nat)
    BY <2>1, <2>2, Zenon DEF StrictSubsetOrdering
  <2>. QED
    BY <1>2, <1>3, <2>3
<1>. QED
  BY <1>4

\* The image of a finite set by a function.
LEMMA ImageSize ==
  ASSUME NEW S, IsFiniteSet(S), NEW f, NEW T, T = {f[x] : x \in S}
  PROVE  IsFiniteSet(T) /\ Cardinality(T) <= Cardinality(S)
<1>. DEFINE g == [x \in S |-> f[x]]
<1>1. g \in Surjection(S, T)
  BY DEF Surjection
<1>. HIDE DEF g
<1>. QED
  BY <1>1, FS_Surjection

\* There are as many descriptors as connections, so one without a descriptor
\* finds one that is free.
LEMMA FreeFdIsFree ==
  ASSUME TableTypes, NEW c \in Conns, fd[c] = 0
  PROVE  FreeFd \in Fds /\ \A d \in Conns : fd[d] # FreeFd
<1>. DEFINE T == {fd[d] : d \in Conns \ {c}}
            Free == {f \in Fds : \A d \in Conns : fd[d] # f}
<1>1. IsFiniteSet(T) /\ Cardinality(T) <= Cardinality(Conns) - 1
  <2>1. IsFiniteSet(Conns \ {c}) /\ Cardinality(Conns \ {c}) = Cardinality(Conns) - 1
    BY Constants, FS_RemoveElement
  <2>2. IsFiniteSet(T) /\ Cardinality(T) <= Cardinality(Conns \ {c})
    BY <2>1, ImageSize
  <2>. QED
    BY <2>1, <2>2
<1>2. Free # {}
  <2>1. SUFFICES ASSUME Free = {} PROVE FALSE
    OBVIOUS
  <2>2. Fds \subseteq T
    BY <2>1, Constants
  <2>. HIDE DEF T
  <2>3. Cardinality(Fds) <= Cardinality(T) /\ Cardinality(T) \in Nat
    BY <1>1, <2>2, FS_Subset, FS_CardinalityType
  <2>. QED
    BY <1>1, <2>3, Constants
<1>3. PICK f \in Free : \A g \in Free : f <= g
  <2>1. Free \in SUBSET Nat
    BY Constants
  <2>. HIDE DEF Free
  <2>. QED
    BY <1>2, <2>1, Least
<1>4. /\ f \in Fds /\ \A d \in Conns : fd[d] # f
      /\ \A g \in Fds : g < f => \E d \in Conns : fd[d] = g
  BY <1>3, Constants
<1>. QED
  BY <1>4 DEF FreeFd

-----------------------------------------------------------------------------
(* What depends only on the daemon *)

LEMMA TablesKept ==
  ASSUME TableTypes, Written, IndicesInStep, UNCHANGED <<tables, pc, batch, event>>
  PROVE  TableTypes' /\ Written' /\ IndicesInStep'
BY DEF TableTypes, Written, IndicesInStep, tables, Watched, Owners, Sender

LEMMA EventsKept ==
  ASSUME EventTypes, UNCHANGED <<dispatch, num_clients>>
  PROVE  EventTypes'
BY DEF EventTypes, dispatch

LEMMA DeliveryKept ==
  ASSUME DeliveryTypes, UNCHANGED delivery
  PROVE  DeliveryTypes'
BY DEF DeliveryTypes, delivery

LEMMA SubsKept ==
  ASSUME SubsFaithful, Entries, UNCHANGED <<subs, wants, fd, moved>>
  PROVE  SubsFaithful' /\ Entries'
BY DEF SubsFaithful, Entries, Wanting, find_sub

-----------------------------------------------------------------------------
(* The clients *)

\* A client connects, sends one message, or leaves.
LEMMA ClientEffect ==
  ASSUME NEW c \in Conns, Client(c)
  PROVE  /\ UNCHANGED <<program, tables, dispatch, delivery>>
         /\ \/ /\ peer[c] = "new" /\ peer' = [peer EXCEPT ![c] = "up"]
               /\ backlog' = Append(backlog, c) /\ UNCHANGED <<sent, toDaemon>>
            \/ /\ peer[c] = "up" /\ sent' = [sent EXCEPT ![c] = @ + 1]
               /\ \E m \in Requests : toDaemon' = [toDaemon EXCEPT ![c] = Append(@, m)]
               /\ UNCHANGED <<peer, backlog>>
            \/ /\ peer[c] = "up" /\ peer' = [peer EXCEPT ![c] = "gone"]
               /\ UNCHANGED <<sent, toDaemon, backlog>>
<1>1. CASE Connect(c)
  BY <1>1 DEF Connect
<1>2. ASSUME NEW M \in SUBSET Requests, Sends(c, M)
      PROVE  /\ UNCHANGED <<program, tables, dispatch, delivery>>
             /\ peer[c] = "up" /\ sent' = [sent EXCEPT ![c] = @ + 1]
             /\ \E m \in Requests : toDaemon' = [toDaemon EXCEPT ![c] = Append(@, m)]
             /\ UNCHANGED <<peer, backlog>>
  BY <1>2 DEF Sends
<1>3. CASE Leaves(c)
  BY <1>3 DEF Leaves
<1>4. /\ {PING} \subseteq Requests /\ {Pub(t) : t \in Topics} \subseteq Requests
      /\ {Sub(p) : p \in Patterns} \subseteq Requests
  BY DEF Requests
<1>5. \/ Connect(c) \/ Leaves(c)
      \/ \E M \in SUBSET Requests : Sends(c, M)
  <2>1. CASE Send(c)
    BY <2>1 DEF Send
  <2>2. CASE cmd_ping(c)
    BY <1>4, <2>2 DEF cmd_ping
  <2>3. CASE cmd_pub(c)
    BY <1>4, <2>3 DEF cmd_pub
  <2>4. CASE cmd_sub(c)
    BY <1>4, <2>4 DEF cmd_sub
  <2>. QED
    BY <2>1, <2>2, <2>3, <2>4 DEF Client, Leave
<1>. QED
  BY <1>1, <1>2, <1>3, <1>5

LEMMA ClientStep == ASSUME IInv, NEW c \in Conns, Client(c) PROVE IInv'
<1>1. /\ UNCHANGED <<program, tables, dispatch, delivery>>
      /\ \/ /\ peer[c] = "new" /\ peer' = [peer EXCEPT ![c] = "up"]
            /\ backlog' = Append(backlog, c) /\ UNCHANGED <<sent, toDaemon>>
         \/ /\ peer[c] = "up" /\ sent' = [sent EXCEPT ![c] = @ + 1]
            /\ \E m \in Requests : toDaemon' = [toDaemon EXCEPT ![c] = Append(@, m)]
            /\ UNCHANGED <<peer, backlog>>
         \/ /\ peer[c] = "up" /\ peer' = [peer EXCEPT ![c] = "gone"]
            /\ UNCHANGED <<sent, toDaemon, backlog>>
  BY ClientEffect
<1>2. TableTypes' /\ Written' /\ IndicesInStep' /\ EventTypes' /\ DeliveryTypes'
  BY <1>1, TablesKept, EventsKept, DeliveryKept DEF IInv, dispatch, tables
<1>3. SubsFaithful' /\ Entries'
  BY <1>1, SubsKept DEF IInv, delivery, tables
<1>4. NetworkTypes' /\ Connected' /\ Drained'
  <2>1. CASE /\ peer[c] = "new" /\ peer' = [peer EXCEPT ![c] = "up"]
             /\ backlog' = Append(backlog, c) /\ UNCHANGED <<sent, toDaemon>>
    <3>1. fd[c] = 0 /\ c \notin Range(backlog)
      BY <2>1 DEF IInv, Connected
    <3>2. NetworkTypes'
      BY <1>1, <2>1, AppendProperties DEF IInv, NetworkTypes
    <3>3. /\ Len(backlog) \in Nat /\ DOMAIN backlog = 1 .. Len(backlog)
          /\ DOMAIN backlog' = 1 .. Len(backlog) + 1
          /\ \A i \in DOMAIN backlog : backlog'[i] = backlog[i]
          /\ backlog'[Len(backlog) + 1] = c
      BY <2>1, AppendProperties, LenProperties DEF IInv, NetworkTypes
    <3>4. \A i \in DOMAIN backlog' : i \in DOMAIN backlog \/ i = Len(backlog) + 1
      BY <3>3
    <3>5. Range(backlog') \subseteq Range(backlog) \cup {c}
      BY <3>3, <3>4 DEF Range
    <3>6. \A i \in DOMAIN backlog : backlog[i] # c
      BY <3>1 DEF Range
    <3>7. \A i \in DOMAIN backlog' : fd[backlog'[i]] = 0
      BY <3>1, <3>3, <3>4 DEF IInv, Connected
    <3>8. \A i, j \in DOMAIN backlog' : backlog'[i] = backlog'[j] => i = j
      BY <3>3, <3>4, <3>6 DEF IInv, Connected
    <3>9. \A d \in Conns : peer'[d] = "new" => peer[d] = "new" /\ d # c
      BY <2>1 DEF IInv, NetworkTypes
    <3>10. Connected'
      BY <1>1, <3>5, <3>7, <3>8, <3>9 DEF IInv, Connected, tables, delivery
    <3>11. Drained'
      BY <1>1, <2>1 DEF IInv, Drained, dispatch, tables, Owners, Sender
    <3>. QED
      BY <3>2, <3>10, <3>11
  <2>2. CASE /\ peer[c] = "up" /\ sent' = [sent EXCEPT ![c] = @ + 1]
             /\ \E m \in Requests : toDaemon' = [toDaemon EXCEPT ![c] = Append(@, m)]
             /\ UNCHANGED <<peer, backlog>>
    <3>1. PICK m \in Requests : toDaemon' = [toDaemon EXCEPT ![c] = Append(@, m)]
      BY <2>2
    <3>2. toDaemon[c] \in Seq(Requests) /\ sent[c] \in Nat
      BY DEF IInv, NetworkTypes
    <3>3. Append(toDaemon[c], m) \in Seq(Requests)
          /\ Len(Append(toDaemon[c], m)) = Len(toDaemon[c]) + 1
      BY <3>2, AppendProperties
    <3>4. NetworkTypes'
      BY <1>1, <2>2, <3>1, <3>2, <3>3 DEF IInv, NetworkTypes
    <3>5. Connected'
      BY <1>1, <2>2 DEF IInv, Connected, tables, delivery
    <3>6. /\ sent'[c] = sent[c] + 1 /\ toDaemon'[c] = Append(toDaemon[c], m)
          /\ \A d \in Conns \ {c} : sent'[d] = sent[d] /\ toDaemon'[d] = toDaemon[d]
      BY <2>2, <3>1 DEF IInv, NetworkTypes
    <3>7. \A d \in Conns : Len(toDaemon'[d]) <= sent'[d]
      <4>1. Len(toDaemon[c]) \in Nat /\ Len(toDaemon[c]) <= sent[c]
        BY <3>2, LenProperties DEF IInv, Drained
      <4>. QED
        BY <3>2, <3>3, <3>6, <4>1 DEF IInv, Drained
    <3>8. ASSUME pc = "lines", event.hup, ~moved PROVE c \notin Owners
      <4>1. PICK d \in Watched : Of(event, d)
        BY <3>8 DEF IInv, EventsInStep, EventTypes
      <4>2. d \in Conns /\ peer[d] = "gone" /\ clients[event.data] = fd[d] /\ fd[d] # 0
        BY <3>8, <4>1 DEF IInv, IndicesInStep, Of, Watched
      <4>. QED
        BY <2>2, <4>2 DEF IInv, Connected, Owners, Sender
    <3>9. Drained'
      BY <1>1, <3>6, <3>7, <3>8 DEF IInv, Drained, dispatch, tables, Owners, Sender
    <3>. QED
      BY <3>4, <3>5, <3>9
  <2>3. CASE /\ peer[c] = "up" /\ peer' = [peer EXCEPT ![c] = "gone"]
             /\ UNCHANGED <<sent, toDaemon, backlog>>
    <3>1. NetworkTypes'
      BY <1>1, <2>3 DEF IInv, NetworkTypes
    <3>2. \A d \in Conns : peer'[d] = "new" => peer[d] = "new"
      BY <2>3 DEF IInv, NetworkTypes
    <3>3. Connected'
      BY <1>1, <2>3, <3>2 DEF IInv, Connected, tables, delivery
    <3>4. Drained'
      BY <1>1, <2>3 DEF IInv, Drained, dispatch, tables, Owners, Sender
    <3>. QED
      BY <3>1, <3>3, <3>4
  <2>. QED
    BY <1>1, <2>1, <2>2, <2>3
<1>5. ~moved' => EventsInStep'
  <2>1. \A d \in Conns : peer[d] = "gone" => peer'[d] = "gone"
    BY <1>1 DEF IInv, NetworkTypes
  <2>2. UNCHANGED <<reg, batch, event, pc, wants, moved>>
    BY <1>1 DEF tables, dispatch, delivery
  <2>3. \A e : \A d \in Conns : Of(e, d) => Of(e, d)'
    BY <2>1, <2>2 DEF Of
  <2>4. Watched' = Watched /\ Watched \subseteq Conns
    BY <2>2 DEF Watched
  <2>. QED
    BY <2>2, <2>3, <2>4 DEF IInv, EventsInStep
<1>. QED
  BY <1>2, <1>3, <1>4, <1>5 DEF IInv

-----------------------------------------------------------------------------
(* remove_client *)

\* What the call does to every connection, to the array and to the table of
\* subscriptions.
LEMMA RemoveEffect ==
  ASSUME TableTypes, DeliveryTypes, event.data \in Ids, remove_client(event.data)
  PROVE  /\ \A c \in Owners : fd'[c] = 0 /\ reg'[c] = NotWatched /\ wants'[c] = {}
         /\ \A c \in Conns \ Owners : /\ fd'[c] = fd[c] /\ reg'[c] = reg[c]
                                      /\ wants'[c] = wants[c]
         /\ \A i \in Ids : \/ clients'[i] = clients[i]
                           \/ /\ i + 1 \in Ids /\ i + 1 < num_clients
                              /\ clients'[i] = clients[i + 1]
         /\ event.data >= num_clients - 1 => clients' = clients
         /\ moved' = (moved \/ event.data < num_clients - 1)
         /\ num_clients' = num_clients - 1
         /\ subs' \in Seq([topic : Patterns, fds : SUBSET Fds]) /\ Len(subs') = Len(subs)
         /\ DOMAIN subs' = DOMAIN subs
         /\ \A i \in DOMAIN subs : /\ subs'[i].topic = subs[i].topic
                                   /\ subs'[i].fds = subs[i].fds \ {Sender}
<1>. DEFINE moves == event.data < num_clients - 1
<1>1. /\ subs' = [i \in DOMAIN subs |-> [subs[i] EXCEPT !.fds = @ \ {Sender}]]
      /\ fd' = [c \in Conns |-> IF c \in Owners THEN 0 ELSE fd[c]]
      /\ reg' = [c \in Conns |-> IF c \in Owners THEN NotWatched ELSE reg[c]]
      /\ clients' = [i \in Ids |-> IF moves /\ i \in event.data .. num_clients - 2
                                   THEN clients[i + 1] ELSE clients[i]]
      /\ moved' = (moved \/ moves)
      /\ num_clients' = num_clients - 1
      /\ wants' = [c \in Conns |-> IF c \in Owners THEN {} ELSE wants[c]]
  BY DEF remove_client, Owners, Sender
<1>2. Owners \subseteq Conns
  BY DEF Owners
<1>3. /\ \A c \in Owners : fd'[c] = 0 /\ reg'[c] = NotWatched /\ wants'[c] = {}
      /\ \A c \in Conns \ Owners : /\ fd'[c] = fd[c] /\ reg'[c] = reg[c]
                                   /\ wants'[c] = wants[c]
  BY <1>1, <1>2
<1>4. ASSUME NEW i \in Ids
      PROVE  \/ clients'[i] = clients[i]
             \/ /\ i + 1 \in Ids /\ i + 1 < num_clients
                /\ clients'[i] = clients[i + 1]
  <2>1. CASE moves /\ i \in event.data .. num_clients - 2
    <3>1. clients'[i] = clients[i + 1]
      BY <1>1, <2>1
    <3>2. i + 1 \in Ids /\ i + 1 < num_clients
      BY <2>1, Constants DEF TableTypes, Ids
    <3>. QED
      BY <3>1, <3>2
  <2>2. CASE ~(moves /\ i \in event.data .. num_clients - 2)
    BY <1>1, <2>2
  <2>. QED
    BY <2>1, <2>2
<1>5. event.data >= num_clients - 1 => clients' = clients
  <2>1. SUFFICES ASSUME event.data >= num_clients - 1 PROVE clients' = clients
    OBVIOUS
  <2>2. ~moves
    BY <2>1, IndexNumbers DEF TableTypes
  <2>3. clients' = [i \in Ids |-> clients[i]]
    BY <1>1, <2>2
  <2>. QED
    BY <2>3 DEF TableTypes
<1>6. \A i \in DOMAIN subs : subs[i] \in [topic : Patterns, fds : SUBSET Fds]
  BY ElementOfSeq, LenProperties DEF DeliveryTypes
<1>7. /\ DOMAIN subs' = DOMAIN subs
      /\ \A i \in DOMAIN subs : /\ subs'[i] \in [topic : Patterns, fds : SUBSET Fds]
                                /\ subs'[i].topic = subs[i].topic
                                /\ subs'[i].fds = subs[i].fds \ {Sender}
  BY <1>1, <1>6
<1>8. subs' \in Seq([topic : Patterns, fds : SUBSET Fds]) /\ Len(subs') = Len(subs)
  <2>1. Len(subs) \in Nat /\ DOMAIN subs = 1 .. Len(subs)
    BY LenProperties DEF DeliveryTypes
  <2>2. subs' \in [1 .. Len(subs) -> [topic : Patterns, fds : SUBSET Fds]]
    BY <1>1, <1>7, <2>1
  <2>. QED
    BY <2>1, <2>2, SeqOfFunction
<1>. QED
  BY <1>1, <1>3, <1>4, <1>5, <1>7, <1>8

\* While no entry has been moved, the event's client is the one connection with
\* the event's index, and the index is in use.
LEMMA EventClient ==
  ASSUME IInv, ~moved, pc # "wait", event.data # SrvFd
  PROVE  /\ event.data < num_clients
         /\ \E c \in Watched : /\ Owners = {c} /\ reg[c] = event.data
                               /\ fd[c] = Sender /\ Of(event, c)
<1>1. PICK c \in Watched : Of(event, c)
  BY DEF IInv, EventsInStep
<1>2. c \in Conns /\ reg[c] = event.data
  BY <1>1 DEF Watched, Of
<1>3. reg[c] < num_clients /\ clients[reg[c]] = fd[c] /\ fd[c] # 0
  BY <1>1 DEF IInv, IndicesInStep
<1>4. fd[c] = Sender
  BY <1>2, <1>3 DEF Sender
<1>5. Owners = {c}
  BY <1>2, <1>3, <1>4 DEF Owners, IInv, Connected
<1>. QED
  BY <1>1, <1>2, <1>3, <1>4, <1>5

LEMMA RemoveStep ==
  ASSUME IInv, pc # "wait", event.data # SrvFd, remove_client(event.data), EventDone,
         lines' = <<>>, UNCHANGED <<network, batch, inbox>>
  PROVE  IInv'
<1>1. event.data \in Ids /\ num_clients >= 0 /\ Sender # 0 /\ Sender = clients[event.data]
  BY DEF IInv, EventTypes, Written, Sender
<1>2. /\ \A c \in Owners : fd'[c] = 0 /\ reg'[c] = NotWatched /\ wants'[c] = {}
      /\ \A c \in Conns \ Owners : /\ fd'[c] = fd[c] /\ reg'[c] = reg[c]
                                   /\ wants'[c] = wants[c]
  BY <1>1, RemoveEffect DEF IInv
<1>3. /\ \A i \in Ids : \/ clients'[i] = clients[i]
                        \/ /\ i + 1 \in Ids /\ i + 1 < num_clients
                           /\ clients'[i] = clients[i + 1]
      /\ event.data >= num_clients - 1 => clients' = clients
      /\ moved' = (moved \/ event.data < num_clients - 1)
      /\ num_clients' = num_clients - 1
  BY <1>1, RemoveEffect DEF IInv
<1>4. /\ subs' \in Seq([topic : Patterns, fds : SUBSET Fds]) /\ Len(subs') = Len(subs)
      /\ DOMAIN subs' = DOMAIN subs
      /\ \A i \in DOMAIN subs : /\ subs'[i].topic = subs[i].topic
                                /\ subs'[i].fds = subs[i].fds \ {Sender}
  BY <1>1, RemoveEffect DEF IInv
<1>5. /\ fd' = [c \in Conns |-> IF c \in Owners THEN 0 ELSE fd[c]]
      /\ reg' = [c \in Conns |-> IF c \in Owners THEN NotWatched ELSE reg[c]]
      /\ wants' = [c \in Conns |-> IF c \in Owners THEN {} ELSE wants[c]]
      /\ DOMAIN clients' = Ids /\ clients' = [i \in Ids |-> clients'[i]]
  BY DEF remove_client, Owners, Sender
<1>6. Owners = {c \in Conns : fd[c] = Sender}
  BY DEF Owners
<1>7. pc' = "wait" /\ event' = NoEvent
  BY DEF EventDone
<1>8. ASSUME ~moved'
      PROVE  /\ ~moved /\ event.data = num_clients - 1 /\ clients' = clients
             /\ \E c \in Watched : Owners = {c} /\ reg[c] = event.data
  <2>1. ~moved /\ ~(event.data < num_clients - 1)
    BY <1>3, <1>8
  <2>2. event.data < num_clients /\ \E c \in Watched : Owners = {c} /\ reg[c] = event.data
    BY <2>1, EventClient
  <2>3. event.data \in Int /\ num_clients \in Int
    BY <1>1, IndexNumbers DEF IInv, TableTypes
  <2>4. event.data = num_clients - 1
    BY <2>1, <2>2, <2>3
  <2>. QED
    BY <1>3, <2>1, <2>2, <2>4
<1>9. NetworkTypes' /\ DeliveryTypes' /\ EventTypes' /\ Drained'
  <2>1. NetworkTypes'
    BY DEF IInv, NetworkTypes, network
  <2>2. wants' \in [Conns -> SUBSET Patterns]
    BY <1>5 DEF IInv, DeliveryTypes
  <2>3. DeliveryTypes'
    BY <1>4, <2>2 DEF IInv, DeliveryTypes
  <2>4. EventTypes'
    BY <1>7 DEF IInv, EventTypes, NoEvent
  <2>5. Drained'
    BY <1>7 DEF IInv, Drained, network
  <2>. QED
    BY <2>1, <2>3, <2>4, <2>5
<1>10. TableTypes'
  <2>1. fd' \in [Conns -> Fds \cup {0}] /\ reg' \in [Conns -> Ids \cup {NotWatched}]
    BY <1>5 DEF IInv, TableTypes
  <2>2. \A i \in Ids : clients'[i] \in Fds \cup {0}
    BY <1>3 DEF IInv, TableTypes
  <2>3. clients' \in [Ids -> Fds \cup {0}]
    BY <1>5, <2>2
  <2>4. num_clients \in Int /\ num_clients <= MaxClients /\ moved \in BOOLEAN
    BY DEF IInv, TableTypes
  <2>5. ~moved' => num_clients' >= 0
    BY <1>1, <1>3, <1>8, <2>4, Constants
  <2>6. num_clients' \in Int /\ num_clients' <= MaxClients /\ moved' \in BOOLEAN
    BY <1>3, <2>4, Constants
  <2>. QED
    BY <2>1, <2>3, <2>5, <2>6 DEF TableTypes
<1>11. Connected'
  <2>1. UNCHANGED <<peer, backlog>>
    BY DEF network
  <2>2. \A c \in Conns : fd[c] = 0 => fd'[c] = 0
    BY <1>2, <1>6
  <2>3. \A i \in DOMAIN backlog : backlog[i] \in Conns
    BY DEF IInv, NetworkTypes
  <2>4. \A c \in Conns : fd'[c] = 0 => reg'[c] = NotWatched /\ wants'[c] = {}
    BY <1>2 DEF IInv, Connected
  <2>5. \A c, d \in Conns : fd'[c] = fd'[d] /\ fd'[c] # 0 => c = d
    BY <1>2 DEF IInv, Connected
  <2>. QED
    BY <2>1, <2>2, <2>3, <2>4, <2>5 DEF IInv, Connected
<1>12. Written'
  <2>1. \A i \in Ids : clients[i] # 0 => clients'[i] # 0
    BY <1>3 DEF IInv, Written
  <2>2. \A i \in Ids : i < num_clients' => clients'[i] # 0
    <3>1. \A i \in Ids : i < num_clients' => i < num_clients
      BY <1>3, Constants DEF IInv, TableTypes
    <3>. QED
      BY <2>1, <3>1 DEF IInv, Written
  <2>3. \A c \in Watched' : c \in Watched /\ reg'[c] = reg[c] /\ reg[c] \in Ids
    BY <1>2 DEF Watched, IInv, TableTypes
  <2>4. \A c \in Watched' : clients'[reg'[c]] # 0
    BY <2>1, <2>3 DEF IInv, Written
  <2>5. \A e \in batch : e.data # SrvFd => clients'[e.data] # 0
    BY <2>1 DEF IInv, Written, EventTypes
  <2>. QED
    BY <1>7, <2>2, <2>4, <2>5 DEF Written
<1>13. IndicesInStep'
  <2>1. SUFFICES ASSUME ~moved'
                 PROVE  /\ \A c \in Watched' : /\ reg'[c] < num_clients'
                                               /\ clients'[reg'[c]] = fd'[c] /\ fd'[c] # 0
                        /\ \A i \in 0 .. num_clients' - 1 : \E c \in Watched' : reg'[c] = i
    BY DEF IndicesInStep
  <2>2. PICK w \in Watched : Owners = {w} /\ reg[w] = event.data
    BY <1>8, <2>1
  <2>3. ~moved /\ event.data = num_clients - 1 /\ clients' = clients
    BY <1>8, <2>1
  <2>4. Watched' = Watched \ {w}
    BY <1>2, <2>2 DEF Watched
  <2>5. \A c \in Watched \ {w} : fd'[c] = fd[c] /\ reg'[c] = reg[c] /\ reg[c] \in Ids
    BY <1>2, <2>2 DEF Watched, IInv, TableTypes
  <2>6. \A c \in Watched : reg[c] < num_clients /\ clients[reg[c]] = fd[c] /\ fd[c] # 0
    BY <2>3 DEF IInv, IndicesInStep
  <2>7. \A c \in Watched \ {w} : reg[c] # reg[w]
    BY <2>6 DEF Watched, IInv, Connected
  <2>8. ASSUME NEW c \in Watched'
        PROVE  reg'[c] < num_clients' /\ clients'[reg'[c]] = fd'[c] /\ fd'[c] # 0
    <3>1. c \in Watched \ {w} /\ reg[c] # event.data /\ reg[c] \in Int
      BY <2>2, <2>4, <2>5, <2>7, <2>8, IndexNumbers
    <3>2. reg'[c] < num_clients'
      BY <1>3, <2>3, <2>5, <2>6, <3>1 DEF IInv, TableTypes
    <3>. QED
      BY <2>3, <2>5, <2>6, <3>1, <3>2
  <2>9. ASSUME NEW i \in 0 .. num_clients' - 1 PROVE \E c \in Watched' : reg'[c] = i
    <3>1. num_clients \in Int
      BY DEF IInv, TableTypes
    <3>2. i \in 0 .. num_clients - 1 /\ i # event.data
      BY <1>3, <2>3, <3>1
    <3>3. PICK c \in Watched : reg[c] = i
      BY <2>3, <3>2 DEF IInv, IndicesInStep
    <3>. QED
      BY <2>2, <2>4, <2>5, <3>2, <3>3
  <2>. QED
    BY <2>8, <2>9
<1>14. SubsFaithful'
  <2>1. ASSUME NEW p PROVE Wanting(p)' = Wanting(p) \ {Sender}
    <3>1. ASSUME NEW c \in Conns
          PROVE  (fd'[c] # 0 /\ p \in wants'[c])
                   <=> (fd[c] # 0 /\ p \in wants[c] /\ fd[c] # Sender)
      BY <1>2, <1>6
    <3>2. \A c \in Conns : fd[c] # Sender => fd'[c] = fd[c]
      BY <1>2, <1>6
    <3>. QED
      BY <3>1, <3>2 DEF Wanting
  <2>2. ~moved' => ~moved
    BY <1>8
  <2>. QED
    BY <1>4, <2>1, <2>2 DEF IInv, SubsFaithful
<1>15. Entries'
  <2>1. \A c \in Conns : wants'[c] \subseteq wants[c]
    BY <1>2
  <2>2. \A p : find_sub(p)' = find_sub(p)
    BY <1>4 DEF find_sub
  <2>. QED
    BY <1>4, <2>1, <2>2 DEF IInv, Entries
<1>16. ASSUME ~moved' PROVE EventsInStep'
  <2>1. PICK w \in Watched : Owners = {w} /\ reg[w] = event.data
    BY <1>8, <1>16
  <2>2. EventsInStep
    BY <1>8, <1>16 DEF IInv
  <2>3. UNCHANGED <<peer, batch>>
    BY DEF network
  <2>4. Watched' = Watched \ {w} /\ Watched \subseteq Conns
    BY <1>2, <2>1 DEF Watched
  <2>5. ASSUME NEW e \in batch, e.data # SrvFd PROVE \E c \in Watched' : Of(e, c)'
    <3>1. PICK c \in Watched : Of(e, c)
      BY <2>2, <2>5 DEF EventsInStep
    <3>2. c # w
      BY <2>1, <2>2, <3>1 DEF EventsInStep, Of
    <3>. QED
      BY <1>2, <2>1, <2>3, <2>4, <3>1, <3>2 DEF Of
  <2>6. \A c \in Conns : wants'[c] # {} => c \in Watched'
    BY <1>2, <2>1, <2>2, <2>4 DEF EventsInStep
  <2>. QED
    BY <1>7, <2>2, <2>3, <2>5, <2>6 DEF EventsInStep
<1>. QED
  BY <1>9, <1>10, <1>11, <1>12, <1>13, <1>14, <1>15, <1>16 DEF IInv

-----------------------------------------------------------------------------
(* The event loop *)

LEMMA EpollWaitStep == ASSUME IInv, EpollWait PROVE IInv'
<1>1. /\ pc = "wait" /\ num_clients >= 0
      /\ UNCHANGED <<pc, event, lines, network, tables, delivery>>
      /\ \A e \in batch' :
            \/ \E c \in Watched : e = [of |-> c, data |-> reg[c], hup |-> peer[c] = "gone"]
            \/ e = [of |-> "listener", data |-> SrvFd, hup |-> FALSE]
  BY DEF EpollWait, Readable, Watched
<1>2. \A c \in Watched : c \in Conns /\ reg[c] \in Ids
  BY DEF Watched, IInv, TableTypes
<1>3. \A e \in batch' :
        \/ /\ e.data = SrvFd /\ e.hup = FALSE
        \/ \E c \in Watched : e.data = reg[c] /\ e.hup = (peer[c] = "gone")
  BY <1>1
<1>4. NetworkTypes' /\ TableTypes' /\ DeliveryTypes' /\ SubsFaithful' /\ Entries'
  BY <1>1, DeliveryKept, SubsKept DEF IInv, NetworkTypes, TableTypes, network, tables, delivery
<1>5. Connected' /\ Drained' /\ IndicesInStep'
  BY <1>1 DEF IInv, Connected, Drained, IndicesInStep, network, tables, delivery,
              Owners, Sender, Watched
<1>6. EventTypes'
  <2>1. \A e \in batch' : e.data \in Ids \cup {SrvFd} /\ e.hup \in BOOLEAN
    BY <1>2, <1>3
  <2>2. num_clients' = num_clients
    BY <1>1 DEF tables
  <2>. QED
    BY <1>1, <2>1, <2>2 DEF IInv, EventTypes
<1>7. Written'
  <2>1. UNCHANGED <<clients, reg, num_clients>>
    BY <1>1 DEF tables
  <2>2. \A e \in batch' : e.data # SrvFd => clients[e.data] # 0
    BY <1>3 DEF IInv, Written
  <2>. QED
    BY <1>1, <2>1, <2>2 DEF IInv, Written, Watched
<1>8. ASSUME ~moved' PROVE EventsInStep'
  <2>1. ~moved /\ UNCHANGED <<peer, reg, wants>>
    BY <1>1, <1>8 DEF tables, network, delivery
  <2>2. \A c, d \in Watched : reg[c] = reg[d] => c = d
    BY <1>2, <2>1 DEF IInv, IndicesInStep, Connected
  <2>3. \A e \in batch' : e.data # SrvFd => \E c \in Watched : Of(e, c)
    BY <1>3 DEF Of
  <2>4. \A e, f \in batch' : e.data = f.data /\ e.data # SrvFd => e = f
    <3>1. SUFFICES ASSUME NEW e \in batch', NEW f \in batch', e.data = f.data, e.data # SrvFd
                   PROVE  e = f
      OBVIOUS
    <3>2. PICK c \in Watched : e = [of |-> c, data |-> reg[c], hup |-> peer[c] = "gone"]
      BY <1>1, <3>1
    <3>3. PICK d \in Watched : f = [of |-> d, data |-> reg[d], hup |-> peer[d] = "gone"]
      BY <1>1, <3>1
    <3>4. c = d
      BY <2>2, <3>1, <3>2, <3>3
    <3>. QED
      BY <3>2, <3>3, <3>4
  <2>. QED
    BY <1>1, <2>1, <2>3, <2>4 DEF IInv, EventsInStep, Watched, Of
<1>. QED
  BY <1>4, <1>5, <1>6, <1>7, <1>8 DEF IInv

LEMMA NextEventStep == ASSUME IInv, NextEvent PROVE IInv'
<1>1. PICK e \in batch : event' = [data |-> e.data, hup |-> e.hup] /\ batch' = batch \ {e}
  BY DEF NextEvent
<1>2. /\ pc = "wait" /\ pc' = "event" /\ num_clients >= 0 /\ lines = <<>>
      /\ UNCHANGED <<lines, network, tables, delivery>>
  BY DEF NextEvent, IInv, EventTypes
<1>3. event'.data = e.data /\ event'.hup = e.hup
  BY <1>1
<1>4. NetworkTypes' /\ TableTypes' /\ DeliveryTypes' /\ SubsFaithful' /\ Entries'
  BY <1>2, DeliveryKept, SubsKept DEF IInv, NetworkTypes, TableTypes, network, tables, delivery
<1>5. Connected' /\ IndicesInStep' /\ Drained'
  BY <1>2 DEF IInv, Connected, IndicesInStep, Drained, network, tables, delivery, Watched
<1>6. EventTypes'
  <2>1. e.data \in Ids \cup {SrvFd} /\ e.hup \in BOOLEAN /\ num_clients' = num_clients
    BY <1>2 DEF IInv, EventTypes, tables
  <2>. QED
    BY <1>1, <1>2, <1>3, <2>1 DEF IInv, EventTypes
<1>7. Written'
  BY <1>1, <1>2, <1>3 DEF IInv, Written, tables, Watched
<1>8. ASSUME ~moved' PROVE EventsInStep'
  <2>1. EventsInStep /\ UNCHANGED <<peer, reg, wants>>
    BY <1>2, <1>8 DEF tables, network, delivery, IInv
  <2>2. e.data # SrvFd => \E c \in Watched : Of(e, c) /\ Of(event', c)
    BY <1>3, <2>1 DEF EventsInStep, Of
  <2>3. e.data # SrvFd => \A f \in batch' : f.data # event'.data
    BY <1>1, <1>3, <2>1 DEF EventsInStep
  <2>4. Watched' = Watched /\ \A c : Of(event, c)' = Of(event', c)
    BY <2>1 DEF Watched, Of
  <2>5. \A f \in batch' : f.data # SrvFd => \E c \in Watched : Of(f, c)'
    BY <1>1, <2>1 DEF EventsInStep, Of
  <2>6. \A f, g \in batch' : f.data = g.data /\ f.data # SrvFd => f = g
    BY <1>1, <2>1 DEF EventsInStep
  <2>7. \A c \in Conns : wants'[c] # {} => c \in Watched'
    BY <2>1, <2>4 DEF EventsInStep
  <2>. QED
    BY <1>3, <2>2, <2>3, <2>4, <2>5, <2>6, <2>7 DEF EventsInStep
<1>. QED
  BY <1>4, <1>5, <1>6, <1>7, <1>8 DEF IInv

LEMMA AcceptStep == ASSUME IInv, Accept PROVE IInv'
<1>. DEFINE c == Head(backlog)
<1>1. /\ pc = "event" /\ backlog # <<>> /\ fd' = [fd EXCEPT ![c] = FreeFd]
      /\ backlog' = Tail(backlog) /\ pc' = "wait" /\ event' = NoEvent
      /\ UNCHANGED <<program, peer, sent, toDaemon, batch, lines, moved, delivery>>
  BY DEF Accept, EventDone
<1>2. \/ /\ num_clients < MaxClients
         /\ reg' = [reg EXCEPT ![c] = num_clients]
         /\ clients' = [clients EXCEPT ![num_clients] = FreeFd]
         /\ num_clients' = num_clients + 1
      \/ UNCHANGED <<reg, clients, num_clients>>
  BY DEF Accept
<1>3. /\ c \in Conns /\ backlog' \in Seq(Conns) /\ c = backlog[1]
      /\ Len(backlog) \in Nat /\ DOMAIN backlog = 1 .. Len(backlog) /\ 1 \in DOMAIN backlog
      /\ DOMAIN backlog' = 1 .. Len(backlog) - 1
      /\ \A i \in DOMAIN backlog' : i + 1 \in DOMAIN backlog /\ backlog'[i] = backlog[i + 1]
  <2>1. backlog \in Seq(Conns) /\ Len(backlog) \in Nat \ {0}
    BY <1>1, EmptySeq DEF IInv, NetworkTypes
  <2>2. /\ c \in Conns /\ backlog' \in Seq(Conns) /\ Len(backlog') = Len(backlog) - 1
        /\ \A i \in 1 .. Len(backlog') : backlog'[i] = backlog[i + 1]
    BY <1>1, <2>1, HeadTailProperties
  <2>3. DOMAIN backlog = 1 .. Len(backlog) /\ DOMAIN backlog' = 1 .. Len(backlog')
    BY <2>1, <2>2, LenProperties
  <2>4. c = backlog[1]
    BY <2>1
  <2>. QED
    BY <2>1, <2>2, <2>3, <2>4
<1>4. fd[c] = 0 /\ peer[c] # "new" /\ reg[c] = NotWatched /\ wants[c] = {}
  BY <1>3 DEF IInv, Connected, Range
<1>5. FreeFd \in Fds /\ FreeFd # 0 /\ \A d \in Conns : fd[d] # FreeFd
  BY <1>3, <1>4, FreeFdIsFree, Constants DEF IInv
<1>6. num_clients \in Int /\ num_clients >= 0 /\ (num_clients < MaxClients => num_clients \in Ids)
  BY <1>1, Constants DEF IInv, TableTypes, EventTypes, Ids
<1>. HIDE DEF c
<1>7. fd'[c] = FreeFd /\ \A d \in Conns \ {c} : fd'[d] = fd[d]
  BY <1>1, <1>3 DEF IInv, TableTypes
<1>8. NetworkTypes' /\ DeliveryTypes' /\ Drained'
  BY <1>1, <1>3, DeliveryKept DEF IInv, NetworkTypes, Drained
<1>9. TableTypes'
  <2>1. fd' \in [Conns -> Fds \cup {0}]
    BY <1>1, <1>5 DEF IInv, TableTypes
  <2>2. CASE /\ num_clients < MaxClients
             /\ reg' = [reg EXCEPT ![c] = num_clients]
             /\ clients' = [clients EXCEPT ![num_clients] = FreeFd]
             /\ num_clients' = num_clients + 1
    <3>1. reg' \in [Conns -> Ids \cup {NotWatched}] /\ clients' \in [Ids -> Fds \cup {0}]
      BY <1>5, <1>6, <2>2 DEF IInv, TableTypes
    <3>2. /\ num_clients' \in Int /\ num_clients' <= MaxClients /\ num_clients' >= 0
          /\ moved' \in BOOLEAN
      BY <1>1, <1>6, <2>2, Constants DEF IInv, TableTypes
    <3>. QED
      BY <2>1, <3>1, <3>2 DEF TableTypes
  <2>3. CASE UNCHANGED <<reg, clients, num_clients>>
    BY <1>1, <2>1, <2>3 DEF IInv, TableTypes
  <2>. QED
    BY <1>2, <2>2, <2>3
<1>10. EventTypes'
  BY <1>1 DEF IInv, EventTypes, NoEvent
<1>11. Connected'
  <2>1. UNCHANGED <<peer, wants>>
    BY <1>1 DEF delivery
  <2>2. \A i \in DOMAIN backlog' : backlog'[i] \in Conns \ {c} /\ fd[backlog'[i]] = 0
    <3>1. SUFFICES ASSUME NEW i \in DOMAIN backlog'
                   PROVE  backlog'[i] \in Conns \ {c} /\ fd[backlog'[i]] = 0
      OBVIOUS
    <3>2. i + 1 \in DOMAIN backlog /\ i + 1 # 1 /\ backlog'[i] = backlog[i + 1]
      BY <1>3
    <3>3. backlog[i + 1] \in Conns
      BY <1>3, <3>2 DEF IInv, NetworkTypes
    <3>. QED
      BY <1>3, <3>2, <3>3 DEF IInv, Connected
  <2>3. \A i \in DOMAIN backlog' : fd'[backlog'[i]] = 0
    BY <1>7, <2>2
  <2>4. Range(backlog') \subseteq Range(backlog)
    BY <1>3 DEF Range
  <2>5. \A i, j \in DOMAIN backlog' : backlog'[i] = backlog'[j] => i = j
    <3>1. SUFFICES ASSUME NEW i \in DOMAIN backlog', NEW j \in DOMAIN backlog',
                          backlog'[i] = backlog'[j]
                   PROVE  i = j
      OBVIOUS
    <3>2. i + 1 = j + 1 /\ i \in Int /\ j \in Int
      BY <1>3, <3>1 DEF IInv, Connected
    <3>. QED
      BY <3>2
  <2>6. \A d \in Conns \ {c} : reg'[d] = reg[d]
    BY <1>2, <1>3 DEF IInv, TableTypes
  <2>7. \A d \in Conns : peer'[d] = "new" => fd'[d] = 0 /\ d \notin Range(backlog')
    BY <1>4, <1>7, <2>1, <2>4 DEF IInv, Connected
  <2>8. \A d \in Conns : fd'[d] = 0 => reg'[d] = NotWatched /\ wants'[d] = {}
    BY <1>5, <1>7, <2>1, <2>6 DEF IInv, Connected
  <2>9. \A d, e \in Conns : fd'[d] = fd'[e] /\ fd'[d] # 0 => d = e
    BY <1>5, <1>7 DEF IInv, Connected
  <2>. QED
    BY <2>3, <2>5, <2>7, <2>8, <2>9 DEF Connected
<1>12. SubsFaithful' /\ Entries'
  <2>1. UNCHANGED <<subs, wants, moved>>
    BY <1>1 DEF delivery
  <2>2. ASSUME NEW p PROVE Wanting(p)' = Wanting(p)
    <3>1. \A d \in Conns : p \in wants[d] => d # c /\ fd'[d] = fd[d]
      BY <1>4, <1>7
    <3>. QED
      BY <2>1, <3>1 DEF Wanting
  <2>. QED
    BY <2>1, <2>2 DEF IInv, SubsFaithful, Entries, find_sub
<1>13. Written' /\ IndicesInStep' /\ (~moved' => EventsInStep')
  <2>1. \A e : \A d \in Conns \ {c} : Of(e, d)' = Of(e, d)
    BY <1>1, <1>2, <1>3 DEF Of, IInv, TableTypes
  <2>2. CASE /\ num_clients < MaxClients
             /\ reg' = [reg EXCEPT ![c] = num_clients]
             /\ clients' = [clients EXCEPT ![num_clients] = FreeFd]
             /\ num_clients' = num_clients + 1
    <3>1. /\ reg'[c] = num_clients /\ num_clients \in Ids
          /\ \A d \in Conns \ {c} : reg'[d] = reg[d]
      BY <1>3, <1>6, <2>2 DEF IInv, TableTypes
    <3>2. /\ clients'[num_clients] = FreeFd
          /\ \A i \in Ids \ {num_clients} : clients'[i] = clients[i]
      BY <1>6, <2>2 DEF IInv, TableTypes
    <3>3. Watched' = Watched \cup {c} /\ c \notin Watched /\ Watched \subseteq Conns
      BY <1>3, <1>4, <3>1, Constants DEF Watched
    <3>4. \A d \in Watched : reg[d] \in Ids
      BY DEF Watched, IInv, TableTypes
    <3>5. \A i \in Ids : clients[i] # 0 => clients'[i] # 0
      BY <1>5, <3>2
    <3>6. Written'
      <4>1. \A i \in Ids : i < num_clients' => clients'[i] # 0
        BY <1>5, <1>6, <2>2, <3>2, IndexNumbers DEF IInv, Written
      <4>2. \A d \in Watched' : clients'[reg'[d]] # 0
        BY <1>5, <3>1, <3>2, <3>3, <3>4, <3>5 DEF IInv, Written
      <4>3. \A e \in batch : e.data # SrvFd => clients'[e.data] # 0
        BY <3>5 DEF IInv, Written, EventTypes
      <4>. QED
        BY <1>1, <4>1, <4>2, <4>3 DEF Written
    <3>7. ASSUME ~moved PROVE IndicesInStep'
      <4>1. ASSUME NEW d \in Watched'
            PROVE  reg'[d] < num_clients' /\ clients'[reg'[d]] = fd'[d] /\ fd'[d] # 0
        <5>1. CASE d = c
          BY <1>5, <1>6, <1>7, <2>2, <3>1, <3>2, <5>1
        <5>2. CASE d # c
          <6>1. d \in Watched /\ reg[d] < num_clients /\ clients[reg[d]] = fd[d] /\ fd[d] # 0
            BY <3>3, <3>7, <5>2 DEF IInv, IndicesInStep
          <6>2. reg[d] \in Int /\ reg[d] \in Ids
            BY <3>4, <6>1, IndexNumbers
          <6>. QED
            BY <1>6, <1>7, <2>2, <3>1, <3>2, <3>3, <6>1, <6>2
        <5>. QED
          BY <5>1, <5>2
      <4>2. ASSUME NEW i \in 0 .. num_clients' - 1 PROVE \E d \in Watched' : reg'[d] = i
        <5>1. CASE i = num_clients
          BY <3>1, <3>3, <5>1
        <5>2. CASE i # num_clients
          <6>1. i \in 0 .. num_clients - 1
            BY <1>6, <2>2, <5>2
          <6>2. PICK d \in Watched : reg[d] = i
            BY <3>7, <6>1 DEF IInv, IndicesInStep
          <6>. QED
            BY <3>1, <3>3, <6>2
        <5>. QED
          BY <5>1, <5>2
      <4>. QED
        BY <4>1, <4>2 DEF IndicesInStep
    <3>8. ASSUME ~moved PROVE EventsInStep'
      <4>1. \A e \in batch' : e.data # SrvFd => \E d \in Watched' : Of(e, d)'
        BY <1>1, <2>1, <3>3, <3>8 DEF IInv, EventsInStep
      <4>2. \A d \in Conns : wants'[d] # {} => d \in Watched'
        BY <1>1, <3>3, <3>8 DEF IInv, EventsInStep, delivery
      <4>. QED
        BY <1>1, <3>8, <4>1, <4>2 DEF IInv, EventsInStep
    <3>. QED
      BY <1>1, <3>6, <3>7, <3>8 DEF IndicesInStep
  <2>3. CASE UNCHANGED <<reg, clients, num_clients>>
    <3>1. Watched' = Watched /\ c \notin Watched /\ Watched \subseteq Conns
      BY <1>4, <2>3 DEF Watched
    <3>2. Written'
      BY <1>1, <2>3, <3>1 DEF IInv, Written
    <3>3. IndicesInStep'
      BY <1>1, <1>7, <2>3, <3>1 DEF IInv, IndicesInStep
    <3>4. ASSUME ~moved PROVE EventsInStep'
      <4>1. \A e \in batch' : e.data # SrvFd => \E d \in Watched' : Of(e, d)'
        BY <1>1, <2>1, <3>1, <3>4 DEF IInv, EventsInStep
      <4>. QED
        BY <1>1, <3>1, <3>4, <4>1 DEF IInv, EventsInStep, delivery
    <3>. QED
      BY <1>1, <3>2, <3>3, <3>4
  <2>. QED
    BY <1>2, <2>2, <2>3
<1>. QED
  BY <1>8, <1>9, <1>10, <1>11, <1>12, <1>13 DEF IInv

\* A call of recv takes a prefix of what is there, and all of it when it fits.
LEMMA RecvEffect ==
  ASSUME IInv, RecvData
  PROVE  \E c \in Owners :
           /\ lines' \in Seq(Requests)
           /\ toDaemon' = [toDaemon EXCEPT ![c] = toDaemon'[c]]
           /\ toDaemon'[c] \in Seq(Requests) /\ Len(toDaemon'[c]) <= Len(toDaemon[c])
           /\ Len(toDaemon[c]) <= RecvLines => toDaemon'[c] = <<>>
<1>1. PICK c \in Sources, n \in Nat :
        /\ n = (IF Len(toDaemon[c]) <= RecvLines THEN Len(toDaemon[c]) ELSE RecvLines)
        /\ lines' = SubSeq(toDaemon[c], 1, n)
        /\ toDaemon' = [toDaemon EXCEPT ![c] = SubSeq(@, n + 1, Len(@))]
  <2>1. PICK c \in Sources :
          \E n \in {IF Len(toDaemon[c]) <= RecvLines THEN Len(toDaemon[c]) ELSE RecvLines} :
            /\ lines' = SubSeq(toDaemon[c], 1, n)
            /\ toDaemon' = [toDaemon EXCEPT ![c] = SubSeq(@, n + 1, Len(@))]
    BY DEF RecvData
  <2>2. Len(toDaemon[c]) \in Nat
    BY LenProperties DEF Sources, IInv, NetworkTypes
  <2>. QED
    BY <2>1, <2>2, Constants
<1>. DEFINE s == toDaemon[c]
<1>2. c \in Conns /\ c \in Owners /\ s \in Seq(Requests)
  BY <1>1 DEF Sources, Owners, Sender, IInv, NetworkTypes
<1>3. Len(s) \in Nat /\ DOMAIN s = 1 .. Len(s) /\ \A i \in 1 .. Len(s) : s[i] \in Requests
  BY <1>2, LenProperties, ElementOfSeq
<1>4. n <= Len(s) /\ (Len(s) <= RecvLines => n = Len(s))
  BY <1>1, <1>3, Constants
<1>. DEFINE len == Len(s)
<1>5. toDaemon'[c] = SubSeq(s, n + 1, Len(s))
  BY <1>1, <1>2 DEF IInv, NetworkTypes
<1>. HIDE DEF s
<1>6. lines' \in Seq(Requests)
  <2>1. ASSUME NEW i \in 1 .. n PROVE s[i] \in Requests
    <3>1. len \in Nat /\ n <= len
      BY <1>3, <1>4
    <3>. HIDE DEF len
    <3>2. i \in 1 .. len
      BY <3>1
    <3>3. i \in 1 .. Len(s)
      BY <3>2 DEF len
    <3>. QED
      BY <1>3, <3>3
  <2>2. SubSeq(s, 1, n) \in Seq(Requests)
    BY <2>1, SubSeqProperties
  <2>. QED
    BY <1>1, <2>2 DEF s
<1>7. toDaemon'[c] \in Seq(Requests) /\ Len(toDaemon'[c]) <= Len(s)
  <2>1. n + 1 \in Int /\ Len(s) \in Int /\ \A i \in n + 1 .. Len(s) : s[i] \in Requests
    BY <1>3
  <2>2. /\ SubSeq(s, n + 1, Len(s)) \in Seq(Requests)
        /\ Len(SubSeq(s, n + 1, Len(s)))
             = IF n + 1 <= Len(s) THEN Len(s) - (n + 1) + 1 ELSE 0
    BY <2>1, SubSeqProperties
  <2>. QED
    BY <1>3, <1>5, <2>2
<1>8. Len(s) <= RecvLines => toDaemon'[c] = <<>>
  <2>1. SUFFICES ASSUME n = Len(s) PROVE SubSeq(s, n + 1, Len(s)) = <<>>
    BY <1>4, <1>5
  <2>2. n + 1 \in Int /\ Len(s) \in Int /\ Len(s) < n + 1
    BY <1>3, <2>1
  <2>. QED
    BY <2>2, SubSeqEmpty
<1>9. toDaemon' = [toDaemon EXCEPT ![c] = toDaemon'[c]]
  BY <1>1, <1>5 DEF s
<1>. QED
  BY <1>2, <1>6, <1>7, <1>8, <1>9 DEF s

LEMMA RecvDataStep == ASSUME IInv, RecvData PROVE IInv'
<1>1. /\ pc = "event" /\ event.data # SrvFd /\ pc' = "lines"
      /\ UNCHANGED <<program, peer, sent, backlog, tables, batch, event, delivery>>
  BY DEF RecvData, ClientEvent
<1>2. PICK c \in Owners :
        /\ lines' \in Seq(Requests)
        /\ toDaemon' = [toDaemon EXCEPT ![c] = toDaemon'[c]]
        /\ toDaemon'[c] \in Seq(Requests) /\ Len(toDaemon'[c]) <= Len(toDaemon[c])
        /\ Len(toDaemon[c]) <= RecvLines => toDaemon'[c] = <<>>
  BY RecvEffect
<1>3. c \in Conns /\ fd[c] = Sender /\ Sender = clients[event.data] /\ Sender # 0
  BY <1>1 DEF Owners, Sender, IInv, Written
<1>4. Owners = {c} /\ Owners' = Owners
  BY <1>1, <1>3 DEF Owners, IInv, Connected, Sender, tables
<1>5. NetworkTypes' /\ TableTypes' /\ DeliveryTypes' /\ SubsFaithful' /\ Entries'
  <2>1. NetworkTypes'
    BY <1>1, <1>2 DEF IInv, NetworkTypes
  <2>2. TableTypes' /\ DeliveryTypes' /\ SubsFaithful' /\ Entries'
    BY <1>1, DeliveryKept, SubsKept DEF IInv, TableTypes, tables, delivery
  <2>. QED
    BY <2>1, <2>2
<1>6. Connected' /\ IndicesInStep'
  BY <1>1 DEF IInv, Connected, IndicesInStep, tables, delivery, Watched
<1>7. EventTypes' /\ Written'
  <2>1. UNCHANGED <<num_clients, clients, reg>>
    BY <1>1 DEF tables
  <2>2. EventTypes'
    BY <1>1, <1>2, <2>1 DEF IInv, EventTypes
  <2>3. Written'
    BY <1>1, <1>4, <2>1 DEF IInv, Written, Watched
  <2>. QED
    BY <2>2, <2>3
<1>8. Drained'
  <2>1. \A d \in Conns \ {c} : toDaemon'[d] = toDaemon[d]
    BY <1>2 DEF IInv, NetworkTypes
  <2>2. /\ sent[c] \in Int /\ Len(toDaemon[c]) \in Int /\ Len(toDaemon'[c]) \in Int
        /\ Len(toDaemon[c]) <= sent[c]
    BY <1>2, <1>3, LenProperties DEF IInv, NetworkTypes, Drained
  <2>3. \A d \in Conns : Len(toDaemon'[d]) <= sent'[d]
    BY <1>1, <1>2, <2>1, <2>2 DEF IInv, Drained
  <2>4. sent[c] <= RecvLines => toDaemon'[c] = <<>>
    BY <1>2, <2>2, Constants
  <2>. QED
    BY <1>1, <1>4, <2>3, <2>4 DEF Drained
<1>9. ~moved' => EventsInStep'
  BY <1>1 DEF IInv, EventsInStep, tables, delivery, Watched, Of
<1>. QED
  BY <1>5, <1>6, <1>7, <1>8, <1>9 DEF IInv

LEMMA RecvEndStep == ASSUME IInv, RecvEnd PROVE IInv'
<1>1. pc # "wait" /\ event.data # SrvFd /\ remove_client(event.data) /\ EventDone
  BY DEF RecvEnd, ClientEvent
<1>2. lines' = <<>> /\ UNCHANGED <<network, batch, inbox>>
  BY DEF RecvEnd, ClientEvent, IInv, EventTypes
<1>. QED
  BY <1>1, <1>2, RemoveStep

LEMMA LinesDoneStep == ASSUME IInv, LinesDone PROVE IInv'
<1>1. /\ pc = "lines" /\ lines' = <<>> /\ EventDone /\ event.data # SrvFd
      /\ UNCHANGED <<network, batch, inbox>>
  BY DEF LinesDone, IInv, EventTypes
<1>2. CASE remove_client(event.data)
  BY <1>1, <1>2, RemoveStep
<1>3. CASE UNCHANGED <<tables, subs, wants>>
  <2>1. pc' = "wait" /\ event' = NoEvent
    BY <1>1 DEF EventDone
  <2>2. NetworkTypes' /\ TableTypes' /\ DeliveryTypes' /\ SubsFaithful' /\ Entries'
    BY <1>1, <1>3, DeliveryKept, SubsKept DEF IInv, NetworkTypes, TableTypes, network,
       tables, delivery
  <2>3. Connected' /\ IndicesInStep' /\ Drained'
    BY <1>1, <1>3, <2>1 DEF IInv, Connected, IndicesInStep, Drained, network, tables, Watched
  <2>4. EventTypes'
    BY <1>1, <2>1 DEF IInv, EventTypes, NoEvent
  <2>5. Written'
    BY <1>1, <1>3, <2>1 DEF IInv, Written, tables, Watched
  <2>6. ~moved' => EventsInStep'
    BY <1>1, <1>3, <2>1 DEF IInv, EventsInStep, network, tables, Watched, Of
  <2>. QED
    BY <2>2, <2>3, <2>4, <2>5, <2>6 DEF IInv
<1>. QED
  BY <1>2, <1>3 DEF LinesDone

-----------------------------------------------------------------------------
(* handle_line *)

LEMMA RequestKinds ==
  /\ \A m \in Requests : m.kind \in {"PUB", "SUB", "UNSUB", "PING"}
  /\ \A m \in Requests : m.kind = "PUB" => m.topic \in Topics /\ Pub(m.topic) \in Requests
  /\ \A m \in Requests : m.kind \in {"SUB", "UNSUB"} => m.topic \in Patterns
BY DEF Requests, Pub, Sub, Unsub, PING

\* A line that is handled changes the subscriptions and wishes of its sender only.
LEMMA LineKeeps ==
  ASSUME IInv, NEW kind, Line(kind),
         \A c \in Conns \ Owners : wants'[c] = wants[c]
  PROVE  /\ Head(lines) \in Requests /\ Head(lines).kind = kind
         /\ NetworkTypes' /\ TableTypes' /\ EventTypes' /\ Connected' /\ Written'
         /\ IndicesInStep' /\ Drained' /\ (~moved' => EventsInStep')
         /\ Owners # {} /\ Sender # 0 /\ Owners = {c \in Conns : fd[c] = Sender}
         /\ UNCHANGED <<fd, peer, moved>>
<1>1. /\ pc = "lines" /\ lines # <<>> /\ lines' = Tail(lines)
      /\ UNCHANGED <<network, tables, pc, batch, event>> /\ Head(lines).kind = kind
  BY DEF Line
<1>2. Head(lines) \in Requests /\ lines' \in Seq(Requests)
  BY <1>1, HeadTailProperties DEF IInv, EventTypes
<1>3. Owners # {} /\ Sender # 0 /\ Owners = {c \in Conns : fd[c] = Sender}
  BY <1>1 DEF IInv, Written, EventTypes, Owners, Sender
<1>4. NetworkTypes' /\ TableTypes' /\ Written' /\ IndicesInStep'
  BY <1>1, TablesKept DEF IInv, NetworkTypes, network
<1>5. EventTypes'
  BY <1>1, <1>2 DEF IInv, EventTypes, tables
<1>6. Connected'
  BY <1>1, <1>3 DEF IInv, Connected, network, tables
<1>7. Drained'
  BY <1>1 DEF IInv, Drained, network, tables, Owners, Sender
<1>8. ASSUME ~moved' PROVE EventsInStep'
  <2>1. ~moved /\ UNCHANGED <<peer, reg>>
    BY <1>1, <1>8 DEF network, tables
  <2>2. \A c \in Owners : c \in Watched
    BY <1>1, <2>1, EventClient DEF IInv, EventTypes
  <2>. QED
    BY <1>1, <2>1, <2>2 DEF IInv, EventsInStep, Watched, Of
<1>. QED
  BY <1>1, <1>2, <1>3, <1>4, <1>5, <1>6, <1>7, <1>8 DEF network, tables

\* A publication is delivered to a connection as many times as entries match.
LEMMA Copies ==
  ASSUME IInv, NEW c \in Conns, NEW t \in Topics
  PROVE  LET n == Cardinality(Matching(fd[c], t)) IN
         /\ n \in Nat /\ (n = 0 <=> Matching(fd[c], t) = {})
         /\ inbox[c] \o [i \in 1 .. n |-> Pub(t)] \in Seq(Requests \cup {PONG})
         /\ inbox[c] \o [i \in 1 .. n |-> Pub(t)] = inbox[c] <=> n = 0
<1>. DEFINE n == Cardinality(Matching(fd[c], t))
            copies == [i \in 1 .. n |-> Pub(t)]
<1>1. IsFiniteSet(Matching(fd[c], t))
  <2>1. DOMAIN subs = 1 .. Len(subs) /\ Len(subs) \in Nat
    BY LenProperties DEF IInv, DeliveryTypes
  <2>2. IsFiniteSet(DOMAIN subs)
    BY <2>1, FS_Interval
  <2>. QED
    BY <2>2, FS_Subset DEF Matching
<1>2. n \in Nat /\ (n = 0 <=> Matching(fd[c], t) = {})
  BY <1>1, FS_CardinalityType, FS_EmptySet
<1>. HIDE DEF n
<1>3. Pub(t) \in Requests \cup {PONG}
  BY DEF Requests
<1>4. copies \in Seq(Requests \cup {PONG}) /\ Len(copies) = n
  <2>1. copies \in [1 .. n -> Requests \cup {PONG}]
    BY <1>3
  <2>. HIDE DEF copies
  <2>. QED
    BY <1>2, <2>1, SeqOfFunction
<1>. HIDE DEF copies
<1>5. inbox[c] \in Seq(Requests \cup {PONG}) /\ Len(inbox[c]) \in Nat
  BY LenProperties DEF IInv, DeliveryTypes
<1>6. /\ inbox[c] \o copies \in Seq(Requests \cup {PONG})
      /\ Len(inbox[c] \o copies) = Len(inbox[c]) + n
  BY <1>4, <1>5, ConcatProperties
<1>7. n = 0 => inbox[c] \o copies = inbox[c]
  <2>1. n = 0 => copies = <<>>
    BY <1>4, EmptySeq
  <2>. QED
    BY <1>5, <2>1, ConcatEmptySeq
<1>. QED
  BY <1>2, <1>5, <1>6, <1>7 DEF n, copies

LEMMA HandlePubStep == ASSUME IInv, HandlePub PROVE IInv'
<1>1. Line("PUB") /\ publish(Head(lines).topic) /\ UNCHANGED <<subs, wants>>
  BY DEF HandlePub
<1>. DEFINE t == Head(lines).topic
<1>2. /\ Head(lines) \in Requests /\ Head(lines).kind = "PUB"
      /\ NetworkTypes' /\ TableTypes' /\ EventTypes' /\ Connected' /\ Written'
      /\ IndicesInStep' /\ Drained' /\ (~moved' => EventsInStep')
      /\ UNCHANGED <<fd, moved>>
  BY <1>1, LineKeeps
<1>3. t \in Topics
  BY <1>2, RequestKinds
<1>. HIDE DEF t
<1>4. inbox' \in [Conns -> Seq(Requests \cup {PONG})]
  <2>1. inbox' = [c \in Conns |->
                   IF peer[c] = "up" /\ fd[c] \notin {0, Sender}
                   THEN inbox[c] \o [i \in 1 .. Cardinality(Matching(fd[c], t)) |-> Pub(t)]
                   ELSE inbox[c]]
    BY <1>1 DEF publish, t
  <2>2. \A c \in Conns :
          /\ inbox[c] \in Seq(Requests \cup {PONG})
          /\ inbox[c] \o [i \in 1 .. Cardinality(Matching(fd[c], t)) |-> Pub(t)]
               \in Seq(Requests \cup {PONG})
    BY <1>3, Copies DEF IInv, DeliveryTypes
  <2>. QED
    BY <2>1, <2>2
<1>5. DeliveryTypes'
  BY <1>1, <1>4 DEF IInv, DeliveryTypes
<1>. QED
  BY <1>1, <1>2, <1>5, SubsKept DEF IInv

LEMMA HandlePingStep == ASSUME IInv, HandlePing PROVE IInv'
<1>1. Line("PING") /\ UNCHANGED <<subs, wants>>
  BY DEF HandlePing
<1>2. /\ NetworkTypes' /\ TableTypes' /\ EventTypes' /\ Connected' /\ Written'
      /\ IndicesInStep' /\ Drained' /\ (~moved' => EventsInStep')
      /\ UNCHANGED <<fd, moved>>
  BY <1>1, LineKeeps
<1>3. inbox' \in [Conns -> Seq(Requests \cup {PONG})]
  <2>1. \A c \in Conns : /\ inbox[c] \in Seq(Requests \cup {PONG})
                         /\ Append(inbox[c], PONG) \in Seq(Requests \cup {PONG})
    BY AppendProperties DEF IInv, DeliveryTypes
  <2>. QED
    BY <2>1 DEF HandlePing
<1>4. DeliveryTypes'
  BY <1>1, <1>3 DEF IInv, DeliveryTypes
<1>. QED
  BY <1>1, <1>2, <1>4, SubsKept DEF IInv

\* While no entry has been moved, a full set of subscribers of a topic is the set
\* of all clients, and the sender is among them.
LEMMA FullSetHasSender ==
  ASSUME IInv, ~moved, pc = "lines", NEW i \in DOMAIN subs,
         ~(Cardinality(subs[i].fds) < MaxClients)
  PROVE  Sender \in subs[i].fds
<1>. DEFINE F == subs[i].fds
            All == {clients[j] : j \in 0 .. num_clients - 1}
<1>1. SUFFICES ASSUME Sender \notin F PROVE FALSE
  OBVIOUS
<1>2. num_clients \in Nat /\ num_clients <= MaxClients
  BY DEF IInv, TableTypes
<1>3. Sender \in All
  <2>1. /\ event.data < num_clients /\ event.data \in Ids /\ Sender = clients[event.data]
    BY EventClient DEF IInv, EventTypes, Sender
  <2>. QED
    BY <1>2, <2>1, IndexNumbers
<1>4. F \subseteq All
  <2>1. ASSUME NEW f \in F PROVE f \in All
    <3>1. PICK d \in Conns : fd[d] = f /\ fd[d] # 0 /\ subs[i].topic \in wants[d]
      BY DEF IInv, SubsFaithful, Wanting
    <3>2. d \in Watched
      BY <3>1 DEF IInv, EventsInStep
    <3>3. reg[d] \in Ids /\ reg[d] < num_clients /\ clients[reg[d]] = f
      BY <3>1, <3>2 DEF IInv, IndicesInStep, TableTypes, Watched
    <3>. QED
      BY <1>2, <3>3, IndexNumbers
  <2>. QED
    BY <2>1
<1>5. IsFiniteSet(All) /\ Cardinality(All) <= num_clients /\ Cardinality(All) \in Nat
  <2>1. IsFiniteSet(0 .. num_clients - 1) /\ Cardinality(0 .. num_clients - 1) = num_clients
    BY <1>2, FS_Interval
  <2>2. IsFiniteSet(All) /\ Cardinality(All) <= Cardinality(0 .. num_clients - 1)
    BY <2>1, ImageSize
  <2>. QED
    BY <2>1, <2>2, FS_CardinalityType
<1>. HIDE DEF F, All
<1>6. IsFiniteSet(F) /\ Cardinality(F) \in Nat
  BY <1>4, <1>5, FS_Subset, FS_CardinalityType
<1>7. Cardinality(F \cup {Sender}) = Cardinality(F) + 1
  BY <1>1, <1>6, FS_AddElement
<1>8. Cardinality(F \cup {Sender}) <= Cardinality(All)
  <2>1. F \cup {Sender} \subseteq All
    BY <1>3, <1>4
  <2>. QED
    BY <1>5, <2>1, FS_Subset
<1>9. ~(Cardinality(F) < MaxClients)
  BY DEF F
<1>. QED
  BY <1>2, <1>5, <1>6, <1>7, <1>8, <1>9, Constants

\* A wish of the sender for p adds its descriptor to those of p.
LEMMA WantingGrows ==
  ASSUME NEW p, Owners # {}, Sender # 0, fd' = fd, wants \in [Conns -> SUBSET Patterns],
         wants' = [c \in Conns |-> IF c \in Owners THEN wants[c] \cup {p} ELSE wants[c]]
  PROVE  /\ Wanting(p)' = Wanting(p) \cup {Sender}
         /\ \A q : q # p => Wanting(q)' = Wanting(q)
<1>1. /\ \A c \in Owners : fd[c] = Sender /\ c \in Conns
      /\ \A c \in Conns : fd[c] = Sender => c \in Owners
  BY DEF Owners
<1>2. /\ \A c \in Owners : wants'[c] = wants[c] \cup {p}
      /\ \A c \in Conns \ Owners : wants'[c] = wants[c]
  BY <1>1
<1>3. Wanting(p)' = Wanting(p) \cup {Sender}
  <2>1. \A f : f \in Wanting(p)' <=> \E c \in Conns : f = fd[c] /\ fd[c] # 0 /\ p \in wants'[c]
    BY DEF Wanting
  <2>2. \A f : f \in Wanting(p) <=> \E c \in Conns : f = fd[c] /\ fd[c] # 0 /\ p \in wants[c]
    BY DEF Wanting
  <2>3. ASSUME NEW f \in Wanting(p)' PROVE f \in Wanting(p) \cup {Sender}
    BY <1>1, <1>2, <2>1, <2>2
  <2>4. ASSUME NEW f \in Wanting(p) PROVE f \in Wanting(p)'
    BY <1>1, <1>2, <2>1, <2>2
  <2>5. Sender \in Wanting(p)'
    BY <1>1, <1>2, <2>1
  <2>. QED
    BY <2>3, <2>4, <2>5
<1>4. ASSUME NEW q, q # p PROVE Wanting(q)' = Wanting(q)
  <2>1. \A c \in Conns : q \in wants'[c] <=> q \in wants[c]
    BY <1>1, <1>2, <1>4
  <2>. QED
    BY <2>1 DEF Wanting
<1>. QED
  BY <1>3, <1>4

\* Withdrawing it removes the descriptor from those of p.
LEMMA WantingShrinks ==
  ASSUME NEW p, fd' = fd, wants \in [Conns -> SUBSET Patterns],
         wants' = [c \in Conns |-> IF c \in Owners THEN wants[c] \ {p} ELSE wants[c]]
  PROVE  /\ Wanting(p)' = Wanting(p) \ {Sender}
         /\ \A q : q # p => Wanting(q)' = Wanting(q)
<1>1. /\ \A c \in Owners : wants'[c] = wants[c] \ {p}
      /\ \A c \in Conns \ Owners : wants'[c] = wants[c]
      /\ \A c \in Conns : fd[c] = Sender <=> c \in Owners
  BY DEF Owners
<1>2. Wanting(p)' = Wanting(p) \ {Sender}
  <2>1. \A c \in Conns : p \in wants'[c] <=> (p \in wants[c] /\ fd[c] # Sender)
    BY <1>1
  <2>. QED
    BY <2>1 DEF Wanting
<1>3. ASSUME NEW q, q # p PROVE Wanting(q)' = Wanting(q)
  <2>1. \A c \in Conns : q \in wants'[c] <=> q \in wants[c]
    BY <1>1, <1>3
  <2>. QED
    BY <2>1 DEF Wanting
<1>. QED
  BY <1>2, <1>3

LEMMA HandleSubStep == ASSUME IInv, HandleSub PROVE IInv'
<1>0. PICK p : p = Head(lines).topic
  OBVIOUS
<1>1. /\ Line("SUB") /\ UNCHANGED inbox /\ pc = "lines"
      /\ wants' = [c \in Conns |-> IF c \in Owners THEN wants[c] \cup {p} ELSE wants[c]]
  BY <1>0 DEF HandleSub, Line
<1>2. \/ /\ find_sub(p) = {} /\ Len(subs) < MaxSubs
         /\ subs' = Append(subs, [topic |-> p, fds |-> {Sender}])
      \/ find_sub(p) = {} /\ Len(subs) >= MaxSubs /\ UNCHANGED subs
      \/ \E i \in find_sub(p) :
           IF Cardinality(subs[i].fds) < MaxClients
           THEN subs' = [subs EXCEPT ![i].fds = @ \cup {Sender}]
           ELSE UNCHANGED subs
  BY <1>0 DEF HandleSub
<1>3. \A c \in Conns \ Owners : wants'[c] = wants[c]
  BY <1>1
<1>4. /\ Head(lines) \in Requests /\ Head(lines).kind = "SUB"
      /\ NetworkTypes' /\ TableTypes' /\ EventTypes' /\ Connected' /\ Written'
      /\ IndicesInStep' /\ Drained' /\ (~moved' => EventsInStep')
      /\ UNCHANGED <<fd, moved>>
  BY <1>1, <1>3, LineKeeps
<1>5. Owners # {} /\ Sender # 0 /\ Owners = {c \in Conns : fd[c] = Sender}
  BY <1>1, <1>3, LineKeeps
<1>6. p \in Patterns
  BY <1>0, <1>4, RequestKinds
<1>7. Sender \in Fds
  BY <1>5 DEF IInv, TableTypes
<1>8. wants \in [Conns -> SUBSET Patterns] /\ wants' \in [Conns -> SUBSET Patterns]
  BY <1>1, <1>6 DEF IInv, DeliveryTypes
<1>9. /\ Wanting(p)' = Wanting(p) \cup {Sender}
      /\ \A q : q # p => Wanting(q)' = Wanting(q)
  BY <1>1, <1>4, <1>5, <1>8, WantingGrows
<1>10. \A c \in Conns : \A q \in wants'[c] : q = p \/ q \in wants[c]
  BY <1>1, <1>8
<1>11. /\ subs \in Seq([topic : Patterns, fds : SUBSET Fds]) /\ Len(subs) <= MaxSubs
       /\ Len(subs) \in Nat /\ DOMAIN subs = 1 .. Len(subs) /\ MaxSubs \in Nat
  BY BusAssumption, LenProperties DEF IInv, DeliveryTypes
<1>12. DeliveryTypes' /\ SubsFaithful' /\ Entries'
  <2>1. CASE /\ find_sub(p) = {} /\ Len(subs) < MaxSubs
             /\ subs' = Append(subs, [topic |-> p, fds |-> {Sender}])
    <3>1. [topic |-> p, fds |-> {Sender}] \in [topic : Patterns, fds : SUBSET Fds]
      BY <1>6, <1>7
    <3>2. /\ subs' \in Seq([topic : Patterns, fds : SUBSET Fds])
          /\ Len(subs') = Len(subs) + 1
          /\ \A i \in 1 .. Len(subs) : subs'[i] = subs[i]
          /\ subs'[Len(subs) + 1] = [topic |-> p, fds |-> {Sender}]
      BY <1>11, <2>1, <3>1, AppendProperties
    <3>3. DOMAIN subs' = 1 .. Len(subs')
      BY <3>2, LenProperties
    <3>4. DeliveryTypes'
      BY <1>1, <1>8, <1>11, <2>1, <3>2 DEF IInv, DeliveryTypes
    <3>5. \A i \in DOMAIN subs : /\ i \in DOMAIN subs' /\ subs'[i] = subs[i]
                                 /\ subs[i].topic # p
      BY <1>11, <2>1, <3>2, <3>3 DEF find_sub
    <3>6. \A i \in DOMAIN subs' : i \in DOMAIN subs \/ i = Len(subs) + 1
      BY <1>11, <3>2, <3>3
    <3>7. subs'[Len(subs) + 1].topic = p /\ subs'[Len(subs) + 1].fds = {Sender}
      BY <3>2
    <3>8. Wanting(p)' = {Sender}
      <4>1. Wanting(p) = {}
        BY <1>11, <2>1 DEF Wanting, IInv, Entries
      <4>. QED
        BY <1>9, <4>1
    <3>9. SubsFaithful'
      <4>1. ASSUME NEW i \in DOMAIN subs', NEW q, q = subs'[i].topic
            PROVE  /\ subs'[i].fds \subseteq Wanting(q)'
                   /\ ~moved' => Wanting(q)' \subseteq subs'[i].fds
        <5>1. CASE i = Len(subs) + 1
          BY <3>7, <3>8, <4>1, <5>1
        <5>2. CASE i \in DOMAIN subs
          BY <1>4, <1>9, <3>5, <4>1, <5>2 DEF IInv, SubsFaithful
        <5>. QED
          BY <3>6, <5>1, <5>2
      <4>. QED
        BY <4>1 DEF SubsFaithful, Wanting
    <3>10. Entries'
      <4>1. \A i, j \in DOMAIN subs' : subs'[i].topic = subs'[j].topic => i = j
        BY <3>5, <3>6, <3>7 DEF IInv, Entries
      <4>2. Len(subs) + 1 \in DOMAIN subs'
        BY <1>11, <3>2, <3>3
      <4>3. find_sub(p)' # {}
        BY <3>7, <4>2 DEF find_sub
      <4>4. \A q : find_sub(q) # {} => find_sub(q)' # {}
        BY <3>5 DEF find_sub
      <4>5. \A c \in Conns : \A q \in wants'[c] : find_sub(q)' # {} \/ Len(subs') >= MaxSubs
        BY <1>10, <1>11, <2>1, <4>3, <4>4 DEF IInv, Entries
      <4>. QED
        BY <4>1, <4>5 DEF Entries
    <3>. QED
      BY <3>4, <3>9, <3>10
  <2>2. CASE find_sub(p) = {} /\ Len(subs) >= MaxSubs /\ UNCHANGED subs
    <3>1. DeliveryTypes'
      BY <1>1, <1>8, <2>2 DEF IInv, DeliveryTypes
    <3>2. \A i \in DOMAIN subs : subs[i].topic # p
      BY <2>2 DEF find_sub
    <3>3. SubsFaithful'
      <4>1. ASSUME NEW i \in DOMAIN subs, NEW q, q = subs[i].topic
            PROVE  /\ subs[i].fds \subseteq Wanting(q)'
                   /\ ~moved => Wanting(q)' \subseteq subs[i].fds
        BY <1>9, <3>2, <4>1 DEF IInv, SubsFaithful
      <4>. QED
        BY <1>4, <2>2, <4>1 DEF SubsFaithful, Wanting
    <3>4. Entries'
      BY <2>2 DEF IInv, Entries
    <3>. QED
      BY <3>1, <3>3, <3>4
  <2>3. ASSUME NEW i \in find_sub(p), Cardinality(subs[i].fds) < MaxClients,
               subs' = [subs EXCEPT ![i].fds = @ \cup {Sender}]
        PROVE  DeliveryTypes' /\ SubsFaithful' /\ Entries'
    <3>1. i \in DOMAIN subs /\ subs[i].topic = p
      BY DEF find_sub
    <3>2. \A j \in DOMAIN subs : subs[j] \in [topic : Patterns, fds : SUBSET Fds]
      BY <1>11, ElementOfSeq
    <3>3. /\ DOMAIN subs' = DOMAIN subs
          /\ subs'[i].topic = p /\ subs'[i].fds = subs[i].fds \cup {Sender}
          /\ \A j \in DOMAIN subs \ {i} : subs'[j] = subs[j]
      BY <2>3, <3>1, <3>2
    <3>4. subs'[i] \in [topic : Patterns, fds : SUBSET Fds]
      BY <1>7, <2>3, <3>1, <3>2
    <3>5. subs' \in Seq([topic : Patterns, fds : SUBSET Fds]) /\ Len(subs') = Len(subs)
      <4>1. subs' \in [1 .. Len(subs) -> [topic : Patterns, fds : SUBSET Fds]]
        BY <1>11, <2>3, <3>2, <3>3, <3>4
      <4>. QED
        BY <1>11, <4>1, SeqOfFunction
    <3>6. DeliveryTypes'
      BY <1>1, <1>8, <1>11, <3>5 DEF IInv, DeliveryTypes
    <3>7. \A j \in DOMAIN subs \ {i} : subs[j].topic # p
      BY <3>1 DEF IInv, Entries
    <3>8. SubsFaithful'
      <4>1. ASSUME NEW j \in DOMAIN subs, NEW q, q = subs'[j].topic
            PROVE  /\ subs'[j].fds \subseteq Wanting(q)'
                   /\ ~moved' => Wanting(q)' \subseteq subs'[j].fds
        <5>1. CASE j = i
          BY <1>4, <1>9, <3>1, <3>3, <4>1, <5>1 DEF IInv, SubsFaithful
        <5>2. CASE j # i
          BY <1>4, <1>9, <3>3, <3>7, <4>1, <5>2 DEF IInv, SubsFaithful
        <5>. QED
          BY <5>1, <5>2
      <4>. QED
        BY <3>3, <4>1 DEF SubsFaithful, Wanting
    <3>9. Entries'
      <4>1. \A j \in DOMAIN subs : subs'[j].topic = subs[j].topic
        BY <3>1, <3>3
      <4>2. \A q : find_sub(q)' = find_sub(q)
        BY <3>3, <4>1 DEF find_sub
      <4>3. find_sub(p) # {}
        OBVIOUS
      <4>. QED
        BY <1>10, <3>3, <3>5, <4>1, <4>2, <4>3 DEF IInv, Entries
    <3>. QED
      BY <3>6, <3>8, <3>9
  <2>4. ASSUME NEW i \in find_sub(p), ~(Cardinality(subs[i].fds) < MaxClients), subs' = subs
        PROVE  DeliveryTypes' /\ SubsFaithful' /\ Entries'
    <3>1. i \in DOMAIN subs /\ subs[i].topic = p
      BY DEF find_sub
    <3>2. DeliveryTypes'
      BY <1>1, <1>8, <2>4 DEF IInv, DeliveryTypes
    <3>3. \A j \in DOMAIN subs \ {i} : subs[j].topic # p
      BY <3>1 DEF IInv, Entries
    <3>4. ~moved => Sender \in subs[i].fds
      BY <1>1, <2>4, <3>1, FullSetHasSender
    <3>5. SubsFaithful'
      <4>1. ASSUME NEW j \in DOMAIN subs, NEW q, q = subs[j].topic
            PROVE  /\ subs[j].fds \subseteq Wanting(q)'
                   /\ ~moved => Wanting(q)' \subseteq subs[j].fds
        <5>1. CASE j = i
          BY <1>9, <3>1, <3>4, <4>1, <5>1 DEF IInv, SubsFaithful
        <5>2. CASE j # i
          BY <1>9, <3>3, <4>1, <5>2 DEF IInv, SubsFaithful
        <5>. QED
          BY <5>1, <5>2
      <4>. QED
        BY <1>4, <2>4, <4>1 DEF SubsFaithful, Wanting
    <3>6. Entries'
      <4>1. find_sub(p) # {}
        OBVIOUS
      <4>2. \A q : find_sub(q)' = find_sub(q)
        BY <2>4 DEF find_sub
      <4>. QED
        BY <1>10, <2>4, <4>1, <4>2 DEF IInv, Entries
    <3>. QED
      BY <3>2, <3>5, <3>6
  <2>. QED
    BY <1>2, <2>1, <2>2, <2>3, <2>4
<1>. QED
  BY <1>4, <1>12 DEF IInv

LEMMA HandleUnsubStep == ASSUME IInv, HandleUnsub PROVE IInv'
<1>0. PICK p : p = Head(lines).topic
  OBVIOUS
<1>1. /\ Line("UNSUB") /\ UNCHANGED inbox
      /\ wants' = [c \in Conns |-> IF c \in Owners THEN wants[c] \ {p} ELSE wants[c]]
      /\ subs' = [i \in DOMAIN subs |->
                    IF i \in find_sub(p) THEN [subs[i] EXCEPT !.fds = @ \ {Sender}]
                    ELSE subs[i]]
  BY <1>0 DEF HandleUnsub
<1>2. \A c \in Conns \ Owners : wants'[c] = wants[c]
  BY <1>1
<1>3. /\ NetworkTypes' /\ TableTypes' /\ EventTypes' /\ Connected' /\ Written'
      /\ IndicesInStep' /\ Drained' /\ (~moved' => EventsInStep')
      /\ UNCHANGED <<fd, moved>>
  BY <1>1, <1>2, LineKeeps
<1>4. wants \in [Conns -> SUBSET Patterns] /\ wants' \in [Conns -> SUBSET Patterns]
  BY <1>1 DEF IInv, DeliveryTypes
<1>5. /\ Wanting(p)' = Wanting(p) \ {Sender}
      /\ \A q : q # p => Wanting(q)' = Wanting(q)
  BY <1>1, <1>3, <1>4, WantingShrinks
<1>6. /\ subs \in Seq([topic : Patterns, fds : SUBSET Fds]) /\ Len(subs) <= MaxSubs
      /\ Len(subs) \in Nat /\ DOMAIN subs = 1 .. Len(subs)
  BY LenProperties DEF IInv, DeliveryTypes
<1>7. \A i \in DOMAIN subs : subs[i] \in [topic : Patterns, fds : SUBSET Fds]
  BY <1>6, ElementOfSeq
<1>8. /\ DOMAIN subs' = DOMAIN subs
      /\ \A i \in DOMAIN subs : /\ subs'[i] \in [topic : Patterns, fds : SUBSET Fds]
                                /\ subs'[i].topic = subs[i].topic
                                /\ subs[i].topic = p => subs'[i].fds = subs[i].fds \ {Sender}
                                /\ subs[i].topic # p => subs'[i].fds = subs[i].fds
  BY <1>1, <1>7 DEF find_sub
<1>9. subs' \in Seq([topic : Patterns, fds : SUBSET Fds]) /\ Len(subs') = Len(subs)
  <2>1. subs' \in [1 .. Len(subs) -> [topic : Patterns, fds : SUBSET Fds]]
    BY <1>1, <1>6, <1>8
  <2>. QED
    BY <1>6, <2>1, SeqOfFunction
<1>10. DeliveryTypes'
  BY <1>1, <1>4, <1>6, <1>9 DEF IInv, DeliveryTypes
<1>11. SubsFaithful'
  <2>1. ASSUME NEW i \in DOMAIN subs, NEW q, q = subs'[i].topic
        PROVE  /\ subs'[i].fds \subseteq Wanting(q)'
               /\ ~moved => Wanting(q)' \subseteq subs'[i].fds
    BY <1>5, <1>8, <2>1 DEF IInv, SubsFaithful
  <2>. QED
    BY <1>3, <1>8, <2>1 DEF SubsFaithful, Wanting
<1>12. Entries'
  <2>1. \A q : find_sub(q)' = find_sub(q)
    BY <1>8 DEF find_sub
  <2>2. \A c \in Conns : wants'[c] \subseteq wants[c]
    BY <1>1, <1>4
  <2>. QED
    BY <1>8, <1>9, <2>1, <2>2 DEF IInv, Entries
<1>. QED
  BY <1>3, <1>10, <1>11, <1>12 DEF IInv

-----------------------------------------------------------------------------
(* The theorems *)

LEMMA InitEstablishes == Init => IInv
<1>. SUFFICES ASSUME Init PROVE IInv
  OBVIOUS
<1>1. Watched = {} /\ (\A c \in Conns : wants[c] = {} /\ fd[c] = 0 /\ sent[c] = 0)
  BY DEF Init, Watched
<1>2. NetworkTypes
  <2>1. program \in [Conns -> {"block", "ping", "pub", "sub"}]
    BY DEF Init
  <2>2. <<>> \in Seq(Requests) /\ <<>> \in Seq(Conns)
    BY EmptySeq
  <2>. QED
    BY <2>1, <2>2 DEF Init, NetworkTypes
<1>3. TableTypes
  <2>1. /\ fd \in [Conns -> Fds \cup {0}] /\ reg \in [Conns -> Ids \cup {NotWatched}]
        /\ clients \in [Ids -> Fds \cup {0}] /\ num_clients = 0 /\ moved = FALSE
    BY DEF Init
  <2>2. num_clients \in Int /\ num_clients <= MaxClients /\ num_clients >= 0
    <3>1. num_clients = 0
      BY <2>1
    <3>. QED
      BY <3>1, BusAssumption
  <2>3. moved \in BOOLEAN
    BY <2>1
  <2>. QED
    BY <2>1, <2>2, <2>3 DEF TableTypes
<1>4. DeliveryTypes
  <2>1. /\ <<>> \in Seq(Requests \cup {PONG})
        /\ <<>> \in Seq([topic : Patterns, fds : SUBSET Fds])
        /\ Len(<<>>) = 0
    BY EmptySeq
  <2>. QED
    BY <2>1, BusAssumption DEF Init, DeliveryTypes
<1>5. EventTypes
  BY EmptySeq DEF Init, EventTypes, NoEvent
<1>6. Connected /\ Written /\ Drained
  <2>1. DOMAIN backlog = {} /\ Range(backlog) = {}
    BY DEF Init, Range
  <2>2. Connected
    BY <1>1, <2>1 DEF Init, Connected
  <2>3. Written
    BY <1>1, IndexNumbers DEF Init, Written
  <2>4. Drained
    BY <1>1, EmptySeq DEF Init, Drained
  <2>. QED
    BY <2>2, <2>3, <2>4
<1>7. IndicesInStep /\ SubsFaithful /\ Entries
  <2>1. DOMAIN subs = {}
    BY DEF Init
  <2>2. IndicesInStep
    BY <1>1 DEF Init, IndicesInStep
  <2>. QED
    BY <1>1, <2>1, <2>2 DEF SubsFaithful, Entries
<1>8. EventsInStep
  BY <1>1 DEF Init, EventsInStep
<1>. QED
  BY <1>2, <1>3, <1>4, <1>5, <1>6, <1>7, <1>8 DEF IInv

LEMMA NextKeeps == IInv /\ [Next]_vars => IInv'
<1>. SUFFICES ASSUME IInv, [Next]_vars PROVE IInv'
  OBVIOUS
<1>1. ASSUME NEW c \in Conns, Client(c) PROVE IInv'
  BY <1>1, ClientStep
<1>2. CASE Daemon
  BY <1>2, EpollWaitStep, NextEventStep, AcceptStep, RecvDataStep, RecvEndStep,
     LinesDoneStep, HandlePubStep, HandleSubStep, HandleUnsubStep, HandlePingStep DEF Daemon
<1>3. CASE UNCHANGED vars
  <2>1. UNCHANGED <<network, tables, dispatch, delivery>>
    BY <1>3 DEF vars
  <2>2. TableTypes' /\ Written' /\ IndicesInStep' /\ EventTypes' /\ DeliveryTypes'
    BY <2>1, TablesKept, EventsKept, DeliveryKept DEF IInv, dispatch, tables
  <2>3. SubsFaithful' /\ Entries'
    BY <2>1, SubsKept DEF IInv, delivery, tables
  <2>4. NetworkTypes' /\ Connected' /\ Drained'
    BY <2>1 DEF IInv, NetworkTypes, Connected, Drained, network, tables, dispatch, delivery,
                Owners, Sender
  <2>5. ~moved' => EventsInStep'
    BY <2>1 DEF IInv, EventsInStep, network, tables, dispatch, delivery, Watched, Of
  <2>. QED
    BY <2>2, <2>3, <2>4, <2>5 DEF IInv
<1>. QED
  BY <1>1, <1>2, <1>3 DEF Next

\* The inductive invariant holds for any connections, topics and limits.
THEOREM DaemonInvariant == Spec => []IInv
BY InitEstablishes, NextKeeps, PTL DEF Spec

\* Every variable of the daemon has its type: no index leaves the array, and the
\* subscription table never exceeds its limits, as bb-busd.c expects.
THEOREM TypeCorrect == Spec => []TypeOK
<1>1. IInv => TypeOK
  BY TypesMeanTypeOK DEF IInv
<1>. QED
  BY <1>1, DaemonInvariant, PTL

\* The daemon's array agrees with epoll until remove_client moves an entry, and
\* the subscription table never names a descriptor whose owner did not ask.
THEOREM TablesStayFaithful == Spec => []TablesFaithful
<1>1. IInv => TablesFaithful
  BY DEF IInv, TablesFaithful
<1>. QED
  BY <1>1, DaemonInvariant, PTL

\* A publication goes to other clients that want it only, and to all of them
\* until remove_client moves an entry (publish).
THEOREM PublicationsReach == Spec => PublishReaches
<1>. DEFINE Reaches ==
       LET t == Head(lines).topic
           heard == {c \in Conns : inbox'[c] # inbox[c]}
           wanting == {c \in Conns : /\ fd[c] # Sender /\ peer[c] = "up" /\ fd[c] # 0
                                     /\ \E p \in wants[c] : find_sub(p) # {} /\ topic_match(p, t)}
       IN heard \subseteq wanting /\ (~moved => heard = wanting)
<1>1. ASSUME IInv, HandlePub PROVE Reaches
  <2>. DEFINE t == Head(lines).topic
              Reached(c) == peer[c] = "up" /\ fd[c] \notin {0, Sender}
  <2>1. t \in Topics
    <3>1. Line("PUB") /\ UNCHANGED wants
      BY <1>1 DEF HandlePub
    <3>2. Head(lines) \in Requests /\ Head(lines).kind = "PUB"
      BY <1>1, <3>1, LineKeeps
    <3>. QED
      BY <3>2, RequestKinds
  <2>2. inbox' = [c \in Conns |->
                   IF Reached(c)
                   THEN inbox[c] \o [i \in 1 .. Cardinality(Matching(fd[c], t)) |-> Pub(t)]
                   ELSE inbox[c]]
    BY <1>1 DEF HandlePub, publish
  <2>. HIDE DEF t
  <2>3. ASSUME NEW c \in Conns
        PROVE  inbox'[c] # inbox[c] <=> (Reached(c) /\ Matching(fd[c], t) # {})
    BY <1>1, <2>1, <2>2, Copies
  <2>4. ASSUME NEW c \in Conns, Reached(c), NEW i \in Matching(fd[c], t)
        PROVE  \E p \in wants[c] : find_sub(p) # {} /\ topic_match(p, t)
    <3>1. i \in DOMAIN subs /\ fd[c] \in subs[i].fds /\ topic_match(subs[i].topic, t)
      BY DEF Matching
    <3>2. PICK d \in Conns : fd[d] = fd[c] /\ subs[i].topic \in wants[d]
      BY <1>1, <3>1 DEF IInv, SubsFaithful, Wanting
    <3>3. d = c
      BY <1>1, <2>4, <3>2 DEF IInv, Connected
    <3>4. i \in find_sub(subs[i].topic)
      BY <3>1 DEF find_sub
    <3>. QED
      BY <3>1, <3>2, <3>3, <3>4
  <2>5. ASSUME NEW c \in Conns, Reached(c), ~moved,
               NEW p \in wants[c], find_sub(p) # {}, topic_match(p, t)
        PROVE  Matching(fd[c], t) # {}
    <3>1. PICK i \in DOMAIN subs : subs[i].topic = p
      BY <2>5 DEF find_sub
    <3>2. fd[c] \in Wanting(p)
      BY <2>5 DEF Wanting
    <3>3. fd[c] \in subs[i].fds
      BY <1>1, <2>5, <3>1, <3>2 DEF IInv, SubsFaithful
    <3>. QED
      BY <2>5, <3>1, <3>3 DEF Matching
  <2>. QED
    BY <2>3, <2>4, <2>5 DEF t
<1>. HIDE DEF Reaches
<1>2. IInv /\ [Next]_vars => [HandlePub => Reaches]_vars
  BY <1>1
<1>3. PublishReaches <=> [][HandlePub => Reaches]_vars
  BY DEF PublishReaches, Reaches
<1>. QED
  BY <1>2, <1>3, DaemonInvariant, PTL DEF Spec

\* A connection is closed only when nothing it sent is left unread, as long as
\* it fits one read and no entry has been moved ("We must drain data first").
THEOREM DrainedFirst == Spec => DrainedBeforeClose
<1>. DEFINE Drains == \A c \in Conns :
              (~moved /\ fd[c] # 0 /\ fd'[c] = 0 /\ sent[c] <= RecvLines)
                => toDaemon[c] = <<>> /\ lines = <<>>
<1>1. ASSUME IInv, Next PROVE Drains
  <2>1. SUFFICES ASSUME NEW c \in Conns, ~moved, fd[c] # 0, fd'[c] = 0, sent[c] <= RecvLines
                 PROVE  toDaemon[c] = <<>> /\ lines = <<>>
    OBVIOUS
  <2>2. ASSUME pc # "wait", event.data # SrvFd, remove_client(event.data)
        PROVE  c \in Owners
    BY <1>1, <2>1, <2>2, RemoveEffect DEF IInv, EventTypes
  <2>3. CASE RecvEnd
    <3>1. c \in Owners
      BY <2>2, <2>3 DEF RecvEnd, ClientEvent
    <3>2. toDaemon[c] = <<>>
      BY <2>3, <3>1 DEF RecvEnd, Sources, Owners, Sender
    <3>. QED
      BY <1>1, <2>3, <3>2 DEF RecvEnd, ClientEvent, IInv, EventTypes
  <2>4. CASE LinesDone
    <3>1. pc = "lines" /\ lines = <<>> /\ event.data # SrvFd
      BY <1>1, <2>4 DEF LinesDone, IInv, EventTypes
    <3>2. event.hup /\ remove_client(event.data)
      BY <2>1, <2>4 DEF LinesDone, tables
    <3>3. c \in Owners
      BY <2>2, <3>1, <3>2
    <3>. QED
      BY <1>1, <2>1, <3>1, <3>2, <3>3 DEF IInv, Drained
  <2>5. CASE Accept
    <3>1. fd' = [fd EXCEPT ![Head(backlog)] = FreeFd] /\ Head(backlog) = backlog[1]
      BY <2>5 DEF Accept
    <3>2. Head(backlog) \in Conns /\ fd[Head(backlog)] = 0
      <4>1. backlog # <<>> /\ backlog \in Seq(Conns)
        BY <1>1, <2>5 DEF Accept, IInv, NetworkTypes
      <4>2. 1 \in DOMAIN backlog /\ Head(backlog) \in Conns
        BY <4>1, EmptySeq, LenProperties, HeadTailProperties
      <4>. QED
        BY <1>1, <3>1, <4>2 DEF IInv, Connected
    <3>3. fd'[c] = fd[c]
      BY <1>1, <2>1, <3>1, <3>2 DEF IInv, TableTypes
    <3>. QED
      BY <2>1, <3>3
  <2>6. fd' = fd \/ RecvEnd \/ LinesDone \/ Accept
    <3>1. ASSUME NEW d \in Conns, Client(d) PROVE fd' = fd
      BY <3>1, ClientEffect DEF tables
    <3>2. CASE EpollWait \/ NextEvent \/ RecvData
      BY <3>2 DEF EpollWait, NextEvent, RecvData, tables
    <3>3. CASE HandlePub \/ HandleSub \/ HandleUnsub \/ HandlePing
      BY <3>3 DEF HandlePub, HandleSub, HandleUnsub, HandlePing, Line, tables
    <3>. QED
      BY <1>1, <3>1, <3>2, <3>3 DEF Next, Daemon
  <2>. QED
    BY <2>1, <2>3, <2>4, <2>5, <2>6
<1>. HIDE DEF Drains
<1>2. IInv /\ [Next]_vars => [Drains]_vars
  BY <1>1
<1>3. DrainedBeforeClose <=> [][Drains]_vars
  BY DEF DrainedBeforeClose, Drains
<1>. QED
  BY <1>2, <1>3, DaemonInvariant, PTL DEF Spec
=============================================================================
