------------------------------ MODULE BusDaemon ------------------------------
(***************************************************************************)
(* services/bb-busd.c, the single-threaded message bus daemon, and the     *)
(* connections of its clients.                                             *)
(*                                                                         *)
(* The daemon keeps its clients in an array.  It registers each with epoll *)
(* under its index in that array, and remove_client compacts the array     *)
(* without telling epoll.  Descriptor numbers matter: they name the        *)
(* subscribers, they are reused, and the listener's is compared with the   *)
(* indices (both live in the same union of the epoll event).               *)
(*                                                                         *)
(* A client is a block, which sends what it likes through libbb/bb_bus.c,  *)
(* or one command of tools/bb-cli.c.                                       *)
(*                                                                         *)
(* A line is one message.  A call of recv takes up to RecvLines lines.     *)
(***************************************************************************)
EXTENDS Integers, Sequences, SequencesExt, FiniteSets, Functions

CONSTANTS
  Conns,        \* connections; each is made at most once
  Blocks,       \* those of blocks; the others are commands of bb-cli
  Topics,       \* topics of publications, as sequences of characters
  Patterns,     \* topics of subscriptions, "#" last for a prefix
  MaxClients, MaxSubs,  \* the limits of the two tables
  SrvFd,        \* descriptor of the listening socket
  RecvLines,    \* lines that fit a client's buffer
  MaxSent,      \* bound on the messages sent
  MaxLeaves     \* bound on the clients that leave

ASSUME BusAssumption == /\ IsFiniteSet(Conns) /\ Blocks \subseteq Conns
                        /\ MaxClients \in Nat \ {0} /\ MaxSubs \in Nat
                        /\ SrvFd \in Nat \ {0} /\ RecvLines \in Nat \ {0}
                        /\ MaxSent \in Nat /\ MaxLeaves \in Nat

VARIABLES
  program,      \* per connection, the program at the client's end; fixed
  peer,         \* per connection, the client's end: "new", "up" or "gone"
  sent,         \* per connection, messages sent
  toDaemon,     \* per connection, messages the daemon has not read
  inbox,        \* per connection, messages it was sent by the daemon
  backlog,      \* connections waiting for accept
  fd,           \* per connection, the daemon's descriptor, or 0
  reg,          \* per connection, the index it has in epoll, or NotWatched
  clients,      \* clients[i].fd
  num_clients,
  subs,         \* the subscription table: records of a topic and descriptors
  pc,           \* the daemon: "wait", "event" or "lines"
  batch,        \* events of this epoll_wait that are still to be handled
  event,        \* the event being handled
  lines,        \* lines read and not yet handled
  wants,        \* history: per connection, the topics it has subscribed to
  moved         \* history: remove_client has moved an entry of clients

network    == <<program, peer, sent, toDaemon, backlog>>
tables     == <<fd, reg, clients, num_clients, moved>>
dispatch   == <<pc, batch, event, lines>>
delivery   == <<subs, inbox, wants>>
vars       == <<network, tables, dispatch, delivery>>

Ids == 0 .. MaxClients - 1
NotWatched == -1
Fds == SrvFd + 2 .. SrvFd + 1 + Cardinality(Conns)   \* epoll has SrvFd + 1

PING == [kind |-> "PING"]
PONG == [kind |-> "PONG"]
Pub(t) == [kind |-> "PUB", topic |-> t]
Sub(p) == [kind |-> "SUB", topic |-> p]
Unsub(p) == [kind |-> "UNSUB", topic |-> p]
Requests == {Pub(t) : t \in Topics} \cup {Sub(p) : p \in Patterns}
              \cup {Unsub(p) : p \in Patterns} \cup {PING}

NoEvent == [data |-> NotWatched, hup |-> FALSE]

topic_match(pattern, topic) ==
  \/ pattern = topic
  \/ pattern # <<>> /\ Last(pattern) = "#" /\ IsPrefix(Front(pattern), topic)

Init ==
  /\ program \in {f \in [Conns -> {"block", "ping", "pub", "sub"}] :
                   \A c \in Conns : f[c] = "block" <=> c \in Blocks}
  /\ peer = [c \in Conns |-> "new"] /\ sent = [c \in Conns |-> 0]
  /\ toDaemon = [c \in Conns |-> <<>>] /\ inbox = [c \in Conns |-> <<>>]
  /\ backlog = <<>>
  /\ fd = [c \in Conns |-> 0] /\ reg = [c \in Conns |-> NotWatched]
  /\ clients = [i \in Ids |-> 0] /\ num_clients = 0
  /\ subs = <<>>
  /\ pc = "wait" /\ batch = {} /\ event = NoEvent /\ lines = <<>>
  /\ wants = [c \in Conns |-> {}] /\ moved = FALSE

-----------------------------------------------------------------------------
(* The clients *)

Connect(c) ==
  /\ peer[c] = "new"
  /\ peer' = [peer EXCEPT ![c] = "up"]
  /\ backlog' = Append(backlog, c)
  /\ UNCHANGED <<program, sent, toDaemon, tables, dispatch, delivery>>

TotalSent == FoldFunction(LAMBDA m, n : m + n, 0, sent)

\* A message can be sent as soon as connect returns, before accept.
Sends(c, messages) ==
  /\ peer[c] = "up" /\ (fd[c] # 0 \/ c \in Range(backlog))
  /\ TotalSent < MaxSent
  /\ sent' = [sent EXCEPT ![c] = @ + 1]
  /\ \E m \in messages : toDaemon' = [toDaemon EXCEPT ![c] = Append(@, m)]
  /\ UNCHANGED <<program, peer, backlog, tables, dispatch, delivery>>

Send(c) == program[c] = "block" /\ Sends(c, Requests)

\* The client closes its end, or dies.
Leaves(c) ==
  /\ peer[c] = "up"
  /\ Cardinality({d \in Conns : peer[d] = "gone"}) < MaxLeaves
  /\ peer' = [peer EXCEPT ![c] = "gone"]
  /\ UNCHANGED <<program, sent, toDaemon, backlog, tables, dispatch, delivery>>

Leave(c) == program[c] = "block" /\ Leaves(c)

\* bb-cli ping closes when recv returns: with an answer, or because the daemon
\* has closed the connection.
cmd_ping(c) ==
  /\ program[c] = "ping"
  /\ \/ sent[c] = 0 /\ Sends(c, {PING})
     \/ /\ sent[c] = 1 /\ (inbox[c] # <<>> \/ (fd[c] = 0 /\ c \notin Range(backlog)))
        /\ Leaves(c)

\* bb-cli pub closes at once.
cmd_pub(c) ==
  /\ program[c] = "pub"
  /\ \/ sent[c] = 0 /\ Sends(c, {Pub(t) : t \in Topics})
     \/ sent[c] = 1 /\ Leaves(c)

\* bb-cli sub listens until it is interrupted.
cmd_sub(c) ==
  /\ program[c] = "sub"
  /\ \/ sent[c] = 0 /\ Sends(c, {Sub(p) : p \in Patterns})
     \/ sent[c] = 1 /\ Leaves(c)

Client(c) == Connect(c) \/ Send(c) \/ Leave(c) \/ cmd_ping(c) \/ cmd_pub(c) \/ cmd_sub(c)

-----------------------------------------------------------------------------
(* The daemon's event loop.  Once num_clients is negative the next accept    *)
(* writes before the array; the model stops there.                           *)

Readable(c) == reg[c] # NotWatched /\ (toDaemon[c] # <<>> \/ peer[c] = "gone")

EpollWait ==
  /\ pc = "wait" /\ batch = {} /\ num_clients >= 0
  /\ batch' = {[of |-> c, data |-> reg[c], hup |-> peer[c] = "gone"] :
                  c \in {d \in Conns : Readable(d)}}
              \cup (IF backlog # <<>> THEN {[of |-> "listener", data |-> SrvFd, hup |-> FALSE]}
                    ELSE {})
  /\ batch' # {}
  /\ UNCHANGED <<pc, event, lines, network, tables, delivery>>

\* The events of one epoll_wait come in any order.
NextEvent ==
  /\ pc = "wait" /\ num_clients >= 0
  /\ \E e \in batch : /\ event' = [data |-> e.data, hup |-> e.hup]
                      /\ batch' = batch \ {e}
  /\ pc' = "event"
  /\ UNCHANGED <<lines, network, tables, delivery>>

EventDone == pc' = "wait" /\ event' = NoEvent

FreeFd == CHOOSE f \in Fds : /\ \A c \in Conns : fd[c] # f
                             /\ \A g \in Fds : g < f => \E c \in Conns : fd[c] = g

\* Mutant: the limit of the table is not looked at.
Accept_NoLimit ==
  /\ pc = "event" /\ event.data = SrvFd
  /\ backlog # <<>>
  /\ LET c == Head(backlog) IN
       /\ fd' = [fd EXCEPT ![c] = FreeFd]
       /\ reg' = [reg EXCEPT ![c] = num_clients]
       /\ clients' = [clients EXCEPT ![num_clients] = FreeFd]
       /\ num_clients' = num_clients + 1
  /\ backlog' = Tail(backlog)
  /\ EventDone
  /\ UNCHANGED <<program, peer, sent, toDaemon, batch, lines, moved, delivery>>

\* Mutant: the index is not stored in the epoll event.
Accept_NoIndex ==
  /\ pc = "event" /\ event.data = SrvFd
  /\ backlog # <<>>
  /\ LET c == Head(backlog) IN
       /\ fd' = [fd EXCEPT ![c] = FreeFd]
       /\ \/ /\ num_clients < MaxClients
             /\ reg' = [reg EXCEPT ![c] = 0]
             /\ clients' = [clients EXCEPT ![num_clients] = FreeFd]
             /\ num_clients' = num_clients + 1
          \/ /\ num_clients >= MaxClients
             /\ UNCHANGED <<reg, clients, num_clients>>
  /\ backlog' = Tail(backlog)
  /\ EventDone
  /\ UNCHANGED <<program, peer, sent, toDaemon, batch, lines, moved, delivery>>

\* accept; with a full table the new descriptor is forgotten but stays open.
Accept ==
  /\ pc = "event" /\ event.data = SrvFd
  /\ backlog # <<>>
  /\ LET c == Head(backlog) IN
       /\ fd' = [fd EXCEPT ![c] = FreeFd]
       /\ \/ /\ num_clients < MaxClients
             /\ reg' = [reg EXCEPT ![c] = num_clients]
             /\ clients' = [clients EXCEPT ![num_clients] = FreeFd]
             /\ num_clients' = num_clients + 1
          \/ /\ num_clients >= MaxClients
             /\ UNCHANGED <<reg, clients, num_clients>>
  /\ backlog' = Tail(backlog)
  /\ EventDone
  /\ UNCHANGED <<program, peer, sent, toDaemon, batch, lines, moved, delivery>>

\* Mutant: the subscriptions of a departed client are kept.
remove_client_KeepSubs(idx) ==
  LET f == clients[idx]
      gone == {c \in Conns : fd[c] = f}
      moves == idx < num_clients - 1 IN
  /\ subs' = subs
  /\ fd' = [c \in Conns |-> IF c \in gone THEN 0 ELSE fd[c]]
  /\ reg' = [c \in Conns |-> IF c \in gone THEN NotWatched ELSE reg[c]]
  /\ clients' = [i \in Ids |-> IF moves /\ i \in idx .. num_clients - 2
                               THEN clients[i + 1] ELSE clients[i]]
  /\ moved' = (moved \/ moves)
  /\ num_clients' = num_clients - 1
  /\ wants' = [c \in Conns |-> IF c \in gone THEN {} ELSE wants[c]]

\* Mutant: the counter is not decremented.
remove_client_KeepCount(idx) ==
  LET f == clients[idx]
      gone == {c \in Conns : fd[c] = f}
      moves == idx < num_clients - 1 IN
  /\ subs' = [i \in DOMAIN subs |-> [subs[i] EXCEPT !.fds = @ \ {f}]]
  /\ fd' = [c \in Conns |-> IF c \in gone THEN 0 ELSE fd[c]]
  /\ reg' = [c \in Conns |-> IF c \in gone THEN NotWatched ELSE reg[c]]
  /\ clients' = [i \in Ids |-> IF moves /\ i \in idx .. num_clients - 2
                               THEN clients[i + 1] ELSE clients[i]]
  /\ moved' = (moved \/ moves)
  /\ num_clients' = num_clients
  /\ wants' = [c \in Conns |-> IF c \in gone THEN {} ELSE wants[c]]

\* The descriptor leaves the subscriptions and epoll and is closed, if it is
\* still open; later entries of clients move down and keep their epoll index.
remove_client(idx) ==
  LET f == clients[idx]
      gone == {c \in Conns : fd[c] = f}
      moves == idx < num_clients - 1 IN
  /\ subs' = [i \in DOMAIN subs |-> [subs[i] EXCEPT !.fds = @ \ {f}]]
  /\ fd' = [c \in Conns |-> IF c \in gone THEN 0 ELSE fd[c]]
  /\ reg' = [c \in Conns |-> IF c \in gone THEN NotWatched ELSE reg[c]]
  /\ clients' = [i \in Ids |-> IF moves /\ i \in idx .. num_clients - 2
                               THEN clients[i + 1] ELSE clients[i]]
  /\ moved' = (moved \/ moves)
  /\ num_clients' = num_clients - 1
  /\ wants' = [c \in Conns |-> IF c \in gone THEN {} ELSE wants[c]]

\* The connections that recv on the event's client reads from: one, or none
\* when the descriptor has been closed.
Sources == {c \in Conns : fd[c] = clients[event.data]}

ClientEvent == pc = "event" /\ event.data # SrvFd

\* recv returns data.  It blocks while an open connection has none.
RecvData ==
  /\ ClientEvent
  /\ \E c \in Sources :
       /\ toDaemon[c] # <<>>
       /\ \E n \in {IF Len(toDaemon[c]) <= RecvLines THEN Len(toDaemon[c]) ELSE RecvLines} :
            /\ lines' = SubSeq(toDaemon[c], 1, n)
            /\ toDaemon' = [toDaemon EXCEPT ![c] = SubSeq(@, n + 1, Len(@))]
  /\ pc' = "lines"
  /\ UNCHANGED <<program, peer, sent, backlog, tables, batch, event, delivery>>

\* recv returns 0 at the end of the stream, or fails on a closed descriptor.
RecvEnd ==
  /\ ClientEvent
  /\ \A c \in Sources : toDaemon[c] = <<>> /\ peer[c] = "gone"
  /\ remove_client(event.data)
  /\ EventDone
  /\ UNCHANGED <<network, batch, lines, inbox>>

\* Mutant: a client that hung up is removed before its data is looked at.
LinesDone_HupFirst ==
  /\ pc = "lines"
  /\ \/ lines = <<>> /\ ~event.hup /\ UNCHANGED <<tables, subs, wants>>
     \/ event.hup /\ remove_client(event.data)
  /\ lines' = <<>>
  /\ EventDone
  /\ UNCHANGED <<network, batch, inbox>>

\* After the lines, a client that has hung up is removed.
LinesDone ==
  /\ pc = "lines" /\ lines = <<>>
  /\ \/ ~event.hup /\ UNCHANGED <<tables, subs, wants>>
     \/ event.hup /\ remove_client(event.data)
  /\ EventDone
  /\ UNCHANGED <<network, batch, lines, inbox>>

-----------------------------------------------------------------------------
(* handle_line *)

\* The line at hand is of this kind, and is taken.
Line(kind) == /\ pc = "lines" /\ lines # <<>>
              /\ Head(lines).kind = kind
              /\ lines' = Tail(lines)
              /\ UNCHANGED <<network, tables, pc, batch, event>>

Sender == clients[event.data]

\* Entries of the table whose topic matches, with this subscriber.
Matching(f, t) == {i \in DOMAIN subs : f \in subs[i].fds /\ topic_match(subs[i].topic, t)}

\* Mutant: the sender hears itself.
publish_Echo(t) ==
  inbox' = [c \in Conns |->
    IF peer[c] = "up" /\ fd[c] # 0
    THEN inbox[c] \o [i \in 1 .. Cardinality(Matching(fd[c], t)) |-> Pub(t)]
    ELSE inbox[c]]

\* One copy to a subscriber per matching entry, none to the sender; a send to a
\* client that has gone fails silently.
publish(t) ==
  inbox' = [c \in Conns |->
    IF peer[c] = "up" /\ fd[c] \notin {0, Sender}
    THEN inbox[c] \o [i \in 1 .. Cardinality(Matching(fd[c], t)) |-> Pub(t)]
    ELSE inbox[c]]

HandlePub == /\ Line("PUB")
             /\ publish(Head(lines).topic)
             /\ UNCHANGED <<subs, wants>>

Owners == {c \in Conns : fd[c] = Sender}

find_sub(p) == {i \in DOMAIN subs : subs[i].topic = p}

\* A new topic takes a new entry; with a full table the line has no effect.
HandleSub ==
  /\ Line("SUB")
  /\ LET p == Head(lines).topic IN
       /\ \/ /\ find_sub(p) = {} /\ Len(subs) < MaxSubs
             /\ subs' = Append(subs, [topic |-> p, fds |-> {Sender}])
          \/ /\ find_sub(p) = {} /\ Len(subs) >= MaxSubs
             /\ UNCHANGED subs
          \/ \E i \in find_sub(p) :
               IF Cardinality(subs[i].fds) < MaxClients
               THEN subs' = [subs EXCEPT ![i].fds = @ \cup {Sender}]
               ELSE UNCHANGED subs
       /\ wants' = [c \in Conns |-> IF c \in Owners THEN wants[c] \cup {p} ELSE wants[c]]
  /\ UNCHANGED inbox

HandleUnsub ==
  /\ Line("UNSUB")
  /\ LET p == Head(lines).topic IN
       /\ subs' = [i \in DOMAIN subs |->
                     IF i \in find_sub(p) THEN [subs[i] EXCEPT !.fds = @ \ {Sender}]
                     ELSE subs[i]]
       /\ wants' = [c \in Conns |-> IF c \in Owners THEN wants[c] \ {p} ELSE wants[c]]
  /\ UNCHANGED inbox

HandlePing ==
  /\ Line("PING")
  /\ inbox' = [c \in Conns |-> IF c \in Owners /\ peer[c] = "up"
                               THEN Append(inbox[c], PONG) ELSE inbox[c]]
  /\ UNCHANGED <<subs, wants>>

-----------------------------------------------------------------------------
Daemon == \/ EpollWait \/ NextEvent \/ Accept \/ RecvData \/ RecvEnd \/ LinesDone
          \/ HandlePub \/ HandleSub \/ HandleUnsub \/ HandlePing

Next == \/ \E c \in Conns : Client(c)
        \/ Daemon

\* The daemon goes on as long as no system call blocks it; clients owe nothing.
Spec == Init /\ [][Next]_vars /\ WF_vars(Daemon)

-----------------------------------------------------------------------------
(* Correctness *)

Watched == {c \in Conns : reg[c] # NotWatched}

\* The indices in epoll can be trusted: no entry has been moved from under one,
\* and none is mistaken for the listener.
Sound == ~moved /\ \A c \in Watched : reg[c] # SrvFd

TypeOK ==
  /\ program \in [Conns -> {"block", "ping", "pub", "sub"}]
  /\ peer \in [Conns -> {"new", "up", "gone"}]
  /\ sent \in [Conns -> Nat]
  /\ toDaemon \in [Conns -> Seq(Requests)] /\ inbox \in [Conns -> Seq(Requests \cup {PONG})]
  /\ backlog \in Seq(Conns)
  /\ fd \in [Conns -> Fds \cup {0}] /\ reg \in [Conns -> Ids \cup {NotWatched}]
  /\ clients \in [Ids -> Fds \cup {0}]
  /\ num_clients \in Int /\ num_clients <= MaxClients /\ (~moved => num_clients >= 0)
  /\ subs \in Seq([topic : Patterns, fds : SUBSET Fds]) /\ Len(subs) <= MaxSubs
  /\ pc \in {"wait", "event", "lines"}
  /\ event.data \in Ids \cup {SrvFd, NotWatched}
  /\ lines \in Seq(Requests)
  /\ wants \in [Conns -> SUBSET Patterns] /\ moved \in BOOLEAN

\* While no entry has been moved, every watched connection is in clients at the
\* index epoll reports for it, and clients holds nothing else.
IndicesInStep ==
  ~moved => /\ \A c \in Watched : /\ reg[c] < num_clients
                                 /\ clients[reg[c]] = fd[c] /\ fd[c] # 0
            /\ \A i \in 0 .. num_clients - 1 : \E c \in Watched : reg[c] = i

\* The descriptors of the open connections that have asked for the topic.
Wanting(p) == {fd[c] : c \in {d \in Conns : fd[d] # 0 /\ p \in wants[d]}}

\* The subscription table names only open connections that asked for the topic:
\* nothing of a departed client is left to its descriptor's next owner.  While
\* no entry has been moved it names all of them; later num_clients may be too
\* low, more clients than MaxClients get in, and one of them is refused.
SubsFaithful ==
  \A i \in DOMAIN subs : /\ subs[i].fds \subseteq Wanting(subs[i].topic)
                         /\ ~moved => Wanting(subs[i].topic) \subseteq subs[i].fds

\* The tables of the daemon agree with epoll and with the connections.
TablesFaithful == IndicesInStep /\ SubsFaithful

\* A publication reaches nobody but other clients that want it, and all of them
\* while no entry has been moved.
PublishReaches ==
  [][HandlePub =>
      LET t == Head(lines).topic
          heard == {c \in Conns : inbox'[c] # inbox[c]}
          wanting == {c \in Conns : /\ fd[c] # Sender /\ peer[c] = "up" /\ fd[c] # 0
                                    /\ \E p \in wants[c] : find_sub(p) # {} /\ topic_match(p, t)}
      IN heard \subseteq wanting /\ (~moved => heard = wanting)]_vars

\* "We must drain data first": a client that sends and closes at once is heard,
\* as long as what it sent fits one read.
DrainedBeforeClose ==
  [][\A c \in Conns :
       (~moved /\ fd[c] # 0 /\ fd'[c] = 0 /\ sent[c] <= RecvLines)
         => toDaemon[c] = <<>> /\ lines = <<>>]_vars

\* A PING of a client in the table is answered, unless it leaves.
PingAnswered ==
  \A c \in Conns :
    (c \in Watched /\ PING \in Range(toDaemon[c]))
      ~> (PONG \in Range(inbox[c]) \/ peer[c] = "gone" \/ ~Sound)

\* "Send PING, expect PONG".
PingReplied ==
  \A c \in Conns :
    (c \in Watched /\ PING \in Range(toDaemon[c]))
      ~> (PONG \in Range(inbox[c]) \/ peer[c] = "gone")
=============================================================================
