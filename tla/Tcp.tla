-------------------------------- MODULE Tcp --------------------------------
(***************************************************************************)
(* TCP sockets (network/tcp/Socket.zig): the table of sockets under one    *)
(* spinlock, connections made and closed by the processes and by the       *)
(* segments of their peers, tasks blocked in accept() on a listener's wait *)
(* queue, and the receive ring with its wrapping counters.                 *)
(*                                                                         *)
(* Every operation holds the lock and is one step.  There is one local     *)
(* port; a peer stands for an address and a port.  The sequence numbers of *)
(* this side are left out: whether a segment acknowledges all that was     *)
(* sent is part of the segment.  A byte of a peer is its sequence number;  *)
(* segments arrive once and in order, as the code assumes of its network   *)
(* ("lossless"): it does not compare their sequence numbers with rcv_nxt.  *)
(***************************************************************************)
EXTENDS Naturals, Sequences, FiniteSets

CONSTANTS
    Owners, Peers,
    Acceptors,      \* the tasks that call accept(), for the owner AcceptsFor
    AcceptsFor,
    TCP_MAX, RX_BUF_SIZE,
    Wrap,           \* where rx_head and rx_tail wrap; a multiple of RX_BUF_SIZE
    Payloads,       \* the lengths of payloads
    Talkers,        \* the peers that send data
    None

VARIABLES
    sockets,
    acceptor        \* of a task: whether it is in accept(), and on which socket

cvars == <<sockets, acceptor>>

----------------------------------------------------------------------------

Slots == 1 .. TCP_MAX

Empty == [k \in 0 .. RX_BUF_SIZE - 1 |-> 0]

\* The default of every field.  The last one is history: more bytes than the
\* ring holds were unread at some time.
Socket ==
    [state |-> "closed", in_use |-> FALSE, owner |-> None, is_listener |-> FALSE,
     remote |-> None, rcv_nxt |-> 0, rx_buf |-> Empty, rx_head |-> 0, rx_tail |-> 0,
     recv_fin |-> FALSE, accept_slot |-> 0, waiters |-> <<>>, overrun |-> FALSE]

Init ==
    /\ sockets = [s \in Slots |-> Socket]
    /\ acceptor = [t \in Acceptors |-> [at |-> "user", on |-> None]]

\* A slot that is not in use.  Its other fields are not read before they are
\* assigned again; the model forgets them.
Freed(sock) == [Socket EXCEPT !.waiters = sock.waiters]

ownedLocked(owner, s) == sockets[s].in_use /\ sockets[s].owner = owner

\* The first free slot, if there is one.
allocSlot(s) ==
    /\ ~ sockets[s].in_use
    /\ \A lower \in 1 .. s - 1 : sockets[lower].in_use

\* The connection with the peer, else the last listener.
findSocket(peer, s) ==
    LET connected == {c \in Slots : /\ sockets[c].in_use /\ ~ sockets[c].is_listener
                                    /\ sockets[c].remote = peer}
        listeners == {l \in Slots : sockets[l].in_use /\ sockets[l].is_listener}
    IN  IF connected # {}
        THEN s \in connected /\ \A c \in connected : s <= c
        ELSE s \in listeners /\ \A l \in listeners : l <= s

Wake(woken) ==
    acceptor' = [t \in Acceptors |->
                    IF t \in woken THEN [acceptor[t] EXCEPT !.at = "accept"] ELSE acceptor[t]]

----------------------------------------------------------------------------
\* The receive ring.

rxAvail(sock) == (sock.rx_tail + Wrap - sock.rx_head) % Wrap

\* How many bytes of a payload are stored: one counter value is kept free.
Room(sock, len) ==
    LET room == Wrap - 1 - rxAvail(sock) IN IF len < room THEN len ELSE room

rxPush(sock, len) ==
    LET n == Room(sock, len)
    IN  [sock EXCEPT
            !.rx_tail = (@ + n) % Wrap,
            !.rx_buf = [k \in DOMAIN @ |->
                LET stored == {i \in 0 .. n - 1 :
                                (((sock.rx_tail + i) % Wrap) % RX_BUF_SIZE) = k}
                    last == CHOOSE i \in stored : \A j \in stored : j <= i
                IN  IF stored = {} THEN @[k] ELSE (sock.rcv_nxt + last) % Wrap],
            !.rcv_nxt = (@ + len) % Wrap,
            !.overrun = @ \/ rxAvail(sock) + len > RX_BUF_SIZE]

\* Mutant: the head moves by what was asked for.
rxPop_asked(sock, len) == [sock EXCEPT !.rx_head = (@ + len) % Wrap]

rxPop(sock, len) ==
    LET n == IF len < rxAvail(sock) THEN len ELSE rxAvail(sock)
    IN  [sock EXCEPT !.rx_head = (@ + n) % Wrap]

----------------------------------------------------------------------------
\* What the processes do.

openListener(owner) ==
    /\ \E s \in Slots :
        /\ allocSlot(s)
        /\ sockets' = [sockets EXCEPT ![s] =
                [Socket EXCEPT !.in_use = TRUE, !.owner = owner, !.is_listener = TRUE,
                               !.state = "listen"]]
    /\ UNCHANGED acceptor

openConnect(owner) ==
    /\ \E s \in Slots, peer \in Peers :
        /\ allocSlot(s)
        /\ sockets' = [sockets EXCEPT ![s] =
                [Socket EXCEPT !.in_use = TRUE, !.owner = owner, !.remote = peer,
                               !.state = "syn_sent"]]
    /\ UNCHANGED acceptor

\* The loop of accept(): the listener is looked at again after every wakeup.
accept(t) ==
    /\ \/ acceptor[t].at = "accept"
       \/ acceptor[t].at = "user"
    /\ \E s \in Slots :
        /\ acceptor[t].at = "accept" => s = acceptor[t].on
        /\ \/ /\ ~ (ownedLocked(AcceptsFor, s) /\ sockets[s].is_listener)
              /\ acceptor' = [acceptor EXCEPT ![t] = [at |-> "user", on |-> None]]
              /\ UNCHANGED sockets
           \/ /\ ownedLocked(AcceptsFor, s) /\ sockets[s].is_listener
              /\ sockets[s].accept_slot # 0
              /\ sockets' = [sockets EXCEPT ![s].accept_slot = 0]
              /\ acceptor' = [acceptor EXCEPT ![t] = [at |-> "user", on |-> None]]
           \/ /\ ownedLocked(AcceptsFor, s) /\ sockets[s].is_listener
              /\ sockets[s].accept_slot = 0
              /\ sockets' = [sockets EXCEPT ![s].waiters = Append(@, t)]
              /\ acceptor' = [acceptor EXCEPT ![t] = [at |-> "blocked", on |-> s]]

\* Taking an accepted connection over for the object that will hold it.
reown(from, to) ==
    /\ \E s \in Slots :
        /\ ownedLocked(from, s) /\ ~ sockets[s].is_listener
        /\ sockets' = [sockets EXCEPT ![s].owner = to]
    /\ UNCHANGED acceptor

recvData(owner) ==
    /\ \E s \in Slots, len \in Payloads :
        /\ ownedLocked(owner, s)
        /\ sockets' = [sockets EXCEPT ![s] = rxPop(@, len)]
    /\ UNCHANGED acceptor

\* Mutant: the tasks that wait stay where they are.
ClosedSocket_waiters(sock) == Freed(sock)

\* The FIN of an established connection is sent, and the slot is free at once.
ClosedSocket(sock) == [Freed(sock) EXCEPT !.waiters = <<>>]

\* All that wait on the sockets are woken.
closeLocked(closing) ==
    /\ sockets' = [s \in Slots |-> IF s \in closing THEN ClosedSocket(sockets[s]) ELSE sockets[s]]
    /\ Wake({t \in Acceptors : \E s \in closing :
                /\ \E i \in DOMAIN sockets[s].waiters : sockets[s].waiters[i] = t
                /\ ClosedSocket(sockets[s]).waiters = <<>>})

closeSocket(owner) == \E s \in Slots : ownedLocked(owner, s) /\ closeLocked({s})

closeAllOwnedBy(owner) == closeLocked({s \in Slots : ownedLocked(owner, s)})

----------------------------------------------------------------------------
\* What the segments of a peer do.

Flags ==
    {{"syn"}, {"ack"}, {"syn", "ack"}, {"rst"}, {"ack", "fin"}, {"rst", "ack"}}

Reset(s) == sockets' = [sockets EXCEPT ![s] = Freed(@)]

handleListen(s, peer, flags) ==
    /\ "syn" \in flags /\ "ack" \notin flags
    /\ \E child \in Slots :
        /\ allocSlot(child)
        /\ sockets' = [sockets EXCEPT ![child] =
                [Socket EXCEPT !.in_use = TRUE, !.state = "syn_received",
                               !.owner = sockets[s].owner, !.remote = peer]]
    /\ UNCHANGED acceptor

handleSynSent(s, flags) ==
    /\ "syn" \in flags
    /\ IF "ack" \in flags THEN sockets' = [sockets EXCEPT ![s].state = "established"]
       ELSE Reset(s)
    /\ UNCHANGED acceptor

\* The first listener of the port is told, and one of its waiters woken.
NotifyListener(s) ==
    LET listeners == {l \in Slots : sockets[l].is_listener /\ sockets[l].state = "listen"}
        first == CHOOSE l \in listeners : \A m \in listeners : l <= m
        waiters == sockets[first].waiters
    IN  IF listeners = {}
        THEN /\ sockets' = [sockets EXCEPT ![s].state = "established"]
             /\ UNCHANGED acceptor
        ELSE /\ sockets' = [sockets EXCEPT
                    ![s].state = "established",
                    ![first].accept_slot = s,
                    ![first].waiters = IF @ = <<>> THEN @ ELSE Tail(@)]
             /\ Wake(IF waiters = <<>> THEN {} ELSE {Head(waiters)})

handleSynReceived(s, flags, acks) ==
    \/ "rst" \in flags /\ Reset(s) /\ UNCHANGED acceptor
    \/ "rst" \notin flags /\ "ack" \in flags /\ acks /\ NotifyListener(s)

handleEstablished(s, flags, len) ==
    /\ \/ "rst" \in flags /\ Reset(s)
       \/ /\ "rst" \notin flags /\ "ack" \in flags
          /\ len > 0 => ~ sockets[s].overrun   \* a bound: nothing is claimed after it
          /\ LET pushed == IF len = 0 THEN sockets[s] ELSE rxPush(sockets[s], len)
             IN  sockets' = [sockets EXCEPT ![s] =
                    IF "fin" \in flags
                    THEN [pushed EXCEPT !.rcv_nxt = (@ + 1) % Wrap, !.recv_fin = TRUE,
                                        !.state = "close_wait"]
                    ELSE pushed]
    /\ UNCHANGED acceptor

\* Only close_wait is met: closing a socket frees its slot.
handleLastAck(s, flags, acks) ==
    /\ "ack" \in flags /\ acks /\ Reset(s)
    /\ UNCHANGED acceptor

handleSegment(peer) ==
    \E s \in Slots, flags \in Flags, acks \in BOOLEAN,
       len \in {0} \cup (IF peer \in Talkers THEN Payloads ELSE {}) :
        /\ findSocket(peer, s)
        /\ \/ sockets[s].state = "listen" /\ len = 0 /\ handleListen(s, peer, flags)
           \/ sockets[s].state = "syn_sent" /\ len = 0 /\ handleSynSent(s, flags)
           \/ sockets[s].state = "syn_received" /\ len = 0 /\ handleSynReceived(s, flags, acks)
           \/ sockets[s].state = "established" /\ acks /\ handleEstablished(s, flags, len)
           \/ sockets[s].state = "close_wait" /\ len = 0 /\ handleLastAck(s, flags, acks)

Next ==
    \/ \E owner \in Owners :
        \/ openListener(owner) \/ openConnect(owner) \/ recvData(owner)
        \/ closeSocket(owner) \/ closeAllOwnedBy(owner)
        \/ \E to \in Owners : reown(owner, to)
    \/ \E t \in Acceptors : accept(t)
    \/ \E peer \in Peers : handleSegment(peer)

Spec == Init /\ [][Next]_cvars

----------------------------------------------------------------------------

\* A task that is blocked in accept() is in the wait queue of a listener that is
\* open, so that closing it, or a connection, will wake the task, although slots
\* are freed by closing, by resets and by the exit of their owner, and reused
\* with empty queues.  And no task sleeps while a connection is there for it,
\* unless another one was woken for it and has yet to look.
AcceptorsNotStranded ==
    /\ \A t \in Acceptors :
        acceptor[t].at = "blocked" =>
            LET l == sockets[acceptor[t].on]
            IN  /\ l.in_use /\ l.is_listener /\ l.state = "listen"
                /\ \E i \in DOMAIN l.waiters : l.waiters[i] = t
    /\ \A s \in Slots :
        sockets[s].accept_slot # 0 /\ sockets[s].waiters # <<>> =>
            \E t \in Acceptors : acceptor[t] = [at |-> "accept", on |-> s]

\* As long as the ring is not overrun, what a process will read are the bytes of
\* the peer that it has not read yet, in their order, across the wrap of the
\* counters.  (With more than RX_BUF_SIZE bytes unread, the test for a full ring
\* does not stop the oldest from being overwritten.)
UnreadInOrder ==
    \A s \in Slots :
        LET sock == sockets[s]
            unread == rxAvail(sock)
            end == IF sock.recv_fin THEN sock.rcv_nxt + Wrap - 1 ELSE sock.rcv_nxt + Wrap
        IN  sock.in_use /\ ~ sock.overrun =>
                \A i \in 0 .. unread - 1 :
                    sock.rx_buf[((sock.rx_head + i) % Wrap) % RX_BUF_SIZE] =
                        (end - unread + i) % Wrap

=============================================================================
