------------------------------ MODULE Endpoint ------------------------------
(***************************************************************************)
(* Endpoints (capabilities/types/Endpoint.zig) and the reply capabilities  *)
(* made for their callers (types/Reply.zig, user/handlers/capabilities.zig)*)
(* Clients send or call, servers receive in three ways and answer.  A      *)
(* critical section of the endpoint's lock is one action.  A task that     *)
(* blocks joins its queue in the section that releases the lock; a woken   *)
(* receiver locks again to read pending_msg, and in between others come    *)
(* first.  The capabilities in a message are CapabilityTable's subject.    *)
(***************************************************************************)
EXTENDS Optional, Naturals, Sequences, FiniteSets

CONSTANTS
    Clients, Servers,
    Repliers,       \* tasks that use the reply capabilities
    Caps,           \* reply capabilities that can exist at a time
    Receives,       \* the ways servers receive: "recv", "reply_recv", "recv_call"
    MaxMessages     \* messages of a client

Tasks == Clients \cup Servers

VARIABLES
    send_queue, call_queue, recv_queue, pending_msg, pending_sender,
    ipc_message, blocked,   \* of each task
    at,                     \* the operation that a task is in
    count,                  \* messages a client has begun to send
    handling,               \* the call a server has yet to answer itself
    taken,                  \* the caller that recvCall() gave to a server
    cap,                    \* the reply capabilities
    replier,                \* what a task that uses one is doing
    got,                    \* how often each message was received
    sent,                   \* messages whose send() has returned
    dropped                 \* callers whose receiver's buffer faulted

endpoint == <<send_queue, call_queue, recv_queue, pending_msg, pending_sender>>
task == <<ipc_message, blocked, at, count>>
server == <<handling, taken>>
reply == <<cap, replier>>
history == <<got, sent, dropped>>
vars == <<endpoint, task, server, reply, history>>

----------------------------------------------------------------------------

\* A request; is it a call; or the answer to it.
Requests == [from : Clients, n : 1..MaxMessages, call : BOOLEAN, answer : {FALSE}]
Answer(m) == [m EXCEPT !.answer = TRUE]
Empty == [from |-> None, n |-> 0, call |-> FALSE, answer |-> FALSE]
Messages == Requests \cup {Answer(m) : m \in Requests} \cup {Empty}

NoCap == [sender |-> None, refs |-> 0, slot |-> FALSE, about |-> Empty]
Idle == [does |-> "idle", cap |-> None, target |-> None]

\* Queues, messages, operations and capabilities have their types.
TypeOK ==
    /\ send_queue \in Seq(Clients) /\ call_queue \in Seq(Clients) /\ recv_queue \in Seq(Servers)
    /\ pending_msg \in Messages /\ pending_sender \in Clients \cup {None}
    /\ ipc_message \in [Clients -> Messages]
    /\ blocked \in [Tasks -> BOOLEAN]
    /\ at \in [Tasks -> {"idle", "send", "call", "recv", "reply_recv", "recv_call", "write"}]
    /\ handling \in [Servers -> Requests \cup {Empty}]
    /\ taken \in [Servers -> Clients \cup {None}]
    /\ \A k \in Caps : cap[k].refs \in 0..(1 + Cardinality(Repliers)) /\ cap[k].sender \in Clients \cup {None}
    /\ got \in [Requests -> Nat] /\ sent \subseteq Requests /\ dropped \subseteq Clients

Init ==
    /\ send_queue = <<>> /\ call_queue = <<>> /\ recv_queue = <<>>
    /\ pending_msg = Empty /\ pending_sender = None
    /\ ipc_message = [c \in Clients |-> Empty]
    /\ blocked = [t \in Tasks |-> FALSE]
    /\ at = [t \in Tasks |-> "idle"]
    /\ count = [c \in Clients |-> 0]
    /\ handling = [s \in Servers |-> Empty]
    /\ taken = [s \in Servers |-> None]
    /\ cap = [k \in Caps |-> NoCap]
    /\ replier = [r \in Repliers |-> Idle]
    /\ got = [m \in Requests |-> 0]
    /\ sent = {} /\ dropped = {}

Received(m) == got' = [got EXCEPT ![m] = @ + 1]

----------------------------------------------------------------------------
(* Clients *)

NextRequest(c, call) == [from |-> c, n |-> count[c] + 1, call |-> call, answer |-> FALSE]

Begins(c, m) ==
    /\ at[c] = "idle" /\ count[c] < MaxMessages
    /\ count' = [count EXCEPT ![c] = @ + 1]
    /\ ipc_message' = [ipc_message EXCEPT ![c] = m]

\* Mutant: the receiver stays in the queue.
SendPeeks(c) ==
    LET m == NextRequest(c, FALSE) IN
    /\ Begins(c, m)
    /\ recv_queue # <<>>
    /\ pending_msg' = m
    /\ blocked' = [blocked EXCEPT ![Head(recv_queue)] = FALSE]
    /\ sent' = sent \cup {m}
    /\ UNCHANGED <<recv_queue, send_queue, call_queue, pending_sender, at, server, reply, got, dropped>>

\* send() finds a waiting receiver: it leaves the message in pending_msg,
\* wakes the receiver and returns.
SendHandsOver(c) ==
    LET m == NextRequest(c, FALSE) IN
    /\ Begins(c, m)
    /\ recv_queue # <<>>
    /\ recv_queue' = Tail(recv_queue)
    /\ pending_msg' = m
    /\ blocked' = [blocked EXCEPT ![Head(recv_queue)] = FALSE]
    /\ sent' = sent \cup {m}
    /\ UNCHANGED <<send_queue, call_queue, pending_sender, at, server, reply, got, dropped>>

SendBlocks(c) ==
    /\ Begins(c, NextRequest(c, FALSE))
    /\ recv_queue = <<>>
    /\ send_queue' = Append(send_queue, c)
    /\ blocked' = [blocked EXCEPT ![c] = TRUE]
    /\ at' = [at EXCEPT ![c] = "send"]
    /\ UNCHANGED <<call_queue, recv_queue, pending_msg, pending_sender, server, reply, history>>

SendReturns(c) ==
    /\ at[c] = "send" /\ ~blocked[c]
    /\ at' = [at EXCEPT ![c] = "idle"]
    /\ sent' = sent \cup {ipc_message[c]}
    /\ UNCHANGED <<endpoint, ipc_message, blocked, count, server, reply, got, dropped>>

\* call() finds a waiting receiver: it becomes the pending sender.
CallHandsOver(c) ==
    LET m == NextRequest(c, TRUE) IN
    /\ Begins(c, m)
    /\ recv_queue # <<>>
    /\ recv_queue' = Tail(recv_queue)
    /\ pending_msg' = m
    /\ pending_sender' = c
    /\ blocked' = [blocked EXCEPT ![Head(recv_queue)] = FALSE, ![c] = TRUE]
    /\ at' = [at EXCEPT ![c] = "call"]
    /\ UNCHANGED <<send_queue, call_queue, server, reply, history>>

CallBlocks(c) ==
    /\ Begins(c, NextRequest(c, TRUE))
    /\ recv_queue = <<>>
    /\ call_queue' = Append(call_queue, c)
    /\ blocked' = [blocked EXCEPT ![c] = TRUE]
    /\ at' = [at EXCEPT ![c] = "call"]
    /\ UNCHANGED <<send_queue, recv_queue, pending_msg, pending_sender, server, reply, history>>

CallReturns(c) ==
    /\ at[c] = "call" /\ ~blocked[c]
    /\ at' = [at EXCEPT ![c] = "idle"]
    /\ UNCHANGED <<endpoint, ipc_message, blocked, count, server, reply, history>>

----------------------------------------------------------------------------
(* Servers.  A server answers a call that it received with recv() or          *)
(* replyRecv() before it receives again with anything but replyRecv().        *)

MayReceive(s, op) ==
    /\ op \in Receives
    /\ at[s] = "idle"
    /\ op = "reply_recv" \/ handling[s] = Empty

\* The first half of replyRecv(): answer the pending sender, if there is one.
\* What it leaves of blocked and ipc_message, the second half changes further.
Answers(s, op) == op = "reply_recv" /\ pending_sender # None

AfterAnswer(s, op) ==
    IF Answers(s, op)
    THEN [blocked |-> [blocked EXCEPT ![pending_sender] = FALSE],
          ipc_message |-> [ipc_message EXCEPT ![pending_sender] = Answer(handling[s])]]
    ELSE [blocked |-> blocked, ipc_message |-> ipc_message]

\* The oldest caller: recv() and replyRecv() leave it as the pending sender;
\* recvCall() gives it to the handler.
ReceiveCaller(s, op) ==
    /\ MayReceive(s, op)
    /\ call_queue # <<>>
    /\ LET c == Head(call_queue)
           m == ipc_message[c]
       IN  /\ Received(m)
           /\ \/ /\ op = "recv_call"
                 /\ taken' = [taken EXCEPT ![s] = c]
                 /\ at' = [at EXCEPT ![s] = "write"]
                 /\ UNCHANGED <<pending_msg, pending_sender, handling>>
              \/ /\ op # "recv_call"
                 /\ pending_msg' = m /\ pending_sender' = c
                 /\ handling' = [handling EXCEPT ![s] = m]
                 /\ UNCHANGED <<at, taken>>
    /\ call_queue' = Tail(call_queue)
    /\ blocked' = AfterAnswer(s, op).blocked
    /\ ipc_message' = AfterAnswer(s, op).ipc_message
    /\ UNCHANGED <<send_queue, recv_queue, count, reply, sent, dropped>>

\* Mutant: the sender stays in the queue.
ReceiveSenderPeeks(s, op) ==
    /\ MayReceive(s, op)
    /\ call_queue = <<>> /\ send_queue # <<>>
    /\ Received(ipc_message[Head(send_queue)])
    /\ blocked' = [AfterAnswer(s, op).blocked EXCEPT ![Head(send_queue)] = FALSE]
    /\ ipc_message' = AfterAnswer(s, op).ipc_message
    /\ pending_sender' = IF Answers(s, op) THEN None ELSE pending_sender
    /\ handling' = [handling EXCEPT ![s] = Empty]
    /\ UNCHANGED <<send_queue, call_queue, recv_queue, pending_msg, at, count, taken, reply, sent, dropped>>

\* No caller, but a sender: it is woken.
ReceiveSender(s, op) ==
    /\ MayReceive(s, op)
    /\ call_queue = <<>> /\ send_queue # <<>>
    /\ Received(ipc_message[Head(send_queue)])
    /\ send_queue' = Tail(send_queue)
    /\ blocked' = [AfterAnswer(s, op).blocked EXCEPT ![Head(send_queue)] = FALSE]
    /\ ipc_message' = AfterAnswer(s, op).ipc_message
    /\ pending_sender' = IF Answers(s, op) THEN None ELSE pending_sender
    /\ handling' = [handling EXCEPT ![s] = Empty]
    /\ UNCHANGED <<call_queue, recv_queue, pending_msg, at, count, taken, reply, sent, dropped>>

ReceiveBlocks(s, op) ==
    /\ MayReceive(s, op)
    /\ call_queue = <<>> /\ send_queue = <<>>
    /\ recv_queue' = Append(recv_queue, s)
    /\ blocked' = [AfterAnswer(s, op).blocked EXCEPT ![s] = TRUE]
    /\ ipc_message' = AfterAnswer(s, op).ipc_message
    /\ pending_sender' = IF Answers(s, op) THEN None ELSE pending_sender
    /\ handling' = [handling EXCEPT ![s] = Empty]
    /\ at' = [at EXCEPT ![s] = op]
    /\ UNCHANGED <<send_queue, call_queue, pending_msg, count, taken, reply, history>>

\* A woken recv() reads pending_msg.  It lets a caller go with an empty
\* answer, since nothing tells its server that there is one to answer.
ResumeRecv(s) ==
    /\ at[s] = "recv" /\ ~blocked[s]
    /\ Received(pending_msg)
    /\ blocked' = IF pending_sender = None THEN blocked ELSE [blocked EXCEPT ![pending_sender] = FALSE]
    /\ ipc_message' = IF pending_sender = None THEN ipc_message
                      ELSE [ipc_message EXCEPT ![pending_sender] = Empty]
    /\ pending_sender' = None
    /\ handling' = [handling EXCEPT ![s] = IF pending_msg.call THEN pending_msg ELSE Empty]
    /\ at' = [at EXCEPT ![s] = "idle"]
    /\ UNCHANGED <<send_queue, call_queue, recv_queue, pending_msg, count, taken, reply, sent, dropped>>

\* A woken replyRecv() leaves the caller pending.
ResumeReplyRecv(s) ==
    /\ at[s] = "reply_recv" /\ ~blocked[s]
    /\ Received(pending_msg)
    /\ handling' = [handling EXCEPT ![s] = IF pending_msg.call THEN pending_msg ELSE Empty]
    /\ at' = [at EXCEPT ![s] = "idle"]
    /\ UNCHANGED <<endpoint, ipc_message, blocked, count, taken, reply, sent, dropped>>

\* Mutant: recvCall() leaves the caller in pending_sender too.
ResumeKeepsSender(s) ==
    /\ at[s] = "recv_call" /\ ~blocked[s]
    /\ Received(pending_msg)
    /\ taken' = [taken EXCEPT ![s] = pending_sender]
    /\ at' = [at EXCEPT ![s] = "write"]
    /\ UNCHANGED <<endpoint, ipc_message, blocked, count, handling, reply, sent, dropped>>

\* A woken recvCall() takes the caller over.
ResumeRecvCall(s) ==
    /\ at[s] = "recv_call" /\ ~blocked[s]
    /\ Received(pending_msg)
    /\ taken' = [taken EXCEPT ![s] = pending_sender]
    /\ pending_sender' = None
    /\ at' = [at EXCEPT ![s] = "write"]
    /\ UNCHANGED <<send_queue, call_queue, recv_queue, pending_msg, ipc_message, blocked, count, handling, reply, sent, dropped>>

\* reply(): the pending sender gets the answer; without one it is an error.
AnswerCall(s) ==
    /\ at[s] = "idle" /\ handling[s] # Empty
    /\ \/ /\ pending_sender # None
          /\ ipc_message' = [ipc_message EXCEPT ![pending_sender] = Answer(handling[s])]
          /\ blocked' = [blocked EXCEPT ![pending_sender] = FALSE]
          /\ pending_sender' = None
       \/ /\ pending_sender = None
          /\ UNCHANGED <<ipc_message, blocked, pending_sender>>
    /\ handling' = [handling EXCEPT ![s] = Empty]
    /\ UNCHANGED <<send_queue, call_queue, recv_queue, pending_msg, at, count, taken, reply, history>>

----------------------------------------------------------------------------
(* recv_call's handler and the reply capabilities *)

Wakes(c, m) ==
    /\ blocked' = [blocked EXCEPT ![c] = FALSE]
    /\ ipc_message' = [ipc_message EXCEPT ![c] = m]

HandlerReturns(s) ==
    /\ at[s] = "write"
    /\ at' = [at EXCEPT ![s] = "idle"]
    /\ taken' = [taken EXCEPT ![s] = None]

\* The message is copied to the server's buffer, and a reply capability made
\* for the caller.
MakeReply(s) ==
    /\ HandlerReturns(s)
    /\ taken[s] # None
    /\ \E k \in Caps :
          /\ cap[k].refs = 0
          /\ cap' = [cap EXCEPT ![k] = [sender |-> taken[s], refs |-> 1, slot |-> TRUE,
                                        about |-> ipc_message[taken[s]]]]
    /\ UNCHANGED <<endpoint, ipc_message, blocked, count, handling, replier, history>>

\* No memory or no slot for it: the caller gets an empty answer.
MakeReplyFails(s) ==
    /\ HandlerReturns(s)
    /\ taken[s] # None
    /\ Wakes(taken[s], Empty)
    /\ UNCHANGED <<endpoint, count, handling, reply, history>>

\* A sender's message needs no reply.
ReceivedPlain(s) ==
    /\ HandlerReturns(s)
    /\ taken[s] = None
    /\ UNCHANGED <<endpoint, ipc_message, blocked, count, handling, reply, history>>

\* The buffer, checked before the wait, faults now: the handler returns and
\* the caller is forgotten.
WriteFaults(s) ==
    /\ HandlerReturns(s)
    /\ taken[s] # None
    /\ dropped' = dropped \cup {taken[s]}
    /\ UNCHANGED <<endpoint, ipc_message, blocked, count, handling, reply, got, sent>>

\* cap_invoke on the capability: a reference, then Reply.send().
InvokeReply(r) ==
    /\ replier[r] = Idle
    /\ \E k \in Caps :
          /\ cap[k].slot
          /\ cap' = [cap EXCEPT ![k].refs = @ + 1]
          /\ replier' = [replier EXCEPT ![r] = [does |-> "swap", cap |-> k, target |-> None]]
    /\ UNCHANGED <<endpoint, task, server, history>>

\* Mutant: the sender is read and cleared in two steps, here the first only.
SwapReads(r) ==
    /\ replier[r].does = "swap"
    /\ replier' = [replier EXCEPT ![r].does = "deliver", ![r].target = cap[replier[r].cap].sender]
    /\ UNCHANGED <<endpoint, task, server, cap, history>>

\* The swap decides who delivers; the loser has AlreadyReplied.
Swap(r) ==
    /\ replier[r].does = "swap"
    /\ LET k == replier[r].cap IN
       /\ cap' = [cap EXCEPT ![k].sender = None]
       /\ replier' = [replier EXCEPT ![r].does = IF cap[k].sender = None THEN "unref" ELSE "deliver",
                                     ![r].target = cap[k].sender]
    /\ UNCHANGED <<endpoint, task, server, history>>

Deliver(r) ==
    /\ replier[r].does = "deliver"
    /\ Wakes(replier[r].target, Answer(cap[replier[r].cap].about))
    /\ replier' = [replier EXCEPT ![r].does = "unref", ![r].target = None]
    /\ UNCHANGED <<endpoint, at, count, server, cap, history>>

\* Mutant: the last reference goes without an answer.
DropSilently(k, slot) ==
    /\ cap' = [cap EXCEPT ![k] = IF cap[k].refs = 1 THEN NoCap ELSE [@ EXCEPT !.refs = @ - 1, !.slot = slot]]
    /\ UNCHANGED <<blocked, ipc_message>>

\* unref(): the last reference lets a caller without an answer go.
DropRef(k, slot) ==
    /\ cap' = [cap EXCEPT ![k] = IF cap[k].refs = 1 THEN NoCap ELSE [@ EXCEPT !.refs = @ - 1, !.slot = slot]]
    /\ IF cap[k].refs = 1 /\ cap[k].sender # None
       THEN Wakes(cap[k].sender, Empty)
       ELSE UNCHANGED <<blocked, ipc_message>>

EndInvoke(r) ==
    /\ replier[r].does = "unref"
    /\ DropRef(replier[r].cap, cap[replier[r].cap].slot)
    /\ replier' = [replier EXCEPT ![r] = Idle]
    /\ UNCHANGED <<endpoint, at, count, server, history>>

\* cap_delete, or the end of the process that has the capability.
DeleteReply(k) ==
    /\ cap[k].slot
    /\ DropRef(k, FALSE)
    /\ UNCHANGED <<endpoint, at, count, server, replier, history>>

----------------------------------------------------------------------------

ClientStep(c) ==
    \/ SendHandsOver(c) \/ SendBlocks(c) \/ SendReturns(c)
    \/ CallHandsOver(c) \/ CallBlocks(c) \/ CallReturns(c)

ServerStep(s) ==
    \/ \E op \in Receives : ReceiveCaller(s, op) \/ ReceiveSender(s, op) \/ ReceiveBlocks(s, op)
    \/ ResumeRecv(s) \/ ResumeReplyRecv(s) \/ ResumeRecvCall(s) \/ AnswerCall(s)
    \/ MakeReply(s) \/ MakeReplyFails(s) \/ ReceivedPlain(s) \/ WriteFaults(s)

ReplierStep(r) == Swap(r) \/ Deliver(r) \/ EndInvoke(r)

Next ==
    \/ \E c \in Clients : ClientStep(c)
    \/ \E s \in Servers : ServerStep(s)
    \/ \E r \in Repliers : InvokeReply(r) \/ ReplierStep(r)
    \/ \E k \in Caps : DeleteReply(k)

Spec == Init /\ [][Next]_vars

\* Servers go on, invocations end, capabilities are deleted in the end (when
\* their process ends, if not before), and woken tasks return.
Fairness ==
    /\ \A s \in Servers : WF_vars(ServerStep(s))
    /\ \A r \in Repliers : WF_vars(ReplierStep(r))
    /\ \A k \in Caps : WF_vars(DeleteReply(k))
    /\ \A c \in Clients : WF_vars(SendReturns(c)) /\ WF_vars(CallReturns(c))

FairSpec == Spec /\ Fairness

----------------------------------------------------------------------------
(* Properties *)

\* "The sender is unblocked only after the message has been picked up"
\* (Endpoint.zig:79): a message whose send() returned was received, or waits
\* in pending_msg for a receiver that has been woken.
Delivered ==
    \A m \in sent :
        \/ got[m] > 0
        \/ pending_msg = m /\ \E s \in Servers : at[s] \in Receives /\ ~blocked[s]

\* No message is received twice.
ReceivedOnce == \A m \in Requests : got[m] <= 1

\* A task sleeps in exactly one place from which it can be woken, and nothing
\* else points to it: no wakeup meets a running task and no caller is
\* forgotten, except by a receiver whose buffer faulted.
Places(c) ==
    {<<"queue", i>> : i \in {i \in 1..Len(call_queue) : call_queue[i] = c}}
      \cup {<<"senders", i>> : i \in {i \in 1..Len(send_queue) : send_queue[i] = c}}
      \cup {<<"pending", 1>> : x \in {x \in {c} : pending_sender = c}}
      \cup {<<"taken", s>> : s \in {s \in Servers : taken[s] = c}}
      \cup {<<"cap", k>> : k \in {k \in Caps : cap[k].sender = c}}
      \cup {<<"replier", r>> : r \in {r \in Repliers : replier[r].target = c}}

OneWaker ==
    /\ TypeOK
    /\ \A c \in Clients \ dropped : Cardinality(Places(c)) = IF blocked[c] THEN 1 ELSE 0

\* A message whose send() returned was received, or is about to be, none is
\* received twice, and a task sleeps in exactly one place it can be woken from.
MessagesAndWakers == Delivered /\ ReceivedOnce /\ OneWaker

\* What a call returns is the answer to its own request, or empty.
AnswersMatch ==
    [][\A c \in Clients :
          at[c] = "call" /\ at'[c] = "idle" =>
              ipc_message[c] = Empty
                \/ (ipc_message[c].from = c /\ ipc_message[c].n = count[c] /\ ipc_message[c].answer)]_vars

\* Every call returns, whether its server answers, drops the reply capability
\* or fails to make one, unless the server's buffer faulted.
CallsReturn == \A c \in Clients : at[c] = "call" ~> at[c] = "idle" \/ c \in dropped

=============================================================================
