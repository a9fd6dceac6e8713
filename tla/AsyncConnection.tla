--------------------------- MODULE AsyncConnection ---------------------------
(***************************************************************************)
(* The asyncio connection driver of redis/io/aio.py: AsyncIORedisConnection *)
(* (connect, on_connect, disconnect, read_response) and the asyncio.Protocol *)
(* RedisAsyncIOProtocol it drives (send_command, data_received, _get_fut,    *)
(* connection_lost).  Client tasks share connection objects and issue      *)
(* commands; each command leaves a waiter in the connection's FIFO and the  *)
(* read callback pops one waiter per parsed reply.                          *)
(*                                                                         *)
(* Every connection made from one SansIORedisProtocol holds the SAME       *)
(* RedisOperator (RedisAsyncIOProtocol.__init__: self.operator =            *)
(* proto.operator), hence the same incremental reader: its buffer `buf` is  *)
(* a single variable shared by all connections.                            *)
(*                                                                         *)
(* Data is abstracted to which request a reply answers: a reply is sent by  *)
(* the server as one piece, or (SplitReplies) as a head and a tail piece   *)
(* that arrive in different reads.  The event loop runs one callback or    *)
(* one task step at a time, so every action below is one uninterrupted     *)
(* stretch of code between two suspension points.                          *)
(***************************************************************************)
EXTENDS Naturals, Sequences, FiniteSets

CONSTANTS
    Tasks,        \* client tasks that use the connections
    Conns,        \* connection objects (AsyncIORedisConnection + protocol)
    MaxReq,       \* bound: requests (commands or HELLO) a task issues
    MaxConnects,  \* bound: connect() attempts per connection object
    SplitReplies, \* may a reply frame arrive split over two reads?
    Timeouts,     \* is SocketInfo.timeout set (read_response times out)?
    NoTask        \* model value: the connect lock is free

ASSUME /\ MaxReq \in Nat \ {0}
       /\ MaxConnects \in Nat \ {0}
       /\ SplitReplies \in BOOLEAN
       /\ Timeouts \in BOOLEAN
       /\ NoTask \notin Tasks

\* A request is identified by the task that sent it and its sequence number.
Req == Tasks \X (1..MaxReq)
Piece == [req : Req, part : {"whole", "head", "tail"}]
\* The values of RedisAsyncIOProtocol._exc, "none" for None.
Excs == {"none", "lost", "invalid", "fatal", "oserror"}
\* What a task's last call ended with: the reply it was handed (to request
\* req), a value parsed from the pieces of two replies ("garbage"), or the
\* error it raised.
NoReq == <<NoTask, 0>>
Outcomes == [kind : Excs \cup {"reply", "garbage", "timeout", "refused", "closed",
                                "conn_error", "pending"},
             req : Req \cup {NoReq}]
Reply(r) == [kind |-> "reply", req |-> r]
Err(e) == [kind |-> e, req |-> NoReq]

VARIABLES
    state,     \* RedisAsyncIOProtocol._state
    exc,       \* RedisAsyncIOProtocol._exc
    tr,        \* the current transport: "none", "open", "closing", "closed"
    lost,      \* connection_lost(exc) scheduled by the loop: "no" or its exc
    leaked,    \* transports replaced while still open, never closed
    waiters,   \* RedisAsyncIOProtocol._waiters: FIFO of requests
    wire,      \* requests written on the current transport, not yet answered
    inbound,   \* reply pieces in flight from the server, in order
    buf,       \* the shared reader's buffer of received, unparsed pieces
    lock,      \* AsyncIORedisConnection._connectlock: its holder or NoTask
    connects,  \* connect() attempts per connection
    pc,        \* where each task is
    n,         \* requests issued by each task
    conn,      \* the connection a task last used
    got        \* what each task's last call ended with

vars == <<state, exc, tr, lost, leaked, waiters, wire, inbound, buf, lock,
          connects, pc, n, conn, got>>
taskVars == <<pc, n, conn, got>>

-----------------------------------------------------------------------------
(* The reader.  Parse(b) is one call of reader.gets(): the first complete   *)
(* value of the buffer and what remains, or nothing when the buffer holds   *)
(* less than a frame.  A head followed by anything but its own tail is read *)
(* as one value made of two replies (an array header completed by another  *)
(* reply's bytes), and so is a tail left without its head.                 *)
Parse(b) ==
    IF b = <<>> \/ (Len(b) = 1 /\ b[1].part = "head")
    THEN [some |-> FALSE]
    ELSE CASE b[1].part = "whole" ->
                [some |-> TRUE, val |-> Reply(b[1].req), rest |-> Tail(b)]
           [] b[1].part = "head" /\ b[2] = [req |-> b[1].req, part |-> "tail"] ->
                [some |-> TRUE, val |-> Reply(b[1].req), rest |-> Tail(Tail(b))]
           [] b[1].part = "head" ->
                [some |-> TRUE, val |-> Err("garbage"), rest |-> Tail(Tail(b))]
           [] OTHER ->
                [some |-> TRUE, val |-> Err("garbage"), rest |-> Tail(b)]

\* A waiter whose task still awaits its future; any other waiter's future
\* was cancelled when read_response timed out.
Live(w, pcs) == pcs[w[1]] \in {"await", "hello"} /\ n[w[1]] = w[2]

(* The loop of data_received over operator.iterparse(): each parsed value   *)
(* pops the head waiter (_get_fut); with no waiter the protocol is marked   *)
(* in error with InvalidResponse and the value dropped; a live future gets  *)
(* the reply and its task is resumed.  set_result on a cancelled future     *)
(* raises InvalidStateError out of data_received: the loop stops with the  *)
(* rest of the data still in the reader and the transport's _fatal_error   *)
(* closes it.                                                              *)
\* Mutant: set_result on the head waiter whatever became of its task.
RECURSIVE DrainNoLive(_)
DrainNoLive(s) ==
    LET v == Parse(s.buf) IN
    IF ~v.some THEN s
    ELSE IF s.ws = <<>>
    THEN DrainNoLive([s EXCEPT !.buf = v.rest, !.st = "error", !.ex = "invalid"])
    ELSE LET w == Head(s.ws) IN
         DrainNoLive([s EXCEPT !.buf = v.rest, !.ws = Tail(s.ws),
                               !.pc[w[1]] = IF @ = "hello" THEN "ready" ELSE "idle",
                               !.got[w[1]] = v.val])

RECURSIVE Drain(_)
Drain(s) ==
    LET v == Parse(s.buf) IN
    IF ~v.some THEN s
    ELSE IF s.ws = <<>>
    THEN Drain([s EXCEPT !.buf = v.rest, !.st = "error", !.ex = "invalid"])
    ELSE LET w == Head(s.ws) IN
         IF Live(w, s.pc)
         THEN Drain([s EXCEPT !.buf = v.rest, !.ws = Tail(s.ws),
                              !.pc[w[1]] = IF @ = "hello" THEN "ready" ELSE "idle",
                              !.got[w[1]] = v.val])
         ELSE [s EXCEPT !.buf = v.rest, !.ws = Tail(s.ws), !.fatal = TRUE]

\* RedisAsyncIOProtocol.is_connected
IsConnected(c) == state[c] = "connected" /\ tr[c] = "open"

-----------------------------------------------------------------------------
\* Mutant: the waiter is put at the head of the FIFO (appendleft).
SendWriteAppendLeft(t, c) ==
    /\ pc[t] = "idle" /\ n[t] < MaxReq
    /\ state[c] = "connected" /\ tr[c] = "open"
    /\ LET r == <<t, n[t] + 1>> IN
       /\ wire' = [wire EXCEPT ![c] = Append(@, r)]
       /\ waiters' = [waiters EXCEPT ![c] = <<r>> \o @]
    /\ pc' = [pc EXCEPT ![t] = "await"]
    /\ n' = [n EXCEPT ![t] = @ + 1]
    /\ conn' = [conn EXCEPT ![t] = c]
    /\ got' = [got EXCEPT ![t] = Err("pending")]
    /\ UNCHANGED <<state, exc, tr, lost, leaked, inbound, buf, lock, connects>>

(* send_command in state connected on an open transport: write the payload *)
(* and append (command, future) to the waiters; read_response then awaits  *)
(* the future.                                                             *)
SendWrite(t, c) ==
    /\ pc[t] = "idle" /\ n[t] < MaxReq
    /\ state[c] = "connected" /\ tr[c] = "open"
    /\ LET r == <<t, n[t] + 1>> IN
       /\ wire' = [wire EXCEPT ![c] = Append(@, r)]
       /\ waiters' = [waiters EXCEPT ![c] = Append(@, r)]
    /\ pc' = [pc EXCEPT ![t] = "await"]
    /\ n' = [n EXCEPT ![t] = @ + 1]
    /\ conn' = [conn EXCEPT ![t] = c]
    /\ got' = [got EXCEPT ![t] = Err("pending")]
    /\ UNCHANGED <<state, exc, tr, lost, leaked, inbound, buf, lock, connects>>

(* send_command while the transport is closing: the future is resolved    *)
(* with ConnectionClosed(), and _do_send_and_read_command then reads       *)
(* response.reply, which that event does not have.                         *)
SendClosing(t, c) ==
    /\ pc[t] = "idle" /\ n[t] < MaxReq
    /\ state[c] = "connected" /\ tr[c] = "closing"
    /\ n' = [n EXCEPT ![t] = @ + 1]
    /\ conn' = [conn EXCEPT ![t] = c]
    /\ got' = [got EXCEPT ![t] = Err("closed")]
    /\ UNCHANGED <<state, exc, tr, lost, leaked, waiters, wire, inbound, buf,
                   lock, connects, pc>>

(* send_command when not connected raises ConnectionError; in state error  *)
(* it raises the stored exception.                                         *)
SendRaise(t, c) ==
    /\ pc[t] = "idle" /\ n[t] < MaxReq
    /\ state[c] # "connected"
    /\ n' = [n EXCEPT ![t] = @ + 1]
    /\ conn' = [conn EXCEPT ![t] = c]
    /\ got' = [got EXCEPT ![t] = IF state[c] = "not_connected"
                                 THEN Err("refused") ELSE Err(exc[c])]
    /\ UNCHANGED <<state, exc, tr, lost, leaked, waiters, wire, inbound, buf,
                   lock, connects, pc>>

(* data_received(data) with the next chunk of the stream: ignored unless   *)
(* connected; otherwise fed to the shared reader and drained.              *)
DataReceived(c) ==
    /\ tr[c] = "open" /\ inbound[c] # <<>>
    /\ \E k \in 1..Len(inbound[c]) :
        LET chunk == SubSeq(inbound[c], 1, k)
            s == Drain([buf |-> buf \o chunk, ws |-> waiters[c], st |-> state[c],
                        ex |-> exc[c], pc |-> pc, got |-> got, fatal |-> FALSE])
        IN
        /\ inbound' = [inbound EXCEPT ![c] = SubSeq(@, k + 1, Len(@))]
        /\ IF state[c] # "connected"
           THEN UNCHANGED <<buf, waiters, state, exc, pc, got, tr, lost>>
           ELSE /\ buf' = s.buf
                /\ waiters' = [waiters EXCEPT ![c] = s.ws]
                /\ state' = [state EXCEPT ![c] = s.st]
                /\ exc' = [exc EXCEPT ![c] = s.ex]
                /\ pc' = s.pc
                /\ got' = s.got
                /\ tr' = [tr EXCEPT ![c] = IF s.fatal THEN "closing" ELSE @]
                /\ lost' = [lost EXCEPT ![c] = IF s.fatal THEN "fatal" ELSE @]
    /\ UNCHANGED <<leaked, wire, lock, connects, n, conn>>

\* Mutant: the timed-out task's waiter is taken out of the FIFO.
TimeoutDropWaiter(t) ==
    /\ Timeouts
    /\ pc[t] = "await"
    /\ pc' = [pc EXCEPT ![t] = "idle"]
    /\ got' = [got EXCEPT ![t] = Err("timeout")]
    /\ waiters' = [waiters EXCEPT ![conn[t]] =
                     SelectSeq(@, LAMBDA w : w # <<t, n[t]>>)]
    /\ UNCHANGED <<state, exc, tr, lost, leaked, wire, inbound, buf,
                   lock, connects, n, conn>>

(* read_response: async_timeout(socket timeout) expires while the task     *)
(* awaits its future.  The task gets RedisTimeoutError and its future is   *)
(* cancelled; the waiter stays in the FIFO.                                *)
Timeout(t) ==
    /\ Timeouts
    /\ pc[t] = "await"
    /\ pc' = [pc EXCEPT ![t] = "idle"]
    /\ got' = [got EXCEPT ![t] = Err("timeout")]
    /\ UNCHANGED <<state, exc, tr, lost, leaked, waiters, wire, inbound, buf,
                   lock, connects, n, conn>>

(* disconnect(): if is_connected, close the transport; the loop calls      *)
(* connection_lost(None) later.                                            *)
Disconnect(c) ==
    /\ IsConnected(c)
    /\ tr' = [tr EXCEPT ![c] = "closing"]
    /\ lost' = [lost EXCEPT ![c] = "none"]
    /\ UNCHANGED <<state, exc, leaked, waiters, wire, inbound, buf, lock,
                   connects, taskVars>>

(* connection_lost(exc): with an exception, state error with it; with None *)
(* from state connected, state error with ConnectionError("Lost connection *)
(* to server.").  The waiters and the reader are left as they are.          *)
ConnectionLost(c) ==
    /\ lost[c] # "no"
    /\ \/ /\ lost[c] # "none"
          /\ state' = [state EXCEPT ![c] = "error"]
          /\ exc' = [exc EXCEPT ![c] = lost[c]]
       \/ /\ lost[c] = "none"
          /\ state' = [state EXCEPT ![c] = IF @ = "connected" THEN "error" ELSE @]
          /\ exc' = [exc EXCEPT ![c] = IF state[c] = "connected" THEN "lost" ELSE @]
    /\ lost' = [lost EXCEPT ![c] = "no"]
    /\ tr' = [tr EXCEPT ![c] = IF @ = "closing" THEN "closed" ELSE @]
    /\ wire' = [wire EXCEPT ![c] = IF tr[c] = "closing" THEN <<>> ELSE @]
    /\ inbound' = [inbound EXCEPT ![c] = IF tr[c] = "closing" THEN <<>> ELSE @]
    /\ UNCHANGED <<leaked, waiters, buf, lock, connects, taskVars>>

(* connect(): not is_connected, take _connectlock (whose holder rechecks   *)
(* is_connected) and start _connect (loop.create_connection).              *)
ConnectBegin(t, c) ==
    /\ pc[t] = "idle" /\ n[t] < MaxReq
    /\ connects[c] < MaxConnects
    /\ ~IsConnected(c)
    /\ lock[c] = NoTask
    /\ lock' = [lock EXCEPT ![c] = t]
    /\ connects' = [connects EXCEPT ![c] = @ + 1]
    /\ pc' = [pc EXCEPT ![t] = "opening"]
    /\ conn' = [conn EXCEPT ![t] = c]
    /\ UNCHANGED <<state, exc, tr, lost, leaked, waiters, wire, inbound, buf, n, got>>

(* create_connection succeeds: connection_made stores the new transport   *)
(* and sets state connected.  A transport still open is replaced without   *)
(* being closed.                                                           *)
ConnectOpen(t) ==
    /\ pc[t] = "opening"
    /\ LET c == conn[t] IN
       /\ leaked' = [leaked EXCEPT ![c] = IF tr[c] = "open" THEN @ + 1 ELSE @]
       /\ tr' = [tr EXCEPT ![c] = "open"]
       /\ state' = [state EXCEPT ![c] = "connected"]
       /\ wire' = [wire EXCEPT ![c] = <<>>]
       /\ inbound' = [inbound EXCEPT ![c] = <<>>]
    /\ pc' = [pc EXCEPT ![t] = "made"]
    /\ UNCHANGED <<exc, lost, waiters, buf, lock, connects, n, conn, got>>

(* create_connection fails: the error is raised as a connection error and *)
(* the lock released.                                                      *)
ConnectFail(t) ==
    /\ pc[t] = "opening"
    /\ lock' = [lock EXCEPT ![conn[t]] = NoTask]
    /\ pc' = [pc EXCEPT ![t] = "idle"]
    /\ got' = [got EXCEPT ![t] = Err("conn_error")]
    /\ UNCHANGED <<state, exc, tr, lost, leaked, waiters, wire, inbound, buf,
                   connects, n, conn>>

(* on_connect with a known server version >= 6: send_command(HELLO) and   *)
(* await its future (no timeout).                                          *)
HandshakeWrite(t) ==
    /\ pc[t] = "made"
    /\ LET c == conn[t]
           r == <<t, n[t] + 1>>
       IN /\ IsConnected(c)
          /\ wire' = [wire EXCEPT ![c] = Append(@, r)]
          /\ waiters' = [waiters EXCEPT ![c] = Append(@, r)]
    /\ pc' = [pc EXCEPT ![t] = "hello"]
    /\ n' = [n EXCEPT ![t] = @ + 1]
    /\ got' = [got EXCEPT ![t] = Err("pending")]
    /\ UNCHANGED <<state, exc, tr, lost, leaked, inbound, buf, lock, connects, conn>>

(* on_connect after the transport was lost or closed: send_command raises *)
(* (or returns ConnectionClosed, which on_connect returns as its result);  *)
(* either way connect() ends and the lock is released.                     *)
HandshakeFail(t) ==
    /\ pc[t] = "made"
    /\ ~IsConnected(conn[t])
    /\ lock' = [lock EXCEPT ![conn[t]] = NoTask]
    /\ pc' = [pc EXCEPT ![t] = "idle"]
    /\ n' = [n EXCEPT ![t] = @ + 1]
    /\ got' = [got EXCEPT ![t] = IF state[conn[t]] = "connected"
                                 THEN Err("closed") ELSE Err(exc[conn[t]])]
    /\ UNCHANGED <<state, exc, tr, lost, leaked, waiters, wire, inbound, buf,
                   connects, conn>>

(* The HELLO future resolved: on_connect returns and connect() releases   *)
(* the lock.                                                               *)
ConnectReady(t) ==
    /\ pc[t] = "ready"
    /\ lock' = [lock EXCEPT ![conn[t]] = NoTask]
    /\ pc' = [pc EXCEPT ![t] = "idle"]
    /\ UNCHANGED <<state, exc, tr, lost, leaked, waiters, wire, inbound, buf,
                   connects, n, conn, got>>

-----------------------------------------------------------------------------
(* The server and the network (environment, not code of this repository). *)

\* The Redis server answers the requests of a transport in the order written.
Server(c) ==
    /\ tr[c] = "open" /\ wire[c] # <<>>
    /\ LET r == Head(wire[c]) IN
       \E parts \in IF SplitReplies THEN {<<"whole">>, <<"head", "tail">>}
                                    ELSE {<<"whole">>} :
          inbound' = [inbound EXCEPT ![c] =
                        @ \o [i \in DOMAIN parts |-> [req |-> r, part |-> parts[i]]]]
    /\ wire' = [wire EXCEPT ![c] = Tail(@)]
    /\ UNCHANGED <<state, exc, tr, lost, leaked, waiters, buf, lock, connects, taskVars>>

\* The peer closes the socket (EOF: connection_lost(None)) or it fails.
PeerClose(c) ==
    /\ tr[c] = "open" /\ lost[c] = "no"
    /\ \E e \in {"none", "oserror"} : lost' = [lost EXCEPT ![c] = e]
    /\ tr' = [tr EXCEPT ![c] = "closing"]
    /\ UNCHANGED <<state, exc, leaked, waiters, wire, inbound, buf, lock,
                   connects, taskVars>>

-----------------------------------------------------------------------------
Init ==
    /\ state = [c \in Conns |-> "not_connected"]
    /\ exc = [c \in Conns |-> "none"]
    /\ tr = [c \in Conns |-> "none"]
    /\ lost = [c \in Conns |-> "no"]
    /\ leaked = [c \in Conns |-> 0]
    /\ waiters = [c \in Conns |-> <<>>]
    /\ wire = [c \in Conns |-> <<>>]
    /\ inbound = [c \in Conns |-> <<>>]
    /\ buf = <<>>
    /\ lock = [c \in Conns |-> NoTask]
    /\ connects = [c \in Conns |-> 0]
    /\ pc = [t \in Tasks |-> "idle"]
    /\ n = [t \in Tasks |-> 0]
    /\ conn \in [Tasks -> Conns]
    /\ got = [t \in Tasks |-> Err("pending")]

Next ==
    \/ \E t \in Tasks, c \in Conns :
          SendWrite(t, c) \/ SendClosing(t, c) \/ SendRaise(t, c) \/ ConnectBegin(t, c)
    \/ \E t \in Tasks :
          Timeout(t) \/ ConnectOpen(t) \/ ConnectFail(t) \/ HandshakeWrite(t)
          \/ HandshakeFail(t) \/ ConnectReady(t)
    \/ \E c \in Conns :
          DataReceived(c) \/ Disconnect(c) \/ ConnectionLost(c) \/ Server(c)
          \/ PeerClose(c)

Spec == Init /\ [][Next]_vars

(* The event loop eventually runs every ready callback (data_received,     *)
(* connection_lost) and the server eventually answers what was written.   *)
FairSpec ==
    /\ Spec
    /\ \A c \in Conns : /\ WF_vars(Server(c))
                       /\ WF_vars(DataReceived(c))
                       /\ WF_vars(ConnectionLost(c))

-----------------------------------------------------------------------------
(* The requests whose replies are still to be read on connection c, in     *)
(* stream order: those whose first piece is in the reader's buffer or in   *)
(* flight, then those the server has not answered yet.                     *)
Pending(c) ==
    LET firsts == SelectSeq(buf \o inbound[c], LAMBDA p : p.part # "tail")
    IN [i \in DOMAIN firsts |-> firsts[i].req] \o wire[c]

(* The waiter FIFO of an open connection lines up with the reply stream:   *)
(* send_command appends the waiter in the order it writes, and            *)
(* data_received pops one per reply, so the i-th waiter is the request the *)
(* i-th pending reply answers.                                             *)
FIFOMatch == \A c \in Conns : tr[c] = "open" => waiters[c] = Pending(c)

(* Every reply read_response hands a task is the reply to the request that *)
(* task sent last, and never a value parsed from two replies.              *)
ReplyAlignment ==
    \A t \in Tasks : got[t].kind \in {"reply", "garbage"} => got[t] = Reply(<<t, n[t]>>)

(* Every task awaiting a reply, in read_response or in on_connect's await  *)
(* of the HELLO future, is eventually resumed: by the reply, by a timeout, *)
(* or, once the socket closes, by ConnectionError("Lost connection to      *)
(* server.") delivered to every outstanding waiter.                        *)
AwaitEnds == \A t \in Tasks : pc[t] \in {"await", "hello"} ~> pc[t] \notin {"await", "hello"}

-----------------------------------------------------------------------------
(* Refinement.  Seen from its callers, a connection is a ReplyChannel:   *)
(* the owed replies are its waiter FIFO, a task waits while it is in       *)
(* read_response or on_connect's await there, and n and got are the    *)
(* task's calls and outcomes.  Connecting, the transport and the server   *)
(* are internal steps.                                                     *)
ChanConn == CHOOSE c \in Conns : TRUE

Channel == INSTANCE ReplyChannel
    WITH queue <- waiters[ChanConn],
         awaiting <- [t \in Tasks |-> pc[t] \in {"await", "hello"} /\ conn[t] = ChanConn],
         Failures <- Excs \cup {"timeout", "refused", "closed", "conn_error"}

(* Every behaviour of the driver on the connection is one the channel     *)
(* allows: send_command appends to the tail of the FIFO, data_received    *)
(* consumes it from the head and hands each reply only to the task that   *)
(* still awaits that very command, and a timeout or a refused call never  *)
(* reorders or drops an owed reply.  Stated for a model with one          *)
(* connection, whose tasks use no other.                                   *)
ChannelRefinement == Channel!ChanSpec

=============================================================================
