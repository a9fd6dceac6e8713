--------------------------- MODULE SyncConnection ---------------------------
(***************************************************************************)
(* The threaded driver of redis/io/sio.py: SyncIORedisConnection over      *)
(* RedisSyncIOProtocol, used by client threads.                            *)
(*                                                                         *)
(* The protocol keeps a deque of (command, Future) waiters.  A reader      *)
(* thread, started by each connection_made, loops: recv from the current  *)
(* socket (self._transport), feed the operator's reader, and resolve      *)
(* waiters from the head.  A client thread's send_command is sendall and   *)
(* then the append of its waiter: two steps another thread can come       *)
(* between.  A thread then blocks in future.result(timeout).               *)
(*                                                                         *)
(* As in AsyncConnection, a reply is abstracted to the request it answers, *)
(* and a recv returns one whole reply or one half of it.                   *)
(***************************************************************************)
EXTENDS Naturals, Sequences, FiniteSets

CONSTANTS
    Tasks,          \* client threads
    MaxReq,         \* bound on the commands each thread sends
    MaxConnects,    \* bound on successful connects (one reader thread each)
    SplitReplies,   \* whether the server's replies may arrive in two reads
    Timeouts,       \* whether socket_info.timeout is set (None blocks forever)
    NoTask

ASSUME MaxReq \in Nat /\ MaxConnects \in Nat \ {0} /\ NoTask \notin Tasks

Readers == 1..MaxConnects
Req == Tasks \X (1..MaxReq)
NoReq == <<NoTask, 0>>          \* the HELLO sent by on_connect
Piece == [req : Req \cup {NoReq}, part : {"whole", "head", "tail"}]
Excs == {"closed", "invalid", "lost", "oserror", "notconnected",
         "timeout", "connfail", "garbage"}
Outcomes == [kind : Excs \cup {"reply", "none"}, req : Req \cup {NoReq}]
Reply(r) == [kind |-> "reply", req |-> r]
Err(e)   == [kind |-> e, req |-> NoReq]
None     == Err("none")

VARIABLES
    state,      \* RedisSyncIOProtocol._state
    exc,        \* RedisSyncIOProtocol._exc, by kind
    attached,   \* SyncIORedisConnection.connection is not None
    tr,         \* the current socket: none, open, peer_closed (EOF after data), closed
    wire,       \* requests on the current socket the server has not answered
    inbound,    \* reply pieces the server sent and no recv has returned
    buf,        \* the operator's reader buffer
    waiters,    \* RedisSyncIOProtocol._waiters, by request
    fut,        \* each request's Future: None, or its result
    reader,     \* each reader thread: off, run, got (holds a chunk), dead
    chunk,      \* the bytes a reader thread's recv returned, not yet fed
    lock,       \* _connectlock
    connects,   \* successful connects so far
    pc, n, got  \* each client thread: position, requests sent, last result

taskVars == <<pc, n, got>>
netVars  == <<tr, wire, inbound>>
vars == <<state, exc, attached, netVars, buf, waiters, fut, reader, chunk,
          lock, connects, taskVars>>

TypeOK ==
    /\ state \in {"not_connected", "connected", "error"}
    /\ exc \in Excs \cup {"none"}
    /\ attached \in BOOLEAN
    /\ tr \in {"none", "open", "peer_closed", "closed"}
    /\ wire \in Seq(Req \cup {NoReq}) /\ inbound \in Seq(Piece) /\ buf \in Seq(Piece)
    /\ waiters \in Seq(Req \cup {NoReq})
    /\ fut \in [Req \cup {NoReq} -> Outcomes]
    /\ reader \in [Readers -> {"off", "run", "got", "dead"}]
    /\ chunk \in [Readers -> Seq(Piece)]
    /\ lock \in Tasks \cup {NoTask}
    /\ connects \in 0..MaxConnects
    /\ pc \in [Tasks -> {"idle", "append", "wait", "hello", "hello_append", "disc"}]
    /\ n \in [Tasks -> 0..MaxReq]
    /\ got \in [Tasks -> Outcomes]

\* The operator's reader: one value, or nothing yet.  A head not followed
\* by its own tail misparses.
Parse(b) ==
    IF b = <<>> \/ (Len(b) = 1 /\ b[1].part = "head")
    THEN [some |-> FALSE]
    ELSE CASE b[1].part = "whole" ->
                [some |-> TRUE, val |-> Reply(b[1].req), rest |-> Tail(b)]
           [] b[1].part = "head" /\ b[2] = [req |-> b[1].req, part |-> "tail"] ->
                [some |-> TRUE, val |-> Reply(b[1].req), rest |-> Tail(Tail(b))]
           [] b[1].part = "head" ->
                [some |-> TRUE, val |-> Err("garbage"), rest |-> Tail(Tail(b))]
           [] OTHER ->
                [some |-> TRUE, val |-> Err("garbage"), rest |-> Tail(b)]

\* The loop of _read_response over iterparse(): each value resolves the
\* head waiter's future; a value with no waiter sets InvalidResponse and
\* the loop goes on.
RECURSIVE Drain(_)
Drain(s) ==
    LET p == Parse(s.buf) IN
    IF ~p.some THEN s
    ELSE IF s.ws = <<>>
         THEN Drain([s EXCEPT !.buf = p.rest, !.st = "error", !.ex = "invalid"])
         ELSE Drain([s EXCEPT !.buf = p.rest, !.ws = Tail(s.ws),
                              !.fut = [@ EXCEPT ![Head(s.ws)] = p.val]])

\* SyncIORedisConnection.is_connected: connection and _ioprotocol.is_connected.
IsConnected == attached /\ state = "connected" /\ tr # "none"

\* send_command's raise by protocol state: ConnectionError, or _exc.
SendRefusal == IF state = "not_connected" THEN "notconnected" ELSE exc

----------------------------------------------------------------------------
(* Client threads *)

\* send_command on behalf of execute_command: the sendall half.  On a socket
\* the peer closed, sendall may still succeed (the bytes are lost) or fail.
Send(t) ==
    /\ pc[t] = "idle" /\ n[t] < MaxReq
    /\ \/ /\ state = "connected" /\ tr = "open"
          /\ wire' = Append(wire, <<t, n[t] + 1>>)
          /\ n' = [n EXCEPT ![t] = @ + 1]
          /\ pc' = [pc EXCEPT ![t] = "append"]
          /\ got' = [got EXCEPT ![t] = None]
       \/ /\ state = "connected" /\ tr = "peer_closed"
          /\ n' = [n EXCEPT ![t] = @ + 1]
          /\ pc' = [pc EXCEPT ![t] = "append"]
          /\ got' = [got EXCEPT ![t] = None]
          /\ UNCHANGED wire
       \/ /\ state = "connected" /\ tr \in {"peer_closed", "closed"}
          /\ got' = [got EXCEPT ![t] = Err("oserror")]
          /\ UNCHANGED <<wire, n, pc>>
       \/ /\ state # "connected"
          /\ got' = [got EXCEPT ![t] = Err(SendRefusal)]
          /\ UNCHANGED <<wire, n, pc>>
    /\ UNCHANGED <<state, exc, attached, tr, inbound, buf, waiters, fut,
                   reader, chunk, lock, connects>>

\* A plausible slip: appendleft instead of append.
AppendWaiterLeft(t) ==
    /\ pc[t] = "append"
    /\ waiters' = <<<<t, n[t]>>>> \o waiters
    /\ pc' = [pc EXCEPT ![t] = "wait"]
    /\ UNCHANGED <<state, exc, attached, netVars, buf, fut, reader, chunk,
                   lock, connects, n, got>>

\* The second half of send_command: self._waiters.append((command, future)).
AppendWaiter(t) ==
    /\ pc[t] = "append"
    /\ waiters' = Append(waiters, <<t, n[t]>>)
    /\ pc' = [pc EXCEPT ![t] = "wait"]
    /\ UNCHANGED <<state, exc, attached, netVars, buf, fut, reader, chunk,
                   lock, connects, n, got>>

\* read_response: future.result returns, and an exception result is raised.
Resolved(t) ==
    /\ pc[t] = "wait" /\ fut[<<t, n[t]>>] # None
    /\ got' = [got EXCEPT ![t] = fut[<<t, n[t]>>]]
    /\ pc' = [pc EXCEPT ![t] = "idle"]
    /\ UNCHANGED <<state, exc, attached, netVars, buf, waiters, fut, reader,
                   chunk, lock, connects, n>>

\* A plausible slip: the timed-out thread's waiter is taken out of the deque.
TimeoutDropWaiter(t) ==
    /\ Timeouts /\ pc[t] = "wait" /\ fut[<<t, n[t]>>] = None
    /\ got' = [got EXCEPT ![t] = Err("timeout")]
    /\ pc' = [pc EXCEPT ![t] = "idle"]
    /\ waiters' = SelectSeq(waiters, LAMBDA w : w # <<t, n[t]>>)
    /\ UNCHANGED <<state, exc, attached, netVars, buf, fut, reader,
                   chunk, lock, connects, n>>

\* read_response: future.result(timeout) raises RedisTimeoutError.  The
\* waiter stays in the deque.
Timeout(t) ==
    /\ Timeouts /\ pc[t] = "wait" /\ fut[<<t, n[t]>>] = None
    /\ got' = [got EXCEPT ![t] = Err("timeout")]
    /\ pc' = [pc EXCEPT ![t] = "idle"]
    /\ UNCHANGED <<state, exc, attached, netVars, buf, waiters, fut, reader,
                   chunk, lock, connects, n>>

\* connect(): under _connectlock and not is_connected, _connect opens a
\* socket and connection_made starts a new reader thread; or it fails.
\* Reader threads of earlier sockets are not stopped, and the old socket
\* is dropped without closing it when the protocol is in error.
Connect(t) ==
    /\ pc[t] = "idle" /\ lock = NoTask /\ ~IsConnected
    /\ connects < MaxConnects
    /\ \/ /\ connects' = connects + 1
          /\ tr' = "open" /\ wire' = <<>> /\ inbound' = <<>>
          /\ attached' = TRUE /\ state' = "connected"
          /\ reader' = [reader EXCEPT ![connects + 1] = "run"]
          /\ lock' = t
          /\ pc' = [pc EXCEPT ![t] = "hello"]
          /\ UNCHANGED got
       \/ /\ got' = [got EXCEPT ![t] = Err("connfail")]
          /\ UNCHANGED <<connects, netVars, attached, state, reader, lock, pc>>
    /\ UNCHANGED <<exc, buf, waiters, fut, chunk, n>>

\* on_connect: send_command(HELLO), the sendall half.  The future it
\* returns is never read.  If the send raises, the lock is released; the
\* disconnect() of the RedisError handler returns at once, because the
\* protocol is no longer connected.
HelloSend(t) ==
    /\ pc[t] = "hello"
    /\ \/ /\ state = "connected" /\ tr = "open"
          /\ wire' = Append(wire, NoReq)
          /\ pc' = [pc EXCEPT ![t] = "hello_append"]
          /\ UNCHANGED <<got, lock>>
       \/ /\ state = "connected" /\ tr = "peer_closed"
          /\ pc' = [pc EXCEPT ![t] = "hello_append"]
          /\ UNCHANGED <<wire, got, lock>>
       \/ /\ \/ state = "connected" /\ tr \in {"peer_closed", "closed"}
             \/ state # "connected"
          /\ got' = [got EXCEPT ![t] = Err(IF state = "connected" THEN "oserror"
                                                                 ELSE SendRefusal)]
          /\ lock' = NoTask
          /\ pc' = [pc EXCEPT ![t] = "idle"]
          /\ UNCHANGED wire
    /\ UNCHANGED <<state, exc, attached, tr, inbound, buf, waiters, fut,
                   reader, chunk, connects, n>>

HelloAppend(t) ==
    /\ pc[t] = "hello_append"
    /\ waiters' = Append(waiters, NoReq)
    /\ lock' = NoTask
    /\ pc' = [pc EXCEPT ![t] = "idle"]
    /\ UNCHANGED <<state, exc, attached, netVars, buf, fut, reader, chunk,
                   connects, n, got>>

\* disconnect(): if is_connected, shutdown and close the socket, then
\* connection_lost(None), which waits for the current reader thread.
DisconnectBegin(t) ==
    /\ pc[t] = "idle" /\ IsConnected
    /\ tr' = "closed"
    /\ pc' = [pc EXCEPT ![t] = "disc"]
    /\ UNCHANGED <<state, exc, attached, wire, inbound, buf, waiters, fut,
                   reader, chunk, lock, connects, n, got>>

\* connection_lost(None) after _reader.shutdown(wait=True): if still
\* connected, _set_exception(ConnectionError), which leaves the state in
\* error; then self.connection = None.
DisconnectEnd(t) ==
    /\ pc[t] = "disc" /\ reader[connects] = "dead"
    /\ IF state = "connected"
       THEN state' = "error" /\ exc' = "lost"
       ELSE UNCHANGED <<state, exc>>
    /\ attached' = FALSE
    /\ pc' = [pc EXCEPT ![t] = "idle"]
    /\ UNCHANGED <<netVars, buf, waiters, fut, reader, chunk, lock, connects,
                   n, got>>

----------------------------------------------------------------------------
(* Reader threads: read_forever *)

\* _read_from_socket on self._transport: data, or EOF / a closed socket,
\* which sets the protocol's exception and ends the thread.
Recv(r) ==
    /\ reader[r] = "run"
    /\ \/ /\ tr \in {"open", "peer_closed"} /\ inbound # <<>>
          /\ chunk' = [chunk EXCEPT ![r] = <<Head(inbound)>>]
          /\ inbound' = Tail(inbound)
          /\ reader' = [reader EXCEPT ![r] = "got"]
          /\ UNCHANGED <<state, exc>>
       \/ /\ \/ tr = "closed"
             \/ tr = "peer_closed" /\ inbound = <<>>
          /\ state' = "error" /\ exc' = "closed"
          /\ reader' = [reader EXCEPT ![r] = "dead"]
          /\ UNCHANGED <<chunk, inbound>>
    /\ UNCHANGED <<attached, tr, wire, buf, waiters, fut, lock, connects,
                   taskVars>>

\* operator.receive_data, then _read_response: it returns at once unless
\* the protocol is connected and some waiter is queued.
Feed(r) ==
    /\ reader[r] = "got"
    /\ LET b == buf \o chunk[r]
           d == Drain([buf |-> b, ws |-> waiters, fut |-> fut, st |-> state, ex |-> exc])
       IN  IF state = "connected" /\ waiters # <<>>
           THEN /\ buf' = d.buf /\ waiters' = d.ws /\ fut' = d.fut
                /\ state' = d.st /\ exc' = d.ex
           ELSE /\ buf' = b
                /\ UNCHANGED <<waiters, fut, state, exc>>
    /\ chunk' = [chunk EXCEPT ![r] = <<>>]
    /\ reader' = [reader EXCEPT ![r] = "run"]
    /\ UNCHANGED <<attached, netVars, lock, connects, taskVars>>

----------------------------------------------------------------------------
(* The server *)

\* The server answers the oldest request on the socket, whole or in two.
Server ==
    /\ tr = "open" /\ wire # <<>>
    /\ \E parts \in IF SplitReplies THEN {<<"whole">>, <<"head", "tail">>}
                                    ELSE {<<"whole">>} :
          inbound' = inbound \o [i \in DOMAIN parts |-> [req |-> Head(wire), part |-> parts[i]]]
    /\ wire' = Tail(wire)
    /\ UNCHANGED <<state, exc, attached, tr, buf, waiters, fut, reader, chunk,
                   lock, connects, taskVars>>

\* The peer closes the socket: what it sent can still be read, then EOF.
PeerClose ==
    /\ tr = "open"
    /\ tr' = "peer_closed"
    /\ UNCHANGED <<state, exc, attached, wire, inbound, buf, waiters, fut,
                   reader, chunk, lock, connects, taskVars>>

----------------------------------------------------------------------------

Init ==
    /\ state = "not_connected" /\ exc = "none" /\ attached = FALSE
    /\ tr = "none" /\ wire = <<>> /\ inbound = <<>> /\ buf = <<>>
    /\ waiters = <<>> /\ fut = [r \in Req \cup {NoReq} |-> None]
    /\ reader = [r \in Readers |-> "off"] /\ chunk = [r \in Readers |-> <<>>]
    /\ lock = NoTask /\ connects = 0
    /\ pc = [t \in Tasks |-> "idle"] /\ n = [t \in Tasks |-> 0]
    /\ got = [t \in Tasks |-> None]

Next ==
    \/ \E t \in Tasks :
          \/ Send(t) \/ AppendWaiter(t) \/ Resolved(t) \/ Timeout(t)
          \/ Connect(t) \/ HelloSend(t) \/ HelloAppend(t)
          \/ DisconnectBegin(t) \/ DisconnectEnd(t)
    \/ \E r \in Readers : Recv(r) \/ Feed(r)
    \/ Server \/ PeerClose

Spec == Init /\ [][Next]_vars

----------------------------------------------------------------------------
(* Properties *)

\* A client thread is only ever handed the reply to its own last command
\* (send_command's waiter order against the order on the socket, the
\* reader threads of earlier sockets, stale waiters after a timeout).
ReplyAlignment ==
    \A t \in Tasks : got[t].kind \in {"reply", "garbage"} => got[t] = Reply(<<t, n[t]>>)


----------------------------------------------------------------------------
(* Refinement.  Seen from its callers the threaded driver is the same       *)
(* ReplyChannel as the asyncio one.  The replies still owed are the waiter *)
(* deque without on_connect's HELLO, then the command of a thread between  *)
(* sendall and the append of its waiter.  A thread waits while its future *)
(* is unresolved; a resolved future is its outcome before future.result   *)
(* hands it over.  Connecting, the sockets, the reader threads and the    *)
(* server are internal steps.                                              *)

\* The commands threads have written and not yet queued a waiter for.  Their
\* order is the order of their sendall calls, which the state does not
\* record; with one client thread there is at most one.
Unqueued ==
    LET S == {<<t, n[t]>> : t \in {u \in Tasks : pc[u] = "append"}}
    IN  CHOOSE s \in [1..Cardinality(S) -> S] : \A i, j \in DOMAIN s : i # j => s[i] # s[j]

ChanAwaiting == [t \in Tasks |-> pc[t] \in {"append", "wait"} /\ fut[<<t, n[t]>>] = None]

\* What the caller's last call ended with; None (nothing yet) is pending.
ChanGot == [t \in Tasks |->
              LET g == IF pc[t] = "wait" /\ fut[<<t, n[t]>>] # None
                       THEN fut[<<t, n[t]>>] ELSE got[t]
              IN  IF g = None THEN [kind |-> "pending", req |-> NoReq] ELSE g]

Channel == INSTANCE ReplyChannel
    WITH queue <- SelectSeq(waiters, LAMBDA w : w # NoReq) \o Unqueued,
         awaiting <- ChanAwaiting,
         got <- ChanGot,
         Failures <- Excs

\* Every behaviour of the threaded driver is one the channel allows: a
\* waiter is queued in the order its command was written (sendall, then
\* the append), the reader thread resolves futures from the head of the
\* deque and only with the reply to that very command, and a timeout or
\* a refused send never reorders or drops an owed reply.  Stated for one
\* client thread (Unqueued holds at most one command).
ChannelRefinement == Channel!ChanSpec

=============================================================================
