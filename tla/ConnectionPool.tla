--------------------------- MODULE ConnectionPool ---------------------------
(***************************************************************************)
(* The asyncio connection pool: AsyncIORedisConnectionPool of              *)
(* redis/io/aio.py (acquire, release, fill, disconnect, _wakeup) on the    *)
(* base class of sansredis/io/base.py (size, available, iterconn,         *)
(* _drop_closed, _get_conn).  free is a deque bounded by max_connections,  *)
(* inuse a set, acquiring the number of connections being made;            *)
(* _connection_waiter is an asyncio.Condition whose lock acquire holds     *)
(* across fill().  A connection is reduced to whether it is_connected.     *)
(*                                                                         *)
(* Each action runs from one suspension point of a task to the next.      *)
(* Connection ids are reused once nothing refers to the old object.       *)
(***************************************************************************)
EXTENDS Naturals, Sequences, FiniteSets

CONSTANTS
    Tasks,          \* tasks using the pool
    Conns,          \* connection object ids
    MinConns,       \* PoolInfo.min_connections
    MaxConns,       \* PoolInfo.max_connections (also free's maxlen)
    PoolDisconnects,\* may a task call pool.disconnect()?
    MaxWakeups,     \* bound: scheduled _wakeup() tasks counted (saturating)
    MaxFaults,      \* bound: connects that fail plus connections the server closes
    NoTask, NoConn  \* model values: lock free / no connection

ASSUME /\ MaxConns \in Nat \ {0} /\ MinConns \in 0..MaxConns
       /\ PoolDisconnects \in BOOLEAN /\ MaxWakeups \in Nat \ {0}
       /\ MaxFaults \in Nat
       /\ Cardinality(Conns) >= MaxConns + Cardinality(Tasks)

VARIABLES
    free,       \* the deque of free connections, left end first
    inuse,      \* the set of checked-out connections
    acquiring,  \* connections being made by iterconn
    gcPending,  \* iterconn generators abandoned by a failed connect()
    status,     \* per connection: "unmade", "connecting", "open", "closed"
    holder,     \* holder of the Condition's lock, or NoTask
    waitq,      \* tasks in Condition.wait(), in notify order
    wakeups,    \* scheduled _wakeup() tasks not yet run
    pc,         \* where each task is
    phase,      \* which loop of iterconn a filling task is in
    conn,       \* the connection a task is making or holds
    faults      \* environment faults so far

vars == <<free, inuse, acquiring, gcPending, status, holder, waitq, wakeups,
          pc, phase, conn, faults>>

PCs == {"idle", "acquire", "acq_connect", "fill_connect", "waiting",
        "notified", "has", "fast", "disc"}

TypeOK ==
    /\ free \in Seq(Conns) /\ Len(free) <= MaxConns
    /\ inuse \subseteq Conns
    /\ acquiring \in 0..MaxConns /\ gcPending \in 0..MaxConns
    /\ status \in [Conns -> {"unmade", "connecting", "open", "closed"}]
    /\ holder \in Tasks \cup {NoTask}
    /\ waitq \in Seq(Tasks)
    /\ wakeups \in 0..MaxWakeups
    /\ pc \in [Tasks -> PCs]
    /\ phase \in [Tasks -> {"min", "over"}]
    /\ conn \in [Tasks -> Conns \cup {NoConn}]
    /\ faults \in 0..MaxFaults

InFree(c) == \E i \in DOMAIN free : free[i] = c
Size(f, a) == Len(f) + Cardinality(inuse) + a
IsConnected(c) == status[c] = "open"

\* One more scheduled _wakeup() task, counted up to MaxWakeups.
ScheduleWakeup(w) == IF w < MaxWakeups THEN w + 1 ELSE w

\* A connection object nothing refers to any more: its id may be reused.
Unreferenced(c) == ~InFree(c) /\ c \notin inuse /\ \A t \in Tasks : conn[t] # c

-----------------------------------------------------------------------------
\* deque.rotate(1): the right end moves to the left end.
RotateRight(f) == <<f[Len(f)]>> \o SubSeq(f, 1, Len(f) - 1)

\* deque(maxlen=max_connections).append: a full deque drops its left end.
AppendBounded(f, c) == IF Len(f) = MaxConns THEN Append(Tail(f), c) ELSE Append(f, c)

(* _drop_closed: available() times, look at free[0]; pop it if it is not  *)
(* is_connected (under status st), else rotate(1).                         *)
RECURSIVE DropLoop(_, _, _)
DropLoop(f, k, st) ==
    IF k = 0 THEN f
    ELSE IF st[Head(f)] = "open" THEN DropLoop(RotateRight(f), k - 1, st)
                                ELSE DropLoop(Tail(f), k - 1, st)
DropClosed(f, st) == DropLoop(f, Len(f), st)

\* Mutant: size() without the connections being made.
DecideNoAcquiring(f, a, ph, override) ==
    IF ph = "min" /\ Size(f, 0) < MinConns THEN "min"
    ELSE IF override /\ Size(f, 0) < MaxConns /\ Len(f) = 0 THEN "over"
    ELSE "end"

(* iterconn resumed in loop ph with free f: the loop it yields a new      *)
(* connection from, or "end".  The min loop falls through to the override *)
(* loop; the override loop does not return to the min one.                *)
Decide(f, a, ph, override) ==
    IF ph = "min" /\ Size(f, a) < MinConns THEN "min"
    ELSE IF override /\ Size(f, a) < MaxConns /\ Len(f) = 0 THEN "over"
    ELSE "end"

(* _get_conn: available() times, take free[0], rotate(1), return it if    *)
(* connected.  Result: the connection or NoConn, and the rotated deque.   *)
RECURSIVE GetLoop(_, _)
GetLoop(f, k) ==
    IF k = 0 THEN [c |-> NoConn, f |-> f]
    ELSE IF IsConnected(Head(f)) THEN [c |-> Head(f), f |-> RotateRight(f)]
    ELSE GetLoop(RotateRight(f), k - 1)

-----------------------------------------------------------------------------
\* Mutant: the checked-out connection is read with free[0], not popped.
CheckoutPeek(t, f) ==
    /\ free' = f
    /\ inuse' = inuse \cup {Head(f)}
    /\ conn' = [conn EXCEPT ![t] = Head(f)]
    /\ pc' = [pc EXCEPT ![t] = "has"]
    /\ holder' = NoTask
    /\ UNCHANGED waitq

(* acquire with a free connection: popleft, add to inuse, return it (the  *)
(* async with releases the Condition's lock).                             *)
Checkout(t, f) ==
    /\ free' = Tail(f)
    /\ inuse' = inuse \cup {Head(f)}
    /\ conn' = [conn EXCEPT ![t] = Head(f)]
    /\ pc' = [pc EXCEPT ![t] = "has"]
    /\ holder' = NoTask
    /\ UNCHANGED waitq

\* Mutant: fill() ends without scheduling a _wakeup().
FillWakeupMissing(w) == w

\* fill() ends with asyncio.ensure_future(self._wakeup()).
FillWakeup(w) == ScheduleWakeup(w)

-----------------------------------------------------------------------------
(* fill() carried on by task t with free f, acquiring a, statuses st, in   *)
(* loop ph, the lock held by h: either iterconn makes a connection and t   *)
(* awaits its connect(), or fill ends scheduling a _wakeup() and, inside   *)
(* acquire (override), acquire pops the left connection into inuse or      *)
(* waits on the Condition; both leave the Condition's lock.               *)
FillFrom(t, f, a, st, ph, override, h) ==
    LET f1 == DropClosed(f, st)
        d == Decide(f1, a, ph, override)
    IN
    IF d # "end"
    THEN \E c \in Conns :
           /\ Unreferenced(c)
           /\ free' = f1 /\ acquiring' = a + 1
           /\ status' = [st EXCEPT ![c] = "connecting"]
           /\ conn' = [conn EXCEPT ![t] = c]
           /\ phase' = [phase EXCEPT ![t] = d]
           /\ pc' = [pc EXCEPT ![t] = IF override THEN "acq_connect" ELSE "fill_connect"]
           /\ holder' = h
           /\ UNCHANGED <<inuse, waitq, wakeups>>
    ELSE /\ wakeups' = FillWakeup(wakeups)
         /\ acquiring' = a /\ status' = st
         /\ UNCHANGED phase
         /\ IF ~override
            THEN /\ free' = f1 /\ pc' = [pc EXCEPT ![t] = "idle"]
                 /\ conn' = [conn EXCEPT ![t] = NoConn]
                 /\ holder' = h
                 /\ UNCHANGED <<inuse, waitq>>
            ELSE IF f1 # <<>>
            THEN Checkout(t, f1)
            ELSE /\ free' = f1
                 /\ pc' = [pc EXCEPT ![t] = "waiting"]
                 /\ waitq' = Append(waitq, t)
                 /\ holder' = NoTask
                 /\ UNCHANGED <<inuse, conn>>

\* pool.connection() / acquire() called: the task queues for the lock.
Acquire(t) ==
    /\ pc[t] = "idle"
    /\ pc' = [pc EXCEPT ![t] = "acquire"]
    /\ UNCHANGED <<free, inuse, acquiring, gcPending, status, holder, waitq,
                   wakeups, phase, conn>>
    /\ UNCHANGED faults

(* execute_command's fast path: _get_conn returns a connected free        *)
(* connection, left in free, or None and the call goes through acquire.   *)
ExecuteCommand(t) ==
    /\ pc[t] = "idle"
    /\ LET r == GetLoop(free, Len(free)) IN
       /\ free' = r.f
       /\ conn' = [conn EXCEPT ![t] = r.c]
       /\ pc' = [pc EXCEPT ![t] = IF r.c = NoConn THEN "acquire" ELSE "fast"]
    /\ UNCHANGED <<inuse, acquiring, gcPending, status, holder, waitq, wakeups,
                   phase>>
    /\ UNCHANGED faults

\* The command on the fast-path connection returns.
FastDone(t) ==
    /\ pc[t] = "fast"
    /\ pc' = [pc EXCEPT ![t] = "idle"]
    /\ conn' = [conn EXCEPT ![t] = NoConn]
    /\ UNCHANGED <<free, inuse, acquiring, gcPending, status, holder, waitq,
                   wakeups, phase>>
    /\ UNCHANGED faults

\* acquire takes the Condition's lock and runs fill(override_min=True).
AcquireEnter(t) ==
    /\ pc[t] = "acquire" /\ holder = NoTask
    /\ FillFrom(t, free, acquiring, status, "min", TRUE, t)
    /\ UNCHANGED <<gcPending, faults>>

\* Notified in Condition.wait(): retake the lock and loop again.
Woken(t) ==
    /\ pc[t] = "notified" /\ holder = NoTask
    /\ FillFrom(t, free, acquiring, status, "min", TRUE, t)
    /\ UNCHANGED <<gcPending, faults>>

\* await pool (pool.fill()): fill to min_connections, without the lock.
FillPool(t) ==
    /\ pc[t] = "idle"
    /\ FillFrom(t, free, acquiring, status, "min", FALSE, holder)
    /\ UNCHANGED <<gcPending, faults>>

(* conn.connect() returns: fill appends it to free and resumes iterconn,  *)
(* whose finally decrements acquiring.                                    *)
ConnectDone(t) ==
    /\ pc[t] \in {"acq_connect", "fill_connect"}
    /\ FillFrom(t, AppendBounded(free, conn[t]), acquiring - 1,
                [status EXCEPT ![conn[t]] = "open"], phase[t],
                pc[t] = "acq_connect", holder)
    /\ UNCHANGED <<gcPending, faults>>

\* Mutant: acquiring decremented when connect() fails, and again later.
ConnectFailDecrement(t) ==
    /\ pc[t] \in {"acq_connect", "fill_connect"}
    /\ faults < MaxFaults /\ faults' = faults + 1
    /\ status' = [status EXCEPT ![conn[t]] = "closed"]
    /\ gcPending' = gcPending + 1
    /\ acquiring' = acquiring - 1
    /\ holder' = IF pc[t] = "acq_connect" THEN NoTask ELSE holder
    /\ pc' = [pc EXCEPT ![t] = "idle"]
    /\ conn' = [conn EXCEPT ![t] = NoConn]
    /\ UNCHANGED <<free, inuse, waitq, wakeups, phase>>

(* conn.connect() raises: the error leaves fill (and acquire, releasing   *)
(* the lock); the suspended iterconn is only closed, running its finally, *)
(* when the generator is collected.                                       *)
ConnectFail(t) ==
    /\ pc[t] \in {"acq_connect", "fill_connect"}
    /\ faults < MaxFaults /\ faults' = faults + 1
    /\ status' = [status EXCEPT ![conn[t]] = "closed"]
    /\ gcPending' = gcPending + 1
    /\ holder' = IF pc[t] = "acq_connect" THEN NoTask ELSE holder
    /\ pc' = [pc EXCEPT ![t] = "idle"]
    /\ conn' = [conn EXCEPT ![t] = NoConn]
    /\ UNCHANGED <<free, inuse, acquiring, waitq, wakeups, phase>>

\* The abandoned iterconn generator is finalised: acquiring -= 1.
Collect ==
    /\ gcPending > 0
    /\ gcPending' = gcPending - 1
    /\ acquiring' = acquiring - 1
    /\ UNCHANGED <<free, inuse, status, holder, waitq, wakeups, pc, phase, conn>>
    /\ UNCHANGED faults

(* release(conn): a connection not in inuse is disconnected; otherwise it *)
(* leaves inuse, goes back to free if is_connected, and a _wakeup() is    *)
(* scheduled.                                                             *)
Release(t) ==
    /\ pc[t] = "has"
    /\ LET c == conn[t] IN
       IF c \notin inuse
       THEN /\ status' = [status EXCEPT ![c] = "closed"]
            /\ UNCHANGED <<free, inuse, wakeups>>
       ELSE /\ inuse' = inuse \ {c}
            /\ free' = IF IsConnected(c) THEN AppendBounded(free, c) ELSE free
            /\ wakeups' = ScheduleWakeup(wakeups)
            /\ UNCHANGED status
    /\ pc' = [pc EXCEPT ![t] = "idle"]
    /\ conn' = [conn EXCEPT ![t] = NoConn]
    /\ UNCHANGED <<acquiring, gcPending, holder, waitq, phase>>
    /\ UNCHANGED faults

\* A scheduled _wakeup() takes the lock and notifies one waiter.
Wakeup ==
    /\ wakeups > 0 /\ holder = NoTask
    /\ wakeups' = wakeups - 1
    /\ IF waitq = <<>> THEN UNCHANGED <<waitq, pc>>
       ELSE /\ waitq' = Tail(waitq)
            /\ pc' = [pc EXCEPT ![Head(waitq)] = "notified"]
    /\ UNCHANGED <<free, inuse, acquiring, gcPending, status, holder, phase, conn>>
    /\ UNCHANGED faults

(* pool.disconnect(inuse=...): under the lock, pop every free connection  *)
(* (and every checked-out one) and disconnect it, then await them all.    *)
PoolDisconnect(t) ==
    /\ PoolDisconnects
    /\ pc[t] = "idle" /\ holder = NoTask
    /\ \E all \in BOOLEAN :
         LET gone == {free[i] : i \in DOMAIN free} \cup (IF all THEN inuse ELSE {})
         IN /\ status' = [c \in Conns |-> IF c \in gone THEN "closed" ELSE status[c]]
            /\ inuse' = IF all THEN {} ELSE inuse
    /\ free' = <<>>
    /\ holder' = t
    /\ pc' = [pc EXCEPT ![t] = "disc"]
    /\ UNCHANGED <<acquiring, gcPending, waitq, wakeups, phase, conn>>
    /\ UNCHANGED faults

\* The disconnects are gathered; the lock is released.
PoolDisconnectDone(t) ==
    /\ pc[t] = "disc"
    /\ holder' = NoTask
    /\ pc' = [pc EXCEPT ![t] = "idle"]
    /\ UNCHANGED <<free, inuse, acquiring, gcPending, status, waitq, wakeups, phase, conn>>
    /\ UNCHANGED faults

\* The server or the network closes an open connection.
ServerClose(c) ==
    /\ status[c] = "open"
    /\ faults < MaxFaults /\ faults' = faults + 1
    /\ status' = [status EXCEPT ![c] = "closed"]
    /\ UNCHANGED <<free, inuse, acquiring, gcPending, holder, waitq, wakeups, pc, phase, conn>>

-----------------------------------------------------------------------------
Init ==
    /\ free = <<>> /\ inuse = {} /\ acquiring = 0 /\ gcPending = 0
    /\ status = [c \in Conns |-> "unmade"]
    /\ holder = NoTask /\ waitq = <<>> /\ wakeups = 0
    /\ pc = [t \in Tasks |-> "idle"]
    /\ phase = [t \in Tasks |-> "min"]
    /\ conn = [t \in Tasks |-> NoConn]
    /\ faults = 0

Next ==
    \/ \E t \in Tasks :
          \/ Acquire(t) \/ ExecuteCommand(t) \/ FastDone(t) \/ AcquireEnter(t)
          \/ Woken(t) \/ FillPool(t) \/ ConnectDone(t) \/ ConnectFail(t)
          \/ Release(t) \/ PoolDisconnect(t) \/ PoolDisconnectDone(t)
    \/ Collect \/ Wakeup
    \/ \E c \in Conns : ServerClose(c)

Spec == Init /\ [][Next]_vars

(* Safety: every open connection the pool made is still reachable: in     *)
(* free, in inuse, or held by a task; and every connection inuse counts  *)
(* has a holder who will release it.  fill() sizes the pool with         *)
(* size() = free + inuse + acquiring, and free is a deque with maxlen, so *)
(* miscounting would let an append push a live connection out of free     *)
(* unclosed, and an inuse entry nobody holds lowers max_connections for    *)
(* good.                                                                  *)
NoOrphan ==
    \A c \in Conns :
        /\ IsConnected(c) => InFree(c) \/ c \in inuse \/ \E t \in Tasks : conn[t] = c
        /\ c \in inuse => \E t \in Tasks : conn[t] = c

(* acquire() checks each connection out to one caller only: no two tasks  *)
(* hold the same connection from acquire at once.                         *)
ExclusiveUse ==
    \A t1, t2 \in Tasks : t1 # t2 /\ pc[t1] = "has" /\ pc[t2] = "has" => conn[t1] # conn[t2]

(* acquire() hands out only a connection that is connected: fill's         *)
(* _drop_closed has pruned the closed ones from free beforehand.          *)
AcquireConnected ==
    [][\A t \in Tasks : pc[t] # "has" /\ pc'[t] = "has" => status'[conn'[t]] = "open"]_vars

(* The Condition's lock is FIFO, each pending _wakeup() eventually runs,   *)
(* connect() ends (bounded by connect_timeout), holders release (the      *)
(* connection context manager) and an abandoned iterconn is collected.     *)
FairSpec ==
    /\ Spec
    /\ \A t \in Tasks : /\ SF_vars(AcquireEnter(t)) /\ SF_vars(Woken(t))
                        /\ WF_vars(ConnectDone(t) \/ ConnectFail(t))
                        /\ WF_vars(Release(t)) /\ WF_vars(FastDone(t))
                        /\ WF_vars(PoolDisconnectDone(t))
    /\ SF_vars(Wakeup) /\ WF_vars(Collect)

(* Liveness: a task waiting on the Condition in acquire() is eventually   *)
(* woken: every release() and every fill() schedules a _wakeup() that     *)
(* notifies the first waiter, so a blocked caller wakes after a release.  *)
WaiterWakes == \A t \in Tasks : pc[t] = "waiting" ~> pc[t] # "waiting"

====
