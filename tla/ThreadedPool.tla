---------------------------- MODULE ThreadedPool ----------------------------
(***************************************************************************)
(* The threaded connection pool: SyncIORedisConnectionPool of             *)
(* redis/io/sio.py.  Its acquire, fill, disconnect and _wakeup are the     *)
(* asyncio pool's algorithm over a threading.Condition, and acquire holds  *)
(* the Condition's lock across fill() exactly as the asyncio one does, so *)
(* those steps are ConnectionPool's.  release() is the difference: it      *)
(* takes no lock, and a thread may be preempted between removing the      *)
(* connection from inuse and appending it to free.  That gap is one more  *)
(* program counter, "releasing", between the two statements.              *)
(***************************************************************************)
EXTENDS ConnectionPool

(* release(conn), first statements: a connection not in inuse is          *)
(* disconnected and the call returns; otherwise inuse.remove(connection). *)
ReleaseRemove(t) ==
    /\ pc[t] = "has"
    /\ LET c == conn[t] IN
       IF c \notin inuse
       THEN /\ status' = [status EXCEPT ![c] = "closed"]
            /\ pc' = [pc EXCEPT ![t] = "idle"]
            /\ conn' = [conn EXCEPT ![t] = NoConn]
            /\ UNCHANGED inuse
       ELSE /\ inuse' = inuse \ {c}
            /\ pc' = [pc EXCEPT ![t] = "releasing"]
            /\ UNCHANGED <<status, conn>>
    /\ UNCHANGED <<free, acquiring, gcPending, holder, waitq, wakeups, phase>>
    /\ UNCHANGED faults

(* release(conn), last statements: free.append(connection) if it is       *)
(* still connected, then _wakeup(), which takes the Condition's lock and  *)
(* notifies one waiter.                                                   *)
ReleaseAppend(t) ==
    /\ pc[t] = "releasing"
    /\ free' = IF IsConnected(conn[t]) THEN AppendBounded(free, conn[t]) ELSE free
    /\ wakeups' = ScheduleWakeup(wakeups)
    /\ pc' = [pc EXCEPT ![t] = "idle"]
    /\ conn' = [conn EXCEPT ![t] = NoConn]
    /\ UNCHANGED <<inuse, acquiring, gcPending, status, holder, waitq, phase>>
    /\ UNCHANGED faults

ThreadedNext ==
    \/ \E t \in Tasks :
          \/ Acquire(t) \/ ExecuteCommand(t) \/ FastDone(t) \/ AcquireEnter(t)
          \/ Woken(t) \/ FillPool(t) \/ ConnectDone(t) \/ ConnectFail(t)
          \/ ReleaseRemove(t) \/ ReleaseAppend(t)
          \/ PoolDisconnect(t) \/ PoolDisconnectDone(t)
    \/ Collect \/ Wakeup
    \/ \E c \in Conns : ServerClose(c)

ThreadedSpec == Init /\ [][ThreadedNext]_vars

====
