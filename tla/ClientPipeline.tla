--------------------------- MODULE ClientPipeline ---------------------------
(***************************************************************************)
(* The threaded client's pipelines (SyncIOPipeline, redis/client/sio.py,   *)
(* on PipelineMixin, redis/client/base.py) over the threaded pool they     *)
(* share (ThreadedPool).  A task is a client thread: it uses the pool     *)
(* directly or through one pipeline at a time.  WATCH pins a connection   *)
(* acquired from the pool (_do_watch); reset() and the pipeline's        *)
(* context exit are what let it go.                                       *)
(*                                                                         *)
(* A pipeline's command stack is not state here: every pipelined command  *)
(* fails in extend_pipeline (PipelinedCommands.commands is None there, and *)
(* a Command is not iterable), so the stack stays empty and MULTI, UNWATCH *)
(* and DISCARD leave nothing behind.  execute() on the pinned connection   *)
(* sends that empty pipeline and changes nothing the pool sees.           *)
(***************************************************************************)
EXTENDS ThreadedPool

CONSTANTS
    Pipelines,      \* do the threads open pipelines?
    Timeouts        \* is socket_timeout set (a reply may time out)?

ASSUME Pipelines \in BOOLEAN /\ Timeouts \in BOOLEAN

VARIABLES
    pipe,       \* the thread's pipeline: "none", or open with transaction "plain"/"tx"
    explicit,   \* its explicit_transaction
    pin         \* is the thread's checkout the pipeline's self.connection?

clientVars == <<pipe, explicit, pin>>
allVars == <<vars, clientVars>>

\* The thread holds the pipeline's pinned connection.
Pinned(t) == pin[t] /\ pc[t] = "has"

\* Between calls on its pipeline: not inside an acquire, fill or release.
Ready(t) == pc[t] = "idle" \/ Pinned(t)

-----------------------------------------------------------------------------
(* client.pipeline(transaction=...): explicit_transaction and the stack's  *)
(* transaction flag both start as `transaction`.  Used as a context       *)
(* manager, __enter__ runs connect(): with pre_fill, pool.fill().          *)
OpenPipeline(t) ==
    /\ Pipelines /\ pipe[t] = "none" /\ pc[t] = "idle"
    /\ \E tx \in {"plain", "tx"} :
          /\ pipe' = [pipe EXCEPT ![t] = tx]
          /\ explicit' = [explicit EXCEPT ![t] = (tx = "tx")]
    /\ pin' = [pin EXCEPT ![t] = FALSE]
    /\ \/ FillPool(t) /\ UNCHANGED <<gcPending, faults>>
       \/ UNCHANGED vars

(* watch(): raises after a MULTI (explicit_transaction); otherwise        *)
(* _do_watch acquires a connection from the pool if none is pinned and    *)
(* sends WATCH on it.  With a connection already pinned nothing changes.  *)
Watch(t) ==
    /\ pipe[t] # "none" /\ ~explicit[t] /\ pc[t] = "idle"
    /\ Acquire(t)
    /\ pin' = [pin EXCEPT ![t] = TRUE]
    /\ UNCHANGED <<pipe, explicit>>

(* multi(): returns if explicit_transaction is set, else (the stack being *)
(* empty) sets it.  The stack's transaction flag is left as it was.       *)
Multi(t) ==
    /\ pipe[t] # "none" /\ Ready(t) /\ ~explicit[t]
    /\ explicit' = [explicit EXCEPT ![t] = TRUE]
    /\ UNCHANGED <<vars, pipe, pin>>

(* execute() without a pinned connection: the stack goes to                *)
(* connection_pool.execute_pipeline, the pool's fast path or a checkout.  *)
(* With one pinned it is sent there and nothing is released.              *)
PipeExecute(t) ==
    /\ pipe[t] # "none" /\ pc[t] = "idle"
    /\ ExecuteCommand(t)
    /\ pin' = [pin EXCEPT ![t] = FALSE]
    /\ UNCHANGED <<pipe, explicit>>

(* _do_release_connection(conn): UNWATCH; a ConnectionError (the         *)
(* connection is closed) disconnects it and goes on; then                 *)
(* pool.release(conn).  A RedisTimeoutError is no ConnectionError: it     *)
(* propagates before the release.                                         *)
ReleasePinned(t) ==
    \/ ReleaseRemove(t)
    \/ /\ Timeouts /\ IsConnected(conn[t])
       /\ pc' = [pc EXCEPT ![t] = "idle"]
       /\ conn' = [conn EXCEPT ![t] = NoConn]
       /\ UNCHANGED <<free, inuse, acquiring, gcPending, status, holder, waitq,
                      wakeups, phase, faults>>

(* reset(): self.connection is set to None first, then the connection it  *)
(* held is released.  Without a pinned connection,                        *)
(* _do_release_connection(None) raises AttributeError and nothing changes. *)
Reset(t) ==
    /\ pipe[t] # "none" /\ Pinned(t)
    /\ ReleasePinned(t)
    /\ UNCHANGED clientVars

(* Leaving the pipeline's context: SyncIORedis.__exit__ runs              *)
(* disconnect(inuse=True), which disconnects self.connection; the pool    *)
(* was passed in, so auto_close_connection_pool is False and the pool is  *)
(* not told.  The pipeline object is dropped.                             *)
ExitPipeline(t) ==
    /\ pipe[t] # "none" /\ Ready(t)
    /\ IF Pinned(t)
       THEN /\ status' = [status EXCEPT ![conn[t]] = "closed"]
            /\ pc' = [pc EXCEPT ![t] = "idle"]
            /\ conn' = [conn EXCEPT ![t] = NoConn]
       ELSE UNCHANGED <<status, pc, conn>>
    /\ pipe' = [pipe EXCEPT ![t] = "none"]
    /\ explicit' = [explicit EXCEPT ![t] = FALSE]
    /\ UNCHANGED <<free, inuse, acquiring, gcPending, holder, waitq, wakeups,
                   phase, faults, pin>>

-----------------------------------------------------------------------------
\* A thread without a pipeline uses the pool itself.
PlainUse(t) ==
    /\ pipe[t] = "none"
    /\ \/ (Acquire(t) \/ ExecuteCommand(t)) /\ pin' = [pin EXCEPT ![t] = FALSE]
       \/ (FillPool(t) \/ PoolDisconnect(t)) /\ UNCHANGED pin
    /\ UNCHANGED <<pipe, explicit>>

\* Steps a thread takes inside a pool call it is already in.
PoolStep(t) ==
    /\ \/ AcquireEnter(t) \/ Woken(t) \/ ConnectDone(t) \/ ConnectFail(t)
       \/ ReleaseAppend(t) \/ FastDone(t) \/ PoolDisconnectDone(t)
       \/ ~pin[t] /\ ReleaseRemove(t)
    /\ UNCHANGED clientVars

ClientInit ==
    /\ Init
    /\ pipe = [t \in Tasks |-> "none"]
    /\ explicit = [t \in Tasks |-> FALSE]
    /\ pin = [t \in Tasks |-> FALSE]

ClientNext ==
    \/ \E t \in Tasks :
          \/ PlainUse(t) \/ PoolStep(t) \/ OpenPipeline(t)
          \/ Watch(t) \/ Multi(t) \/ PipeExecute(t) \/ Reset(t) \/ ExitPipeline(t)
    \/ (Collect \/ Wakeup \/ \E c \in Conns : ServerClose(c)) /\ UNCHANGED clientVars

ClientSpec == ClientInit /\ [][ClientNext]_allVars

====
