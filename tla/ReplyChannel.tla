---------------------------- MODULE ReplyChannel ----------------------------
(***************************************************************************)
(* What one connection promises the tasks that use it (spec 4.D): a       *)
(* command's future resolves with the reply to that command, the server's *)
(* replies are matched with the commands in the order they were written,  *)
(* and a caller may stop waiting or have a call fail without a reply.     *)
(* This is the abstract specification the asyncio driver is shown to      *)
(* implement (AsyncConnection!ChannelRefinement).                         *)
(***************************************************************************)
EXTENDS Naturals, Sequences

CONSTANTS
    Tasks,      \* callers
    MaxReq,     \* bound: calls per caller
    NoTask,     \* model value, not a caller
    Failures    \* the errors a call may end with

VARIABLES
    queue,      \* commands written whose replies are still owed, oldest first
    n,          \* calls made by each caller
    awaiting,   \* is the caller waiting for the reply to its last command?
    got         \* what each caller's last call ended with

chanVars == <<queue, n, awaiting, got>>

NoReq == <<NoTask, 0>>
Reply(r) == [kind |-> "reply", req |-> r]
Fail(e) == [kind |-> e, req |-> NoReq]

ChanInit ==
    /\ queue = <<>>
    /\ n = [t \in Tasks |-> 0]
    /\ awaiting = [t \in Tasks |-> FALSE]
    /\ got = [t \in Tasks |-> Fail("pending")]

\* A caller writes a command and waits for its reply.
Request(t) ==
    /\ ~awaiting[t] /\ n[t] < MaxReq
    /\ queue' = Append(queue, <<t, n[t] + 1>>)
    /\ n' = [n EXCEPT ![t] = @ + 1]
    /\ awaiting' = [awaiting EXCEPT ![t] = TRUE]
    /\ got' = [got EXCEPT ![t] = Fail("pending")]

\* The replies to the k oldest commands arrive.  Each goes to its caller if
\* that caller still waits for it, and is dropped otherwise.
Answer(k) ==
    LET answered == {queue[i] : i \in 1..k}
        served   == {t \in Tasks : awaiting[t] /\ <<t, n[t]>> \in answered}
    IN /\ 1 <= k /\ k <= Len(queue)
       /\ queue' = SubSeq(queue, k + 1, Len(queue))
       /\ awaiting' = [t \in Tasks |-> awaiting[t] /\ t \notin served]
       /\ got' = [t \in Tasks |-> IF t \in served THEN Reply(<<t, n[t]>>) ELSE got[t]]
       /\ UNCHANGED n

\* A waiting caller gives up (a timeout); its reply is still owed.
GiveUp(t) ==
    /\ awaiting[t]
    /\ awaiting' = [awaiting EXCEPT ![t] = FALSE]
    /\ \E e \in Failures : got' = [got EXCEPT ![t] = Fail(e)]
    /\ UNCHANGED <<queue, n>>

\* A call ends with an error without writing a command; it may or may not
\* count as a call.
Refuse(t) ==
    /\ ~awaiting[t]
    /\ \E k \in {n[t], n[t] + 1} \cap 0..MaxReq : n' = [n EXCEPT ![t] = k]
    /\ \E e \in Failures : got' = [got EXCEPT ![t] = Fail(e)]
    /\ UNCHANGED <<queue, awaiting>>

ChanNext ==
    \/ \E t \in Tasks : Request(t) \/ GiveUp(t) \/ Refuse(t)
    \/ \E k \in 1..Len(queue) : Answer(k)

ChanSpec == ChanInit /\ [][ChanNext]_chanVars

=============================================================================
