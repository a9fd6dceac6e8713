------------------------------- MODULE Codec -------------------------------
(***************************************************************************)
(* The wire codec as the protocol uses it:                                 *)
(*   - the framing of one command by the protocol's writer                 *)
(*     (redis/sansio/writer.py, modelled in Writer), and                   *)
(*   - the operator's normalisation of a pipeline's parsed reply           *)
(*     (sansredis/sansio/operator.py), set beside a reference definition   *)
(*     written from the design (spec.md 4.B).  The state is a single       *)
(*     parsed reply and the read_response entry point picks it, so TLC     *)
(*     evaluates the property on every bounded input.                      *)
(*                                                                         *)
(* Data abstraction:                                                       *)
(*   - a reply is a value, an error, nil, or an array of replies;          *)
(*   - callbacks and parse_error keep the reply they are given.            *)
(***************************************************************************)
EXTENDS Writer, SequencesExt

CONSTANTS
    MaxCmds,    \* bound on the commands of one pipeline
    OpCmds,     \* a sequence of MaxCmds distinct commands, for replies
    Val, Ok, Queued, Err,   \* a reply value, the MULTI ack, a QUEUED ack, an error
    NoCmd

ASSUME Len(OpCmds) = MaxCmds /\ MaxCmds \in Nat \ {0}

VARIABLE input

----------------------------------------------------------------------------
(* The protocol's writer *)

\* A text argument.
Str(x) == PyValue("str", x)

\* RedisOperator.pack_command of a Command on the operator's writer, built
\* from ClientInfo's encoding, None unless set: its str converter is
\* val.encode() (_get_str_encoder).  `event` holds command.split() as
\* texts and the modifiers as Python values; the result is the frames.
PackCommand(event) ==
    PackWith(DefaultConverter, [i \in DOMAIN event.verb |-> Str(event.verb[i])],
             event.modifiers).frames

----------------------------------------------------------------------------
(* Operator: replies and outcomes *)

\* A parsed reply: its kind, its value and an array's items.
Rep(k, x) == [k |-> k, v |-> x, items |-> <<>>]
Nil       == Rep("nil", NoVal)
Arr(s)    == [k |-> "arr", v |-> NoVal, items |-> s]
IsError(r) == r.k = "err"

\* events.Response(command, reply); `pos` is the index an annotated
\* error carries, 0 when there is none.
Item(p, c, r) == [pos |-> p, cmd |-> c, reply |-> r]
Response(c, r) == Item(0, c, r)

\* What the caller of the driver receives.  data_received passes a
\* returned exception to fut.set_exception and any other value to
\* fut.set_result.  A raised exception escapes data_received after the
\* future was popped, so nobody receives it.
Result(w, b)  == [how |-> "result", what |-> w, body |-> b]
Exc(w, b)     == [how |-> "exception", what |-> w, body |-> b]
Escape(w)     == [how |-> "escapes", what |-> w, body |-> <<>>]

\* _iter_responses: zip(commands, replies).
IterResponses(commands, replies) ==
    LET z == Zip(commands, replies)
    IN  [i \in DOMAIN z |-> Response(z[i][1], z[i][2])]

\* _response_or_exc with _annotate_exception: the errors, each with its
\* 1-based index, or the responses.
ResponseOrExc(commands, replies) ==
    LET rs   == IterResponses(commands, replies)
        errs == SelectSeq([i \in DOMAIN rs |-> Item(i, rs[i].cmd, rs[i].reply)],
                          LAMBDA x : IsError(x.reply))
    IN  IF errs # <<>> THEN Exc("composite", errs)
                       ELSE Result("responses", rs)

\* _sanity_check_transaction.  replies.pop(0) and replies.pop(-1) leave the
\* command acks in `replies`.  An ack error calls annoexc(command=,
\* reply=, pos=), which takes only `errors=`, so a TypeError is raised
\* before the EXEC reply is examined.  With no ack error, the splice loop
\* has nothing to insert.
SanityCheck(commands, replies) ==
    LET watch == Head(replies)
        exec  == Last(replies)
        acks  == SubSeq(replies, 2, Len(replies) - 1)
        Raise(w) == [raised |-> TRUE, out |-> Escape(w)]
    IN  CASE \E i \in DOMAIN Zip(commands, acks) : IsError(acks[i])
                 -> Raise("type_error")
          [] IsError(exec)    -> Raise("exec_error")
          [] exec.k = "nil"   -> Raise("watch_error")
          [] Len(exec.items) # Len(commands) -> Raise("wrong_number")
          [] OTHER -> [raised |-> FALSE,
                       watch  |-> IF IsError(watch) THEN watch ELSE Nil,
                       exec   |-> exec.items,
                       acks   |-> acks]

\* _read_pipelined_response, by (transaction, raise_on_error).  In the
\* (True, True) branch, _response_or_exc is given `reply`: the list that
\* the sanity check popped, which now holds the acks.
ReadPipelined(event, reply) ==
    LET sc == SanityCheck(event.commands, reply)
        WatchPrefix == IF sc.watch # Nil THEN <<Item(0, NoCmd, sc.watch)>> ELSE <<>>
    IN  CASE event.transaction /\ event.raise
               -> IF sc.raised THEN sc.out
                  ELSE IF sc.watch # Nil THEN Exc("error", WatchPrefix)
                  ELSE ResponseOrExc(event.commands, sc.acks)
          [] event.transaction /\ ~event.raise
               -> IF sc.raised THEN sc.out
                  ELSE Result("responses",
                              WatchPrefix \o IterResponses(event.commands, sc.exec))
          [] ~event.transaction /\ event.raise
               -> ResponseOrExc(event.commands, reply)
          [] OTHER
               -> Result("responses", IterResponses(event.commands, reply))

----------------------------------------------------------------------------
(* Operator: the reference normalisation (spec 4.B) *)

SpecZip(cs, rs) == [i \in DOMAIN Zip(cs, rs) |-> Item(0, cs[i], rs[i])]

\* Raise-on-error: every error reply annotated with its 1-based command
\* index, or else the responses.
SpecRaiseOnError(cs, rs) ==
    LET bad == SelectSeq([i \in DOMAIN Zip(cs, rs) |-> Item(i, cs[i], rs[i])],
                         LAMBDA x : IsError(x.reply))
    IN  IF bad # <<>> THEN Exc("composite", bad) ELSE Result("responses", SpecZip(cs, rs))

\* The EXEC body with each failing command's ack error inserted at the
\* command's position.
Splice(acks, body) ==
    FoldLeft(LAMBDA s, i : IF IsError(acks[i])
                           THEN InsertAt(s, IF i <= Len(s) + 1 THEN i ELSE Len(s) + 1, acks[i])
                           ELSE s,
             body, [i \in DOMAIN acks |-> i])

SpecTransaction(event, reply) ==
    LET cs    == event.commands
        watch == Head(reply)
        exec  == Last(reply)
        acks  == SubSeq(reply, 2, Len(reply) - 1)
        body  == Splice(acks, exec.items)
        watchItems == IF IsError(watch) THEN <<Item(0, NoCmd, watch)>> ELSE <<>>
    IN  CASE event.raise /\ IsError(watch) -> Exc("error", watchItems)
          [] IsError(exec)              -> Exc("exec_error", <<>>)
          [] exec.k = "nil"             -> Exc("watch_error", <<>>)
          [] Len(body) # Len(cs)        -> Exc("wrong_number", <<>>)
          [] event.raise                -> SpecRaiseOnError(cs, body)
          [] OTHER -> Result("responses", watchItems \o SpecZip(cs, body))

SpecPipelined(event, reply) ==
    CASE event.transaction -> SpecTransaction(event, reply)
      [] event.raise       -> SpecRaiseOnError(event.commands, reply)
      [] OTHER             -> Result("responses", SpecZip(event.commands, reply))

----------------------------------------------------------------------------
(* Inputs and the entry point *)

Plain  == {Rep("val", Val), Rep("err", Err), Nil}
Acks   == {Rep("val", Queued), Rep("err", Err)}
Bodies(n) == {Nil, Rep("err", Err)}
             \cup {Arr(s) : s \in BoundedSeq({Rep("val", Val), Rep("err", Err)}, n)}

\* The wire reply of a vanilla pipeline: one reply per command.  That of a
\* transaction: the MULTI ack, the command acks, then the EXEC reply.
Replies(tx, n) ==
    IF tx THEN {<<w>> \o a \o <<b>> : w \in {Rep("val", Ok), Rep("err", Err)},
                                      a \in [1..n -> Acks], b \in Bodies(n)}
          ELSE [1..n -> Plain]

ReadInputs ==
    UNION {{[transaction |-> tx, raise |-> r,
             commands |-> SubSeq(OpCmds, 1, n), reply |-> rep]
             : rep \in Replies(tx, n)}
           : tx \in BOOLEAN, r \in BOOLEAN, n \in 1..MaxCmds}

\* RedisOperator.read_response of a pipeline's parsed reply.
ReadResponse == \E i \in ReadInputs : input' = i

Init == input \in ReadInputs

Next == ReadResponse

Spec == Init /\ [][Next]_input

----------------------------------------------------------------------------
(* Properties *)

\* A MULTI/EXEC pipeline's replies reach the caller as the reference says:
\* the EXEC results paired with the commands, ack errors spliced in, and
\* exceptions delivered to the caller (_read_pipelined_response,
\* _sanity_check_transaction).
TransactionMatchesSpec ==
    input.transaction =>
        ReadPipelined(input, input.reply) = SpecPipelined(input, input.reply)

=============================================================================
