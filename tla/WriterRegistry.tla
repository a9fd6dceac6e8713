--------------------------- MODULE WriterRegistry ---------------------------
(***************************************************************************)
(* Writer instances and the converter table they share                    *)
(* (redis/sansio/writer.py).  Writer.__init__ stores its encoding and      *)
(* encoding_errors and then assigns self._converters[str], but            *)
(* _converters is a class attribute: every Writer of the process encodes  *)
(* str with the converter of the last Writer constructed.  A Writer is    *)
(* built for every protocol's operator (sansredis/sansio/protocol.py:58)   *)
(* and again for the RESP2 operator of a pre-6.0 handshake (line 159).     *)
(*                                                                         *)
(* State:                                                                  *)
(*   conv     the str entry of Writer._converters, as its configuration;   *)
(*   writers  the configuration of each Writer constructed so far;         *)
(*   out      the last pack_command call: its writer, its command and      *)
(*            what it returned or raised.                                  *)
(***************************************************************************)
EXTENDS Writer

CONSTANTS
    Encodings,      \* encoding arguments, NoVal included
    ErrorModes,     \* encoding_errors arguments, NoVal included
    Args,           \* argument values a command carries (PyValue records)
    MaxArgs,        \* bound on the modifiers of one command
    MaxWriters      \* bound on the Writers constructed

VARIABLES conv, writers, out

vars == <<conv, writers, out>>

NoOut == [w |-> 0, verb |-> <<>>, modifiers |-> <<>>,
          res |-> [raised |-> "none", frames |-> <<>>]]

\* Commands: a one-word str verb and up to MaxArgs modifiers.
Verbs == {<<PyValue("str", "SET")>>}
Modifiers == UNION {[1..k -> Args] : k \in 0..MaxArgs}

Init ==
    /\ conv = DefaultConverter
    /\ writers = <<>>
    /\ out = NoOut

(* Writer(encoding=e, encoding_errors=r): the instance keeps e and r, and *)
(* the class-level str converter becomes _get_str_encoder()'s.             *)
NewWriter(e, r) ==
    /\ Len(writers) < MaxWriters
    /\ writers' = Append(writers, [enc |-> e, errors |-> r])
    /\ conv' = Converter(e, r)
    /\ UNCHANGED out

(* writers[w].pack_command(Command(verb, modifiers)): _pack_command with   *)
(* the converter table as it is now.                                       *)
Pack(w, verb, modifiers) ==
    /\ out' = [w |-> w, verb |-> verb, modifiers |-> modifiers,
               res |-> PackWith(conv, verb, modifiers)]
    /\ UNCHANGED <<conv, writers>>

Next ==
    \/ \E e \in Encodings, r \in ErrorModes : NewWriter(e, r)
    \/ \E w \in 1..Len(writers), v \in Verbs, m \in Modifiers : Pack(w, v, m)

Spec == Init /\ [][Next]_vars

----------------------------------------------------------------------------
(* Properties *)

\* What spec 8's round trip expects of a pack: DataError when an argument
\* is not encodable, otherwise one frame whose bulks are the arguments'
\* bytes in the packing writer's own codec.
Expected(o) ==
    LET toks == o.verb \o o.modifiers
    IN  IF \E i \in DOMAIN toks : toks[i].type \notin Valid
        THEN [raised |-> "DataError", frames |-> <<>>]
        ELSE [raised |-> "none",
              frames |-> <<[i \in DOMAIN toks |-> SpecBytes(writers[o.w].enc, toks[i])]>>]

\* What the reference decoder reads back from a pack, or what it raised.
ReadBack(o) == [raised |-> o.res.raised, frames |-> Unframe(o.res.frames)]

\* Round trip (spec 3, 4.A, 8): every command a Writer packs decodes to its
\* tokens, each str in that Writer's own encoding, and only a value of an
\* unsupported class is refused (Writer.__init__, encode, _pack_command).
ArgumentsRoundTrip == out # NoOut => ReadBack(out) = Expected(out)

=============================================================================
