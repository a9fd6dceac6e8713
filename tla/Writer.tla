------------------------------- MODULE Writer -------------------------------
(***************************************************************************)
(* The RESP writer of redis/sansio/writer.py as pure operators: the value *)
(* encoder (Writer.encode with the str converter _get_str_encoder builds)  *)
(* and the multi-bulk framing of one command (_pack_command), beside the   *)
(* reference decoder of spec 4.A.                                          *)
(*                                                                         *)
(* Data abstraction:                                                       *)
(*   - a Python value is a record [type, v]: its class and its content.    *)
(*     A str's content is a text; ASCII texts encode alike in every        *)
(*     codec, and Accented stands for a one-character non-ASCII text       *)
(*     (an e with an acute accent), whose bytes depend on the codec.  A    *)
(*     memoryview's content is its format: "B" (one byte per item) or "I" *)
(*     (four).                                                             *)
(*   - bytes on the wire are <<content, how>>: how = the codec of encoded  *)
(*     text, "text" for ASCII text, "raw" for bytes-like values.           *)
(*   - a bulk frame records whether its "$<len>" header counts exactly    *)
(*     the bytes that follow it.                                           *)
(***************************************************************************)
EXTENDS Naturals, Sequences

CONSTANT NoVal      \* None

Accented == "e-acute"

PyValue(t, v) == [type |-> t, v |-> v]

\* Writer._valid: the classes encode accepts (a subclass such as bool is
\* not one of them).
Valid == {"bytes", "bytearray", "memoryview", "str", "int", "float"}

\* The str converter in Writer._converters, as the configuration it was
\* built from: _get_str_encoder ignores encoding_errors when encoding is
\* falsy and returns lambda val: val.encode(), the class's initial entry.
Converter(encoding, errors) ==
    [enc |-> encoding, errors |-> IF encoding = NoVal THEN NoVal ELSE errors]

DefaultConverter == Converter(NoVal, NoVal)

\* The codec a configuration means (spec 3: default UTF-8).
CodecOf(encoding) == IF encoding = NoVal THEN "utf-8" ELSE encoding

\* The bytes of a text in a codec.
TextBytes(t, codec) == IF t = Accented THEN <<t, codec>> ELSE <<t, "text">>

Encoded(bytes, exact) == [raised |-> "none", bytes |-> bytes, exact |-> exact]
Raised(e) == [raised |-> e, bytes |-> <<>>, exact |-> TRUE]

\* Writer.encode(val) with the class-level str converter `conv`.  The
\* converter built with encoding_errors calls val.encode(val, encoding,
\* errors), one argument too many for str.encode: a TypeError.  int is
\* b"%d" % val and float b"%r" % val.  Other valid classes pass unchanged;
\* the frame's "$<len>" is len(barg), which for a memoryview counts items,
\* not bytes.
Encode(conv, val) ==
    CASE val.type \notin Valid -> Raised("DataError")
      [] val.type = "str" /\ conv.errors # NoVal -> Raised("TypeError")
      [] val.type = "str" -> Encoded(TextBytes(val.v, CodecOf(conv.enc)), TRUE)
      [] val.type \in {"int", "float"} -> Encoded(<<val.v, "text">>, TRUE)
      [] val.type = "memoryview" -> Encoded(<<val.v, "raw">>, val.v = "B")
      [] OTHER -> Encoded(<<val.v, "raw">>, TRUE)

Header(k) == [t |-> "array", n |-> k, exact |-> TRUE, bytes |-> <<>>]
Bulk(e)   == [t |-> "bulk", n |-> 0, exact |-> e.exact, bytes |-> e.bytes]

\* _pack_command: "*N" with N = len(cmd) + len(args), then each token of
\* chain(cmd, args) encoded and framed; the first token encode raises on
\* ends the call.  `verb` is event.command.split(), `modifiers` the
\* event's modifiers.
PackWith(conv, verb, modifiers) ==
    LET toks == verb \o modifiers
        enc  == [i \in DOMAIN toks |-> Encode(conv, toks[i])]
        bad  == {i \in DOMAIN toks : enc[i].raised # "none"}
    IN  IF bad # {} THEN [raised |-> enc[CHOOSE i \in bad : \A j \in bad : i <= j].raised,
                          frames |-> <<>>]
        ELSE [raised |-> "none",
              frames |-> <<Header(Len(toks))>> \o [i \in DOMAIN toks |-> Bulk(enc[i])]]

\* Reference decoder (spec 4.A): a stream of multi-bulk frames, "*N" then
\* N bulks, each "$<len>" followed by exactly len bytes.  A bulk whose
\* header does not count its bytes misframes the stream, which then
\* decodes to <<NoVal>>.
RECURSIVE Unframe(_)
Unframe(s) ==
    IF s = <<>> THEN <<>>
    ELSE IF s[1].t = "array" /\ s[1].n + 1 <= Len(s)
            /\ \A i \in 2..(s[1].n + 1) : s[i].t = "bulk" /\ s[i].exact
         THEN <<[i \in 1..s[1].n |-> s[i + 1].bytes]>>
                  \o Unframe(SubSeq(s, s[1].n + 2, Len(s)))
         ELSE <<<<NoVal>>>>

\* The decoded frames as token lists: each bulk's content.
Unpack(s) ==
    LET u == Unframe(s)
    IN  [k \in DOMAIN u |-> [i \in DOMAIN u[k] |-> IF u[k][i] = NoVal THEN NoVal ELSE u[k][i][1]]]

\* The bytes spec 3 and 4.A prescribe for an argument: strings in the
\* writer's configured codec, ints and floats as their text, bytes-like
\* values as they are.
SpecBytes(encoding, val) ==
    CASE val.type = "str" -> TextBytes(val.v, CodecOf(encoding))
      [] val.type \in {"int", "float"} -> <<val.v, "text">>
      [] OTHER -> <<val.v, "raw">>

=============================================================================
