------------------------------ MODULE Commands ------------------------------
(***************************************************************************)
(* The command builders (redis/sansio/commands/core/*.py and              *)
(* sansredis/sansio/commands/core/*.py) as pure operators.  A builder      *)
(* turns its keyword arguments into execute_command(verb, *pieces): it     *)
(* either raises DataError or hands a command to make_command              *)
(* (Protocol!Cmd), which the writer frames (Codec!PackCommand).            *)
(*                                                                         *)
(* Each builder is set beside a reference written from the Redis command  *)
(* syntax its docstring links to, and from the constraints its docstring  *)
(* or its own error messages state.  A reference gives:                   *)
(*   - stated:  the call breaks a constraint the builder states, so it    *)
(*              must raise DataError;                                     *)
(*   - invalid: the Redis syntax rejects the call; the builder may raise  *)
(*              or leave the rejection to the server, but what it sends   *)
(*              must still say what the arguments say;                    *)
(*   - the command's meaning: its positional tokens, its option clauses   *)
(*     (keyword and arguments, in any order, as the server's option loop  *)
(*     reads them) and its trailing positional tokens.                    *)
(* The server side is a generic option parser (Meaning) driven by a       *)
(* per-command grammar.                                                    *)
(*                                                                         *)
(* Data abstraction: a key, member or other name is a fixed string; a     *)
(* Python int is a TLA+ integer, encoded on the wire as its decimal text  *)
(* (Writer._converters[int]); None is NoVal; an argument that is not an  *)
(* int where one is parsed is the model value NotInt.                      *)
(***************************************************************************)
EXTENDS Protocol

CONSTANTS
    NotInt,     \* a model value: an argument that is not an int
    Kinds       \* the builders called

\* Values of the integer arguments; None is NoVal.
Ints(S) == {NoVal} \cup S

----------------------------------------------------------------------------
(* The wire *)

Digit == <<"0", "1", "2", "3", "4", "5", "6", "7", "8", "9">>

\* Writer._converters[int]: b"%d" % val, the decimal text of an integer;
\* str(n) in a builder gives the same text.
RECURSIVE Text(_)
Text(n) ==
    IF n < 0 THEN "-" \o Text(-n)
    ELSE IF n < 10 THEN Digit[n + 1]
    ELSE Text(n \div 10) \o Digit[(n % 10) + 1]

\* The outcome of a builder call.
Raise(e) == [how |-> e, toks |-> <<>>]
DataError == Raise("DataError")

\* execute_command(verb, *pieces): make_command, then the writer's frame as
\* the server reads it back.  Writer.encode raises DataError on None.
Send(verb, pieces) ==
    IF \E i \in DOMAIN pieces : pieces[i] = NoVal THEN DataError
    ELSE [how |-> "sent", toks |-> Unpack(PackCommand(Cmd(verb, pieces)))[1]]

\* A piece list appended only when cond holds.
Opt(cond, s) == IF cond THEN s ELSE <<>>

----------------------------------------------------------------------------
(* The server's view of a command: the reference side *)

\* A grammar: `pos` leading positional tokens (verb included), an
\* optional run of non-keyword tokens after them (`lead`), option
\* keywords with their arity, and trailing positional tokens (`tail`).
\* An arity is a number of tokens, Approx (MAXLEN/MINID: an optional ~ or
\* =, then one token) or Rest (every remaining token).
\* `dflt` holds the clauses the server reads as their absence.
GrammarD(p, l, kw, t, d) == [pos |-> p, lead |-> l, kw |-> kw, tail |-> t, dflt |-> d]
Grammar(p, l, kw, t) == GrammarD(p, l, kw, t, {})

Approx == -1
Rest == -2

Arity(a, rest) ==
    CASE a >= 0      -> a
      [] a = Approx -> IF rest # <<>> /\ Head(rest) \in {"~", "="} THEN 2 ELSE 1
      [] a = Rest   -> Len(rest)

SyntaxError == [ok |-> FALSE, pos |-> <<>>, opts |-> <<>>, tail |-> <<>>]

\* The option loop: keyword clauses until the first non-keyword token,
\* which starts the trailing positional tokens (if the grammar has any).
RECURSIVE Options(_, _)
Options(g, s) ==
    IF s = <<>> THEN [ok |-> TRUE, pos |-> <<>>, opts |-> <<>>, tail |-> <<>>]
    ELSE IF Head(s) \in DOMAIN g.kw
         THEN LET n == Arity(g.kw[Head(s)], Tail(s)) IN
              IF n > Len(s) - 1 THEN SyntaxError
              ELSE LET r == Options(g, SubSeq(s, n + 2, Len(s))) IN
                   IF r.ok THEN [r EXCEPT !.opts = <<<<Head(s), SubSeq(s, 2, n + 1)>>>> \o @]
                   ELSE r
         ELSE IF g.tail THEN [ok |-> TRUE, pos |-> <<>>, opts |-> <<>>, tail |-> s]
         ELSE SyntaxError

\* The position of the first option keyword, past the end if none.
FirstKeyword(g, s) ==
    LET ks == {i \in DOMAIN s : s[i] \in DOMAIN g.kw}
    IN  IF ks = {} THEN Len(s) + 1 ELSE Min(ks)

\* The command as the server reads it; with `lead`, the non-keyword tokens
\* before the first option (XCLAIM's message ids) are positional too.
Meaning(g, toks) ==
    IF Len(toks) < g.pos THEN SyntaxError
    ELSE LET rest == SubSeq(toks, g.pos + 1, Len(toks))
             k    == IF g.lead THEN FirstKeyword(g, rest) - 1 ELSE 0
             r    == Options(g, SubSeq(rest, k + 1, Len(rest)))
         IN  IF r.ok THEN [r EXCEPT !.pos = SubSeq(toks, 1, g.pos) \o SubSeq(rest, 1, k)]
             ELSE r

\* Option clauses compared as the server reads them: by keyword, keeping
\* the order of repeated keywords (GET, PREFIX).
ByKeyword(cls) ==
    [k \in {cls[i][1] : i \in DOMAIN cls} |-> SelectSeq(cls, LAMBDA c : c[1] = k)]

Clause(kw, args) == <<kw, args>>

\* The clauses that are not a server default.
Explicit(g, cls) == SelectSeq(cls, LAMBDA c : c \notin g.dflt)

\* An argument given as an int (on the reference side).
Given(v) == v \notin {NoVal, NotInt}
Flag(cond, kw) == Opt(cond, <<Clause(kw, <<>>)>>)

Ref(stated, invalid, pos, opts, tail) ==
    [stated |-> stated, invalid |-> invalid, pos |-> pos, opts |-> opts, tail |-> tail]

\* The builder's outcome agrees with the reference: a call the server
\* refuses may raise any error.
Agrees(g, out, ref) ==
    IF ref.stated THEN out = DataError
    ELSE IF out.how # "sent" THEN ref.invalid
    ELSE LET m == Meaning(g, out.toks)
         IN IF m.ok THEN /\ m.pos = ref.pos /\ m.tail = ref.tail
                         /\ ByKeyword(Explicit(g, m.opts)) = ByKeyword(Explicit(g, ref.opts))
            ELSE ref.invalid

----------------------------------------------------------------------------
(* Keys and strings: redis/sansio/commands/core/key.py *)

\* BITCOUNT key [start end [BYTE | BIT]]
bitcount(x) ==
    IF x.start # NoVal /\ x.end # NoVal
    THEN Send(<<"BITCOUNT">>, <<"k", Text(x.start), Text(x.end)>>)
    ELSE IF x.start # NoVal \/ x.end # NoVal THEN DataError
    ELSE Send(<<"BITCOUNT">>, <<"k">>)

\* "Both start and end must be specified".
Specbitcount(x) ==
    Ref((x.start = NoVal) # (x.end = NoVal), FALSE, <<"BITCOUNT", "k">>, <<>>,
        Opt(Given(x.start), <<Text(x.start)>>) \o Opt(Given(x.end), <<Text(x.end)>>))

\* BITPOS key bit [start [end [BYTE | BIT]]]
bitpos(x) ==
    IF x.bit \notin {0, 1} THEN DataError
    ELSE LET params == <<"k", Text(x.bit)>> \o Opt(x.start # NoVal, <<Text(x.start)>>)
         IN  IF x.start # NoVal /\ x.end # NoVal THEN Send(<<"BITPOS">>, params \o <<Text(x.end)>>)
             ELSE IF x.start = NoVal /\ x.end # NoVal THEN DataError
             ELSE Send(<<"BITPOS">>, params)

\* "bit must be 0 or 1"; "start argument is not set, when end is specified".
Specbitpos(x) ==
    Ref(x.bit \notin {0, 1} \/ (x.start = NoVal /\ x.end # NoVal), FALSE,
        <<"BITPOS", "k", Text(x.bit)>>, <<>>,
        Opt(x.start # NoVal, <<Text(x.start)>>) \o Opt(x.end # NoVal, <<Text(x.end)>>))

\* COPY source destination [DB destination-db] [REPLACE]
copy(x) ==
    Send(<<"COPY">>, <<"k", "d">> \o Opt(x.db # NoVal, <<"DB", Text(x.db)>>)
                                \o Opt(x.replace, <<"REPLACE">>))

Speccopy(x) ==
    Ref(FALSE, FALSE, <<"COPY", "k", "d">>,
        Opt(x.db # NoVal, <<Clause("DB", <<Text(x.db)>>)>>) \o Flag(x.replace, "REPLACE"), <<>>)

\* GETEX key [EX s | PX ms | EXAT unix-s | PXAT unix-ms | PERSIST].  The
\* check builds the Python set {ex, px, exat, pxat}, so equal values count
\* once.
getex(x) ==
    LET opset == {x.ex, x.px, x.exat, x.pxat} IN
    IF Cardinality(opset) > 2 \/ (Cardinality(opset) > 1 /\ x.persist) THEN DataError
    ELSE Send(<<"GETEX">>, <<"k">> \o Opt(x.ex # NoVal, <<"EX", Text(x.ex)>>)
                                  \o Opt(x.px # NoVal, <<"PX", Text(x.px)>>)
                                  \o Opt(x.exat # NoVal, <<"EXAT", Text(x.exat)>>)
                                  \o Opt(x.pxat # NoVal, <<"PXAT", Text(x.pxat)>>)
                                  \o Opt(x.persist, <<"PERSIST">>))

\* The expiry options and their keywords, shared by GETEX and SET.
Expiry == [ex |-> "EX", px |-> "PX", exat |-> "EXAT", pxat |-> "PXAT"]
Expiries(x) == {o \in DOMAIN Expiry : Given(x[o])}
ExpiryClauses(x) == SetToSeq({Clause(Expiry[o], <<Text(x[o])>>) : o \in Expiries(x)})

\* "ex, px, exat, pxat, and persist are mutually exclusive."
Specgetex(x) ==
    Ref(Cardinality(Expiries(x)) + (IF x.persist THEN 1 ELSE 0) > 1, FALSE,
        <<"GETEX", "k">>, ExpiryClauses(x) \o Flag(x.persist, "PERSIST"), <<>>)

\* RESTORE key ttl serialized-value [REPLACE] [ABSTTL] [IDLETIME s] [FREQ f].
\* int() of a non-numeric value raises ValueError, turned into DataError.
restore(x) ==
    IF x.idletime = NotInt \/ x.frequency = NotInt THEN DataError
    ELSE Send(<<"RESTORE">>, <<"k", "0", "v">>
                  \o Opt(x.replace, <<"REPLACE">>) \o Opt(x.absttl, <<"ABSTTL">>)
                  \o Opt(x.idletime # NoVal, <<"IDLETIME", Text(x.idletime)>>)
                  \o Opt(x.frequency # NoVal, <<"FREQ", Text(x.frequency)>>))

\* "idletime must be an integer", "frequency must be an integer"; the
\* server refuses IDLETIME together with FREQ.
Specrestore(x) ==
    Ref(x.idletime = NotInt \/ x.frequency = NotInt,
        x.idletime # NoVal /\ x.frequency # NoVal,
        <<"RESTORE", "k", "0", "v">>,
        Flag(x.replace, "REPLACE") \o Flag(x.absttl, "ABSTTL")
            \o Opt(Given(x.idletime), <<Clause("IDLETIME", <<Text(x.idletime)>>)>>)
            \o Opt(Given(x.frequency), <<Clause("FREQ", <<Text(x.frequency)>>)>>), <<>>)

\* SET key value [NX | XX] [GET] [EX s | PX ms | EXAT unix-s | PXAT unix-ms |
\* KEEPTTL].  Only ex and px are type-checked.
set(x) ==
    IF x.ex = NotInt \/ x.px = NotInt THEN DataError
    ELSE Send(<<"SET">>, <<"k", "v">> \o Opt(x.ex # NoVal, <<"EX", Text(x.ex)>>)
                                     \o Opt(x.px # NoVal, <<"PX", Text(x.px)>>)
                                     \o Opt(x.exat # NoVal, <<"EXAT", Text(x.exat)>>)
                                     \o Opt(x.pxat # NoVal, <<"PXAT", Text(x.pxat)>>)
                                     \o Opt(x.keepttl, <<"KEEPTTL">>)
                                     \o Opt(x.nx, <<"NX">>) \o Opt(x.xx, <<"XX">>)
                                     \o Opt(x.get, <<"GET">>))

\* "ex must be datetime.timedelta or int" (and px); the server refuses two
\* expiries, KEEPTTL with an expiry, and NX with XX.
Specset(x) ==
    Ref(x.ex = NotInt \/ x.px = NotInt,
        Cardinality(Expiries(x)) + (IF x.keepttl THEN 1 ELSE 0) > 1 \/ (x.nx /\ x.xx),
        <<"SET", "k", "v">>,
        ExpiryClauses(x) \o Flag(x.keepttl, "KEEPTTL") \o Flag(x.nx, "NX")
            \o Flag(x.xx, "XX") \o Flag(x.get, "GET"), <<>>)

\* specific_argument.upper()
Upper == [keys |-> "KEYS", strings |-> "STRINGS", values |-> "VALUES"]

\* STRALGO LCS KEYS|STRINGS a b [LEN] [IDX] [MINMATCHLEN len] [WITHMATCHLEN].
\* int(minmatchlen) of a non-numeric value raises ValueError, which the
\* builder does not catch; None (TypeError) leaves MINMATCHLEN out.
stralgo(x) ==
    IF x.algo # "LCS" \/ x.specific_argument \notin {"keys", "strings"} \/ (x.len /\ x.idx)
    THEN DataError
    ELSE IF x.minmatchlen = NotInt THEN Raise("ValueError")
    ELSE Send(<<"STRALGO">>, <<x.algo, Upper[x.specific_argument], "a", "b">>
                  \o Opt(x.len, <<"LEN">>) \o Opt(x.idx, <<"IDX">>)
                  \o Opt(x.minmatchlen # NoVal, <<"MINMATCHLEN", Text(x.minmatchlen)>>)
                  \o Opt(x.withmatchlen, <<"WITHMATCHLEN">>))

\* "algo ... must be LCS"; "specific_argument can be only keys or
\* strings"; "len and idx cannot be provided together".
Specstralgo(x) ==
    Ref(x.algo # "LCS" \/ x.specific_argument \notin {"keys", "strings"} \/ (x.len /\ x.idx),
        x.minmatchlen = NotInt,
        <<"STRALGO", "LCS", Upper[x.specific_argument], "a", "b">>,
        Flag(x.len, "LEN") \o Flag(x.idx, "IDX")
            \o Opt(Given(x.minmatchlen), <<Clause("MINMATCHLEN", <<Text(x.minmatchlen)>>)>>)
            \o Flag(x.withmatchlen, "WITHMATCHLEN"), <<>>)

\* HRANDFIELD key [count [WITHVALUES]]: count when not None, WITHVALUES
\* when truthy, each on its own.
hrandfield(x) ==
    Send(<<"HRANDFIELD">>, <<"k">> \o Opt(x.count # NoVal, <<Text(x.count)>>)
                                 \o Opt(x.withvalues, <<"WITHVALUES">>))

\* HRANDFIELD and ZRANDMEMBER take their flag (kw) only after a count.
RandomSpec(verb, count, flag, kw) ==
    Ref(FALSE, flag /\ count = NoVal, <<verb, "k">>, <<>>,
        Opt(Given(count), <<Text(count)>>) \o Opt(flag, <<kw>>))

Spechrandfield(x) == RandomSpec("HRANDFIELD", x.count, x.withvalues, "WITHVALUES")

\* The piece minmatchlen puts on the wire (None stays None).
MinLen(x) == IF x.minmatchlen = NoVal THEN NoVal ELSE Text(x.minmatchlen)

\* LCS key1 key2 [LEN] [IDX] [MINMATCHLEN len] [WITHMATCHLEN].  The test
\* `minmatchlen != 0` lets None through, which Writer.encode refuses.
lcs(x) ==
    Send(<<"LCS">>, <<"a", "b">> \o Opt(x.len, <<"LEN">>) \o Opt(x.idx, <<"IDX">>)
                             \o Opt(x.minmatchlen # 0, <<"MINMATCHLEN", MinLen(x)>>)
                             \o Opt(x.withmatchlen, <<"WITHMATCHLEN">>))

\* minmatchlen is Optional[int]; None and 0 restrict nothing.  The server
\* refuses LEN with IDX.
Speclcs(x) ==
    Ref(FALSE, x.len /\ x.idx, <<"LCS", "a", "b">>,
        Flag(x.len, "LEN") \o Flag(x.idx, "IDX")
            \o Opt(Given(x.minmatchlen) /\ x.minmatchlen # 0,
                   <<Clause("MINMATCHLEN", <<Text(x.minmatchlen)>>)>>)
            \o Flag(x.withmatchlen, "WITHMATCHLEN"), <<>>)

----------------------------------------------------------------------------
(* Streams: redis/sansio/commands/core/stream.py *)

\* n field/value pairs of a fields dict, n streams of a streams dict.
Pairs(n) == Opt(n > 0, <<"f", "v">>)
StreamKeys(n) == [i \in 1..n |-> "s" \o Text(i)]
StreamIds(n) == [i \in 1..n |-> "0-" \o Text(i)]

\* A trimming threshold: the keyword, an optional ~, the value.
Threshold(kw, approx, v) == <<kw>> \o Opt(approx, <<"~">>) \o <<v>>
Trim(kw, approx, v) == Clause(kw, Opt(approx, <<"~">>) \o <<v>>)

\* A count, block or time argument that is not an int or is below lo.
Below(v, lo) == v # NoVal /\ (v = NotInt \/ v < lo)

\* XADD key [NOMKSTREAM] [MAXLEN|MINID [=|~] threshold [LIMIT count]] id
\* field value [field value ...]
xadd(x) ==
    IF x.maxlen # NoVal /\ x.minid # NoVal THEN DataError
    ELSE IF Below(x.maxlen, 1) THEN DataError
    ELSE IF x.fields = 0 THEN DataError
    ELSE Send(<<"XADD">>, <<"k">>
            \o Opt(x.maxlen # NoVal, Threshold("MAXLEN", x.approximate, Text(x.maxlen)))
            \o Opt(x.minid # NoVal, Threshold("MINID", x.approximate, x.minid))
            \o Opt(x.limit # NoVal, <<"LIMIT", Text(x.limit)>>)
            \o Opt(x.nomkstream, <<"NOMKSTREAM">>) \o <<"*">> \o Pairs(x.fields))

\* "Only one of maxlen or minid may be specified", "XADD maxlen must be a
\* positive integer", "XADD fields must be a non-empty dict"; the server
\* refuses LIMIT without ~ or without a threshold.
Specxadd(x) ==
    Ref((x.maxlen # NoVal /\ x.minid # NoVal) \/ Below(x.maxlen, 1) \/ x.fields = 0,
        x.limit # NoVal /\ (~x.approximate \/ (x.maxlen = NoVal /\ x.minid = NoVal)),
        <<"XADD", "k">>,
        Opt(Given(x.maxlen), <<Trim("MAXLEN", x.approximate, Text(x.maxlen))>>)
            \o Opt(x.minid # NoVal, <<Trim("MINID", x.approximate, x.minid)>>)
            \o Opt(x.limit # NoVal, <<Clause("LIMIT", <<Text(x.limit)>>)>>)
            \o Flag(x.nomkstream, "NOMKSTREAM"),
        <<"*">> \o Pairs(x.fields))

\* XAUTOCLAIM key group consumer min-idle-time start [COUNT count] [JUSTID].
\* int(None) raises TypeError, which skips the check.
xautoclaim(x) ==
    IF x.mit < 0 THEN DataError
    ELSE IF x.count # NoVal /\ x.count < 0 THEN DataError
    ELSE Send(<<"XAUTOCLAIM">>, <<"k", "g", "c", Text(x.mit), Text(0)>>
                \o Opt(x.count # NoVal, <<"COUNT", Text(x.count)>>)
                \o Opt(x.justid, <<"JUSTID">>))

\* "min_idle_time must be a non negative integer", "count must be a integer
\* >= 0"; the server refuses COUNT 0.
Specxautoclaim(x) ==
    Ref(x.mit < 0 \/ Below(x.count, 0), x.count = 0,
        <<"XAUTOCLAIM", "k", "g", "c", Text(x.mit), "0">>,
        Opt(Given(x.count), <<Clause("COUNT", <<Text(x.count)>>)>>)
            \o Flag(x.justid, "JUSTID"), <<>>)

\* XCLAIM key group consumer min-idle-time id [id ...] [IDLE ms] [TIME ms]
\* [RETRYCOUNT count] [FORCE] [JUSTID].  Every check raises DataError and
\* none has an effect, so their order does not show.
xclaim(x) ==
    IF \/ x.mit = NotInt \/ x.mit < 0
       \/ x.ids = 0
       \/ x.idle = NotInt \/ x.time = NotInt \/ x.retrycount = NotInt
    THEN DataError
    ELSE Send(<<"XCLAIM">>, <<"k", "g", "c", Text(x.mit)>> \o StreamIds(x.ids)
                \o Opt(x.idle # NoVal, <<"IDLE", Text(x.idle)>>)
                \o Opt(x.time # NoVal, <<"TIME", Text(x.time)>>)
                \o Opt(x.retrycount # NoVal, <<"RETRYCOUNT", Text(x.retrycount)>>)
                \o Opt(x.force, <<"FORCE">>) \o Opt(x.justid, <<"JUSTID">>))

Specxclaim(x) ==
    Ref(Below(x.mit, 0) \/ x.ids = 0 \/ NotInt \in {x.idle, x.time, x.retrycount}, FALSE,
        <<"XCLAIM", "k", "g", "c">> \o Opt(Given(x.mit), <<Text(x.mit)>>) \o StreamIds(x.ids),
        Opt(Given(x.idle), <<Clause("IDLE", <<Text(x.idle)>>)>>)
            \o Opt(Given(x.time), <<Clause("TIME", <<Text(x.time)>>)>>)
            \o Opt(Given(x.retrycount), <<Clause("RETRYCOUNT", <<Text(x.retrycount)>>)>>)
            \o Flag(x.force, "FORCE") \o Flag(x.justid, "JUSTID"), <<>>)

\* XPENDING key group [[IDLE min-idle-time] start end count [consumer]].
\* With none of min, max and count it is xpending(name, groupname).
xpending_range(x) ==
    IF x.min = NoVal /\ x.max = NoVal /\ x.count = NoVal
    THEN IF x.idle # NoVal \/ x.consumer # NoVal THEN DataError
         ELSE Send(<<"XPENDING">>, <<"k", "g">>)
    ELSE IF x.min = NoVal \/ x.max = NoVal \/ x.count = NoVal THEN DataError
    ELSE IF x.idle # NoVal /\ x.idle < 0 THEN DataError
    ELSE IF x.count < 0 THEN DataError
    ELSE Send(<<"XPENDING">>, <<"k", "g">> \o Opt(x.idle # NoVal, <<"IDLE", Text(x.idle)>>)
                \o <<x.min, x.max, Text(x.count)>>
                \o Opt(x.consumer # NoVal, <<x.consumer>>))

\* "must be provided with min, max and count parameters, or none of them",
\* idle time or consumername only with them, "idle must be a integer >= 0",
\* "count must be a integer >= 0".
Specxpending_range(x) ==
    LET given == {a \in {"min", "max", "count"} : x[a] # NoVal}
        all   == given = {"min", "max", "count"}
    IN  Ref(\/ given = {} /\ (x.idle # NoVal \/ x.consumer # NoVal)
            \/ given \notin {{}, {"min", "max", "count"}}
            \/ Below(x.idle, 0) \/ Below(x.count, 0), FALSE,
            <<"XPENDING", "k", "g">>,
            Opt(Given(x.idle), <<Clause("IDLE", <<Text(x.idle)>>)>>),
            Opt(all, <<x.min, x.max, Text(x.count)>> \o Opt(x.consumer # NoVal, <<x.consumer>>)))

\* XRANGE key start end [COUNT count]
xrange(x) ==
    IF Below(x.count, 1) THEN DataError
    ELSE Send(<<"XRANGE">>, <<"k", "-", "+">> \o Opt(x.count # NoVal, <<"COUNT", Text(x.count)>>))

\* XREVRANGE key end start [COUNT count]
xrevrange(x) ==
    IF Below(x.count, 1) THEN DataError
    ELSE Send(<<"XREVRANGE">>, <<"k", "+", "-">> \o Opt(x.count # NoVal, <<"COUNT", Text(x.count)>>))

\* "count must be a positive integer".
SpecRange(verb, from, to, x) ==
    Ref(Below(x.count, 1), FALSE, <<verb, "k", from, to>>,
        Opt(Given(x.count), <<Clause("COUNT", <<Text(x.count)>>)>>), <<>>)
Specxrange(x) == SpecRange("XRANGE", "-", "+", x)
Specxrevrange(x) == SpecRange("XREVRANGE", "+", "-", x)

\* XREAD [COUNT count] [BLOCK ms] STREAMS key [key ...] id [id ...]
xread(x) ==
    IF Below(x.block, 0) \/ Below(x.count, 1) \/ x.streams = 0 THEN DataError
    ELSE Send(<<"XREAD">>, Opt(x.block # NoVal, <<"BLOCK", Text(x.block)>>)
                \o Opt(x.count # NoVal, <<"COUNT", Text(x.count)>>)
                \o <<"STREAMS">> \o StreamKeys(x.streams) \o StreamIds(x.streams))

\* XREADGROUP GROUP group consumer [COUNT count] [BLOCK ms] [NOACK] STREAMS
\* key [key ...] id [id ...]
xreadgroup(x) ==
    IF Below(x.count, 1) \/ Below(x.block, 0) \/ x.streams = 0 THEN DataError
    ELSE Send(<<"XREADGROUP">>, <<"GROUP", "g", "c">>
                \o Opt(x.count # NoVal, <<"COUNT", Text(x.count)>>)
                \o Opt(x.block # NoVal, <<"BLOCK", Text(x.block)>>)
                \o Opt(x.noack, <<"NOACK">>)
                \o <<"STREAMS">> \o StreamKeys(x.streams) \o StreamIds(x.streams))

\* "block must be a non-negative integer", "count must be a positive
\* integer", "streams must be a non empty dict".
SpecRead(verb, lead, x) ==
    Ref(Below(x.block, 0) \/ Below(x.count, 1) \/ x.streams = 0, FALSE, <<verb>>,
        lead \o Opt(Given(x.block), <<Clause("BLOCK", <<Text(x.block)>>)>>)
             \o Opt(Given(x.count), <<Clause("COUNT", <<Text(x.count)>>)>>)
             \o <<Clause("STREAMS", StreamKeys(x.streams) \o StreamIds(x.streams))>>, <<>>)
Specxread(x) == SpecRead("XREAD", <<>>, x)
Specxreadgroup(x) ==
    SpecRead("XREADGROUP", <<Clause("GROUP", <<"g", "c">>)>> \o Flag(x.noack, "NOACK"), x)

\* XTRIM key MAXLEN|MINID [=|~] threshold [LIMIT count].  The ~ is
\* appended whenever approximate is set, threshold or not.
xtrim(x) ==
    IF x.maxlen # NoVal /\ x.minid # NoVal THEN DataError
    ELSE Send(<<"XTRIM">>, <<"k">> \o Opt(x.maxlen # NoVal, <<"MAXLEN">>)
                \o Opt(x.minid # NoVal, <<"MINID">>) \o Opt(x.approximate, <<"~">>)
                \o Opt(x.maxlen # NoVal, <<Text(x.maxlen)>>)
                \o Opt(x.minid # NoVal, <<x.minid>>)
                \o Opt(x.limit # NoVal, <<"LIMIT", Text(x.limit)>>))

\* "Only one of maxlen or minid may be specified"; the server wants one of
\* them, and LIMIT only with ~.
Specxtrim(x) ==
    Ref(x.maxlen # NoVal /\ x.minid # NoVal,
        (x.maxlen = NoVal /\ x.minid = NoVal) \/ (x.limit # NoVal /\ ~x.approximate),
        <<"XTRIM", "k">>,
        Opt(Given(x.maxlen), <<Trim("MAXLEN", x.approximate, Text(x.maxlen))>>)
            \o Opt(x.minid # NoVal, <<Trim("MINID", x.approximate, x.minid)>>)
            \o Opt(x.limit # NoVal, <<Clause("LIMIT", <<Text(x.limit)>>)>>), <<>>)

----------------------------------------------------------------------------
(* Sorted sets: sansredis/sansio/commands/core/zset.py *)

\* n score/member pairs of a mapping, in the order ZADD sends them.
ScorePairs(n) == [i \in 1..(2 * n) |-> IF i % 2 = 1 THEN Text((i + 1) \div 2)
                                                   ELSE "m" \o Text(i \div 2)]
\* n keys of a key list.
KeyList(n) == [i \in 1..n |-> "z" \o Text(i)]

\* ZADD key [NX|XX] [GT|LT] [CH] [INCR] score member [score member ...].
\* gt and lt default to None and are sent when truthy.
zadd(x) ==
    IF \/ x.pairs = 0
       \/ x.nx /\ x.xx
       \/ x.incr /\ x.pairs # 1
       \/ x.nx = TRUE /\ (x.gt # NoVal \/ x.lt # NoVal)
    THEN DataError
    ELSE Send(<<"ZADD">>, <<"k">> \o Opt(x.nx, <<"NX">>) \o Opt(x.xx, <<"XX">>)
                \o Opt(x.ch, <<"CH">>) \o Opt(x.incr, <<"INCR">>)
                \o Opt(x.gt = TRUE, <<"GT">>) \o Opt(x.lt = TRUE, <<"LT">>)
                \o ScorePairs(x.pairs))

\* "ZADD requires at least one element/score pair", "either 'nx' or 'xx',
\* not both", "'incr' only works when passing a single element/score
\* pair", and "NX, LT, and GT are mutually exclusive options".
Speczadd(x) ==
    LET on(f) == f = TRUE
        stated == \/ x.pairs = 0
                  \/ x.nx /\ x.xx
                  \/ x.incr /\ x.pairs # 1
                  \/ Cardinality({f \in {"nx", "gt", "lt"} : on(x[f])}) > 1
    IN  Ref(stated, FALSE, <<"ZADD", "k">>,
            Flag(x.nx, "NX") \o Flag(x.xx, "XX") \o Flag(x.ch, "CH") \o Flag(x.incr, "INCR")
                \o Flag(on(x.gt), "GT") \o Flag(on(x.lt), "LT"),
            ScorePairs(x.pairs))

\* ZMPOP numkeys key [key ...] MIN|MAX [COUNT count]
zmpop(x) ==
    IF x.min = x.max THEN DataError
    ELSE Send(<<"ZMPOP">>, <<Text(x.keys)>> \o KeyList(x.keys)
                \o (IF x.min THEN <<"MIN">> ELSE <<"MAX">>)
                \o Opt(x.count # 1, <<"COUNT", Text(x.count)>>))

\* BZMPOP timeout numkeys key [key ...] MIN|MAX [COUNT count]
bzmpop(x) ==
    IF x.min = x.max THEN DataError
    ELSE Send(<<"BZMPOP">>, <<Text(0), Text(x.keys)>> \o KeyList(x.keys)
                \o (IF x.min THEN <<"MIN">> ELSE <<"MAX">>)
                \o <<"COUNT", Text(x.count)>>)

\* "Either min or max, but not both must be set".
SpecPop(pos, x) ==
    Ref(x.min = x.max, FALSE, pos \o <<Text(x.keys)>> \o KeyList(x.keys),
        Flag(x.min, "MIN") \o Flag(x.max, "MAX")
            \o <<Clause("COUNT", <<Text(x.count)>>)>>, <<>>)
Speczmpop(x) == SpecPop(<<"ZMPOP">>, x)
Specbzmpop(x) == SpecPop(<<"BZMPOP", "0">>, x)

\* ZRANGE key start stop [BYSCORE|BYLEX] [REV] [LIMIT offset count]
\* [WITHSCORES]; ZRANGESTORE dst src min max with the same options.
_zrange(x) ==
    IF \/ x.byscore /\ x.bylex
       \/ (x.offset # NoVal) # (x.num # NoVal)
       \/ x.bylex /\ x.withscores
    THEN DataError
    ELSE Send(<<x.cmd>>, Opt(x.cmd = "ZRANGESTORE", <<"d">>) \o <<"k", "0", "1">>
                \o Opt(x.byscore, <<"BYSCORE">>) \o Opt(x.bylex, <<"BYLEX">>)
                \o Opt(x.desc, <<"REV">>)
                \o Opt(x.offset # NoVal, <<"LIMIT", Text(x.offset), Text(x.num)>>)
                \o Opt(x.withscores, <<"WITHSCORES">>))

\* "byscore and bylex can not be specified together", "offset and num
\* must both be specified", "withscores not supported in combination
\* with bylex"; the server allows LIMIT only with BYSCORE or BYLEX.
Spec_zrange(x) ==
    LET stated == \/ x.byscore /\ x.bylex
                  \/ (x.offset = NoVal) # (x.num = NoVal)
                  \/ x.bylex /\ x.withscores
    IN  Ref(stated, x.offset # NoVal /\ ~x.byscore /\ ~x.bylex,
            <<x.cmd>> \o Opt(x.cmd = "ZRANGESTORE", <<"d">>) \o <<"k", "0", "1">>,
            Flag(x.byscore, "BYSCORE") \o Flag(x.bylex, "BYLEX") \o Flag(x.desc, "REV")
                \o Opt(Given(x.offset) /\ Given(x.num),
                        <<Clause("LIMIT", <<Text(x.offset), Text(x.num)>>)>>)
                \o Flag(x.withscores, "WITHSCORES"), <<>>)

\* ZRANGEBYLEX / ZREVRANGEBYLEX / ZRANGEBYSCORE / ZREVRANGEBYSCORE key a b
\* [LIMIT offset count] [WITHSCORES]: the four builders check and build
\* alike.
zrangebylex(x) ==
    IF (x.start # NoVal /\ x.num = NoVal) \/ (x.num # NoVal /\ x.start = NoVal) THEN DataError
    ELSE Send(<<"ZRANGEBYLEX">>, <<"z", "a", "b">>
                  \o Opt(x.start # NoVal /\ x.num # NoVal, <<"LIMIT", Text(x.start), Text(x.num)>>))

zrevrangebylex(x) ==
    IF (x.start # NoVal /\ x.num = NoVal) \/ (x.num # NoVal /\ x.start = NoVal) THEN DataError
    ELSE Send(<<"ZREVRANGEBYLEX">>, <<"z", "a", "b">>
                  \o Opt(x.start # NoVal /\ x.num # NoVal, <<"LIMIT", Text(x.start), Text(x.num)>>))

zrangebyscore(x) ==
    IF (x.start # NoVal /\ x.num = NoVal) \/ (x.num # NoVal /\ x.start = NoVal) THEN DataError
    ELSE Send(<<"ZRANGEBYSCORE">>, <<"z", "a", "b">>
                  \o Opt(x.start # NoVal /\ x.num # NoVal, <<"LIMIT", Text(x.start), Text(x.num)>>)
                  \o Opt(x.withscores, <<"WITHSCORES">>))

zrevrangebyscore(x) ==
    IF (x.start # NoVal /\ x.num = NoVal) \/ (x.num # NoVal /\ x.start = NoVal) THEN DataError
    ELSE Send(<<"ZREVRANGEBYSCORE">>, <<"z", "a", "b">>
                  \o Opt(x.start # NoVal /\ x.num # NoVal, <<"LIMIT", Text(x.start), Text(x.num)>>)
                  \o Opt(x.withscores, <<"WITHSCORES">>))

\* "start and num must both be specified".
SpecRangeBy(x) ==
    Ref((x.start = NoVal) # (x.num = NoVal), FALSE,
        <<CASE x.kind = "zrangebylex" -> "ZRANGEBYLEX" [] x.kind = "zrevrangebylex" -> "ZREVRANGEBYLEX"
            [] x.kind = "zrangebyscore" -> "ZRANGEBYSCORE" [] OTHER -> "ZREVRANGEBYSCORE", "z", "a", "b">>,
        Opt(Given(x.start) /\ Given(x.num), <<Clause("LIMIT", <<Text(x.start), Text(x.num)>>)>>)
            \o Flag(x.withscores, "WITHSCORES"), <<>>)

\* ZMSCORE key member [member ...]
zmscore(x) ==
    IF x.members = 0 THEN DataError
    ELSE Send(<<"ZMSCORE">>, <<"z">> \o [i \in 1..x.members |-> "m" \o Text(i)])

\* "ZMSCORE members must be a non-empty list".
Speczmscore(x) ==
    Ref(x.members = 0, FALSE, <<"ZMSCORE", "z">>, <<>>, [i \in 1..x.members |-> "m" \o Text(i)])

\* ZINTER/ZUNION numkeys key ... [WEIGHTS w ...] [AGGREGATE SUM|MIN|MAX]
\* [WITHSCORES], and the STORE forms with a destination first.  keys is a
\* list, or a dict of key -> weight; aggregate is checked upper-cased and
\* sent as given.
AggregateUpper == [MIN |-> "MIN", sum |-> "SUM", avg |-> "AVG"]

_zaggregate(x) ==
    IF x.aggregate \notin {NoVal, ""} /\ AggregateUpper[x.aggregate] \notin {"SUM", "MIN", "MAX"}
    THEN DataError
    ELSE Send(<<x.cmd>>, Opt(x.dest, <<"d">>) \o <<Text(x.keys)>>
                  \o [i \in 1..x.keys |-> "k" \o Text(i)]
                  \o Opt(x.weighted /\ x.keys > 0, <<"WEIGHTS">> \o [i \in 1..x.keys |-> Text(i)])
                  \o Opt(x.aggregate \notin {NoVal, ""}, <<"AGGREGATE", x.aggregate>>)
                  \o Opt(x.withscores, <<"WITHSCORES">>))

\* "aggregate can be sum, min or max"; the server needs a key.
Spec_zaggregate(x) ==
    Ref(x.aggregate \notin {NoVal, ""} /\ AggregateUpper[x.aggregate] = "AVG", x.keys = 0,
        <<x.cmd>> \o Opt(x.dest, <<"d">>) \o <<Text(x.keys)>> \o [i \in 1..x.keys |-> "k" \o Text(i)],
        Opt(x.weighted /\ x.keys > 0, <<Clause("WEIGHTS", [i \in 1..x.keys |-> Text(i)])>>)
            \o Opt(x.aggregate \notin {NoVal, ""}, <<Clause("AGGREGATE", <<x.aggregate>>)>>)
            \o Flag(x.withscores, "WITHSCORES"), <<>>)

\* ZRANDMEMBER key [count [WITHSCORES]]: count when not None, WITHSCORES
\* when truthy, each on its own.
zrandmember(x) ==
    Send(<<"ZRANDMEMBER">>, <<"k">> \o Opt(x.count # NoVal, <<Text(x.count)>>)
                                  \o Opt(x.withscores, <<"WITHSCORES">>))

Speczrandmember(x) == RandomSpec("ZRANDMEMBER", x.count, x.withscores, "WITHSCORES")

----------------------------------------------------------------------------
(* Scans: sansredis/sansio/commands/core/scan.py *)

\* The clauses every scan appends: MATCH when match is not None, COUNT
\* when count is not None (zscan's score_cast_func is an execute_command
\* option, not a piece).
ScanPieces(x) ==
    Opt(x.match # NoVal, <<"MATCH", x.match>>) \o Opt(x.count # NoVal, <<"COUNT", Text(x.count)>>)

\* SCAN cursor [MATCH pattern] [COUNT count] [TYPE type]
scan(x) ==
    Send(<<"SCAN">>, <<Text(x.cursor)>> \o ScanPieces(x) \o Opt(x._type # NoVal, <<"TYPE", x._type>>))

\* SSCAN, HSCAN, ZSCAN key cursor [MATCH pattern] [COUNT count]
sscan(x) == Send(<<"SSCAN">>, <<"k", Text(x.cursor)>> \o ScanPieces(x))
hscan(x) == Send(<<"HSCAN">>, <<"k", Text(x.cursor)>> \o ScanPieces(x))
zscan(x) == Send(<<"ZSCAN">>, <<"k", Text(x.cursor)>> \o ScanPieces(x))

ScanVerb == [scan |-> "SCAN", sscan |-> "SSCAN", hscan |-> "HSCAN", zscan |-> "ZSCAN"]

\* The server refuses a COUNT below 1.
SpecScan(x) ==
    Ref(FALSE, Given(x.count) /\ x.count < 1,
        <<ScanVerb[x.kind], "k", Text(x.cursor)>>,
        Opt(x.match # NoVal, <<Clause("MATCH", <<x.match>>)>>)
            \o Opt(Given(x.count), <<Clause("COUNT", <<Text(x.count)>>)>>), <<>>)

Specscan(x) ==
    [SpecScan(x) EXCEPT !.pos = <<"SCAN", Text(x.cursor)>>,
                        !.opts = @ \o Opt(x._type # NoVal, <<Clause("TYPE", <<x._type>>)>>)]

----------------------------------------------------------------------------
(* Geo: redis/sansio/commands/core/geo.py *)

\* Python truthiness of an int argument: None and 0 are false.
IsSet(v) == v # NoVal /\ v # 0

Units == {"m", "km", "mi", "ft"}

\* n of the values of a GEOADD call: longitude, latitude, name, ...
GeoValues(n) == [i \in 1..n |-> <<"lon", "lat", "p">>[((i - 1) % 3) + 1]]

\* GEOADD key [NX|XX] [CH] longitude latitude member [...]
geoadd(x) ==
    IF (x.nx /\ x.xx) \/ x.values % 3 # 0 THEN DataError
    ELSE Send(<<"GEOADD">>, <<"k">> \o Opt(x.nx, <<"NX">>) \o Opt(x.xx, <<"XX">>)
                \o Opt(x.ch, <<"CH">>) \o GeoValues(x.values))

\* "either 'nx' or 'xx', not both", "requires places with lon, lat and name
\* values"; the server wants at least one place.
Specgeoadd(x) ==
    Ref((x.nx /\ x.xx) \/ x.values % 3 # 0, x.values = 0, <<"GEOADD", "k">>,
        Flag(x.nx, "NX") \o Flag(x.xx, "XX") \o Flag(x.ch, "CH"), GeoValues(x.values))

\* GEODIST key member1 member2 [M|KM|FT|MI]
geodist(x) ==
    IF x.unit # NoVal /\ x.unit \notin Units THEN DataError
    ELSE Send(<<"GEODIST">>, <<"k", "p1", "p2">> \o Opt(x.unit # NoVal, <<x.unit>>))

\* "The units must be one of the following : m, km mi, ft".
Specgeodist(x) ==
    Ref(x.unit # NoVal /\ x.unit \notin Units, FALSE, <<"GEODIST", "k", "p1", "p2">>, <<>>,
        Opt(x.unit # NoVal, <<x.unit>>))

\* GEORADIUS key longitude latitude radius unit [WITHCOORD] [WITHDIST]
\* [WITHHASH] [COUNT count [ANY]] [ASC|DESC] [STORE key] [STOREDIST key],
\* as georadius(name, 1, 1, 5, ...) calls it.
_georadiusgeneric(x) ==
    IF \/ x.unit # NoVal /\ x.unit \notin Units
       \/ x.any /\ x.count = NoVal
       \/ x.sort \notin {NoVal, "ASC", "DESC"}
       \/ x.store # NoVal /\ x.store_dist # NoVal
    THEN DataError
    ELSE Send(<<"GEORADIUS">>, <<"k", "1", "1", "5">>
                \o <<IF x.unit # NoVal THEN x.unit ELSE "m">>
                \o Opt(x.withdist, <<"WITHDIST">>)
                \o Opt(x.count # NoVal, <<"COUNT", Text(x.count)>> \o Opt(x.any, <<"ANY">>))
                \o Opt(x.sort # NoVal, <<x.sort>>)
                \o Opt(x.store # NoVal, <<"STORE", x.store>>)
                \o Opt(x.store_dist # NoVal, <<"STOREDIST", x.store_dist>>))

\* "GEORADIUS invalid unit", "any can't be provided without count",
\* "GEORADIUS invalid sort", "store and store_dist cant be set together";
\* the server refuses COUNT 0.
Spec_georadiusgeneric(x) ==
    LET stated == \/ x.unit # NoVal /\ x.unit \notin Units
                  \/ x.any /\ x.count = NoVal
                  \/ x.sort \notin {NoVal, "ASC", "DESC"}
                  \/ x.store # NoVal /\ x.store_dist # NoVal
    IN  Ref(stated, x.count = 0,
            <<"GEORADIUS", "k", "1", "1", "5", IF x.unit = NoVal THEN "m" ELSE x.unit>>,
            Flag(x.withdist, "WITHDIST")
                \o Opt(Given(x.count), <<Clause("COUNT", <<Text(x.count)>>)>>)
                \o Flag(x.any, "ANY")
                \o Opt(x.sort # NoVal, <<Clause(x.sort, <<>>)>>)
                \o Opt(x.store # NoVal, <<Clause("STORE", <<x.store>>)>>)
                \o Opt(x.store_dist # NoVal, <<Clause("STOREDIST", <<x.store_dist>>)>>),
            <<>>)

\* GEOSEARCH key FROMMEMBER member | FROMLONLAT lon lat BYRADIUS radius
\* unit | BYBOX width height unit [ASC|DESC] [COUNT count [ANY]]
\* [WITHCOORD] [WITHDIST] [WITHHASH].  Every check raises DataError before
\* anything is sent, so the call raises when any of them does.  Where the
\* code tests truthiness, 0 counts as absent.
_geosearchgeneric(x) ==
    IF \/ x.member = NoVal /\ (x.longitude = NoVal \/ x.latitude = NoVal)
       \/ x.member # NoVal /\ (IsSet(x.longitude) \/ IsSet(x.latitude))
       \/ x.radius = NoVal /\ (x.width = NoVal \/ x.height = NoVal)
       \/ x.unit = NoVal \/ x.unit \notin Units
       \/ IsSet(x.radius) /\ (IsSet(x.width) \/ IsSet(x.height))
       \/ x.sort \notin {NoVal, "ASC", "DESC"}
       \/ ~IsSet(x.count) /\ x.any
    THEN DataError
    ELSE Send(<<"GEOSEARCH">>, <<"k">>
                \o Opt(x.member # NoVal, <<"FROMMEMBER", x.member>>)
                \o Opt(IsSet(x.longitude) /\ IsSet(x.latitude),
                        <<"FROMLONLAT", Text(x.longitude), Text(x.latitude)>>)
                \o Opt(IsSet(x.radius), <<"BYRADIUS", Text(x.radius), x.unit>>)
                \o Opt(IsSet(x.width) /\ IsSet(x.height),
                        <<"BYBOX", Text(x.width), Text(x.height), x.unit>>)
                \o Opt(x.sort # NoVal, <<x.sort>>)
                \o Opt(IsSet(x.count), <<"COUNT", Text(x.count)>> \o Opt(x.any, <<"ANY">>))
                \o Opt(x.withdist, <<"WITHDIST">>))

\* "must have member or longitude and latitude", "member and longitude or
\* latitude cant be set together", "must have radius or width and height",
\* "radius and width or height cant be set together", "must have unit",
\* "invalid unit", "invalid sort", "any can't be provided without count";
\* the server refuses COUNT 0.
Spec_geosearchgeneric(x) ==
    LET lonlat == x.longitude # NoVal /\ x.latitude # NoVal
        box    == x.width # NoVal /\ x.height # NoVal
        stated == \/ (x.member # NoVal) = (x.longitude # NoVal \/ x.latitude # NoVal)
                  \/ x.member = NoVal /\ ~lonlat
                  \/ (x.radius # NoVal) = (x.width # NoVal \/ x.height # NoVal)
                  \/ x.radius = NoVal /\ ~box
                  \/ x.unit \notin Units
                  \/ x.sort \notin {NoVal, "ASC", "DESC"}
                  \/ x.any /\ x.count = NoVal
        unit   == IF x.unit \in Units THEN x.unit ELSE "m"
    IN  Ref(stated, x.count = 0, <<"GEOSEARCH", "k">>,
            Opt(x.member # NoVal, <<Clause("FROMMEMBER", <<x.member>>)>>)
                \o Opt(Given(x.longitude) /\ Given(x.latitude),
                        <<Clause("FROMLONLAT", <<Text(x.longitude), Text(x.latitude)>>)>>)
                \o Opt(Given(x.radius), <<Clause("BYRADIUS", <<Text(x.radius), unit>>)>>)
                \o Opt(Given(x.width) /\ Given(x.height),
                        <<Clause("BYBOX", <<Text(x.width), Text(x.height), unit>>)>>)
                \o Opt(x.sort # NoVal, <<Clause(x.sort, <<>>)>>)
                \o Opt(Given(x.count), <<Clause("COUNT", <<Text(x.count)>>)>>)
                \o Flag(x.any, "ANY") \o Flag(x.withdist, "WITHDIST"),
            <<>>)

----------------------------------------------------------------------------
(* Lists: redis/sansio/commands/core/list.py *)

\* LPOS key element [RANK rank] [COUNT num-matches] [MAXLEN len]
lpos(x) ==
    Send(<<"LPOS">>, <<"k", "e">> \o Opt(x.rank # NoVal, <<"RANK", Text(x.rank)>>)
                                \o Opt(x.count # NoVal, <<"COUNT", Text(x.count)>>)
                                \o Opt(x.maxlen # NoVal, <<"MAXLEN", Text(x.maxlen)>>))

\* The server refuses RANK 0.
Speclpos(x) ==
    Ref(FALSE, x.rank = 0, <<"LPOS", "k", "e">>,
        Opt(Given(x.rank), <<Clause("RANK", <<Text(x.rank)>>)>>)
            \o Opt(Given(x.count), <<Clause("COUNT", <<Text(x.count)>>)>>)
            \o Opt(Given(x.maxlen), <<Clause("MAXLEN", <<Text(x.maxlen)>>)>>), <<>>)

\* The get argument: None, a string, or a list of 0, 1 or 2 patterns.
GetPatterns(g) ==
    CASE g = "none" -> <<>>
      [] g = "str"  -> <<"g1">>
      [] OTHER      -> SubSeq(<<"g1", "g2">>, 1, CHOOSE n \in 0..2 : g = "list" \o Text(n))

\* SORT key [BY pattern] [LIMIT offset count] [GET pattern ...] [ASC|DESC]
\* [ALPHA] [STORE destination].  The groups check comes after the pieces
\* are built and raises before anything is sent.
sort(x) ==
    IF (x.start # NoVal) # (x.num # NoVal) THEN DataError
    ELSE IF x.groups /\ (x.get \in {"none", "list0"} \/ x.get = "str"
                         \/ Len(GetPatterns(x.get)) < 2) THEN DataError
    ELSE Send(<<"SORT">>, <<"k">> \o Opt(x.by # NoVal, <<"BY", x.by>>)
                \o Opt(x.start # NoVal, <<"LIMIT", Text(x.start), Text(x.num)>>)
                \o [i \in 1..(2 * Len(GetPatterns(x.get))) |->
                        IF i % 2 = 1 THEN "GET" ELSE GetPatterns(x.get)[i \div 2]]
                \o Opt(x.desc, <<"DESC">>) \o Opt(x.alpha, <<"ALPHA">>)
                \o Opt(x.store # NoVal, <<"STORE", x.store>>))

\* "start and num must both be specified"; "when using groups the get
\* argument must be specified and contain at least two keys".
Specsort(x) ==
    Ref((x.start = NoVal) # (x.num = NoVal) \/ (x.groups /\ x.get \notin {"list2"}), FALSE,
        <<"SORT", "k">>,
        Opt(x.by # NoVal, <<Clause("BY", <<x.by>>)>>)
            \o Opt(Given(x.start) /\ Given(x.num),
                    <<Clause("LIMIT", <<Text(x.start), Text(x.num)>>)>>)
            \o [i \in DOMAIN GetPatterns(x.get) |-> Clause("GET", <<GetPatterns(x.get)[i]>>)]
            \o Flag(x.desc, "DESC") \o Flag(x.alpha, "ALPHA")
            \o Opt(x.store # NoVal, <<Clause("STORE", <<x.store>>)>>), <<>>)

----------------------------------------------------------------------------
(* Clients: sansredis/sansio/commands/core/management.py *)

\* CLIENT KILL [ID id] [TYPE type] [USER user] [ADDR ip:port]
\* [LADDR ip:port] [SKIPME yes/no]
client_kill_filter(x) ==
    LET args == Opt(x._type # NoVal, <<"TYPE", x._type>>)
                \o Opt(x.skipme # NoVal, <<"SKIPME", IF x.skipme THEN "YES" ELSE "NO">>)
                \o Opt(x._id # NoVal, <<"ID", Text(x._id)>>)
                \o Opt(x.addr # NoVal, <<"ADDR", x.addr>>)
                \o Opt(x.user # NoVal, <<"USER", x.user>>)
    IN  IF x._type # NoVal /\ x._type \notin {"normal", "master", "slave", "pubsub"}
        THEN DataError
        ELSE IF args = <<>> THEN DataError
        ELSE Send(<<"CLIENT", "KILL">>, args)

\* "type must be one of ('normal', 'master', 'slave', 'pubsub')", "must
\* specify at least one filter"; skipme only spares the caller among the
\* clients the filters identify.
Specclient_kill_filter(x) ==
    Ref(\/ x._type # NoVal /\ x._type \notin {"normal", "master", "slave", "pubsub"}
        \/ x._type = NoVal /\ x._id = NoVal /\ x.addr = NoVal /\ x.user = NoVal,
        FALSE, <<"CLIENT", "KILL">>,
        Opt(x._type # NoVal, <<Clause("TYPE", <<x._type>>)>>)
            \o Opt(x.skipme # NoVal, <<Clause("SKIPME", <<IF x.skipme THEN "YES" ELSE "NO">>)>>)
            \o Opt(x._id # NoVal, <<Clause("ID", <<Text(x._id)>>)>>)
            \o Opt(x.addr # NoVal, <<Clause("ADDR", <<x.addr>>)>>)
            \o Opt(x.user # NoVal, <<Clause("USER", <<x.user>>)>>), <<>>)

\* n client ids, as the strings a caller passes.
ClientIds(n) == [i \in 1..n |-> Text(i)]

\* " ".join(client_id)
JoinSpace(s) == IF s = <<>> THEN "" ELSE FoldLeft(LAMBDA a, b : a \o " " \o b, Head(s), Tail(s))

\* CLIENT LIST [TYPE type] [ID client-id [client-id ...]].  The ids are
\* joined into one argument.
client_list(x) ==
    IF x._type # NoVal /\ x._type \notin {"normal", "master", "replica", "pubsub"}
    THEN DataError
    ELSE Send(<<"CLIENT", "LIST">>, Opt(x._type # NoVal, <<"TYPE", x._type>>)
                \o Opt(x.ids > 0, <<"ID", JoinSpace(ClientIds(x.ids))>>))

\* "_type must be one of ('normal', 'master', 'replica', 'pubsub')";
\* client_id is "a list of client ids".
Specclient_list(x) ==
    Ref(x._type # NoVal /\ x._type \notin {"normal", "master", "replica", "pubsub"}, FALSE,
        <<"CLIENT", "LIST">>,
        Opt(x._type # NoVal, <<Clause("TYPE", <<x._type>>)>>)
            \o Opt(x.ids > 0, <<Clause("ID", ClientIds(x.ids))>>), <<>>)

\* CLIENT TRACKING ON|OFF [REDIRECT id] [PREFIX prefix ...] [BCAST] [OPTIN]
\* [OPTOUT] [NOLOOP]
client_tracking(x) ==
    IF x.prefixes # 0 /\ ~x.bcast THEN DataError
    ELSE Send(<<"CLIENT", "TRACKING">>, <<IF x.on THEN "ON" ELSE "OFF">>
                \o Opt(x.clientid # NoVal, <<"REDIRECT", Text(x.clientid)>>)
                \o [i \in 1..(2 * x.prefixes) |-> IF i % 2 = 1 THEN "PREFIX" ELSE "p" \o Text(i \div 2)]
                \o Opt(x.bcast, <<"BCAST">>) \o Opt(x.optin, <<"OPTIN">>)
                \o Opt(x.optout, <<"OPTOUT">>) \o Opt(x.noloop, <<"NOLOOP">>))

\* "Prefix can only be used with bcast"; the server refuses OPTIN with
\* OPTOUT, and either with BCAST.
Specclient_tracking(x) ==
    Ref(x.prefixes # 0 /\ ~x.bcast, (x.optin \/ x.optout) /\ (x.bcast \/ (x.optin /\ x.optout)),
        <<"CLIENT", "TRACKING", IF x.on THEN "ON" ELSE "OFF">>,
        Opt(x.clientid # NoVal, <<Clause("REDIRECT", <<Text(x.clientid)>>)>>)
            \o [i \in 1..x.prefixes |-> Clause("PREFIX", <<"p" \o Text(i)>>)]
            \o Flag(x.bcast, "BCAST") \o Flag(x.optin, "OPTIN")
            \o Flag(x.optout, "OPTOUT") \o Flag(x.noloop, "NOLOOP"), <<>>)

\* CLIENT PAUSE timeout [WRITE|ALL]
client_pause(x) ==
    IF x.timeout = NotInt THEN DataError
    ELSE Send(<<"CLIENT", "PAUSE">>, <<Text(x.timeout)>> \o Opt(~x.all, <<"WRITE">>))

\* "CLIENT PAUSE timeout must be an integer"; ALL is the server's default.
Specclient_pause(x) ==
    Ref(x.timeout = NotInt, FALSE,
        <<"CLIENT", "PAUSE">> \o Opt(Given(x.timeout), <<Text(x.timeout)>>),
        Flag(~x.all, "WRITE"), <<>>)

\* SHUTDOWN [NOSAVE | SAVE].  What execute_command returns is handled by
\* the driver (a ConnectionError is the expected answer), not here.
shutdown(x) ==
    IF x.save /\ x.nosave THEN DataError
    ELSE Send(<<"SHUTDOWN">>, Opt(x.save, <<"SAVE">>) \o Opt(x.nosave, <<"NOSAVE">>))

\* "SHUTDOWN save and nosave cannot both be set".
Specshutdown(x) ==
    Ref(x.save /\ x.nosave, FALSE, <<"SHUTDOWN">>,
        Flag(x.save, "SAVE") \o Flag(x.nosave, "NOSAVE"), <<>>)

----------------------------------------------------------------------------
(* ACL: redis/sansio/commands/core/acl.py *)

\* ACL GENPASS [bits].  bits is range-checked and then not appended.
acl_genpass(x) ==
    IF x.bits # NoVal /\ (x.bits = NotInt \/ x.bits < 0 \/ x.bits > 4096) THEN DataError
    ELSE Send(<<"ACL", "GENPASS">>, <<>>)

\* "genpass optionally accepts a bits argument, between 0 and 4096"; "If
\* bits is supplied then use this number of bits".
Specacl_genpass(x) ==
    Ref(x.bits # NoVal /\ (x.bits = NotInt \/ x.bits < 0 \/ x.bits > 4096), FALSE,
        <<"ACL", "GENPASS">>, <<>>, Opt(Given(x.bits), <<Text(x.bits)>>))

\* ACL LOG [count | RESET]
acl_log(x) ==
    IF x.count = NotInt THEN DataError
    ELSE Send(<<"ACL", "LOG">>, Opt(x.count # NoVal, <<Text(x.count)>>))

\* "ACL LOG count must be an integer".
Specacl_log(x) ==
    Ref(x.count = NotInt, FALSE, <<"ACL", "LOG">>, <<>>,
        Opt(Given(x.count), <<Text(x.count)>>))

\* A password, category or command argument: a sign ("+", "-", "+@",
\* "-@" or none) before its name.  encoder(arg) is sign \o body.
Enc(i) == i.sign \o i.body

\* bytes.startswith(p), for p one of "+", "-", "+@", "-@".
StartsWith(i, p) == \E r \in {"", "@"} : i.sign = p \o r

\* arg[1:]: the sign without its first character, then the name.
Drop(i) == (IF i.sign \in {"+@", "-@"} THEN "@" ELSE "") \o i.body

\* Every argument starts with "+" or "-".
Signed(s) == \A j \in DOMAIN s : StartsWith(s[j], "+") \/ StartsWith(s[j], "-")

\* ACL SETUSER username rule [rule ...]
acl_setuser(x) ==
    LET password(i) == IF StartsWith(i, "+") THEN ">" \o Drop(i) ELSE "<" \o Drop(i)
        hashed(i)   == IF StartsWith(i, "+") THEN "#" \o Drop(i) ELSE "!" \o Drop(i)
        category(i) == CASE StartsWith(i, "+@") -> Enc(i)
                         [] StartsWith(i, "+")  -> "+@" \o Drop(i)
                         [] StartsWith(i, "-@") -> Enc(i)
                         [] OTHER               -> "-@" \o Drop(i)
        each(s, f(_)) == [j \in DOMAIN s |-> f(s[j])]
    IN  IF (x.passwords # <<>> \/ x.hashed # <<>>) /\ x.nopass THEN DataError
        ELSE IF \E s \in {x.passwords, x.hashed, x.categories, x.commands} : ~Signed(s)
        THEN DataError
        ELSE Send(<<"ACL", "SETUSER">>,
                  <<"u">> \o Opt(x.reset, <<"reset">>) \o Opt(x.reset_keys, <<"resetkeys">>)
                      \o Opt(x.reset_passwords, <<"resetpass">>)
                      \o <<IF x.enabled THEN "on" ELSE "off">>
                      \o each(x.passwords, password) \o each(x.hashed, hashed)
                      \o Opt(x.nopass, <<"nopass">>)
                      \o each(x.categories, category) \o each(x.commands, Enc)
                      \o [j \in DOMAIN x.keys |-> "~" \o x.keys[j]])

\* The ACL rule each documented argument stands for: "+" adds and "-"
\* removes a password (>pw, <pw), a hashed one (#h, !h), a category
\* (+@c, -@c, with or without the @) or a command (+cmd, -cmd).
AclRule == [passwords  |-> [add |-> ">", remove |-> "<"],
            hashed     |-> [add |-> "#", remove |-> "!"],
            categories |-> [add |-> "+@", remove |-> "-@"],
            commands   |-> [add |-> "+", remove |-> "-"]]

\* The rules, in the order the server must apply them: the resets before
\* what they would clear.  "Each password must be prefixed with a '+' to
\* add or a '-' to remove" (and each category and command); nopass
\* "cannot be True if passwords are also specified".
Specacl_setuser(x) ==
    LET rules(f) == [j \in DOMAIN x[f] |->
                        AclRule[f][IF x[f][j].sign \in {"+", "+@"} THEN "add" ELSE "remove"]
                        \o x[f][j].body]
        stated == \/ x.nopass /\ (x.passwords # <<>> \/ x.hashed # <<>>)
                  \/ \E f \in DOMAIN AclRule : \E j \in DOMAIN x[f] : x[f][j].sign = ""
    IN  Ref(stated, FALSE, <<"ACL", "SETUSER", "u">>, <<>>,
            Opt(x.reset, <<"reset">>) \o Opt(x.reset_keys, <<"resetkeys">>)
                \o Opt(x.reset_passwords, <<"resetpass">>)
                \o <<IF x.enabled THEN "on" ELSE "off">>
                \o rules("passwords") \o rules("hashed") \o Opt(x.nopass, <<"nopass">>)
                \o rules("categories") \o rules("commands")
                \o [j \in DOMAIN x.keys |-> "~" \o x.keys[j]])

----------------------------------------------------------------------------
(* Hashes: redis/sansio/commands/core/hash.py *)

\* n field/value pairs of a mapping, flattened as mapping.items() gives them.
MappingItems(n) == [i \in 1..(2 * n) |-> IF i % 2 = 1 THEN "f" \o Text((i + 1) \div 2)
                                                      ELSE "v" \o Text(i \div 2)]

\* HSET key field value [field value ...]
hset(x) ==
    IF x.key = NoVal /\ x.mapping = 0 THEN DataError
    ELSE Send(<<"HSET">>, <<"h">> \o Opt(x.key # NoVal, <<x.key, x.value>>)
                                 \o MappingItems(x.mapping))

\* "'hset' with no key value pairs"; a key needs its value.
Spechset(x) ==
    Ref(x.key = NoVal /\ x.mapping = 0, x.key # NoVal /\ x.value = NoVal, <<"HSET", "h">>, <<>>,
        Opt(x.key # NoVal /\ x.value # NoVal, <<x.key, x.value>>) \o MappingItems(x.mapping))

\* HMSET key field value [field value ...]
hmset(x) ==
    IF x.mapping = 0 THEN DataError
    ELSE Send(<<"HMSET">>, <<"h">> \o MappingItems(x.mapping))

\* "'hmset' with 'mapping' of length 0".
Spechmset(x) == Ref(x.mapping = 0, FALSE, <<"HMSET", "h">>, <<>>, MappingItems(x.mapping))

----------------------------------------------------------------------------
(* Scripts and server management: sansredis/sansio/commands/core/script.py, *)
(* management.py *)

\* SCRIPT FLUSH [ASYNC | SYNC]
script_flush(x) ==
    IF x.sync_type \notin {"SYNC", "ASYNC", NoVal} THEN DataError
    ELSE Send(<<"SCRIPT", "FLUSH">>, Opt(x.sync_type # NoVal, <<x.sync_type>>))

\* "accepts SYNC/ASYNC ... leave as None"; SYNC is the server's default.
Specscript_flush(x) ==
    Ref(x.sync_type \notin {"SYNC", "ASYNC", NoVal}, FALSE, <<"SCRIPT", "FLUSH">>,
        Opt(x.sync_type = "ASYNC", <<Clause("ASYNC", <<>>)>>), <<>>)

\* CLIENT REPLY ON | OFF | SKIP
client_reply(x) ==
    IF x.reply \notin {"ON", "OFF", "SKIP"} THEN DataError
    ELSE Send(<<"CLIENT", "REPLY">>, <<x.reply>>)

\* "CLIENT REPLY must be one of ['ON', 'OFF', 'SKIP']".
Specclient_reply(x) ==
    Ref(x.reply \notin {"ON", "OFF", "SKIP"}, FALSE, <<"CLIENT", "REPLY", x.reply>>, <<>>, <<>>)

\* MIGRATE host port "" destination-db timeout [COPY] [REPLACE]
\* [AUTH password] KEYS key [key ...].  `keys` is the generator
\* iterkeysargs(keys, []), which is never falsy.
migrate(x) ==
    Send(<<"MIGRATE">>, <<"h", "6379", "", "0", "5">>
                        \o Opt(x.copy, <<"COPY">>) \o Opt(x.replace, <<"REPLACE">>)
                        \o Opt(x.auth # NoVal, <<"AUTH", x.auth>>)
                        \o <<"KEYS">> \o [i \in 1..x.keys |-> "k" \o Text(i)])

\* "MIGRATE requires at least one key".
Specmigrate(x) ==
    Ref(x.keys = 0, FALSE, <<"MIGRATE", "h", "6379", "", "0", "5">>,
        Flag(x.copy, "COPY") \o Flag(x.replace, "REPLACE")
            \o Opt(x.auth # NoVal, <<Clause("AUTH", <<x.auth>>)>>)
            \o <<Clause("KEYS", [i \in 1..x.keys |-> "k" \o Text(i)])>>, <<>>)

----------------------------------------------------------------------------
(* The calls: every builder's arguments over small domains *)

KeyInputs ==
    [kind: {"bitcount"}, start: Ints({0, 1}), end: Ints({0, 1})]
    \cup [kind: {"bitpos"}, bit: {0, 1, 2}, start: Ints({0, 1}), end: Ints({0, 1})]
    \cup [kind: {"copy"}, db: Ints({0, 1}), replace: BOOLEAN]
    \cup [kind: {"getex"}, ex: Ints({1, 2}), px: Ints({1, 2}), exat: Ints({1}),
          pxat: Ints({1}), persist: BOOLEAN]
    \cup [kind: {"restore"}, replace: BOOLEAN, absttl: BOOLEAN,
          idletime: Ints({1, NotInt}), frequency: Ints({1, NotInt})]
    \cup [kind: {"set"}, ex: Ints({1, NotInt}), px: Ints({1, NotInt}), exat: Ints({1}),
          pxat: Ints({1}), keepttl: BOOLEAN, nx: BOOLEAN, xx: BOOLEAN, get: BOOLEAN]
    \cup [kind: {"stralgo"}, algo: {"LCS", "MD5"}, specific_argument: {"keys", "values"},
          len: BOOLEAN, idx: BOOLEAN, minmatchlen: Ints({0, 2, NotInt}), withmatchlen: BOOLEAN]

StreamInputs ==
    [kind: {"xadd"}, maxlen: Ints({0, 1, NotInt}), minid: {NoVal, "0-1"},
     approximate: BOOLEAN, limit: Ints({10}), nomkstream: BOOLEAN, fields: {0, 1}]
    \cup [kind: {"xautoclaim"}, mit: {-1, 0, 5}, count: Ints({-1, 0, 2}), justid: BOOLEAN]
    \cup [kind: {"xclaim"}, mit: {NotInt, -1, 5}, ids: 0..2, idle: Ints({1, NotInt}),
          time: Ints({1, NotInt}), retrycount: Ints({1, NotInt}), force: BOOLEAN,
          justid: BOOLEAN]
    \cup [kind: {"xpending_range"}, idle: Ints({-1, 5}), min: {NoVal, "-"},
          max: {NoVal, "+"}, count: Ints({-1, 0, 2}), consumer: {NoVal, "c"}]
    \cup [kind: {"xrange", "xrevrange"}, count: Ints({0, 1, NotInt})]
    \cup [kind: {"xread"}, block: Ints({-1, 0, NotInt}), count: Ints({0, 2, NotInt}),
          streams: 0..2]
    \cup [kind: {"xreadgroup"}, block: Ints({-1, 0, NotInt}), count: Ints({0, 2, NotInt}),
          noack: BOOLEAN, streams: 0..2]
    \cup [kind: {"xtrim"}, maxlen: Ints({0, 5}), minid: {NoVal, "0-1"},
          approximate: BOOLEAN, limit: Ints({10})]

ZsetInputs ==
    [kind: {"zadd"}, pairs: 0..2, nx: BOOLEAN, xx: BOOLEAN, ch: BOOLEAN, incr: BOOLEAN,
     gt: {NoVal, FALSE, TRUE}, lt: {NoVal, FALSE, TRUE}]
    \cup [kind: {"zmpop", "bzmpop"}, keys: 1..2, min: BOOLEAN, max: BOOLEAN, count: {1, 2}]
    \cup [kind: {"_zrange"}, cmd: {"ZRANGE"}, desc: BOOLEAN, byscore: BOOLEAN,
          bylex: BOOLEAN, withscores: BOOLEAN, offset: Ints({0}), num: Ints({5})]
    \cup [kind: {"_zrange"}, cmd: {"ZRANGESTORE"}, desc: BOOLEAN, byscore: BOOLEAN,
          bylex: BOOLEAN, withscores: {FALSE}, offset: Ints({0}), num: Ints({5})]
    \cup [kind: {"zrangebylex", "zrevrangebylex"}, start: Ints({0, 2}), num: Ints({0, 2}),
          withscores: {FALSE}]
    \cup [kind: {"zrangebyscore", "zrevrangebyscore"}, start: Ints({0, 2}), num: Ints({0, 2}),
          withscores: BOOLEAN]
    \cup [kind: {"zmscore"}, members: 0..2]
    \cup [kind: {"_zaggregate"}, cmd: {"ZINTER", "ZUNION"}, dest: {FALSE}, keys: 0..2,
          weighted: BOOLEAN, aggregate: {NoVal, "", "MIN", "sum", "avg"}, withscores: BOOLEAN]
    \cup [kind: {"_zaggregate"}, cmd: {"ZINTERSTORE", "ZUNIONSTORE"}, dest: {TRUE}, keys: 0..2,
          weighted: BOOLEAN, aggregate: {NoVal, "", "MIN", "sum", "avg"}, withscores: {FALSE}]

GeoInputs ==
    [kind: {"geoadd"}, nx: BOOLEAN, xx: BOOLEAN, ch: BOOLEAN, values: {0, 3, 4}]
    \cup [kind: {"geodist"}, unit: {NoVal, "km", "ly"}]
    \cup [kind: {"_georadiusgeneric"}, unit: {NoVal, "km", "ly"}, any: BOOLEAN,
          count: Ints({0, 2}), withdist: BOOLEAN, sort: {NoVal, "ASC", "up"},
          store: {NoVal, "d"}, store_dist: {NoVal, "d"}]
    \cup [kind: {"_geosearchgeneric"}, member: {NoVal, "p"}, longitude: Ints({0, 1}),
          latitude: Ints({1}), radius: Ints({0, 5}), width: Ints({2}), height: Ints({2}),
          unit: {NoVal, "m", "ly"}, sort: {NoVal, "up"}, count: Ints({0, 3}),
          any: BOOLEAN, withdist: {FALSE}]

ListInputs ==
    [kind: {"lpos"}, rank: Ints({0, -1, 2}), count: Ints({0, 2}), maxlen: Ints({0})]
    \cup [kind: {"sort"}, start: Ints({0}), num: Ints({2}), by: {NoVal, "w_*"},
          get: {"none", "str", "list0", "list1", "list2"}, desc: BOOLEAN, alpha: BOOLEAN,
          store: {NoVal, "d"}, groups: BOOLEAN]

ClientInputs ==
    [kind: {"client_kill_filter"}, _type: {NoVal, "normal", "bogus"},
     skipme: {NoVal, TRUE, FALSE}, _id: Ints({7}), addr: {NoVal, "a:1"}, user: {NoVal, "u"}]
    \cup [kind: {"client_list"}, _type: {NoVal, "replica", "bogus"}, ids: 0..2]
    \cup [kind: {"client_tracking"}, on: BOOLEAN, clientid: Ints({5}), prefixes: 0..2,
          bcast: BOOLEAN, optin: BOOLEAN, optout: BOOLEAN, noloop: BOOLEAN]
    \cup [kind: {"client_pause"}, timeout: {0, 5, NotInt}, all: BOOLEAN]
    \cup [kind: {"client_reply"}, reply: {"ON", "OFF", "SKIP", "on"}]
    \cup [kind: {"migrate"}, keys: 0..2, copy: BOOLEAN, replace: BOOLEAN, auth: {NoVal, "pw"}]
    \cup [kind: {"script_flush"}, sync_type: {NoVal, "SYNC", "ASYNC", "async"}]
    \cup [kind: {"shutdown"}, save: BOOLEAN, nosave: BOOLEAN]

\* One argument of a kind, signed or not (no argument: <<>>).
AclArgs(signs, body) == {<<>>} \cup {<<[sign |-> g, body |-> body]>> : g \in signs}

AclInputs ==
    [kind: {"acl_genpass"}, bits: Ints({0, 64, 5000, NotInt})]
    \cup [kind: {"acl_log"}, count: Ints({0, 2, NotInt})]
    \cup [kind: {"acl_setuser"}, enabled: BOOLEAN, nopass: BOOLEAN, reset: BOOLEAN,
          reset_keys: BOOLEAN, reset_passwords: BOOLEAN,
          passwords: AclArgs({"+", "-", ""}, "pw"), hashed: AclArgs({"+", ""}, "h"),
          categories: AclArgs({"+@", "+", "-@", "-", ""}, "all"),
          commands: AclArgs({"-", ""}, "get"), keys: {<<>>, <<"k">>}]

RandomInputs ==
    [kind: {"hrandfield"}, count: Ints({-2, 0, 2}), withvalues: BOOLEAN]
    \cup [kind: {"zrandmember"}, count: Ints({-2, 0, 2}), withscores: BOOLEAN]
    \cup [kind: {"lcs"}, len: BOOLEAN, idx: BOOLEAN, minmatchlen: Ints({0, 2}),
          withmatchlen: BOOLEAN]

ScanInputs ==
    [kind: {"scan"}, cursor: {0, 7}, match: {NoVal, "p*"}, count: Ints({0, 5}),
     _type: {NoVal, "hash"}]
    \cup [kind: {"sscan", "hscan", "zscan"}, cursor: {0}, match: {NoVal, "p*"},
          count: Ints({0, 5})]

HashInputs ==
    [kind: {"hset"}, key: {NoVal, "f"}, value: {NoVal, "v"}, mapping: 0..2]
    \cup [kind: {"hmset"}, mapping: 0..2]

\* The grammar of each command, from its syntax line above.
CommandGrammar(x) ==
    LET k == x.kind IN
    CASE k = "bitcount" -> Grammar(2, FALSE, [BYTE |-> 0, BIT |-> 0], TRUE)
      [] k = "bitpos"   -> Grammar(3, FALSE, [BYTE |-> 0, BIT |-> 0], TRUE)
      [] k = "copy"     -> Grammar(3, FALSE, [DB |-> 1, REPLACE |-> 0], FALSE)
      [] k = "getex"    -> Grammar(2, FALSE, [EX |-> 1, PX |-> 1, EXAT |-> 1, PXAT |-> 1,
                                              PERSIST |-> 0], FALSE)
      [] k = "restore"  -> Grammar(4, FALSE, [REPLACE |-> 0, ABSTTL |-> 0, IDLETIME |-> 1,
                                              FREQ |-> 1], FALSE)
      [] k = "set"      -> Grammar(3, FALSE, [EX |-> 1, PX |-> 1, EXAT |-> 1, PXAT |-> 1,
                                              KEEPTTL |-> 0, NX |-> 0, XX |-> 0, GET |-> 0], FALSE)
      [] k = "xadd"     -> Grammar(2, FALSE, [NOMKSTREAM |-> 0, MAXLEN |-> Approx,
                                              MINID |-> Approx, LIMIT |-> 1], TRUE)
      [] k = "xautoclaim" -> Grammar(6, FALSE, [COUNT |-> 1, JUSTID |-> 0], FALSE)
      [] k = "xclaim"   -> Grammar(5, TRUE, [IDLE |-> 1, TIME |-> 1, RETRYCOUNT |-> 1,
                                             FORCE |-> 0, JUSTID |-> 0], FALSE)
      [] k = "xpending_range" -> Grammar(3, FALSE, [IDLE |-> 1], TRUE)
      [] k \in {"xrange", "xrevrange"} -> Grammar(4, FALSE, [COUNT |-> 1], FALSE)
      [] k \in {"xread", "xreadgroup"} ->
            Grammar(1, FALSE, [GROUP |-> 2, COUNT |-> 1, BLOCK |-> 1, NOACK |-> 0,
                               STREAMS |-> Rest], FALSE)
      [] k = "zadd"     -> Grammar(2, FALSE, [NX |-> 0, XX |-> 0, GT |-> 0, LT |-> 0,
                                              CH |-> 0, INCR |-> 0], TRUE)
      [] k \in {"zmpop", "bzmpop"} ->
            GrammarD(IF k = "zmpop" THEN 1 ELSE 2, TRUE, [MIN |-> 0, MAX |-> 0, COUNT |-> 1],
                     FALSE, {Clause("COUNT", <<"1">>)})
      [] k = "_zrange"  -> Grammar(IF x.cmd = "ZRANGE" THEN 4 ELSE 5, FALSE,
                                   [BYSCORE |-> 0, BYLEX |-> 0, REV |-> 0, LIMIT |-> 2,
                                    WITHSCORES |-> 0], FALSE)
      [] k = "geoadd"   -> Grammar(2, FALSE, [NX |-> 0, XX |-> 0, CH |-> 0], TRUE)
      [] k = "geodist"  -> Grammar(4, FALSE, <<>>, TRUE)
      [] k = "_georadiusgeneric" ->
            Grammar(6, FALSE, [WITHCOORD |-> 0, WITHDIST |-> 0, WITHHASH |-> 0, COUNT |-> 1,
                               ANY |-> 0, ASC |-> 0, DESC |-> 0, STORE |-> 1,
                               STOREDIST |-> 1], FALSE)
      [] k = "_geosearchgeneric" ->
            Grammar(2, FALSE, [FROMMEMBER |-> 1, FROMLONLAT |-> 2, BYRADIUS |-> 2,
                               BYBOX |-> 3, ASC |-> 0, DESC |-> 0, COUNT |-> 1, ANY |-> 0,
                               WITHCOORD |-> 0, WITHDIST |-> 0, WITHHASH |-> 0], FALSE)
      [] k = "lpos"     -> Grammar(3, FALSE, [RANK |-> 1, COUNT |-> 1, MAXLEN |-> 1], FALSE)
      [] k = "sort"     -> Grammar(2, FALSE, [BY |-> 1, LIMIT |-> 2, GET |-> 1, ASC |-> 0,
                                              DESC |-> 0, ALPHA |-> 0, STORE |-> 1], FALSE)
      [] k = "client_kill_filter" ->
            Grammar(2, FALSE, [ID |-> 1, TYPE |-> 1, USER |-> 1, ADDR |-> 1, LADDR |-> 1,
                               SKIPME |-> 1], FALSE)
      [] k = "client_list" -> Grammar(2, FALSE, [TYPE |-> 1, ID |-> Rest], FALSE)
      [] k = "client_tracking" ->
            Grammar(3, FALSE, [REDIRECT |-> 1, PREFIX |-> 1, BCAST |-> 0, OPTIN |-> 0,
                               OPTOUT |-> 0, NOLOOP |-> 0], FALSE)
      [] k = "client_pause" ->
            GrammarD(3, FALSE, [WRITE |-> 0, ALL |-> 0], FALSE, {Clause("ALL", <<>>)})
      [] k = "stralgo"  -> Grammar(5, FALSE, [LEN |-> 0, IDX |-> 0, MINMATCHLEN |-> 1,
                                              WITHMATCHLEN |-> 0], FALSE)
      [] k \in {"zrangebylex", "zrevrangebylex", "zrangebyscore", "zrevrangebyscore"} ->
            Grammar(4, FALSE, [LIMIT |-> 2, WITHSCORES |-> 0], FALSE)
      [] k = "zmscore"  -> Grammar(2, FALSE, <<>>, TRUE)
      [] k = "_zaggregate" ->
            Grammar(IF x.dest THEN 3 ELSE 2, TRUE,
                    [WEIGHTS |-> x.keys, AGGREGATE |-> 1, WITHSCORES |-> 0], FALSE)
      [] k = "shutdown" -> Grammar(1, FALSE, [SAVE |-> 0, NOSAVE |-> 0], FALSE)
      [] k = "client_reply" -> Grammar(3, FALSE, <<>>, FALSE)
      [] k = "migrate"  -> Grammar(6, FALSE, [COPY |-> 0, REPLACE |-> 0, AUTH |-> 1,
                                              AUTH2 |-> 2, KEYS |-> Rest], FALSE)
      [] k = "script_flush" -> GrammarD(2, FALSE, [SYNC |-> 0, ASYNC |-> 0], FALSE,
                                        {Clause("SYNC", <<>>)})
      [] k \in {"acl_genpass", "acl_log"} -> Grammar(2, FALSE, <<>>, TRUE)
      [] k = "acl_setuser" -> Grammar(3, FALSE, <<>>, TRUE)
      [] k \in {"hset", "hmset"} -> Grammar(2, FALSE, <<>>, TRUE)
      [] k \in {"hrandfield", "zrandmember"} -> Grammar(2, FALSE, <<>>, TRUE)
      [] k = "lcs"      -> Grammar(3, FALSE, [LEN |-> 0, IDX |-> 0, MINMATCHLEN |-> 1,
                                              WITHMATCHLEN |-> 0], FALSE)
      [] k = "scan"     -> Grammar(2, FALSE, [MATCH |-> 1, COUNT |-> 1, TYPE |-> 1], FALSE)
      [] k \in {"sscan", "hscan", "zscan"} ->
            Grammar(3, FALSE, [MATCH |-> 1, COUNT |-> 1], FALSE)
      [] k = "xtrim"    -> Grammar(2, FALSE, [MAXLEN |-> Approx, MINID |-> Approx,
                                              LIMIT |-> 1], FALSE)

Build(x) ==
    CASE x.kind = "bitcount" -> bitcount(x)
      [] x.kind = "bitpos"   -> bitpos(x)
      [] x.kind = "copy"     -> copy(x)
      [] x.kind = "getex"    -> getex(x)
      [] x.kind = "restore"  -> restore(x)
      [] x.kind = "set"      -> set(x)
      [] x.kind = "stralgo" -> stralgo(x)
      [] x.kind = "zrangebylex" -> zrangebylex(x)
      [] x.kind = "zrevrangebylex" -> zrevrangebylex(x)
      [] x.kind = "zrangebyscore" -> zrangebyscore(x)
      [] x.kind = "zrevrangebyscore" -> zrevrangebyscore(x)
      [] x.kind = "zmscore" -> zmscore(x)
      [] x.kind = "_zaggregate" -> _zaggregate(x)
      [] x.kind = "client_reply" -> client_reply(x)
      [] x.kind = "migrate" -> migrate(x)
      [] x.kind = "script_flush" -> script_flush(x)
      [] x.kind = "acl_genpass" -> acl_genpass(x)
      [] x.kind = "acl_log" -> acl_log(x)
      [] x.kind = "acl_setuser" -> acl_setuser(x)
      [] x.kind = "hset" -> hset(x)
      [] x.kind = "hmset" -> hmset(x)
      [] x.kind = "shutdown" -> shutdown(x)
      [] x.kind = "client_kill_filter" -> client_kill_filter(x)
      [] x.kind = "client_list" -> client_list(x)
      [] x.kind = "client_tracking" -> client_tracking(x)
      [] x.kind = "client_pause" -> client_pause(x)
      [] x.kind = "lpos" -> lpos(x)
      [] x.kind = "sort" -> sort(x)
      [] x.kind = "geoadd" -> geoadd(x)
      [] x.kind = "geodist" -> geodist(x)
      [] x.kind = "_georadiusgeneric" -> _georadiusgeneric(x)
      [] x.kind = "_geosearchgeneric" -> _geosearchgeneric(x)
      [] x.kind = "zadd" -> zadd(x)
      [] x.kind = "zmpop" -> zmpop(x)
      [] x.kind = "bzmpop" -> bzmpop(x)
      [] x.kind = "_zrange" -> _zrange(x)
      [] x.kind = "xadd" -> xadd(x)
      [] x.kind = "xautoclaim" -> xautoclaim(x)
      [] x.kind = "xclaim" -> xclaim(x)
      [] x.kind = "xpending_range" -> xpending_range(x)
      [] x.kind = "xrange" -> xrange(x)
      [] x.kind = "xrevrange" -> xrevrange(x)
      [] x.kind = "xread" -> xread(x)
      [] x.kind = "xreadgroup" -> xreadgroup(x)
      [] x.kind = "xtrim" -> xtrim(x)
      [] x.kind = "hrandfield" -> hrandfield(x)
      [] x.kind = "zrandmember" -> zrandmember(x)
      [] x.kind = "lcs" -> lcs(x)
      [] x.kind = "scan" -> scan(x)
      [] x.kind = "sscan" -> sscan(x)
      [] x.kind = "hscan" -> hscan(x)
      [] x.kind = "zscan" -> zscan(x)

Reference(x) ==
    CASE x.kind = "bitcount" -> Specbitcount(x)
      [] x.kind = "bitpos"   -> Specbitpos(x)
      [] x.kind = "copy"     -> Speccopy(x)
      [] x.kind = "getex"    -> Specgetex(x)
      [] x.kind = "restore"  -> Specrestore(x)
      [] x.kind = "set"      -> Specset(x)
      [] x.kind = "stralgo" -> Specstralgo(x)
      [] x.kind = "zrangebylex" -> SpecRangeBy(x)
      [] x.kind = "zrevrangebylex" -> SpecRangeBy(x)
      [] x.kind = "zrangebyscore" -> SpecRangeBy(x)
      [] x.kind = "zrevrangebyscore" -> SpecRangeBy(x)
      [] x.kind = "zmscore" -> Speczmscore(x)
      [] x.kind = "_zaggregate" -> Spec_zaggregate(x)
      [] x.kind = "client_reply" -> Specclient_reply(x)
      [] x.kind = "migrate" -> Specmigrate(x)
      [] x.kind = "script_flush" -> Specscript_flush(x)
      [] x.kind = "acl_genpass" -> Specacl_genpass(x)
      [] x.kind = "acl_log" -> Specacl_log(x)
      [] x.kind = "acl_setuser" -> Specacl_setuser(x)
      [] x.kind = "hset" -> Spechset(x)
      [] x.kind = "hmset" -> Spechmset(x)
      [] x.kind = "shutdown" -> Specshutdown(x)
      [] x.kind = "client_kill_filter" -> Specclient_kill_filter(x)
      [] x.kind = "client_list" -> Specclient_list(x)
      [] x.kind = "client_tracking" -> Specclient_tracking(x)
      [] x.kind = "client_pause" -> Specclient_pause(x)
      [] x.kind = "lpos" -> Speclpos(x)
      [] x.kind = "sort" -> Specsort(x)
      [] x.kind = "geoadd" -> Specgeoadd(x)
      [] x.kind = "geodist" -> Specgeodist(x)
      [] x.kind = "_georadiusgeneric" -> Spec_georadiusgeneric(x)
      [] x.kind = "_geosearchgeneric" -> Spec_geosearchgeneric(x)
      [] x.kind = "zadd" -> Speczadd(x)
      [] x.kind = "zmpop" -> Speczmpop(x)
      [] x.kind = "bzmpop" -> Specbzmpop(x)
      [] x.kind = "_zrange" -> Spec_zrange(x)
      [] x.kind = "xadd" -> Specxadd(x)
      [] x.kind = "xautoclaim" -> Specxautoclaim(x)
      [] x.kind = "xclaim" -> Specxclaim(x)
      [] x.kind = "xpending_range" -> Specxpending_range(x)
      [] x.kind = "xrange" -> Specxrange(x)
      [] x.kind = "xrevrange" -> Specxrevrange(x)
      [] x.kind = "xread" -> Specxread(x)
      [] x.kind = "xreadgroup" -> Specxreadgroup(x)
      [] x.kind = "xtrim" -> Specxtrim(x)
      [] x.kind = "hrandfield" -> Spechrandfield(x)
      [] x.kind = "zrandmember" -> Speczrandmember(x)
      [] x.kind = "lcs" -> Speclcs(x)
      [] x.kind = "scan" -> Specscan(x)
      [] x.kind \in {"sscan", "hscan", "zscan"} -> SpecScan(x)

BuilderInputs ==
    {x \in KeyInputs \cup StreamInputs \cup ZsetInputs \cup GeoInputs \cup ListInputs
            \cup ClientInputs \cup AclInputs \cup HashInputs \cup RandomInputs
            \cup ScanInputs : x.kind \in Kinds}

\* A caller calls one builder with some arguments.
Call == \E x \in BuilderInputs : input' = x

\* Every command the sans-I/O layer emits: a driver's connect() and
\* check_health() calls (Protocol), and a caller's builder calls.
CommandsInit == input \in ConnectInputs \cup HealthInputs \cup BuilderInputs
CommandsNext == ConnectEvent \/ HealthEvent \/ Call
CommandsSpec == CommandsInit /\ [][CommandsNext]_input

----------------------------------------------------------------------------
(* Properties *)

\* Every builder raises DataError on the calls its docstring or its own
\* error messages rule out, and otherwise sends a command the server reads
\* as the arguments say (or leaves a call the server refuses to it): no
\* option dropped, duplicated or given another's value.
BuildersMatchSyntax ==
    input.kind \in Kinds =>
        Agrees(CommandGrammar(input), Build(input), Reference(input))

\* Every command the layer emits is what spec 4.C/4.D (the upkeep) and the
\* Redis command syntax with the builders' stated constraints (the
\* builders) prescribe.
EmittedCommandsMatchSpec == UpkeepMatchesSpec /\ BuildersMatchSyntax

=============================================================================
