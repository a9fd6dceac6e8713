------------------------------ MODULE Protocol ------------------------------
(***************************************************************************)
(* The connection upkeep a driver runs on its own:                         *)
(*   - connect() and on_connect() of the asyncio and threaded drivers      *)
(*     (redis/io/aio.py, redis/io/sio.py), with the on-connect routine    *)
(*     they send (get_on_connect_routine, sansredis/sansio/protocol.py);  *)
(*   - check_health() with should_check_health and get_health_check.      *)
(* As in Codec, the state is one input and each entry point picks it; the *)
(* frames written are decoded with Writer's reference decoder and         *)
(* compared with the commands spec 4.C/4.D prescribes.  The protocol's    *)
(* writer is built with encoding None (Codec!PackCommand).                 *)
(*                                                                         *)
(* Data abstraction: credentials, names and database numbers are model    *)
(* values, "" or NoVal (None); a server reply to the handshake is "ok" or *)
(* one error line; a health check runs on a connection whose I/O protocol *)
(* is "connected" or has lost its transport.                              *)
(***************************************************************************)
EXTENDS Codec

CONSTANTS
    Versions,       \* server versions <<major, minor, patch>>
    Users, Passwords, ClientNames, Dbs,
    Rejections,     \* replies to the init command: "ok" or an error line
    Intervals,      \* health_check_interval values (0 = disabled)
    MaxTime,        \* clock readings are 1..MaxTime
    MaxCalls        \* bound on the check_health calls of one run

----------------------------------------------------------------------------
(* Protocol configuration (sansredis/sansio/protocol.py) *)

\* Python truthiness of an optional string.
Truthy(x) == x \notin {NoVal, ""}

\* ServerVersion is a NamedTuple, so >= compares lexicographically.
VersionLT(a, b) == \E i \in 1..3 : a[i] < b[i] /\ \A j \in 1..(i - 1) : a[j] = b[j]

SupportsHello == <<6, 0, 0>>

\* make_command(verb, *mods) with text arguments.
Cmd(verb, mods) == [verb |-> verb, modifiers |-> [i \in DOMAIN mods |-> Str(mods[i])]]

\* resp_version after the routine: HELLO keeps the configured one or sets
\* "3"; below 6.0 RESP2 is forced.
RespVersion(c) ==
    IF VersionLT(c.server, SupportsHello) THEN "2"
    ELSE IF c.resp = NoVal THEN "3" ELSE c.resp

HelloAuth(c) ==
    IF Truthy(c.username) \/ Truthy(c.password)
    THEN <<"AUTH", IF Truthy(c.username) THEN c.username ELSE "default",
                   IF Truthy(c.password) THEN c.password ELSE "">>
    ELSE <<>>

\* The commands of `init` and of `command_stack`.
InitCommands(c) ==
    IF ~VersionLT(c.server, SupportsHello)
    THEN <<Cmd(<<"HELLO">>, <<RespVersion(c)>> \o HelloAuth(c)
                  \o (IF Truthy(c.name) THEN <<"SETNAME", c.name>> ELSE <<>>))>>
    ELSE IF Truthy(c.password) THEN <<Cmd(<<"AUTH">>, <<c.password>>)>> ELSE <<>>

\* Below 6.0 a client name builds events.Command(command="CLIENT SETNAME",
\* modifiers=[cname]) without callback and callback_kwargs, which the
\* kw_only attrs class requires: a TypeError, before anything is packed.
SetNameRaises(c) == VersionLT(c.server, SupportsHello) /\ Truthy(c.name)

\* `command_stack` when SETNAME did not raise: SELECT db (an int).
StackCommands(c) ==
    IF c.db # NoVal
    THEN <<[verb |-> <<"SELECT">>, modifiers |-> <<PyValue("int", c.db)>>]>>
    ELSE <<>>

\* A packed payload; <<>> stands for None.  With SETNAME unreachable the
\* stack holds at most one command, so the make_pipeline branch is never
\* taken.
PackAll(cmds) == IF cmds = <<>> THEN <<>> ELSE PackCommand(Head(cmds))

\* get_on_connect_routine: the pair (packed_init, packed_stack), or the
\* TypeError of the SETNAME command.
GetOnConnectRoutine(c) ==
    IF SetNameRaises(c) THEN [raised |-> "TypeError", init |-> <<>>, stack |-> <<>>]
    ELSE [raised |-> "none", init |-> PackAll(InitCommands(c)),
          stack |-> PackAll(StackCommands(c))]

\* parse_error: the exception class an error line becomes.
ParseError(line) ==
    IF line \in {"NOAUTH", "ERR invalid password"} THEN "AuthenticationError"
    ELSE "ResponseError"

\* AuthenticationError derives from ConnectionError only; the others the
\* handshake can raise derive from RedisError.
RedisErrors == {"ResponseError", "RedisConnectionError"}

----------------------------------------------------------------------------
(* connect() and on_connect() *)

InfoServer == PackCommand(Cmd(<<"INFO">>, <<"server">>))

\* What sending the init command raises.  The asyncio driver awaits its
\* future: an AuthenticationError is re-raised, a ResponseError wrapped by
\* connection_error.  The threaded driver returns the future unread.
InitRaises(c) ==
    IF c.driver = "sio" \/ c.reject = "ok" THEN "none"
    ELSE IF ParseError(c.reject) = "AuthenticationError" THEN "AuthenticationError"
    ELSE "RedisConnectionError"

\* on_connect: INFO server when the version is unknown, then the routine
\* (whose exception propagates), then the init command, returning right
\* after it; the stack is sent only without init.
OnConnect(c) ==
    LET r == GetOnConnectRoutine(c)
    IN [writes |-> (IF c.known THEN <<>> ELSE <<InfoServer>>)
                   \o (IF r.raised # "none" THEN <<>>
                       ELSE IF r.init # <<>> THEN <<r.init>>
                       ELSE IF r.stack # <<>> THEN <<r.stack>> ELSE <<>>),
        raised |-> IF r.raised # "none" THEN r.raised
                   ELSE IF r.init # <<>> THEN InitRaises(c) ELSE "none"]

\* connect: on_connect, then disconnect only if a RedisError was raised;
\* any other exception leaves the connection open.
Connect(c) ==
    LET oc == OnConnect(c)
    IN [sent      |-> Unpack(FlattenSeq(oc.writes)),
        raised    |-> IF oc.raised = "RedisConnectionError" THEN "ConnectionError"
                      ELSE oc.raised,
        connected |-> oc.raised \notin RedisErrors]

----------------------------------------------------------------------------
(* check_health() *)

\* ClientInfo.next_health_check defaults to float("inf").
Infinity == MaxTime + 1

\* should_check_health: true while curtime is BELOW next_health_check.
ShouldCheckHealth(interval, next, now) == interval # 0 /\ now < next

\* check_health at `now`: when due, get_health_check returns a Command that
\* is never packed and is handed to send_command.  On a connected I/O
\* protocol the asyncio driver's future resolves to ConnectionClosed if the
\* transport is closing, else send_command reads event.payload; either way
\* an AttributeError escapes (from check_health_response or send_command),
\* which the ConnectionError/TimeoutError handler does not catch.  On a
\* lost one send_command raises ConnectionError; the handler disconnects
\* and sends again, which raises again.  No PING is written and
\* set_next_health_check is never reached.
CheckHealth(interval, next, call) ==
    IF ~ShouldCheckHealth(interval, next, call.now)
    THEN [next |-> next, ping |-> FALSE, raised |-> "none"]
    ELSE [next |-> next, ping |-> FALSE,
          raised |-> IF call.state = "connected" THEN "AttributeError"
                     ELSE "ConnectionError"]

\* The PINGs of a sequence of check_health calls; the caller goes on after
\* one raises.
HealthPings(h) ==
    LET step(acc, call) ==
            LET r == CheckHealth(h.interval, acc.next, call)
            IN [next |-> r.next, pings |-> Append(acc.pings, r.ping)]
    IN FoldLeft(step, [next |-> Infinity, pings |-> <<>>], h.calls).pings

----------------------------------------------------------------------------
(* Reference definitions (spec 4.C, 4.D) *)

\* Spec 4.C/4.D: INFO server when the version is unknown; at >= 6.0.0
\* HELLO <resp> [AUTH user pass] [SETNAME name], below it AUTH <password>;
\* then CLIENT SETNAME (below 6.0.0) and SELECT db.  A handshake error
\* disconnects and raises AuthenticationError verbatim or a ConnectionError.
SpecConnect(c) ==
    LET hello    == ~VersionLT(c.server, SupportsHello)
        init     == IF hello
                    THEN <<<<"HELLO", RespVersion(c)>> \o HelloAuth(c)
                           \o (IF Truthy(c.name) THEN <<"SETNAME", c.name>> ELSE <<>>)>>
                    ELSE IF Truthy(c.password) THEN <<<<"AUTH", c.password>>>> ELSE <<>>
        stack    == (IF ~hello /\ Truthy(c.name) THEN <<<<"CLIENT", "SETNAME", c.name>>>>
                     ELSE <<>>)
                    \o (IF c.db # NoVal THEN <<<<"SELECT", c.db>>>> ELSE <<>>)
        rejected == init # <<>> /\ c.reject # "ok"
    IN [sent      |-> (IF c.known THEN <<>> ELSE <<<<"INFO", "server">>>>)
                      \o init \o (IF rejected THEN <<>> ELSE stack),
        raised    |-> IF ~rejected THEN "none"
                      ELSE IF ParseError(c.reject) = "AuthenticationError"
                           THEN "AuthenticationError" ELSE "ConnectionError",
        connected |-> ~rejected]

\* Spec 4.D: PING when the clock is past next_health_check, which starts
\* in the past and after a check answered on a live connection is the
\* time plus the interval.
SpecHealthPings(h) ==
    LET step(acc, call) ==
            LET due == h.interval # 0 /\ call.now > acc.next
            IN [next  |-> IF due /\ call.state = "connected"
                          THEN call.now + h.interval ELSE acc.next,
                pings |-> Append(acc.pings, due)]
    IN FoldLeft(step, [next |-> 0, pings |-> <<>>], h.calls).pings

----------------------------------------------------------------------------
(* Inputs and entry points *)

ConnectInputs ==
    [kind: {"connect"}, driver: {"aio", "sio"}, known: BOOLEAN, server: Versions,
     resp: {NoVal, "2", "3"}, username: {NoVal, ""} \cup Users,
     password: {NoVal, ""} \cup Passwords, name: {NoVal} \cup ClientNames,
     db: {NoVal} \cup Dbs, reject: Rejections]

\* Calls at strictly increasing clock readings, each on a connection that
\* is connected or lost.
Calls == UNION {{[i \in 1..n |-> [now |-> ts[i], state |-> rs[i]]]
                  : ts \in {t \in [1..n -> 1..MaxTime] :
                              \A i \in 1..(n - 1) : t[i] < t[i + 1]},
                    rs \in [1..n -> {"connected", "lost"}]}
                : n \in 1..MaxCalls}

HealthInputs == [kind: {"health"}, interval: Intervals, calls: Calls]

\* A driver's connect() against a server.
ConnectEvent == \E c \in ConnectInputs : input' = c

\* A sequence of check_health() calls on one connection.
HealthEvent == \E h \in HealthInputs : input' = h

ProtocolInit == input \in ConnectInputs \cup HealthInputs

ProtocolNext == ConnectEvent \/ HealthEvent

ProtocolSpec == ProtocolInit /\ [][ProtocolNext]_input

----------------------------------------------------------------------------
(* Properties *)

\* The upkeep the drivers do on their own is what spec 4.C/4.D prescribe:
\* connect() writes INFO (if needed), the init command and the stack, and
\* on a handshake error raises the right class and leaves the connection
\* closed (on_connect, connect, get_on_connect_routine); check_health()
\* sends a PING exactly when the interval has elapsed (should_check_health,
\* get_health_check, check_health).
UpkeepMatchesSpec ==
    /\ input.kind = "connect" => Connect(input) = SpecConnect(input)
    /\ input.kind = "health" => HealthPings(input) = SpecHealthPings(input)

=============================================================================
