----------------------------- MODULE BrokerWire -----------------------------
(***************************************************************************)
(* One exchange with the broker, end to end: the transport client          *)
(* (crates/proto/src/client.rs, client/stream.rs, response.rs), the        *)
(* request grammar (crates/secrets/src/proto/request.rs) and secretsd's    *)
(* accept loop with its four worker lanes (crates/secrets/src/server.rs).  *)
(*                                                                         *)
(* The accept loop peeks at what has arrived, picks a lane from the parsed *)
(* request and hands the connection to that lane's bounded queue.  A       *)
(* worker reads the frame, runs the request - a GET, REQUEST or AUTHORIZE  *)
(* may wait for a human for ever - and writes the reply in pieces.  The    *)
(* client waits under a deadline counted in ticks.  The broker may die.    *)
(***************************************************************************)
EXTENDS Naturals, Sequences, FiniteSets

CONSTANTS Clients,
          Frames,        \* per client, what it may send: [op, fields, bytes]
          MaxFrame,      \* MAX_FRAME_BYTES
          Workers, Depth,\* per lane: its workers and its queue's capacity
          Sizes,         \* how long a payload may be, in bytes, one to a read
          ApprovalTimeout, ControlTimeout

Lanes == {"main", "fast", "control", "subscription"}

ASSUME WireConstants ==
    /\ MaxFrame \in Nat /\ Sizes \subseteq Nat
    /\ ApprovalTimeout \in Nat \ {0} /\ ControlTimeout \in Nat \ {0}
    /\ Workers \in [Lanes -> Nat \ {0}] /\ Depth \in [Lanes -> Nat \ {0}]
    /\ Frames \in [Clients -> SUBSET [op : STRING, fields : Seq(STRING \X STRING), bytes : Nat]]

VARIABLES client,   \* per client: its place in the exchange and its result
          wire,     \* per connection: what has arrived at each end
          server,   \* per connection: where the broker has it
          lane,     \* per lane: the queue of connections
          backlog,  \* connections the kernel holds for accept
          up        \* whether the broker runs

vars == <<client, wire, server, lane, backlog, up>>

-----------------------------------------------------------------------------
(***************************************************************************)
(* The request grammar.  A field is <<name, class of its value>>.          *)
(***************************************************************************)
Required ==
    [HELLO |-> {"version"}, REGISTER |-> {"token", "session", "pid"}, UNREGISTER |-> {"session"},
     GET |-> {"key"}, REQUEST |-> {"key"}, AUTHORIZE |-> {"cap"}, REDEEM |-> {"receipt", "cap"},
     GRANTS |-> {}, DENY |-> {"id"}, LOCK |-> {}, SUBSCRIBE |-> {}]
Numeric == [HELLO |-> {"version"}, REGISTER |-> {"pid"}, DENY |-> {"id"}, GET |-> {"ttl"}, REQUEST |-> {"ttl"}]

parse_request(f) ==
    LET names == {f.fields[i][1] : i \in DOMAIN f.fields}
        numbers == IF f.op \in DOMAIN Numeric THEN Numeric[f.op] ELSE {}
    IN IF \/ f.bytes = 0 \/ f.bytes > MaxFrame
          \/ Cardinality(names) # Len(f.fields)                    \* a duplicate
       THEN "BAD_REQUEST"
       ELSE IF f.op \notin DOMAIN Required THEN "UNKNOWN_OP"
       ELSE IF \/ ~ Required[f.op] \subseteq names
               \/ \E i \in DOMAIN f.fields :
                    /\ f.fields[i][1] \in numbers
                    /\ \/ f.fields[i][2] = "text"
                       \/ f.fields[i] = <<"ttl", "zero">>
               \/ f.op = "SUBSCRIBE" /\ f.fields # <<>>
       THEN "BAD_REQUEST" ELSE f.op

LockWithGets(op) == IF op = "SUBSCRIBE" THEN "subscription"
                    ELSE IF op = "DENY" THEN "control"
                    ELSE IF op \in {"GET", "REQUEST", "AUTHORIZE", "LOCK"} THEN "main" ELSE "fast"
request_lane(op) == IF op = "SUBSCRIBE" THEN "subscription"
                    ELSE IF op \in {"DENY", "LOCK"} THEN "control"
                    ELSE IF op \in {"GET", "REQUEST", "AUTHORIZE"} THEN "main" ELSE "fast"

Approval == {"GET", "REQUEST", "AUTHORIZE"}
Timeout(f) == IF f.op \in Approval THEN ApprovalTimeout ELSE ControlTimeout

NoFrame == [op |-> "", fields |-> <<>>, bytes |-> 0]
NewClient == [pc |-> "idle", frame |-> NoFrame, spent |-> 0, wait |-> 0, per |-> 0,
              want |-> 0, got |-> 0, result |-> ""]
Quiet == [request |-> "none", reply |-> <<>>, closed |-> FALSE]
Unserved == [at |-> "none", lane |-> "", known |-> FALSE, verdict |-> "", len |-> 0, wrote |-> 0]

Init ==
    /\ client = [c \in Clients |-> NewClient]
    /\ wire = [c \in Clients |-> Quiet]
    /\ server = [c \in Clients |-> Unserved]
    /\ lane = [l \in Lanes |-> <<>>]
    /\ backlog = <<>>
    /\ up = TRUE

Return(c, r) == client' = [client EXCEPT ![c].pc = "done", ![c].result = r]

-----------------------------------------------------------------------------
(***************************************************************************)
(* The client: request_on, write_request, read_response_by.                *)
(***************************************************************************)
connect(c) ==
    /\ client[c].pc = "idle"
    /\ \E f \in Frames[c] :
         IF up THEN /\ client' = [client EXCEPT ![c].pc = "write", ![c].frame = f]
                    /\ backlog' = Append(backlog, c)
                    /\ server' = [server EXCEPT ![c].at = "backlog"]
               ELSE Return(c, "io") /\ UNCHANGED <<backlog, server>>
    /\ UNCHANGED <<wire, lane, up>>

\* The line goes out in two writes.  A client never sends an oversized frame.
write_request(c) ==
    /\ client[c].pc = "write"
    /\ \/ /\ client[c].frame.bytes = 0 \/ client[c].frame.bytes > MaxFrame
          /\ Return(c, "invalid request") /\ UNCHANGED wire
       \/ /\ client[c].frame.bytes \in 1..MaxFrame
          /\ IF wire[c].closed THEN Return(c, "io") /\ UNCHANGED wire
             ELSE IF wire[c].request = "none"
             THEN wire' = [wire EXCEPT ![c].request = "part"] /\ UNCHANGED client
             ELSE /\ wire' = [wire EXCEPT ![c].request = "line"]
                  /\ client' = [client EXCEPT ![c].pc = "header"]
    /\ UNCHANGED <<server, lane, backlog, up>>

\* What a header means: a code is an error, the rest a response, unless it
\* announces more than a frame holds (parse_header, finish_header).
ErrCodes == {"BAD_REQUEST", "UNKNOWN_OP", "VERSION_MISMATCH", "UNKNOWN_TOKEN", "NO_SCOPE", "AGENT_TTY",
             "FOREIGN_CALLER", "NOT_HUMAN_KEY", "AMBIGUOUS_KEY", "DENIED", "TIMEOUT",
             "YUBIKEY_UNREACHABLE", "TOO_MANY_PENDING", "INTERNAL"}
TooLong(h) == h.kind = "bytes" /\ h.len > MaxFrame
finish_header(h) == IF h.kind # "err" THEN h.kind
                    ELSE IF h.code \in ErrCodes THEN h.code ELSE "invalid response"

Expired(c) == client[c].spent >= Timeout(client[c].frame)
TimedOut(c) == Return(c, IF client[c].frame.op \in Approval THEN "approval timeout" ELSE "io")

NeverExpires(c) == FALSE
header_expired(c) == Expired(c)

\* read_header_line: byte by byte under the deadline, each read given what
\* remains of it.
read_header_line(c) ==
    /\ client[c].pc = "header"
    /\ \/ /\ ~ Expired(c) /\ wire[c].reply # <<>> /\ TooLong(Head(wire[c].reply))
          /\ Return(c, "invalid response") /\ UNCHANGED wire
       \/ /\ ~ Expired(c) /\ wire[c].reply # <<>> /\ ~ TooLong(Head(wire[c].reply))
          /\ client' = [client EXCEPT ![c].pc = IF Head(wire[c].reply).len > 0
                                                THEN "payload" ELSE "trailing",
                                      ![c].result = finish_header(Head(wire[c].reply)),
                                      ![c].want = Head(wire[c].reply).len,
                                      ![c].per = Timeout(client[c].frame) - client[c].spent,
                                      ![c].wait = Timeout(client[c].frame) - client[c].spent]
          /\ wire' = [wire EXCEPT ![c].reply = Tail(@)]
       \/ ~ Expired(c) /\ wire[c].reply = <<>> /\ wire[c].closed
          /\ Return(c, "invalid response") /\ UNCHANGED wire
       \/ header_expired(c) /\ TimedOut(c) /\ UNCHANGED wire
    /\ UNCHANGED <<server, lane, backlog, up>>

\* read_payload: read_exact, each read under the socket's last timeout.
PayloadUpToEof(c) ==
    /\ client[c].pc = "payload"
    /\ \/ /\ wire[c].reply # <<>>
          /\ client' = [client EXCEPT ![c].got = @ + 1, ![c].wait = client[c].per,
                                      ![c].pc = IF client[c].got + 1 = client[c].want THEN "trailing" ELSE @]
          /\ wire' = [wire EXCEPT ![c].reply = Tail(@)]
       \/ wire[c].reply = <<>> /\ wire[c].closed /\ Return(c, "bytes") /\ UNCHANGED wire
       \/ wire[c].reply = <<>> /\ ~ wire[c].closed /\ client[c].wait = 0 /\ TimedOut(c) /\ UNCHANGED wire
    /\ UNCHANGED <<server, lane, backlog, up>>
read_payload(c) ==
    /\ client[c].pc = "payload"
    /\ \/ /\ wire[c].reply # <<>>
          /\ client' = [client EXCEPT ![c].got = @ + 1, ![c].wait = client[c].per,
                                      ![c].pc = IF client[c].got + 1 = client[c].want THEN "trailing" ELSE @]
          /\ wire' = [wire EXCEPT ![c].reply = Tail(@)]
       \/ wire[c].reply = <<>> /\ wire[c].closed /\ Return(c, "invalid response") /\ UNCHANGED wire
       \/ wire[c].reply = <<>> /\ ~ wire[c].closed /\ client[c].wait = 0 /\ TimedOut(c) /\ UNCHANGED wire
    /\ UNCHANGED <<server, lane, backlog, up>>

\* The reply counts only once the broker has closed after it.  No value holds
\* the NUL that bytes_response refuses (secret.rs).
reject_trailing_bytes(c) ==
    /\ client[c].pc = "trailing"
    /\ \/ wire[c].reply = <<>> /\ wire[c].closed /\ Return(c, client[c].result)
       \/ wire[c].reply = <<>> /\ ~ wire[c].closed /\ client[c].wait = 0 /\ TimedOut(c)
    /\ UNCHANGED <<wire, server, lane, backlog, up>>

-----------------------------------------------------------------------------
(***************************************************************************)
(* The broker's accept loop.                                               *)
(***************************************************************************)
\* ready_request_lane: what a peek shows of the request, None being main.
Peeked(c) == /\ wire[c].request = "line"
             /\ parse_request(client[c].frame) \in DOMAIN Required

Close(c) == /\ server' = [server EXCEPT ![c].at = "gone"]
            /\ wire' = [wire EXCEPT ![c].closed = TRUE]

\* What the broker writes: a header, or a byte of a payload.
Item(kind, code, len) == [kind |-> kind, code |-> code, len |-> len]

\* A full lane: told so if the request was whole, closed either way.
reject_complete_connection(c) ==
    /\ wire' = [wire EXCEPT ![c].closed = TRUE,
                  ![c].reply = IF Peeked(c) THEN <<Item("err", "INTERNAL", 0)>> ELSE <<>>]
    /\ server' = [server EXCEPT ![c].at = "gone"]

serve_listener ==
    /\ up /\ backlog # <<>>
    /\ LET c == Head(backlog)
           l == IF Peeked(c) THEN request_lane(parse_request(client[c].frame)) ELSE "main"
       IN IF Len(lane[l]) < Depth[l]
          THEN /\ lane' = [lane EXCEPT ![l] = Append(@, c)]
               /\ server' = [server EXCEPT ![c].at = "queue", ![c].lane = l, ![c].known = Peeked(c)]
               /\ UNCHANGED wire
          ELSE reject_complete_connection(c) /\ UNCHANGED lane
    /\ backlog' = Tail(backlog)
    /\ UNCHANGED <<client, up>>

-----------------------------------------------------------------------------
(***************************************************************************)
(* A lane's workers.                                                       *)
(***************************************************************************)
Busy(l) == {c \in Clients : server[c].lane = l /\ server[c].at \in {"read", "run", "reply", "payload"}}

take_connection(l) ==
    /\ up /\ lane[l] # <<>> /\ Cardinality(Busy(l)) < Workers[l]
    /\ server' = [server EXCEPT ![Head(lane[l])].at = "read"]
    /\ lane' = [lane EXCEPT ![l] = Tail(@)]
    /\ UNCHANGED <<client, wire, backlog, up>>

\* A frame that does not arrive in 250 ms, or a client that left, closes the
\* connection without a word.
read_frame(c) ==
    /\ up /\ server[c].at = "read"
    /\ \/ /\ wire[c].request = "line"
          /\ server' = [server EXCEPT ![c].at = "run", ![c].verdict = parse_request(client[c].frame)]
          /\ UNCHANGED wire
       \/ wire[c].request # "line" /\ Close(c)
    /\ UNCHANGED <<client, lane, backlog, up>>

\* dispatch: a subscription is handed over, the others are answered.  What
\* waits for a human is `decide`.
Reply(c, kind, code, len) ==
    /\ wire' = [wire EXCEPT ![c].reply = <<Item(kind, code, len)>>]
    /\ server' = [server EXCEPT ![c].at = IF len > 0 THEN "payload" ELSE "reply", ![c].len = len]
Ok(c) == Reply(c, "ok", "", 0)
Fields(c) == Reply(c, "fields", "", 0)
Payload(c) == \E n \in Sizes : Reply(c, "bytes", "", n)
Failed(c, code) == Reply(c, "err", code, 0)

dispatch(c) ==
    /\ up /\ server[c].at = "run"
    /\ \/ server[c].verdict = "SUBSCRIBE" /\ server' = [server EXCEPT ![c].at = "held"] /\ UNCHANGED wire
       \/ server[c].verdict = "HELLO" /\ (Fields(c) \/ Failed(c, "VERSION_MISMATCH"))
       \/ server[c].verdict = "GRANTS" /\ Payload(c)
       \/ server[c].verdict = "REDEEM" /\ (Fields(c) \/ Failed(c, "DENIED"))
       \/ server[c].verdict \in {"UNREGISTER", "LOCK"} /\ Ok(c)
       \/ server[c].verdict \in {"REGISTER", "DENY"} /\ (Ok(c) \/ Failed(c, "BAD_REQUEST"))
       \/ server[c].verdict \in {"BAD_REQUEST", "UNKNOWN_OP"} /\ Failed(c, "BAD_REQUEST")
    /\ UNCHANGED <<client, lane, backlog, up>>

decide(c) ==
    /\ up /\ server[c].at = "run" /\ server[c].verdict \in Approval
    /\ \/ server[c].verdict = "GET" /\ Payload(c)
       \/ server[c].verdict # "GET" /\ Fields(c)
       \/ Failed(c, "DENIED")
    /\ UNCHANGED <<client, lane, backlog, up>>

\* handle: the payload after its header, then the stream is dropped.
write_reply(c) ==
    /\ up
    /\ \/ server[c].at = "reply" /\ Close(c)
       \/ /\ server[c].at = "payload"
          /\ wire' = [wire EXCEPT ![c].reply = Append(@, Item("byte", "", 0))]
          /\ server' = [server EXCEPT ![c].wrote = @ + 1,
                                      ![c].at = IF server[c].wrote + 1 = server[c].len THEN "reply" ELSE @]
    /\ UNCHANGED <<client, lane, backlog, up>>

\* The process dies: the kernel closes everything it had.
broker_dies ==
    /\ up /\ up' = FALSE
    /\ wire' = [c \in Clients |-> IF server[c].at = "none" THEN wire[c] ELSE [wire[c] EXCEPT !.closed = TRUE]]
    /\ server' = [c \in Clients |-> IF server[c].at = "none" THEN server[c] ELSE [server[c] EXCEPT !.at = "gone"]]
    /\ lane' = [l \in Lanes |-> <<>>] /\ backlog' = <<>>
    /\ UNCHANGED client

\* Timers fire before more time passes.
Waiting(c) == client[c].pc \in {"header", "payload", "trailing"}
Tick ==
    /\ \E c \in Clients : Waiting(c)
    /\ \A c \in Clients : /\ client[c].pc = "header" => ~ header_expired(c)
                          /\ client[c].pc \in {"payload", "trailing"} => client[c].wait > 0
    /\ client' = [c \in Clients |->
                    IF ~ Waiting(c) THEN client[c]
                    ELSE [client[c] EXCEPT !.spent = IF Expired(c) /\ client[c].pc = "header" THEN @ ELSE @ + 1,
                                           !.wait = IF client[c].pc = "header" THEN @ ELSE @ - 1]]
    /\ UNCHANGED <<wire, server, lane, backlog, up>>

-----------------------------------------------------------------------------
Exchange(c) == write_request(c) \/ read_header_line(c) \/ read_payload(c) \/ reject_trailing_bytes(c)
Serve(c) == read_frame(c) \/ dispatch(c) \/ write_reply(c)
Done == (\A c \in Clients : client[c].pc = "done" \/ server[c].at = "held") /\ UNCHANGED vars
Next == \/ \E c \in Clients : connect(c) \/ Exchange(c) \/ Serve(c) \/ decide(c)
        \/ \E l \in Lanes : take_connection(l)
        \/ serve_listener \/ broker_dies \/ Tick \/ Done

(***************************************************************************)
(* The broker's threads run, clients finish their writes and reads, time   *)
(* passes.  No human need ever decide, and no client need connect.         *)
(***************************************************************************)
Fairness ==
    /\ \A c \in Clients : WF_vars(Exchange(c)) /\ WF_vars(Serve(c))
    /\ \A l \in Lanes : WF_vars(take_connection(l))
    /\ WF_vars(serve_listener) /\ WF_vars(Tick)

Spec == Init /\ [][Next]_vars /\ Fairness

-----------------------------------------------------------------------------
(***************************************************************************)
(* A client that returns a payload, the value of a GET or the list of      *)
(* GRANTS, has every byte of what the broker had to send, wherever the     *)
(* broker died and however the payload was cut into reads (response.rs     *)
(* read_payload, reject_trailing_bytes; server.rs handle).                 *)
(***************************************************************************)
ValueIsWhole ==
    \A c \in Clients : (client[c].pc = "done" /\ client[c].result = "bytes") =>
        /\ client[c].got = server[c].len /\ server[c].wrote = server[c].len
        /\ server[c].verdict \in {"GET", "GRANTS"}

(***************************************************************************)
(* A LOCK whose line is there when its connection is accepted is dealt     *)
(* with although every worker that serves GETs waits for a human for ever  *)
(* (server.rs request_lane: nothing may "delay the Control lane's LOCK     *)
(* worker").                                                               *)
(***************************************************************************)
LockGetsThrough ==
    \A c \in Clients :
        (server[c].at = "queue" /\ server[c].known /\ client[c].frame.op = "LOCK") ~> (server[c].at = "gone")

(***************************************************************************)
(* Every exchange ends for its client: a full lane, a human who never      *)
(* decides, a broker that stalls or dies leaves nobody waiting (stream.rs  *)
(* request_on).                                                            *)
(***************************************************************************)
CallReturns == \A c \in Clients : (client[c].pc = "header") ~> (client[c].pc = "done")

=============================================================================
