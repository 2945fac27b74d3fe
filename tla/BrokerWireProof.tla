-------------------------- MODULE BrokerWireProof --------------------------
(***************************************************************************)
(* Proofs about exchanges with the broker and about its lanes, for any     *)
(* number of clients, workers and places in the queues and any length of a *)
(* payload, wherever the broker dies.                                      *)
(***************************************************************************)
EXTENDS BrokerWire, Functions, FiniteSetTheorems, TLAPS

\* Zenon is the default prover of this module; a leaf that needs arithmetic,
\* records or a longer search says SMT.
USE Zenon

\* A frame, or none yet: its op is "".
Frame == [op : STRING \cup {""}, fields : Seq(STRING \X STRING), bytes : Nat]
Items == [kind : {"err", "ok", "fields", "bytes", "byte"}, code : ErrCodes \cup {""}, len : Nat]
Results == {"", "io", "invalid request", "invalid response", "approval timeout",
            "ok", "fields", "bytes", "byte"} \cup ErrCodes
Verdicts == {"", "BAD_REQUEST", "UNKNOWN_OP"} \cup DOMAIN Required
Client == [pc : {"idle", "write", "header", "payload", "trailing", "done"}, frame : Frame,
           spent : Nat, wait : Int, per : Int, want : Nat, got : Nat, result : Results]
Wire == [request : {"none", "part", "line"}, reply : Seq(Items), closed : BOOLEAN]
Served == [at : {"none", "backlog", "queue", "read", "run", "held", "payload", "reply", "gone"},
           lane : Lanes \cup {""}, known : BOOLEAN, verdict : Verdicts, len : Nat, wrote : Nat]

\* Every variable has its type.
WireTypeOK ==
    /\ client \in [Clients -> Client]
    /\ wire \in [Clients -> Wire]
    /\ server \in [Clients -> Served]
    /\ lane \in [Lanes -> Seq(Clients)]
    /\ backlog \in Seq(Clients)
    /\ up \in BOOLEAN

(***************************************************************************)
(* A connection is in one place: in the backlog, once, or in the queue of  *)
(* its lane, once, or with a worker.                                       *)
(***************************************************************************)
Places ==
    /\ IsInjective(backlog) /\ \A c \in Range(backlog) : server[c].at = "backlog"
    /\ \A l \in Lanes : /\ IsInjective(lane[l])
                        /\ \A c \in Range(lane[l]) : server[c].at = "queue" /\ server[c].lane = l

(***************************************************************************)
(* What is on its way to a client: nothing before the broker answers; then *)
(* a header, and behind a payload's header as many bytes as were written   *)
(* and not yet read.  The client wants what the broker has to send.        *)
(***************************************************************************)
Answered(s) == s.at \in {"payload", "reply", "gone"}
Asking(k) == k.pc \in {"idle", "write", "header"}
Carried == {"GET", "GRANTS"}

Header(h, n, s) ==
    \/ h.kind # "bytes" /\ h.len = 0 /\ n = 0
    \/ h.kind = "bytes" /\ h.len = s.len /\ n = s.wrote /\ s.verdict \in Carried

Whole(k, s) == k.got = s.len /\ s.wrote = s.len /\ s.verdict \in Carried

Stream(k, w, s) ==
    /\ ~ Answered(s) => /\ w.reply = <<>> /\ s.wrote = 0
                        /\ k.pc \notin {"payload", "trailing"} /\ k.result # "bytes"
    /\ k.pc = "idle" => s.at = "none"
    /\ s.at = "payload" => /\ s.wrote < s.len
                           /\ Asking(k) => w.reply # <<>> /\ Head(w.reply).kind = "bytes"
    /\ s.wrote <= s.len
    /\ Asking(k) => /\ k.got = 0 /\ k.result # "bytes"
                    /\ w.reply # <<>> => Header(Head(w.reply), Len(w.reply) - 1, s)
    /\ k.pc = "payload" => /\ k.result = "bytes" /\ k.want = s.len /\ k.got < s.len
                           /\ k.got + Len(w.reply) = s.wrote /\ s.verdict \in Carried
    /\ (k.pc \in {"trailing", "done"} /\ k.result = "bytes") => Whole(k, s)

Streams == \A c \in Clients : Stream(client[c], wire[c], server[c])
-----------------------------------------------------------------------------
(***************************************************************************)
(* Types, and what each step does to the connection it is about.           *)
(***************************************************************************)
Others(c) == \A d \in Clients : d # c => /\ client'[d] = client[d] /\ wire'[d] = wire[d]
                                         /\ server'[d] = server[d]

LEMMA ReturnOK ==
    ASSUME WireTypeOK, NEW c \in Clients, NEW r \in Results, Return(c, r)
    PROVE  /\ client' \in [Clients -> Client]
           /\ client'[c].pc = "done" /\ client'[c].result = r /\ client'[c].got = client[c].got
           /\ \A d \in Clients : d # c => client'[d] = client[d]
<1>0. client \in [Clients -> Client] /\ client[c] \in Client
  BY DEF WireTypeOK
<1> DEFINE k == [client[c] EXCEPT !.pc = "done", !.result = r]
<1>1. client' = [client EXCEPT ![c] = k]
  BY <1>0 DEF Return
<1>2. k \in Client /\ k.pc = "done" /\ k.result = r /\ k.got = client[c].got
  BY <1>0 DEF Client
<1> HIDE DEF k
<1> QED
  BY <1>0, <1>1, <1>2

\* A client that runs out of time returns, and not with a value.
LEMMA TimedOutOK ==
    ASSUME NEW c \in Clients, TimedOut(c)
    PROVE  \E r \in Results : r # "bytes" /\ Return(c, r)
BY DEF TimedOut, Results

LEMMA ParseOK == \A f \in Frame : parse_request(f) \in Verdicts
BY DEF parse_request, Verdicts

LEMMA HeaderOK ==
    ASSUME NEW h \in Items
    PROVE  /\ finish_header(h) \in Results
           /\ h.kind = "bytes" => finish_header(h) = "bytes"
           /\ h.kind # "bytes" => finish_header(h) # "bytes"
<1>1. h.kind \in {"err", "ok", "fields", "bytes", "byte"}
  BY DEF Items
<1>2. "bytes" \notin ErrCodes
  BY DEF ErrCodes
<1> QED
  BY <1>1, <1>2 DEF finish_header, Results

LEMMA RangeOK == \A q \in Seq(Clients) : Range(q) \subseteq Clients
BY SMT DEF Range

LEMMA QueueGrows ==
    ASSUME NEW q \in Seq(Clients), NEW c \in Clients
    PROVE  /\ Append(q, c) \in Seq(Clients) /\ Range(Append(q, c)) = Range(q) \cup {c}
           /\ IsInjective(q) /\ c \notin Range(q) => IsInjective(Append(q, c))
<1>1. /\ Append(q, c) \in Seq(Clients) /\ DOMAIN q = 1..Len(q) /\ Len(q) \in Nat
      /\ DOMAIN Append(q, c) = 1..Len(q) + 1 /\ Append(q, c)[Len(q) + 1] = c
      /\ \A i \in 1..Len(q) : Append(q, c)[i] = q[i]
  BY SMT
<1>2. 1..Len(q) + 1 = (1..Len(q)) \cup {Len(q) + 1} /\ Len(q) + 1 \notin 1..Len(q)
  BY <1>1, SMT
<1> DEFINE a == Append(q, c)
<1>3. Range(a) = Range(q) \cup {c}
  <2>1. Range(a) \subseteq Range(q) \cup {c}
    BY <1>1, <1>2, SMT DEF Range
  <2>2. Range(q) \subseteq Range(a)
    BY <1>1, <1>2, SMT DEF Range
  <2>3. c \in Range(a)
    BY <1>1, <1>2, SMT DEF Range
  <2> QED
    BY <2>1, <2>2, <2>3
<1>4. ASSUME IsInjective(q), c \notin Range(q) PROVE IsInjective(a)
  <2>1. \A i, j \in 1..Len(q) : q[i] = q[j] => i = j
    BY <1>1, <1>4 DEF IsInjective
  <2>2. \A i \in 1..Len(q) : q[i] # c
    BY <1>1, <1>4 DEF Range
  <2>3. \A i, j \in 1..Len(q) + 1 : a[i] = a[j] => i = j
    BY <1>1, <1>2, <2>1, <2>2, SMT
  <2> QED
    BY <1>1, <2>3 DEF IsInjective
<1> QED
  BY <1>1, <1>3, <1>4

LEMMA QueueShrinks ==
    ASSUME NEW q \in Seq(Clients), q # <<>>, IsInjective(q)
    PROVE  /\ Tail(q) \in Seq(Clients) /\ IsInjective(Tail(q))
           /\ Head(q) \in Range(q) /\ Head(q) \in Clients
           /\ Range(Tail(q)) \subseteq Range(q) \ {Head(q)}
<1>1. /\ Tail(q) \in Seq(Clients) /\ DOMAIN q = 1..Len(q) /\ Len(q) \in Nat /\ Len(q) >= 1
      /\ DOMAIN Tail(q) = 1..Len(q) - 1 /\ Head(q) = q[1]
      /\ \A i \in 1..Len(q) - 1 : Tail(q)[i] = q[i + 1]
  BY SMT
<1>2. /\ 1 \in 1..Len(q) /\ \A i \in 1..Len(q) - 1 : i + 1 \in 1..Len(q) /\ i + 1 # 1
      /\ \A i, j \in 1..Len(q) - 1 : i + 1 = j + 1 => i = j
  BY <1>1, SMT
<1>3. Head(q) \in Range(q) /\ Head(q) \in Clients
  BY <1>1, <1>2, SMT DEF Range
<1>4. IsInjective(Tail(q))
  <2>1. \A i, j \in 1..Len(q) : q[i] = q[j] => i = j
    BY <1>1 DEF IsInjective
  <2>2. \A i, j \in 1..Len(q) - 1 : Tail(q)[i] = Tail(q)[j] => i = j
    BY <1>1, <1>2, <2>1, SMT
  <2> QED
    BY <1>1, <2>2 DEF IsInjective
<1>5. ASSUME NEW c \in Range(Tail(q)) PROVE c \in Range(q) /\ c # Head(q)
  <2>1. PICK i \in 1..Len(q) - 1 : c = q[i + 1]
    BY <1>1 DEF Range
  <2> QED
    BY <1>1, <1>2, <2>1 DEF Range, IsInjective
<1> QED
  BY <1>1, <1>3, <1>4, <1>5

-----------------------------------------------------------------------------
(***************************************************************************)
(* The steps as a connection sees them.                                    *)
(***************************************************************************)
LEMMA ZeroIsNat == 0 \in Nat
BY SMT

LEMMA SeqFacts ==
    ASSUME NEW S, NEW q \in Seq(S)
    PROVE  /\ Len(q) \in Nat
           /\ q # <<>> => Len(Tail(q)) = Len(q) - 1 /\ Len(q) >= 1 /\ Head(q) \in S
           /\ \A m \in S : /\ Len(Append(q, m)) = Len(q) + 1 /\ Append(q, m) # <<>>
                           /\ q # <<>> => Head(Append(q, m)) = Head(q)
BY SMT

LEMMA NoItem == \A S : <<>> \in Seq(S)
BY SMT

LEMMA OneItem ==
    ASSUME NEW S, NEW x \in S
    PROVE  <<x>> \in Seq(S) /\ <<x>> # <<>> /\ Len(<<x>>) = 1 /\ Head(<<x>>) = x
<1>1. Len(<<x>>) = 1 /\ <<x>> # <<>> /\ <<x>>[1] = x
  BY SMT
<1>2. <<x>> \in Seq(S)
  BY SMT
<1>3. Head(<<x>>) = <<x>>[1]
  BY <1>1, <1>2, SMT
<1> QED
  BY <1>1, <1>2, <1>3

\* What the client does between its reads is not visible in the stream.
LEMMA SameView ==
    ASSUME NEW k, NEW w, NEW s, Stream(k, w, s),
           NEW k2, k2.pc = k.pc, k2.got = k.got, k2.want = k.want, k2.result = k.result,
           NEW w2, w2.reply = w.reply
    PROVE  Stream(k2, w2, s)
BY DEF Stream, Asking, Whole

\* A client that returns without a value.
LEMMA GivesUp ==
    ASSUME NEW k, NEW w, NEW s, Stream(k, w, s),
           NEW k2, k2.pc = "done", k2.result # "bytes"
    PROVE  Stream(k2, w, s)
BY DEF Stream, Asking, Whole

LEMMA ReadsHeader ==
    ASSUME NEW k, NEW w \in Wire, NEW s \in Served, Stream(k, w, s), k.pc = "header", w.reply # <<>>,
           NEW k2, k2.pc = IF Head(w.reply).len > 0 THEN "payload" ELSE "trailing",
           k2.result = finish_header(Head(w.reply)), k2.got = k.got, k2.want = Head(w.reply).len,
           NEW w2, w2.reply = Tail(w.reply)
    PROVE  Stream(k2, w2, s)
<1>1. /\ w.reply \in Seq(Items) /\ Head(w.reply) \in Items /\ Len(Tail(w.reply)) = Len(w.reply) - 1
      /\ s.wrote \in Nat /\ s.len \in Nat /\ Len(w.reply) \in Nat
  <2>1. w.reply \in Seq(Items) /\ s.wrote \in Nat /\ s.len \in Nat
    BY DEF Wire, Served
  <2> QED
    BY <2>1, SeqFacts
<1>2. Answered(s) /\ k.got = 0 /\ Header(Head(w.reply), Len(w.reply) - 1, s)
      /\ s.wrote <= s.len /\ (s.at = "payload" => s.wrote < s.len)
  BY DEF Stream, Asking
<1>3. CASE Head(w.reply).kind = "bytes"
  <2>1. /\ k2.result = "bytes" /\ k2.got = 0 /\ k2.want = s.len /\ Len(w2.reply) = s.wrote
        /\ s.verdict \in Carried
    BY <1>1, <1>2, <1>3, HeaderOK DEF Header
  <2>2. CASE s.len > 0
    <3>1. k2.pc = "payload"
      BY <1>2, <1>3, <2>2 DEF Header
    <3>2. k2.got + Len(w2.reply) = s.wrote /\ k2.got < s.len
      BY <1>1, <2>1, <2>2, SMT
    <3> QED
      BY <1>2, <2>1, <3>1, <3>2 DEF Stream, Asking
  <2>3. CASE ~ (s.len > 0)
    <3>1. k2.pc = "trailing"
      BY <1>2, <1>3, <2>3 DEF Header
    <3>2. s.len = 0 /\ s.wrote = 0
      BY <1>1, <1>2, <2>3, SMT
    <3>3. Whole(k2, s)
      BY <2>1, <3>2 DEF Whole
    <3> QED
      BY <1>2, <3>1, <3>3 DEF Stream, Asking
  <2> QED
    BY <2>2, <2>3
<1>4. CASE Head(w.reply).kind # "bytes"
  <2>1. ~ (0 > 0)
    BY SMT
  <2>2. k2.pc = "trailing" /\ k2.result # "bytes"
    BY <1>1, <1>2, <1>4, <2>1, HeaderOK DEF Header
  <2> QED
    BY <1>2, <2>2 DEF Stream, Asking
<1> QED
  BY <1>3, <1>4

LEMMA ReadsByte ==
    ASSUME NEW k \in Client, NEW w \in Wire, NEW s \in Served, Stream(k, w, s), k.pc = "payload",
           w.reply # <<>>,
           NEW k2, k2.pc = IF k.got + 1 = k.want THEN "trailing" ELSE k.pc,
           k2.result = k.result, k2.got = k.got + 1, k2.want = k.want,
           NEW w2, w2.reply = Tail(w.reply)
    PROVE  Stream(k2, w2, s)
<1>1. /\ Len(Tail(w.reply)) = Len(w.reply) - 1 /\ Len(w.reply) \in Nat /\ Len(w.reply) >= 1
      /\ s.wrote \in Nat /\ k.got \in Nat /\ s.len \in Nat
  <2>1. w.reply \in Seq(Items) /\ s.wrote \in Nat /\ k.got \in Nat /\ s.len \in Nat
    BY DEF Wire, Served, Client
  <2> QED
    BY <2>1, SeqFacts
<1>2. /\ Answered(s) /\ k.result = "bytes" /\ k.want = s.len /\ k.got < s.len
      /\ k.got + Len(w.reply) = s.wrote
      /\ s.verdict \in Carried /\ s.wrote <= s.len /\ (s.at = "payload" => s.wrote < s.len)
  BY DEF Stream
<1>3. CASE k.got + 1 = s.len
  <2>1. k2.got = s.len /\ s.wrote = s.len
    BY <1>1, <1>2, <1>3, SMT
  <2>2. k2.pc = "trailing" /\ Whole(k2, s)
    BY <1>2, <1>3, <2>1 DEF Whole
  <2> QED
    BY <1>2, <2>2 DEF Stream, Asking
<1>4. CASE k.got + 1 # s.len
  <2>1. k2.got < s.len /\ k2.got + Len(w2.reply) = s.wrote
    BY <1>1, <1>2, <1>4, SMT
  <2>2. k2.pc = "payload"
    BY <1>2, <1>4
  <2> QED
    BY <1>2, <2>1, <2>2 DEF Stream, Asking
<1> QED
  BY <1>3, <1>4

\* The broker moves a connection it has not answered, and may turn it away.
LEMMA MovesOn ==
    ASSUME NEW k, NEW w, NEW s, Stream(k, w, s), k.pc # "idle", ~ Answered(s),
           NEW s2, s2.at # "payload", s2.wrote = s.wrote, s2.len = s.len,
           NEW w2, w2.reply = <<>> \/ (/\ s2.at \in {"reply", "gone"} /\ Len(w2.reply) = 1
                                       /\ Head(w2.reply).kind # "bytes" /\ Head(w2.reply).len = 0)
    PROVE  Stream(k, w2, s2)
<1>1. /\ s.wrote = 0 /\ k.pc \notin {"payload", "trailing"} /\ k.result # "bytes"
      /\ s.wrote <= s.len /\ (Asking(k) => k.got = 0)
  BY DEF Stream
<1>2. w2.reply # <<>> => Header(Head(w2.reply), Len(w2.reply) - 1, s2)
  <2>1. 1 - 1 = 0
    BY SMT
  <2> QED
    BY <2>1 DEF Header
<1> QED
  BY <1>1, <1>2 DEF Stream, Answered

\* The broker answers: a header that says how many bytes follow it.
LEMMA Answers ==
    ASSUME NEW k, NEW w, NEW s, Stream(k, w, s), k.pc # "idle", ~ Answered(s),
           NEW h \in Items, h.kind = "bytes" => s.verdict \in Carried, h.kind # "bytes" => h.len = 0,
           NEW s2, s2.at = IF h.len > 0 THEN "payload" ELSE "reply", s2.len = h.len,
           s2.wrote = s.wrote, s2.verdict = s.verdict,
           NEW w2, w2.reply # <<>>, Len(w2.reply) = 1, Head(w2.reply) = h
    PROVE  Stream(k, w2, s2)
<1>1. /\ s.wrote = 0 /\ k.pc \notin {"payload", "trailing"} /\ k.result # "bytes"
      /\ (Asking(k) => k.got = 0)
  BY DEF Stream
<1>2. s2.wrote <= s2.len /\ (h.len > 0 => s2.wrote < s2.len)
  <2>1. h.len \in Nat
    BY DEF Items
  <2> QED
    BY <1>1, <2>1, SMT
<1>3. Header(Head(w2.reply), Len(w2.reply) - 1, s2)
  <2>1. 1 - 1 = 0
    BY SMT
  <2> QED
    BY <1>1, <2>1 DEF Header
<1>4. h.len > 0 => h.kind = "bytes"
  <2>1. ~ (0 > 0)
    BY SMT
  <2> QED
    BY <2>1
<1> QED
  BY <1>1, <1>2, <1>3, <1>4 DEF Stream, Answered

LEMMA WritesByte ==
    ASSUME NEW k \in Client, NEW w \in Wire, NEW s \in Served, Stream(k, w, s), s.at = "payload",
           NEW s2, s2.wrote = s.wrote + 1, s2.verdict = s.verdict, s2.len = s.len,
           s2.at = IF s.wrote + 1 = s.len THEN "reply" ELSE s.at,
           NEW m \in Items, NEW w2, w2.reply = Append(w.reply, m)
    PROVE  Stream(k, w2, s2)
<1>1. /\ w.reply \in Seq(Items) /\ Len(w.reply) \in Nat /\ Len(w2.reply) = Len(w.reply) + 1
      /\ w2.reply # <<>> /\ (w.reply # <<>> => Head(w2.reply) = Head(w.reply))
      /\ s.wrote \in Nat /\ k.got \in Nat /\ s.len \in Nat
  <2>1. w.reply \in Seq(Items) /\ s.wrote \in Nat /\ k.got \in Nat /\ s.len \in Nat
    BY DEF Wire, Served, Client
  <2>2. /\ Len(w.reply) \in Nat /\ Len(Append(w.reply, m)) = Len(w.reply) + 1
        /\ Append(w.reply, m) # <<>>
        /\ w.reply # <<>> => Head(Append(w.reply, m)) = Head(w.reply)
    BY <2>1, SeqFacts, SMT
  <2> QED
    BY <2>1, <2>2
<1>2. /\ s.wrote < s.len /\ k.pc # "idle" /\ s2.at \in {"reply", "payload"}
      /\ Asking(k) => /\ w.reply # <<>> /\ Head(w.reply).kind = "bytes" /\ k.got = 0
                      /\ k.result # "bytes" /\ Header(Head(w.reply), Len(w.reply) - 1, s)
  BY DEF Stream
<1>3. s2.wrote <= s2.len /\ (s2.at = "payload" => s2.wrote < s2.len)
  BY <1>1, <1>2, SMT
<1>4. ~ (k.pc \in {"trailing", "done"} /\ k.result = "bytes")
  <2>1. s.wrote # s.len
    BY <1>1, <1>2, SMT
  <2> QED
    BY <2>1 DEF Stream, Whole
<1>5. k.pc = "payload" => /\ k.result = "bytes" /\ k.want = s2.len /\ k.got < s2.len
                          /\ k.got + Len(w2.reply) = s2.wrote /\ s2.verdict \in Carried
  <2>1. k.pc = "payload" => /\ k.result = "bytes" /\ k.want = s.len /\ k.got < s.len
                            /\ k.got + Len(w.reply) = s.wrote /\ s.verdict \in Carried
    BY DEF Stream
  <2>2. k.pc = "payload" => k.got + Len(w2.reply) = s2.wrote
    BY <1>1, <2>1, SMT
  <2> QED
    BY <2>1, <2>2
<1>6. Asking(k) => Header(Head(w2.reply), Len(w2.reply) - 1, s2)
  <2>1. Asking(k) => /\ Len(w.reply) - 1 = s.wrote /\ s.verdict \in Carried
                     /\ Head(w.reply).len = s.len
    BY <1>2 DEF Header
  <2>2. Asking(k) => Len(w2.reply) - 1 = s2.wrote
    BY <1>1, <2>1, SMT
  <2> QED
    BY <1>1, <1>2, <2>1, <2>2 DEF Header
<1> QED
  BY <1>1, <1>2, <1>3, <1>4, <1>5, <1>6 DEF Stream, Answered

\* The broker's end closes: what it wrote stays readable.
LEMMA Closes ==
    ASSUME NEW k, NEW w, NEW s, Stream(k, w, s), s.at # "none",
           NEW s2, s2.at = "gone", s2.wrote = s.wrote, s2.verdict = s.verdict, s2.len = s.len,
           NEW w2, w2.reply = w.reply
    PROVE  Stream(k, w2, s2)
BY DEF Stream, Answered, Header, Whole

-----------------------------------------------------------------------------
(***************************************************************************)
(* The steps of the system.                                                *)
(***************************************************************************)
WireInv == WireTypeOK /\ Places /\ Streams

\* A step about one connection.
LEMMA OneStream ==
    ASSUME Streams, NEW c \in Clients, Others(c), Stream(client'[c], wire'[c], server'[c])
    PROVE  Streams'
BY DEF Streams, Others

\* The queues are as they were, and so is the place of every connection.
LEMMA SamePlaces ==
    ASSUME Places, UNCHANGED <<lane, backlog>>,
           \A c \in Clients : server[c].at \in {"backlog", "queue"} => server'[c] = server[c],
           WireTypeOK
    PROVE  Places'
<1>1. Range(backlog) \subseteq Clients /\ \A l \in Lanes : Range(lane[l]) \subseteq Clients
  BY RangeOK DEF WireTypeOK
<1> QED
  BY <1>1, SMT DEF Places

\* A step of the client: only what it has read and its own state change.
LEMMA ClientInv ==
    ASSUME WireInv, NEW c \in Clients, client' \in [Clients -> Client], wire' \in [Clients -> Wire],
           \A d \in Clients : d # c => client'[d] = client[d] /\ wire'[d] = wire[d],
           UNCHANGED <<server, lane, backlog, up>>, Stream(client'[c], wire'[c], server[c])
    PROVE  WireInv'
<1>1. WireTypeOK'
  BY DEF WireInv, WireTypeOK
<1>2. Places'
  BY SMT DEF WireInv, Places
<1>3. Streams'
  BY OneStream DEF WireInv, Others
<1> QED
  BY <1>1, <1>2, <1>3 DEF WireInv

LEMMA ReturnInv ==
    ASSUME WireInv, NEW c \in Clients, NEW r \in Results, Return(c, r), r # "bytes",
           UNCHANGED <<wire, server, lane, backlog, up>>
    PROVE  WireInv'
<1>1. Stream(client[c], wire[c], server[c])
  BY DEF WireInv, Streams
<1>2. Stream(client'[c], wire[c], server[c])
  BY <1>1, ReturnOK, GivesUp DEF WireInv
<1> QED
  BY <1>2, ReturnOK, ClientInv DEF WireInv, WireTypeOK

LEMMA WriteRequestInv ==
    ASSUME WireInv, NEW c \in Clients, write_request(c)
    PROVE  WireInv'
<1>0. /\ client \in [Clients -> Client] /\ wire \in [Clients -> Wire]
      /\ client[c] \in Client /\ wire[c] \in Wire /\ Stream(client[c], wire[c], server[c])
      /\ client[c].pc = "write" /\ UNCHANGED <<server, lane, backlog, up>>
  BY DEF WireInv, WireTypeOK, Streams, write_request
<1>1. CASE UNCHANGED wire /\ (Return(c, "invalid request") \/ Return(c, "io"))
  BY <1>0, <1>1, ReturnInv DEF Results
<1>2. CASE wire' = [wire EXCEPT ![c].request = "part"] /\ UNCHANGED client
  <2>1. [wire[c] EXCEPT !.request = "part"] \in Wire
        /\ [wire[c] EXCEPT !.request = "part"].reply = wire[c].reply
    BY <1>0 DEF Wire
  <2>2. /\ wire' \in [Clients -> Wire] /\ wire'[c].reply = wire[c].reply
        /\ \A d \in Clients : d # c => wire'[d] = wire[d]
    BY <1>0, <1>2, <2>1
  <2>3. Stream(client'[c], wire'[c], server[c])
    BY <1>0, <1>2, <2>2, SameView
  <2> QED
    BY <1>0, <1>2, <2>2, <2>3, ClientInv
<1>3. CASE /\ wire' = [wire EXCEPT ![c].request = "line"]
           /\ client' = [client EXCEPT ![c].pc = "header"]
  <2>1. /\ [wire[c] EXCEPT !.request = "line"] \in Wire
        /\ [wire[c] EXCEPT !.request = "line"].reply = wire[c].reply
        /\ [client[c] EXCEPT !.pc = "header"] \in Client
        /\ [client[c] EXCEPT !.pc = "header"].pc = "header"
        /\ [client[c] EXCEPT !.pc = "header"].got = client[c].got
        /\ [client[c] EXCEPT !.pc = "header"].result = client[c].result
    BY <1>0 DEF Wire, Client
  <2>2. /\ wire' \in [Clients -> Wire] /\ wire'[c].reply = wire[c].reply
        /\ client' \in [Clients -> Client] /\ client'[c].pc = "header"
        /\ client'[c].got = client[c].got /\ client'[c].result = client[c].result
        /\ \A d \in Clients : d # c => client'[d] = client[d] /\ wire'[d] = wire[d]
    BY <1>0, <1>3, <2>1
  <2>3. Stream(client'[c], wire'[c], server[c])
    BY <1>0, <2>2 DEF Stream, Asking
  <2> QED
    BY <1>0, <2>2, <2>3, ClientInv
<1> QED
  BY <1>1, <1>2, <1>3 DEF write_request

LEMMA ReadHeaderInv ==
    ASSUME WireInv, NEW c \in Clients, read_header_line(c)
    PROVE  WireInv'
<1>0. /\ client \in [Clients -> Client] /\ wire \in [Clients -> Wire] /\ server[c] \in Served
      /\ client[c] \in Client /\ wire[c] \in Wire /\ Stream(client[c], wire[c], server[c])
      /\ client[c].pc = "header" /\ UNCHANGED <<server, lane, backlog, up>>
  BY DEF WireInv, WireTypeOK, Streams, read_header_line
<1>1. CASE UNCHANGED wire /\ (Return(c, "invalid response") \/ TimedOut(c))
  BY <1>0, <1>1, ReturnInv, TimedOutOK DEF Results
<1>2. CASE ~ (UNCHANGED wire /\ (Return(c, "invalid response") \/ TimedOut(c)))
  <2> DEFINE h == Head(wire[c].reply)
             left == Timeout(client[c].frame) - client[c].spent
             k == [client[c] EXCEPT !.pc = IF h.len > 0 THEN "payload" ELSE "trailing",
                                    !.result = finish_header(h), !.want = h.len, !.per = left, !.wait = left]
             w == [wire[c] EXCEPT !.reply = Tail(wire[c].reply)]
  <2>1. /\ wire[c].reply # <<>> /\ client' = [client EXCEPT ![c] = k]
        /\ wire' = [wire EXCEPT ![c] = w]
    BY <1>0, <1>2 DEF read_header_line
  <2>2. h \in Items /\ finish_header(h) \in Results /\ Tail(wire[c].reply) \in Seq(Items) /\ h.len \in Nat
    <3>1. wire[c].reply \in Seq(Items)
      BY <1>0 DEF Wire
    <3>2. h \in Items /\ Tail(wire[c].reply) \in Seq(Items)
      BY <2>1, <3>1, SMT
    <3> QED
      BY <3>2, HeaderOK DEF Items
  <2>3. left \in Int
    <3>1. Timeout(client[c].frame) \in Nat /\ client[c].spent \in Nat
      BY <1>0, WireConstants DEF Timeout, Client
    <3> QED
      BY <3>1, SMT
  <2>4. w \in Wire /\ w.reply = Tail(wire[c].reply)
    BY <1>0, <2>2 DEF Wire
  <2> HIDE DEF left
  <2>5. /\ k \in Client /\ k.pc = (IF h.len > 0 THEN "payload" ELSE "trailing") /\ k.want = h.len
        /\ k.result = finish_header(h) /\ k.got = client[c].got
    BY <1>0, <2>2, <2>3 DEF Client
  <2> HIDE DEF k, w
  <2>6. /\ client' \in [Clients -> Client] /\ wire' \in [Clients -> Wire]
        /\ client'[c] = k /\ wire'[c] = w
        /\ \A d \in Clients : d # c => client'[d] = client[d] /\ wire'[d] = wire[d]
    BY <1>0, <2>1, <2>4, <2>5
  <2>7. Stream(k, w, server[c])
    BY <1>0, <2>1, <2>4, <2>5, ReadsHeader
  <2> QED
    BY <1>0, <2>6, <2>7, ClientInv
<1> QED
  BY <1>1, <1>2

LEMMA ReadPayloadInv ==
    ASSUME WireInv, NEW c \in Clients, read_payload(c)
    PROVE  WireInv'
<1>0. /\ client \in [Clients -> Client] /\ wire \in [Clients -> Wire] /\ server[c] \in Served
      /\ client[c] \in Client /\ wire[c] \in Wire /\ Stream(client[c], wire[c], server[c])
      /\ client[c].pc = "payload" /\ UNCHANGED <<server, lane, backlog, up>>
  BY DEF WireInv, WireTypeOK, Streams, read_payload
<1>1. CASE UNCHANGED wire /\ (Return(c, "invalid response") \/ TimedOut(c))
  BY <1>0, <1>1, ReturnInv, TimedOutOK DEF Results
<1>2. CASE ~ (UNCHANGED wire /\ (Return(c, "invalid response") \/ TimedOut(c)))
  <2> DEFINE k == [client[c] EXCEPT !.got = client[c].got + 1, !.wait = client[c].per,
                                    !.pc = IF client[c].got + 1 = client[c].want THEN "trailing" ELSE @]
             w == [wire[c] EXCEPT !.reply = Tail(wire[c].reply)]
  <2>1. /\ wire[c].reply # <<>> /\ client' = [client EXCEPT ![c] = k]
        /\ wire' = [wire EXCEPT ![c] = w]
    BY <1>0, <1>2 DEF read_payload
  <2>2. Tail(wire[c].reply) \in Seq(Items)
    <3>1. wire[c].reply \in Seq(Items)
      BY <1>0 DEF Wire
    <3> QED
      BY <2>1, <3>1, SMT
  <2>3. client[c].got + 1 \in Nat
    <3>1. client[c].got \in Nat
      BY <1>0 DEF Client
    <3> QED
      BY <3>1, SMT
  <2>4. w \in Wire /\ w.reply = Tail(wire[c].reply)
    BY <1>0, <2>2 DEF Wire
  <2>5. /\ k \in Client /\ k.pc = (IF client[c].got + 1 = client[c].want THEN "trailing" ELSE client[c].pc)
        /\ k.want = client[c].want /\ k.result = client[c].result /\ k.got = client[c].got + 1
    BY <1>0, <2>3 DEF Client
  <2> HIDE DEF k, w
  <2>6. /\ client' \in [Clients -> Client] /\ wire' \in [Clients -> Wire]
        /\ client'[c] = k /\ wire'[c] = w
        /\ \A d \in Clients : d # c => client'[d] = client[d] /\ wire'[d] = wire[d]
    BY <1>0, <2>1, <2>4, <2>5
  <2>7. Stream(k, w, server[c])
    BY <1>0, <2>1, <2>4, <2>5, ReadsByte
  <2> QED
    BY <1>0, <2>6, <2>7, ClientInv
<1> QED
  BY <1>1, <1>2

LEMMA TrailingInv ==
    ASSUME WireInv, NEW c \in Clients, reject_trailing_bytes(c)
    PROVE  WireInv'
<1>0. /\ wire \in [Clients -> Wire]
      /\ client[c] \in Client /\ Stream(client[c], wire[c], server[c])
      /\ client[c].pc = "trailing" /\ UNCHANGED <<wire, server, lane, backlog, up>>
  BY DEF WireInv, WireTypeOK, Streams, reject_trailing_bytes
<1>1. CASE TimedOut(c)
  BY <1>0, <1>1, ReturnInv, TimedOutOK
<1>2. CASE Return(c, client[c].result)
  <2>1. client[c].result \in Results
    BY <1>0 DEF Client
  <2>2. /\ client' \in [Clients -> Client] /\ client'[c].pc = "done"
        /\ client'[c].result = client[c].result /\ client'[c].got = client[c].got
        /\ \A d \in Clients : d # c => client'[d] = client[d]
    BY <1>2, <2>1, ReturnOK DEF WireInv
  <2>3. Stream(client'[c], wire[c], server[c])
    BY <1>0, <2>2 DEF Stream, Asking, Whole
  <2> QED
    BY <1>0, <2>2, <2>3, ClientInv
<1> QED
  BY <1>1, <1>2 DEF reject_trailing_bytes

LEMMA TickInv ==
    ASSUME WireInv, Tick
    PROVE  WireInv'
<1>0. client \in [Clients -> Client] /\ UNCHANGED <<wire, server, lane, backlog, up>>
  BY DEF WireInv, WireTypeOK, Tick
<1>1. ASSUME NEW c \in Clients
      PROVE  /\ client'[c] \in Client /\ client'[c].pc = client[c].pc
             /\ client'[c].got = client[c].got /\ client'[c].want = client[c].want
             /\ client'[c].result = client[c].result
  <2> DEFINE a == IF Expired(c) /\ client[c].pc = "header" THEN client[c].spent ELSE client[c].spent + 1
             b == IF client[c].pc = "header" THEN client[c].wait ELSE client[c].wait - 1
             k == [client[c] EXCEPT !.spent = a, !.wait = b]
  <2>1. client[c] \in Client /\ client[c].spent \in Nat /\ client[c].wait \in Int
    BY <1>0 DEF Client
  <2>2. client'[c] = client[c] \/ client'[c] = k
    BY DEF Tick
  <2>3. a \in Nat /\ b \in Int
    <3>1. client[c].spent + 1 \in Nat /\ client[c].wait - 1 \in Int
      BY <2>1, SMT
    <3> QED
      BY <2>1, <3>1
  <2> HIDE DEF a, b
  <2>4. /\ k \in Client /\ k.pc = client[c].pc /\ k.got = client[c].got /\ k.want = client[c].want
        /\ k.result = client[c].result
    BY <2>1, <2>3 DEF Client
  <2> QED
    BY <2>1, <2>2, <2>4
<1>2. client' \in [Clients -> Client]
  <2>1. DOMAIN client' = Clients /\ client' = [c \in Clients |-> client'[c]]
    BY DEF Tick
  <2> QED
    BY <1>1, <2>1
<1>3. WireTypeOK' /\ Places'
  BY <1>0, <1>2 DEF WireInv, WireTypeOK, Places
<1>4. ASSUME NEW c \in Clients PROVE Stream(client'[c], wire'[c], server'[c])
  <2>1. Stream(client[c], wire[c], server[c])
    BY DEF WireInv, Streams
  <2> QED
    BY <1>0, <1>1, <2>1, SameView
<1> QED
  BY <1>3, <1>4 DEF WireInv, Streams

-----------------------------------------------------------------------------
\* A step of the broker about one connection.
LEMMA ServerInv ==
    ASSUME WireInv, NEW c \in Clients, NEW w \in Wire, NEW s \in Served,
           wire' = [wire EXCEPT ![c] = w], server' = [server EXCEPT ![c] = s], UNCHANGED <<client, up>>,
           Stream(client[c], w, s), Places', lane' \in [Lanes -> Seq(Clients)], backlog' \in Seq(Clients)
    PROVE  WireInv'
<1>1. /\ wire'[c] = w /\ server'[c] = s
      /\ wire' \in [Clients -> Wire] /\ server' \in [Clients -> Served] /\ Others(c)
  BY DEF WireInv, WireTypeOK, Others
<1>2. WireTypeOK'
  BY <1>1 DEF WireInv, WireTypeOK
<1>3. Streams'
  BY <1>1, OneStream DEF WireInv
<1> QED
  BY <1>2, <1>3 DEF WireInv

\* The connection is with a worker, or served, and stays out of the queues.
LEMMA WorkerInv ==
    ASSUME WireInv, NEW c \in Clients, NEW w \in Wire, NEW s \in Served,
           wire' = [wire EXCEPT ![c] = w], server' = [server EXCEPT ![c] = s],
           server[c].at \notin {"backlog", "queue"}, UNCHANGED <<client, lane, backlog, up>>,
           Stream(client[c], w, s)
    PROVE  WireInv'
<1>1. \A d \in Clients : server[d].at \in {"backlog", "queue"} => server'[d] = server[d]
  BY DEF WireInv, WireTypeOK
<1>2. Places'
  BY <1>1, SamePlaces DEF WireInv
<1>3. lane' \in [Lanes -> Seq(Clients)] /\ backlog' \in Seq(Clients)
  BY DEF WireInv, WireTypeOK
<1> QED
  BY <1>2, <1>3, ServerInv

LEMMA ReadFrameInv ==
    ASSUME WireInv, NEW c \in Clients, read_frame(c)
    PROVE  WireInv'
<1>0. /\ client[c] \in Client /\ wire[c] \in Wire /\ server[c] \in Served
      /\ wire \in [Clients -> Wire] /\ server \in [Clients -> Served]
      /\ Stream(client[c], wire[c], server[c]) /\ server[c].at = "read"
      /\ UNCHANGED <<client, lane, backlog, up>>
  BY DEF WireInv, WireTypeOK, Streams, read_frame
<1>1. client[c].pc # "idle" /\ ~ Answered(server[c]) /\ wire[c].reply = <<>>
  BY <1>0 DEF Stream, Answered
<1>2. CASE /\ server' = [server EXCEPT ![c].at = "run", ![c].verdict = parse_request(client[c].frame)]
           /\ UNCHANGED wire
  <2> DEFINE s == [server[c] EXCEPT !.at = "run", !.verdict = parse_request(client[c].frame)]
  <2>1. parse_request(client[c].frame) \in Verdicts
    BY <1>0, ParseOK DEF Client
  <2>2. s \in Served /\ s.at = "run" /\ s.wrote = server[c].wrote /\ s.len = server[c].len
    BY <1>0, <2>1 DEF Served
  <2>3. server' = [server EXCEPT ![c] = s] /\ wire' = [wire EXCEPT ![c] = wire[c]]
    BY <1>0, <1>2
  <2> HIDE DEF s
  <2>4. Stream(client[c], wire[c], s)
    BY <1>0, <1>1, <2>2, MovesOn
  <2> QED
    BY <1>0, <2>2, <2>3, <2>4, WorkerInv
<1>3. CASE Close(c)
  <2> DEFINE s == [server[c] EXCEPT !.at = "gone"]
             w == [wire[c] EXCEPT !.closed = TRUE]
  <2>1. /\ s \in Served /\ s.at = "gone" /\ s.wrote = server[c].wrote /\ s.len = server[c].len
        /\ w \in Wire /\ w.reply = wire[c].reply
    BY <1>0 DEF Served, Wire
  <2>2. server' = [server EXCEPT ![c] = s] /\ wire' = [wire EXCEPT ![c] = w]
    BY <1>0, <1>3 DEF Close
  <2> HIDE DEF s, w
  <2>3. Stream(client[c], w, s)
    BY <1>0, <1>1, <2>1, MovesOn
  <2> QED
    BY <1>0, <2>1, <2>2, <2>3, WorkerInv
<1> QED
  BY <1>2, <1>3 DEF read_frame

\* An answer: only that of a GET or of GRANTS is a payload.
LEMMA ReplyInv ==
    ASSUME WireInv, NEW c \in Clients, server[c].at = "run", UNCHANGED <<client, lane, backlog, up>>,
           NEW kind \in {"err", "ok", "fields", "bytes"}, NEW code \in ErrCodes \cup {""}, NEW n \in Nat,
           kind = "bytes" => server[c].verdict \in Carried, kind # "bytes" => n = 0, Reply(c, kind, code, n)
    PROVE  WireInv'
<1> DEFINE m == Item(kind, code, n)
           w == [wire[c] EXCEPT !.reply = <<m>>]
           s == [server[c] EXCEPT !.at = IF n > 0 THEN "payload" ELSE "reply", !.len = n]
<1>0. /\ wire[c] \in Wire /\ server[c] \in Served /\ Stream(client[c], wire[c], server[c])
      /\ wire \in [Clients -> Wire] /\ server \in [Clients -> Served]
  BY DEF WireInv, WireTypeOK, Streams
<1>1. client[c].pc # "idle" /\ ~ Answered(server[c])
  BY <1>0 DEF Stream, Answered
<1>2. m \in Items /\ m.kind = kind /\ m.len = n
  BY DEF Items, Item
<1>3. server' = [server EXCEPT ![c] = s] /\ wire' = [wire EXCEPT ![c] = w]
  BY <1>0 DEF Reply
<1> HIDE DEF m
<1>4. <<m>> \in Seq(Items) /\ <<m>> # <<>> /\ Len(<<m>>) = 1 /\ Head(<<m>>) = m
  BY <1>2, OneItem
<1>5. /\ w \in Wire /\ w.reply = <<m>>
      /\ s \in Served /\ s.at = (IF n > 0 THEN "payload" ELSE "reply") /\ s.len = n
      /\ s.wrote = server[c].wrote /\ s.verdict = server[c].verdict
  BY <1>0, <1>4 DEF Wire, Served
<1> HIDE DEF w, s
<1>6. Stream(client[c], w, s)
  BY <1>0, <1>1, <1>2, <1>4, <1>5, Answers
<1> QED
  BY <1>3, <1>5, <1>6, WorkerInv

LEMMA DispatchInv ==
    ASSUME WireInv, NEW c \in Clients, dispatch(c) \/ decide(c)
    PROVE  WireInv'
<1>0. server[c].at = "run" /\ UNCHANGED <<client, lane, backlog, up>>
  BY DEF dispatch, decide
<1>1. CASE server' = [server EXCEPT ![c].at = "held"] /\ UNCHANGED wire
  <2> DEFINE s == [server[c] EXCEPT !.at = "held"]
  <2>0. /\ wire[c] \in Wire /\ server[c] \in Served /\ Stream(client[c], wire[c], server[c])
        /\ wire \in [Clients -> Wire] /\ server \in [Clients -> Served]
    BY DEF WireInv, WireTypeOK, Streams
  <2>1. client[c].pc # "idle" /\ ~ Answered(server[c]) /\ wire[c].reply = <<>>
    BY <1>0, <2>0 DEF Stream, Answered
  <2>2. s \in Served /\ s.at = "held" /\ s.wrote = server[c].wrote /\ s.len = server[c].len
    BY <2>0 DEF Served
  <2>3. server' = [server EXCEPT ![c] = s] /\ wire' = [wire EXCEPT ![c] = wire[c]]
    BY <2>0, <1>1
  <2> HIDE DEF s
  <2>4. Stream(client[c], wire[c], s)
    BY <2>0, <2>1, <2>2, MovesOn
  <2> QED
    BY <1>0, <2>0, <2>2, <2>3, <2>4, WorkerInv
<1>2. CASE Ok(c) \/ Fields(c) \/ \E code \in ErrCodes : Failed(c, code)
  <2>1. ASSUME NEW kind \in {"err", "ok", "fields"}, NEW code \in ErrCodes \cup {""},
               Reply(c, kind, code, 0)
        PROVE  WireInv'
    <3>1. kind \in {"err", "ok", "fields", "bytes"} /\ kind # "bytes"
      OBVIOUS
    <3> QED
      BY <1>0, <2>1, <3>1, ZeroIsNat, ReplyInv
  <2>2. CASE Ok(c)
    BY <2>1, <2>2 DEF Ok
  <2>3. CASE Fields(c)
    BY <2>1, <2>3 DEF Fields
  <2>4. ASSUME NEW code \in ErrCodes, Failed(c, code) PROVE WireInv'
    BY <2>1, <2>4 DEF Failed
  <2> QED
    BY <1>2, <2>2, <2>3, <2>4
<1>3. CASE Payload(c) /\ server[c].verdict \in Carried
  <2>1. PICK n \in Nat : Reply(c, "bytes", "", n)
    BY <1>3, WireConstants DEF Payload
  <2> QED
    BY <1>0, <1>3, <2>1, ReplyInv
<1>4. {"VERSION_MISMATCH", "BAD_REQUEST", "DENIED"} \subseteq ErrCodes
  BY DEF ErrCodes
<1> QED
  BY <1>1, <1>2, <1>3, <1>4 DEF dispatch, decide, Carried

LEMMA WriteReplyInv ==
    ASSUME WireInv, NEW c \in Clients, write_reply(c)
    PROVE  WireInv'
<1>0. /\ client[c] \in Client /\ wire[c] \in Wire /\ server[c] \in Served
      /\ wire \in [Clients -> Wire] /\ server \in [Clients -> Served]
      /\ Stream(client[c], wire[c], server[c]) /\ server[c].at \in {"reply", "payload"}
      /\ UNCHANGED <<client, lane, backlog, up>>
  BY DEF WireInv, WireTypeOK, Streams, write_reply
<1>1. CASE Close(c)
  <2> DEFINE s == [server[c] EXCEPT !.at = "gone"]
             w == [wire[c] EXCEPT !.closed = TRUE]
  <2>1. /\ s \in Served /\ s.at = "gone" /\ s.wrote = server[c].wrote /\ s.len = server[c].len /\ s.verdict = server[c].verdict
        /\ w \in Wire /\ w.reply = wire[c].reply
    BY <1>0 DEF Served, Wire
  <2>2. server' = [server EXCEPT ![c] = s] /\ wire' = [wire EXCEPT ![c] = w]
    BY <1>0, <1>1 DEF Close
  <2> HIDE DEF s, w
  <2>3. Stream(client[c], w, s)
    BY <1>0, <2>1, Closes
  <2> QED
    BY <1>0, <2>1, <2>2, <2>3, WorkerInv
<1>2. CASE ~ Close(c)
  <2> DEFINE m == Item("byte", "", 0)
             w == [wire[c] EXCEPT !.reply = Append(wire[c].reply, m)]
             s == [server[c] EXCEPT !.wrote = server[c].wrote + 1,
                                    !.at = IF server[c].wrote + 1 = server[c].len THEN "reply" ELSE @]
  <2>1. /\ server[c].at = "payload" /\ wire' = [wire EXCEPT ![c] = w]
        /\ server' = [server EXCEPT ![c] = s]
    BY <1>0, <1>2 DEF write_reply
  <2>2. m \in Items
    BY ZeroIsNat DEF Items, Item
  <2> HIDE DEF m
  <2>3. Append(wire[c].reply, m) \in Seq(Items) /\ server[c].wrote + 1 \in Nat
    <3>1. wire[c].reply \in Seq(Items) /\ server[c].wrote \in Nat
      BY <1>0 DEF Wire, Served
    <3> QED
      BY <2>2, <3>1, SMT
  <2>4. /\ w \in Wire /\ w.reply = Append(wire[c].reply, m)
        /\ s \in Served /\ s.wrote = server[c].wrote + 1 /\ s.verdict = server[c].verdict
        /\ s.len = server[c].len
        /\ s.at = IF server[c].wrote + 1 = server[c].len THEN "reply" ELSE server[c].at
    BY <1>0, <2>3 DEF Wire, Served
  <2> HIDE DEF w, s
  <2>5. Stream(client[c], w, s)
    BY <1>0, <2>1, <2>2, <2>4, WritesByte
  <2> QED
    BY <1>0, <2>1, <2>4, <2>5, WorkerInv
<1> QED
  BY <1>1, <1>2

-----------------------------------------------------------------------------
(***************************************************************************)
(* The steps that move a connection between the queues.                    *)
(***************************************************************************)
LEMMA ConnectInv ==
    ASSUME WireInv, NEW c \in Clients, connect(c)
    PROVE  WireInv'
<1>0. /\ client \in [Clients -> Client] /\ wire \in [Clients -> Wire] /\ server \in [Clients -> Served]
      /\ client[c] \in Client /\ server[c] \in Served
      /\ lane \in [Lanes -> Seq(Clients)] /\ backlog \in Seq(Clients) /\ up \in BOOLEAN
      /\ Stream(client[c], wire[c], server[c]) /\ client[c].pc = "idle" /\ UNCHANGED <<wire, lane, up>>
  BY DEF WireInv, WireTypeOK, Streams, connect
<1>1. CASE Return(c, "io") /\ UNCHANGED <<backlog, server>>
  BY <1>0, <1>1, ReturnInv DEF Results
<1>2. CASE ~ (Return(c, "io") /\ UNCHANGED <<backlog, server>>)
  <2>1. PICK f \in Frames[c] : /\ client' = [client EXCEPT ![c].pc = "write", ![c].frame = f]
                               /\ backlog' = Append(backlog, c)
                               /\ server' = [server EXCEPT ![c].at = "backlog"]
    BY <1>0, <1>2 DEF connect
  <2>2. f \in Frame
    <3>1. f \in [op : STRING, fields : Seq(STRING \X STRING), bytes : Nat]
      BY WireConstants
    <3> QED
      BY <3>1, ZenonT(30) DEF Frame
  <2> DEFINE k == [client[c] EXCEPT !.pc = "write", !.frame = f]
             s == [server[c] EXCEPT !.at = "backlog"]
  <2>3. /\ k \in Client /\ k.pc = "write" /\ k.got = client[c].got /\ k.result = client[c].result
        /\ s \in Served /\ s.at = "backlog" /\ s.wrote = server[c].wrote /\ s.len = server[c].len
    BY <1>0, <2>2 DEF Client, Served
  <2>4. client' = [client EXCEPT ![c] = k] /\ server' = [server EXCEPT ![c] = s]
    BY <1>0, <2>1
  <2> HIDE DEF k, s
  <2>5. /\ client'[c] = k /\ server'[c] = s /\ Others(c)
        /\ client' \in [Clients -> Client] /\ server' \in [Clients -> Served]
    BY <1>0, <2>3, <2>4 DEF Others
  <2>6. server[c].at = "none"
    BY <1>0 DEF Stream
  <2>7. c \notin Range(backlog) /\ \A l \in Lanes : c \notin Range(lane[l])
    BY <2>6 DEF WireInv, Places
  <2>8. /\ backlog' \in Seq(Clients) /\ Range(backlog') = Range(backlog) \cup {c}
        /\ IsInjective(backlog')
    BY <1>0, <2>1, <2>7, QueueGrows DEF WireInv, Places
  <2>9. Range(backlog) \subseteq Clients /\ \A l \in Lanes : Range(lane[l]) \subseteq Clients
    BY <1>0, RangeOK
  <2>10. Places'
    <3>0. \A d \in Clients : d # c => server'[d] = server[d]
      BY <2>5 DEF Others
    <3>1. ASSUME NEW d \in Range(backlog') PROVE server'[d].at = "backlog"
      <4>1. CASE d = c
        BY <2>3, <2>5, <4>1
      <4>2. CASE d # c
        <5>1. d \in Range(backlog) /\ d \in Clients
          BY <2>8, <2>9, <4>2
        <5> QED
          BY <3>0, <4>2, <5>1 DEF WireInv, Places
      <4> QED
        BY <4>1, <4>2
    <3>2. ASSUME NEW l \in Lanes
          PROVE  /\ IsInjective(lane[l])
                 /\ \A d \in Range(lane[l]) : server'[d].at = "queue" /\ server'[d].lane = l
      <4>1. ASSUME NEW d \in Range(lane[l]) PROVE d \in Clients /\ d # c
        BY <2>7, <2>9
      <4> QED
        BY <3>0, <4>1, SMT DEF WireInv, Places
    <3> QED
      BY <1>0, <2>8, <3>1, <3>2 DEF Places
  <2>11. Stream(k, wire[c], s)
    BY <1>0, <2>3, <2>6 DEF Stream, Answered, Asking
  <2>12. Streams'
    BY <1>0, <2>5, <2>11, OneStream DEF WireInv
  <2>13. WireTypeOK'
    BY <1>0, <2>5, <2>8 DEF WireTypeOK
  <2> QED
    BY <2>10, <2>12, <2>13 DEF WireInv
<1> QED
  BY <1>1, <1>2

LEMMA TakeConnectionInv ==
    ASSUME WireInv, NEW l \in Lanes, take_connection(l)
    PROVE  WireInv'
<1>0. /\ lane[l] \in Seq(Clients) /\ lane[l] # <<>> /\ IsInjective(lane[l])
      /\ lane \in [Lanes -> Seq(Clients)] /\ server \in [Clients -> Served] /\ wire \in [Clients -> Wire]
      /\ backlog \in Seq(Clients) /\ UNCHANGED <<client, wire, backlog, up>>
  BY DEF WireInv, WireTypeOK, Places, take_connection
<1>1. PICK c \in Clients : c = Head(lane[l])
  BY <1>0, QueueShrinks
<1>2. /\ Tail(lane[l]) \in Seq(Clients) /\ IsInjective(Tail(lane[l]))
      /\ Range(Tail(lane[l])) \subseteq Range(lane[l]) \ {c} /\ c \in Range(lane[l])
  BY <1>0, <1>1, QueueShrinks
<1>3. server[c].at = "queue" /\ server[c].lane = l
  BY <1>2 DEF WireInv, Places
<1> DEFINE s == [server[c] EXCEPT !.at = "read"]
<1>4. s \in Served /\ s.at = "read" /\ s.wrote = server[c].wrote /\ s.len = server[c].len
  BY <1>0 DEF Served
<1>5. /\ server' = [server EXCEPT ![c] = s] /\ lane' = [lane EXCEPT ![l] = Tail(lane[l])]
      /\ wire' = [wire EXCEPT ![c] = wire[c]]
  BY <1>0, <1>1 DEF take_connection
<1> HIDE DEF s
<1>6. lane' \in [Lanes -> Seq(Clients)] /\ \A d \in Clients : d # c => server'[d] = server[d]
  BY <1>0, <1>2, <1>5
<1>7. Places'
  <2>1. c \notin Range(backlog) /\ \A j \in Lanes : j # l => c \notin Range(lane[j])
    BY <1>3 DEF WireInv, Places
  <2>2. \A j \in Lanes : /\ IsInjective(lane'[j]) /\ c \notin Range(lane'[j])
                         /\ Range(lane'[j]) \subseteq Range(lane[j])
    BY <1>0, <1>2, <1>5, <2>1, SMT DEF WireInv, Places
  <2>3. Range(backlog) \subseteq Clients /\ \A j \in Lanes : Range(lane[j]) \subseteq Clients
    BY <1>0, RangeOK
  <2>4. \A d \in Range(backlog) : server'[d].at = "backlog"
    BY <1>6, <2>1, <2>3 DEF WireInv, Places
  <2>5. ASSUME NEW j \in Lanes, NEW d \in Range(lane'[j])
        PROVE  server'[d].at = "queue" /\ server'[d].lane = j
    <3>1. d \in Range(lane[j]) /\ d # c /\ d \in Clients
      BY <2>2, <2>3
    <3>2. server[d].at = "queue" /\ server[d].lane = j
      BY <3>1 DEF WireInv, Places
    <3> QED
      BY <1>6, <3>1, <3>2
  <2>6. IsInjective(backlog)
    BY DEF WireInv, Places
  <2> QED
    BY <1>0, <2>2, <2>4, <2>5, <2>6 DEF Places
<1>8. Stream(client[c], wire[c], s)
  <2>1. Stream(client[c], wire[c], server[c])
    BY DEF WireInv, Streams
  <2>2. client[c].pc # "idle" /\ ~ Answered(server[c]) /\ wire[c].reply = <<>>
    BY <1>3, <2>1 DEF Stream, Answered
  <2> QED
    BY <1>4, <2>1, <2>2, MovesOn
<1> QED
  BY <1>0, <1>4, <1>5, <1>6, <1>7, <1>8, ServerInv

LEMMA ServeListenerInv ==
    ASSUME WireInv, serve_listener
    PROVE  WireInv'
<1>0. /\ backlog \in Seq(Clients) /\ backlog # <<>> /\ IsInjective(backlog)
      /\ lane \in [Lanes -> Seq(Clients)] /\ server \in [Clients -> Served] /\ wire \in [Clients -> Wire]
      /\ backlog' = Tail(backlog) /\ UNCHANGED <<client, up>>
  BY DEF WireInv, WireTypeOK, Places, serve_listener
<1>1. PICK c \in Clients : c = Head(backlog)
  BY <1>0, QueueShrinks
<1>2. /\ backlog' \in Seq(Clients) /\ IsInjective(backlog')
      /\ Range(backlog') \subseteq Range(backlog) \ {c} /\ c \in Range(backlog)
  BY <1>0, <1>1, QueueShrinks
<1>3. server[c].at = "backlog" /\ \A j \in Lanes : c \notin Range(lane[j])
  BY <1>2 DEF WireInv, Places
<1>4. Stream(client[c], wire[c], server[c])
  BY DEF WireInv, Streams
<1>5. client[c].pc # "idle" /\ ~ Answered(server[c]) /\ wire[c].reply = <<>>
  BY <1>3, <1>4 DEF Stream, Answered
<1>6. ASSUME \A d \in Clients : d # c => server'[d] = server[d]
      PROVE  \A d \in Range(backlog') : server'[d].at = "backlog"
  <2>1. ASSUME NEW d \in Range(backlog') PROVE d \in Range(backlog) /\ d # c /\ d \in Clients
    BY <1>0, <1>2, RangeOK
  <2>2. \A d \in Range(backlog) : server[d].at = "backlog"
    BY DEF WireInv, Places
  <2> QED
    BY <1>6, <2>1, <2>2
<1>7. ASSUME \A d \in Clients : d # c => server'[d] = server[d], NEW j \in Lanes, NEW d \in Range(lane[j])
      PROVE  server'[d].at = "queue" /\ server'[d].lane = j
  <2>1. d # c /\ d \in Clients
    BY <1>0, <1>3, RangeOK
  <2> QED
    BY <1>7, <2>1, SMT DEF WireInv, Places
<1>8. CASE reject_complete_connection(c) /\ UNCHANGED lane
  <2> DEFINE m == Item("err", "INTERNAL", 0)
             r == IF Peeked(c) THEN <<m>> ELSE <<>>
             w == [wire[c] EXCEPT !.closed = TRUE, !.reply = r]
             s == [server[c] EXCEPT !.at = "gone"]
  <2>1. m \in Items /\ m.kind = "err" /\ m.len = 0
    BY ZeroIsNat DEF Items, Item, ErrCodes
  <2>2. wire' = [wire EXCEPT ![c] = w] /\ server' = [server EXCEPT ![c] = s]
    BY <1>0, <1>8 DEF reject_complete_connection
  <2> HIDE DEF m
  <2>3. r \in Seq(Items) /\ (r = <<>> \/ (Len(r) = 1 /\ Head(r).kind # "bytes" /\ Head(r).len = 0))
    BY <2>1, NoItem, OneItem
  <2> HIDE DEF r
  <2>4. /\ w \in Wire /\ w.reply = r
        /\ s \in Served /\ s.at = "gone" /\ s.wrote = server[c].wrote /\ s.len = server[c].len
    BY <1>0, <2>3, ZenonT(60) DEF Wire, Served
  <2> HIDE DEF w, s
  <2>5. \A d \in Clients : d # c => server'[d] = server[d]
    BY <1>0, <2>2
  <2>6. Places'
    BY <1>2, <1>6, <1>7, <1>8, <2>5 DEF WireInv, Places
  <2>7. Stream(client[c], w, s)
    BY <1>4, <1>5, <2>3, <2>4, MovesOn
  <2> QED
    BY <1>0, <1>2, <1>8, <2>2, <2>4, <2>6, <2>7, ServerInv
<1>9. ASSUME NEW l \in Lanes, lane' = [lane EXCEPT ![l] = Append(@, c)], UNCHANGED wire,
             server' = [server EXCEPT ![c].at = "queue", ![c].lane = l, ![c].known = Peeked(c)]
      PROVE  WireInv'
  <2> DEFINE s == [server[c] EXCEPT !.at = "queue", !.lane = l, !.known = Peeked(c)]
  <2>1. Peeked(c) \in BOOLEAN
    BY DEF Peeked
  <2>2. s \in Served /\ s.at = "queue" /\ s.lane = l /\ s.wrote = server[c].wrote /\ s.len = server[c].len
    BY <1>0, <2>1 DEF Served
  <2>3. wire' = [wire EXCEPT ![c] = wire[c]] /\ server' = [server EXCEPT ![c] = s]
    BY <1>0, <1>9
  <2> HIDE DEF s
  <2>4. server'[c] = s /\ \A d \in Clients : d # c => server'[d] = server[d]
    BY <1>0, <2>3
  <2>5. /\ Append(lane[l], c) \in Seq(Clients) /\ Range(Append(lane[l], c)) = Range(lane[l]) \cup {c}
        /\ IsInjective(Append(lane[l], c))
    BY <1>0, <1>3, QueueGrows DEF WireInv, Places
  <2>6. lane' \in [Lanes -> Seq(Clients)]
    BY <1>0, <1>9, <2>5
  <2>7. \A j \in Lanes : lane'[j] = lane[j] \/ (j = l /\ lane'[j] = Append(lane[l], c))
    BY <1>0, <1>9
  <2>8. ASSUME NEW j \in Lanes
        PROVE  /\ IsInjective(lane'[j])
               /\ \A d \in Range(lane'[j]) : server'[d].at = "queue" /\ server'[d].lane = j
    <3>1. IsInjective(lane[j])
      BY DEF WireInv, Places
    <3>2. CASE lane'[j] = lane[j]
      BY <1>7, <2>4, <3>1, <3>2
    <3>3. CASE j = l /\ lane'[j] = Append(lane[l], c)
      <4>1. \A d \in Range(lane[l]) : server'[d].at = "queue" /\ server'[d].lane = l
        BY <1>7, <2>4
      <4>2. server'[c].at = "queue" /\ server'[c].lane = l
        BY <2>2, <2>4
      <4> QED
        BY <2>5, <3>3, <4>1, <4>2
    <3> QED
      BY <2>7, <3>2, <3>3
  <2>9. Places'
    BY <1>2, <1>6, <2>4, <2>8 DEF Places
  <2>10. Stream(client[c], wire[c], s)
    BY <1>4, <1>5, <2>2, MovesOn
  <2> QED
    BY <1>0, <1>2, <2>2, <2>3, <2>6, <2>9, <2>10, ServerInv
<1>10. \A op : request_lane(op) \in Lanes
  BY DEF request_lane, Lanes
<1> QED
  BY <1>1, <1>8, <1>9, <1>10 DEF serve_listener, Lanes

LEMMA BrokerDiesInv ==
    ASSUME WireInv, broker_dies
    PROVE  WireInv'
<1>0. /\ wire \in [Clients -> Wire] /\ server \in [Clients -> Served]
      /\ lane' = [l \in Lanes |-> <<>>] /\ backlog' = <<>> /\ up' = FALSE /\ UNCHANGED client
  BY DEF WireInv, WireTypeOK, broker_dies
<1>1. ASSUME NEW c \in Clients
      PROVE  wire'[c] \in Wire /\ server'[c] \in Served /\ Stream(client'[c], wire'[c], server'[c])
  <2> DEFINE w == [wire[c] EXCEPT !.closed = TRUE]
             s == [server[c] EXCEPT !.at = "gone"]
  <2>0. Stream(client[c], wire[c], server[c]) /\ wire[c] \in Wire /\ server[c] \in Served
    BY <1>0 DEF WireInv, Streams
  <2>1. CASE server[c].at = "none"
    BY <1>0, <2>0, <2>1 DEF broker_dies
  <2>2. CASE server[c].at # "none"
    <3>1. /\ w \in Wire /\ w.reply = wire[c].reply
          /\ s \in Served /\ s.at = "gone" /\ s.wrote = server[c].wrote /\ s.len = server[c].len /\ s.verdict = server[c].verdict
      BY <2>0 DEF Wire, Served
    <3>2. wire'[c] = w /\ server'[c] = s
      BY <2>2 DEF broker_dies
    <3> HIDE DEF w, s
    <3> QED
      BY <1>0, <2>0, <2>2, <3>1, <3>2, Closes
  <2> QED
    BY <2>1, <2>2
<1>2. wire' \in [Clients -> Wire] /\ server' \in [Clients -> Served]
  <2>1. wire' = [c \in Clients |-> wire'[c]] /\ server' = [c \in Clients |-> server'[c]]
    BY DEF broker_dies
  <2> QED
    BY <1>1, <2>1
<1>3. <<>> \in Seq(Clients) /\ Range(<<>>) = {} /\ IsInjective(<<>>)
  BY SMT DEF Range, IsInjective
<1>4. WireTypeOK' /\ Places'
  <2>1. client' \in [Clients -> Client]
    BY <1>0 DEF WireInv, WireTypeOK
  <2>2. \A l \in Lanes : lane'[l] = <<>>
    BY <1>0
  <2>3. lane' \in [Lanes -> Seq(Clients)]
    BY <1>0, <1>3
  <2> QED
    BY <1>0, <1>2, <1>3, <2>1, <2>2, <2>3 DEF WireTypeOK, Places
<1> QED
  BY <1>1, <1>4 DEF WireInv, Streams

LEMMA WireInvInit == Init => WireInv
<1> SUFFICES ASSUME Init PROVE WireInv
  OBVIOUS
<1>1. Range(<<>>) = {} /\ IsInjective(<<>>) /\ 0 \in Nat /\ 0 \in Int /\ 0 <= 0
  <2>1. Range(<<>>) = {} /\ IsInjective(<<>>)
    BY SMT DEF Range, IsInjective
  <2>2. 0 \in Nat /\ 0 \in Int /\ 0 <= 0
    BY SMT
  <2> QED
    BY <2>1, <2>2
<1>2. NoFrame \in Frame
  BY <1>1, NoItem DEF NoFrame, Frame
<1>3. /\ NewClient \in Client /\ NewClient.pc = "idle" /\ NewClient.got = 0 /\ NewClient.result = ""
      /\ Quiet \in Wire /\ Quiet.reply = <<>>
      /\ Unserved \in Served /\ Unserved.at = "none" /\ Unserved.wrote = 0 /\ Unserved.len = 0
  BY <1>1, <1>2, NoItem DEF NewClient, Client, Results, Quiet, Wire, Unserved, Served, Verdicts
<1>4. WireTypeOK
  BY <1>3, NoItem DEF Init, WireTypeOK
<1>5. Places
  BY <1>1 DEF Init, Places
<1>6. Stream(NewClient, Quiet, Unserved)
  BY <1>1, <1>3 DEF Stream, Answered, Asking
<1> QED
  BY <1>4, <1>5, <1>6 DEF WireInv, Streams, Init

LEMMA WireInvNext == WireInv /\ [Next]_vars => WireInv'
<1> SUFFICES ASSUME WireInv, [Next]_vars PROVE WireInv'
  OBVIOUS
<1>1. CASE UNCHANGED vars
  BY <1>1 DEF vars, WireInv, WireTypeOK, Places, Streams
<1>2. CASE Done
  BY <1>1, <1>2 DEF Done
<1>3. ASSUME NEW c \in Clients, connect(c) \/ Exchange(c) \/ Serve(c) \/ decide(c) PROVE WireInv'
  BY <1>3, ConnectInv, WriteRequestInv, ReadHeaderInv, ReadPayloadInv, TrailingInv,
     ReadFrameInv, DispatchInv, WriteReplyInv DEF Exchange, Serve
<1> QED
  BY <1>1, <1>2, <1>3, TakeConnectionInv, ServeListenerInv, BrokerDiesInv, TickInv DEF Next

LEMMA WireInvariant == Spec => []WireInv
BY WireInvInit, WireInvNext, PTL DEF Spec

(***************************************************************************)
(* A client that returns a payload has every byte of what the broker had   *)
(* to send, and what it asked for was a value or the list of grants:       *)
(* whatever the number of clients and workers and the length of the        *)
(* payload, wherever the broker died, whichever lane turned a connection   *)
(* away (response.rs read_payload, reject_trailing_bytes; server.rs        *)
(* handle).                                                                *)
(***************************************************************************)
THEOREM ReturnedValueIsWhole == Spec => []ValueIsWhole
<1>1. WireInv => ValueIsWhole
  BY DEF WireInv, Streams, Stream, Whole, Carried, ValueIsWhole
<1> QED
  BY <1>1, WireInvariant, PTL

(***************************************************************************)
(* No connection is queued twice or handed to two workers: one that waits  *)
(* is in the backlog once, or in the queue of the one lane it was given    *)
(* to, once, and no worker has it, whatever the depth of the lanes         *)
(* (server.rs serve_listener, start_connection_workers).                   *)
(***************************************************************************)
THEOREM OnePlace == Spec => []Places
BY WireInvariant, PTL DEF WireInv

-----------------------------------------------------------------------------
(***************************************************************************)
(* The lanes: who may wait in them, and how much they hold.                *)
(***************************************************************************)
\* The lane is picked from the very request the worker reads later: the frame
\* of a connection does not change, and an incomplete one goes to main.
LaneOK(k, w, s) ==
    /\ s.at \in {"none", "backlog"} => s.lane = "" /\ s.verdict = ""
    /\ s.at \in {"queue", "read", "run"} => s.lane \in Lanes
    /\ s.lane \notin {"", "main"} => /\ w.request = "line"
                                     /\ s.lane = request_lane(parse_request(k.frame))
    /\ s.at = "run" => s.verdict = parse_request(k.frame)

LanesOK == \A c \in Clients : LaneOK(client[c], wire[c], server[c])

\* A human, or a client that is slow to send its line, is waited for in the
\* main lane alone, and what the workers of the control lane run is a DENY or
\* a LOCK (server.rs request_lane).
OnlyMainWaits ==
    \A c \in Clients : server[c].lane \in Lanes \ {"main"} =>
        /\ wire[c].request = "line"
        /\ server[c].at = "run" => /\ server[c].verdict \notin Approval
                                   /\ server[c].lane = "control" => server[c].verdict \in {"DENY", "LOCK"}

\* No lane holds more connections than it has places, or serves more at once
\* than it has workers (server.rs serve_listener, start_connection_workers).
LaneBounds ==
    \A l \in Lanes : /\ Len(lane[l]) <= Depth[l]
                     /\ IsFiniteSet(Busy(l)) /\ Cardinality(Busy(l)) <= Workers[l]

\* What a step does to a connection: nothing the lanes depend on, or one move
\* from connect through accept and a worker to its end.
Untouched(c) ==
    /\ server'[c] = server[c] /\ client'[c].frame = client[c].frame
    /\ wire[c].request = "line" => wire'[c].request = "line"
Connected(c) ==
    /\ server[c].at = "none" /\ server'[c].at = "backlog"
    /\ server'[c].lane = server[c].lane /\ server'[c].verdict = server[c].verdict
Accepted(c) ==
    /\ server[c].at = "backlog" /\ client'[c].frame = client[c].frame
    /\ wire'[c].request = wire[c].request
    /\ \/ server'[c].at = "gone" /\ server'[c].lane = server[c].lane
       \/ /\ server'[c].at = "queue" /\ server'[c].lane \in Lanes
          /\ server'[c].lane # "main" => /\ wire[c].request = "line"
                                         /\ server'[c].lane = request_lane(parse_request(client[c].frame))
Taken(c) ==
    /\ server[c].at = "queue" /\ server'[c].at = "read" /\ server'[c].lane = server[c].lane
    /\ client'[c].frame = client[c].frame /\ wire'[c].request = wire[c].request
Worked(c) ==
    /\ client'[c].frame = client[c].frame /\ wire'[c].request = wire[c].request
    /\ server'[c].lane = server[c].lane
    /\ \/ server'[c].at = "gone"
       \/ /\ server[c].at = "read" /\ server'[c].at = "run"
          /\ server'[c].verdict = parse_request(client[c].frame)
       \/ server[c].at \in {"run", "payload"} /\ server'[c].at \in {"held", "payload", "reply"}

LEMMA Parsed == \A f : request_lane(parse_request(f)) \in Lanes
BY DEF request_lane, Lanes

LEMMA ClientEffect ==
    ASSUME WireInv, NEW b \in Clients, Exchange(b) \/ Tick, NEW c \in Clients
    PROVE  Untouched(c)
<1>0. /\ client \in [Clients -> Client] /\ wire \in [Clients -> Wire]
      /\ client[c] \in Client /\ wire[c] \in Wire
  BY DEF WireInv, WireTypeOK
<1>1. UNCHANGED server
  BY DEF Exchange, write_request, read_header_line, read_payload, reject_trailing_bytes, Tick
<1>2. ASSUME NEW r, Return(b, r) PROVE client'[c].frame = client[c].frame
  BY <1>0, <1>2, SMT DEF Return, Client
<1>k. ASSUME NEW k, client' = [client EXCEPT ![b] = k], k.frame = client[b].frame
      PROVE  client'[c].frame = client[c].frame
  BY <1>0, <1>k
<1>3. CASE write_request(b)
  <2>1. CASE UNCHANGED wire /\ (Return(b, "invalid request") \/ Return(b, "io"))
    BY <1>1, <1>2, <2>1 DEF Untouched
  <2>2. CASE wire' = [wire EXCEPT ![b].request = "part"] /\ UNCHANGED client /\ wire[b].request = "none"
    BY <1>0, <1>1, <2>2, SMT DEF Untouched, Wire
  <2>3. CASE wire' = [wire EXCEPT ![b].request = "line"] /\ client' = [client EXCEPT ![b].pc = "header"]
    BY <1>0, <1>1, <2>3, SMT DEF Untouched, Wire, Client
  <2> QED
    BY <1>3, <2>1, <2>2, <2>3 DEF write_request
<1>4. CASE read_header_line(b) \/ read_payload(b) \/ reject_trailing_bytes(b)
  <2>1. wire'[c].request = wire[c].request
    <3>1. UNCHANGED wire \/ wire' = [wire EXCEPT ![b].reply = Tail(@)]
      BY <1>4 DEF read_header_line, read_payload, reject_trailing_bytes
    <3> QED
      BY <1>0, <3>1, SMT DEF Wire
  <2>2. client'[c].frame = client[c].frame
    <3>1. CASE read_header_line(b)
      <4>1. PICK k : k = [client[b] EXCEPT
                !.pc = IF Head(wire[b].reply).len > 0 THEN "payload" ELSE "trailing",
                !.result = finish_header(Head(wire[b].reply)),
                !.want = Head(wire[b].reply).len,
                !.per = Timeout(client[b].frame) - client[b].spent,
                !.wait = Timeout(client[b].frame) - client[b].spent]
        OBVIOUS
      <4>2. \/ \E r : Return(b, r)
            \/ client' = [client EXCEPT ![b] = k]
        BY <3>1, <4>1 DEF read_header_line, TimedOut
      <4>3. k.frame = client[b].frame
        BY <1>0, <4>1 DEF Client
      <4> QED
        BY <1>2, <1>k, <4>2, <4>3
    <3>2. CASE read_payload(b)
      <4>1. PICK k : k = [client[b] EXCEPT !.got = client[b].got + 1, !.wait = client[b].per,
                             !.pc = IF client[b].got + 1 = client[b].want THEN "trailing" ELSE @]
        OBVIOUS
      <4>2. \/ \E r : Return(b, r)
            \/ client' = [client EXCEPT ![b] = k]
        BY <3>2, <4>1 DEF read_payload, TimedOut
      <4>3. k.frame = client[b].frame
        BY <1>0, <4>1 DEF Client
      <4> QED
        BY <1>2, <1>k, <4>2, <4>3
    <3>3. CASE reject_trailing_bytes(b)
      BY <1>2, <3>3 DEF reject_trailing_bytes, TimedOut
    <3> QED
      BY <1>4, <3>1, <3>2, <3>3
  <2> QED
    BY <1>1, <2>1, <2>2 DEF Untouched
<1>5. CASE Tick
  <2>1. UNCHANGED wire
    BY <1>5 DEF Tick
  <2>2. client'[c].frame = client[c].frame
    <3>1. PICK a, d : client'[c] = client[c] \/ client'[c] = [client[c] EXCEPT !.spent = a, !.wait = d]
      BY <1>5 DEF Tick
    <3> QED
      BY <1>0, <3>1 DEF Client
  <2> QED
    BY <1>1, <2>1, <2>2 DEF Untouched
<1> QED
  BY <1>3, <1>4, <1>5 DEF Exchange

LEMMA ConnectEffect ==
    ASSUME WireInv, NEW b \in Clients, connect(b), NEW c \in Clients
    PROVE  Untouched(c) \/ Connected(c)
<1>0. /\ client \in [Clients -> Client] /\ server \in [Clients -> Served]
      /\ UNCHANGED wire /\ client[b].pc = "idle"
  BY DEF WireInv, WireTypeOK, connect
<1>1. server[b].at = "none"
  BY <1>0 DEF WireInv, Streams, Stream
<1>2. CASE Return(b, "io") /\ UNCHANGED server
  BY <1>0, <1>2, SMT DEF Return, Client, Untouched
<1>3. CASE server' = [server EXCEPT ![b].at = "backlog"]
           /\ \E f : client' = [client EXCEPT ![b].pc = "write", ![b].frame = f]
  <2>1. CASE c = b
    <3>1. server'[c] = [server[c] EXCEPT !.at = "backlog"]
      BY <1>0, <1>3, <2>1
    <3> QED
      BY <1>0, <1>1, <2>1, <3>1 DEF Served, Connected
  <2>2. CASE c # b
    BY <1>0, <1>3, <2>2 DEF Untouched
  <2> QED
    BY <2>1, <2>2
<1> QED
  BY <1>2, <1>3 DEF connect

LEMMA ServeEffect ==
    ASSUME WireInv, NEW b \in Clients, Serve(b) \/ decide(b), NEW c \in Clients
    PROVE  Untouched(c) \/ Worked(c)
<1>0. /\ wire \in [Clients -> Wire] /\ server \in [Clients -> Served] /\ UNCHANGED client
      /\ server[b] \in Served /\ wire[b] \in Wire
  BY DEF WireInv, WireTypeOK, Serve, decide, read_frame, dispatch, write_reply
<1>1. ASSUME NEW w, NEW s, wire' = [wire EXCEPT ![b] = w], server' = [server EXCEPT ![b] = s],
             w.request = wire[b].request, s.lane = server[b].lane,
             \/ s.at = "gone"
             \/ /\ server[b].at = "read" /\ s.at = "run"
                /\ s.verdict = parse_request(client[b].frame)
             \/ server[b].at \in {"run", "payload"} /\ s.at \in {"held", "payload", "reply"}
      PROVE  Untouched(c) \/ Worked(c)
  <2>1. CASE c = b
    <3>1. wire'[c] = w /\ server'[c] = s
      BY <1>0, <1>1, <2>1
    <3> QED
      BY <1>0, <1>1, <2>1, <3>1 DEF Worked
  <2>2. CASE c # b
    BY <1>0, <1>1, <2>2 DEF Untouched
  <2> QED
    BY <2>1, <2>2
<1>2. CASE Close(b)
  <2>1. /\ [wire[b] EXCEPT !.closed = TRUE].request = wire[b].request
        /\ [server[b] EXCEPT !.at = "gone"].lane = server[b].lane
        /\ [server[b] EXCEPT !.at = "gone"].at = "gone"
    BY <1>0 DEF Wire, Served
  <2> QED
    BY <1>0, <1>1, <1>2, <2>1 DEF Close
<1>3. ASSUME NEW kind, NEW code, NEW n, Reply(b, kind, code, n), server[b].at = "run"
      PROVE  Untouched(c) \/ Worked(c)
  <2>1. PICK w, s : /\ wire' = [wire EXCEPT ![b] = w] /\ server' = [server EXCEPT ![b] = s]
                    /\ w = [wire[b] EXCEPT !.reply = <<Item(kind, code, n)>>]
                    /\ \E a \in {"payload", "reply"} : s = [server[b] EXCEPT !.at = a, !.len = n]
    BY <1>3 DEF Reply
  <2>2. w.request = wire[b].request
    BY <1>0, <2>1 DEF Wire
  <2>3. s.lane = server[b].lane /\ s.at \in {"payload", "reply"}
    BY <1>0, <2>1 DEF Served
  <2> QED
    BY <1>1, <1>3, <2>1, <2>2, <2>3
<1>4. CASE read_frame(b) /\ ~ Close(b)
  <2>1. PICK s : /\ server' = [server EXCEPT ![b] = s] /\ wire' = [wire EXCEPT ![b] = wire[b]]
                 /\ s = [server[b] EXCEPT !.at = "run", !.verdict = parse_request(client[b].frame)]
    BY <1>0, <1>4 DEF read_frame
  <2>2. s.at = "run" /\ s.verdict = parse_request(client[b].frame) /\ s.lane = server[b].lane
    BY <1>0, <2>1 DEF Served
  <2> QED
    BY <1>1, <1>4, <2>1, <2>2 DEF read_frame
<1>5. CASE dispatch(b)
  <2>1. CASE server' = [server EXCEPT ![b].at = "held"] /\ UNCHANGED wire
    <3>1. PICK s : /\ server' = [server EXCEPT ![b] = s] /\ wire' = [wire EXCEPT ![b] = wire[b]]
                   /\ s = [server[b] EXCEPT !.at = "held"]
      BY <1>0, <2>1
    <3>2. s.at = "held" /\ s.lane = server[b].lane
      BY <1>0, <3>1 DEF Served
    <3> QED
      BY <1>1, <1>5, <3>1, <3>2 DEF dispatch
  <2> QED
    BY <1>3, <1>5, <2>1 DEF dispatch, Ok, Fields, Payload, Failed
<1>6. CASE decide(b)
  BY <1>3, <1>6 DEF decide, Fields, Payload, Failed
<1>7. CASE write_reply(b) /\ ~ Close(b)
  <2>1. server[b].at = "payload"
    BY <1>7 DEF write_reply
  <2>w. PICK w : w = [wire[b] EXCEPT !.reply = Append(wire[b].reply, Item("byte", "", 0))]
    OBVIOUS
  <2>s. PICK s : s = [server[b] EXCEPT !.wrote = server[b].wrote + 1,
                              !.at = IF server[b].wrote + 1 = server[b].len THEN "reply" ELSE server[b].at]
    OBVIOUS
  <2>2. wire' = [wire EXCEPT ![b] = w] /\ server' = [server EXCEPT ![b] = s]
    BY <1>7, <2>1, <2>w, <2>s DEF write_reply
  <2>3. w.request = wire[b].request /\ s.lane = server[b].lane /\ s.at \in {"payload", "reply"}
    BY <1>0, <2>1, <2>w, <2>s DEF Wire, Served
  <2> QED
    BY <1>1, <2>1, <2>2, <2>3
<1> QED
  BY <1>2, <1>4, <1>5, <1>6, <1>7 DEF Serve

LEMMA TakeEffect ==
    ASSUME WireInv, NEW l \in Lanes, take_connection(l)
    PROVE  \E b \in Clients : /\ Taken(b) /\ server[b].lane = l
                              /\ \A c \in Clients \ {b} : Untouched(c)
<1>0. /\ server \in [Clients -> Served] /\ lane[l] \in Seq(Clients) /\ lane[l] # <<>>
      /\ IsInjective(lane[l]) /\ UNCHANGED <<client, wire>>
  BY DEF WireInv, WireTypeOK, Places, take_connection
<1>1. PICK b \in Clients : b = Head(lane[l]) /\ b \in Range(lane[l])
  BY <1>0, QueueShrinks
<1>2. server[b].at = "queue" /\ server[b].lane = l
  BY <1>1 DEF WireInv, Places
<1>3. server' = [server EXCEPT ![b].at = "read"]
  BY <1>1 DEF take_connection
<1>4. server'[b] = [server[b] EXCEPT !.at = "read"] /\ \A c \in Clients \ {b} : server'[c] = server[c]
  BY <1>0, <1>3
<1>5. server'[b].at = "read" /\ server'[b].lane = server[b].lane
  <2>1. server[b] \in Served
    BY <1>0
  <2> QED
    BY <1>4, <2>1 DEF Served
<1> QED
  BY <1>0, <1>2, <1>4, <1>5 DEF Taken, Untouched

LEMMA AcceptEffect ==
    ASSUME WireInv, serve_listener, NEW c \in Clients
    PROVE  Untouched(c) \/ Accepted(c)
<1>0. /\ server \in [Clients -> Served] /\ wire \in [Clients -> Wire] /\ backlog \in Seq(Clients)
      /\ backlog # <<>> /\ IsInjective(backlog) /\ UNCHANGED client
  BY DEF WireInv, WireTypeOK, Places, serve_listener
<1>1. PICK b \in Clients : b = Head(backlog) /\ b \in Range(backlog)
  BY <1>0, QueueShrinks
<1>2. server[b].at = "backlog" /\ server[b] \in Served /\ wire[b] \in Wire
  BY <1>0, <1>1 DEF WireInv, Places
<1>3. PICK l : l = IF Peeked(b) THEN request_lane(parse_request(client[b].frame)) ELSE "main"
  OBVIOUS
<1>4. /\ l \in Lanes
      /\ l # "main" => wire[b].request = "line" /\ l = request_lane(parse_request(client[b].frame))
  BY <1>3, Parsed DEF Peeked, Lanes
<1>5. CASE reject_complete_connection(b)
  <2>1. CASE c = b
    <3>w. PICK w : w = [wire[b] EXCEPT !.closed = TRUE,
                  !.reply = IF Peeked(b) THEN <<Item("err", "INTERNAL", 0)>> ELSE <<>>]
      OBVIOUS
    <3>1. server'[b] = [server[b] EXCEPT !.at = "gone"] /\ wire' = [wire EXCEPT ![b] = w]
      BY <1>0, <1>5, <3>w DEF reject_complete_connection
    <3>2. w.request = wire[b].request /\ server'[b].at = "gone" /\ server'[b].lane = server[b].lane
      BY <1>2, <3>w, <3>1 DEF Wire, Served
    <3> QED
      BY <1>0, <1>2, <2>1, <3>1, <3>2 DEF Accepted
  <2>2. CASE c # b
    BY <1>0, <1>5, <2>2 DEF reject_complete_connection, Untouched
  <2> QED
    BY <2>1, <2>2
<1>6. CASE /\ server' = [server EXCEPT ![b].at = "queue", ![b].lane = l, ![b].known = Peeked(b)]
           /\ UNCHANGED wire
  <2>1. CASE c = b
    <3>1. server'[b] = [server[b] EXCEPT !.at = "queue", !.lane = l, !.known = Peeked(b)]
      BY <1>0, <1>6
    <3>2. server'[b].at = "queue" /\ server'[b].lane = l
      BY <1>2, <3>1 DEF Served
    <3> QED
      BY <1>0, <1>2, <1>4, <1>6, <2>1, <3>2 DEF Accepted
  <2>2. CASE c # b
    BY <1>0, <1>6, <2>2 DEF Untouched
  <2> QED
    BY <2>1, <2>2
<1> QED
  BY <1>1, <1>3, <1>5, <1>6 DEF serve_listener

LEMMA DiesEffect ==
    ASSUME WireInv, broker_dies, NEW c \in Clients
    PROVE  Untouched(c) \/ Worked(c)
<1>0. server[c] \in Served /\ wire[c] \in Wire /\ UNCHANGED client
  BY DEF WireInv, WireTypeOK, broker_dies
<1>1. CASE server[c].at = "none"
  BY <1>0, <1>1 DEF broker_dies, Untouched
<1>2. CASE server[c].at # "none"
  <2>1. wire'[c] = [wire[c] EXCEPT !.closed = TRUE] /\ server'[c] = [server[c] EXCEPT !.at = "gone"]
    BY <1>2 DEF broker_dies
  <2>2. wire'[c].request = wire[c].request /\ server'[c].at = "gone" /\ server'[c].lane = server[c].lane
    BY <1>0, <2>1 DEF Wire, Served
  <2> QED
    BY <1>0, <2>2 DEF Worked
<1> QED
  BY <1>1, <1>2

\* Every step, seen by a connection.
LEMMA Effects ==
    ASSUME WireInv, [Next]_vars, NEW c \in Clients
    PROVE  \/ Untouched(c) \/ Connected(c) \/ Accepted(c) \/ Worked(c)
           \/ Taken(c) /\ \E l \in Lanes : take_connection(l)
<1>1. CASE UNCHANGED vars
  BY <1>1 DEF vars, Untouched
<1>2. CASE Done
  BY <1>1, <1>2 DEF Done
<1>3. CASE \E b \in Clients : connect(b) \/ Exchange(b) \/ Serve(b) \/ decide(b)
  BY <1>3, ConnectEffect, ClientEffect, ServeEffect
<1>4. CASE \E l \in Lanes : take_connection(l)
  BY <1>4, TakeEffect
<1> QED
  BY <1>1, <1>2, <1>3, <1>4, AcceptEffect, DiesEffect, ClientEffect DEF Next

LEMMA LanesStep ==
    ASSUME WireInv, LanesOK, [Next]_vars
    PROVE  LanesOK'
<1>1. SUFFICES ASSUME NEW c \in Clients PROVE LaneOK(client'[c], wire'[c], server'[c])
  BY DEF LanesOK
<1>2. LaneOK(client[c], wire[c], server[c])
  BY DEF LanesOK
<1>3. CASE Untouched(c)
  BY <1>2, <1>3 DEF LaneOK, Untouched
<1>4. CASE Connected(c)
  BY <1>2, <1>4 DEF LaneOK, Connected
<1>5. CASE Accepted(c)
  BY <1>2, <1>5 DEF LaneOK, Accepted
<1>6. CASE Taken(c)
  BY <1>2, <1>6 DEF LaneOK, Taken
<1>7. CASE Worked(c)
  BY <1>2, <1>7 DEF LaneOK, Worked
<1> QED
  BY <1>3, <1>4, <1>5, <1>6, <1>7, Effects

(***************************************************************************)
(* Whoever waits for a human or for a slow client waits in the main lane:  *)
(* a worker of the control lane only ever has a LOCK or a DENY whose line  *)
(* has arrived, for any number of clients, workers and places, whenever    *)
(* the line of each arrives (server.rs request_lane, read_frame).          *)
(***************************************************************************)
THEOREM ControlLaneIsFree == Spec => []OnlyMainWaits
<1>1. WireInv /\ LanesOK => OnlyMainWaits
  <2> SUFFICES ASSUME LanesOK, NEW c \in Clients, server[c].lane \in Lanes \ {"main"}
               PROVE  /\ wire[c].request = "line"
                      /\ server[c].at = "run" =>
                           /\ server[c].verdict \notin Approval
                           /\ server[c].lane = "control" => server[c].verdict \in {"DENY", "LOCK"}
    BY DEF OnlyMainWaits
  <2>1. /\ wire[c].request = "line"
        /\ server[c].lane = request_lane(parse_request(client[c].frame))
        /\ server[c].at = "run" => server[c].verdict = parse_request(client[c].frame)
    BY DEF LanesOK, LaneOK, Lanes
  <2> QED
    BY <2>1 DEF request_lane, Approval
<1>2. Init => LanesOK
  <2>1. LaneOK(NewClient, Quiet, Unserved)
    BY DEF LaneOK, Unserved
  <2> QED
    BY <2>1 DEF Init, LanesOK
<1> QED
  BY <1>1, <1>2, LanesStep, WireInvariant, PTL DEF Spec

\* A lane's queue grows only while it has a place.
LEMMA QueueBound ==
    ASSUME WireInv, LaneBounds, [Next]_vars, NEW l \in Lanes
    PROVE  Len(lane'[l]) <= Depth[l]
<1>0. /\ lane \in [Lanes -> Seq(Clients)] /\ lane[l] \in Seq(Clients) /\ Len(lane[l]) <= Depth[l]
      /\ Depth[l] \in Nat
  BY WireConstants DEF WireInv, WireTypeOK, LaneBounds
<1>1. CASE UNCHANGED lane
  BY <1>0, <1>1
<1>2. CASE \E m \in Lanes : take_connection(m)
  <2>1. PICK m \in Lanes : lane[m] # <<>> /\ lane' = [lane EXCEPT ![m] = Tail(@)]
    BY <1>2 DEF take_connection
  <2>2. CASE m = l
    <3>1. lane'[l] = Tail(lane[l]) /\ lane[l] # <<>>
      BY <1>0, <2>1, <2>2
    <3>2. Len(lane[l]) \in Nat /\ Len(Tail(lane[l])) = Len(lane[l]) - 1
      BY <1>0, <3>1, SeqFacts
    <3> QED
      BY <1>0, <3>1, <3>2, SMT
  <2>3. CASE m # l
    BY <1>0, <2>1, <2>3
  <2> QED
    BY <2>2, <2>3
<1>3. CASE serve_listener
  <2>c. PICK c : c = Head(backlog)
    OBVIOUS
  <2>m. PICK m : m = IF Peeked(c) THEN request_lane(parse_request(client[c].frame)) ELSE "main"
    OBVIOUS
  <2>1. \/ UNCHANGED lane
        \/ Len(lane[m]) < Depth[m] /\ lane' = [lane EXCEPT ![m] = Append(@, c)]
    BY <1>3, <2>c, <2>m DEF serve_listener
  <2>2. CASE UNCHANGED lane
    BY <1>1, <2>2
  <2>3. CASE Len(lane[m]) < Depth[m] /\ lane' = [lane EXCEPT ![m] = Append(@, c)]
    <3>1. c \in Clients
      BY <1>3, <2>c, QueueShrinks DEF serve_listener, WireInv, WireTypeOK, Places
    <3>2. CASE m = l
      <4>1. lane'[l] = Append(lane[l], c) /\ Len(lane[l]) < Depth[l]
        BY <1>0, <2>3, <3>2
      <4>2. Len(lane[l]) \in Nat /\ Len(Append(lane[l], c)) = Len(lane[l]) + 1
        BY <1>0, <3>1, SeqFacts
      <4> QED
        BY <1>0, <4>1, <4>2, SMT
    <3>3. CASE m # l
      BY <1>0, <2>3, <3>3
    <3> QED
      BY <3>2, <3>3
  <2> QED
    BY <2>1, <2>2, <2>3
<1>4. CASE broker_dies
  <2>1. lane'[l] = <<>> /\ Len(<<>>) = 0
    BY <1>4, SMT DEF broker_dies
  <2> QED
    BY <1>0, <2>1, SMT
<1>5. CASE \E b \in Clients : connect(b) \/ Exchange(b) \/ Serve(b) \/ decide(b)
  BY <1>1, <1>5, ZenonT(60) DEF connect, Exchange, write_request, read_header_line, read_payload,
                    reject_trailing_bytes, Serve, read_frame, dispatch, write_reply, decide
<1> QED
  BY <1>1, <1>2, <1>3, <1>4, <1>5 DEF Next, Tick, Done, vars

\* A lane's workers take a connection only while one of them is free.
LEMMA WorkerBound ==
    ASSUME WireInv, LaneBounds, [Next]_vars, NEW l \in Lanes
    PROVE  IsFiniteSet(Busy(l)') /\ Cardinality(Busy(l)') <= Workers[l]
<1>0. /\ IsFiniteSet(Busy(l)) /\ Cardinality(Busy(l)) <= Workers[l] /\ Cardinality(Busy(l)) \in Nat
      /\ Workers[l] \in Nat
  BY WireConstants, FS_CardinalityType DEF LaneBounds
<1>1. ASSUME NEW c \in Clients, c \in Busy(l)', Untouched(c) \/ Connected(c) \/ Accepted(c) \/ Worked(c)
      PROVE  c \in Busy(l)
  <2>1. server'[c].lane = l /\ server'[c].at \in {"read", "run", "reply", "payload"}
    BY <1>1 DEF Busy
  <2>2. Untouched(c) \/ Worked(c)
    BY <1>1, <2>1 DEF Connected, Accepted
  <2> QED
    BY <2>1, <2>2 DEF Untouched, Worked, Busy
<1>2. CASE Busy(l)' \subseteq Busy(l)
  <2>1. IsFiniteSet(Busy(l)') /\ Cardinality(Busy(l)') \in Nat
        /\ Cardinality(Busy(l)') <= Cardinality(Busy(l))
    BY <1>0, <1>2, FS_Subset, FS_CardinalityType
  <2> QED
    BY <1>0, <2>1, SMT
<1>3. CASE ~ \E m \in Lanes : take_connection(m)
  BY <1>1, <1>2, <1>3, Effects DEF Busy
<1>4. CASE take_connection(l)
  <2>1. Cardinality(Busy(l)) < Workers[l]
    BY <1>4 DEF take_connection
  <2>2. PICK b \in Clients : \A c \in Clients \ {b} : Untouched(c)
    BY <1>4, TakeEffect
  <2>3. Busy(l)' \subseteq Busy(l) \cup {b}
    BY <1>1, <2>2 DEF Busy
  <2>4. /\ IsFiniteSet(Busy(l) \cup {b}) /\ Cardinality(Busy(l) \cup {b}) \in Nat
        /\ Cardinality(Busy(l) \cup {b}) <= Cardinality(Busy(l)) + 1
    <3>1. /\ IsFiniteSet(Busy(l) \cup {b})
          /\ Cardinality(Busy(l) \cup {b}) = IF b \in Busy(l) THEN Cardinality(Busy(l)) ELSE Cardinality(Busy(l)) + 1
      BY <1>0, FS_AddElement
    <3> QED
      BY <1>0, <3>1, SMT
  <2>5. /\ IsFiniteSet(Busy(l)') /\ Cardinality(Busy(l)') \in Nat
        /\ Cardinality(Busy(l)') <= Cardinality(Busy(l) \cup {b})
    BY <2>3, <2>4, FS_Subset, FS_CardinalityType
  <2> QED
    BY <1>0, <2>1, <2>4, <2>5, SMT
<1>5. ASSUME NEW m \in Lanes, take_connection(m), m # l
      PROVE  Busy(l)' \subseteq Busy(l)
  <2>1. PICK b \in Clients : /\ Taken(b) /\ server[b].lane = m
                             /\ \A c \in Clients \ {b} : Untouched(c)
    BY <1>5, TakeEffect
  <2>2. b \notin Busy(l)'
    BY <1>5, <2>1 DEF Taken, Busy
  <2> QED
    BY <1>1, <2>1, <2>2 DEF Busy
<1> QED
  BY <1>2, <1>3, <1>4, <1>5

(***************************************************************************)
(* The broker takes on no more than its lanes hold: every queue stays      *)
(* within its depth and every lane within its workers, however many        *)
(* clients connect (server.rs serve_listener, start_connection_workers).   *)
(***************************************************************************)
THEOREM LanesAreBounded == Spec => []LaneBounds
<1>1. Init => LaneBounds
  <2> SUFFICES ASSUME Init, NEW l \in Lanes
               PROVE  /\ Len(lane[l]) <= Depth[l]
                      /\ IsFiniteSet(Busy(l)) /\ Cardinality(Busy(l)) <= Workers[l]
    BY DEF LaneBounds
  <2>1. Busy(l) = {}
    BY DEF Init, Busy, Unserved
  <2>2. IsFiniteSet({}) /\ Cardinality({}) = 0
    BY FS_EmptySet
  <2>3. lane[l] = <<>> /\ Workers[l] \in Nat /\ Depth[l] \in Nat
    BY WireConstants DEF Init
  <2>4. Len(<<>>) <= Depth[l] /\ 0 <= Workers[l]
    BY <2>3, SMT
  <2> QED
    BY <2>1, <2>2, <2>3, <2>4
<1>2. WireInv /\ LaneBounds /\ [Next]_vars => LaneBounds'
  BY QueueBound, WorkerBound DEF LaneBounds
<1> QED
  BY <1>1, <1>2, WireInvariant, PTL DEF Spec
=============================================================================
