--------------------------- MODULE TokenFeedProof ---------------------------
(***************************************************************************)
(* Proofs about the grant feed, for any number of connections, tokens and  *)
(* pushing threads, any lease and any faults of the network.               *)
(***************************************************************************)
EXTENDS TokenFeed, FiniteSetTheorems, TLAPS

\* Zenon is the default prover of this module; a leaf that needs arithmetic,
\* records or a longer search says SMT.
USE Zenon

Line == [token : Tokens, ttl : Nat \ {0}]
Push == [by : Tokens \cup Threads, token : Tokens]
Connection == [dev : {"none", "queued", "open", "closed"}, lap : {"none", "open", "closed"},
               down : Seq(Line), up : Nat]
Pusher == [pc : {"none", "greet", "snapshot", "push"}, todo : SUBSET Line]
Ceremony == [pc : {"idle", "push", "acked", "granted", "revoked", "over"}, left : Nat]
Entry == [token : Tokens, left : Nat]

\* Every variable has its type, and a client that is not backing off has its
\* connection.
FeedTypeOK ==
    /\ ceremony \in [Tokens -> Ceremony]
    /\ slot \in Conns \cup {None}
    /\ pushing \in Push \cup {None}
    /\ thread \in [Threads -> Pusher]
    /\ conn \in [Conns -> Connection]
    /\ client \in [pc : {"backoff", "read", "schedule"}, conn : Conns \cup {None}]
    /\ client.pc # "backoff" => client.conn \in Conns
    /\ entries \in Seq(Entry)
    /\ timer \in Nat \cup {None}
    /\ reaper \in {"wait", "arm"}
    /\ faults \in Nat
    /\ mirrored \subseteq Tokens

(***************************************************************************)
(* One line at a time.  While the devbox keeps its end of a connection     *)
(* open, the only thing under way on it is the push whose thread holds the *)
(* slot's lock: its line, the laptop's insertion of it, or its OK.         *)
(***************************************************************************)
Scheduling(c) == client.pc = "schedule" /\ client.conn = c
Empty(c) == conn[c].up = 0 /\ conn[c].down = <<>> /\ ~ Scheduling(c)

UnderWay ==
    \/ Empty(slot)
    \/ /\ conn[slot].up = 0 /\ ~ Scheduling(slot)
       /\ Len(conn[slot].down) = 1 /\ Head(conn[slot].down).token = pushing.token
    \/ /\ conn[slot].up = 0 /\ conn[slot].down = <<>> /\ Scheduling(slot)
       /\ pushing.token \in mirrored
    \/ /\ conn[slot].up = 1 /\ conn[slot].down = <<>> /\ ~ Scheduling(slot)
       /\ pushing.token \in mirrored

Pushed(c) == pushing # None /\ slot = c

OneLine ==
    /\ slot # None => conn[slot].dev = "open"
    /\ \A c \in Conns : thread[c].pc = "greet" => conn[c].dev = "open" /\ c # slot
    /\ \A c \in Conns : conn[c].dev \in {"queued", "open"} /\ ~ Pushed(c) => Empty(c)
    /\ pushing # None => /\ slot # None /\ UnderWay
                         /\ pushing.by \in Tokens => pushing.token = pushing.by

(***************************************************************************)
(* No line is short: whatever line is in flight or in a thread's snapshot  *)
(* gives its token the time its grant has left, but for one second.        *)
(***************************************************************************)
LongEnough(m) == ceremony[m.token].pc # "idle" /\ m.ttl + 1 >= ceremony[m.token].left

Good == {m \in Line : LongEnough(m)}

LinesCover ==
    /\ \A c \in Conns : conn[c].down \in Seq(Good)
    /\ \A x \in Threads : thread[x].todo \subseteq Good


-----------------------------------------------------------------------------
(***************************************************************************)
(* What the helpers on the mirror compute.                                 *)
(***************************************************************************)
LEMMA Least ==
    ASSUME NEW T \in SUBSET Nat, T # {}
    PROVE  \E n \in T : \A m \in T : n <= m
<1>1. IsWellFoundedOn(OpToRel(<, Nat), Nat)
  BY NatLessThanWellFounded
<1>2. PICK n \in T : \A m \in T : ~ (<<m, n>> \in OpToRel(<, Nat))
  BY <1>1, WFMin
<1>3. \A a, b \in Nat : a < b => <<a, b>> \in OpToRel(<, Nat)
  BY SMT DEF OpToRel
<1>4. \A m \in T : ~ (m < n)
  BY <1>2, <1>3
<1> QED
  BY <1>4, SMT

\* Among some places of a sequence there is an n-th one, for every n up to
\* their number.
LEMMA NthPlace ==
    ASSUME NEW len \in Nat, NEW at, \A j \in at : j \in Nat /\ 1 <= j /\ j <= len,
           NEW n \in 1..Cardinality(at)
    PROVE  \E i \in at : Cardinality({j \in at : j <= i}) = n
<1> DEFINE upto(i) == {j \in at : j <= i}
           T == {i \in Nat : Cardinality(upto(i)) >= n}
<1>1. IsFiniteSet(at) /\ Cardinality(at) \in Nat
  <2>1. IsFiniteSet(1..len)
    BY FS_Interval, SMT
  <2>2. at \subseteq 1..len
    BY SMT
  <2> QED
    BY <2>1, <2>2, FS_Subset, FS_CardinalityType
<1>2. \A i \in Nat : IsFiniteSet(upto(i)) /\ Cardinality(upto(i)) \in Nat
  <2>1. \A i \in Nat : upto(i) \subseteq at
    OBVIOUS
  <2> QED
    BY <1>1, <2>1, FS_Subset, FS_CardinalityType
<1>3. upto(len) = at /\ n \in Nat
  BY <1>1, SMT
<1>4. len \in T
  BY <1>1, <1>3, SMT
<1>5. PICK i \in T : \A m \in T : i <= m
  BY <1>4, Least
<1>6. i \in Nat /\ Cardinality(upto(i)) >= n
  BY <1>5
<1>7. i # 0
  <2>1. upto(0) = {}
    BY SMT
  <2>2. Cardinality(upto(0)) = 0
    BY <2>1, FS_EmptySet
  <2> QED
    BY <1>1, <1>6, <2>2, SMT
<1>8. i - 1 \in Nat /\ Cardinality(upto(i - 1)) < n
  <2>1. i - 1 \in Nat /\ i - 1 \notin T
    BY <1>5, <1>6, <1>7, SMT
  <2>2. Cardinality(upto(i - 1)) \in Nat /\ ~ (Cardinality(upto(i - 1)) >= n)
    BY <1>2, <2>1
  <2> QED
    BY <1>3, <2>1, <2>2, SMT
<1>9. upto(i) = IF i \in at THEN upto(i - 1) \cup {i} ELSE upto(i - 1)
  BY <1>6, <1>7, SMT
<1>10. i \notin upto(i - 1)
  BY <1>6, SMT
<1>11. i \in at
  BY <1>2, <1>3, <1>6, <1>8, <1>9, SMT
<1>12. Cardinality(upto(i)) = Cardinality(upto(i - 1)) + 1
  BY <1>2, <1>8, <1>9, <1>10, <1>11, FS_AddElement
<1>13. Cardinality(upto(i)) = n
  BY <1>2, <1>3, <1>6, <1>8, <1>12, SMT
<1> QED
  BY <1>11, <1>13

\* retain keeps entries of the sequence, and only those asked for.
LEMMA RetainOK ==
    ASSUME NEW S, NEW es \in Seq(S), NEW at \in SUBSET DOMAIN es
    PROVE  /\ retain(es, at) \in Seq(S)
           /\ \A k \in DOMAIN retain(es, at) : \E i \in at : retain(es, at)[k] = es[i]
<1>1. Len(es) \in Nat /\ DOMAIN es = 1..Len(es)
  BY SMT
<1>2. Cardinality(at) \in Nat
  <2>1. IsFiniteSet(1..Len(es))
    BY <1>1, FS_Interval, SMT
  <2> QED
    BY <1>1, <2>1, FS_Subset, FS_CardinalityType
<1> DEFINE nth(n) == CHOOSE i \in at : Cardinality({j \in at : j <= i}) = n
<1>p. \A j \in at : j \in Nat /\ 1 <= j /\ j <= Len(es)
  BY <1>1, SMT
<1>3. \A n \in 1..Cardinality(at) : nth(n) \in at
  BY <1>1, <1>p, NthPlace
<1>4. retain(es, at) = [n \in 1..Cardinality(at) |-> es[nth(n)]]
  BY DEF retain
<1> HIDE DEF nth
<1>5. \A i \in at : es[i] \in S
  BY <1>1, SMT
<1>6. retain(es, at) \in [1..Cardinality(at) -> S]
  BY <1>3, <1>4, <1>5
<1> QED
  BY <1>2, <1>3, <1>4, <1>6, SMT

\* The timer is set to the least time left.
LEMMA DeadlineOK ==
    ASSUME entries \in Seq(Entry)
    PROVE  /\ next_deadline \in Nat \cup {None}
           /\ \A e \in Range(entries) : next_deadline \in Nat /\ next_deadline <= e.left
<1>1. CASE entries = <<>>
  <2>1. Range(entries) = {}
    BY <1>1, SMT DEF Range
  <2> QED
    BY <1>1, <2>1 DEF next_deadline
<1>2. CASE entries # <<>>
  <2> DEFINE T == {e.left : e \in Range(entries)}
  <2>1. Range(entries) \subseteq Entry /\ Range(entries) # {}
    <3>1. 1 \in DOMAIN entries /\ \A i \in DOMAIN entries : entries[i] \in Entry
      BY <1>2, SMT
    <3> QED
      BY <3>1 DEF Range
  <2>2. T \in SUBSET Nat /\ T # {}
    BY <2>1 DEF Entry
  <2>3. \E d \in T : \A m \in T : d <= m
    BY <2>2, Least
  <2>4. \E d \in T : \A e \in Range(entries) : d <= e.left
    BY <2>3
  <2>5. next_deadline \in T /\ \A e \in Range(entries) : next_deadline <= e.left
    BY <1>2, <2>4 DEF next_deadline
  <2> QED
    BY <2>2, <2>5
<1> QED
  BY <1>1, <1>2
\* insert_until keeps entries of other tokens and appends the new one.
LEMMA InsertOK ==
    ASSUME entries \in Seq(Entry), NEW t \in Tokens, NEW left \in Nat
    PROVE  LET es == insert_until(entries, t, left)
           IN  /\ es \in Seq(Entry) /\ es[Len(es)] = [token |-> t, left |-> left]
               /\ [token |-> t, left |-> left] \in Range(es)
               /\ \A e \in Range(es) : e.token = t => e.left = left
<1> DEFINE at == {i \in DOMAIN entries : entries[i].left > 0 /\ entries[i].token # t}
           kept == retain(entries, at)
           room == IF Len(kept) = MaxLive THEN Tail(kept) ELSE kept
           new == [token |-> t, left |-> left]
<1>1. kept \in Seq(Entry) /\ \A k \in DOMAIN kept : kept[k].token # t
  <2>1. at \in SUBSET DOMAIN entries /\ \A i \in at : entries[i].token # t
    OBVIOUS
  <2> HIDE DEF at
  <2>2. kept \in Seq(Entry) /\ \A k \in DOMAIN kept : \E i \in at : kept[k] = entries[i]
    BY <2>1, RetainOK, SMT
  <2> QED
    BY <2>1, <2>2
<1>2. insert_until(entries, t, left) = Append(room, new)
  BY DEF insert_until
<1>3. new \in Entry /\ new.token = t /\ new.left = left
  BY DEF Entry
<1> HIDE DEF kept, new
<1>4. room \in Seq(Entry) /\ \A k \in 1..Len(room) : room[k].token # t
  <2>1. CASE Len(kept) # MaxLive
    BY <1>1, <2>1, SMT
  <2>2. CASE Len(kept) = MaxLive
    <3>1. kept # <<>> /\ DOMAIN kept = 1..Len(kept)
      BY <1>1, <2>2, FeedConstants, SMT
    <3>2. Tail(kept) \in Seq(Entry) /\ Len(Tail(kept)) = Len(kept) - 1
      BY <1>1, <3>1, SMT
    <3>3. \A k \in 1..Len(Tail(kept)) : Tail(kept)[k] = kept[k + 1] /\ k + 1 \in DOMAIN kept
      BY <1>1, <3>1, <3>2, SMT
    <3> QED
      BY <1>1, <2>2, <3>2, <3>3
  <2> QED
    BY <2>1, <2>2
<1> HIDE DEF room
<1>5. /\ Append(room, new) \in Seq(Entry) /\ Len(Append(room, new)) = Len(room) + 1
      /\ DOMAIN Append(room, new) = 1..(Len(room) + 1)
      /\ Append(room, new)[Len(room) + 1] = new
      /\ \A k \in 1..Len(room) : Append(room, new)[k] = room[k]
  BY <1>3, <1>4, SMT
<1>6. \A k \in 1..(Len(room) + 1) : k = Len(room) + 1 \/ k \in 1..Len(room)
  BY <1>4, SMT
<1> DEFINE es == Append(room, new)
<1>7. es[Len(es)] = new /\ new \in Range(es)
  <2>1. Len(room) + 1 \in 1..(Len(room) + 1)
    BY <1>4, SMT
  <2> QED
    BY <1>5, <2>1 DEF Range
<1>8. ASSUME NEW e \in Range(es), e.token = t
      PROVE  e.left = left
  <2>1. PICK k \in 1..(Len(room) + 1) : e = es[k]
    BY <1>5 DEF Range
  <2>2. k \notin 1..Len(room)
    BY <1>4, <1>5, <1>8, <2>1
  <2> QED
    BY <1>3, <1>5, <1>6, <2>1, <2>2
<1> QED
  BY <1>2, <1>5, <1>7, <1>8 DEF new

\* Closing an end of a connection leaves a connection.
LEMMA CloseOK ==
    ASSUME NEW cn \in Connection
    PROVE  CloseDev(cn) \in Connection /\ CloseLap(cn) \in Connection
<1>0. <<>> \in Seq(Line) /\ 0 \in Nat
  BY SMT
<1>1. NoConn \in Connection
  BY <1>0 DEF NoConn, Connection
<1>2. /\ [cn EXCEPT !.dev = "closed", !.up = 0] \in Connection
      /\ [cn EXCEPT !.lap = "closed", !.down = <<>>] \in Connection
  BY <1>0 DEF Connection
<1> QED
  BY <1>1, <1>2 DEF CloseDev, CloseLap
-----------------------------------------------------------------------------
(***************************************************************************)
(* Type correctness.                                                       *)
(***************************************************************************)
LEMMA WriteOK ==
    ASSUME FeedTypeOK, slot \in Conns, NEW by \in Tokens \cup Threads, NEW m \in Line, Write(by, m)
    PROVE  pushing' \in Push /\ conn' \in [Conns -> Connection]
<1>1. pushing' \in Push
  BY DEF Write, Push, Line
<1>2. conn[slot] \in Connection
  BY DEF FeedTypeOK
<1>3. Append(conn[slot].down, m) \in Seq(Line)
  BY <1>2, SMT DEF Connection
<1>4. [conn[slot] EXCEPT !.down = Append(conn[slot].down, m)] \in Connection
  BY <1>2, <1>3 DEF Connection
<1> QED
  BY <1>1, <1>4 DEF Write, FeedTypeOK

\* The end of a push, by an OK or by its failure.
LEMMA PushEndOK ==
    ASSUME FeedTypeOK, (Acked /\ ack) \/ fail
    PROVE  /\ pushing' = None /\ conn' \in [Conns -> Connection] /\ slot' \in Conns \cup {None}
<1>1. CASE Acked /\ ack
  <2>1. ASSUME slot \in Conns
        PROVE  [conn[slot] EXCEPT !.up = conn[slot].up - 1] \in Connection
    <3>1. conn[slot] \in Connection
      BY <2>1 DEF FeedTypeOK
    <3>2. conn[slot].up - 1 \in Nat
      BY <1>1, <3>1, SMT DEF Acked, Connection
    <3> QED
      BY <3>1, <3>2 DEF Connection
  <2> QED
    BY <1>1, <2>1 DEF ack, FeedTypeOK
<1>2. CASE fail
  BY <1>2, CloseOK DEF fail, FeedTypeOK
<1> QED
  BY <1>1, <1>2

\* A line says some time, and at most one second less than the grant has left.
LEMMA RemainingOK ==
    ASSUME FeedTypeOK, NEW t \in Tokens, ceremony[t].left > 0, NEW part
    PROVE  /\ RemainingTtl(t, part) \in Nat \ {0}
           /\ RemainingTtl(t, part) + 1 >= ceremony[t].left
<1>1. ceremony[t].left \in Nat
  BY DEF FeedTypeOK, Ceremony
<1>2. \/ RemainingTtl(t, part) = ceremony[t].left
      \/ ceremony[t].left > 1 /\ RemainingTtl(t, part) = ceremony[t].left - 1
  BY DEF RemainingTtl
<1> QED
  BY <1>1, <1>2, SMT

\* A snapshot holds the live grants' tokens and times.
LEMMA SnapshotOK ==
    ASSUME FeedTypeOK
    PROVE  NoThread \in Pusher /\ \A parts \in SUBSET Tokens : snapshot_live(parts) \in Pusher
<1>1. NoThread \in Pusher
  BY DEF NoThread, Pusher
<1>2. \A t \in Tokens, parts \in SUBSET Tokens :
        ceremony[t].left > 0 => [token |-> t, ttl |-> RemainingTtl(t, t \in parts)] \in Line
  BY RemainingOK DEF Line
<1> QED
  BY <1>1, <1>2 DEF snapshot_live, Pusher

LEMMA CeremonyTypeOK ==
    ASSUME FeedTypeOK, NEW t \in Tokens,
           answer(t) \/ answer_pushed(t) \/ insert_if_authority(t) \/ expire(t)
    PROVE  FeedTypeOK'
<1>0. ceremony[t] \in Ceremony /\ 0 \in Nat
  BY SMT DEF FeedTypeOK
<1>a. \A pc \in {"acked", "granted", "revoked", "over"} :
        [ceremony[t] EXCEPT !.pc = pc] \in Ceremony /\ [pc |-> pc, left |-> 0] \in Ceremony
  BY <1>0 DEF Ceremony
<1>1. CASE answer(t)
  <2>1. PICK asked \in Ttls :
          LET ttl == IF asked < Receipt[t] THEN asked ELSE Receipt[t]
          IN  /\ ceremony' = [ceremony EXCEPT ![t] = [pc |-> "push", left |-> ttl]]
              /\ Write(t, [token |-> t, ttl |-> ttl])
    BY <1>1 DEF answer
  <2> DEFINE ttl == IF asked < Receipt[t] THEN asked ELSE Receipt[t]
  <2>2. ttl \in Nat \ {0} /\ ttl \in Nat /\ slot \in Conns
    BY <1>1, FeedConstants DEF answer, FeedTypeOK
  <2> HIDE DEF ttl
  <2>3. [token |-> t, ttl |-> ttl] \in Line /\ [pc |-> "push", left |-> ttl] \in Ceremony
    BY <2>2 DEF Line, Ceremony
  <2>4. pushing' \in Push /\ conn' \in [Conns -> Connection]
    BY <2>1, <2>2, <2>3, WriteOK DEF ttl
  <2>5. ceremony' \in [Tokens -> Ceremony]
    BY <2>1, <2>3 DEF FeedTypeOK, ttl
  <2> QED
    BY <1>1, <2>4, <2>5 DEF answer, FeedTypeOK
<1>2. CASE answer_pushed(t)
  <2>1. pushing' = None /\ conn' \in [Conns -> Connection] /\ slot' \in Conns \cup {None}
    BY <1>2, PushEndOK DEF answer_pushed
  <2>2. ceremony' \in [Tokens -> Ceremony]
    BY <1>2, <1>a DEF answer_pushed, FeedTypeOK
  <2> QED
    BY <1>2, <2>1, <2>2 DEF answer_pushed, FeedTypeOK
<1>3. CASE insert_if_authority(t) \/ expire(t)
  <2>1. ceremony' \in [Tokens -> Ceremony]
    BY <1>3, <1>a DEF insert_if_authority, expire, FeedTypeOK
  <2> QED
    BY <1>3, <2>1 DEF insert_if_authority, expire, FeedTypeOK
<1> QED
  BY <1>1, <1>2, <1>3

LEMMA ListenerTypeOK ==
    ASSUME FeedTypeOK, NEW c \in Conns, accept_loop(c) \/ attach_if_feed(c) \/ push_attached(c)
    PROVE  FeedTypeOK'
<1>0. conn[c] \in Connection /\ thread[c] \in Pusher /\ c \in Threads
  BY DEF FeedTypeOK, Threads
<1>1. CASE accept_loop(c)
  <2>1. thread' \in [Threads -> Pusher]
    BY <1>0, <1>1, SMT DEF accept_loop, FeedTypeOK, Pusher
  <2>2. [conn[c] EXCEPT !.dev = "open"] \in Connection
    BY <1>0 DEF Connection
  <2>3. conn' \in [Conns -> Connection]
    BY <1>0, <1>1, <2>2, CloseOK DEF accept_loop, FeedTypeOK
  <2> QED
    BY <1>1, <2>1, <2>3 DEF accept_loop, FeedTypeOK
<1>2. CASE attach_if_feed(c)
  <2>1. [thread[c] EXCEPT !.pc = "snapshot"] \in Pusher /\ NoThread \in Pusher
    BY <1>0, SnapshotOK DEF Pusher
  <2>2. thread' \in [Threads -> Pusher]
    BY <1>0, <1>2, <2>1 DEF attach_if_feed, FeedTypeOK
  <2>3. conn' \in [Conns -> Connection]
    BY <1>0, <1>2, CloseOK, SMT DEF attach_if_feed, attach, FeedTypeOK
  <2>4. slot' \in Conns \cup {None}
    BY <1>2 DEF attach_if_feed, attach, FeedTypeOK
  <2>5. faults' \in Nat
    BY <1>2, SMT DEF attach_if_feed, FeedTypeOK
  <2> QED
    BY <1>2, <2>2, <2>3, <2>4, <2>5 DEF attach_if_feed, FeedTypeOK
<1>3. CASE push_attached(c)
  <2>1. thread' \in [Threads -> Pusher]
    BY <1>3, SnapshotOK DEF push_attached, FeedTypeOK
  <2> QED
    BY <1>3, <2>1 DEF push_attached, FeedTypeOK
<1> QED
  BY <1>1, <1>2, <1>3
LEMMA PushingTypeOK ==
    ASSUME FeedTypeOK, NEW x \in Threads, push_live(x) \/ push_live_pushed(x)
    PROVE  FeedTypeOK'
<1>0. thread[x] \in Pusher /\ NoThread \in Pusher
  BY SnapshotOK DEF FeedTypeOK
<1>a. \A S : [thread[x] EXCEPT !.todo = thread[x].todo \ S] \in Pusher
  BY <1>0 DEF Pusher
<1>1. CASE push_live(x) /\ slot = None
  BY <1>0, <1>1 DEF push_live, FeedTypeOK
<1>2. CASE push_live(x) /\ slot # None
  <2>1. PICK m \in thread[x].todo :
          Write(x, m) /\ thread' = [thread EXCEPT ![x].todo = @ \ {m}]
    BY <1>2 DEF push_live
  <2>2. m \in Line /\ slot \in Conns
    BY <1>0, <1>2 DEF Pusher, FeedTypeOK
  <2>3. pushing' \in Push /\ conn' \in [Conns -> Connection]
    BY <2>1, <2>2, WriteOK
  <2>4. thread' \in [Threads -> Pusher]
    BY <1>a, <2>1 DEF FeedTypeOK
  <2> QED
    BY <1>2, <2>3, <2>4 DEF push_live, FeedTypeOK
<1>3. CASE push_live_pushed(x)
  <2>1. pushing' = None /\ conn' \in [Conns -> Connection] /\ slot' \in Conns \cup {None}
    BY <1>3, PushEndOK DEF push_live_pushed
  <2>2. thread' \in [Threads -> Pusher]
    BY <1>0, <1>3 DEF push_live_pushed, FeedTypeOK
  <2> QED
    BY <1>3, <2>1, <2>2 DEF push_live_pushed, FeedTypeOK
<1> QED
  BY <1>1, <1>2, <1>3

\* Every line has some time in it, so the laptop takes it.
LEMMA ReadInserts ==
    ASSUME FeedTypeOK, read_token
    PROVE  /\ client.pc = "read" /\ client.conn \in Conns /\ conn[client.conn].down # <<>>
           /\ Head(conn[client.conn].down) \in Line
           /\ insert(Head(conn[client.conn].down))
           /\ UNCHANGED <<ceremony, slot, pushing, thread, timer, reaper, faults>>
<1>1. client.pc = "read" /\ conn[client.conn].down # <<>>
  BY DEF read_token
<1>2. client.conn \in Conns /\ conn[client.conn].down \in Seq(Line)
  BY <1>1 DEF FeedTypeOK, Connection
<1>3. Head(conn[client.conn].down) \in Line
  BY <1>1, <1>2, SMT
<1>4. Head(conn[client.conn].down).ttl # 0
  BY <1>3 DEF Line
<1> QED
  BY <1>1, <1>2, <1>3, <1>4 DEF read_token

LEMMA LaptopTypeOK ==
    ASSUME FeedTypeOK, run_once \/ read_token \/ schedule \/ closed \/ cut
    PROVE  FeedTypeOK'
<1>0. /\ \A c \in Conns : conn[c] \in Connection
      /\ client \in [pc : {"backoff", "read", "schedule"}, conn : Conns \cup {None}]
      /\ client.pc # "backoff" => client.conn \in Conns
      /\ None \notin Conns /\ 0 \in Nat /\ <<>> \in Seq(Line)
  BY FeedConstants, SMT DEF FeedTypeOK
<1> DEFINE Types(cl) == /\ cl \in [pc : {"backoff", "read", "schedule"}, conn : Conns \cup {None}]
                        /\ cl.pc # "backoff" => cl.conn \in Conns
<1>a. /\ Types([pc |-> "backoff", conn |-> None])
      /\ \A c \in Conns : Types([pc |-> "read", conn |-> c])
      /\ client.pc # "backoff" => /\ Types([client EXCEPT !.pc = "read"])
                                  /\ Types([client EXCEPT !.pc = "schedule"])
  BY <1>0
<1>1. CASE run_once
  <2>1. [NoConn EXCEPT !.dev = "queued", !.lap = "open"] \in Connection
    BY <1>0 DEF NoConn, Connection
  <2> DEFINE d == CHOOSE e \in FreeConns : TRUE
             fresh == [NoConn EXCEPT !.dev = "queued", !.lap = "open"]
  <2>2. FreeConns # {} => d \in Conns
    BY DEF FreeConns
  <2>a. \/ /\ FreeConns # {} /\ conn' = [conn EXCEPT ![d] = fresh]
           /\ client' = [pc |-> "read", conn |-> d]
        \/ UNCHANGED <<conn, client>>
    BY <1>1 DEF run_once
  <2> HIDE DEF d, fresh
  <2>3. conn' \in [Conns -> Connection]
    BY <2>1, <2>2, <2>a DEF FeedTypeOK, fresh
  <2>5. Types(client')
    BY <1>0, <1>a, <2>2, <2>a
  <2>4. faults' \in Nat
    BY <1>1, SMT DEF run_once, FeedTypeOK
  <2> QED
    BY <1>1, <2>3, <2>4, <2>5 DEF run_once, FeedTypeOK
<1>2. CASE read_token
  <2> DEFINE c == client.conn
             m == Head(conn[c].down)
  <2>1. c \in Conns /\ conn[c] \in Connection /\ client.pc # "backoff"
    BY <1>0, <1>2 DEF read_token
  <2>a. insert(m)
    BY <1>2, ReadInserts
  <2>2. m \in Line /\ Tail(conn[c].down) \in Seq(Line)
    BY <1>2, <2>1, SMT DEF read_token, Connection
  <2>3. m.token \in Tokens /\ clamp_wire_ttl(m.ttl) \in Nat
    BY <2>2, FeedConstants DEF Line, clamp_wire_ttl
  <2>4. entries' \in Seq(Entry) /\ mirrored' \subseteq Tokens
    BY <2>a, <2>3, InsertOK DEF insert, FeedTypeOK
  <2>5. [conn[c] EXCEPT !.down = Tail(conn[c].down)] \in Connection
    BY <2>1, <2>2 DEF Connection
  <2>6. conn' \in [Conns -> Connection] /\ Types(client')
    BY <2>a, <1>a, <2>1, <2>5 DEF insert, FeedTypeOK
  <2> QED
    BY <1>2, <2>4, <2>6 DEF read_token, FeedTypeOK
<1>3. CASE schedule
  <2> DEFINE c == client.conn
  <2>1. c \in Conns /\ conn[c] \in Connection /\ client.pc # "backoff"
    BY <1>0, <1>3 DEF schedule
  <2>2. [conn[c] EXCEPT !.up = conn[c].up + 1] \in Connection
    <3>1. conn[c].up + 1 \in Nat
      BY <2>1, SMT DEF Connection
    <3> QED
      BY <2>1, <3>1 DEF Connection
  <2>3. conn' \in [Conns -> Connection]
    BY <1>3, <2>1, <2>2, CloseOK, SMT DEF schedule, FeedTypeOK
  <2>5. Types(client')
    BY <1>3, <1>a, <2>1 DEF schedule
  <2>4. timer' \in Nat \cup {None}
    BY <1>3, DeadlineOK DEF schedule, FeedTypeOK
  <2> QED
    BY <1>3, <2>3, <2>4, <2>5 DEF schedule, FeedTypeOK
<1>4. CASE closed \/ cut
  <2> DEFINE c == client.conn
  <2>1. c \in Conns /\ conn[c] \in Connection
    BY <1>0, <1>4 DEF closed, cut
  <2>2. [conn[c] EXCEPT !.up = 0] \in Connection
    BY <1>0, <2>1 DEF Connection
  <2>3. conn' \in [Conns -> Connection]
    BY <1>4, <2>1, <2>2, CloseOK, SMT DEF closed, cut, FeedTypeOK
  <2>5. Types(client')
    BY <1>4, <1>a DEF closed, cut
  <2>4. faults' \in Nat
    BY <1>4, SMT DEF closed, cut, FeedTypeOK
  <2> QED
    BY <1>4, <2>3, <2>4, <2>5 DEF closed, cut, FeedTypeOK
<1> QED
  BY <1>1, <1>2, <1>3, <1>4
\* Scrubbing keeps some of the entries.
LEMMA ReapKeeps ==
    ASSUME entries \in Seq(Entry), reap_expired
    PROVE  entries' \in Seq(Entry) /\ Range(entries') \subseteq Range(entries)
<1> DEFINE at == {i \in DOMAIN entries : entries[i].left > 0}
<1>1. at \in SUBSET DOMAIN entries /\ entries' = retain(entries, at)
  BY DEF reap_expired
<1> HIDE DEF at
<1>2. entries' \in Seq(Entry) /\ \A k \in DOMAIN entries' : \E i \in at : entries'[k] = entries[i]
  BY <1>1, RetainOK, SMT
<1>3. \A i \in at : entries[i] \in Range(entries)
  BY <1>1 DEF Range
<1>4. ASSUME NEW e \in Range(entries') PROVE e \in Range(entries)
  <2>1. PICK k \in DOMAIN entries' : e = entries'[k]
    BY DEF Range
  <2> QED
    BY <1>2, <1>3, <2>1
<1> QED
  BY <1>2, <1>4

\* One unit of time for the mirror, the grants and the timer.
LEMMA TickEffect ==
    ASSUME FeedTypeOK, Tick
    PROVE  /\ entries' \in Seq(Entry)
           /\ \A e \in Range(entries') : \E f \in Range(entries) :
                e.left = IF f.left > 0 THEN f.left - 1 ELSE 0
           /\ ceremony' \in [Tokens -> Ceremony]
           /\ \A t \in Tokens : /\ ceremony'[t].pc = ceremony[t].pc
                                /\ ceremony'[t].left <= ceremony[t].left
           /\ timer' \in Nat \cup {None}
<1> DEFINE older(e) == [e EXCEPT !.left = IF e.left > 0 THEN e.left - 1 ELSE 0]
<1>1. \A e \in Entry : /\ older(e) \in Entry
                       /\ older(e).left = IF e.left > 0 THEN e.left - 1 ELSE 0
  BY SMT DEF Entry
<1>2. entries' = [i \in DOMAIN entries |-> older(entries[i])]
  BY DEF Tick
<1> HIDE DEF older
<1>3. DOMAIN entries = 1..Len(entries) /\ Len(entries) \in Nat
      /\ \A i \in DOMAIN entries : entries[i] \in Entry
  BY SMT DEF FeedTypeOK
<1>4. entries' \in Seq(Entry)
  <2>1. entries' \in [1..Len(entries) -> Entry]
    BY <1>1, <1>2, <1>3
  <2> QED
    BY <1>3, <2>1, SMT
<1>5. \A e \in Range(entries') : \E f \in Range(entries) :
        e.left = IF f.left > 0 THEN f.left - 1 ELSE 0
  <2>1. ASSUME NEW e \in Range(entries')
        PROVE  \E f \in Range(entries) : e.left = IF f.left > 0 THEN f.left - 1 ELSE 0
    <3>1. PICK i \in DOMAIN entries : e = older(entries[i])
      BY <1>2 DEF Range
    <3>2. entries[i] \in Range(entries)
      BY DEF Range
    <3> QED
      BY <1>1, <1>3, <3>1, <3>2
  <2> QED
    BY <2>1
<1>6. ASSUME NEW t \in Tokens
      PROVE  /\ ceremony'[t] \in Ceremony /\ ceremony'[t].pc = ceremony[t].pc
             /\ ceremony'[t].left <= ceremony[t].left
  <2>1. ceremony[t] \in Ceremony
    BY DEF FeedTypeOK
  <2>2. ceremony'[t] = IF ceremony[t].pc = "granted" /\ ceremony[t].left > 0
                       THEN [ceremony[t] EXCEPT !.left = ceremony[t].left - 1] ELSE ceremony[t]
    BY DEF Tick
  <2> QED
    BY <2>1, <2>2, SMT DEF Ceremony
<1>7. ceremony' \in [Tokens -> Ceremony]
  BY <1>6 DEF Tick
<1>8. timer' \in Nat \cup {None}
  BY SMT DEF Tick, FeedTypeOK
<1> QED
  BY <1>4, <1>5, <1>6, <1>7, <1>8

LEMMA FeedTypeStep ==
    ASSUME FeedTypeOK, [Next]_vars
    PROVE  FeedTypeOK'
<1>1. CASE renewal_loop
  <2>1. thread' \in [Threads -> Pusher]
    BY <1>1, SnapshotOK DEF renewal_loop, FeedTypeOK
  <2> QED
    BY <1>1, <2>1 DEF renewal_loop, FeedTypeOK
<1>2. CASE worker_reaps \/ accepts_at
  <2>1. entries' \in Seq(Entry)
    BY <1>2, ReapKeeps DEF worker_reaps, accepts_at, FeedTypeOK
  <2> QED
    BY <1>2, <2>1 DEF worker_reaps, accepts_at, FeedTypeOK
<1>3. CASE worker_arms
  <2>1. timer' \in Nat \cup {None}
    BY <1>3, DeadlineOK DEF worker_arms, FeedTypeOK
  <2> QED
    BY <1>3, <2>1 DEF worker_arms, FeedTypeOK
<1>4. CASE Tick
  <2>1. entries' \in Seq(Entry) /\ ceremony' \in [Tokens -> Ceremony] /\ timer' \in Nat \cup {None}
    BY <1>4, TickEffect
  <2> QED
    BY <1>4, <2>1 DEF Tick, FeedTypeOK
<1>5. CASE UNCHANGED vars
  BY <1>5 DEF vars, FeedTypeOK
<1> QED
  BY <1>1, <1>2, <1>3, <1>4, <1>5, CeremonyTypeOK, ListenerTypeOK, PushingTypeOK, LaptopTypeOK
     DEF Next, Devbox, Laptop, Reaping

\* Every variable of the feed keeps its type.
THEOREM FeedTypeCorrect == Spec => []FeedTypeOK
<1>1. Init => FeedTypeOK
  <2>1. <<>> \in Seq(Line) /\ <<>> \in Seq(Entry) /\ 0 \in Nat /\ MaxFaults \in Nat
    BY FeedConstants, SMT
  <2>2. NoConn \in Connection /\ NoThread \in Pusher /\ [pc |-> "idle", left |-> 0] \in Ceremony
    BY <2>1, SMT DEF NoThread, NoConn, Ceremony, Pusher, Connection
  <2>3. [pc |-> "backoff", conn |-> None]
          \in [pc : {"backoff", "read", "schedule"}, conn : Conns \cup {None}]
    OBVIOUS
  <2> QED
    BY <2>1, <2>2, <2>3, SMT DEF Init, FeedTypeOK
<1>2. FeedTypeOK /\ [Next]_vars => FeedTypeOK'
  BY FeedTypeStep
<1> QED
  BY <1>1, <1>2, PTL DEF Spec

-----------------------------------------------------------------------------
(***************************************************************************)
(* The reaper.  ReaperArmed is inductive once the types are known.         *)
(***************************************************************************)
LEMMA ArmedStep ==
    ASSUME FeedTypeOK, ReaperArmed, [Next]_vars
    PROVE  ReaperArmed'
<1>0. /\ None \notin Nat /\ timer \in Nat \cup {None} /\ entries \in Seq(Entry)
      /\ \A e \in Range(entries) : e.left \in Nat
  <2>1. \A i \in DOMAIN entries : entries[i] \in Entry
    BY SMT DEF FeedTypeOK
  <2> QED
    BY <2>1, FeedConstants DEF FeedTypeOK, Entry, Range
<1>1. CASE UNCHANGED <<client, reaper, entries, timer>>
  BY <1>1 DEF ReaperArmed
<1>2. CASE read_token
  <2>1. client'.pc = "schedule"
    BY <1>2, ReadInserts DEF insert, FeedTypeOK
  <2> QED
    BY <2>1 DEF ReaperArmed
<1>3. CASE schedule \/ worker_arms
  <2>1. timer' = next_deadline /\ entries' = entries
    BY <1>3 DEF schedule, worker_arms
  <2> QED
    BY <1>0, <2>1, DeadlineOK DEF ReaperArmed
<1>4. CASE worker_reaps
  BY <1>4 DEF worker_reaps, ReaperArmed
<1>5. CASE accepts_at
  <2>1. Range(entries') \subseteq Range(entries)
    BY <1>0, <1>5, ReapKeeps DEF accepts_at
  <2> QED
    BY <1>5, <2>1 DEF accepts_at, ReaperArmed
<1>6. CASE run_once \/ closed \/ cut
  <2>1. client.pc # "schedule" /\ UNCHANGED <<entries, timer, reaper>>
    BY <1>6 DEF run_once, closed, cut
  <2> QED
    BY <2>1 DEF ReaperArmed
<1>7. CASE Tick
  <2> SUFFICES ASSUME client.pc # "schedule", reaper = "wait", NEW e \in Range(entries')
               PROVE  timer' # None /\ timer' <= e.left
    BY <1>7 DEF Tick, ReaperArmed
  <2>1. PICK f \in Range(entries) : e.left = IF f.left > 0 THEN f.left - 1 ELSE 0
    BY <1>7, TickEffect
  <2>2. timer # None /\ timer <= f.left /\ timer \in Nat /\ f.left \in Nat
    BY <1>0 DEF ReaperArmed
  <2>3. timer' = IF timer = 0 THEN timer ELSE timer - 1
    BY <1>7, <2>2 DEF Tick
  <2>4. timer' \in Nat /\ timer' <= e.left
    BY <2>1, <2>2, <2>3, SMT
  <2> QED
    BY <1>0, <2>4
<1>8. CASE Devbox
  BY <1>1, <1>8 DEF Devbox, renewal_loop, answer, answer_pushed, insert_if_authority, expire,
                    accept_loop, attach_if_feed, push_attached, push_live, push_live_pushed
<1>9. CASE UNCHANGED vars
  BY <1>1, <1>9 DEF vars
<1> QED
  BY <1>2, <1>3, <1>4, <1>5, <1>6, <1>7, <1>8, <1>9 DEF Next, Laptop, Reaping

\* While a mirrored token is in memory the timer is set for it, or a thread is
\* about to set it, however insertions, reaping and reads interleave.
THEOREM ReaperIsArmed == Spec => []ReaperArmed
<1>1. Init => ReaperArmed
  <2>1. Range(<<>>) = {}
    BY SMT DEF Range
  <2> QED
    BY <2>1 DEF Init, ReaperArmed
<1>2. FeedTypeOK /\ ReaperArmed /\ [Next]_vars => ReaperArmed'
  BY ArmedStep
<1> QED
  BY <1>1, <1>2, FeedTypeCorrect, PTL DEF Spec

-----------------------------------------------------------------------------
(***************************************************************************)
(* Lines are never short: a grant only ages, so a line written or a        *)
(* snapshot taken earlier still covers it.                                 *)
(***************************************************************************)
LEMMA SeqGrows ==
    ASSUME NEW S, NEW T, S \subseteq T, NEW s \in Seq(S)
    PROVE  /\ s \in Seq(T) /\ <<>> \in Seq(T)
           /\ s # <<>> => Tail(s) \in Seq(T) /\ Head(s) \in S
           /\ \A m \in T : Append(s, m) \in Seq(T)
<1>1. s \in Seq(T)
  BY SMT
<1> QED
  BY <1>1, SMT

LEMMA GrantsAge ==
    ASSUME FeedTypeOK, [Next]_vars, NEW t \in Tokens, ceremony[t].pc # "idle"
    PROVE  ceremony'[t].pc # "idle" /\ ceremony'[t].left <= ceremony[t].left
<1>0. ceremony \in [Tokens -> Ceremony] /\ ceremony[t] \in Ceremony
  BY DEF FeedTypeOK
<1>1. ceremony[t].left \in Nat /\ ceremony[t].left <= ceremony[t].left /\ 0 <= ceremony[t].left
  BY <1>0, SMT DEF Ceremony
<1>2. CASE UNCHANGED ceremony
  BY <1>1, <1>2
<1>3. ASSUME NEW u \in Tokens, answer(u) PROVE u # t /\ ceremony'[t] = ceremony[t]
  BY <1>0, <1>3 DEF answer
<1>4. CASE \E u \in Tokens : answer(u)
  BY <1>1, <1>3, <1>4, SMT
<1>5. CASE \E u \in Tokens : answer_pushed(u) \/ insert_if_authority(u) \/ expire(u)
  <2>1. PICK u \in Tokens : answer_pushed(u) \/ insert_if_authority(u) \/ expire(u)
    BY <1>5
  <2>2. \/ ceremony' = [ceremony EXCEPT ![u].pc = "acked"]
        \/ ceremony' = [ceremony EXCEPT ![u].pc = "granted"]
        \/ ceremony' = [ceremony EXCEPT ![u] = [pc |-> "over", left |-> 0]]
        \/ ceremony' = [ceremony EXCEPT ![u] = [pc |-> "revoked", left |-> 0]]
    BY <2>1 DEF answer_pushed, insert_if_authority, expire
  <2>3. \/ ceremony'[t] = ceremony[t]
        \/ ceremony'[t].pc \in {"acked", "granted"} /\ ceremony'[t].left = ceremony[t].left
        \/ ceremony'[t].pc \in {"over", "revoked"} /\ ceremony'[t].left = 0
    BY <1>0, <2>2, SMT DEF Ceremony
  <2> QED
    BY <1>1, <2>3, SMT
<1>6. CASE Tick
  BY <1>6, TickEffect
<1>7. CASE Laptop \/ Reaping \/ accepts_at \/ cut \/ UNCHANGED vars
  BY <1>2, <1>7 DEF Laptop, Reaping, run_once, read_token, schedule, closed, worker_reaps,
                    worker_arms, accepts_at, cut, vars
<1>8. CASE renewal_loop \/ (\E c \in Conns : accept_loop(c) \/ attach_if_feed(c) \/ push_attached(c))
           \/ (\E x \in Threads : push_live(x) \/ push_live_pushed(x))
  BY <1>2, <1>8 DEF renewal_loop, accept_loop, attach_if_feed, push_attached, push_live,
                    push_live_pushed
<1> QED
  BY <1>4, <1>5, <1>6, <1>7, <1>8 DEF Next, Devbox

LEMMA GoodGrows ==
    ASSUME FeedTypeOK, [Next]_vars
    PROVE  Good \subseteq Good'
<1> SUFFICES ASSUME NEW m \in Good PROVE m \in Good'
  OBVIOUS
<1>1. m \in Line /\ m.token \in Tokens /\ m.ttl \in Nat
  BY DEF Good, Line
<1>2. ceremony[m.token].pc # "idle" /\ m.ttl + 1 >= ceremony[m.token].left
  BY DEF Good, LongEnough
<1>3. ceremony'[m.token].pc # "idle" /\ ceremony'[m.token].left <= ceremony[m.token].left
  BY <1>1, <1>2, GrantsAge
<1>4. ceremony[m.token].left \in Nat /\ ceremony'[m.token].left \in Nat
  BY <1>1, FeedTypeStep DEF FeedTypeOK, Ceremony
<1>5. m.ttl + 1 >= ceremony'[m.token].left
  BY <1>1, <1>2, <1>3, <1>4, SMT
<1> QED
  BY <1>1, <1>3, <1>5 DEF Good, LongEnough

LEMMA CloseDown ==
    ASSUME NEW cn \in Connection
    PROVE  CloseDev(cn).down \in {<<>>, cn.down} /\ CloseLap(cn).down = <<>>
<1>1. /\ [cn EXCEPT !.dev = "closed", !.up = 0].down = cn.down
      /\ [cn EXCEPT !.lap = "closed", !.down = <<>>].down = <<>> /\ NoConn.down = <<>>
  BY DEF Connection, NoConn
<1> QED
  BY <1>1 DEF CloseDev, CloseLap

\* A snapshot's lines cover the grants it was taken of.
LEMMA SnapshotGood ==
    ASSUME FeedTypeOK
    PROVE  /\ NoThread.todo \subseteq Good
           /\ \A parts \in SUBSET Tokens : snapshot_live(parts).todo \subseteq Good
<1>1. ASSUME NEW t \in Tokens, Registered(t), ceremony[t].left > 0, NEW part
      PROVE  [token |-> t, ttl |-> RemainingTtl(t, part)] \in Good
  <2> DEFINE m == [token |-> t, ttl |-> RemainingTtl(t, part)]
  <2>1. RemainingTtl(t, part) \in Nat \ {0} /\ RemainingTtl(t, part) + 1 >= ceremony[t].left
    BY <1>1, RemainingOK
  <2>2. m \in Line /\ m.token = t /\ m.ttl = RemainingTtl(t, part)
    BY <2>1 DEF Line
  <2> HIDE DEF m
  <2>3. m \in Good
    BY <1>1, <2>1, <2>2 DEF Good, LongEnough, Registered
  <2> QED
    BY <2>3 DEF m
<1> QED
  BY <1>1 DEF snapshot_live, NoThread

\* What a step may do to the lines in flight on a connection.
Flows(c) ==
    \/ conn'[c].down \in {<<>>, conn[c].down}
    \/ conn[c].down # <<>> /\ conn'[c].down = Tail(conn[c].down)
    \/ \E m \in Good' : conn'[c].down = Append(conn[c].down, m)

LEMMA WriteFlows ==
    ASSUME FeedTypeOK, slot \in Conns, NEW by, NEW m \in Good', Write(by, m), NEW c \in Conns
    PROVE  Flows(c)
<1>1. conn \in [Conns -> Connection] /\ conn[c] \in Connection /\ conn[slot] \in Connection
  BY DEF FeedTypeOK
<1>2. conn'[c].down = conn[c].down \/ conn'[c].down = Append(conn[c].down, m)
  BY <1>1, SMT DEF Write, Connection
<1> QED
  BY <1>2 DEF Flows

LEMMA LinesFlow ==
    ASSUME FeedTypeOK, LinesCover, [Next]_vars, NEW c \in Conns
    PROVE  Flows(c)
<1>0. /\ conn \in [Conns -> Connection] /\ thread \in [Threads -> Pusher]
      /\ slot \in Conns \cup {None} /\ conn[c] \in Connection
      /\ client.pc # "backoff" => client.conn \in Conns
  BY DEF FeedTypeOK
<1>1. CASE UNCHANGED conn
  BY <1>1 DEF Flows
<1>2. ASSUME NEW d \in Conns, conn' = [conn EXCEPT ![d] = CloseDev(@)]
      PROVE  Flows(c)
  BY <1>0, <1>2, CloseDown DEF Flows
<1>3. ASSUME NEW d \in Conns, NEW u, conn' = [conn EXCEPT ![d].up = u]
      PROVE  Flows(c)
  BY <1>0, <1>3, SMT DEF Flows, Connection
<1>4. CASE (Acked /\ ack) \/ (fail /\ slot \in Conns)
  <2>1. CASE Acked /\ ack
    <3>1. conn' = [conn EXCEPT ![slot].up = conn[slot].up - 1]
      BY <2>1 DEF ack
    <3>2. CASE slot \in Conns
      BY <1>3, <3>1, <3>2
    <3>3. CASE slot \notin Conns
      BY <1>0, <1>1, <3>1, <3>3
    <3> QED
      BY <3>2, <3>3
  <2> QED
    BY <1>2, <1>4, <2>1 DEF fail
<1>5. ASSUME NEW t \in Tokens, answer(t) PROVE Flows(c)
  <2>1. PICK asked \in Ttls :
          LET ttl == IF asked < Receipt[t] THEN asked ELSE Receipt[t]
          IN  /\ ceremony' = [ceremony EXCEPT ![t] = [pc |-> "push", left |-> ttl]]
              /\ Write(t, [token |-> t, ttl |-> ttl])
    BY <1>5 DEF answer
  <2> DEFINE ttl == IF asked < Receipt[t] THEN asked ELSE Receipt[t]
             m == [token |-> t, ttl |-> ttl]
  <2>2. ttl \in Nat \ {0} /\ ttl \in Nat
    BY FeedConstants
  <2>3. ceremony' = [ceremony EXCEPT ![t] = [pc |-> "push", left |-> ttl]] /\ Write(t, m)
    BY <2>1
  <2>4. m \in Line /\ m.token = t /\ m.ttl = ttl
    BY <2>2 DEF Line
  <2> HIDE DEF m, ttl
  <2>5. ceremony'[t].pc = "push" /\ ceremony'[t].left = ttl
    BY <2>3 DEF FeedTypeOK
  <2>6. m.ttl + 1 >= ceremony'[t].left
    BY <2>2, <2>4, <2>5, SMT
  <2>7. m \in Good'
    BY <2>4, <2>5, <2>6 DEF Good, LongEnough
  <2>8. slot \in Conns
    BY <1>0, <1>5 DEF answer
  <2> QED
    BY <2>3, <2>7, <2>8, WriteFlows
<1>6. ASSUME NEW x \in Threads, push_live(x) PROVE Flows(c)
  <2>1. CASE slot = None
    BY <1>1, <1>6, <2>1 DEF push_live
  <2>2. CASE slot # None
    <3>1. PICK m \in thread[x].todo : Write(x, m)
      BY <1>6, <2>2 DEF push_live
    <3>2. m \in Good'
      BY GoodGrows DEF LinesCover
    <3> QED
      BY <1>0, <2>2, <3>1, <3>2, WriteFlows
  <2> QED
    BY <2>1, <2>2
<1>7. ASSUME NEW d \in Conns, accept_loop(d) \/ attach_if_feed(d) PROVE Flows(c)
  <2>1. CASE accept_loop(d)
    <3>1. CASE conn' = [conn EXCEPT ![d].dev = "open"]
      BY <1>0, <3>1, SMT DEF Flows, Connection
    <3> QED
      BY <1>2, <2>1, <3>1 DEF accept_loop
  <2>2. CASE attach_if_feed(d)
    <3>1. CASE attach(d)
      BY <1>0, <3>1, CloseDown DEF attach, Flows
    <3> QED
      BY <1>2, <2>2, <3>1 DEF attach_if_feed
  <2> QED
    BY <1>7, <2>1, <2>2
<1>8. CASE (\E t \in Tokens : answer_pushed(t)) \/ (\E x \in Threads : push_live_pushed(x))
  <2>1. (Acked /\ ack) \/ fail
    BY <1>8 DEF answer_pushed, push_live_pushed
  <2>2. CASE fail /\ slot \notin Conns
    BY <1>0, <1>1, <2>2 DEF fail
  <2> QED
    BY <1>4, <2>1, <2>2
<1>9. CASE run_once
  <2>1. CASE UNCHANGED conn
    BY <1>1, <2>1
  <2>2. CASE ~ UNCHANGED conn
    <3>1. PICK d \in Conns :
            conn' = [conn EXCEPT ![d] = [NoConn EXCEPT !.dev = "queued", !.lap = "open"]]
      BY <1>9, <2>2 DEF run_once, FreeConns
    <3>2. [NoConn EXCEPT !.dev = "queued", !.lap = "open"].down = <<>>
      BY DEF NoConn
    <3> QED
      BY <1>0, <3>1, <3>2 DEF Flows
  <2> QED
    BY <2>1, <2>2
<1>10. CASE read_token
  <2>1. client.conn \in Conns /\ conn[client.conn].down # <<>>
        /\ conn' = [conn EXCEPT ![client.conn].down = Tail(@)]
    BY <1>10, ReadInserts DEF insert
  <2>2. conn'[c].down = IF c = client.conn THEN Tail(conn[c].down) ELSE conn[c].down
    BY <1>0, <2>1, SMT DEF Connection
  <2> QED
    BY <2>1, <2>2 DEF Flows
<1>11. CASE schedule \/ closed \/ cut
  <2> DEFINE d == client.conn
  <2>1. d \in Conns /\ conn[d] \in Connection
    BY <1>0, <1>11 DEF schedule, closed, cut
  <2>2. [conn[d] EXCEPT !.up = 0] \in Connection
    <3>1. 0 \in Nat
      BY SMT
    <3> QED
      BY <2>1, <3>1 DEF Connection
  <2>3. \/ UNCHANGED conn \/ conn' = [conn EXCEPT ![d].up = conn[d].up + 1]
        \/ conn' = [conn EXCEPT ![d] = CloseLap(conn[d])]
        \/ conn' = [conn EXCEPT ![d] = CloseLap([conn[d] EXCEPT !.up = 0])]
    BY <1>11 DEF schedule, closed, cut
  <2>4. CloseLap(conn[d]).down = <<>> /\ CloseLap([conn[d] EXCEPT !.up = 0]).down = <<>>
    BY <2>1, <2>2, CloseDown
  <2> HIDE DEF d
  <2>5. ASSUME NEW cn, cn.down = <<>>, conn' = [conn EXCEPT ![d] = cn]
        PROVE  Flows(c)
    BY <1>0, <2>5 DEF Flows
  <2> QED
    BY <1>1, <1>3, <2>1, <2>3, <2>4, <2>5
<1>12. CASE renewal_loop \/ (\E t \in Tokens : insert_if_authority(t) \/ expire(t))
            \/ (\E d \in Conns : push_attached(d)) \/ Reaping \/ accepts_at \/ Tick
            \/ UNCHANGED vars
  BY <1>1, <1>12 DEF renewal_loop, insert_if_authority, expire, push_attached, Reaping,
                     worker_reaps, worker_arms, accepts_at, Tick, vars
<1> QED
  BY <1>5, <1>6, <1>7, <1>8, <1>9, <1>10, <1>11, <1>12 DEF Next, Devbox, Laptop

\* A thread's snapshot is taken anew, shrinks or is dropped.
LEMMA SnapshotsFlow ==
    ASSUME FeedTypeOK, LinesCover, [Next]_vars, NEW x \in Threads
    PROVE  thread'[x].todo \subseteq Good
<1>0. thread \in [Threads -> Pusher] /\ \A y \in Threads : thread[y].todo \subseteq Good
  BY DEF FeedTypeOK, LinesCover
<1>1. CASE UNCHANGED thread
  BY <1>0, <1>1
<1>2. ASSUME NEW y \in Threads,
             \/ thread' = [thread EXCEPT ![y] = NoThread]
             \/ \E parts \in SUBSET Tokens : thread' = [thread EXCEPT ![y] = snapshot_live(parts)]
      PROVE  thread'[x].todo \subseteq Good
  BY <1>0, <1>2, SnapshotGood
<1>3. ASSUME NEW y \in Threads, NEW S, thread' = [thread EXCEPT ![y].todo = thread[y].todo \ S]
      PROVE  thread'[x].todo \subseteq Good
  <2>1. thread[y] \in Pusher
    BY <1>0
  <2>2. [thread[y] EXCEPT !.todo = thread[y].todo \ S].todo = thread[y].todo \ S
    BY <2>1 DEF Pusher
  <2> QED
    BY <1>0, <1>3, <2>2
<1>4. ASSUME NEW y \in Threads, NEW pc, thread' = [thread EXCEPT ![y].pc = pc]
      PROVE  thread'[x].todo \subseteq Good
  <2>1. thread[y] \in Pusher
    BY <1>0
  <2>2. [thread[y] EXCEPT !.pc = pc].todo = thread[y].todo
    BY <2>1 DEF Pusher
  <2> QED
    BY <1>0, <1>4, <2>2
<1>5. CASE renewal_loop
  BY <1>2, <1>5 DEF renewal_loop, Threads
<1>6. ASSUME NEW y \in Conns, accept_loop(y) \/ attach_if_feed(y) \/ push_attached(y)
      PROVE  thread'[x].todo \subseteq Good
  <2>1. y \in Threads
    BY DEF Threads
  <2>2. \/ UNCHANGED thread \/ thread' = [thread EXCEPT ![y].pc = "greet"]
        \/ thread' = [thread EXCEPT ![y].pc = "snapshot"]
        \/ thread' = [thread EXCEPT ![y] = NoThread]
        \/ \E parts \in SUBSET Tokens : thread' = [thread EXCEPT ![y] = snapshot_live(parts)]
    BY <1>6 DEF accept_loop, attach_if_feed, push_attached
  <2> QED
    BY <1>1, <1>2, <1>4, <2>1, <2>2
<1>7. ASSUME NEW y \in Threads, push_live(y) \/ push_live_pushed(y)
      PROVE  thread'[x].todo \subseteq Good
  <2>1. \/ UNCHANGED thread \/ thread' = [thread EXCEPT ![y] = NoThread]
        \/ \E m \in thread[y].todo : thread' = [thread EXCEPT ![y].todo = thread[y].todo \ {m}]
    BY <1>7 DEF push_live, push_live_pushed
  <2> QED
    BY <1>1, <1>2, <1>3, <2>1
<1>8. CASE (\E t \in Tokens : answer(t) \/ answer_pushed(t) \/ insert_if_authority(t) \/ expire(t))
           \/ Laptop \/ Reaping \/ accepts_at \/ cut \/ Tick \/ UNCHANGED vars
  BY <1>1, <1>8 DEF answer, answer_pushed, insert_if_authority, expire, Laptop, run_once, read_token,
                    schedule, closed, Reaping, worker_reaps, worker_arms, accepts_at, cut, Tick, vars
<1> QED
  BY <1>5, <1>6, <1>7, <1>8 DEF Next, Devbox

LEMMA CoverStep ==
    ASSUME FeedTypeOK, LinesCover, [Next]_vars
    PROVE  LinesCover'
<1>1. Good \subseteq Good'
  BY GoodGrows
<1>2. ASSUME NEW c \in Conns PROVE conn'[c].down \in Seq(Good')
  <2>1. conn[c].down \in Seq(Good)
    BY DEF LinesCover
  <2>2. /\ conn[c].down \in Seq(Good') /\ <<>> \in Seq(Good')
        /\ conn[c].down # <<>> => Tail(conn[c].down) \in Seq(Good')
        /\ \A m \in Good' : Append(conn[c].down, m) \in Seq(Good')
    BY <1>1, <2>1, SeqGrows, SMT
  <2>3. Flows(c)
    BY LinesFlow
  <2> QED
    BY <2>2, <2>3 DEF Flows
<1>3. \A x \in Threads : thread'[x].todo \subseteq Good'
  BY <1>1, SnapshotsFlow
<1> QED
  BY <1>2, <1>3 DEF LinesCover

\* The line read is long enough, and its insertion replaces the token's entry.
LEMMA ReadCovers ==
    ASSUME FeedTypeOK, LinesCover, read_token, NEW t \in Tokens,
           Head(conn[client.conn].down).token = t
    PROVE  \E e \in Range(entries') :
             /\ e.token = t /\ e.left > 0
             /\ e.left = Lease \/ e.left + 1 >= ceremony[t].left
<1> DEFINE d == client.conn
           m == Head(conn[d].down)
<1>1. d \in Conns /\ conn[d].down # <<>> /\ m.token = t
      /\ entries' = insert_until(entries, m.token, clamp_wire_ttl(m.ttl))
  BY ReadInserts DEF insert
<1>2. m \in Good
  <2>1. conn[d].down \in Seq(Good)
    BY <1>1 DEF LinesCover
  <2> QED
    BY <1>1, <2>1, SeqGrows
<1> HIDE DEF m, d
<1>3. m.token \in Tokens /\ m.ttl \in Nat \ {0} /\ m.ttl + 1 >= ceremony[m.token].left
  BY <1>2 DEF Good, Line, LongEnough
<1>4. /\ clamp_wire_ttl(m.ttl) \in Nat /\ clamp_wire_ttl(m.ttl) > 0
      /\ clamp_wire_ttl(m.ttl) \in {m.ttl, Lease}
  <2>1. Lease \in Nat \ {0}
    BY FeedConstants
  <2> QED
    BY <1>3, <2>1, SMT DEF clamp_wire_ttl
<1> DEFINE e == [token |-> m.token, left |-> clamp_wire_ttl(m.ttl)]
<1>5. e \in Range(entries')
  <2>1. entries \in Seq(Entry)
    BY DEF FeedTypeOK
  <2> QED
    BY <1>1, <1>3, <1>4, <2>1, InsertOK
<1>6. e.token = t /\ e.left = clamp_wire_ttl(m.ttl)
  BY <1>1
<1> QED
  BY <1>1, <1>3, <1>4, <1>5, <1>6

\* A line read while its token's grant is live leaves the token mirrored for
\* a full lease or for the rest of the grant but the second as_secs drops.
THEOREM RenewalsCover == Spec => RenewalCoversGrant
<1>1. Init => LinesCover
  <2>1. <<>> \in Seq(Good)
    BY SMT
  <2>2. NoConn.down = <<>> /\ NoThread.todo = {}
    BY DEF NoConn, NoThread
  <2> QED
    BY <2>1, <2>2 DEF Init, LinesCover
<1>2. FeedTypeOK /\ LinesCover /\ [Next]_vars => LinesCover'
  BY CoverStep
<1>3. FeedTypeOK /\ LinesCover =>
        [\A t \in Tokens :
           (read_token /\ Head(conn[client.conn].down).token = t /\ ceremony[t].pc = "granted")
              => \E e \in Range(entries') :
                   /\ e.token = t /\ e.left > 0
                   /\ e.left = Lease \/ e.left + 1 >= ceremony[t].left]_vars
  BY ReadCovers
<1> QED
  BY <1>1, <1>2, <1>3, FeedTypeCorrect, PTL DEF Spec, RenewalCoversGrant

-----------------------------------------------------------------------------
(***************************************************************************)
(* One line at a time: OneLine is preserved by every step, and with it     *)
(* that an acknowledged token was inserted.                                *)
(***************************************************************************)
Greets(c) == thread[c].pc = "greet"

LEMMA CloseEffect ==
    ASSUME NEW cn \in Connection
    PROVE  /\ CloseDev(cn).dev \notin {"queued", "open"}
           /\ CloseLap(cn).up \in {0, cn.up} /\ CloseLap(cn).down = <<>>
           /\ CloseLap(cn).dev \in {"none", cn.dev}
           /\ cn.dev \in {"queued", "open"} => CloseLap(cn).dev = cn.dev
<1>1. /\ [cn EXCEPT !.dev = "closed", !.up = 0].dev = "closed"
      /\ [cn EXCEPT !.lap = "closed", !.down = <<>>].up = cn.up
      /\ [cn EXCEPT !.lap = "closed", !.down = <<>>].dev = cn.dev
      /\ NoConn.dev = "none" /\ NoConn.up = 0
  BY DEF Connection, NoConn
<1> QED
  BY <1>1, CloseDown DEF CloseDev, CloseLap

\* A push begins on an attached connection with nothing under way.
LEMMA LineBegins ==
    ASSUME FeedTypeOK, OneLine, pushing = None, slot # None,
           NEW by \in Tokens \cup Threads, NEW m \in Line, Write(by, m),
           by \in Tokens => m.token = by,
           UNCHANGED <<slot, client, mirrored>>, \A c \in Conns : Greets(c)' => Greets(c)
    PROVE  OneLine'
<1>0. slot \in Conns /\ conn \in [Conns -> Connection] /\ conn[slot] \in Connection
  BY DEF FeedTypeOK
<1>1. Empty(slot) /\ conn[slot].dev = "open"
  BY <1>0 DEF OneLine, Pushed
<1>2. pushing'.token = m.token /\ pushing'.by = by /\ pushing' = [by |-> by, token |-> m.token]
  BY DEF Write
<1>3. \A c \in Conns : c # slot => conn'[c] = conn[c]
  BY <1>0 DEF Write
<1>4. /\ conn'[slot].dev = conn[slot].dev /\ conn'[slot].up = conn[slot].up
      /\ conn'[slot].down = conn[slot].down \/ conn'[slot].down = Append(conn[slot].down, m)
  BY <1>0, SMT DEF Write, Connection
<1>5. Len(Append(<<>>, m)) = 1 /\ Head(Append(<<>>, m)) = m
  BY SMT
<1>6. UnderWay'
  BY <1>1, <1>2, <1>4, <1>5 DEF Empty, UnderWay, Scheduling
<1>7. \A c \in Conns : conn'[c].dev = conn[c].dev
  BY <1>3, <1>4
<1>8. \A c \in Conns : (conn'[c].dev \in {"queued", "open"} /\ ~ Pushed(c)') => Empty(c)'
  <2> SUFFICES ASSUME NEW c \in Conns, conn'[c].dev \in {"queued", "open"}, ~ Pushed(c)'
               PROVE  Empty(c)'
    OBVIOUS
  <2>1. c # slot
    <3>1. pushing' # None
      BY <1>0, WriteOK, FeedConstants DEF Push, Threads
    <3> QED
      BY <3>1 DEF Pushed
  <2>2. Empty(c)
    BY <1>3, <2>1 DEF OneLine, Pushed
  <2> QED
    BY <1>3, <2>1, <2>2 DEF Empty, Scheduling
<1> QED
  BY <1>0, <1>1, <1>2, <1>6, <1>7, <1>8 DEF OneLine, Greets

\* A push ends: its OK was the only one, or the connection is shut.
LEMMA LineEnds ==
    ASSUME FeedTypeOK, OneLine, pushing # None, (Acked /\ ack) \/ fail,
           UNCHANGED <<client, mirrored>>, \A c \in Conns : Greets(c)' => Greets(c)
    PROVE  OneLine' /\ (Acked => pushing.token \in mirrored)
<1>0. slot \in Conns /\ conn \in [Conns -> Connection] /\ conn[slot] \in Connection /\ UnderWay
      /\ conn[slot].dev = "open" /\ pushing' = None /\ None \notin Conns
  BY FeedConstants DEF FeedTypeOK, OneLine, ack, fail
<1>1. Acked => /\ conn[slot].up = 1 /\ conn[slot].down = <<>> /\ ~ Scheduling(slot)
               /\ pushing.token \in mirrored
  <2>1. ~ (0 > 0)
    BY SMT
  <2> QED
    BY <1>0, <2>1 DEF Acked, UnderWay, Empty
<1>2. CASE Acked /\ ack
  <2>1. conn' = [conn EXCEPT ![slot].up = conn[slot].up - 1] /\ slot' = slot
    BY <1>2 DEF ack
  <2>2. 1 - 1 = 0
    BY SMT
  <2>3. /\ [conn[slot] EXCEPT !.up = conn[slot].up - 1].up = conn[slot].up - 1
        /\ [conn[slot] EXCEPT !.up = conn[slot].up - 1].down = conn[slot].down
        /\ [conn[slot] EXCEPT !.up = conn[slot].up - 1].dev = conn[slot].dev
    BY <1>0 DEF Connection
  <2>4. /\ conn'[slot].up = 0 /\ conn'[slot].down = <<>> /\ conn'[slot].dev = "open"
        /\ \A c \in Conns : c # slot => conn'[c] = conn[c]
    BY <1>0, <1>1, <1>2, <2>1, <2>2, <2>3
  <2>5. \A c \in Conns : conn'[c].dev \in {"queued", "open"} => Empty(c)'
    BY <1>1, <1>2, <2>1, <2>4 DEF OneLine, Pushed, Empty, Scheduling
  <2> QED
    BY <1>0, <1>1, <2>1, <2>4, <2>5 DEF OneLine, Greets
<1>3. CASE fail
  <2>1. conn' = [conn EXCEPT ![slot] = CloseDev(conn[slot])] /\ slot' = None
    BY <1>3 DEF fail
  <2>2. /\ conn'[slot].dev \notin {"queued", "open"}
        /\ \A c \in Conns : c # slot => conn'[c] = conn[c]
    BY <1>0, <2>1, CloseEffect
  <2>3. \A c \in Conns : conn'[c].dev \in {"queued", "open"} => Empty(c)'
    BY <2>2 DEF OneLine, Pushed, Empty, Scheduling
  <2> QED
    BY <1>0, <1>1, <2>1, <2>2, <2>3 DEF OneLine, Greets
<1> QED
  BY <1>2, <1>3

\* Accepting, attaching, refusing and taking a snapshot.
LEMMA ListenerLine ==
    ASSUME FeedTypeOK, OneLine, NEW c \in Conns,
           accept_loop(c) \/ attach_if_feed(c) \/ push_attached(c)
    PROVE  OneLine'
<1>0. /\ conn \in [Conns -> Connection] /\ conn[c] \in Connection /\ None \notin Conns
      /\ thread \in [Threads -> Pusher] /\ Conns \subseteq Threads /\ slot \in Conns \cup {None}
      /\ thread[c] \in Pusher /\ UNCHANGED <<client, mirrored, pushing>>
  BY FeedConstants DEF FeedTypeOK, Threads, accept_loop, attach_if_feed, push_attached
<1>n. NoThread.pc # "greet" /\ \A parts : snapshot_live(parts).pc # "greet"
  BY DEF NoThread, snapshot_live
\* Only c changes, and c is not the attached connection.
<1>1. ASSUME c # slot, slot' = slot, \A d \in Conns : d # c => conn'[d] = conn[d],
             \A d \in Conns : d # c => (Greets(d)' => Greets(d)),
             Greets(c)' => conn'[c].dev = "open",
             conn'[c].dev \in {"queued", "open"} => Empty(c)'
      PROVE  OneLine'
  <2>1. pushing # None => UnderWay'
    <3>1. CASE slot = None
      BY <3>1 DEF OneLine
    <3>2. CASE slot # None
      BY <1>0, <1>1, <3>2 DEF OneLine, UnderWay, Empty, Scheduling
    <3> QED
      BY <3>1, <3>2
  <2>2. \A d \in Conns : (conn'[d].dev \in {"queued", "open"} /\ ~ Pushed(d)') => Empty(d)'
    BY <1>0, <1>1 DEF OneLine, Pushed, Empty, Scheduling
  <2> QED
    BY <1>0, <1>1, <2>1, <2>2 DEF OneLine, Greets
<1>2. CASE accept_loop(c)
  <2>1. conn[c].dev = "queued" /\ slot' = slot
    BY <1>2 DEF accept_loop
  <2>2. c # slot /\ ~ Greets(c) /\ Empty(c)
    BY <1>0, <2>1 DEF OneLine, Greets, Pushed
  <2>3. CASE /\ thread' = [thread EXCEPT ![c].pc = "greet"]
             /\ conn' = [conn EXCEPT ![c].dev = "open"]
    <3>1. /\ [conn[c] EXCEPT !.dev = "open"].dev = "open"
          /\ [conn[c] EXCEPT !.dev = "open"].up = conn[c].up
          /\ [conn[c] EXCEPT !.dev = "open"].down = conn[c].down
      BY <1>0 DEF Connection
    <3>2. conn'[c] = [conn[c] EXCEPT !.dev = "open"] /\ \A d \in Conns : d # c => conn'[d] = conn[d]
      BY <1>0, <2>3
    <3>3. Empty(c)'
      BY <1>0, <2>2, <3>1, <3>2 DEF Empty, Scheduling
    <3>4. \A d \in Conns : d # c => (Greets(d)' => Greets(d))
      BY <1>0, <2>3 DEF Greets
    <3> QED
      BY <1>1, <2>1, <2>2, <3>1, <3>2, <3>3, <3>4
  <2>4. CASE conn' = [conn EXCEPT ![c] = CloseDev(@)] /\ UNCHANGED thread
    <3>1. /\ conn'[c].dev \notin {"queued", "open"}
          /\ \A d \in Conns : d # c => conn'[d] = conn[d]
      BY <1>0, <2>4, CloseEffect
    <3> QED
      BY <1>1, <2>1, <2>2, <2>4, <3>1 DEF Greets
  <2> QED
    BY <1>2, <2>3, <2>4 DEF accept_loop
<1>3. CASE attach_if_feed(c)
  <2>1. Greets(c) /\ conn[c].dev = "open" /\ c # slot
    BY <1>3 DEF attach_if_feed, OneLine, Greets
  <2>2. CASE pushing = None /\ attach(c) /\ thread' = [thread EXCEPT ![c].pc = "snapshot"]
    <3>1. slot' = c /\ \A d \in Conns : conn'[d] = IF d = slot THEN CloseDev(conn[d]) ELSE conn[d]
      BY <2>2 DEF attach
    <3>2. \A d \in Conns : d = slot => conn'[d].dev \notin {"queued", "open"}
      BY <1>0, <3>1, CloseEffect
    <3>3. [thread[c] EXCEPT !.pc = "snapshot"].pc # "greet"
      BY <1>0 DEF Pusher
    <3>4. \A d \in Conns : Greets(d)' => Greets(d) /\ d # c
      BY <1>0, <2>2, <3>3 DEF Greets
    <3>5. \A d \in Conns : conn'[d].dev \in {"queued", "open"} => Empty(d)'
      BY <1>0, <2>2, <3>1, <3>2 DEF OneLine, Pushed, Empty, Scheduling
    <3>6. conn'[c].dev = "open"
      BY <2>1, <3>1
    <3>7. \A d \in Conns : Greets(d)' => conn'[d].dev = "open" /\ d # slot'
      BY <3>1, <3>4 DEF OneLine, Greets
    <3> QED
      BY <1>0, <2>2, <3>1, <3>5, <3>6, <3>7 DEF OneLine, Greets
  <2>3. CASE /\ conn' = [conn EXCEPT ![c] = CloseDev(@)] /\ slot' = slot
             /\ thread' = [thread EXCEPT ![c] = NoThread]
    <3>1. /\ conn'[c].dev \notin {"queued", "open"}
          /\ \A d \in Conns : d # c => conn'[d] = conn[d]
      BY <1>0, <2>3, CloseEffect
    <3>2. ~ Greets(c)' /\ \A d \in Conns : d # c => (Greets(d)' => Greets(d))
      BY <1>0, <1>n, <2>3 DEF Greets
    <3> QED
      BY <1>1, <2>1, <2>3, <3>1, <3>2
  <2> QED
    BY <1>3, <2>2, <2>3 DEF attach_if_feed
<1>4. CASE push_attached(c)
  <2>1. UNCHANGED <<slot, conn>> /\ \A d \in Conns : Greets(d)' => Greets(d)
    BY <1>0, <1>4, <1>n DEF push_attached, Greets
  <2>2. UnderWay' = UnderWay /\ \A d \in Conns : Empty(d)' = Empty(d) /\ Pushed(d)' = Pushed(d)
    BY <1>0, <2>1 DEF UnderWay, Empty, Pushed, Scheduling
  <2> QED
    BY <1>0, <2>1, <2>2 DEF OneLine, Greets
<1> QED
  BY <1>2, <1>3, <1>4

INSTANCE SequenceTheorems

LEMMA TailOfOne ==
    ASSUME NEW S, NEW s \in Seq(S), Len(s) = 1
    PROVE  Tail(s) = <<>>
<1>1. Tail(s) \in Seq(S) /\ Len(Tail(s)) = 0
  BY SMT
<1> QED
  BY <1>1, EmptySeq

\* The laptop's steps: it works on one connection, and an attached one it
\* works on has the push of the slot's lock under way.
LEMMA LaptopLine ==
    ASSUME FeedTypeOK, OneLine, run_once \/ read_token \/ schedule \/ closed \/ cut
    PROVE  OneLine'
<1>0. /\ conn \in [Conns -> Connection] /\ None \notin Conns /\ slot \in Conns \cup {None}
      /\ client \in [pc : {"backoff", "read", "schedule"}, conn : Conns \cup {None}]
      /\ client.pc # "backoff" => client.conn \in Conns
      /\ UNCHANGED <<slot, pushing, thread>> /\ mirrored \subseteq mirrored'
  BY FeedConstants
     DEF FeedTypeOK, run_once, read_token, insert, malformed, schedule, closed, cut
\* Only the connection d changes.
<1>1. ASSUME NEW d \in Conns, \A c \in Conns : c # d => conn'[c] = conn[c],
             \A c \in Conns : c # d => ~ Scheduling(c) /\ ~ Scheduling(c)',
             conn[d].dev = "open" => conn'[d].dev = "open",
             (conn'[d].dev \in {"queued", "open"} /\ ~ Pushed(d)) => Empty(d)',
             (slot = d /\ pushing # None) => UnderWay'
      PROVE  OneLine'
  <2>1. pushing # None => UnderWay'
    <3>1. CASE slot = None
      BY <3>1 DEF OneLine
    <3>2. CASE slot = d
      BY <1>1, <3>2
    <3>3. CASE slot # None /\ slot # d
      BY <1>0, <1>1, <3>3 DEF OneLine, UnderWay, Empty
    <3> QED
      BY <3>1, <3>2, <3>3
  <2>2. \A c \in Conns : (conn'[c].dev \in {"queued", "open"} /\ ~ Pushed(c)') => Empty(c)'
    BY <1>0, <1>1 DEF OneLine, Pushed, Empty
  <2>3. \A c \in Conns : conn[c].dev = "open" => conn'[c].dev = "open"
    BY <1>1
  <2> QED
    BY <1>0, <2>1, <2>2, <2>3 DEF OneLine
<1>2. CASE run_once
  <2>1. CASE UNCHANGED <<conn, client, mirrored>>
    <3>1. UnderWay' = UnderWay /\ \A d \in Conns : Empty(d)' = Empty(d) /\ Pushed(d)' = Pushed(d)
      BY <1>0, <2>1 DEF UnderWay, Empty, Pushed, Scheduling
    <3> QED
      BY <1>0, <2>1, <3>1 DEF OneLine
  <2>2. CASE ~ UNCHANGED <<conn, client, mirrored>>
    <3> DEFINE new == [NoConn EXCEPT !.dev = "queued", !.lap = "open"]
    <3>1. PICK d \in FreeConns : conn' = [conn EXCEPT ![d] = new] /\ client' = [pc |-> "read", conn |-> d]
      BY <1>2, <2>2 DEF run_once
    <3>2. d \in Conns /\ conn[d].dev = "none"
      <4>1. NoConn.dev = "none"
        BY DEF NoConn
      <4> QED
        BY <4>1 DEF FreeConns
    <3>3. new.dev = "queued" /\ new.up = 0 /\ new.down = <<>>
      BY DEF NoConn
    <3> HIDE DEF new
    <3>4. conn'[d] = new /\ \A c \in Conns : c # d => conn'[c] = conn[c]
      BY <1>0, <3>1, <3>2
    <3>5. \A c \in Conns : ~ Scheduling(c) /\ ~ Scheduling(c)'
      <4>1. client'.pc = "read" /\ client.pc = "backoff"
        BY <1>2, <3>1 DEF run_once
      <4> QED
        BY <4>1 DEF Scheduling
    <3>6. slot # d
      BY <1>0, <3>2 DEF OneLine
    <3>7. Empty(d)'
      BY <3>2, <3>3, <3>4, <3>5 DEF Empty
    <3> QED
      BY <1>1, <3>2, <3>4, <3>5, <3>6, <3>7
  <2> QED
    BY <2>1, <2>2
<1>d. PICK d \in Conns \cup {None} : client.conn = d
  BY <1>0
<1>3. client.pc # "backoff" => d \in Conns /\ conn[d] \in Connection
  BY <1>d, <1>0
<1>4. CASE read_token
  <2>1. /\ d \in Conns /\ conn[d] \in Connection /\ client.pc = "read" /\ conn[d].down # <<>>
        /\ conn' = [conn EXCEPT ![d].down = Tail(conn[d].down)]
        /\ mirrored' = mirrored \cup {Head(conn[d].down).token}
        /\ client' = [client EXCEPT !.pc = "schedule"]
    BY <1>d, <1>3, <1>4, ReadInserts DEF insert
  <2>2. client'.pc = "schedule" /\ client'.conn = d
    BY <1>d, <1>0, <2>1
  <2>3. /\ conn'[d].down = Tail(conn[d].down) /\ conn'[d].up = conn[d].up /\ conn'[d].dev = conn[d].dev
    BY <1>0, <2>1, SMT DEF Connection
  <2>4. \A c \in Conns : c # d => conn'[c] = conn[c]
    BY <1>0, <2>1
  <2>5. \A c \in Conns : c # d => ~ Scheduling(c) /\ ~ Scheduling(c)'
    BY <1>d, <2>1, <2>2 DEF Scheduling
  <2>6. conn[d].dev \in {"queued", "open"} => Pushed(d)
    BY <2>1 DEF OneLine, Empty
  <2>7. ASSUME slot = d, pushing # None PROVE UnderWay'
    <3>1. Len(conn[d].down) = 1 /\ Head(conn[d].down).token = pushing.token /\ conn[d].up = 0
      BY <2>1, <2>7 DEF OneLine, UnderWay, Empty
    <3>2. Tail(conn[d].down) = <<>>
      <4>1. conn[d].down \in Seq(Line)
        BY <2>1 DEF Connection
      <4> QED
        BY <3>1, <4>1, TailOfOne
    <3> QED
      BY <1>0, <2>1, <2>2, <2>3, <2>7, <3>1, <3>2 DEF UnderWay, Scheduling
  <2> QED
    BY <1>1, <2>1, <2>3, <2>4, <2>5, <2>6, <2>7
<1>5. CASE schedule /\ client' = [client EXCEPT !.pc = "read"]
  <2>1. /\ d \in Conns /\ conn[d] \in Connection /\ client.pc = "schedule"
    BY <1>d, <1>3, <1>5 DEF schedule
  <2>2. client'.pc = "read" /\ client'.conn = d
    BY <1>d, <1>0, <1>5
  <2>3. mirrored' = mirrored
    BY <1>5 DEF schedule
  <2>4. \/ conn' = conn /\ conn[d].dev # "open"
        \/ conn' = [conn EXCEPT ![d].up = conn[d].up + 1]
        \/ conn' = [conn EXCEPT ![d] = CloseLap(conn[d])] /\ conn[d].dev = "closed"
    BY <1>d, <1>5 DEF schedule
  <2>5. \A c \in Conns : c # d => conn'[c] = conn[c]
    BY <1>0, <2>4
  <2>6. \A c \in Conns : ~ Scheduling(c)' /\ (c # d => ~ Scheduling(c))
    BY <1>d, <1>5, <2>2 DEF Scheduling
  <2>7. Scheduling(d)
    BY <1>d, <2>1 DEF Scheduling
  <2>8. conn[d].dev \in {"queued", "open"} => Pushed(d)
    BY <2>1, <2>7 DEF OneLine, Empty
  <2>9. conn[d].dev = "open" =>
          conn'[d].dev = "open" /\ conn'[d].up = conn[d].up + 1 /\ conn'[d].down = conn[d].down
    <3>1. /\ [conn[d] EXCEPT !.up = conn[d].up + 1].up = conn[d].up + 1
          /\ [conn[d] EXCEPT !.up = conn[d].up + 1].down = conn[d].down
          /\ [conn[d] EXCEPT !.up = conn[d].up + 1].dev = conn[d].dev
      BY <2>1 DEF Connection
    <3> QED
      BY <1>0, <2>1, <2>4, <3>1
  <2>10. conn'[d].dev \in {"queued", "open"} => conn[d].dev \in {"queued", "open"}
    <3>1. conn[d].dev = "closed" => CloseLap(conn[d]).dev \in {"none", "closed"}
      BY <2>1, CloseEffect
    <3>2. [conn[d] EXCEPT !.up = conn[d].up + 1].dev = conn[d].dev
      BY <2>1 DEF Connection
    <3> QED
      BY <1>0, <2>1, <2>4, <3>1, <3>2
  <2>11. ASSUME slot = d, pushing # None PROVE UnderWay'
    <3>1. conn[d].up = 0 /\ conn[d].down = <<>> /\ pushing.token \in mirrored /\ conn[d].dev = "open"
      BY <1>0, <2>1, <2>7, <2>11 DEF OneLine, UnderWay, Empty
    <3>2. 0 + 1 = 1
      BY SMT
    <3>3. conn'[d].up = 1 /\ conn'[d].down = <<>>
      BY <2>9, <3>1, <3>2
    <3> QED
      BY <1>0, <2>1, <2>3, <2>6, <2>11, <3>1, <3>3 DEF UnderWay
  <2> QED
    BY <1>1, <2>1, <2>5, <2>6, <2>8, <2>9, <2>10, <2>11
<1>6. CASE (schedule \/ closed \/ cut) /\ client' = [pc |-> "backoff", conn |-> None]
  <2>1. d \in Conns /\ conn[d] \in Connection /\ client'.pc = "backoff"
    BY <1>d, <1>3, <1>6 DEF schedule, closed, cut
  <2>2. 0 \in Nat
    BY SMT
  <2> DEFINE quiet == [conn[d] EXCEPT !.up = 0]
  <2>3. quiet \in Connection /\ quiet.up = 0 /\ quiet.dev = conn[d].dev
    BY <2>1, <2>2 DEF Connection
  <2>4. \/ conn' = [conn EXCEPT ![d] = CloseLap(conn[d])] /\ conn[d].dev = "closed"
        \/ conn' = [conn EXCEPT ![d] = CloseLap(quiet)]
    <3>1. CASE schedule
      <4>1. client' # [client EXCEPT !.pc = "read"]
        BY <1>0, <2>1
      <4> QED
        BY <1>d, <1>6, <3>1, <4>1 DEF schedule
    <3> QED
      BY <1>d, <1>6, <3>1 DEF closed, cut
  <2> HIDE DEF quiet
  <2>5. \A c \in Conns : c # d => conn'[c] = conn[c]
    BY <1>0, <2>4
  <2>6. \A c \in Conns : ~ Scheduling(c)' /\ (c # d => ~ Scheduling(c))
    BY <1>d, <2>1 DEF Scheduling
  <2>7. conn'[d].dev \in {"queued", "open"} => conn'[d].up = 0 /\ conn'[d].down = <<>>
    BY <1>0, <2>1, <2>3, <2>4, CloseEffect
  <2>8. conn[d].dev = "open" => conn'[d].dev = "open"
    BY <1>0, <2>1, <2>3, <2>4, CloseEffect
  <2>9. conn'[d].dev \in {"queued", "open"} => Empty(d)'
    BY <2>1, <2>6, <2>7 DEF Empty
  <2>10. ASSUME slot = d, pushing # None PROVE UnderWay'
    <3>1. conn[d].dev = "open"
      BY <1>0, <2>1, <2>10 DEF OneLine
    <3>2. Empty(d)'
      BY <2>8, <2>9, <3>1
    <3> QED
      BY <1>0, <2>10, <3>2 DEF UnderWay, Empty, Scheduling
  <2> QED
    BY <1>1, <2>1, <2>5, <2>6, <2>8, <2>9, <2>10
<1> QED
  BY <1>2, <1>4, <1>5, <1>6 DEF schedule, closed, cut

LEMMA LineStep ==
    ASSUME FeedTypeOK, OneLine, AckMeansInserted, [Next]_vars
    PROVE  OneLine' /\ AckMeansInserted'
<1>0. /\ ceremony \in [Tokens -> Ceremony] /\ thread \in [Threads -> Pusher]
      /\ Conns \subseteq Threads /\ NoThread.pc # "greet" /\ Threads \cap Tokens = {}
  <2>1. NoThread.pc # "greet"
    BY DEF NoThread
  <2>2. Threads \cap Tokens = {} /\ Conns \subseteq Threads
    BY FeedConstants DEF Threads
  <2> QED
    BY <2>1, <2>2 DEF FeedTypeOK
\* A step that leaves the connections, the slot and the client alone.
<1>1. ASSUME UNCHANGED <<slot, pushing, conn, client, mirrored>>,
             \A c \in Conns : Greets(c)' => Greets(c)
      PROVE  OneLine'
  <2>1. UnderWay' = UnderWay /\ \A d \in Conns : Empty(d)' = Empty(d) /\ Pushed(d)' = Pushed(d)
    BY <1>1 DEF UnderWay, Empty, Pushed, Scheduling
  <2> QED
    BY <1>1, <2>1 DEF OneLine, Greets
\* A step that grants nothing.
<1>2. ASSUME UNCHANGED ceremony, mirrored \subseteq mirrored' PROVE AckMeansInserted'
  BY <1>2 DEF AckMeansInserted
<1>3. ASSUME NEW t \in Tokens, answer(t) PROVE OneLine' /\ AckMeansInserted'
  <2>1. PICK asked \in Ttls :
          LET ttl == IF asked < Receipt[t] THEN asked ELSE Receipt[t]
          IN  /\ ceremony' = [ceremony EXCEPT ![t] = [pc |-> "push", left |-> ttl]]
              /\ Write(t, [token |-> t, ttl |-> ttl])
    BY <1>3 DEF answer
  <2> DEFINE ttl == IF asked < Receipt[t] THEN asked ELSE Receipt[t]
             m == [token |-> t, ttl |-> ttl]
  <2>2. m \in Line /\ m.token = t
    BY FeedConstants DEF Line
  <2>3. Write(t, m) /\ pushing = None /\ slot # None /\ UNCHANGED <<slot, client, mirrored, thread>>
    BY <1>3, <2>1 DEF answer
  <2>4. \A u \in Tokens : ceremony'[u].pc \in {"push", ceremony[u].pc}
    BY <1>0, <2>1
  <2> HIDE DEF m
  <2>5. OneLine'
    BY <2>2, <2>3, LineBegins DEF Greets
  <2> QED
    BY <2>3, <2>4, <2>5 DEF AckMeansInserted
<1>4. ASSUME NEW t \in Tokens, answer_pushed(t) PROVE OneLine' /\ AckMeansInserted'
  <2>1. pushing # None /\ pushing.by = t /\ UNCHANGED <<thread, client, mirrored>>
    BY <1>4 DEF answer_pushed
  <2>2. OneLine' /\ (Acked => pushing.token \in mirrored)
    BY <1>4, <2>1, LineEnds DEF answer_pushed, Greets
  <2>3. pushing.token = t
    BY <2>1 DEF OneLine
  <2>4. \/ Acked /\ ceremony' = [ceremony EXCEPT ![t].pc = "acked"]
        \/ ceremony' = [ceremony EXCEPT ![t] = [pc |-> "over", left |-> 0]]
    BY <1>4 DEF answer_pushed
  <2>5. \A u \in Tokens : u = t \/ ceremony'[u] = ceremony[u]
    BY <1>0, <2>4
  <2>6. ceremony'[t].pc = "over" \/ t \in mirrored
    <3>1. [pc |-> "over", left |-> 0].pc = "over"
      OBVIOUS
    <3> QED
      BY <1>0, <2>2, <2>3, <2>4, <3>1
  <2> QED
    BY <2>1, <2>2, <2>5, <2>6 DEF AckMeansInserted
<1>5. ASSUME NEW t \in Tokens, insert_if_authority(t) \/ expire(t)
      PROVE  OneLine' /\ AckMeansInserted'
  <2>1. OneLine' /\ UNCHANGED mirrored
    BY <1>1, <1>5 DEF insert_if_authority, expire, Greets
  <2>2. \A u \in Tokens : u = t \/ ceremony'[u] = ceremony[u]
    BY <1>0, <1>5 DEF insert_if_authority, expire
  <2>3. t \in mirrored
    BY <1>5 DEF insert_if_authority, expire, AckMeansInserted
  <2> QED
    BY <2>1, <2>2, <2>3 DEF AckMeansInserted
<1>6. ASSUME NEW x \in Threads, push_live(x) PROVE OneLine' /\ AckMeansInserted'
  <2>0. thread[x] \in Pusher /\ UNCHANGED <<slot, client, mirrored, ceremony>> /\ pushing = None
    BY <1>0, <1>6 DEF push_live
  <2>1. CASE slot = None
    <3>1. thread' = [thread EXCEPT ![x] = NoThread] /\ UNCHANGED <<pushing, conn>>
      BY <1>6, <2>1 DEF push_live
    <3>2. \A c \in Conns : Greets(c)' => Greets(c)
      BY <1>0, <3>1 DEF Greets
    <3> QED
      BY <1>1, <1>2, <2>0, <3>1, <3>2
  <2>2. CASE slot # None
    <3>1. PICK m \in thread[x].todo :
            Write(x, m) /\ thread' = [thread EXCEPT ![x].todo = thread[x].todo \ {m}]
      BY <1>6, <2>2 DEF push_live
    <3>2. m \in Line /\ [thread[x] EXCEPT !.todo = thread[x].todo \ {m}].pc = thread[x].pc
      BY <2>0 DEF Pusher
    <3>3. \A c \in Conns : Greets(c)' => Greets(c)
      BY <1>0, <3>1, <3>2 DEF Greets
    <3>4. OneLine'
      BY <1>0, <2>0, <2>2, <3>1, <3>2, <3>3, LineBegins
    <3> QED
      BY <1>2, <2>0, <3>4
  <2> QED
    BY <2>1, <2>2
<1>7. ASSUME NEW x \in Threads, push_live_pushed(x) PROVE OneLine' /\ AckMeansInserted'
  <2>1. pushing # None /\ UNCHANGED <<client, mirrored, ceremony>> /\ ((Acked /\ ack) \/ fail)
    BY <1>7 DEF push_live_pushed
  <2>2. thread' = thread \/ thread' = [thread EXCEPT ![x] = NoThread]
    BY <1>7 DEF push_live_pushed
  <2>3. \A c \in Conns : Greets(c)' => Greets(c)
    BY <1>0, <2>2 DEF Greets
  <2> QED
    BY <1>2, <2>1, <2>3, LineEnds
<1>8. ASSUME NEW c \in Conns, accept_loop(c) \/ attach_if_feed(c) \/ push_attached(c)
      PROVE  OneLine' /\ AckMeansInserted'
  <2>1. UNCHANGED <<ceremony, mirrored>>
    BY <1>8 DEF accept_loop, attach_if_feed, push_attached
  <2> QED
    BY <1>2, <1>8, <2>1, ListenerLine
<1>9. CASE Laptop \/ cut
  <2>1. UNCHANGED ceremony /\ mirrored \subseteq mirrored'
    BY <1>9 DEF Laptop, run_once, read_token, insert, malformed, schedule, closed, cut
  <2> QED
    BY <1>2, <1>9, <2>1, LaptopLine DEF Laptop
<1>10. CASE renewal_loop
  <2>1. NoThread.pc # "greet" /\ \A parts : snapshot_live(parts).pc # "greet"
    BY DEF snapshot_live, NoThread
  <2>2. \A c \in Conns : Greets(c)' => Greets(c)
    BY <1>0, <1>10, <2>1 DEF renewal_loop, Greets
  <2> QED
    BY <1>1, <1>2, <1>10, <2>2 DEF renewal_loop
<1>11. CASE Tick
  <2>1. \A t \in Tokens : ceremony'[t].pc = ceremony[t].pc
    BY <1>11, TickEffect
  <2> QED
    BY <1>1, <1>11, <2>1 DEF Tick, Greets, AckMeansInserted
<1>12. CASE Reaping \/ accepts_at \/ UNCHANGED vars
  BY <1>1, <1>2, <1>12 DEF Reaping, worker_reaps, worker_arms, accepts_at, vars, Greets
<1> QED
  BY <1>3, <1>4, <1>5, <1>6, <1>7, <1>8, <1>9, <1>10, <1>11, <1>12, ZenonT(60) DEF Next, Devbox

\* Types, and one line at a time, throughout.
LEMMA LineInvariant == Spec => [](OneLine /\ AckMeansInserted)
<1>1. Init => OneLine /\ AckMeansInserted
  <2>1. NoThread.pc # "greet" /\ NoConn.dev = "none"
    BY DEF NoThread, NoConn
  <2>2. ASSUME Init
        PROVE  /\ \A c \in Conns : thread[c].pc # "greet" /\ conn[c].dev = "none"
               /\ \A t \in Tokens : ceremony[t].pc = "idle"
    BY <2>1, <2>2 DEF Init, Threads
  <2> QED
    BY <2>2 DEF Init, OneLine, AckMeansInserted
<1>2. FeedTypeOK /\ OneLine /\ AckMeansInserted /\ [Next]_vars => OneLine' /\ AckMeansInserted'
  BY LineStep
<1> QED
  BY <1>1, <1>2, FeedTypeCorrect, PTL DEF Spec

\* A push that was acknowledged was inserted by the laptop: no OK of another
\* push or another connection is taken for this one's.
THEOREM AckedIsInserted == Spec => []AckMeansInserted
  BY LineInvariant, PTL

-----------------------------------------------------------------------------
(***************************************************************************)
(* What FeedRecovers rests on, for every instance.                         *)
(***************************************************************************)
\* Every connection the devbox has open is the slot's or has a thread that is
\* about to attach it; a queued one has no thread yet; a push is made by a
\* thread that pushes; and the laptop's end of what it reads is open.
Attended ==
    /\ \A c \in Conns : /\ conn[c].dev = "open" => slot = c \/ thread[c].pc = "greet"
                        /\ conn[c].dev = "queued" => thread[c].pc = "none"
    /\ pushing # None /\ pushing.by \in Threads => thread[pushing.by].pc = "push"
    /\ client.pc # "backoff" => conn[client.conn].lap = "open" /\ conn[client.conn].dev # "none"

\* The laptop never sits on a connection the devbox has forgotten: the one it
\* reads waits to be accepted or attached, is attached, or has been shut, which
\* makes the laptop dial again (push.rs attach, push; feed/client.rs run_once).
NoStrandedFeed ==
    client.pc # "backoff" =>
        \/ conn[client.conn].dev \in {"queued", "closed"}
        \/ conn[client.conn].dev = "open" /\ thread[client.conn].pc = "greet"
        \/ conn[client.conn].dev = "open" /\ slot = client.conn

Shut(c) == /\ conn'[c].dev \notin {"queued", "open"}
           /\ conn[c].lap = "open" => conn'[c].dev = "closed" /\ conn'[c].lap = "open"

Opened(c) == /\ conn[c].dev = "queued" /\ conn'[c].dev = "open" /\ conn'[c].lap = conn[c].lap
             /\ thread'[c].pc = "greet"

Kept(c) == /\ conn'[c].dev = conn[c].dev /\ conn'[c].lap = conn[c].lap
           /\ thread[c].pc = "none" => thread'[c].pc = "none"
           /\ thread[c].pc = "greet" => thread'[c].pc = "greet" \/ slot' = c
           /\ slot = c => slot' = c

LEMMA AttendedKeeps ==
    ASSUME FeedTypeOK, Attended, client' = client,
           \A c \in Conns : Kept(c) \/ Shut(c) \/ Opened(c),
           pushing' # None /\ pushing'.by \in Threads => thread'[pushing'.by].pc = "push"
    PROVE  Attended'
<1>1. ASSUME NEW c \in Conns
      PROVE  /\ conn'[c].dev = "open" => slot' = c \/ thread'[c].pc = "greet"
             /\ conn'[c].dev = "queued" => thread'[c].pc = "none"
  <2>1. Kept(c) \/ Shut(c) \/ Opened(c)
    BY <1>1
  <2> QED
    BY <1>1, <2>1, SMT DEF Kept, Shut, Opened, Attended
<1>2. ASSUME client.pc # "backoff"
      PROVE  conn'[client.conn].lap = "open" /\ conn'[client.conn].dev # "none"
  <2>1. PICK c \in Conns : c = client.conn
    BY <1>2 DEF FeedTypeOK
  <2>2. conn[c].lap = "open" /\ conn[c].dev # "none" /\ (Kept(c) \/ Shut(c) \/ Opened(c))
    BY <1>2, <2>1 DEF Attended
  <2>3. conn'[c].lap = "open" /\ conn'[c].dev # "none"
    BY <2>2 DEF Kept, Shut, Opened
  <2> QED
    BY <2>1, <2>3
<1> QED
  BY <1>1, <1>2 DEF Attended

LEMMA CloseDevShuts ==
    ASSUME NEW c \in Conns, conn[c] \in Connection, conn'[c] = CloseDev(conn[c])
    PROVE  Shut(c)
<1>1. /\ [conn[c] EXCEPT !.dev = "closed", !.up = 0].dev = "closed"
      /\ [conn[c] EXCEPT !.dev = "closed", !.up = 0].lap = conn[c].lap
      /\ NoConn.dev = "none"
  BY DEF Connection, NoConn
<1> QED
  BY <1>1 DEF CloseDev, Shut

LEMMA PushBeginsAttended ==
    ASSUME FeedTypeOK, Attended, slot \in Conns,
           NEW by \in Tokens \cup Threads, NEW m \in Line, Write(by, m),
           UNCHANGED <<slot, client>>, \A x \in Threads : thread'[x].pc = thread[x].pc,
           by \in Threads => thread[by].pc = "push"
    PROVE  Attended'
<1>0. conn \in [Conns -> Connection] /\ conn[slot] \in Connection /\ Conns \subseteq Threads
  BY DEF FeedTypeOK, Threads
<1>1. pushing'.by = by
  BY DEF Write
<1>2. \A c \in Conns : c # slot => conn'[c] = conn[c]
  BY <1>0 DEF Write
<1>3. /\ [conn[slot] EXCEPT !.down = Append(conn[slot].down, m)].dev = conn[slot].dev
      /\ [conn[slot] EXCEPT !.down = Append(conn[slot].down, m)].lap = conn[slot].lap
  BY <1>0 DEF Connection
<1>4. conn'[slot].dev = conn[slot].dev /\ conn'[slot].lap = conn[slot].lap
  BY <1>0, <1>3 DEF Write
<1>5. \A c \in Conns : Kept(c)
  BY <1>0, <1>2, <1>4 DEF Kept
<1> QED
  BY <1>1, <1>5, AttendedKeeps

LEMMA PushEndsAttended ==
    ASSUME FeedTypeOK, OneLine, Attended, pushing # None, (Acked /\ ack) \/ fail, client' = client,
           \A x \in Threads : thread[x].pc # "push" => thread'[x].pc = thread[x].pc
    PROVE  Attended'
<1>0. /\ conn \in [Conns -> Connection] /\ slot \in Conns /\ conn[slot] \in Connection
      /\ Conns \subseteq Threads /\ pushing' = None
  BY FeedConstants DEF FeedTypeOK, OneLine, Threads, ack, fail
<1>1. CASE Acked /\ ack
  <2>1. conn' = [conn EXCEPT ![slot].up = conn[slot].up - 1] /\ slot' = slot
    BY <1>1 DEF ack
  <2>2. /\ [conn[slot] EXCEPT !.up = conn[slot].up - 1].dev = conn[slot].dev
        /\ [conn[slot] EXCEPT !.up = conn[slot].up - 1].lap = conn[slot].lap
    BY <1>0 DEF Connection
  <2>3. \A c \in Conns : conn'[c].dev = conn[c].dev /\ conn'[c].lap = conn[c].lap
    BY <1>0, <2>1, <2>2
  <2>4. \A c \in Conns : Kept(c)
    BY <1>0, <2>1, <2>3 DEF Kept
  <2> QED
    BY <1>0, <2>4, AttendedKeeps
<1>2. CASE fail
  <2>1. conn' = [conn EXCEPT ![slot] = CloseDev(conn[slot])]
    BY <1>2 DEF fail
  <2>2. Shut(slot)
    BY <1>0, <2>1, CloseDevShuts
  <2>3. \A c \in Conns : c # slot => Kept(c)
    BY <1>0, <2>1 DEF Kept
  <2> QED
    BY <1>0, <2>2, <2>3, AttendedKeeps
<1> QED
  BY <1>1, <1>2

LEMMA ListenerAttended ==
    ASSUME FeedTypeOK, OneLine, Attended, NEW c \in Conns,
           accept_loop(c) \/ attach_if_feed(c) \/ push_attached(c)
    PROVE  Attended'
<1>0. /\ conn \in [Conns -> Connection] /\ conn[c] \in Connection /\ None \notin Conns
      /\ thread \in [Threads -> Pusher] /\ c \in Threads /\ thread[c] \in Pusher
      /\ Conns \subseteq Threads /\ slot \in Conns \cup {None} /\ UNCHANGED <<client, pushing>>
  BY FeedConstants DEF FeedTypeOK, Threads, accept_loop, attach_if_feed, push_attached
\* The other threads, and with them whoever pushes, are as they were.
<1>1. ASSUME thread[c].pc # "push", \A x \in Threads : x # c => thread'[x] = thread[x],
             \A d \in Conns : Kept(d) \/ Shut(d) \/ Opened(d)
      PROVE  Attended'
  <2>1. pushing' # None /\ pushing'.by \in Threads => thread'[pushing'.by].pc = "push"
    BY <1>0, <1>1 DEF Attended
  <2> QED
    BY <1>0, <1>1, <2>1, AttendedKeeps
<1>2. CASE accept_loop(c)
  <2>1. conn[c].dev = "queued" /\ slot' = slot /\ thread[c].pc = "none"
    BY <1>2 DEF accept_loop, Attended
  <2>2. CASE /\ thread' = [thread EXCEPT ![c].pc = "greet"]
             /\ conn' = [conn EXCEPT ![c].dev = "open"]
    <3>1. /\ [conn[c] EXCEPT !.dev = "open"].dev = "open"
          /\ [conn[c] EXCEPT !.dev = "open"].lap = conn[c].lap
      BY <1>0 DEF Connection
    <3>2. [thread[c] EXCEPT !.pc = "greet"].pc = "greet"
      BY <1>0 DEF Pusher
    <3>3. Opened(c)
      BY <1>0, <2>1, <2>2, <3>1, <3>2 DEF Opened
    <3>4. /\ \A d \in Conns : d # c => conn'[d] = conn[d]
          /\ \A x \in Threads : x # c => thread'[x] = thread[x]
      BY <1>0, <2>2
    <3>5. \A d \in Conns : d # c => Kept(d)
      BY <1>0, <2>1, <3>4 DEF Kept
    <3> QED
      BY <1>1, <2>1, <3>3, <3>4, <3>5
  <2>3. CASE conn' = [conn EXCEPT ![c] = CloseDev(@)] /\ UNCHANGED thread
    <3>1. Shut(c)
      BY <1>0, <2>3, CloseDevShuts
    <3>2. \A d \in Conns : d # c => Kept(d)
      BY <1>0, <2>1, <2>3 DEF Kept
    <3> QED
      BY <1>1, <2>1, <2>3, <3>1, <3>2
  <2> QED
    BY <1>2, <2>2, <2>3 DEF accept_loop
<1>3. CASE attach_if_feed(c)
  <2>1. thread[c].pc = "greet" /\ c # slot
    BY <1>3 DEF attach_if_feed, OneLine
  <2>2. CASE attach(c) /\ thread' = [thread EXCEPT ![c].pc = "snapshot"]
    <3>1. slot' = c /\ \A d \in Conns : conn'[d] = IF d = slot THEN CloseDev(conn[d]) ELSE conn[d]
      BY <2>2 DEF attach
    <3>2. \A x \in Threads : x # c => thread'[x] = thread[x]
      BY <1>0, <2>2
    <3>3. \A d \in Conns : d = slot => Shut(d)
      BY <1>0, <3>1, CloseDevShuts
    <3>4. \A d \in Conns : d # slot => Kept(d)
      BY <1>0, <2>1, <3>1, <3>2 DEF Kept
    <3> QED
      BY <1>1, <2>1, <3>2, <3>3, <3>4
  <2>3. CASE /\ conn' = [conn EXCEPT ![c] = CloseDev(@)] /\ slot' = slot
             /\ thread' = [thread EXCEPT ![c] = NoThread]
    <3>1. Shut(c)
      BY <1>0, <2>3, CloseDevShuts
    <3>2. /\ \A d \in Conns : d # c => Kept(d)
          /\ \A x \in Threads : x # c => thread'[x] = thread[x]
      BY <1>0, <2>3 DEF Kept
    <3> QED
      BY <1>1, <2>1, <3>1, <3>2
  <2> QED
    BY <1>3, <2>2, <2>3 DEF attach_if_feed
<1>4. CASE push_attached(c)
  <2>1. /\ thread[c].pc = "snapshot" /\ UNCHANGED <<slot, conn>>
        /\ \A x \in Threads : x # c => thread'[x] = thread[x]
    BY <1>0, <1>4 DEF push_attached
  <2>2. \A d \in Conns : Kept(d)
    BY <1>0, <2>1 DEF Kept
  <2> QED
    BY <1>1, <2>1, <2>2
<1> QED
  BY <1>2, <1>3, <1>4

LEMMA LaptopAttended ==
    ASSUME FeedTypeOK, OneLine, Attended, run_once \/ read_token \/ schedule \/ closed \/ cut
    PROVE  Attended'
<1>0. /\ conn \in [Conns -> Connection] /\ None \notin Conns
      /\ client \in [pc : {"backoff", "read", "schedule"}, conn : Conns \cup {None}]
      /\ UNCHANGED <<slot, pushing, thread>>
  BY FeedConstants
     DEF FeedTypeOK, run_once, read_token, insert, malformed, schedule, closed, cut
\* Only the connection d changes, and the devbox's end of it only by vanishing.
<1>1. ASSUME NEW d \in Conns, \A c \in Conns : c # d => conn'[c] = conn[c],
             \/ conn'[d].dev \in {conn[d].dev, "none"}
             \/ conn'[d].dev = "queued" /\ thread[d].pc = "none",
             client'.pc # "backoff" => /\ client'.conn = d
                                       /\ conn'[d].lap = "open" /\ conn'[d].dev # "none"
      PROVE  Attended'
  <2>1. ASSUME NEW c \in Conns
        PROVE  /\ conn'[c].dev = "open" => slot' = c \/ thread'[c].pc = "greet"
               /\ conn'[c].dev = "queued" => thread'[c].pc = "none"
    BY <1>0, <1>1, <2>1, SMT DEF Attended
  <2> QED
    BY <1>0, <1>1, <2>1 DEF Attended
<1>2. CASE run_once
  <2>1. CASE UNCHANGED <<conn, client>>
    BY <1>0, <2>1 DEF Attended
  <2>2. CASE ~ UNCHANGED <<conn, client>>
    <3>n. PICK new : new = [NoConn EXCEPT !.dev = "queued", !.lap = "open"]
      OBVIOUS
    <3>1. PICK d \in FreeConns : conn' = [conn EXCEPT ![d] = new] /\ client' = [pc |-> "read", conn |-> d]
      BY <1>2, <2>2, <3>n DEF run_once
    <3>2. d \in Conns /\ thread[d].pc = "none"
      BY DEF FreeConns
    <3>3. new.dev = "queued" /\ new.lap = "open" /\ client'.conn = d
      BY <3>n, <3>1 DEF NoConn
    <3>4. conn'[d] = new /\ \A c \in Conns : c # d => conn'[c] = conn[c]
      BY <1>0, <3>1, <3>2
    <3> QED
      BY <1>1, <3>2, <3>3, <3>4
  <2> QED
    BY <2>1, <2>2
<1>3. ASSUME client.pc # "backoff"
      PROVE  client.conn \in Conns /\ conn[client.conn] \in Connection
             /\ conn[client.conn].lap = "open" /\ conn[client.conn].dev # "none"
  BY <1>3 DEF FeedTypeOK, Attended
<1>d. PICK d : d = client.conn
  OBVIOUS
<1>4. CASE (schedule \/ closed \/ cut) /\ client' = [pc |-> "backoff", conn |-> None]
  <2>1. d \in Conns /\ conn[d] \in Connection /\ client'.pc = "backoff"
    BY <1>3, <1>4, <1>d DEF schedule, closed, cut
  <2>q. PICK quiet : quiet = [conn[d] EXCEPT !.up = 0]
    OBVIOUS
  <2>2. 0 \in Nat
    BY SMT
  <2>3. quiet \in Connection /\ quiet.dev = conn[d].dev
    BY <2>1, <2>2, <2>q DEF Connection
  <2>4. conn' = [conn EXCEPT ![d] = CloseLap(conn[d])] \/ conn' = [conn EXCEPT ![d] = CloseLap(quiet)]
    <3>1. CASE schedule
      <4>1. client' # [client EXCEPT !.pc = "read"]
        BY <1>0, <2>1
      <4> QED
        BY <1>4, <1>d, <3>1, <4>1 DEF schedule
    <3> QED
      BY <1>4, <1>d, <2>q, <3>1 DEF closed, cut
  <2>5. \A c \in Conns : c # d => conn'[c] = conn[c]
    BY <1>0, <2>4
  <2>6. conn'[d].dev \in {conn[d].dev, "none"}
    BY <1>0, <2>1, <2>3, <2>4, CloseEffect
  <2> QED
    BY <1>1, <2>1, <2>5, <2>6
<1>5. ASSUME client.pc # "backoff", client'.conn = d, NEW x,
             conn' = conn \/ conn' = [conn EXCEPT ![d] = x], x.dev = conn[d].dev, x.lap = conn[d].lap
      PROVE  Attended'
  <2>1. d \in Conns /\ conn[d].lap = "open" /\ conn[d].dev # "none"
    BY <1>3, <1>5, <1>d
  <2>2. /\ conn'[d].dev = conn[d].dev /\ conn'[d].lap = conn[d].lap
        /\ \A c \in Conns : c # d => conn'[c] = conn[c]
    BY <1>0, <1>5, <2>1
  <2> QED
    BY <1>1, <1>5, <2>1, <2>2
<1>6. CASE read_token
  <2>1. client.pc # "backoff" /\ client' = [client EXCEPT !.pc = "schedule"]
    BY <1>6, ReadInserts DEF insert
  <2>2. conn[d] \in Connection /\ client'.conn = d
    BY <1>0, <1>3, <1>d, <2>1
  <2>3. PICK x : x = [conn[d] EXCEPT !.down = Tail(conn[d].down)]
    OBVIOUS
  <2>4. conn' = [conn EXCEPT ![d] = x]
    BY <1>6, <1>d, <2>3, ReadInserts DEF insert
  <2>5. x.dev = conn[d].dev /\ x.lap = conn[d].lap
    BY <2>2, <2>3 DEF Connection
  <2> QED
    BY <1>5, <2>1, <2>2, <2>4, <2>5
<1>7. CASE schedule /\ ~ (client' = [pc |-> "backoff", conn |-> None])
  <2>1. client.pc # "backoff" /\ client' = [client EXCEPT !.pc = "read"]
    BY <1>7 DEF schedule
  <2>2. conn[d] \in Connection /\ client'.conn = d
    BY <1>0, <1>3, <1>d, <2>1
  <2>3. PICK x : x = [conn[d] EXCEPT !.up = conn[d].up + 1]
    OBVIOUS
  <2>4. conn' = conn \/ conn' = [conn EXCEPT ![d] = x]
    BY <1>7, <1>d, <2>3 DEF schedule
  <2>5. x.dev = conn[d].dev /\ x.lap = conn[d].lap
    BY <2>2, <2>3 DEF Connection
  <2> QED
    BY <1>5, <2>1, <2>2, <2>4, <2>5
<1> QED
  BY <1>2, <1>4, <1>6, <1>7 DEF closed, cut

LEMMA AttendedStep ==
    ASSUME FeedTypeOK, OneLine, Attended, [Next]_vars
    PROVE  Attended'
<1>0. /\ thread \in [Threads -> Pusher] /\ Conns \subseteq Threads /\ Threads \cap Tokens = {}
      /\ Renewer \notin Conns /\ slot \in Conns \cup {None}
  <2>1. Threads \cap Tokens = {} /\ Conns \subseteq Threads /\ Renewer \notin Conns
    BY FeedConstants DEF Threads
  <2> QED
    BY <2>1 DEF FeedTypeOK
<1>1. ASSUME UNCHANGED <<slot, pushing, conn, client, thread>> PROVE Attended'
  BY <1>1 DEF Attended
<1>2. ASSUME NEW t \in Tokens, answer(t) PROVE Attended'
  <2>1. PICK ttl \in Nat \ {0} : Write(t, [token |-> t, ttl |-> ttl])
    BY <1>2, FeedConstants DEF answer
  <2>2. [token |-> t, ttl |-> ttl] \in Line
    BY DEF Line
  <2>3. slot \in Conns /\ t \notin Threads /\ UNCHANGED <<slot, client, thread>>
    BY <1>0, <1>2 DEF answer
  <2> QED
    BY <2>1, <2>2, <2>3, PushBeginsAttended
<1>3. ASSUME NEW t \in Tokens, answer_pushed(t) PROVE Attended'
  <2>1. pushing # None /\ UNCHANGED <<thread, client>> /\ ((Acked /\ ack) \/ fail)
    BY <1>3 DEF answer_pushed
  <2> QED
    BY <2>1, PushEndsAttended
<1>4. ASSUME NEW x \in Threads, push_live(x) PROVE Attended'
  <2>0. /\ thread[x] \in Pusher /\ thread[x].pc = "push" /\ pushing = None
        /\ UNCHANGED <<slot, client>>
    BY <1>0, <1>4 DEF push_live
  <2>1. CASE slot = None
    <3>1. thread' = [thread EXCEPT ![x] = NoThread] /\ UNCHANGED <<pushing, conn>>
      BY <1>4, <2>1 DEF push_live
    <3>2. \A c \in Conns : Kept(c)
      BY <1>0, <2>0, <3>1 DEF Kept
    <3> QED
      BY <2>0, <3>1, <3>2, AttendedKeeps
  <2>2. CASE slot # None
    <3>1. PICK m \in thread[x].todo :
            Write(x, m) /\ thread' = [thread EXCEPT ![x].todo = thread[x].todo \ {m}]
      BY <1>4, <2>2 DEF push_live
    <3>2. m \in Line /\ [thread[x] EXCEPT !.todo = thread[x].todo \ {m}].pc = thread[x].pc
      BY <2>0 DEF Pusher
    <3>3. \A y \in Threads : thread'[y].pc = thread[y].pc
      BY <1>0, <3>1, <3>2
    <3> QED
      BY <1>0, <2>0, <2>2, <3>1, <3>2, <3>3, PushBeginsAttended
  <2> QED
    BY <2>1, <2>2
<1>5. ASSUME NEW x \in Threads, push_live_pushed(x) PROVE Attended'
  <2>1. /\ pushing # None /\ pushing.by = x /\ client' = client /\ ((Acked /\ ack) \/ fail)
        /\ thread' = thread \/ thread' = [thread EXCEPT ![x] = NoThread]
    BY <1>5 DEF push_live_pushed
  <2>2. thread[x].pc = "push"
    BY <2>1 DEF Attended
  <2>3. \A y \in Threads : thread[y].pc # "push" => thread'[y].pc = thread[y].pc
    BY <1>0, <2>1, <2>2
  <2> QED
    BY <2>1, <2>3, PushEndsAttended
<1>6. CASE renewal_loop
  <2>1. /\ pushing = None /\ UNCHANGED <<slot, pushing, conn, client>>
        /\ \A c \in Conns : thread'[c] = thread[c]
    BY <1>0, <1>6 DEF renewal_loop
  <2>2. \A c \in Conns : Kept(c)
    BY <2>1 DEF Kept
  <2> QED
    BY <2>1, <2>2, AttendedKeeps
<1>7. CASE \E t \in Tokens : insert_if_authority(t) \/ expire(t)
  BY <1>1, <1>7 DEF insert_if_authority, expire
<1>8. CASE Reaping \/ accepts_at \/ Tick \/ UNCHANGED vars
  BY <1>1, <1>8 DEF Reaping, worker_reaps, worker_arms, accepts_at, Tick, vars
<1> QED
  BY <1>2, <1>3, <1>4, <1>5, <1>6, <1>7, <1>8, ListenerAttended, LaptopAttended, ZenonT(60)
     DEF Next, Devbox, Laptop

\* The laptop is never left on a connection that the devbox keeps open and does
\* not use: what it reads will be attached, is attached, or ends.
THEOREM FeedIsNotStranded == Spec => []NoStrandedFeed
<1>1. Init => Attended
  <2>1. NoThread.pc = "none" /\ NoConn.dev = "none"
    BY DEF NoThread, NoConn
  <2>2. ASSUME Init
        PROVE  /\ \A c \in Conns : conn[c].dev = "none"
               /\ pushing = None /\ client.pc = "backoff"
    BY <2>1, <2>2 DEF Init
  <2> QED
    BY <2>2 DEF Attended
<1>2. FeedTypeOK /\ OneLine /\ Attended /\ [Next]_vars => Attended'
  BY AttendedStep
<1>3. FeedTypeOK /\ Attended => NoStrandedFeed
  BY DEF FeedTypeOK, Connection, Attended, NoStrandedFeed
<1> QED
  BY <1>1, <1>2, <1>3, FeedTypeCorrect, LineInvariant, PTL DEF Spec
=============================================================================
