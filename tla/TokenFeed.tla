----------------------------- MODULE TokenFeed -----------------------------
(***************************************************************************)
(* The grant feed: crates/forward/src/browser/push.rs on the devbox,       *)
(* browser/feed.rs, feed/client.rs and feed/reaper.rs on the laptop, and   *)
(* the part of the GRANT ceremony that publishes a relay token.            *)
(*                                                                         *)
(* The laptop dials the devbox and keeps one TCP connection, the feed.     *)
(* The devbox writes `TOKEN <token> <ttl>` on it and waits for `OK` with   *)
(* the slot's lock held; three kinds of thread push: a ceremony, the       *)
(* renewer, and the thread that attached a new connection.  The laptop     *)
(* mirrors the tokens for at most a lease and a timer scrubs the expired.  *)
(* Connections break, acknowledgements come late, an older connection may  *)
(* attach after a newer one.  Time is counted in seconds.                  *)
(***************************************************************************)
EXTENDS Integers, Sequences, FiniteSets, Functions, Retain

CONSTANTS Tokens,      \* one per ceremony: minted once, never reused
          Conns,       \* TCP connections, reused once both ends are closed
          Renewer,     \* the renewer thread; the others are named by their connection
          Permits,     \* ConnectionLimit of the listener
          Ttls,        \* what a ceremony may ask for
          Receipt,     \* per token: the time its ceremony's receipt allows
          Lease,       \* LEASE
          MaxLive,     \* MAX_LIVE_TOKENS
          MaxFaults,   \* how often the network may fail (a bound of the model)
          None

ASSUME FeedConstants ==
    /\ Permits \in Nat /\ MaxFaults \in Nat
    /\ Lease \in Nat \ {0} /\ MaxLive \in Nat \ {0} /\ Ttls \subseteq Nat \ {0}
    /\ Receipt \in [Tokens -> Nat \ {0}]
    /\ Renewer \notin Conns \cup Tokens /\ Conns \cap Tokens = {}
    /\ None \notin Tokens \cup Conns \cup {Renewer} \cup Nat
    /\ None \notin [by : Tokens \cup Conns \cup {Renewer}, token : Tokens]

VARIABLES ceremony,  \* per token: the ceremony and then its grant
          slot,      \* FeedSlot: the attached connection
          pushing,   \* who holds the slot's lock across a push, and the token
          thread,    \* the devbox's renewer and attaching threads
          conn,      \* the connections: each end's state and what is in flight
          client,    \* the laptop's feed client
          entries,   \* RelayTokens: the mirrored tokens, oldest first
          timer,     \* the reaper's timerfd: None when unset
          reaper,    \* the reaper thread
          faults,    \* faults the network may still make
          mirrored   \* history: the tokens the laptop ever inserted

vars == <<ceremony, slot, pushing, thread, conn, client, entries, timer, reaper, faults, mirrored>>

Threads == Conns \cup {Renewer}
NoConn == [dev |-> "none", lap |-> "none", down |-> <<>>, up |-> 0]
NoThread == [pc |-> "none", todo |-> {}]

Init ==
    /\ ceremony = [t \in Tokens |-> [pc |-> "idle", left |-> 0]]
    /\ slot = None /\ pushing = None
    /\ thread = [x \in Threads |-> NoThread]
    /\ conn = [c \in Conns |-> NoConn]
    /\ client = [pc |-> "backoff", conn |-> None]
    /\ entries = <<>> /\ timer = None /\ reaper = "wait"
    /\ faults = MaxFaults /\ mirrored = {}

\* Closing an end loses what it had not read; a connection closed at both ends
\* is gone.
CloseDev(cn) == IF cn.lap # "open" THEN NoConn ELSE [cn EXCEPT !.dev = "closed", !.up = 0]
CloseLap(cn) == IF cn.dev \in {"none", "closed"} THEN NoConn
                ELSE [cn EXCEPT !.lap = "closed", !.down = <<>>]

-----------------------------------------------------------------------------
(***************************************************************************)
(* FeedSlot::push: write the line, then wait for OK, under the slot lock.  *)
(***************************************************************************)
\* The line is lost when the laptop has already gone.
Write(by, m) ==
    /\ pushing' = [by |-> by, token |-> m.token]
    /\ conn' = IF conn[slot].lap = "open" /\ conn[slot].dev = "open"
               THEN [conn EXCEPT ![slot].down = Append(@, m)]
               ELSE conn

\* OK arrives in time.
Acked == pushing # None /\ conn[slot].up > 0

ack ==
    /\ pushing' = None
    /\ conn' = [conn EXCEPT ![slot].up = @ - 1]
    /\ UNCHANGED slot

\* Five seconds without OK, or an error: the slot is emptied and shut.
FailKeepsSlot ==
    /\ pushing' = None
    /\ UNCHANGED <<slot, conn>>
fail ==
    /\ pushing' = None
    /\ slot' = None
    /\ conn' = [conn EXCEPT ![slot] = CloseDev(@)]

-----------------------------------------------------------------------------
(***************************************************************************)
(* The ceremony: push, recheck the broker's authority, insert the grant.   *)
(***************************************************************************)
\* The receipt is redeemed and the authority current.  Without a feed the
\* grant is refused and the minted token dropped, which leaves no trace.
answer(t) ==
    /\ ceremony[t].pc = "idle" /\ pushing = None /\ slot # None
    /\ \E asked \in Ttls :
         LET ttl == IF asked < Receipt[t] THEN asked ELSE Receipt[t]
         IN /\ ceremony' = [ceremony EXCEPT ![t] = [pc |-> "push", left |-> ttl]]
            /\ Write(t, [token |-> t, ttl |-> ttl])
    /\ UNCHANGED <<slot, thread, client, entries, timer, reaper, faults, mirrored>>

answer_pushed(t) ==
    /\ pushing # None /\ pushing.by = t
    /\ \/ Acked /\ ack /\ ceremony' = [ceremony EXCEPT ![t].pc = "acked"]
       \/ ~ Acked /\ fail /\ ceremony' = [ceremony EXCEPT ![t] = [pc |-> "over", left |-> 0]]
    /\ UNCHANGED <<thread, client, entries, timer, reaper, faults, mirrored>>

\* The recheck and the insertion: a lock or a broker restart since redemption
\* refuses the grant although its token was pushed.
insert_if_authority(t) ==
    /\ ceremony[t].pc = "acked"
    /\ \/ ceremony' = [ceremony EXCEPT ![t].pc = "granted"]
       \/ ceremony' = [ceremony EXCEPT ![t] = [pc |-> "revoked", left |-> 0]]
    /\ UNCHANGED <<slot, pushing, thread, conn, client, entries, timer, reaper, faults, mirrored>>

\* The grant ends: revoked, its holder gone, or reaped at its deadline.
expire(t) ==
    /\ ceremony[t].pc = "granted"
    /\ ceremony' = [ceremony EXCEPT ![t] = [pc |-> "over", left |-> 0]]
    /\ UNCHANGED <<slot, pushing, thread, conn, client, entries, timer, reaper, faults, mirrored>>

-----------------------------------------------------------------------------
(***************************************************************************)
(* The devbox's listener and its pushing threads.                          *)
(***************************************************************************)
\* One thread per accepted connection while permits last.
accept_loop(c) ==
    /\ conn[c].dev = "queued"
    /\ IF Cardinality({d \in Conns : thread[d].pc # "none"}) < Permits
       THEN /\ thread' = [thread EXCEPT ![c].pc = "greet"]
            /\ conn' = [conn EXCEPT ![c].dev = "open"]
       ELSE /\ conn' = [conn EXCEPT ![c] = CloseDev(@)]
            /\ UNCHANGED thread
    /\ UNCHANGED <<ceremony, slot, pushing, client, entries, timer, reaper, faults, mirrored>>

\* The greeting read, the connection displaces the attached one.
AttachLeavesOpen(c) == slot' = c /\ UNCHANGED conn
attach(c) ==
    /\ slot' = c
    /\ conn' = [d \in Conns |-> IF d = slot THEN CloseDev(conn[d]) ELSE conn[d]]

attach_if_feed(c) ==
    /\ thread[c].pc = "greet"
    /\ \/ /\ pushing = None
          /\ attach(c)
          /\ thread' = [thread EXCEPT ![c].pc = "snapshot"]
          /\ UNCHANGED faults
       \/ /\ faults > 0 /\ faults' = faults - 1     \* no greeting in time
          /\ conn' = [conn EXCEPT ![c] = CloseDev(@)]
          /\ thread' = [thread EXCEPT ![c] = NoThread]
          /\ UNCHANGED slot
    /\ UNCHANGED <<ceremony, pushing, client, entries, timer, reaper, mirrored>>

\* Live tokens with their remaining time: those in the grant table.
Registered(t) == ceremony[t].pc = "granted"
\* as_secs().max(1).  A grant's left is in seconds, the one under way
\* included: when the snapshot falls within a second (part), as_secs drops it.
WholeSeconds(t, part) == IF part THEN ceremony[t].left - 1 ELSE ceremony[t].left
RemainingTtl(t, part) == IF part /\ ceremony[t].left > 1
                         THEN ceremony[t].left - 1 ELSE ceremony[t].left

snapshot_live(parts) ==
    LET live == {t \in Tokens : Registered(t) /\ ceremony[t].left > 0}
    IN IF live = {} THEN NoThread
       ELSE [pc |-> "push",
             todo |-> {[token |-> t, ttl |-> RemainingTtl(t, t \in parts)] : t \in live}]

\* Every RENEW; without an attached feed the round does nothing.
renewal_loop ==
    /\ thread[Renewer].pc = "none"
    /\ pushing = None
    /\ \E parts \in SUBSET Tokens :
         thread' = [thread EXCEPT ![Renewer] =
                      IF slot = None THEN NoThread ELSE snapshot_live(parts)]
    /\ UNCHANGED <<ceremony, slot, pushing, conn, client, entries, timer, reaper, faults, mirrored>>

push_attached(c) ==
    /\ thread[c].pc = "snapshot"
    /\ \E parts \in SUBSET Tokens : thread' = [thread EXCEPT ![c] = snapshot_live(parts)]
    /\ UNCHANGED <<ceremony, slot, pushing, conn, client, entries, timer, reaper, faults, mirrored>>

\* The next token of the snapshot, in the map's order; an empty slot ends it.
push_live(x) ==
    /\ thread[x].pc = "push" /\ pushing = None
    /\ IF slot = None
       THEN thread' = [thread EXCEPT ![x] = NoThread] /\ UNCHANGED <<pushing, conn>>
       ELSE \E m \in thread[x].todo :
              Write(x, m) /\ thread' = [thread EXCEPT ![x].todo = @ \ {m}]
    /\ UNCHANGED <<ceremony, slot, client, entries, timer, reaper, faults, mirrored>>

\* A failed push abandons the rest of the snapshot.
push_live_pushed(x) ==
    /\ pushing # None /\ pushing.by = x
    /\ \/ /\ Acked /\ ack
          /\ thread' = IF thread[x].todo = {} THEN [thread EXCEPT ![x] = NoThread] ELSE thread
       \/ /\ ~ Acked /\ fail
          /\ thread' = [thread EXCEPT ![x] = NoThread]
    /\ UNCHANGED <<ceremony, client, entries, timer, reaper, faults, mirrored>>

-----------------------------------------------------------------------------
(***************************************************************************)
(* The laptop's feed client.                                               *)
(***************************************************************************)
FreeConns == {c \in Conns : conn[c] = NoConn /\ thread[c].pc = "none"}

\* client_loop: back to dialling after any end of the previous connection.
\* Connecting and greeting precede the devbox's accept.
run_once ==
    /\ client.pc = "backoff"
    /\ \/ /\ FreeConns # {}
          /\ LET c == CHOOSE d \in FreeConns : TRUE
             IN /\ conn' = [conn EXCEPT ![c] = [NoConn EXCEPT !.dev = "queued", !.lap = "open"]]
                /\ client' = [pc |-> "read", conn |-> c]
          /\ UNCHANGED faults
       \/ faults > 0 /\ faults' = faults - 1 /\ UNCHANGED <<conn, client>>
    /\ UNCHANGED <<ceremony, slot, pushing, thread, entries, timer, reaper, mirrored>>

\* RelayTokens::insert_until: drop the expired and the token itself, make room
\* by dropping the oldest, append.
insert_until(es, t, left) ==
    LET kept == retain(es, {i \in DOMAIN es : es[i].left > 0 /\ es[i].token # t})
        room == IF Len(kept) = MaxLive THEN Tail(kept) ELSE kept
    IN Append(room, [token |-> t, left |-> left])

clamp_wire_ttl(ttl) == IF ttl < Lease THEN ttl ELSE Lease

insert(m) ==
    /\ entries' = insert_until(entries, m.token, clamp_wire_ttl(m.ttl))
    /\ mirrored' = mirrored \cup {m.token}
    /\ conn' = [conn EXCEPT ![client.conn].down = Tail(@)]
    /\ client' = [client EXCEPT !.pc = "schedule"]

\* parse_token_line takes no ttl of zero: the connection ends.
malformed ==
    /\ client' = [pc |-> "backoff", conn |-> None]
    /\ conn' = [conn EXCEPT ![client.conn] = CloseLap(@)]
    /\ UNCHANGED <<entries, mirrored>>

read_token ==
    /\ client.pc = "read"
    /\ conn[client.conn].down # <<>>
    /\ LET m == Head(conn[client.conn].down)
       IN IF m.ttl = 0 THEN malformed ELSE insert(m)
    /\ UNCHANGED <<ceremony, slot, pushing, thread, timer, reaper, faults>>

\* Reaper::arm: the timer is set to the earliest deadline, or unset.
next_deadline == IF entries = <<>> THEN None
                 ELSE CHOOSE d \in {e.left : e \in Range(entries)} :
                        \A e \in Range(entries) : d <= e.left

\* The inserting thread arms the timer and answers.  A write to a connection
\* the devbox has shut may still seem to succeed.
schedule ==
    /\ client.pc = "schedule"
    /\ timer' = next_deadline
    /\ \/ /\ client' = [client EXCEPT !.pc = "read"]
          /\ conn' = IF conn[client.conn].dev = "open"
                     THEN [conn EXCEPT ![client.conn].up = @ + 1] ELSE conn
       \/ /\ conn[client.conn].dev = "closed"
          /\ client' = [pc |-> "backoff", conn |-> None]
          /\ conn' = [conn EXCEPT ![client.conn] = CloseLap(@)]
    /\ UNCHANGED <<ceremony, slot, pushing, thread, entries, reaper, faults, mirrored>>

\* The devbox's end is closed and everything before it read, or the
\* connection is dead.
closed ==
    /\ client.pc = "read"
    /\ conn[client.conn].dev = "closed" /\ conn[client.conn].down = <<>>
    /\ client' = [pc |-> "backoff", conn |-> None]
    /\ conn' = [conn EXCEPT ![client.conn] = CloseLap(@)]
    /\ UNCHANGED <<ceremony, slot, pushing, thread, entries, timer, reaper, faults, mirrored>>

\* The network drops the connection: what is in flight is lost.  The laptop's
\* keepalive notices; the devbox notices when it pushes.
cut ==
    /\ faults > 0 /\ faults' = faults - 1
    /\ client.pc = "read"
    /\ client' = [pc |-> "backoff", conn |-> None]
    /\ conn' = [conn EXCEPT ![client.conn] = CloseLap([@ EXCEPT !.up = 0])]
    /\ UNCHANGED <<ceremony, slot, pushing, thread, entries, timer, reaper, mirrored>>

-----------------------------------------------------------------------------
(***************************************************************************)
(* The reaper, the relay's reads of the mirror, and time.                  *)
(***************************************************************************)
reap_expired == entries' = retain(entries, {i \in DOMAIN entries : entries[i].left > 0})

\* The one-shot timer fires; the worker scrubs and then arms it again.
worker_reaps ==
    /\ reaper = "wait" /\ timer = 0
    /\ timer' = None
    /\ reap_expired
    /\ reaper' = "arm"
    /\ UNCHANGED <<ceremony, slot, pushing, thread, conn, client, faults, mirrored>>

ArmsNothing ==
    /\ reaper = "arm"
    /\ timer' = None
    /\ reaper' = "wait"
    /\ UNCHANGED <<ceremony, slot, pushing, thread, conn, client, entries, faults, mirrored>>
worker_arms ==
    /\ reaper = "arm"
    /\ timer' = next_deadline
    /\ reaper' = "wait"
    /\ UNCHANGED <<ceremony, slot, pushing, thread, conn, client, entries, faults, mirrored>>

\* Every token a relay connection presents drops the expired first.
accepts_at ==
    /\ \E e \in Range(entries) : e.left = 0
    /\ reap_expired
    /\ UNCHANGED <<ceremony, slot, pushing, thread, conn, client, timer, reaper, faults, mirrored>>

Tick ==
    /\ \/ \E e \in Range(entries) : e.left > 0
       \/ \E t \in Tokens : ceremony[t].pc = "granted" /\ ceremony[t].left > 0
    /\ entries' = [i \in DOMAIN entries |->
                     [entries[i] EXCEPT !.left = IF @ > 0 THEN @ - 1 ELSE 0]]
    /\ ceremony' = [t \in Tokens |->
                      IF ceremony[t].pc = "granted" /\ ceremony[t].left > 0
                      THEN [ceremony[t] EXCEPT !.left = @ - 1] ELSE ceremony[t]]
    /\ timer' = IF timer = None \/ timer = 0 THEN timer ELSE timer - 1
    /\ UNCHANGED <<slot, pushing, thread, conn, client, reaper, faults, mirrored>>

-----------------------------------------------------------------------------
Devbox == \/ renewal_loop
          \/ \E t \in Tokens : answer(t) \/ answer_pushed(t) \/ insert_if_authority(t) \/ expire(t)
          \/ \E c \in Conns : accept_loop(c) \/ attach_if_feed(c) \/ push_attached(c)
          \/ \E x \in Threads : push_live(x) \/ push_live_pushed(x)
Laptop == run_once \/ read_token \/ schedule \/ closed
Reaping == worker_reaps \/ worker_arms
Next == Devbox \/ Laptop \/ Reaping \/ accepts_at \/ cut \/ Tick

(***************************************************************************)
(* Threads run, a push ends within its timeout and a sleeping client       *)
(* dials again.  The slot's mutex is fair, so a thread that wants it again *)
(* and again gets it.  Nothing obliges a ceremony to start, a grant to     *)
(* end, the network to fail or a relay connection to arrive; the renewer   *)
(* and the reaper need not be fair for what is checked.                    *)
(***************************************************************************)
PushEnds == \/ \E t \in Tokens : answer_pushed(t)
            \/ \E x \in Threads : push_live_pushed(x)
Serve(c) == accept_loop(c) \/ attach_if_feed(c) \/ push_attached(c) \/ push_live(c)

Fairness ==
    /\ WF_vars(PushEnds)
    /\ \A c \in Conns : SF_vars(Serve(c) /\ faults' = faults)
    /\ WF_vars(Laptop /\ faults' = faults)

Spec == Init /\ [][Next]_vars /\ Fairness

-----------------------------------------------------------------------------
(***************************************************************************)
(* A push that was acknowledged was inserted by the laptop: no OK of an    *)
(* earlier push, of a timed-out one or of another connection is taken for  *)
(* this one's.  push.rs: "a token the laptop never acknowledged would be a *)
(* dead grant sold as live".                                               *)
(***************************************************************************)
AckMeansInserted ==
    \A t \in Tokens : ceremony[t].pc \in {"acked", "revoked", "granted"} => t \in mirrored

(***************************************************************************)
(* While a mirrored token is in memory the reaper's timer is set no later  *)
(* than its deadline, unless a thread is about to set it: insertions, the  *)
(* worker's own reaping and rearming, and a relay's read interleave freely *)
(* (feed/reaper.rs arm, worker).                                           *)
(***************************************************************************)
ReaperArmed ==
    (client.pc # "schedule" /\ reaper = "wait") =>
        \A e \in Range(entries) : timer # None /\ timer <= e.left

(***************************************************************************)
(* A line the laptop reads while its token's grant is live leaves the      *)
(* token mirrored for a full lease or for the rest of the grant, but the   *)
(* second under way that as_secs drops, however late the line and however  *)
(* old the snapshot it came from; the last second of a grant is not sent   *)
(* as no time at all, which the laptop would refuse (grant.rs              *)
(* snapshot_live, feed.rs insert, feed/client.rs parse_token_line).  (A    *)
(* late line may outlive its grant: the lease is what bounds that.)        *)
(***************************************************************************)
RenewalCoversGrant ==
    [][\A t \in Tokens :
         (read_token /\ Head(conn[client.conn].down).token = t /\ ceremony[t].pc = "granted")
            => \E e \in Range(entries') :
                 /\ e.token = t /\ e.left > 0
                 /\ e.left = Lease \/ e.left + 1 >= ceremony[t].left]_vars

(***************************************************************************)
(* However connections break, time out or attach out of order, the slot    *)
(* comes to hold the connection the laptop is reading, again and again     *)
(* (push.rs attach, feed/client.rs client_loop).                           *)
(***************************************************************************)
FeedRecovers == []<>(slot # None /\ client.conn = slot)
=============================================================================
