-------------------------- MODULE AuthorityChain --------------------------
(***************************************************************************)
(* How a LOCK at the broker reaches the browser grants of `forward serve`: *)
(* the subscriber hub of secretsd (crates/secrets/src/server/subscribers), *)
(* the subscription thread (crates/forward/src/browser/subscription), the  *)
(* ceremony that turns a receipt into a grant (browser/request/server),    *)
(* and the registry of BrowserGrants.                                      *)
(*                                                                         *)
(* An authority is an instance of the broker and its lock epoch; instance  *)
(* stands for the pair of instance string and socket identity.  The hub's  *)
(* mutex is held across the read of the epoch and the writes to streams,   *)
(* while LOCK changes the epoch under another mutex: attach and publish    *)
(* are two actions each, and a LOCK may come between.                      *)
(***************************************************************************)
EXTENDS BrowserGrants, Sequences

CONSTANTS MaxUnhealthy,               \* timing.max_unhealthy
          WireCapacity,               \* events a subscriber's socket can hold
          MaxInstance, MaxEpoch, MaxStreams   \* model bounds; a later instance
                                              \* has fewer epochs

ASSUME ChainConstants ==
    /\ MaxUnhealthy \in Nat /\ WireCapacity \in Nat \ {0}
    /\ MaxInstance \in Nat /\ MaxEpoch \in Nat /\ MaxStreams \in Nat
    /\ \A i \in 0..MaxInstance, e \in 0..MaxEpoch : [instance |-> i, epoch |-> e] \in Authorities

VARIABLES broker,    \* State.instance and State.lock_epoch of the broker
          locking,   \* LOCKs, by their epoch, that have yet to publish
          hub,       \* SubscriberHub: who holds its mutex, and the table
          stream,    \* the connections this subscriber has opened so far
          sub,       \* the subscription thread
          ceremony   \* the request that the grant server is answering

chain == <<broker, locking, hub, stream, sub, ceremony>>
cvars == <<bgvars, chain>>

Streams == 1..MaxStreams
Nobody == [op |-> "none", stream |-> 0, line |-> None]
NoStream == [pc |-> "none", reading |-> FALSE, events |-> <<>>]
NoCeremony == [pc |-> "idle", authority |-> None]

close(streams) ==
    [s \in Streams |-> IF s \in streams THEN [stream[s] EXCEPT !.pc = "closed"] ELSE stream[s]]

-----------------------------------------------------------------------------
(***************************************************************************)
(* secretsd.  Every entry of the table that matters here belongs to one    *)
(* subscriber, `forward serve`: a new attachment of the same process       *)
(* replaces the old one.  Whether other processes fill the table is open.  *)
(***************************************************************************)
\* LOCK up to the release of the state's mutex (the rest of it is Broker!lock).
lock ==
    /\ broker.instance + broker.epoch < MaxEpoch
    /\ broker' = [broker EXCEPT !.epoch = @ + 1]
    /\ locking' = locking \cup {broker.epoch + 1}
    /\ UNCHANGED <<bgvars, hub, stream, sub, ceremony>>

PublishOutsideMutex ==
    /\ \E e \in locking : locking' = locking \ {e}
    /\ stream' = [s \in Streams |->
                    IF s \in hub.table
                    THEN [stream[s] EXCEPT !.events = Append(@, broker)] ELSE stream[s]]
    /\ UNCHANGED <<bgvars, broker, hub, sub, ceremony>>

PublishOwnEpoch ==
    /\ hub.holder = Nobody
    /\ \E e \in locking :
         /\ locking' = locking \ {e}
         /\ hub' = [hub EXCEPT !.holder = [op |-> "publish", stream |-> 0,
                                          line |-> [broker EXCEPT !.epoch = e]]]
    /\ UNCHANGED <<bgvars, broker, stream, sub, ceremony>>

\* publish_current on behalf of a LOCK: take the hub's mutex, read the epoch.
publish_current ==
    /\ hub.holder = Nobody
    /\ \E e \in locking : locking' = locking \ {e}
    /\ hub' = [hub EXCEPT !.holder = [op |-> "publish", stream |-> 0, line |-> broker]]
    /\ UNCHANGED <<bgvars, broker, stream, sub, ceremony>>

\* The worker publishes the same way from time to time.
heartbeat ==
    /\ hub.holder = Nobody
    /\ hub' = [hub EXCEPT !.holder = [op |-> "publish", stream |-> 0, line |-> broker]]
    /\ UNCHANGED <<bgvars, broker, locking, stream, sub, ceremony>>

\* Write the line without waiting; who cannot take it is dropped, and dropping
\* closes the stream.
write_lines ==
    LET kept == {s \in hub.table : stream[s].reading /\ Len(stream[s].events) < WireCapacity} IN
    /\ hub.holder.op = "publish"
    /\ stream' = [s \in Streams |->
                    IF s \in kept THEN [stream[s] EXCEPT !.events = Append(@, hub.holder.line)]
                    ELSE close(hub.table)[s]]
    /\ hub' = [holder |-> Nobody, table |-> kept]
    /\ UNCHANGED <<bgvars, broker, locking, sub, ceremony>>

\* attach: drop the peer's earlier entry; refuse if others fill the table, else
\* read the epoch and keep the mutex.
attach(s) ==
    /\ stream[s].pc = "asked"
    /\ hub.holder = Nobody
    /\ \/ /\ hub' = [holder |-> [op |-> "attach", stream |-> s, line |-> broker], table |-> {}]
          /\ stream' = close(hub.table)
       \/ /\ hub' = [hub EXCEPT !.table = {}]
          /\ stream' = close(hub.table \cup {s})
    /\ UNCHANGED <<bgvars, broker, locking, sub, ceremony>>

\* The attach event is written and the entry pushed, unless the peer has gone.
push_entry ==
    LET s == hub.holder.stream IN
    /\ hub.holder.op = "attach"
    /\ IF stream[s].reading
       THEN /\ stream' = [stream EXCEPT ![s] = [pc |-> "attached", reading |-> TRUE,
                                                events |-> Append(@.events, hub.holder.line)]]
            /\ hub' = [holder |-> Nobody, table |-> hub.table \cup {s}]
       ELSE /\ stream' = close({s})
            /\ hub' = [hub EXCEPT !.holder = Nobody]
    /\ UNCHANGED <<bgvars, broker, locking, sub, ceremony>>

\* The broker exits and starts again under a new instance.  Connections it had
\* accepted are closed; those in the backlog of the socket wait for the next.
restart ==
    /\ broker.instance < MaxInstance
    /\ broker' = [instance |-> broker.instance + 1, epoch |-> 0]
    /\ locking' = {}
    /\ hub' = [holder |-> Nobody, table |-> {}]
    /\ \E backlog \in SUBSET {s \in Streams : stream[s].pc = "asked" /\ hub.holder.stream # s} :
         stream' = close({s \in Streams \ backlog : stream[s].pc \in {"asked", "attached"}})
    /\ UNCHANGED <<bgvars, sub, ceremony>>

-----------------------------------------------------------------------------
(***************************************************************************)
(* The subscription thread: read the identity, observe it, subscribe, and  *)
(* observe every event.  It is inside revoke_all while AuthorityFree does  *)
(* not hold.  `budget` is 0 for no outage, else one more than the time     *)
(* since the first failure to connect.                                     *)
(***************************************************************************)
exhausted == (IF sub.budget = 0 THEN 0 ELSE sub.budget - 1) >= MaxUnhealthy

\* A failure that leaves the last authority unproven: no grace.
lose_authority == invalidate_authority /\ sub' = [sub EXCEPT !.pc = "hello", !.stream = 0, !.budget = 0]

\* The broker cannot be reached: grace until the budget is exhausted.
cannot_connect ==
    /\ sub' = [sub EXCEPT !.pc = "hello", !.budget = IF @ = 0 THEN 1 ELSE @]
    /\ IF exhausted THEN invalidate_authority ELSE AuthorityFree /\ UNCHANGED bgvars

hello ==
    /\ sub.pc = "hello"
    /\ \/ sub' = [sub EXCEPT !.pc = "observe", !.seen = broker] /\ AuthorityFree /\ UNCHANGED bgvars
       \/ cannot_connect
       \/ lose_authority
    /\ UNCHANGED <<broker, locking, hub, stream, ceremony>>

observe ==
    /\ sub.pc = "observe"
    /\ observe_authority(sub.seen)
    /\ sub' = [sub EXCEPT !.pc = "subscribe", !.seen = None]
    /\ UNCHANGED <<broker, locking, hub, stream, ceremony>>

subscribe ==
    /\ sub.pc = "subscribe"
    /\ \/ \E s \in Streams :
            /\ AuthorityFree /\ UNCHANGED bgvars
            /\ stream[s].pc = "none" /\ \A x \in Streams : x < s => stream[x].pc # "none"
            /\ stream' = [stream EXCEPT ![s] = [pc |-> "asked", reading |-> TRUE, events |-> <<>>]]
            /\ sub' = [sub EXCEPT !.pc = "reading", !.stream = s]
       \/ cannot_connect /\ UNCHANGED stream
       \/ lose_authority /\ UNCHANGED stream
    /\ UNCHANGED <<broker, locking, hub, ceremony>>

read_event ==
    /\ sub.pc = "reading"
    /\ stream[sub.stream].events # <<>>
    /\ observe_authority(Head(stream[sub.stream].events))
    /\ stream' = [stream EXCEPT ![sub.stream].events = Tail(@)]
    /\ UNCHANGED <<broker, locking, hub, sub, ceremony>>

\* The stream ended, or nothing came within the read timeout.
lose_stream ==
    /\ sub.pc = "reading"
    /\ stream[sub.stream].events = <<>>
    /\ lose_authority
    /\ stream' = [stream EXCEPT ![sub.stream].reading = FALSE]
    /\ UNCHANGED <<broker, locking, hub, ceremony>>

-----------------------------------------------------------------------------
(***************************************************************************)
(* The ceremony: redeem the receipt, check the authority, push the token   *)
(* to the laptop, check again, insert under the authority observed.  Every *)
(* step may refuse; then nothing is granted.                               *)
(***************************************************************************)
advance(from, to) == ceremony.pc = from /\ ceremony' = [ceremony EXCEPT !.pc = to]

\* A request comes while no other is being answered (and, a bound of the model,
\* while an id is left for its grant).
redeem ==
    /\ ceremony.pc = "idle" /\ Answering = {} /\ next_id <= MaxId
    /\ ceremony' = [pc |-> "redeemed", authority |-> broker]
    /\ UNCHANGED <<bgvars, broker, locking, hub, stream, sub>>

\* authority_is_current, before the token is pushed and again after.
authority_is_current ==
    /\ broker = ceremony.authority
    /\ advance("redeemed", "checked") \/ advance("pushed", "rechecked")
    /\ UNCHANGED <<bgvars, broker, locking, hub, stream, sub>>

push_token ==
    /\ advance("checked", "pushed")
    /\ UNCHANGED <<bgvars, broker, locking, hub, stream, sub>>

insert_grant ==
    /\ ceremony.pc = "rechecked"
    /\ \E ttl \in Ttls : insert_if_authority(ceremony.authority, ttl)
    /\ ceremony' = NoCeremony
    /\ UNCHANGED <<broker, locking, hub, stream, sub>>

refuse ==
    /\ ceremony.pc # "idle"
    /\ ceremony' = NoCeremony
    /\ UNCHANGED <<bgvars, broker, locking, hub, stream, sub>>

-----------------------------------------------------------------------------
CInit ==
    /\ BGInit
    /\ broker = [instance |-> 0, epoch |-> 0]
    /\ locking = {}
    /\ hub = [holder |-> Nobody, table |-> {}]
    /\ stream = [s \in Streams |-> NoStream]
    /\ sub = [pc |-> "hello", seen |-> None, stream |-> 0, budget |-> 0]
    /\ ceremony = NoCeremony

Time ==
    /\ Tick
    /\ sub' = [sub EXCEPT !.budget = IF @ \in 1..MaxUnhealthy THEN @ + 1 ELSE @]
    /\ UNCHANGED <<broker, locking, hub, stream, ceremony>>

Hub == publish_current \/ heartbeat \/ write_lines \/ push_entry \/ \E s \in Streams : attach(s)
Subscriber == hello \/ observe \/ subscribe \/ read_event
Ceremony == redeem \/ authority_is_current \/ push_token \/ insert_grant \/ refuse

CNext ==
    \/ lock \/ restart \/ Hub
    \/ Subscriber \/ lose_stream
    \/ Ceremony
    \/ Running /\ UNCHANGED chain
    \/ Time

CSpec == CInit /\ [][CNext]_cvars

(***************************************************************************)
(* The threads run.  The subscription thread takes its next step, but no   *)
(* read has to time out, and the broker may stay unreachable for ever:     *)
(* then every attempt fails, which changes nothing until the budget is     *)
(* exhausted.  A handler that holds the hub's mutex goes on, and one that  *)
(* waits for it gets it in the end, between heartbeats that are far apart. *)
(* Neither heartbeats nor ceremonies are assumed, nor that a grant is      *)
(* reaped at its own deadline.                                             *)
(***************************************************************************)
Proceeds ==
    \/ hello /\ (sub.budget = 0 \/ (exhausted /\ authority # None))
    \/ observe \/ subscribe \/ read_event
    \/ lose_stream /\ stream[sub.stream].pc = "closed"

CFairness ==
    /\ WF_cvars((shutdown \/ end_control) /\ UNCHANGED chain)
    /\ WF_cvars(Proceeds)
    /\ WF_cvars(write_lines \/ push_entry) /\ WF_cvars(Time)
    /\ SF_cvars(publish_current)
    /\ \A s \in Streams : SF_cvars(attach(s))

CFairSpec == CSpec /\ CFairness

-----------------------------------------------------------------------------
Identity == [instance : 0..MaxInstance, epoch : 0..MaxEpoch]

Connection == [pc : {"none", "asked", "attached", "closed"}, reading : BOOLEAN,
               events : Seq(Identity)]
Thread == [pc : {"hello", "observe", "subscribe", "reading"}, seen : Identity \cup {None},
           stream : 0..MaxStreams, budget : 0..(MaxUnhealthy + 1)]
Publishing == [op : {"publish"}, stream : {0}, line : Identity]
Attaching == [op : {"attach"}, stream : Streams, line : Identity]
Request == [pc : {"redeemed", "checked", "pushed", "rechecked"}, authority : Identity]

BrokerOK == broker \in Identity /\ locking \subseteq 1..broker.epoch
HubOK ==
    /\ stream \in [Streams -> Connection]
    /\ hub \in [holder : {Nobody} \cup Publishing \cup Attaching, table : SUBSET Streams]
    /\ \A s \in hub.table : stream[s].pc = "attached"
    /\ hub.holder.op = "attach" => hub.table = {} /\ stream[hub.holder.stream].pc = "asked"
ThreadOK ==
    /\ sub \in Thread
    /\ sub.pc = "observe" => sub.seen \in Identity
    /\ sub.pc = "reading" => sub.stream \in Streams
CeremonyOK ==
    /\ ceremony \in Request \cup {NoCeremony}
    /\ ceremony.pc # "idle" => Answering = {}

\* The type of the chain's state.  The table holds attached streams only, the
\* mutex is never held for an attachment over another entry of the same
\* subscriber, and one request is answered at a time.
CTypeOK == BGTypeOK /\ BrokerOK /\ HubOK /\ ThreadOK /\ CeremonyOK

\* No LOCK is missed (SubscriberHub::attach, "the missed-lock hole"): when no
\* LOCK has yet to publish and no handler holds the hub, a subscriber that is in
\* the table and has read all its events has observed the broker's current
\* authority, however attach, LOCK, heartbeat and reconnect interleaved.
NoMissedLock ==
    (locking = {} /\ hub.holder = Nobody /\ sub.pc = "reading"
       /\ sub.stream \in hub.table /\ stream[sub.stream].events = <<>>)
    => authority = broker

\* observe_authority never goes back: publication reads the epoch under the
\* hub's mutex, so concurrent LOCKs cannot deliver an older epoch after a newer,
\* and a stream left behind cannot deliver to the next.
Older(a, b) == a.instance < b.instance \/ (a.instance = b.instance /\ a.epoch <= b.epoch)
ObservationIsOrdered ==
    [][(authority # None /\ authority' # None) => Older(authority, authority')]_cvars

\* A LOCK or a restart of the broker is final for the grants: after the last
\* one, in the end every grant is of the authority that the broker then has, and
\* none of an earlier one comes back, although the subscriber may be
\* disconnected, displaced or refused, the broker unreachable, and a ceremony
\* between its rechecks and the insertion.
LockReachesGrants ==
    <>[][broker' = broker]_broker => <>[](\A g \in grants : g.authority = broker)
=============================================================================
