----------------------------- MODULE PortBridge -----------------------------
(***************************************************************************)
(* The devbox callback bridge: crates/forward/src/bridge and port.rs.      *)
(*                                                                         *)
(* `forward serve` connects the laptop to a loopback port only if a local  *)
(* `forward open` armed it with a lease, or a local `forward port` holds   *)
(* it.  A holder dials its own loopback, on request, over a control        *)
(* connection: the hold lasts as long as that connection.  Two maps, each  *)
(* under a mutex of its own, and one mutex per holder, which a dial keeps  *)
(* for as long as the answer takes, are shared by one thread per arming    *)
(* request and one per bridge connection.  An action is a step between two *)
(* acquisitions of those locks.                                            *)
(***************************************************************************)
EXTENDS Naturals, Sequences, FiniteSets

CONSTANTS Ports,          \* ports a bridge connection may name
          Unsafe,         \* port_policy: privileged, forward's own, or lethal
          BridgePort,     \* the bridge's own listener
          Armers,         \* threads serving ARM
          Holds,          \* `forward port` processes, with their HOLD threads
          Calls,          \* bridge connections that may be open at once
          Remotes, Peers, \* source addresses; the configured ones
          Loopback, MultiPeer,
          Capacity,       \* ConnectionLimit of the bridge and of the arming socket
          Ttls,           \* lease lengths ARM may carry
          MaxBusy,        \* bound: requests, connections and holders at a time
          None

ASSUME BridgeConstants ==
    /\ Unsafe \subseteq Ports /\ Peers \subseteq Remotes
    /\ MultiPeer \in BOOLEAN /\ Capacity \in Nat /\ MaxBusy \in Nat /\ Ttls \subseteq Nat
    /\ None \notin Ports \cup Holds \cup Calls

VARIABLES ports,    \* Armed.ports: the time each lease has left, 0 for none
          holders,  \* Armed.holders
          arming,   \* the ARM threads
          holding,  \* the HOLD threads, one for each `forward port`
          call,     \* the bridge connections
          dialer,   \* who keeps the control mutex of a holder during a dial
          chan,     \* the two directions of each control connection
          held,     \* the `forward port` processes
          faulted   \* auxiliary: the holder let a dial time out or broke protocol

vars == <<ports, holders, arming, holding, call, dialer, chan, held, faulted>>
bridge == <<ports, holders, arming, holding, call, dialer>>

NoArm  == [pc |-> "idle", port |-> None, left |-> 0, existing |-> None]
NoHold == [pc |-> "idle", existing |-> None]
NoCall == [pc |-> "idle", port |-> None, existing |-> None]
NoChan == [down |-> <<>>, up |-> <<>>]
NoHeld == [pc |-> "idle", port |-> None, open |-> FALSE]

Init ==
    /\ ports = [p \in Ports |-> 0]
    /\ holders = [p \in Ports |-> None]
    /\ arming = [a \in Armers |-> NoArm]
    /\ holding = [h \in Holds |-> NoHold]
    /\ call = [c \in Calls |-> NoCall]
    /\ dialer = [h \in Holds |-> None]
    /\ chan = [h \in Holds |-> NoChan]
    /\ held = [h \in Holds |-> NoHeld]
    /\ faulted = [h \in Holds |-> FALSE]

BelowBound ==
    Cardinality({a \in Armers : arming[a].pc # "idle"})
      + Cardinality({c \in Calls : call[c].pc # "idle"})
      + Cardinality({h \in Holds : held[h].pc # "idle"}) < MaxBusy

globally_denied(port) == port \in Unsafe

can_arm(port) == ~ globally_denied(port)

denied_port(port) == globally_denied(port) \/ port = BridgePort

\* ConnectionLimit::acquire: a thread is spawned only with a permit.
acquire(active) == Cardinality(active) < Capacity

serve_arming == acquire({a \in Armers : arming[a].pc # "idle"}
                        \cup {h \in Holds : holding[h].pc # "idle"})

\* With several peers configured, loopback has to be listed like any other.
authorized(remote) == (~ MultiPeer /\ remote = Loopback) \/ remote \in Peers

\* The bridge keeps its end of a control connection while an Arc<Holder>, or
\* the HOLD thread, still refers to it.
Referenced(h) ==
    \/ \E p \in Ports : holders[p] = h
    \/ holding[h].pc # "idle"
    \/ \E a \in Armers : arming[a].existing = h
    \/ \E g \in Holds : holding[g].existing = h
    \/ \E c \in Calls : call[c].existing = h

\* What the holder's end of the connection reads as on the bridge's side.
Readable(h) == chan[h].up # <<>> \/ ~ held[h].open

ReleaseByPort(port, h) == holders' = [holders EXCEPT ![port] = None]

\* Arc::ptr_eq: only the holder that was seen is removed.
release(port, h) ==
    holders' = IF holders[port] = h THEN [holders EXCEPT ![port] = None] ELSE holders

\* Holder::is_alive, under the control mutex: it waits for a dial to end.
is_alive(h) == ~ Readable(h)

-----------------------------------------------------------------------------
(***************************************************************************)
(* ARM: Armed::arm.                                                        *)
(***************************************************************************)
arm_request(a) ==
    /\ arming[a].pc = "idle" /\ BelowBound /\ serve_arming
    /\ \E p \in Ports, ttl \in Ttls :
         /\ can_arm(p)
         /\ arming' = [arming EXCEPT ![a] = [NoArm EXCEPT !.pc = "look", !.port = p, !.left = ttl]]
    /\ UNCHANGED <<ports, holders, holding, call, dialer, chan, held, faulted>>

arm_look(a) ==
    LET h == holders[arming[a].port] IN
    /\ arming[a].pc = "look"
    /\ arming' = [arming EXCEPT ![a].pc = IF h = None THEN "insert" ELSE "peek",
                                ![a].existing = h]
    /\ UNCHANGED <<ports, holders, holding, call, dialer, chan, held, faulted>>

\* A live holder already makes the port reachable: nothing is recorded.
arm_peek(a) ==
    LET h == arming[a].existing IN
    /\ arming[a].pc = "peek" /\ dialer[h] = None
    /\ arming' = [arming EXCEPT ![a] = IF is_alive(h) THEN NoArm ELSE [@ EXCEPT !.pc = "release"]]
    /\ UNCHANGED <<ports, holders, holding, call, dialer, chan, held, faulted>>

arm_release(a) ==
    /\ arming[a].pc = "release"
    /\ release(arming[a].port, arming[a].existing)
    /\ arming' = [arming EXCEPT ![a].pc = "insert", ![a].existing = None]
    /\ UNCHANGED <<ports, holding, call, dialer, chan, held, faulted>>

ArmInsertUnchecked(a) ==
    LET p == arming[a].port IN
    /\ arming[a].pc = "insert"
    /\ ports' = [ports EXCEPT ![p] = IF @ < arming[a].left THEN arming[a].left ELSE @]
    /\ arming' = [arming EXCEPT ![a] = NoArm]
    /\ UNCHANGED <<holders, holding, call, dialer, chan, held, faulted>>

\* Under the holders lock again: a hold that came in between wins.
arm_insert(a) ==
    LET p == arming[a].port IN
    /\ arming[a].pc = "insert"
    /\ IF holders[p] # None
       THEN arming' = [arming EXCEPT ![a].pc = "look"] /\ UNCHANGED ports
       ELSE /\ ports' = [ports EXCEPT ![p] = IF @ < arming[a].left THEN arming[a].left ELSE @]
            /\ arming' = [arming EXCEPT ![a] = NoArm]
    /\ UNCHANGED <<holders, holding, call, dialer, chan, held, faulted>>

-----------------------------------------------------------------------------
(***************************************************************************)
(* HOLD: Armed::hold, in the thread that serves holder h's request.        *)
(***************************************************************************)
reply(h, answer) == chan' = [chan EXCEPT ![h].down = Append(@, answer)]

\* Free: acknowledge (it fails if the holder has left), take the port, and
\* drop the lease under it.  Taken: look at who has it.
hold_look(h) ==
    LET p == held[h].port IN
    /\ holding[h].pc = "look"
    /\ \/ /\ holders[p] = None /\ held[h].open
          /\ holders' = [holders EXCEPT ![p] = h]
          /\ ports' = [ports EXCEPT ![p] = 0]
          /\ reply(h, "ok")
          /\ holding' = [holding EXCEPT ![h] = NoHold]
       \/ /\ holders[p] = None /\ ~ held[h].open                \* Vanished
          /\ holding' = [holding EXCEPT ![h] = NoHold]
          /\ UNCHANGED <<ports, holders, chan>>
       \/ /\ holders[p] # None
          /\ holding' = [holding EXCEPT ![h] = [pc |-> "peek", existing |-> holders[p]]]
          /\ UNCHANGED <<ports, holders, chan>>
    /\ UNCHANGED <<arming, call, dialer, held, faulted>>

hold_peek(h) ==
    LET other == holding[h].existing IN
    /\ holding[h].pc = "peek" /\ dialer[other] = None
    /\ IF is_alive(other)
       THEN reply(h, "busy") /\ holding' = [holding EXCEPT ![h] = NoHold]
       ELSE holding' = [holding EXCEPT ![h].pc = "release"] /\ UNCHANGED chan
    /\ UNCHANGED <<ports, holders, arming, call, dialer, held, faulted>>

hold_release(h) ==
    /\ holding[h].pc = "release"
    /\ release(held[h].port, holding[h].existing)
    /\ holding' = [holding EXCEPT ![h] = [pc |-> "look", existing |-> None]]
    /\ UNCHANGED <<ports, arming, call, dialer, chan, held, faulted>>

-----------------------------------------------------------------------------
(***************************************************************************)
(* A bridge connection: the accept loop, the handler, and Armed::connect.  *)
(***************************************************************************)
\* An unlisted peer, or one too many, is refused by the accept loop itself.
accept_loop(c) ==
    /\ call[c].pc = "idle" /\ BelowBound
    /\ \E remote \in Remotes : authorized(remote)
    /\ acquire({d \in Calls : call[d].pc # "idle"})
    /\ call' = [call EXCEPT ![c].pc = "reading"]
    /\ UNCHANGED <<ports, holders, arming, holding, dialer, chan, held, faulted>>

\* What read_port may return: None for a malformed or overlong line, or one
\* that took longer than the cumulative deadline.
read_port == Ports \cup {None}

\* A refused line or port ends the handler; otherwise Armed::connect begins by
\* cloning the port's holder, if any.
handle(c) ==
    /\ call[c].pc = "reading"
    /\ \E p \in read_port :
         call' = [call EXCEPT ![c] =
                    IF p = None \/ denied_port(p) THEN NoCall
                    ELSE [pc |-> IF holders[p] = None THEN "is_armed" ELSE "dial",
                          port |-> p, existing |-> holders[p]]]
    /\ UNCHANGED <<ports, holders, arming, holding, dialer, chan, held, faulted>>

\* No holder was seen: an unexpired lease lets it dial this host's loopback.
is_armed(c) ==
    /\ call[c].pc = "is_armed"
    /\ call' = [call EXCEPT ![c] = IF ports[call[c].port] = 0
                                   THEN NoCall ELSE [@ EXCEPT !.pc = "loopback"]]
    /\ UNCHANGED <<ports, holders, arming, holding, dialer, chan, held, faulted>>

connect_loopback(c) ==
    /\ call[c].pc = "loopback"
    /\ \/ call' = [call EXCEPT ![c].pc = "piped"]
       \/ call' = [call EXCEPT ![c] = NoCall]
    /\ UNCHANGED <<ports, holders, arming, holding, dialer, chan, held, faulted>>

\* Holder::dial takes the control mutex and writes DIAL, which fails if the
\* holder has closed its end.
dial(c) ==
    LET h == call[c].existing IN
    /\ call[c].pc = "dial" /\ dialer[h] = None
    /\ IF held[h].open
       THEN /\ dialer' = [dialer EXCEPT ![h] = c]
            /\ reply(h, "dial")
            /\ call' = [call EXCEPT ![c].pc = "receive"]
       ELSE /\ call' = [call EXCEPT ![c].pc = "release"]
            /\ UNCHANGED <<dialer, chan>>
    /\ UNCHANGED <<ports, holders, arming, holding, held, faulted>>

\* Of the answers that carry a socket, only one connected to the holder's
\* loopback on this port is relayed.
stream_from(answer) == answer = "+"

\* fdpass::receive: one byte and the socket it carried.
receive(h) == Head(chan[h].up)

dial_answer(c) ==
    LET h == call[c].existing IN
    /\ call[c].pc = "receive" /\ chan[h].up # <<>>
    /\ chan' = [chan EXCEPT ![h].up = Tail(@)]
    /\ dialer' = [dialer EXCEPT ![h] = None]
    /\ call' = [call EXCEPT ![c] = CASE stream_from(receive(h)) ->
                                          [@ EXCEPT !.pc = "piped", !.existing = None]
                                     [] receive(h) = "-" -> NoCall
                                     [] OTHER -> [@ EXCEPT !.pc = "release"]]
    /\ faulted' = [faulted EXCEPT ![h] = @ \/ receive(h) = "?"]
    /\ UNCHANGED <<ports, holders, arming, holding, held>>

DialFailedKeepsLock(c) ==
    /\ call[c].pc = "receive" /\ chan[call[c].existing].up = <<>>
    /\ call' = [call EXCEPT ![c].pc = "release"]
    /\ faulted' = [faulted EXCEPT ![call[c].existing] = TRUE]
    /\ UNCHANGED <<ports, holders, arming, holding, dialer, chan, held>>

\* No answer within DIAL_TIMEOUT, or an end of stream instead of one.
dial_failed(c) ==
    LET h == call[c].existing IN
    /\ call[c].pc = "receive" /\ chan[h].up = <<>>
    /\ dialer' = [dialer EXCEPT ![h] = None]
    /\ call' = [call EXCEPT ![c].pc = "release"]
    /\ faulted' = [faulted EXCEPT ![h] = TRUE]
    /\ UNCHANGED <<ports, holders, arming, holding, chan, held>>

ReleaseKeepsHandle(c) ==
    /\ call[c].pc = "release"
    /\ release(call[c].port, call[c].existing)
    /\ call' = [call EXCEPT ![c].pc = "idle"]
    /\ UNCHANGED <<ports, arming, holding, dialer, chan, held, faulted>>

connect_release(c) ==
    /\ call[c].pc = "release"
    /\ release(call[c].port, call[c].existing)
    /\ call' = [call EXCEPT ![c] = NoCall]
    /\ UNCHANGED <<ports, arming, holding, dialer, chan, held, faulted>>

\* The relay ends, and its permit is returned.
relay_ends(c) ==
    /\ call[c].pc = "piped"
    /\ call' = [call EXCEPT ![c] = NoCall]
    /\ UNCHANGED <<ports, holders, arming, holding, dialer, chan, held, faulted>>

-----------------------------------------------------------------------------
(***************************************************************************)
(* `forward port`: hold, have the laptop listen, serve dials until the     *)
(* hold ends, then exit.                                                   *)
(***************************************************************************)
\* Every HoldError, and every PortError, ends the process.
leave(h) == held' = [held EXCEPT ![h].pc = "exited", ![h].open = FALSE]

\* An unsafe port is refused before anything is taken.
hold(h) ==
    /\ held[h].pc = "idle" /\ BelowBound /\ serve_arming
    /\ \E p \in Ports :
         /\ held' = [held EXCEPT ![h] = [pc |-> "asked", port |-> p, open |-> TRUE]]
         /\ IF can_arm(p)
            THEN holding' = [holding EXCEPT ![h].pc = "look"] /\ UNCHANGED chan
            ELSE reply(h, "unsafe") /\ UNCHANGED holding
    /\ UNCHANGED <<ports, holders, arming, call, dialer, faulted>>

\* The reply, or a reply that never came within HOLD_REPLY_TIMEOUT.
hold_reply(h) ==
    /\ held[h].pc = "asked"
    /\ \/ /\ chan[h].down # <<>> /\ Head(chan[h].down) = "ok"
          /\ held' = [held EXCEPT ![h].pc = "renewing"]
          /\ chan' = [chan EXCEPT ![h].down = Tail(@)]
       \/ /\ chan[h].down # <<>> => Head(chan[h].down) # "ok"
          /\ leave(h)
          /\ UNCHANGED chan
    /\ UNCHANGED <<bridge, faulted>>

\* The first renewal at the laptop decides: without it the process exits.
first_renewal(h) ==
    /\ held[h].pc = "renewing"
    /\ held' = [held EXCEPT ![h].pc = "serving"]
    /\ UNCHANGED <<bridge, chan, faulted>>

\* Held::serve: connected, nothing listening, or (another program on this
\* socket) something that is not an answer to this dial.
serve(h) ==
    /\ held[h].pc = "serving" /\ chan[h].down # <<>>
    /\ \E answer \in {"+", "-", "?"} :
         chan' = [chan EXCEPT ![h].down = Tail(@),
                              ![h].up = IF Referenced(h) THEN Append(@, answer) ELSE @]
    /\ IF Referenced(h) THEN UNCHANGED held ELSE leave(h)
    /\ UNCHANGED <<bridge, faulted>>

\* The bridge has dropped its end: end of stream.
serve_ended(h) ==
    /\ held[h].pc = "serving" /\ chan[h].down = <<>> /\ ~ Referenced(h)
    /\ leave(h)
    /\ UNCHANGED <<bridge, chan, faulted>>

\* The laptop refused the port, or the process was stopped or crashed.
stopped(h) ==
    /\ held[h].pc \in {"renewing", "serving"}
    /\ leave(h)
    /\ UNCHANGED <<bridge, chan, faulted>>

\* Nothing refers to this hold any more: its name stands for a later process.
restart(h) ==
    /\ held[h].pc = "exited" /\ ~ Referenced(h)
    /\ held' = [held EXCEPT ![h] = NoHeld]
    /\ chan' = [chan EXCEPT ![h] = NoChan]
    /\ faulted' = [faulted EXCEPT ![h] = FALSE]
    /\ UNCHANGED bridge

\* Time passes for every lease, and for the deadline an ARM thread computed
\* before it began to look.
Tick ==
    /\ ports' = [p \in Ports |-> IF ports[p] > 0 THEN ports[p] - 1 ELSE 0]
    /\ arming' = [a \in Armers |-> [arming[a] EXCEPT !.left = IF @ > 0 THEN @ - 1 ELSE 0]]
    /\ UNCHANGED <<holders, holding, call, dialer, chan, held, faulted>>

ArmStep(a) == arm_look(a) \/ arm_peek(a) \/ arm_release(a) \/ arm_insert(a)
HoldStep(h) == hold_look(h) \/ hold_peek(h) \/ hold_release(h)
CallStep(c) == is_armed(c) \/ connect_loopback(c) \/ dial(c) \/ dial_answer(c)
               \/ dial_failed(c) \/ connect_release(c)

Next ==
    \/ \E a \in Armers : arm_request(a) \/ ArmStep(a)
    \/ \E c \in Calls : accept_loop(c) \/ handle(c) \/ CallStep(c) \/ relay_ends(c)
    \/ \E h \in Holds : \/ hold(h) \/ HoldStep(h) \/ hold_reply(h) \/ first_renewal(h)
                        \/ serve(h) \/ serve_ended(h) \/ stopped(h) \/ restart(h)
    \/ Tick

(***************************************************************************)
(* Threads run; a thread waiting for a holder's mutex gets it in the end   *)
(* (parking_lot's locks are eventually fair), hence SF; a dial is bounded  *)
(* by its timeout; a holder that serves notices that its hold ended.       *)
(***************************************************************************)
Fairness ==
    /\ \A a \in Armers : SF_vars(ArmStep(a))
    /\ \A h \in Holds : SF_vars(HoldStep(h)) /\ WF_vars(serve(h) \/ serve_ended(h))
    /\ \A c \in Calls : SF_vars(CallStep(c))

Spec == Init /\ [][Next]_vars /\ Fairness

-----------------------------------------------------------------------------
ArmThread == [pc : {"idle", "look", "peek", "release", "insert"}, port : Ports \cup {None},
              left : Nat, existing : Holds \cup {None}]
HoldThread == [pc : {"idle", "look", "peek", "release"}, existing : Holds \cup {None}]
CallThread == [pc : {"idle", "reading", "is_armed", "loopback", "dial", "receive", "release",
                     "piped"},
               port : Ports \cup {None}, existing : Holds \cup {None}]
Channel == [down : Seq({"ok", "busy", "unsafe", "dial"}), up : Seq({"+", "-", "?"})]
Process == [pc : {"idle", "asked", "renewing", "serving", "exited"}, port : Ports \cup {None},
            open : BOOLEAN]

\* Type correctness of the bridge's two maps, its threads and the holders; a
\* thread has the port and the holder that its place in the code needs.
BridgeTypeOK ==
    /\ ports \in [Ports -> Nat]
    /\ holders \in [Ports -> Holds \cup {None}]
    /\ arming \in [Armers -> ArmThread]
    /\ holding \in [Holds -> HoldThread]
    /\ call \in [Calls -> CallThread]
    /\ dialer \in [Holds -> Calls \cup {None}]
    /\ chan \in [Holds -> Channel]
    /\ held \in [Holds -> Process]
    /\ faulted \in [Holds -> BOOLEAN]
    /\ \A a \in Armers : /\ arming[a].pc # "idle" => arming[a].port \in Ports
                         /\ arming[a].pc \in {"peek", "release"} => arming[a].existing \in Holds
    /\ \A h \in Holds : /\ holding[h].pc # "idle" => held[h].pc # "idle"
                        /\ holding[h].pc \in {"peek", "release"} => holding[h].existing \in Holds
                        /\ held[h].pc # "idle" => held[h].port \in Ports
    /\ \A c \in Calls :
         /\ call[c].pc \notin {"idle", "reading"} => call[c].port \in Ports
         /\ call[c].pc \in {"dial", "receive", "release"} => call[c].existing \in Holds

\* A held port has exactly one route: no lease is ever left under a holder
\* (armed.rs, `arm` and `hold`), whichever of the two looked first.
HeldHasOneRoute == \A p \in Ports : holders[p] # None => ports[p] = 0

\* A live holder is never displaced: a hold leaves the map only after the
\* holder closed its end or failed a dial, even when a thread that saw an
\* earlier, dead holder releases the port late (armed.rs, `release`).
LiveHolderKept ==
    [][\A p \in Ports, h \in Holds :
         holders[p] = h /\ holders'[p] # h => ~ held[h].open \/ faulted[h]]_vars

\* Every bridge connection that named a port is connected or refused, though
\* its holder may be mid-dial for another connection or never answer.
CallsAnswered ==
    \A c \in Calls : call[c].pc \in {"is_armed", "loopback", "dial", "receive", "release"}
                     ~> call[c].pc \in {"idle", "piped"}

\* A `forward port` whose hold is gone from the bridge does not keep running
\* as if it still had it: it exits, for its supervisor to see (port.rs).
OrphanedHoldExits ==
    \A h \in Holds : held[h].pc = "serving" /\ holders[held[h].port] # h
                     ~> held[h].pc # "serving"
=============================================================================
