--------------------------- MODULE CallbackLease ---------------------------
(***************************************************************************)
(* The laptop daemon's URL channel and its callback listeners:             *)
(* crates/forward/src/daemon.rs, daemon/origin.rs and callback/.           *)
(*                                                                         *)
(* A devbox asks the laptop to open a URL, or to hold a port.  Either way  *)
(* the laptop listens on loopback ports (IPv4, and IPv6 where it can) that *)
(* relay to the asking devbox's bridge, under one lease per port.  Handler *)
(* threads, two accept loops per lease and the reaper share the lease map; *)
(* bind(2) is the only other arbiter.  An action is a step between two     *)
(* acquisitions of the map's mutex or two system calls others can observe. *)
(***************************************************************************)
EXTENDS Naturals, Sequences, FiniteSets

CONSTANTS Handlers,      \* connections the URL channel serves at once
          Origins,       \* devboxes: the authorized source addresses
          Ports, Own,    \* loopback ports; the ones forward itself serves
          Urls,          \* a URL is the sequence of loopback ports it names
          MaxForwards,   \* MAX_DYNAMIC_FORWARDS
          MultiPeer,     \* whether `peers` is configured: strict callbacks
          Gens,          \* stop flags, each shared by a lease and its listeners
          OpenTtl, HoldTtls, MaxHold,
          None

\* A lease and its two listeners' shared stop flag.
Lease == [owner : Origins, left : Nat, gen : Gens, listeners : {1, 2}]
Listener == {"none", "bound", "run", "closed"}
Flag == [port : Ports \cup {None}, stop : BOOLEAN, v4 : Listener, v6 : Listener]

ASSUME LeaseConstants ==
    /\ Own \cap Ports = {} /\ Urls \subseteq Seq(Ports \cup Own)
    /\ MaxForwards \in Nat /\ MultiPeer \in BOOLEAN
    /\ OpenTtl \in Nat /\ HoldTtls \subseteq Nat /\ MaxHold \in Nat
    /\ None \notin Gens \cup Ports \cup Origins /\ None \notin Lease

VARIABLES leases,   \* Leases.inner
          gen,      \* per stop flag: the flag, and its two listeners
          handler   \* the handler threads

vars == <<leases, gen, handler>>

Idle == [pc |-> "idle", origin |-> None, hold |-> FALSE, todo |-> <<>>,
         left |-> 0, forwarded |-> 0, gen |-> None]
Unused == [port |-> None, stop |-> FALSE, v4 |-> "none", v6 |-> "none"]

Init ==
    /\ leases = [p \in Ports |-> None]
    /\ gen = [g \in Gens |-> Unused]
    /\ handler = [c \in Handlers |-> Idle]

is_dynamic_port(port) == port \notin Own

Goto(c, pc) == handler' = [handler EXCEPT ![c].pc = pc]
Finish(c) == handler' = [handler EXCEPT ![c] = Idle]
Port(c) == Head(handler[c].todo)

Live(p) == leases[p] # None /\ ~ gen[leases[p].gen].stop

\* bind(2): an address has one listening socket.
BindShared(p, family) == TRUE
Bindable(p, family) ==
    \A g \in Gens : gen[g].port = p => gen[g][family] \notin {"bound", "run"}

-----------------------------------------------------------------------------
(***************************************************************************)
(* The handler: read the request, lease each port, open or notify.         *)
(***************************************************************************)
\* daemon::hold: the longest hold a devbox may ask for.
hold(secs) == IF secs < MaxHold THEN secs ELSE MaxHold

\* daemon::run gives every connection its origin's configuration; the request
\* is an open or a hold, whose time is capped.
read_request(c) ==
    /\ handler[c].pc = "idle"
    /\ \E o \in Origins :
         \/ \E url \in Urls :
              handler' = [handler EXCEPT ![c] = [Idle EXCEPT !.pc = "forward_url", !.origin = o,
                                                !.todo = url, !.left = OpenTtl]]
         \/ \E p \in Ports \cup Own, secs \in HoldTtls :
              /\ is_dynamic_port(p)
              /\ handler' = [handler EXCEPT ![c] =
                    [Idle EXCEPT !.pc = "refresh", !.origin = o, !.hold = TRUE, !.todo = <<p>>,
                                 !.left = hold(secs)]]
    /\ UNCHANGED <<leases, gen>>

\* One round of origin::forward_url: too many ports or one of forward's own
\* (which only strict callbacks refuse), done, a port to skip, or one to serve.
forward_url(c) ==
    LET h == handler[c]
        own == h.todo # <<>> /\ ~ is_dynamic_port(Port(c)) IN
    /\ h.pc = "forward_url"
    /\ IF MultiPeer /\ (own \/ Len(h.todo) + h.forwarded > MaxForwards) THEN Finish(c)
       ELSE IF h.todo = <<>> THEN Goto(c, "decide")
       ELSE IF own \/ h.forwarded = MaxForwards
       THEN handler' = [handler EXCEPT ![c].todo = Tail(@)]
       ELSE Goto(c, "refresh")
    /\ UNCHANGED <<leases, gen>>

\* The port is served, or was not and the URL goes on without it.
Served(h) == IF h.hold THEN Idle
             ELSE [h EXCEPT !.pc = "forward_url", !.todo = Tail(@),
                            !.forwarded = @ + 1, !.gen = None]
Failed(h) == IF h.hold \/ MultiPeer THEN Idle ELSE Served(h)

\* Leases::refresh: never shortens, and never for another owner, for whom the
\* whole request is refused.
refresh(c) ==
    LET h == handler[c]  l == leases[Port(c)] IN
    /\ h.pc = "refresh"
    /\ \/ Live(Port(c)) /\ l.owner # h.origin /\ Finish(c) /\ UNCHANGED leases
       \/ /\ Live(Port(c)) /\ l.owner = h.origin
          /\ leases' = [leases EXCEPT ![Port(c)].left = IF @ < h.left THEN h.left ELSE @]
          /\ handler' = [handler EXCEPT ![c] = Served(h)]
       \/ l # None /\ ~ Live(Port(c)) /\ Goto(c, "await") /\ UNCHANGED leases
       \/ l = None /\ Goto(c, "bind") /\ UNCHANGED leases
    /\ UNCHANGED gen

\* Leases::wait_until_released: until the port has no lease, whoever's.
wait_until_released(c) ==
    /\ handler[c].pc = "await"
    /\ Goto(c, IF leases[Port(c)] = None THEN "bind" ELSE "asleep")
    /\ UNCHANGED <<leases, gen>>

FreeGens == {g \in Gens : gen[g] = Unused /\ \A d \in Handlers : handler[d].gen # g}

\* The IPv4 listener; another program may have the port.
bind4(c) ==
    /\ handler[c].pc = "bind"
    /\ \/ /\ Bindable(Port(c), "v4") /\ FreeGens # {}
          /\ LET g == CHOOSE g \in FreeGens : TRUE IN
             /\ gen' = [gen EXCEPT ![g].port = Port(c), ![g].v4 = "bound"]
             /\ handler' = [handler EXCEPT ![c].pc = "bind6", ![c].gen = g]
       \/ /\ handler' = [handler EXCEPT ![c] = Failed(@)]
          /\ UNCHANGED gen
    /\ UNCHANGED leases

\* The IPv6 listener: bound, not available here, or in use, which gives up.
bind6(c) ==
    LET g == handler[c].gen IN
    /\ handler[c].pc = "bind6"
    /\ \/ Bindable(Port(c), "v6") /\ gen' = [gen EXCEPT ![g].v6 = "bound"] /\ Goto(c, "insert")
       \/ UNCHANGED gen /\ Goto(c, "insert")
       \/ gen' = [gen EXCEPT ![g] = Unused] /\ handler' = [handler EXCEPT ![c] = Failed([@ EXCEPT !.gen = None])]
    /\ UNCHANGED leases

\* Leases::insert: whatever it replaces is told to stop.
insert(c) ==
    LET h == handler[c]  l == leases[Port(c)] IN
    /\ h.pc = "insert"
    /\ gen' = IF l = None THEN gen ELSE [gen EXCEPT ![l.gen].stop = TRUE]
    /\ leases' = [leases EXCEPT ![Port(c)] =
                    [owner |-> h.origin, left |-> h.left, gen |-> h.gen,
                     listeners |-> IF gen[h.gen].v6 = "bound" THEN 2 ELSE 1]]
    /\ Goto(c, "spawn4")

\* spawn_accept_loop may fail: the listener is dropped, then released.
spawn4(c) ==
    LET g == handler[c].gen IN
    /\ handler[c].pc = "spawn4"
    /\ \/ /\ gen' = [gen EXCEPT ![g].v4 = "run"]
          /\ handler' = [handler EXCEPT ![c] = IF gen[g].v6 = "bound"
                                               THEN [@ EXCEPT !.pc = "spawn6"] ELSE Served(@)]
       \/ gen' = [gen EXCEPT ![g].v4 = "closed"] /\ Goto(c, "unspawn")
    /\ UNCHANGED leases

spawn6(c) ==
    /\ handler[c].pc = "spawn6"
    /\ \E outcome \in {"run", "closed"} : gen' = [gen EXCEPT ![handler[c].gen].v6 = outcome]
    /\ handler' = [handler EXCEPT ![c] = Served(@)]
    /\ UNCHANGED leases

\* The IPv4 listener is released: drop the IPv6 one, and fail once it is too.
unspawn(c) ==
    LET g == handler[c].gen IN
    /\ handler[c].pc = "unspawn" /\ gen[g].v4 = "none" /\ gen[g].v6 # "closed"
    /\ IF gen[g].v6 = "bound"
       THEN gen' = [gen EXCEPT ![g].v6 = "closed"] /\ UNCHANGED handler
       ELSE handler' = [handler EXCEPT ![c] = Failed([@ EXCEPT !.gen = None])] /\ UNCHANGED gen
    /\ UNCHANGED leases

\* policy::decide: the mode and the allowlist are this machine's business.
decide(c) ==
    /\ handler[c].pc = "decide"
    /\ Goto(c, "open") \/ Goto(c, "notify")
    /\ UNCHANGED <<leases, gen>>

\* A configured notifier approves, or it declines, fails or times out (and the
\* built-in one never approves): then nothing opens.
notify_url(c) ==
    /\ handler[c].pc = "notify"
    /\ Goto(c, "open") \/ Finish(c)
    /\ UNCHANGED <<leases, gen>>

\* The opener is spawned, unless this URL came from this origin too often.
open_permitted_url(c) ==
    /\ handler[c].pc = "open"
    /\ Finish(c)
    /\ UNCHANGED <<leases, gen>>

-----------------------------------------------------------------------------
(***************************************************************************)
(* The accept loops, the reaper, time.                                     *)
(***************************************************************************)
RunEndsUnflagged(g, family) ==
    /\ gen[g][family] = "run"
    /\ gen' = [gen EXCEPT ![g][family] = "closed"]
    /\ UNCHANGED <<leases, handler>>

\* AcceptLoop::run sees the flag, or fails to accept and sets it; the listener
\* is dropped, and is released after that.
run_ends(g, family) ==
    /\ gen[g][family] = "run"
    /\ gen' = [gen EXCEPT ![g].stop = TRUE, ![g][family] = "closed"]
    /\ UNCHANGED <<leases, handler>>

StopSeenByV4(g, family) == family = "v4" /\ gen[g].stop /\ run_ends(g, family)

stop_seen(g, family) == gen[g].stop /\ run_ends(g, family)

NotifyOne(last) ==
    LET asleep == {c \in Handlers : last /\ handler[c].pc = "asleep"} IN
    [c \in Handlers |-> IF asleep # {} /\ c = CHOOSE d \in asleep : TRUE
                       THEN [handler[c] EXCEPT !.pc = "await"] ELSE handler[c]]

\* Condvar::notify_all: whoever waits, for whichever port, looks again.
notify_all(last) == [c \in Handlers |-> IF last /\ handler[c].pc = "asleep"
                                     THEN [handler[c] EXCEPT !.pc = "await"] ELSE handler[c]]

\* Leases::release: the last listener of the lease removes it.
CountDown(g, family, mine) ==
    LET p == gen[g].port
        last == mine /\ leases[p].listeners = 1
        other == IF family = "v4" THEN gen[g].v6 ELSE gen[g].v4 IN
    /\ gen[g][family] = "closed"
    /\ gen' = [gen EXCEPT ![g] = IF other = "none" THEN Unused
                                 ELSE [gen[g] EXCEPT ![family] = "none", !.stop = @ \/ last]]
    /\ leases' = [leases EXCEPT ![p] = CASE last -> None
                                         [] mine /\ ~ last -> [leases[p] EXCEPT !.listeners = @ - 1]
                                         [] OTHER -> @]
    /\ handler' = notify_all(last)

\* Arc::ptr_eq: only the lease with this very flag is counted down.
release(g, family) ==
    CountDown(g, family, leases[gen[g].port] # None /\ leases[gen[g].port].gen = g)

\* Leases::expire, by the reaper.
expire ==
    LET overdue == {p \in Ports : leases[p] # None /\ leases[p].left = 0} IN
    /\ \E p \in overdue : Live(p)
    /\ gen' = [g \in Gens |-> IF \E p \in overdue : leases[p].gen = g
                              THEN [gen[g] EXCEPT !.stop = TRUE] ELSE gen[g]]
    /\ UNCHANGED <<leases, handler>>

Tick ==
    /\ \E p \in Ports : leases[p] # None /\ leases[p].left > 0
    /\ leases' = [p \in Ports |-> IF leases[p] # None /\ leases[p].left > 0
                                  THEN [leases[p] EXCEPT !.left = @ - 1] ELSE leases[p]]
    /\ UNCHANGED <<gen, handler>>

HandlerStep(c) ==
    \/ forward_url(c) \/ refresh(c) \/ wait_until_released(c) \/ bind4(c) \/ bind6(c)
    \/ insert(c) \/ spawn4(c) \/ spawn6(c) \/ unspawn(c) \/ decide(c) \/ notify_url(c)
    \/ open_permitted_url(c)

Families == {"v4", "v6"}

Next ==
    \/ \E c \in Handlers : read_request(c) \/ HandlerStep(c)
    \/ \E g \in Gens, f \in Families : run_ends(g, f) \/ release(g, f)
    \/ expire
    \/ Tick

(***************************************************************************)
(* Threads run: handlers, and accept loops that see their flag.  Requests, *)
(* accept errors, time and the reaper are not promised.                    *)
(***************************************************************************)
Fairness ==
    /\ \A c \in Handlers : WF_vars(HandlerStep(c))
    /\ \A g \in Gens, f \in Families : WF_vars(stop_seen(g, f)) /\ WF_vars(release(g, f))

Spec == Init /\ [][Next]_vars /\ Fairness

-----------------------------------------------------------------------------
Owning == {"bind6", "insert", "spawn4", "spawn6", "unspawn"}
Serving == {"refresh", "await", "asleep", "bind"} \cup Owning
Thread == [pc : {"idle", "forward_url", "decide", "notify", "open"} \cup Serving,
           origin : Origins \cup {None}, hold : BOOLEAN, todo : Seq(Ports \cup Own),
           left : Nat, forwarded : Nat, gen : Gens \cup {None}]

\* A handler serves a port that a URL or a hold named, for the devbox that asked.
TypeOK ==
    /\ leases \in [Ports -> Lease \cup {None}]
    /\ gen \in [Gens -> Flag]
    /\ handler \in [Handlers -> Thread]
    /\ \A c \in Handlers : handler[c].pc # "idle" => handler[c].origin \in Origins
    /\ \A c \in Handlers : handler[c].pc \in Serving
          => handler[c].todo # <<>> /\ Port(c) \in Ports

\* A lease that may still be refreshed really has its IPv4 listener open: a
\* renewal is never answered `held` for a corpse, except while a handler is
\* undoing a lease whose accept loop could not be started (callback.rs).
LiveLeaseIsServed ==
    \A p \in Ports : Live(p) =>
        \/ gen[leases[p].gen].v4 \in {"bound", "run"}
        \/ \E c \in Handlers : handler[c].pc = "unspawn" /\ handler[c].gen = leases[p].gen

\* A different VM may neither renew nor replace a live port (callback.rs,
\* `serve_on`), though its handler may have found the port free before the
\* owner bound it.
LiveLeaseKeepsOwner ==
    [][\A p \in Ports : Live(p) /\ leases'[p] # None
         => leases'[p].owner = leases[p].owner
            \/ \E c \in Handlers : handler[c].pc = "unspawn" /\ handler[c].gen = leases[p].gen]_vars

\* A lease that was stopped (expired, replaced, or its accept failed) leaves
\* the map: its listeners see the flag, close and are all counted down.
StoppedLeaseReleased ==
    \A p \in Ports : leases[p] # None /\ ~ Live(p) ~> leases[p] = None \/ Live(p)

\* A handler that waits for a port to be released goes on, unless the port is
\* leased again meanwhile: no wake-up is lost (lease.rs, `release`).
WaitersWake ==
    \A c \in Handlers :
        handler[c].pc \in {"await", "asleep"}
          ~> handler[c].pc \notin {"await", "asleep"} \/ Live(Port(c))
=============================================================================
