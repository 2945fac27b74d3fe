-------------------------- MODULE CallbackLeaseProof -------------------------
(***************************************************************************)
(* Proofs about the laptop's callback leases: a lease that can still be    *)
(* renewed has its listener open, no other devbox takes it over, and who   *)
(* sleeps until a port is free is woken.                                   *)
(***************************************************************************)
EXTENDS CallbackLease, TLAPS

\* Zenon is the default prover of this module; a leaf that needs arithmetic,
\* records or a longer search says SMT.
USE Zenon

(***************************************************************************)
(* The flag of a lease and the handler that set it up.  A handler has a    *)
(* flag exactly while it serves a port, and no two handlers have the same. *)
(***************************************************************************)
OwnFlags ==
    /\ \A c \in Handlers : handler[c].gen # None <=> handler[c].pc \in Owning
    /\ \A c, d \in Handlers : handler[c].gen = handler[d].gen /\ handler[c].gen # None => c = d

\* What the listeners of a handler's flag have been through at each step.
Progress(c) ==
    LET f == gen[handler[c].gen] IN
    /\ handler[c].pc = "bind6" => f.port = Port(c) /\ f.v4 = "bound" /\ f.v6 = "none"
    /\ handler[c].pc \in {"insert", "spawn4"}
         => f.port = Port(c) /\ f.v4 = "bound" /\ f.v6 \in {"none", "bound"}
    /\ handler[c].pc = "spawn6" => f.port = Port(c) /\ f.v6 = "bound"
    /\ handler[c].pc = "unspawn" => f.v4 \in {"closed", "none"} /\ f.v6 # "run"

\* A flag has a port while it has a listener.
FlagOK(f) == f.port = None <=> f.v4 = "none" /\ f.v6 = "none"

\* bind(2) gives a port's IPv4 address to one flag.
OneListener ==
    \A g, k \in Gens :
        /\ gen[g].port = gen[k].port /\ gen[g].port # None
        /\ gen[g].v4 \in {"bound", "run"} /\ gen[k].v4 \in {"bound", "run"}
        => g = k

\* A lease counts the listeners of its flag that are not released.
Counted(p) ==
    leases[p] # None =>
        LET f == gen[leases[p].gen] IN
        /\ f.port = p
        /\ leases[p].listeners = IF f.v4 = "none" \/ f.v6 = "none" THEN 1 ELSE 2

\* A flag is in no lease before its handler inserts it.
NotYetLeased ==
    \A c \in Handlers, p \in Ports :
        handler[c].pc \in {"bind6", "insert"} /\ leases[p] # None
          => leases[p].gen # handler[c].gen

LeaseInv ==
    /\ TypeOK /\ OwnFlags /\ OneListener /\ NotYetLeased
    /\ \A c \in Handlers : Progress(c)
    /\ \A g \in Gens : FlagOK(gen[g])
    /\ \A p \in Ports : Counted(p)
    /\ LiveLeaseIsServed

-----------------------------------------------------------------------------
\* A handler that is done with a port goes back to its URL or to its accept.
LEMMA AfterPort ==
    ASSUME NEW h \in Thread, h.origin \in Origins, h.todo # <<>>,
           NEW x \in {Served(h), Failed(h), Failed([h EXCEPT !.gen = None])}
    PROVE  /\ x \in Thread /\ x.gen = None /\ x.pc \in {"idle", "forward_url"}
           /\ x.pc # "idle" => x.origin \in Origins
<1>1. Idle \in Thread /\ Idle.gen = None /\ Idle.pc = "idle"
  BY LeaseConstants, SMT DEF Idle, Thread
<1> DEFINE y == [h EXCEPT !.pc = "forward_url", !.todo = Tail(h.todo),
                          !.forwarded = h.forwarded + 1, !.gen = None]
           k == [h EXCEPT !.gen = None]
<1>2. Tail(h.todo) \in Seq(Ports \cup Own) /\ h.forwarded + 1 \in Nat
  BY SMT DEF Thread
<1>3. y \in Thread /\ y.gen = None /\ y.pc = "forward_url" /\ y.origin \in Origins
  BY <1>2 DEF Thread
<1>4. /\ k \in Thread /\ k.todo = h.todo /\ k.hold = h.hold /\ k.forwarded = h.forwarded
      /\ [k EXCEPT !.pc = "forward_url", !.todo = Tail(k.todo),
                   !.forwarded = k.forwarded + 1, !.gen = None] = y
  BY <1>2 DEF Thread
<1>5. Served(h) \in {Idle, y} /\ Served(k) \in {Idle, y}
  BY <1>4 DEF Served
<1>6. Failed(h) \in {Idle, y} /\ Failed(k) \in {Idle, y}
  BY <1>5 DEF Failed
<1>7. x \in {Idle, y}
  BY <1>5, <1>6
<1> QED
  BY <1>1, <1>3, <1>7

\* Leases that keep their flag and their count, and a handler that has no flag
\* afterwards and left no lease half undone, keep the invariant.
LEMMA Quiet ==
    ASSUME LeaseInv, NEW c \in Handlers, NEW x \in Thread,
           handler' = [handler EXCEPT ![c] = x], UNCHANGED gen,
           x.gen = None, x.pc \notin Owning,
           x.pc # "idle" => x.origin \in Origins,
           x.pc \in Serving => x.todo # <<>> /\ Head(x.todo) \in Ports,
           leases' \in [Ports -> Lease \cup {None}],
           \A p \in Ports : /\ leases'[p] = None <=> leases[p] = None
                            /\ leases[p] # None => /\ leases'[p].gen = leases[p].gen
                                                   /\ leases'[p].listeners = leases[p].listeners,
           handler[c].pc = "unspawn" =>
               \A p \in Ports : leases[p] # None => leases[p].gen # handler[c].gen
    PROVE  LeaseInv'
<1> USE DEF LeaseInv
<1>0. /\ handler \in [Handlers -> Thread] /\ handler'[c] = x
      /\ \A d \in Handlers \ {c} : handler'[d] = handler[d]
  BY DEF TypeOK
<1>1. TypeOK'
  <2>1. handler' \in [Handlers -> Thread]
    BY DEF TypeOK
  <2> QED
    BY <1>0, <2>1 DEF TypeOK, Port
<1>2. OwnFlags'
  BY <1>0, SMT DEF OwnFlags
<1>3. OneListener'
  BY DEF OneListener
<1>4. NotYetLeased'
  BY <1>0, SMT DEF NotYetLeased, Owning
<1>5. ASSUME NEW d \in Handlers PROVE Progress(d)'
  BY <1>0 DEF Progress, Port, Owning
<1>6. ASSUME NEW p \in Ports PROVE Counted(p)'
  BY SMT DEF Counted
<1>7. LiveLeaseIsServed'
  <2> SUFFICES ASSUME NEW p \in Ports, Live(p)'
               PROVE  \/ gen'[leases'[p].gen].v4 \in {"bound", "run"}
                      \/ \E d \in Handlers : handler'[d].pc = "unspawn" /\ handler'[d].gen = leases'[p].gen
    BY DEF LiveLeaseIsServed
  <2>1. Live(p) /\ leases'[p].gen = leases[p].gen
    BY DEF Live
  <2>2. CASE gen[leases[p].gen].v4 \in {"bound", "run"}
    BY <2>1, <2>2
  <2>3. CASE \E d \in Handlers : handler[d].pc = "unspawn" /\ handler[d].gen = leases[p].gen
    <3>1. PICK d \in Handlers : handler[d].pc = "unspawn" /\ handler[d].gen = leases[p].gen
      BY <2>3
    <3>2. d # c
      BY <2>1, <3>1 DEF Live
    <3> QED
      BY <1>0, <2>1, <3>1, <3>2
  <2> QED
    BY <2>1, <2>2, <2>3 DEF LiveLeaseIsServed
<1> QED
  BY <1>1, <1>2, <1>3, <1>4, <1>5, <1>6, <1>7

\* Reading a request, walking a URL's ports and opening it touch no lease.
LEMMA RequestKeeps ==
    ASSUME LeaseInv, NEW c \in Handlers,
           read_request(c) \/ forward_url(c) \/ decide(c) \/ notify_url(c) \/ open_permitted_url(c)
    PROVE  LeaseInv'
<1> USE LeaseConstants
<1>0. /\ TypeOK /\ handler[c] \in Thread
      /\ handler \in [Handlers -> Thread] /\ leases \in [Ports -> Lease \cup {None}]
      /\ handler[c].pc # "idle" => handler[c].origin \in Origins
      /\ handler[c].pc \notin Owning => handler[c].gen = None
  BY DEF LeaseInv, TypeOK, OwnFlags
<1>i. Idle \in Thread /\ Idle.gen = None /\ Idle.pc = "idle"
  BY SMT DEF Idle, Thread
<1>1. CASE read_request(c)
  <2>1. PICK o \in Origins :
          \/ \E url \in Urls :
               handler' = [handler EXCEPT ![c] = [Idle EXCEPT !.pc = "forward_url", !.origin = o,
                                                 !.todo = url, !.left = OpenTtl]]
          \/ \E p \in Ports \cup Own, secs \in HoldTtls :
               /\ is_dynamic_port(p)
               /\ handler' = [handler EXCEPT ![c] =
                     [Idle EXCEPT !.pc = "refresh", !.origin = o, !.hold = TRUE, !.todo = <<p>>,
                                  !.left = hold(secs)]]
    BY <1>1 DEF read_request
  <2>2. PICK x : /\ handler' = [handler EXCEPT ![c] = x] /\ x \in Thread
                 /\ x.gen = None /\ x.origin = o
                 /\ \/ x.pc = "forward_url"
                    \/ x.pc = "refresh" /\ x.todo # <<>> /\ Head(x.todo) \in Ports
    <3>1. CASE \E url \in Urls :
               handler' = [handler EXCEPT ![c] = [Idle EXCEPT !.pc = "forward_url", !.origin = o,
                                                 !.todo = url, !.left = OpenTtl]]
      <4>1. PICK url \in Urls :
               handler' = [handler EXCEPT ![c] = [Idle EXCEPT !.pc = "forward_url", !.origin = o,
                                                 !.todo = url, !.left = OpenTtl]]
        BY <3>1
      <4>2. url \in Seq(Ports \cup Own)
        OBVIOUS
      <4>3. LET x == [Idle EXCEPT !.pc = "forward_url", !.origin = o, !.todo = url, !.left = OpenTtl]
            IN x \in Thread /\ x.gen = None /\ x.origin = o /\ x.pc = "forward_url"
        BY <1>i, <4>2 DEF Thread
      <4> QED BY <4>1, <4>3
    <3>2. CASE \E p \in Ports \cup Own, secs \in HoldTtls :
               /\ is_dynamic_port(p)
               /\ handler' = [handler EXCEPT ![c] =
                     [Idle EXCEPT !.pc = "refresh", !.origin = o, !.hold = TRUE, !.todo = <<p>>,
                                  !.left = hold(secs)]]
      <4>1. PICK p \in Ports \cup Own, secs \in HoldTtls :
               /\ is_dynamic_port(p)
               /\ handler' = [handler EXCEPT ![c] =
                     [Idle EXCEPT !.pc = "refresh", !.origin = o, !.hold = TRUE, !.todo = <<p>>,
                                  !.left = hold(secs)]]
        BY <3>2
      <4>2. hold(secs) \in Nat /\ p \in Ports
        BY <4>1 DEF hold, is_dynamic_port
      <4>3. <<p>> \in Seq(Ports \cup Own) /\ <<p>> # <<>> /\ Head(<<p>>) = p
        BY <4>2, SMT
      <4>4. LET x == [Idle EXCEPT !.pc = "refresh", !.origin = o, !.hold = TRUE, !.todo = <<p>>,
                                  !.left = hold(secs)]
            IN x \in Thread /\ x.gen = None /\ x.origin = o /\ x.pc = "refresh" /\ x.todo = <<p>>
        <5> HIDE DEF hold
        <5> QED BY <1>i, <4>2, <4>3 DEF Thread, Serving
      <4> QED BY <4>1, <4>2, <4>3, <4>4
    <3> QED BY <2>1, <3>1, <3>2
  <2>3. UNCHANGED <<leases, gen>> /\ handler[c].pc = "idle"
    BY <1>1 DEF read_request
  <2>4. x.pc \notin Owning
    BY <2>2 DEF Owning
  <2>5. x.pc \in Serving => x.todo # <<>> /\ Head(x.todo) \in Ports
    BY <2>2 DEF Serving, Owning
  <2> QED
    BY <1>0, <2>2, <2>3, <2>4, <2>5, Quiet
<1>2. CASE forward_url(c)
  <2> DEFINE h == handler[c]
  <2>1. h.pc = "forward_url" /\ h.gen = None /\ h.origin \in Origins /\ UNCHANGED <<leases, gen>>
    BY <1>0, <1>2 DEF forward_url, Owning
  <2>2. PICK x : /\ handler' = [handler EXCEPT ![c] = x] /\ x \in Thread /\ x.gen = None
                 /\ \/ x.pc = "idle"
                    \/ x.pc \in {"decide", "forward_url"} /\ x.origin = h.origin
                    \/ /\ x.pc = "refresh" /\ x.todo # <<>> /\ Head(x.todo) \in Ports
                       /\ x.origin = h.origin
    <3>1. CASE Finish(c)
      BY <1>i, <3>1 DEF Finish
    <3>2. CASE Goto(c, "decide")
      <4>1. LET x == [h EXCEPT !.pc = "decide"]
            IN x \in Thread /\ x.gen = None /\ x.pc = "decide" /\ x.origin = h.origin
        BY <1>0, <2>1 DEF Thread
      <4> QED BY <3>2, <4>1 DEF Goto
    <3>3. CASE h.todo # <<>> /\ handler' = [handler EXCEPT ![c].todo = Tail(@)]
      <4>1. Tail(h.todo) \in Seq(Ports \cup Own)
        BY <1>0, <3>3, SMT DEF Thread
      <4>2. LET x == [h EXCEPT !.todo = Tail(h.todo)]
            IN x \in Thread /\ x.gen = None /\ x.pc = "forward_url" /\ x.origin = h.origin
        BY <1>0, <2>1, <4>1 DEF Thread
      <4> QED BY <3>3, <4>2
    <3>4. CASE h.todo # <<>> /\ is_dynamic_port(Port(c)) /\ Goto(c, "refresh")
      <4>1. Head(h.todo) \in Ports
        BY <1>0, <3>4, SMT DEF Thread, is_dynamic_port, Port
      <4>2. LET x == [h EXCEPT !.pc = "refresh"]
            IN /\ x \in Thread /\ x.gen = None /\ x.pc = "refresh" /\ x.origin = h.origin
               /\ x.todo = h.todo
        BY <1>0, <2>1 DEF Thread, Serving
      <4> QED BY <3>4, <4>1, <4>2 DEF Goto
    <3> QED BY <1>2, <3>1, <3>2, <3>3, <3>4 DEF forward_url
  <2>3. x.pc \notin Owning
    BY <2>2 DEF Owning
  <2>4. x.pc \in Serving => x.todo # <<>> /\ Head(x.todo) \in Ports
    BY <2>2 DEF Serving, Owning
  <2> HIDE DEF h
  <2> QED
    BY <1>0, <2>1, <2>2, <2>3, <2>4, Quiet DEF h
<1>3. CASE decide(c) \/ notify_url(c) \/ open_permitted_url(c)
  <2>1. /\ handler[c].pc \in {"decide", "notify", "open"} /\ UNCHANGED <<leases, gen>>
        /\ Goto(c, "open") \/ Goto(c, "notify") \/ Finish(c)
    BY <1>3 DEF decide, notify_url, open_permitted_url
  <2>2. handler[c].gen = None /\ handler[c].origin \in Origins
    BY <1>0, <2>1 DEF Owning
  <2>3. PICK x : /\ handler' = [handler EXCEPT ![c] = x] /\ x \in Thread /\ x.gen = None
                 /\ \/ x.pc = "idle"
                    \/ x.pc \in {"open", "notify"} /\ x.origin \in Origins
    <3>1. LET x == [handler[c] EXCEPT !.pc = "open"]
          IN x \in Thread /\ x.gen = None /\ x.pc = "open" /\ x.origin = handler[c].origin
      BY <1>0, <2>2 DEF Thread
    <3>2. LET x == [handler[c] EXCEPT !.pc = "notify"]
          IN x \in Thread /\ x.gen = None /\ x.pc = "notify" /\ x.origin = handler[c].origin
      BY <1>0, <2>2 DEF Thread
    <3> QED BY <1>i, <2>1, <2>2, <3>1, <3>2 DEF Goto, Finish
  <2>4. x.pc \notin Owning /\ x.pc \notin Serving
    BY <2>3 DEF Owning, Serving
  <2> QED
    BY <1>0, <2>1, <2>3, <2>4, Quiet
<1> QED
  BY <1>1, <1>2, <1>3

\* Looking the port up, waiting for it and failing to bind it touch no flag.
LEMMA LookKeeps ==
    ASSUME LeaseInv, NEW c \in Handlers,
           refresh(c) \/ wait_until_released(c) \/ (bind4(c) /\ UNCHANGED gen)
    PROVE  LeaseInv'
<1> USE LeaseConstants
<1> DEFINE h == handler[c]
<1>0. /\ h \in Thread /\ handler \in [Handlers -> Thread] /\ leases \in [Ports -> Lease \cup {None}]
      /\ h.pc \in {"refresh", "await", "bind"} /\ UNCHANGED gen
  BY DEF LeaseInv, TypeOK, refresh, wait_until_released, bind4
<1>1. /\ h.origin \in Origins /\ h.gen = None /\ h.todo # <<>> /\ Port(c) \in Ports
  BY <1>0 DEF LeaseInv, TypeOK, OwnFlags, Owning, Serving
<1>2. ASSUME NEW l \in {"await", "asleep", "bind"}
      PROVE  LET x == [h EXCEPT !.pc = l]
             IN x \in Thread /\ x.gen = None /\ x.pc = l /\ x.origin = h.origin /\ x.todo = h.todo
  BY <1>0, <1>1 DEF Thread, Serving
<1>i. Idle \in Thread /\ Idle.gen = None /\ Idle.pc = "idle"
  BY SMT DEF Idle, Thread
<1>3. PICK x : /\ handler' = [handler EXCEPT ![c] = x] /\ x \in Thread /\ x.gen = None
               /\ \/ x.pc = "idle"
                  \/ x.pc = "forward_url" /\ x.origin \in Origins
                  \/ /\ x.pc \in {"await", "asleep", "bind"} /\ x.origin = h.origin
                     /\ x.todo = h.todo
  <2>1. ASSUME NEW l \in {"await", "asleep", "bind"}, Goto(c, l)
        PROVE  \E x : /\ handler' = [handler EXCEPT ![c] = x] /\ x \in Thread /\ x.gen = None
                      /\ x.pc \in {"await", "asleep", "bind"} /\ x.origin = h.origin
                      /\ x.todo = h.todo
    BY <1>2, <2>1 DEF Goto
  <2>2. CASE refresh(c)
    BY <1>0, <1>1, <1>i, <2>1, <2>2, AfterPort DEF refresh, Finish
  <2>3. CASE wait_until_released(c)
    BY <2>1, <2>3 DEF wait_until_released
  <2>4. CASE bind4(c) /\ UNCHANGED gen
    <3>1. CASE handler' = [handler EXCEPT ![c] = Failed(@)]
      BY <1>0, <1>1, <3>1, AfterPort
    <3>2. CASE \E g \in FreeGens : gen' = [gen EXCEPT ![g].port = Port(c), ![g].v4 = "bound"]
      <4>1. PICK g \in Gens : /\ gen[g] = Unused
                              /\ gen' = [gen EXCEPT ![g].port = Port(c), ![g].v4 = "bound"]
        BY <3>2 DEF FreeGens
      <4>2. gen'[g].v4 = "bound" /\ gen[g].v4 = "none"
        BY <4>1, SMT DEF LeaseInv, TypeOK, Flag, Unused
      <4> QED BY <1>0, <4>2
    <3> QED BY <2>4, <3>1, <3>2 DEF bind4
  <2> QED BY <2>2, <2>3, <2>4
<1>4. /\ leases' \in [Ports -> Lease \cup {None}]
      /\ \A p \in Ports : /\ leases'[p] = None <=> leases[p] = None
                          /\ leases[p] # None => /\ leases'[p].gen = leases[p].gen
                                                 /\ leases'[p].listeners = leases[p].listeners
  <2>1. CASE UNCHANGED leases
    BY <1>0, <2>1
  <2>2. CASE refresh(c) /\ Live(Port(c))
             /\ leases' = [leases EXCEPT ![Port(c)].left = IF @ < h.left THEN h.left ELSE @]
    <3> DEFINE l == leases[Port(c)]
               k == [l EXCEPT !.left = IF l.left < h.left THEN h.left ELSE l.left]
    <3>1. l \in Lease /\ h.left \in Nat
      BY <1>0, <1>1, <2>2 DEF Live, Thread
    <3>2. k \in Lease /\ k.gen = l.gen /\ k.listeners = l.listeners
      BY <3>1 DEF Lease
    <3>3. leases' = [leases EXCEPT ![Port(c)] = k]
      BY <2>2
    <3> HIDE DEF k
    <3> QED
      BY <1>0, <1>1, <3>1, <3>2, <3>3
  <2> QED
    BY <2>1, <2>2 DEF refresh, wait_until_released, bind4
<1>5. x.pc \notin Owning
  BY <1>3 DEF Owning
<1>6. x.pc \in Serving => x.todo # <<>> /\ Head(x.todo) \in Ports
  BY <1>1, <1>3 DEF Serving, Owning, Port
<1>7. x.pc # "idle" => x.origin \in Origins
  BY <1>1, <1>3
<1>8. handler[c].pc # "unspawn"
  BY <1>0
<1> HIDE DEF h
<1> QED
  BY <1>0, <1>3, <1>4, <1>5, <1>6, <1>7, <1>8, Quiet

-----------------------------------------------------------------------------
\* A handler's step on its own flag: the flag f it leaves is right for the
\* step it comes to, takes no address that is taken and, if it is leased,
\* keeps its port, its count and its open listener.
Fits(x, f) ==
    /\ x.pc # "idle" => x.origin \in Origins
    /\ x.pc \in Serving => x.todo # <<>> /\ Head(x.todo) \in Ports
    /\ FlagOK(f)
    /\ x.pc = "bind6" => f.port = Head(x.todo) /\ f.v4 = "bound" /\ f.v6 = "none"
    /\ x.pc \in {"insert", "spawn4"}
         => f.port = Head(x.todo) /\ f.v4 = "bound" /\ f.v6 \in {"none", "bound"}
    /\ x.pc = "spawn6" => f.port = Head(x.todo) /\ f.v6 = "bound"
    /\ x.pc = "unspawn" => f.v4 \in {"closed", "none"} /\ f.v6 # "run"

Takes(g, f) ==
    f.v4 \in {"bound", "run"} =>
        \/ gen[g].v4 \in {"bound", "run"} /\ f.port = gen[g].port
        \/ \A k \in Gens : gen[k].port = f.port => gen[k].v4 \notin {"bound", "run"}

KeepsLease(g, x, f) ==
    \A p \in Ports : leases[p] # None /\ leases[p].gen = g =>
        /\ x.pc \notin {"bind6", "insert"}
        /\ f.port = p /\ (f.v4 = "none" <=> gen[g].v4 = "none")
        /\ (f.v6 = "none" <=> gen[g].v6 = "none")
        /\ f.stop \/ f.v4 \in {"bound", "run"} \/ x.pc = "unspawn"

\* Such a step keeps the invariant.
LEMMA OwnStep ==
    ASSUME LeaseInv, NEW c \in Handlers, NEW g \in Gens, NEW x \in Thread, NEW f \in Flag,
           handler' = [handler EXCEPT ![c] = x], gen' = [gen EXCEPT ![g] = f], UNCHANGED leases,
           x.gen \in {None, g}, x.gen # None <=> x.pc \in Owning,
           handler[c].gen \in {None, g}, \A d \in Handlers \ {c} : handler[d].gen # g,
           Fits(x, f), Takes(g, f), KeepsLease(g, x, f)
    PROVE  LeaseInv'
<1> USE DEF LeaseInv
<1>0. /\ handler \in [Handlers -> Thread] /\ handler'[c] = x
      /\ \A d \in Handlers \ {c} : handler'[d] = handler[d]
      /\ gen \in [Gens -> Flag] /\ gen'[g] = f
      /\ \A k \in Gens \ {g} : gen'[k] = gen[k]
      /\ leases \in [Ports -> Lease \cup {None}]
  BY DEF TypeOK
<1>1. TypeOK'
  <2>1. handler' \in [Handlers -> Thread] /\ gen' \in [Gens -> Flag]
    BY <1>0
  <2> QED
    BY <1>0, <2>1 DEF TypeOK, Port, Fits
<1>2. OwnFlags'
  BY <1>0, LeaseConstants, SMT DEF OwnFlags
<1>3. OneListener'
  BY <1>0, SMT DEF OneListener, Takes
<1>4. NotYetLeased'
  BY <1>0, LeaseConstants, SMT DEF NotYetLeased, Owning, KeepsLease
<1>5. ASSUME NEW d \in Handlers PROVE Progress(d)'
  <2>1. CASE d = c
    <3>1. x.gen = g \/ x.pc \notin Owning
      OBVIOUS
    <3> QED
      BY <1>0, <2>1, <3>1 DEF Progress, Port, Owning, Fits
  <2>2. CASE d # c
    <3>1. CASE handler[d].gen = None
      <4>1. handler'[d].pc \notin Owning
        BY <1>0, <2>2, <3>1 DEF OwnFlags
      <4> QED
        BY <4>1 DEF Progress, Owning
    <3>2. CASE handler[d].gen # None
      <4>1. handler[d].gen \in Gens \ {g}
        BY <1>0, <2>2, <3>2, SMT DEF Thread
      <4>2. handler'[d] = handler[d] /\ gen'[handler[d].gen] = gen[handler[d].gen]
        BY <1>0, <2>2, <4>1
      <4>3. Progress(d)
        OBVIOUS
      <4> QED
        BY <4>2, <4>3 DEF Progress, Port
    <3> QED
      BY <3>1, <3>2
  <2> QED
    BY <2>1, <2>2
<1>6. ASSUME NEW k \in Gens PROVE FlagOK(gen'[k])
  BY <1>0 DEF Fits
<1>7. ASSUME NEW p \in Ports PROVE Counted(p)'
  <2>1. leases[p] # None => leases[p].gen \in Gens
    BY <1>0 DEF Lease
  <2> QED
    BY <1>0, <2>1, SMT DEF Counted, KeepsLease
<1>8. LiveLeaseIsServed'
  <2> SUFFICES ASSUME NEW p \in Ports, Live(p)'
               PROVE  \/ gen'[leases[p].gen].v4 \in {"bound", "run"}
                      \/ \E d \in Handlers : handler'[d].pc = "unspawn" /\ handler'[d].gen = leases[p].gen
    BY SMT DEF LiveLeaseIsServed
  <2>1. leases[p] # None /\ leases[p].gen \in Gens
    BY <1>0 DEF Live, Lease
  <2>2. CASE leases[p].gen = g
    <3>1. ~ f.stop
      BY <1>0, <2>2 DEF Live
    <3>2. x.pc = "unspawn" => x.gen = g
      BY DEF Owning
    <3> QED
      BY <1>0, <2>1, <2>2, <3>1, <3>2 DEF KeepsLease
  <2>3. CASE leases[p].gen # g
    <3>1. gen'[leases[p].gen] = gen[leases[p].gen]
      BY <1>0, <2>1, <2>3
    <3>2. Live(p)
      BY <3>1 DEF Live
    <3>3. \/ gen[leases[p].gen].v4 \in {"bound", "run"}
          \/ \E d \in Handlers : handler[d].pc = "unspawn" /\ handler[d].gen = leases[p].gen
      BY <3>2 DEF LiveLeaseIsServed
    <3>4. ASSUME NEW d \in Handlers, handler[d].gen = leases[p].gen PROVE d # c
      BY <2>1, <2>3, <3>4, LeaseConstants
    <3> QED
      BY <1>0, <3>1, <3>3, <3>4
  <2> QED
    BY <2>2, <2>3
<1> QED
  BY <1>1, <1>2, <1>3, <1>4, <1>5, <1>6, <1>7, <1>8

\* The IPv4 listener is bound under a fresh flag.
LEMMA Bind4Keeps ==
    ASSUME LeaseInv, NEW c \in Handlers, bind4(c)
    PROVE  LeaseInv'
<1> USE LeaseConstants
<1> DEFINE h == handler[c]
<1>0. /\ h \in Thread /\ h.pc = "bind" /\ h.origin \in Origins /\ h.gen = None
      /\ h.todo # <<>> /\ Port(c) \in Ports /\ gen \in [Gens -> Flag]
      /\ handler \in [Handlers -> Thread] /\ leases \in [Ports -> Lease \cup {None}]
  BY DEF bind4, LeaseInv, TypeOK, OwnFlags, Serving, Owning
<1>1. CASE UNCHANGED gen
  BY <1>1, LookKeeps
<1>2. CASE gen' # gen
  <2>1. Bindable(Port(c), "v4") /\ FreeGens # {}
    BY <1>2 DEF bind4
  <2>2. PICK g \in FreeGens :
          /\ gen' = [gen EXCEPT ![g].port = Port(c), ![g].v4 = "bound"]
          /\ handler' = [handler EXCEPT ![c].pc = "bind6", ![c].gen = g]
    BY <1>2, <2>1 DEF bind4
  <2>3. g \in Gens /\ gen[g] = Unused /\ \A d \in Handlers : handler[d].gen # g
    BY <2>2 DEF FreeGens
  <2> DEFINE x == [h EXCEPT !.pc = "bind6", !.gen = g]
             f == [gen[g] EXCEPT !.port = Port(c), !.v4 = "bound"]
  <2>4. /\ x \in Thread /\ x.pc = "bind6" /\ x.gen = g /\ x.origin = h.origin /\ x.todo = h.todo
    BY <1>0, <2>3 DEF Thread, Serving, Owning
  <2>5. f \in Flag /\ f.port = Port(c) /\ f.v4 = "bound" /\ f.v6 = "none" /\ FlagOK(f)
    <3>0. Unused.v6 = "none"
      BY DEF Unused
    <3>1. gen[g] \in Flag /\ gen[g].v6 = "none"
      BY <1>0, <2>3, <3>0
    <3>2. f \in Flag /\ f.port = Port(c) /\ f.v4 = "bound" /\ f.v6 = "none"
      BY <1>0, <3>1 DEF Flag, Listener
    <3> HIDE DEF f
    <3> QED BY <1>0, <3>2 DEF FlagOK
  <2>6. handler' = [handler EXCEPT ![c] = x] /\ gen' = [gen EXCEPT ![g] = f] /\ UNCHANGED leases
    BY <1>0, <2>2, <2>3 DEF bind4
  <2>7. \A p \in Ports : leases[p] # None => leases[p].gen # g
    <3> SUFFICES ASSUME NEW p \in Ports, leases[p] # None, leases[p].gen = g PROVE FALSE
      OBVIOUS
    <3>1. gen[g].port = p
      BY DEF LeaseInv, Counted
    <3> QED BY <2>3, <3>1, SMT DEF Unused
  <2>8. \A k \in Gens : gen[k].port = f.port => gen[k].v4 \notin {"bound", "run"}
    BY <2>1, <2>5 DEF Bindable
  <2>9. x.pc \in Owning /\ f.port = Head(x.todo) /\ Head(x.todo) \in Ports
    BY <1>0, <2>4, <2>5 DEF Owning, Port
  <2> HIDE DEF x, f, h
  <2> QED
    <3>1. Fits(x, f)
      BY <1>0, <2>4, <2>5, <2>9 DEF Fits, h
    <3>2. Takes(g, f) /\ KeepsLease(g, x, f)
      BY <2>7, <2>8 DEF Takes, KeepsLease
    <3> QED
      BY <1>0, <2>3, <2>4, <2>5, <2>6, <2>9, <3>1, <3>2, OwnStep DEF h
<1> QED
  BY <1>1, <1>2

\* What a handler that has a flag can rely on.
LEMMA Owner ==
    ASSUME LeaseInv, NEW c \in Handlers, handler[c].pc \in Owning
    PROVE  /\ handler[c] \in Thread /\ handler[c].origin \in Origins /\ handler[c].todo # <<>>
           /\ Port(c) \in Ports /\ handler[c].gen \in Gens /\ gen[handler[c].gen] \in Flag
           /\ \A d \in Handlers \ {c} : handler[d].gen # handler[c].gen
           /\ Progress(c) /\ FlagOK(gen[handler[c].gen])
           /\ \A p \in Ports : leases[p] # None /\ leases[p].gen = handler[c].gen =>
                /\ gen[handler[c].gen].port = p
                /\ \/ gen[handler[c].gen].stop
                   \/ gen[handler[c].gen].v4 \in {"bound", "run"}
                   \/ handler[c].pc = "unspawn"
<1>1. /\ handler[c] \in Thread /\ handler[c].origin \in Origins /\ handler[c].todo # <<>>
      /\ Port(c) \in Ports
  BY DEF LeaseInv, TypeOK, Serving, Owning
<1>2. handler[c].gen \in Gens
  BY <1>1 DEF LeaseInv, OwnFlags, Thread
<1>3. gen[handler[c].gen] \in Flag /\ FlagOK(gen[handler[c].gen]) /\ Progress(c)
  BY <1>2 DEF LeaseInv, TypeOK
<1>4. \A d \in Handlers \ {c} : handler[d].gen # handler[c].gen
  BY <1>2, LeaseConstants DEF LeaseInv, OwnFlags
<1>5. ASSUME NEW p \in Ports, leases[p] # None, leases[p].gen = handler[c].gen
      PROVE  /\ gen[handler[c].gen].port = p
             /\ \/ gen[handler[c].gen].stop
                \/ gen[handler[c].gen].v4 \in {"bound", "run"}
                \/ handler[c].pc = "unspawn"
  BY <1>4, <1>5, SMT DEF LeaseInv, Counted, LiveLeaseIsServed, Live
<1> QED
  BY <1>1, <1>2, <1>3, <1>4, <1>5

\* The IPv6 listener is bound, left out, or the flag given up.
LEMMA Bind6Keeps ==
    ASSUME LeaseInv, NEW c \in Handlers, bind6(c)
    PROVE  LeaseInv'
<1> USE LeaseConstants
<1> DEFINE h == handler[c]
           g == handler[c].gen
<1>0. h.pc = "bind6" /\ h.pc \in Owning /\ UNCHANGED leases
  BY DEF bind6, Owning
<1>1. /\ h \in Thread /\ h.origin \in Origins /\ h.todo # <<>> /\ Port(c) \in Ports
      /\ g \in Gens /\ gen[g] \in Flag /\ \A d \in Handlers \ {c} : handler[d].gen # g
  BY <1>0, Owner
<1>2. gen[g].port = Port(c) /\ gen[g].v4 = "bound" /\ gen[g].v6 = "none"
  BY <1>0, Owner DEF Progress
<1>3. \A p \in Ports : leases[p] # None => leases[p].gen # g
  BY <1>0 DEF LeaseInv, NotYetLeased
<1>t. handler \in [Handlers -> Thread] /\ gen \in [Gens -> Flag]
  BY DEF LeaseInv, TypeOK
<1>4. CASE Goto(c, "insert")
  <2> DEFINE x == [h EXCEPT !.pc = "insert"]
  <2>1. x \in Thread /\ x.pc = "insert" /\ x.gen = g /\ x.origin = h.origin /\ x.todo = h.todo
    BY <1>1 DEF Thread, Serving, Owning
  <2>2. PICK f \in Flag : /\ gen' = [gen EXCEPT ![g] = f]
                          /\ f.port = Port(c) /\ f.v4 = "bound" /\ f.v6 \in {"none", "bound"}
    <3>1. CASE UNCHANGED gen
      BY <1>1, <1>2, <1>t, <3>1
    <3>2. CASE gen' = [gen EXCEPT ![g].v6 = "bound"]
      <4>1. LET f == [gen[g] EXCEPT !.v6 = "bound"]
            IN f \in Flag /\ f.port = Port(c) /\ f.v4 = "bound" /\ f.v6 = "bound"
        BY <1>1, <1>2 DEF Flag, Listener
      <4> QED BY <3>2, <4>1
    <3>3. CASE handler' = [handler EXCEPT ![c] = Failed([@ EXCEPT !.gen = None])]
      <4>1. handler'[c].pc \in {"idle", "forward_url"}
        BY <1>1, <1>t, <3>3, AfterPort
      <4>2. handler'[c].pc = "insert"
        BY <1>1, <1>4, <1>t DEF Goto, Thread
      <4> QED BY <4>1, <4>2
    <3> QED BY <3>1, <3>2, <3>3 DEF bind6
  <2>3. handler' = [handler EXCEPT ![c] = x]
    BY <1>4 DEF Goto
  <2>4. x.pc \in Owning /\ Head(x.todo) = Port(c) /\ FlagOK(f)
    BY <1>1, <2>1, <2>2 DEF Owning, Port, FlagOK
  <2> HIDE DEF x, h, g
  <2> QED
    <3>1. Fits(x, f)
      BY <1>1, <2>1, <2>2, <2>4 DEF Fits
    <3>2. Takes(g, f) /\ KeepsLease(g, x, f)
      BY <1>2, <1>3, <2>2 DEF Takes, KeepsLease
    <3>3. handler[c].gen \in {None, g} /\ x.gen \in {None, g} /\ (x.gen # None <=> x.pc \in Owning)
      BY <1>1, <2>1, <2>4 DEF g
    <3> QED
      <4>1. g \in Gens /\ x \in Thread /\ \A d \in Handlers \ {c} : handler[d].gen # g
        BY <1>1, <2>1
      <4>2. gen' = [gen EXCEPT ![g] = f] /\ UNCHANGED leases
        BY <1>0, <2>2
      <4> QED
        BY <2>3, <3>1, <3>2, <3>3, <4>1, <4>2, OwnStep
<1>5. CASE /\ gen' = [gen EXCEPT ![g] = Unused]
           /\ handler' = [handler EXCEPT ![c] = Failed([@ EXCEPT !.gen = None])]
  <2> DEFINE x == Failed([h EXCEPT !.gen = None])
  <2>1. /\ x \in Thread /\ x.gen = None /\ x.pc \in {"idle", "forward_url"}
        /\ x.pc # "idle" => x.origin \in Origins
    BY <1>1, AfterPort
  <2>2. Unused \in Flag /\ FlagOK(Unused) /\ Unused.v4 = "none"
    BY DEF Unused, Flag, Listener, FlagOK
  <2>3. x.pc \notin Owning /\ x.pc \notin Serving
    BY <2>1 DEF Owning, Serving
  <2>4. handler' = [handler EXCEPT ![c] = x] /\ gen' = [gen EXCEPT ![g] = Unused]
    BY <1>5
  <2> HIDE DEF x, h, g
  <2> QED
    <3>1. Fits(x, Unused)
      BY <2>1, <2>2, <2>3 DEF Fits
    <3>2. Takes(g, Unused) /\ KeepsLease(g, x, Unused)
      BY <1>3, <2>2 DEF Takes, KeepsLease
    <3> QED
      BY <1>0, <1>1, <2>1, <2>2, <2>3, <2>4, <3>1, <3>2, OwnStep DEF h, g
<1> QED
  BY <1>4, <1>5 DEF bind6

\* The accept loops are started, or their listeners dropped.
LEMMA SpawnKeeps ==
    ASSUME LeaseInv, NEW c \in Handlers, spawn4(c) \/ spawn6(c)
    PROVE  LeaseInv'
<1> USE LeaseConstants
<1> DEFINE h == handler[c]
           g == handler[c].gen
<1>0. h.pc \in {"spawn4", "spawn6"} /\ h.pc \in Owning /\ UNCHANGED leases
  BY DEF spawn4, spawn6, Owning
<1>1. /\ h \in Thread /\ h.origin \in Origins /\ h.todo # <<>> /\ Port(c) \in Ports
      /\ g \in Gens /\ gen[g] \in Flag /\ FlagOK(gen[g])
      /\ \A d \in Handlers \ {c} : handler[d].gen # g
  BY <1>0, Owner
<1>2. gen[g].port = Port(c) /\ Port(c) = Head(h.todo)
  BY <1>0, Owner DEF Progress, Port
<1>3. \A p \in Ports : leases[p] # None /\ leases[p].gen = g =>
         gen[g].port = p /\ (gen[g].stop \/ gen[g].v4 \in {"bound", "run"})
  BY <1>0, Owner
<1>4. /\ Served(h) \in Thread /\ Served(h).gen = None /\ Served(h).pc \in {"idle", "forward_url"}
      /\ Served(h).pc # "idle" => Served(h).origin \in Origins
  BY <1>1, AfterPort
<1>5. ASSUME NEW v \in {"spawn6", "unspawn"}
      PROVE  LET y == [h EXCEPT !.pc = v]
             IN y \in Thread /\ y.pc = v /\ y.gen = g /\ y.origin = h.origin /\ y.todo = h.todo
  BY <1>1 DEF Thread, Serving, Owning
<1>6. CASE spawn4(c)
  <2>1. h.pc = "spawn4" /\ gen[g].v4 = "bound" /\ gen[g].v6 \in {"none", "bound"}
    BY <1>0, <1>6, Owner DEF spawn4, Progress
  <2>2. ASSUME NEW v \in {"run", "closed"}
        PROVE  LET f == [gen[g] EXCEPT !.v4 = v]
               IN /\ f \in Flag /\ f.v4 = v /\ f.v6 = gen[g].v6 /\ f.port = gen[g].port
                  /\ f.stop = gen[g].stop
    BY <1>1 DEF Flag, Listener
  <2>3. PICK x \in Thread, f \in Flag :
          /\ handler' = [handler EXCEPT ![c] = x] /\ gen' = [gen EXCEPT ![g] = f]
          /\ f.v6 = gen[g].v6 /\ f.port = gen[g].port /\ f.stop = gen[g].stop
          /\ \/ /\ f.v4 = "run" /\ gen[g].v6 = "bound" /\ x.pc = "spawn6" /\ x.gen = g
                /\ x.origin = h.origin /\ x.todo = h.todo
             \/ f.v4 = "run" /\ x = Served(h)
             \/ /\ f.v4 = "closed" /\ x.pc = "unspawn" /\ x.gen = g
                /\ x.origin = h.origin /\ x.todo = h.todo
    <3>1. CASE gen' = [gen EXCEPT ![g].v4 = "run"] /\ gen[g].v6 = "bound"
               /\ handler' = [handler EXCEPT ![c].pc = "spawn6"]
      BY <1>5, <2>2, <3>1
    <3>2. CASE gen' = [gen EXCEPT ![g].v4 = "run"] /\ handler' = [handler EXCEPT ![c] = Served(@)]
      BY <1>4, <2>2, <3>2
    <3>3. CASE gen' = [gen EXCEPT ![g].v4 = "closed"] /\ Goto(c, "unspawn")
      BY <1>5, <2>2, <3>3 DEF Goto
    <3> QED BY <1>6, <3>1, <3>2, <3>3 DEF spawn4
  <2> HIDE DEF h, g
  <2>4. Fits(x, f)
    <3>1. FlagOK(f)
      BY <1>1, <1>2, <2>3 DEF FlagOK
    <3> QED BY <1>1, <1>2, <1>4, <2>1, <2>3, <3>1 DEF Fits, Serving, Owning
  <2>5. Takes(g, f)
    BY <2>1, <2>3 DEF Takes
  <2>6. KeepsLease(g, x, f)
    BY <1>3, <1>4, <2>1, <2>3 DEF KeepsLease
  <2>7. x.gen \in {None, g} /\ (x.gen # None <=> x.pc \in Owning) /\ handler[c].gen \in {None, g}
    BY <1>1, <1>4, <2>3 DEF Owning, g
  <2>8. gen' = [gen EXCEPT ![g] = f] /\ handler' = [handler EXCEPT ![c] = x]
    BY <2>3
  <2> QED
    BY <1>0, <1>1, <2>4, <2>5, <2>6, <2>7, <2>8, OwnStep
<1>7. CASE spawn6(c)
  <2>1. gen[g].v6 = "bound"
    BY <1>0, <1>7, Owner DEF spawn6, Progress
  <2>2. PICK v \in {"run", "closed"} : gen' = [gen EXCEPT ![g].v6 = v]
    BY <1>7 DEF spawn6
  <2> DEFINE f == [gen[g] EXCEPT !.v6 = v]
             x == Served(h)
  <2>3. /\ f \in Flag /\ f.v6 = v /\ f.v4 = gen[g].v4 /\ f.port = gen[g].port /\ f.stop = gen[g].stop
    BY <1>1 DEF Flag, Listener
  <2>4. gen' = [gen EXCEPT ![g] = f] /\ handler' = [handler EXCEPT ![c] = x]
    BY <1>7, <2>2 DEF spawn6
  <2> HIDE DEF h, g, f, x
  <2>5. Fits(x, f)
    <3>1. FlagOK(f)
      BY <1>1, <1>2, <2>3 DEF FlagOK
    <3> QED BY <1>4, <3>1 DEF Fits, Serving, Owning, x
  <2>6. Takes(g, f) /\ KeepsLease(g, x, f)
    BY <1>3, <1>4, <2>1, <2>3 DEF Takes, KeepsLease, x
  <2>7. /\ x \in Thread /\ x.gen \in {None, g} /\ (x.gen # None <=> x.pc \in Owning)
        /\ handler[c].gen \in {None, g}
    BY <1>4 DEF Owning, x, g
  <2> QED
    BY <1>0, <1>1, <2>3, <2>4, <2>5, <2>6, <2>7, OwnStep
<1> QED
  BY <1>6, <1>7

\* A lease whose accept loop could not be started is undone: its handler stays
\* with it until both listeners are released.
LEMMA UnspawnKeeps ==
    ASSUME LeaseInv, NEW c \in Handlers, unspawn(c)
    PROVE  LeaseInv'
<1> USE LeaseConstants
<1> DEFINE h == handler[c]
           g == handler[c].gen
<1>0. /\ h.pc = "unspawn" /\ h.pc \in Owning /\ UNCHANGED leases
      /\ gen[g].v4 = "none" /\ gen[g].v6 # "closed"
  BY DEF unspawn, Owning
<1>1. /\ h \in Thread /\ h.origin \in Origins /\ h.todo # <<>> /\ Port(c) \in Ports
      /\ g \in Gens /\ gen[g] \in Flag /\ FlagOK(gen[g])
      /\ \A d \in Handlers \ {c} : handler[d].gen # g
  BY <1>0, Owner
<1>2. gen[g].v6 # "run"
  BY <1>0, Owner DEF Progress
<1>t. handler \in [Handlers -> Thread] /\ leases \in [Ports -> Lease \cup {None}]
  BY DEF LeaseInv, TypeOK
<1>3. CASE gen[g].v6 = "bound"
  <2> DEFINE f == [gen[g] EXCEPT !.v6 = "closed"]
  <2>1. gen' = [gen EXCEPT ![g] = f] /\ handler' = [handler EXCEPT ![c] = h]
    BY <1>3, <1>t DEF unspawn
  <2>2. /\ f \in Flag /\ f.v6 = "closed" /\ f.v4 = "none" /\ f.port = gen[g].port /\ f.stop = gen[g].stop
    BY <1>0, <1>1 DEF Flag, Listener
  <2>3. \A p \in Ports : leases[p] # None /\ leases[p].gen = g => gen[g].port = p
    BY <1>0, Owner
  <2> HIDE DEF h, g, f
  <2>4. Fits(h, f)
    <3>1. FlagOK(f)
      BY <1>1, <1>3, <2>2 DEF FlagOK
    <3> QED BY <1>0, <1>1, <2>2, <3>1 DEF Fits, Port, h
  <2>5. Takes(g, f) /\ KeepsLease(g, h, f)
    BY <1>0, <1>3, <2>2, <2>3 DEF Takes, KeepsLease
  <2>6. h.gen \in {None, g} /\ (h.gen # None <=> h.pc \in Owning) /\ handler[c].gen \in {None, g}
    BY <1>0, <1>1 DEF g, h
  <2> QED
    BY <1>0, <1>1, <2>1, <2>2, <2>4, <2>5, <2>6, OwnStep
<1>4. CASE gen[g].v6 # "bound"
  <2> DEFINE x == Failed([h EXCEPT !.gen = None])
  <2>1. handler' = [handler EXCEPT ![c] = x] /\ UNCHANGED gen
    BY <1>4 DEF unspawn
  <2>2. /\ x \in Thread /\ x.gen = None /\ x.pc \in {"idle", "forward_url"}
        /\ x.pc # "idle" => x.origin \in Origins
    BY <1>1, AfterPort
  <2>3. x.pc \notin Owning /\ x.pc \notin Serving
    BY <2>2 DEF Owning, Serving
  <2>4. gen[g].port = None
    BY <1>0, <1>1, <1>2, <1>4 DEF FlagOK, Flag, Listener
  <2>5. \A p \in Ports : leases[p] # None => leases[p].gen # handler[c].gen
    BY <2>4, SMT DEF LeaseInv, Counted
  <2> HIDE DEF x
  <2> QED
    BY <1>0, <1>t, <2>1, <2>2, <2>3, <2>5, Quiet
<1> QED
  BY <1>3, <1>4

\* The lease is entered with a listener that nobody else can have bound, so
\* what it replaces, if anything, is not live or is being undone.
LEMMA InsertKeeps ==
    ASSUME LeaseInv, NEW c \in Handlers, insert(c)
    PROVE  LeaseInv'
<1> USE LeaseConstants
<1> DEFINE h == handler[c]
           g == handler[c].gen
           n == [owner |-> h.origin, left |-> h.left, gen |-> g,
                 listeners |-> IF gen[g].v6 = "bound" THEN 2 ELSE 1]
           x == [h EXCEPT !.pc = "spawn4"]
<1>0. h.pc = "insert" /\ h.pc \in Owning
  BY DEF insert, Owning
<1>1. /\ h \in Thread /\ h.origin \in Origins /\ h.todo # <<>> /\ Port(c) \in Ports
      /\ g \in Gens /\ gen[g] \in Flag /\ \A d \in Handlers \ {c} : handler[d].gen # g
  BY <1>0, Owner
<1>2. gen[g].port = Port(c) /\ gen[g].v4 = "bound" /\ gen[g].v6 \in {"none", "bound"}
  BY <1>0, Owner DEF Progress
<1>3. \A p \in Ports : leases[p] # None => leases[p].gen # g
  BY <1>0 DEF LeaseInv, NotYetLeased
<1>t. /\ handler \in [Handlers -> Thread] /\ leases \in [Ports -> Lease \cup {None}]
      /\ gen \in [Gens -> Flag]
  BY DEF LeaseInv, TypeOK
<1>4. /\ x \in Thread /\ x.pc = "spawn4" /\ x.gen = g /\ x.origin = h.origin /\ x.todo = h.todo
  BY <1>1 DEF Thread, Serving, Owning
<1>5. n \in Lease /\ n.gen = g /\ n.listeners = IF gen[g].v6 = "bound" THEN 2 ELSE 1
  BY <1>1 DEF Lease, Thread
<1>6. /\ handler' = [handler EXCEPT ![c] = x]
      /\ leases' = [leases EXCEPT ![Port(c)] = n]
  BY DEF insert, Goto
<1>7. /\ gen' \in [Gens -> Flag]
      /\ \A k \in Gens : /\ gen'[k].port = gen[k].port /\ gen'[k].v4 = gen[k].v4
                         /\ gen'[k].v6 = gen[k].v6 /\ (gen[k].stop => gen'[k].stop)
  <2>1. CASE leases[Port(c)] = None
    BY <1>t, <2>1 DEF insert
  <2>2. CASE leases[Port(c)] # None
    <3>1. PICK k \in Gens : gen' = [gen EXCEPT ![k].stop = TRUE]
      BY <1>1, <1>t, <2>2 DEF insert, Lease
    <3>2. LET f == [gen[k] EXCEPT !.stop = TRUE]
          IN f \in Flag /\ f.port = gen[k].port /\ f.v4 = gen[k].v4 /\ f.v6 = gen[k].v6 /\ f.stop
      BY <1>t DEF Flag
    <3> QED BY <1>t, <3>1, <3>2
  <2> QED BY <2>1, <2>2
<1> HIDE DEF x, n, h, g
<1>8. /\ handler'[c] = x /\ \A d \in Handlers \ {c} : handler'[d] = handler[d]
      /\ handler' \in [Handlers -> Thread]
      /\ leases'[Port(c)] = n /\ \A p \in Ports \ {Port(c)} : leases'[p] = leases[p]
      /\ leases' \in [Ports -> Lease \cup {None}]
  BY <1>1, <1>4, <1>5, <1>6, <1>t
<1>9. TypeOK'
  <2>1. Head(x.todo) \in Ports
    BY <1>1, <1>4 DEF Port, h
  <2> QED
    BY <1>1, <1>4, <1>7, <1>8, <2>1, SMT DEF LeaseInv, TypeOK, Port
<1>10. OwnFlags'
  BY <1>1, <1>4, <1>8, SMT DEF LeaseInv, OwnFlags, Owning, g
<1>11. OneListener'
  BY <1>7 DEF LeaseInv, OneListener
<1>12. NotYetLeased'
  <2> SUFFICES ASSUME NEW d \in Handlers, NEW p \in Ports,
                      handler'[d].pc \in {"bind6", "insert"}, leases'[p] # None
               PROVE  leases'[p].gen # handler'[d].gen
    BY DEF NotYetLeased
  <2>1. d # c /\ handler'[d] = handler[d]
    BY <1>4, <1>8
  <2>2. CASE p = Port(c)
    BY <1>1, <1>5, <1>8, <2>1, <2>2
  <2>3. CASE p # Port(c)
    BY <1>8, <2>1, <2>3 DEF LeaseInv, NotYetLeased
  <2> QED BY <2>2, <2>3
<1>13. ASSUME NEW d \in Handlers PROVE Progress(d)'
  <2>1. CASE d = c
    <3>1. Head(x.todo) = Port(c)
      BY <1>4 DEF Port, h
    <3> QED BY <1>1, <1>2, <1>4, <1>7, <1>8, <2>1, <3>1 DEF Progress, Port
  <2>2. CASE d # c
    <3>1. handler'[d] = handler[d] /\ Progress(d)
      BY <1>8, <2>2 DEF LeaseInv
    <3>2. handler[d].pc \in Owning => handler[d].gen \in Gens
      BY Owner
    <3> QED BY <1>7, <3>1, <3>2, SMT DEF Progress, Port, Owning
  <2> QED BY <2>1, <2>2
<1>14. ASSUME NEW k \in Gens PROVE FlagOK(gen'[k])
  BY <1>7 DEF LeaseInv, FlagOK
<1>15. ASSUME NEW p \in Ports PROVE Counted(p)'
  <2>1. CASE p = Port(c)
    BY <1>1, <1>2, <1>5, <1>7, <1>8, <2>1 DEF Counted
  <2>2. CASE p # Port(c)
    <3>1. leases'[p] = leases[p] /\ Counted(p) /\ (leases[p] # None => leases[p].gen \in Gens)
      BY <1>8, <1>t, <2>2 DEF LeaseInv, Lease
    <3> QED BY <1>7, <3>1, SMT DEF Counted
  <2> QED BY <2>1, <2>2
<1>16. LiveLeaseIsServed'
  <2> SUFFICES ASSUME NEW p \in Ports, Live(p)'
               PROVE  \/ gen'[leases'[p].gen].v4 \in {"bound", "run"}
                      \/ \E d \in Handlers : handler'[d].pc = "unspawn" /\ handler'[d].gen = leases'[p].gen
    BY DEF LiveLeaseIsServed
  <2>1. CASE p = Port(c)
    BY <1>1, <1>2, <1>5, <1>7, <1>8, <2>1
  <2>2. CASE p # Port(c)
    <3>1. leases'[p] = leases[p] /\ leases[p] # None /\ leases[p].gen \in Gens
      BY <1>8, <1>t, <2>2 DEF Live, Lease
    <3>2. Live(p) /\ gen'[leases[p].gen].v4 = gen[leases[p].gen].v4
      BY <1>7, <3>1 DEF Live
    <3>3. ASSUME NEW d \in Handlers, handler[d].pc = "unspawn" PROVE handler'[d] = handler[d]
      BY <1>0, <1>8, <3>3 DEF h
    <3> QED BY <3>1, <3>2, <3>3 DEF LeaseInv, LiveLeaseIsServed
  <2> QED BY <2>1, <2>2
<1> QED
  BY <1>9, <1>10, <1>11, <1>12, <1>13, <1>14, <1>15, <1>16 DEF LeaseInv

\* Time passing and the reaper raising flags.
LEMMA ReaperKeeps ==
    ASSUME LeaseInv, expire \/ Tick
    PROVE  LeaseInv'
<1>t. /\ handler \in [Handlers -> Thread] /\ leases \in [Ports -> Lease \cup {None}]
      /\ gen \in [Gens -> Flag] /\ UNCHANGED handler
  BY DEF LeaseInv, TypeOK, expire, Tick
<1>1. /\ gen' \in [Gens -> Flag]
      /\ \A k \in Gens : /\ gen'[k].port = gen[k].port /\ gen'[k].v4 = gen[k].v4
                         /\ gen'[k].v6 = gen[k].v6 /\ (gen[k].stop => gen'[k].stop)
  <2>1. ASSUME NEW k \in Gens
        PROVE LET f == [gen[k] EXCEPT !.stop = TRUE]
              IN f \in Flag /\ f.port = gen[k].port /\ f.v4 = gen[k].v4 /\ f.v6 = gen[k].v6 /\ f.stop
    BY <1>t DEF Flag
  <2>2. CASE Tick
    BY <1>t, <2>2 DEF Tick
  <2>3. CASE expire
    BY <1>t, <2>1, <2>3 DEF expire
  <2> QED BY <2>2, <2>3
<1>2. /\ leases' \in [Ports -> Lease \cup {None}]
      /\ \A p \in Ports : /\ leases'[p] = None <=> leases[p] = None
                          /\ leases[p] # None => /\ leases'[p].gen = leases[p].gen
                                                 /\ leases'[p].listeners = leases[p].listeners
  <2>1. ASSUME NEW p \in Ports, leases[p] # None, leases[p].left > 0
        PROVE LET l == [leases[p] EXCEPT !.left = leases[p].left - 1]
              IN l \in Lease /\ l.gen = leases[p].gen /\ l.listeners = leases[p].listeners
    BY <1>t, <2>1, SMT DEF Lease
  <2>2. CASE Tick
    BY <1>t, <2>1, <2>2, LeaseConstants DEF Tick
  <2>3. CASE expire
    BY <1>t, <2>3 DEF expire
  <2> QED BY <2>2, <2>3
<1>3. ASSUME NEW p \in Ports, leases[p] # None PROVE leases[p].gen \in Gens
  BY <1>t, <1>3 DEF Lease
<1>4. TypeOK'
  BY <1>t, <1>1, <1>2 DEF LeaseInv, TypeOK, Port
<1>5. OwnFlags' /\ NotYetLeased'
  BY <1>t, <1>2, SMT DEF LeaseInv, OwnFlags, NotYetLeased
<1>6. OneListener' /\ \A k \in Gens : FlagOK(gen[k])'
  BY <1>1, SMT DEF LeaseInv, OneListener, FlagOK
<1>7. ASSUME NEW d \in Handlers PROVE Progress(d)'
  <2>1. handler[d].pc \in Owning => handler[d].gen \in Gens
    BY Owner
  <2> QED BY <1>t, <1>1, <2>1 DEF LeaseInv, Progress, Port, Owning
<1>8. ASSUME NEW p \in Ports PROVE Counted(p)'
  BY <1>1, <1>2, <1>3, SMT DEF LeaseInv, Counted
<1>9. LiveLeaseIsServed'
  <2>1. ASSUME NEW p \in Ports, Live(p)'
        PROVE  Live(p) /\ leases'[p].gen = leases[p].gen /\ gen'[leases[p].gen].v4 = gen[leases[p].gen].v4
    BY <1>1, <1>2, <1>3, <2>1 DEF Live
  <2> QED BY <1>t, <2>1, SMT DEF LeaseInv, LiveLeaseIsServed
<1> QED
  BY <1>4, <1>5, <1>6, <1>7, <1>8, <1>9 DEF LeaseInv

-----------------------------------------------------------------------------
\* An accept loop that ends raises the flag before its listener is closed.
LEMMA RunEndsKeeps ==
    ASSUME LeaseInv, NEW g \in Gens, run_ends(g, "v4") \/ run_ends(g, "v6")
    PROVE  LeaseInv'
<1>t. /\ handler \in [Handlers -> Thread] /\ leases \in [Ports -> Lease \cup {None}]
      /\ gen \in [Gens -> Flag] /\ UNCHANGED <<leases, handler>>
  BY DEF LeaseInv, TypeOK, run_ends
<1>1. PICK f \in Flag : /\ gen' = [gen EXCEPT ![g] = f] /\ f.stop /\ f.port = gen[g].port
                        /\ \/ gen[g].v4 = "run" /\ f.v4 = "closed" /\ f.v6 = gen[g].v6
                           \/ gen[g].v6 = "run" /\ f.v6 = "closed" /\ f.v4 = gen[g].v4
  <2>1. CASE run_ends(g, "v4")
    <3>1. LET f == [gen[g] EXCEPT !.stop = TRUE, !.v4 = "closed"]
          IN f \in Flag /\ f.stop /\ f.port = gen[g].port /\ f.v4 = "closed" /\ f.v6 = gen[g].v6
      BY <1>t DEF Flag, Listener
    <3>2. gen[g].v4 = "run" /\ gen' = [gen EXCEPT ![g] = [gen[g] EXCEPT !.stop = TRUE, !.v4 = "closed"]]
      BY <1>t, <2>1 DEF run_ends
    <3> QED BY <3>1, <3>2
  <2>2. CASE run_ends(g, "v6")
    <3>1. LET f == [gen[g] EXCEPT !.stop = TRUE, !.v6 = "closed"]
          IN f \in Flag /\ f.stop /\ f.port = gen[g].port /\ f.v6 = "closed" /\ f.v4 = gen[g].v4
      BY <1>t DEF Flag, Listener
    <3>2. gen[g].v6 = "run" /\ gen' = [gen EXCEPT ![g] = [gen[g] EXCEPT !.stop = TRUE, !.v6 = "closed"]]
      BY <1>t, <2>2 DEF run_ends
    <3> QED BY <3>1, <3>2
  <2> QED BY <2>1, <2>2
<1>2. gen'[g] = f /\ \A k \in Gens \ {g} : gen'[k] = gen[k]
  BY <1>t, <1>1
<1>3. ASSUME NEW p \in Ports, leases[p] # None PROVE leases[p].gen \in Gens
  BY <1>t, <1>3 DEF Lease
<1>4. TypeOK'
  BY <1>t, <1>1 DEF LeaseInv, TypeOK, Port
<1>5. OwnFlags' /\ NotYetLeased'
  BY <1>t DEF LeaseInv, OwnFlags, NotYetLeased
<1>6. OneListener'
  BY <1>1, <1>2, SMT DEF LeaseInv, OneListener
<1>7. ASSUME NEW k \in Gens PROVE FlagOK(gen'[k])
  BY <1>1, <1>2, SMT DEF LeaseInv, FlagOK
<1>8. ASSUME NEW d \in Handlers PROVE Progress(d)'
  <2>1. handler[d].pc \in Owning => handler[d].gen \in Gens
    BY Owner
  <2>2. CASE handler[d].gen = g
    BY <1>t, <1>1, <1>2, <2>2 DEF LeaseInv, Progress, Port
  <2>3. CASE handler[d].gen # g
    BY <1>t, <1>2, <2>1, <2>3 DEF LeaseInv, Progress, Port, Owning
  <2> QED BY <2>2, <2>3
<1>9. ASSUME NEW p \in Ports PROVE Counted(p)'
  BY <1>t, <1>1, <1>2, <1>3, SMT DEF LeaseInv, Counted
<1>10. LiveLeaseIsServed'
  <2>1. ASSUME NEW p \in Ports, Live(p)'
        PROVE  Live(p) /\ gen'[leases[p].gen] = gen[leases[p].gen]
    BY <1>t, <1>1, <1>2, <1>3, <2>1 DEF Live
  <2> QED BY <1>t, <2>1 DEF LeaseInv, LiveLeaseIsServed
<1> QED
  BY <1>4, <1>5, <1>6, <1>7, <1>8, <1>9, <1>10 DEF LeaseInv

\* What a release does to its flag, its lease and the handlers that wait: the
\* lease goes with its last listener, and the flag with it.
LEMMA ReleaseEffect ==
    ASSUME LeaseInv, NEW g \in Gens, NEW p, p = gen[g].port, release(g, "v4") \/ release(g, "v6")
    PROVE  /\ p \in Ports
           /\ \E f \in Flag :
                /\ gen' = [gen EXCEPT ![g] = f]
                /\ f = Unused \/ (f.port = p /\ f.v4 = "none" /\ f.v6 = gen[g].v6 /\ f.v6 # "none")
                              \/ (f.port = p /\ f.v6 = "none" /\ f.v4 = gen[g].v4 /\ f.v4 # "none")
                /\ f # Unused => (gen[g].stop => f.stop)
                /\ f = Unused => \/ gen[g].v4 = "closed" /\ gen[g].v6 = "none"
                                 \/ gen[g].v6 = "closed" /\ gen[g].v4 = "none"
                /\ f # Unused /\ f.v4 = "none" => gen[g].v4 = "closed"
                /\ f # Unused /\ f.v6 = "none" => gen[g].v6 = "closed"
                /\ leases[p] # None /\ leases[p].gen = g => (leases'[p] = None <=> f = Unused)
           /\ leases' \in [Ports -> Lease \cup {None}]
           /\ \A q \in Ports \ {p} : leases'[q] = leases[q]
           /\ leases[p] = None \/ leases[p].gen # g => leases'[p] = leases[p]
           /\ leases'[p] # None => /\ leases[p] # None /\ leases'[p].gen = leases[p].gen
                                   /\ leases[p].gen = g => leases'[p].listeners = 1
           /\ handler' \in [Handlers -> Thread]
           /\ \A d \in Handlers :
                /\ handler'[d].origin = handler[d].origin /\ handler'[d].todo = handler[d].todo
                /\ handler'[d].gen = handler[d].gen
                /\ \/ handler'[d].pc = handler[d].pc
                   \/ handler[d].pc = "asleep" /\ handler'[d].pc = "await"
<1> DEFINE mine == leases[p] # None /\ leases[p].gen = g
           last == mine /\ leases[p].listeners = 1
<1>t. /\ handler \in [Handlers -> Thread] /\ leases \in [Ports -> Lease \cup {None}]
      /\ gen \in [Gens -> Flag] /\ gen[g] \in Flag /\ FlagOK(gen[g])
  BY DEF LeaseInv, TypeOK
<1>1. gen[g].v4 = "closed" \/ gen[g].v6 = "closed"
  BY DEF release, CountDown
<1>2. p \in Ports
  BY <1>t, <1>1 DEF FlagOK, Flag
<1>3. mine => /\ leases[p] \in Lease
              /\ leases[p].listeners = IF gen[g].v4 = "none" \/ gen[g].v6 = "none" THEN 1 ELSE 2
  BY <1>2, <1>t, LeaseConstants, SMT DEF LeaseInv, Counted
<1>4. /\ leases' = [leases EXCEPT ![p] = CASE last -> None
                                           [] mine /\ ~ last -> [leases[p] EXCEPT !.listeners = @ - 1]
                                           [] OTHER -> @]
      /\ handler' = notify_all(last)
  BY DEF release, CountDown
<1>5. /\ handler' \in [Handlers -> Thread]
      /\ \A d \in Handlers :
           /\ handler'[d].origin = handler[d].origin /\ handler'[d].todo = handler[d].todo
           /\ handler'[d].gen = handler[d].gen
           /\ \/ handler'[d].pc = handler[d].pc
              \/ handler[d].pc = "asleep" /\ handler'[d].pc = "await"
  <2>1. ASSUME NEW d \in Handlers
        PROVE LET y == [handler[d] EXCEPT !.pc = "await"]
              IN y \in Thread /\ y.pc = "await" /\ y.origin = handler[d].origin
                 /\ y.todo = handler[d].todo /\ y.gen = handler[d].gen
    BY <1>t DEF Thread, Serving
  <2> QED BY <1>t, <1>4, <2>1 DEF notify_all
<1>6. /\ leases' \in [Ports -> Lease \cup {None}]
      /\ \A q \in Ports \ {p} : leases'[q] = leases[q]
      /\ ~ mine => leases'[p] = leases[p]
      /\ leases'[p] # None => /\ leases[p] # None /\ leases'[p].gen = leases[p].gen
                              /\ mine => leases'[p].listeners = 1
      /\ mine => (leases'[p] = None <=> last)
  <2>1. CASE last
    BY <1>2, <1>4, <1>t, <2>1
  <2>2. CASE mine /\ ~ last
    <3> DEFINE l == [leases[p] EXCEPT !.listeners = leases[p].listeners - 1]
    <3>1. leases[p].listeners = 2 /\ leases[p] \in Lease
      BY <1>3, <2>2 DEF Lease
    <3>2. l \in Lease /\ l.gen = leases[p].gen /\ l.listeners = 1
      BY <3>1, SMT DEF Lease
    <3>3. leases' = [leases EXCEPT ![p] = l]
      BY <1>4, <2>2
    <3> HIDE DEF l
    <3> QED BY <1>2, <1>t, <2>2, <3>2, <3>3, LeaseConstants
  <2>3. CASE ~ mine
    <3>1. leases' = [leases EXCEPT ![p] = leases[p]]
      BY <1>4, <2>3
    <3> QED BY <1>2, <1>t, <2>3, <3>1
  <2> QED BY <2>1, <2>2, <2>3
<1>u. Unused \in Flag /\ Unused.port = None
  BY DEF Unused, Flag, Listener
<1>7. \E f \in Flag :
        /\ gen' = [gen EXCEPT ![g] = f]
        /\ f = Unused \/ (f.port = p /\ f.v4 = "none" /\ f.v6 = gen[g].v6 /\ f.v6 # "none")
                      \/ (f.port = p /\ f.v6 = "none" /\ f.v4 = gen[g].v4 /\ f.v4 # "none")
        /\ f # Unused => (gen[g].stop => f.stop)
        /\ f = Unused => \/ gen[g].v4 = "closed" /\ gen[g].v6 = "none"
                         \/ gen[g].v6 = "closed" /\ gen[g].v4 = "none"
        /\ f # Unused /\ f.v4 = "none" => gen[g].v4 = "closed"
        /\ f # Unused /\ f.v6 = "none" => gen[g].v6 = "closed"
        /\ mine => (last <=> f = Unused)
  <2>1. CASE release(g, "v4")
    <3>1. gen[g].v4 = "closed"
      BY <2>1 DEF release, CountDown
    <3>2. CASE gen[g].v6 = "none"
      <4>1. gen' = [gen EXCEPT ![g] = Unused]
        BY <2>1, <3>2 DEF release, CountDown
      <4> QED BY <1>3, <1>u, <3>1, <3>2, <4>1
    <3>3. CASE gen[g].v6 # "none"
      <4> DEFINE f == [gen[g] EXCEPT !.v4 = "none", !.stop = gen[g].stop \/ last]
      <4>1. gen' = [gen EXCEPT ![g] = f]
        BY <2>1, <3>3 DEF release, CountDown
      <4>2. gen[g].stop \/ last \in BOOLEAN
        OBVIOUS
      <4>3. /\ f \in Flag /\ f.port = p /\ f.v4 = "none" /\ f.v6 = gen[g].v6
            /\ f.stop = (gen[g].stop \/ last)
        BY <1>t DEF Flag, Listener
      <4>4. f # Unused
        BY <1>2, <1>u, <4>3, LeaseConstants
      <4>5. gen[g].stop => f.stop
        BY <4>3
      <4>6. mine => ~ last
        BY <1>3, <3>1, <3>3, SMT
      <4> HIDE DEF f, mine, last
      <4> QED BY <3>1, <3>3, <4>1, <4>3, <4>4, <4>5, <4>6
    <3> QED BY <3>2, <3>3
  <2>2. CASE release(g, "v6")
    <3>1. gen[g].v6 = "closed"
      BY <2>2 DEF release, CountDown
    <3>2. CASE gen[g].v4 = "none"
      <4>1. gen' = [gen EXCEPT ![g] = Unused]
        BY <2>2, <3>2 DEF release, CountDown
      <4> QED BY <1>3, <1>u, <3>1, <3>2, <4>1
    <3>3. CASE gen[g].v4 # "none"
      <4> DEFINE f == [gen[g] EXCEPT !.v6 = "none", !.stop = gen[g].stop \/ last]
      <4>1. gen' = [gen EXCEPT ![g] = f]
        BY <2>2, <3>3 DEF release, CountDown
      <4>3. /\ f \in Flag /\ f.port = p /\ f.v6 = "none" /\ f.v4 = gen[g].v4
            /\ f.stop = (gen[g].stop \/ last)
        BY <1>t DEF Flag, Listener
      <4>4. f # Unused
        BY <1>2, <1>u, <4>3, LeaseConstants
      <4>5. gen[g].stop => f.stop
        BY <4>3
      <4>6. mine => ~ last
        BY <1>3, <3>1, <3>3, SMT
      <4> HIDE DEF f, mine, last
      <4> QED BY <3>1, <3>3, <4>1, <4>3, <4>4, <4>5, <4>6
    <3> QED BY <3>2, <3>3
  <2> QED BY <2>1, <2>2
<1> QED
  BY <1>2, <1>5, <1>6, <1>7

\* A closed listener is counted down.
LEMMA ReleaseKeeps ==
    ASSUME LeaseInv, NEW g \in Gens, release(g, "v4") \/ release(g, "v6")
    PROVE  LeaseInv'
<1> DEFINE p == gen[g].port
<1>t. /\ handler \in [Handlers -> Thread] /\ leases \in [Ports -> Lease \cup {None}]
      /\ gen \in [Gens -> Flag]
  BY DEF LeaseInv, TypeOK
<1>1. PICK f \in Flag :
        /\ gen' = [gen EXCEPT ![g] = f]
        /\ f = Unused \/ (f.port = p /\ f.v4 = "none" /\ f.v6 = gen[g].v6 /\ f.v6 # "none")
                      \/ (f.port = p /\ f.v6 = "none" /\ f.v4 = gen[g].v4 /\ f.v4 # "none")
        /\ f # Unused => (gen[g].stop => f.stop)
        /\ f = Unused => \/ gen[g].v4 = "closed" /\ gen[g].v6 = "none"
                         \/ gen[g].v6 = "closed" /\ gen[g].v4 = "none"
        /\ f # Unused /\ f.v4 = "none" => gen[g].v4 = "closed"
        /\ f # Unused /\ f.v6 = "none" => gen[g].v6 = "closed"
        /\ leases[p] # None /\ leases[p].gen = g => (leases'[p] = None <=> f = Unused)
  BY ReleaseEffect, SMT
<1>2. /\ p \in Ports /\ leases' \in [Ports -> Lease \cup {None}]
      /\ \A q \in Ports \ {p} : leases'[q] = leases[q]
      /\ leases[p] = None \/ leases[p].gen # g => leases'[p] = leases[p]
      /\ leases'[p] # None => /\ leases[p] # None /\ leases'[p].gen = leases[p].gen
                              /\ leases[p].gen = g => leases'[p].listeners = 1
  BY ReleaseEffect, SMT
<1>3. /\ handler' \in [Handlers -> Thread]
      /\ \A d \in Handlers :
           /\ handler'[d].origin = handler[d].origin /\ handler'[d].todo = handler[d].todo
           /\ handler'[d].gen = handler[d].gen
           /\ \/ handler'[d].pc = handler[d].pc
              \/ handler[d].pc = "asleep" /\ handler'[d].pc = "await"
  BY ReleaseEffect
<1>u. Unused.port = None /\ Unused.v4 = "none" /\ Unused.v6 = "none"
  BY DEF Unused
<1>4. gen'[g] = f /\ (\A k \in Gens \ {g} : gen'[k] = gen[k]) /\ gen' \in [Gens -> Flag]
  BY <1>t, <1>1
<1>5. ASSUME NEW q \in Ports, leases'[q] # None
      PROVE  /\ leases[q] # None /\ leases[q].gen \in Gens /\ leases'[q].gen = leases[q].gen
             /\ leases[q].gen = g => q = p /\ f # Unused /\ leases'[q].listeners = 1
             /\ leases[q].gen # g => leases'[q] = leases[q]
  <2>1. leases[q] # None /\ leases'[q].gen = leases[q].gen
    BY <1>2, <1>5
  <2>2. leases[q].gen \in Gens
    BY <1>t, <2>1 DEF Lease
  <2>3. leases[q].gen = g => q = p
    BY <2>1 DEF LeaseInv, Counted
  <2> QED BY <1>1, <1>2, <1>5, <2>1, <2>2, <2>3
<1> HIDE DEF p
<1>6. TypeOK'
  <2>1. ASSUME NEW d \in Handlers, handler'[d].pc # "idle" PROVE handler'[d].origin \in Origins
    BY <1>3, <2>1 DEF LeaseInv, TypeOK
  <2>2. ASSUME NEW d \in Handlers, handler'[d].pc \in Serving
        PROVE  handler'[d].todo # <<>> /\ Head(handler'[d].todo) \in Ports
    BY <1>3, <2>2 DEF LeaseInv, TypeOK, Serving, Port
  <2> QED BY <1>2, <1>3, <1>4, <2>1, <2>2 DEF TypeOK, Port
<1>7. OwnFlags'
  BY <1>3, SMT DEF LeaseInv, OwnFlags, Owning
<1>8. NotYetLeased'
  BY <1>3, <1>5, SMT DEF LeaseInv, NotYetLeased
<1>9. OneListener'
  BY <1>1, <1>4, <1>u, SMT DEF LeaseInv, OneListener, p
<1>10. ASSUME NEW k \in Gens PROVE FlagOK(gen'[k])
  BY <1>1, <1>2, <1>4, <1>u, LeaseConstants, SMT DEF LeaseInv, FlagOK
<1>11. ASSUME NEW d \in Handlers PROVE Progress(d)'
  <2>1. handler[d].pc \in Owning => handler[d].gen \in Gens
    BY Owner
  <2>2. CASE handler[d].pc \notin Owning
    BY <1>3, <2>2 DEF Progress, Owning
  <2>3. CASE handler[d].pc \in Owning /\ handler[d].gen # g
    <3>1. gen'[handler[d].gen] = gen[handler[d].gen] /\ handler'[d].pc = handler[d].pc
      BY <1>3, <1>4, <2>1, <2>3 DEF Owning
    <3> QED BY <1>3, <3>1, SMT DEF LeaseInv, Progress, Port
  <2>4. CASE handler[d].pc \in Owning /\ handler[d].gen = g
    <3>1. Progress(d) /\ handler'[d].pc = handler[d].pc
      BY <1>3, <2>4 DEF LeaseInv, Owning
    <3>2. handler[d].pc \in {"spawn6", "unspawn"}
      BY <1>1, <1>4, <2>4, <3>1 DEF Progress, Owning
    <3>3. CASE handler[d].pc = "spawn6"
      BY <1>1, <1>3, <1>4, <1>u, <2>4, <3>1, <3>3 DEF Progress, Port, p
    <3>4. CASE handler[d].pc = "unspawn"
      BY <1>1, <1>3, <1>4, <1>u, <2>4, <3>1, <3>4 DEF Progress, Port
    <3> QED BY <3>2, <3>3, <3>4
  <2> QED BY <2>2, <2>3, <2>4
<1>12. ASSUME NEW q \in Ports PROVE Counted(q)'
  <2> SUFFICES ASSUME leases'[q] # None
               PROVE  /\ gen'[leases'[q].gen].port = q
                      /\ leases'[q].listeners = IF gen'[leases'[q].gen].v4 = "none" \/ gen'[leases'[q].gen].v6 = "none"
                                                THEN 1 ELSE 2
    BY DEF Counted
  <2>1. CASE leases[q].gen = g
    BY <1>1, <1>4, <1>5, <2>1
  <2>2. CASE leases[q].gen # g
    BY <1>4, <1>5, <2>2, SMT DEF LeaseInv, Counted
  <2> QED BY <2>1, <2>2
<1>13. LiveLeaseIsServed'
  <2> SUFFICES ASSUME NEW q \in Ports, Live(q)'
               PROVE  \/ gen'[leases'[q].gen].v4 \in {"bound", "run"}
                      \/ \E d \in Handlers : handler'[d].pc = "unspawn" /\ handler'[d].gen = leases'[q].gen
    BY DEF LiveLeaseIsServed
  <2>0. leases'[q] # None
    BY DEF Live
  <2>1. Live(q) /\ leases'[q].gen = leases[q].gen
    BY <1>1, <1>4, <1>5, <2>0 DEF Live
  <2>2. CASE \E d \in Handlers : handler[d].pc = "unspawn" /\ handler[d].gen = leases[q].gen
    BY <1>3, <2>1, <2>2
  <2>3. CASE gen[leases[q].gen].v4 \in {"bound", "run"}
    BY <1>1, <1>4, <1>5, <2>0, <2>1, <2>3, SMT
  <2> QED BY <2>1, <2>2, <2>3 DEF LeaseInv, LiveLeaseIsServed
<1> QED
  BY <1>6, <1>7, <1>8, <1>9, <1>10, <1>11, <1>12, <1>13 DEF LeaseInv

-----------------------------------------------------------------------------
\* Every step keeps the invariant.
LEMMA LeaseStep ==
    ASSUME LeaseInv, [Next]_vars
    PROVE  LeaseInv'
<1>1. CASE \E c \in Handlers : read_request(c) \/ HandlerStep(c)
  <2>1. PICK c \in Handlers : read_request(c) \/ HandlerStep(c)
    BY <1>1
  <2> QED
    BY <2>1, RequestKeeps, LookKeeps, Bind4Keeps, Bind6Keeps, InsertKeeps, SpawnKeeps,
       UnspawnKeeps DEF HandlerStep
<1>2. CASE \E g \in Gens, f \in Families : run_ends(g, f) \/ release(g, f)
  <2>1. PICK g \in Gens : \/ run_ends(g, "v4") \/ run_ends(g, "v6")
                          \/ release(g, "v4") \/ release(g, "v6")
    BY <1>2 DEF Families
  <2> QED
    BY <2>1, RunEndsKeeps, ReleaseKeeps
<1>3. CASE expire \/ Tick
  BY <1>3, ReaperKeeps
<1>4. CASE UNCHANGED vars
  BY <1>4, SMT DEF vars, LeaseInv, TypeOK, OwnFlags, OneListener, NotYetLeased, Progress, FlagOK,
              Counted, LiveLeaseIsServed, Live, Port
<1> QED
  BY <1>1, <1>2, <1>3, <1>4 DEF Next

\* The daemon starts without a lease, a listener or a request.
LEMMA LeaseStart == Init => LeaseInv
<1> SUFFICES ASSUME Init PROVE LeaseInv
  OBVIOUS
<1> USE LeaseConstants
<1>1. Idle \in Thread /\ Idle.pc = "idle" /\ Idle.gen = None
  BY SMT DEF Idle, Thread
<1>2. Unused \in Flag /\ Unused.port = None /\ Unused.v4 = "none" /\ Unused.v6 = "none"
  BY DEF Unused, Flag, Listener
<1>3. /\ \A c \in Handlers : handler[c] = Idle
      /\ \A g \in Gens : gen[g] = Unused
      /\ \A p \in Ports : leases[p] = None
  BY DEF Init
<1>4. TypeOK
  BY <1>1, <1>2, <1>3 DEF Init, TypeOK, Serving, Owning
<1>5. OwnFlags /\ OneListener /\ NotYetLeased
  BY <1>1, <1>2, <1>3 DEF OwnFlags, OneListener, NotYetLeased, Owning
<1>6. \A c \in Handlers : Progress(c)
  BY <1>1, <1>3 DEF Progress
<1>7. (\A g \in Gens : FlagOK(gen[g])) /\ (\A p \in Ports : Counted(p)) /\ LiveLeaseIsServed
  BY <1>2, <1>3 DEF FlagOK, Counted, LiveLeaseIsServed, Live
<1> QED
  BY <1>4, <1>5, <1>6, <1>7 DEF LeaseInv

\* A lease that a devbox can still renew has its IPv4 listener open, or is being
\* undone by the handler that could not start its accept loop, however handlers,
\* accept loops and the reaper interleave, for any number of ports and devboxes
\* (callback.rs serve_on, callback/lease.rs).
THEOREM LiveIsServed == Spec => []LiveLeaseIsServed
<1>1. LeaseInv => LiveLeaseIsServed
  BY DEF LeaseInv
<1> QED
  BY <1>1, LeaseStart, LeaseStep, PTL DEF Spec

\* No other devbox renews or replaces a live lease: whoever comes to insert one
\* has bound the port, which the owner's listener still has (callback.rs).
THEOREM OwnerIsKept == Spec => LiveLeaseKeepsOwner
<1>1. ASSUME LeaseInv, [Next]_vars
      PROVE  [\A p \in Ports : Live(p) /\ leases'[p] # None
                => leases'[p].owner = leases[p].owner
                   \/ \E c \in Handlers : handler[c].pc = "unspawn" /\ handler[c].gen = leases[p].gen]_vars
  <2> SUFFICES ASSUME NEW p \in Ports, Live(p), leases'[p] # None, Next
               PROVE  \/ leases'[p].owner = leases[p].owner
                      \/ \E c \in Handlers : handler[c].pc = "unspawn" /\ handler[c].gen = leases[p].gen
    BY <1>1
  <2>t. leases \in [Ports -> Lease \cup {None}] /\ leases[p] # None /\ leases[p].gen \in Gens
    BY <1>1 DEF LeaseInv, TypeOK, Live, Lease
  <2>1. CASE \E c \in Handlers : insert(c)
    <3>1. PICK c \in Handlers : insert(c)
      BY <2>1
    <3>2. CASE p # Port(c)
      BY <2>t, <3>1, <3>2 DEF insert
    <3>3. CASE p = Port(c)
      <4>1. handler[c].pc = "insert" /\ handler[c].pc \in Owning
        BY <3>1 DEF insert, Owning
      <4>2. /\ handler[c].gen \in Gens /\ gen[handler[c].gen].v4 = "bound"
            /\ gen[handler[c].gen].port = p
        BY <1>1, <3>3, <4>1, Owner DEF Progress
      <4>3. leases[p].gen # handler[c].gen /\ gen[leases[p].gen].port = p
        BY <1>1, <2>t, <4>1 DEF LeaseInv, NotYetLeased, Counted
      <4>4. gen[leases[p].gen].v4 \notin {"bound", "run"}
        BY <1>1, <2>t, <4>2, <4>3, LeaseConstants DEF LeaseInv, OneListener
      <4> QED BY <1>1, <4>4 DEF LeaseInv, LiveLeaseIsServed
    <3> QED BY <3>2, <3>3
  <2>2. CASE \E c \in Handlers : refresh(c)
    <3>1. PICK c \in Handlers : refresh(c)
      BY <2>2
    <3>2. CASE UNCHANGED leases
      BY <3>2
    <3>3. CASE leases' = [leases EXCEPT ![Port(c)].left = IF @ < handler[c].left THEN handler[c].left ELSE @]
      BY <2>t, <3>3 DEF Lease
    <3> QED BY <3>1, <3>2, <3>3 DEF refresh
  <2>3. CASE \E g \in Gens, f \in Families : release(g, f)
    <3>1. PICK g \in Gens : release(g, "v4") \/ release(g, "v6")
      BY <2>3 DEF Families
    <3>2. CASE p # gen[g].port
      BY <1>1, <3>1, <3>2, ReleaseEffect, SMT
    <3>3. CASE p = gen[g].port
      BY <2>t, <3>1, <3>3 DEF release, CountDown, Lease
    <3> QED BY <3>2, <3>3
  <2>4. CASE Tick
    BY <2>t, <2>4 DEF Tick, Lease
  <2>5. CASE UNCHANGED leases
    BY <2>5
  <2> QED
    BY <2>1, <2>2, <2>3, <2>4, <2>5 DEF Next, HandlerStep, read_request, forward_url,
       wait_until_released, bind4, bind6, spawn4, spawn6, unspawn, decide, notify_url,
       open_permitted_url, run_ends, expire
<1> QED
  BY <1>1, LeaseStart, LeaseStep, PTL DEF Spec, LiveLeaseKeepsOwner

-----------------------------------------------------------------------------
(***************************************************************************)
(* Why a handler that waits for a port is woken: the lease it waits for    *)
(* always has a listener that is still to be released, and the last one to *)
(* be released wakes everybody.                                            *)
(***************************************************************************)
Bound(f) == f.v4 = "bound" \/ f.v6 = "bound"

WakeInv ==
    /\ \A c \in Handlers : handler[c].pc = "asleep" => leases[Port(c)] # None
    /\ \A g \in Gens : Bound(gen[g]) => \E c \in Handlers : handler[c].gen = g
    /\ \A c \in Handlers : handler[c].pc = "spawn6" => gen[handler[c].gen].v4 # "bound"

\* No lease is stuck in the map and no wake-up is lost (lease.rs, `release`):
\* every lease has a listener that an accept loop runs, that is about to be
\* released, or that a handler is still setting up or undoing, and whoever
\* sleeps does so for a port that is leased.
NoLostWakeUp ==
    /\ \A p \in Ports : leases[p] # None =>
          LET g == leases[p].gen IN
          \E f \in Families :
             \/ gen[g][f] \in {"run", "closed"}
             \/ /\ gen[g][f] = "bound"
                /\ \E c \in Handlers : handler[c].gen = g /\ handler[c].pc \in Owning
    /\ \A c \in Handlers : handler[c].pc = "asleep" => leases[Port(c)] # None

\* A step of one handler that keeps every lease, and answers for the listeners
\* it binds and for the flag it lets go of.
LEMMA AwakeStep ==
    ASSUME LeaseInv', WakeInv, NEW c \in Handlers,
           \A d \in Handlers \ {c} : handler'[d] = handler[d],
           \A p \in Ports : leases[p] # None => leases'[p] # None,
           handler'[c].pc = "asleep" => leases'[Head(handler'[c].todo)] # None,
           \A g \in Gens : Bound(gen'[g]) => Bound(gen[g]) \/ handler'[c].gen = g,
           \A g \in Gens : gen'[g].v4 = "bound" => gen[g].v4 = "bound" \/ handler'[c].gen = g,
           \A g \in Gens : handler[c].gen = g => handler'[c].gen = g \/ ~ Bound(gen'[g]),
           handler'[c].pc = "spawn6" => gen'[handler'[c].gen].v4 # "bound",
           LeaseInv
    PROVE  WakeInv'
<1>1. ASSUME NEW d \in Handlers, handler'[d].pc = "asleep"
      PROVE  leases'[Head(handler'[d].todo)] # None
  <2>1. CASE d = c
    BY <1>1, <2>1
  <2>2. CASE d # c
    <3>1. handler'[d] = handler[d] /\ Port(d) \in Ports
      BY <1>1, <2>2 DEF LeaseInv, TypeOK, Serving
    <3> QED
      BY <1>1, <3>1 DEF WakeInv, Port
  <2> QED
    BY <2>1, <2>2
<1>2. ASSUME NEW g \in Gens, Bound(gen'[g]) PROVE \E d \in Handlers : handler'[d].gen = g
  <2>1. CASE handler'[c].gen = g
    BY <2>1
  <2>2. CASE handler'[c].gen # g
    <3>1. PICK d \in Handlers : handler[d].gen = g
      BY <1>2, <2>2 DEF WakeInv
    <3>2. d # c
      BY <1>2, <2>2, <3>1
    <3> QED
      BY <3>1, <3>2
  <2> QED
    BY <2>1, <2>2
<1>3. ASSUME NEW d \in Handlers, handler'[d].pc = "spawn6"
      PROVE  gen'[handler'[d].gen].v4 # "bound"
  <2>1. CASE d = c
    BY <1>3, <2>1
  <2>2. CASE d # c
    <3>1. handler'[d] = handler[d] /\ handler[d].gen \in Gens /\ gen[handler[d].gen].v4 # "bound"
      BY <1>3, <2>2, Owner, SMT DEF WakeInv, Owning
    <3>2. handler'[d].gen # None
      BY <3>1, LeaseConstants
    <3>3. handler'[c].gen # handler'[d].gen
      BY <2>2, <3>2 DEF LeaseInv, OwnFlags
    <3> QED
      BY <3>1, <3>3
  <2> QED
    BY <2>1, <2>2
<1> QED
  BY <1>1, <1>2, <1>3 DEF WakeInv, Port

\* Goto only moves the handler on.
LEMMA GotoOnly ==
    ASSUME LeaseInv, NEW c \in Handlers, NEW l, Goto(c, l)
    PROVE  /\ handler'[c].pc = l /\ handler'[c].todo = handler[c].todo
           /\ handler'[c].gen = handler[c].gen
           /\ \A d \in Handlers \ {c} : handler'[d] = handler[d]
<1>1. handler \in [Handlers -> Thread] /\ handler[c] \in Thread
  BY DEF LeaseInv, TypeOK
<1>2. PICK x : x = [handler[c] EXCEPT !.pc = l]
  OBVIOUS
<1>3. x.pc = l /\ x.todo = handler[c].todo /\ x.gen = handler[c].gen
  BY <1>1, <1>2 DEF Thread
<1>4. handler' = [handler EXCEPT ![c] = x]
  BY <1>2 DEF Goto
<1> QED
  BY <1>1, <1>3, <1>4

\* The steps of a handler that has no flag and binds nothing.
LEMMA QuietWake ==
    ASSUME LeaseInv, LeaseInv', WakeInv, NEW c \in Handlers,
           \/ read_request(c) \/ forward_url(c) \/ decide(c) \/ notify_url(c)
           \/ open_permitted_url(c) \/ refresh(c) \/ wait_until_released(c)
    PROVE  WakeInv'
<1>0. /\ handler \in [Handlers -> Thread] /\ handler[c] \in Thread
      /\ leases \in [Ports -> Lease \cup {None}]
  BY DEF LeaseInv, TypeOK
<1>1. handler[c].gen = None /\ UNCHANGED gen
  BY DEF LeaseInv, OwnFlags, Owning, read_request, forward_url, decide, notify_url,
         open_permitted_url, refresh, wait_until_released
<1>2. \A p \in Ports : leases[p] # None => leases'[p] # None
  <2>1. CASE refresh(c)
    <3>1. CASE Live(Port(c)) /\ leases[Port(c)].owner = handler[c].origin
      <4>1. Port(c) \in Ports /\ handler[c].left \in Nat
        BY <1>0, <2>1 DEF refresh, LeaseInv, TypeOK, Serving, Thread
      <4>2. leases[Port(c)] \in Lease
        BY <1>0, <3>1, <4>1 DEF Live
      <4>3. PICK k : /\ leases' = [leases EXCEPT ![Port(c)] = k]
                     /\ \E n \in Nat : k = [leases[Port(c)] EXCEPT !.left = n]
        <5>1. leases' = [leases EXCEPT ![Port(c)].left =
                            IF @ < handler[c].left THEN handler[c].left ELSE @]
          BY <2>1, <3>1 DEF refresh, Live
        <5>2. PICK n : n = IF leases[Port(c)].left < handler[c].left THEN handler[c].left
                           ELSE leases[Port(c)].left
          OBVIOUS
        <5>3. n \in Nat
          BY <4>1, <4>2, <5>2 DEF Lease
        <5>4. leases' = [leases EXCEPT ![Port(c)] = [leases[Port(c)] EXCEPT !.left = n]]
          BY <5>1, <5>2
        <5> QED
          BY <5>3, <5>4
      <4>4. k \in Lease
        BY <4>2, <4>3 DEF Lease
      <4> QED
        BY <1>0, <4>1, <4>3, <4>4, LeaseConstants
    <3> QED
      BY <2>1, <3>1 DEF refresh
  <2>2. CASE ~ refresh(c)
    BY <2>2 DEF read_request, forward_url, decide, notify_url, open_permitted_url,
                wait_until_released
  <2> QED
    BY <2>1, <2>2
<1>3. CASE \E l \in {"decide", "refresh", "open", "notify", "await", "bind"} : Goto(c, l)
  <2>1. PICK l \in {"decide", "refresh", "open", "notify", "await", "bind"} : Goto(c, l)
    BY <1>3
  <2>2. /\ handler'[c].pc = l /\ handler'[c].gen = None
        /\ \A d \in Handlers \ {c} : handler'[d] = handler[d]
    BY <1>1, <2>1, GotoOnly
  <2> QED
    BY <1>1, <1>2, <2>1, <2>2, AwakeStep, LeaseConstants
<1>4. CASE wait_until_released(c) /\ leases[Port(c)] # None
  <2>1. Goto(c, "asleep") /\ UNCHANGED leases
    BY <1>4 DEF wait_until_released
  <2>2. /\ handler'[c].pc = "asleep" /\ handler'[c].gen = None
        /\ handler'[c].todo = handler[c].todo
        /\ \A d \in Handlers \ {c} : handler'[d] = handler[d]
    BY <1>1, <2>1, GotoOnly
  <2> QED
    BY <1>1, <1>2, <1>4, <2>1, <2>2, AwakeStep, LeaseConstants DEF Port
<1>5. ASSUME NEW x, handler' = [handler EXCEPT ![c] = x],
             x.pc \in {"idle", "forward_url", "refresh"}
      PROVE  WakeInv'
  <2>1. handler'[c] = x /\ \A d \in Handlers \ {c} : handler'[d] = handler[d]
    BY <1>0, <1>5
  <2> QED
    BY <1>1, <1>2, <1>5, <2>1, AwakeStep, LeaseConstants
<1>6. CASE Finish(c)
  BY <1>5, <1>6 DEF Finish, Idle
<1>7. CASE read_request(c)
  BY <1>5, <1>7 DEF read_request, Idle
<1>8. CASE forward_url(c)
  <2>1. CASE handler' = [handler EXCEPT ![c].todo = Tail(@)]
    <3>1. handler' = [handler EXCEPT ![c] = [handler[c] EXCEPT !.todo = Tail(handler[c].todo)]]
      BY <2>1
    <3>2. [handler[c] EXCEPT !.todo = Tail(handler[c].todo)].pc = "forward_url"
      BY <1>0, <1>8 DEF forward_url, Thread
    <3> QED
      BY <1>5, <3>1, <3>2
  <2> QED
    BY <1>3, <1>6, <1>8, <2>1 DEF forward_url
<1>9. CASE refresh(c)
  <2>1. CASE handler' = [handler EXCEPT ![c] = Served(handler[c])]
    <3>1. handler[c].origin \in Origins /\ handler[c].todo # <<>>
      BY <1>9 DEF refresh, LeaseInv, TypeOK, Serving
    <3>2. Served(handler[c]).pc \in {"idle", "forward_url"}
      BY <1>0, <3>1, AfterPort
    <3> QED
      BY <1>5, <2>1, <3>2
  <2> QED
    BY <1>3, <1>6, <1>9, <2>1 DEF refresh
<1>10. CASE wait_until_released(c) /\ leases[Port(c)] = None
  BY <1>3, <1>10 DEF wait_until_released
<1>11. CASE decide(c) \/ notify_url(c) \/ open_permitted_url(c)
  BY <1>3, <1>6, <1>11 DEF decide, notify_url, open_permitted_url
<1> QED
  BY <1>4, <1>7, <1>8, <1>9, <1>10, <1>11

\* The steps of a handler that sets a flag up.
LEMMA BindWake ==
    ASSUME LeaseInv, LeaseInv', WakeInv, NEW c \in Handlers, bind4(c)
    PROVE  WakeInv'
<1>0. /\ handler \in [Handlers -> Thread] /\ handler[c] \in Thread /\ gen \in [Gens -> Flag]
      /\ handler[c].gen = None /\ handler[c].origin \in Origins /\ handler[c].todo # <<>>
      /\ UNCHANGED leases
  BY DEF LeaseInv, TypeOK, OwnFlags, Owning, Serving, bind4
<1>1. CASE handler' = [handler EXCEPT ![c] = Failed(@)] /\ UNCHANGED gen
  <2>1. Failed(handler[c]).pc \in {"idle", "forward_url"}
    BY <1>0, AfterPort
  <2>2. /\ handler'[c].pc \in {"idle", "forward_url"}
        /\ \A d \in Handlers \ {c} : handler'[d] = handler[d]
    BY <1>0, <1>1, <2>1
  <2> QED
    BY <1>0, <1>1, <2>2, AwakeStep, LeaseConstants
<1>2. CASE \E g \in Gens : /\ gen' = [gen EXCEPT ![g].port = Port(c), ![g].v4 = "bound"]
                            /\ handler' = [handler EXCEPT ![c].pc = "bind6", ![c].gen = g]
  <2>1. PICK g \in Gens : /\ gen' = [gen EXCEPT ![g].port = Port(c), ![g].v4 = "bound"]
                          /\ handler' = [handler EXCEPT ![c].pc = "bind6", ![c].gen = g]
    BY <1>2
  <2>2. /\ handler'[c].pc = "bind6" /\ handler'[c].gen = g
        /\ \A d \in Handlers \ {c} : handler'[d] = handler[d]
    BY <1>0, <2>1, SMT DEF Thread
  <2>3. \A k \in Gens \ {g} : gen'[k] = gen[k]
    BY <1>0, <2>1
  <2>4. \A k \in Gens : Bound(gen'[k]) => Bound(gen[k]) \/ handler'[c].gen = k
    BY <2>2, <2>3
  <2>5. \A k \in Gens : gen'[k].v4 = "bound" => gen[k].v4 = "bound" \/ handler'[c].gen = k
    BY <2>2, <2>3
  <2> QED
    BY <1>0, <2>2, <2>4, <2>5, AwakeStep, LeaseConstants
<1>3. FreeGens # {} => (CHOOSE g \in FreeGens : TRUE) \in Gens
  BY DEF FreeGens
<1> QED
  BY <1>1, <1>2, <1>3 DEF bind4

LEMMA OwnWake ==
    ASSUME LeaseInv, LeaseInv', WakeInv, NEW c \in Handlers,
           bind6(c) \/ insert(c) \/ spawn4(c) \/ spawn6(c) \/ unspawn(c)
    PROVE  WakeInv'
<1>0. handler[c].pc \in Owning
  BY DEF Owning, bind6, insert, spawn4, spawn6, unspawn
<1>1. PICK g \in Gens : /\ g = handler[c].gen /\ gen[g] \in Flag
                        /\ \A d \in Handlers \ {c} : handler[d].gen # g
  BY <1>0, Owner, SMT
<1>2. /\ handler \in [Handlers -> Thread] /\ handler[c] \in Thread /\ gen \in [Gens -> Flag]
      /\ handler[c].origin \in Origins /\ handler[c].todo # <<>> /\ Port(c) \in Ports
      /\ Progress(c) /\ leases \in [Ports -> Lease \cup {None}]
  BY <1>0, Owner DEF LeaseInv, TypeOK
\* It goes on to another step of its own.
<1>3. ASSUME NEW l \in {"insert", "spawn4", "unspawn"}, Goto(c, l),
             \A k \in Gens \ {g} : Bound(gen'[k]) => Bound(gen[k]),
             \A k \in Gens \ {g} : gen'[k].v4 = "bound" => gen[k].v4 = "bound",
             \A p \in Ports : leases[p] # None => leases'[p] # None
      PROVE  WakeInv'
  <2>1. /\ handler'[c].pc = l /\ handler'[c].gen = g
        /\ \A d \in Handlers \ {c} : handler'[d] = handler[d]
    BY <1>1, <1>3, GotoOnly
  <2>2. \A k \in Gens : Bound(gen'[k]) => Bound(gen[k]) \/ handler'[c].gen = k
    BY <1>3, <2>1
  <2>3. \A k \in Gens : gen'[k].v4 = "bound" => gen[k].v4 = "bound" \/ handler'[c].gen = k
    BY <1>3, <2>1
  <2> QED
    BY <1>1, <1>3, <2>1, <2>2, <2>3, AwakeStep, SMT
\* It is done with its flag, which has no bound listener left.
<1>4. ASSUME NEW x, handler' = [handler EXCEPT ![c] = x], x.pc \in {"idle", "forward_url"},
             UNCHANGED leases, NEW f, gen' = [gen EXCEPT ![g] = f], ~ Bound(f)
      PROVE  WakeInv'
  <2>1. handler'[c] = x /\ \A d \in Handlers \ {c} : handler'[d] = handler[d]
    BY <1>2, <1>4
  <2>2. gen'[g] = f /\ \A k \in Gens \ {g} : gen'[k] = gen[k]
    BY <1>2, <1>4
  <2>3. f.v4 # "bound"
    BY <1>4 DEF Bound
  <2>4. \A k \in Gens : Bound(gen'[k]) => Bound(gen[k]) \/ handler'[c].gen = k
    BY <1>4, <2>2
  <2>5. \A k \in Gens : gen'[k].v4 = "bound" => gen[k].v4 = "bound" \/ handler'[c].gen = k
    BY <2>2, <2>3
  <2>6. \A k \in Gens : handler[c].gen = k => handler'[c].gen = k \/ ~ Bound(gen'[k])
    BY <1>1, <1>4, <2>2
  <2> QED
    BY <1>4, <2>1, <2>4, <2>5, <2>6, AwakeStep
<1>5. ASSUME NEW x \in {Served(handler[c]), Failed(handler[c]), Failed([handler[c] EXCEPT !.gen = None])}
      PROVE  x.pc \in {"idle", "forward_url"}
  BY <1>2, AfterPort
<1>6. ~ Bound(Unused)
  BY DEF Bound, Unused
<1>7. CASE bind6(c)
  <2>1. CASE Goto(c, "insert")
    <3>1. \A k \in Gens \ {g} : gen'[k] = gen[k] \/ gen'[k] = Unused
      BY <1>1, <1>2, <1>7 DEF bind6
    <3> QED
      BY <1>3, <1>6, <1>7, <2>1, <3>1 DEF bind6, Bound
  <2>2. CASE /\ gen' = [gen EXCEPT ![g] = Unused] /\ UNCHANGED leases
             /\ handler' = [handler EXCEPT ![c] = Failed([@ EXCEPT !.gen = None])]
    BY <1>4, <1>5, <1>6, <2>2
  <2> QED
    BY <1>1, <1>7, <2>1, <2>2 DEF bind6
<1>8. CASE insert(c)
  <2>1. PICK y : /\ leases' = [leases EXCEPT ![Port(c)] = y]
                 /\ y = [owner |-> handler[c].origin, left |-> handler[c].left, gen |-> handler[c].gen,
                         listeners |-> IF gen[handler[c].gen].v6 = "bound" THEN 2 ELSE 1]
    BY <1>8 DEF insert
  <2>2. y \in Lease
    <3>1. handler[c].left \in Nat /\ handler[c].gen \in Gens
      BY <1>1, <1>2 DEF Thread
    <3> QED
      BY <1>2, <2>1, <3>1 DEF Lease
  <2>3. \A p \in Ports : leases[p] # None => leases'[p] # None
    BY <1>2, <2>1, <2>2, LeaseConstants
  <2>4. \A k \in Gens : gen'[k].v4 = gen[k].v4 /\ gen'[k].v6 = gen[k].v6
    <3>1. CASE leases[Port(c)] = None
      BY <1>8, <3>1 DEF insert
    <3>2. CASE leases[Port(c)] # None
      <4>1. gen' = [gen EXCEPT ![leases[Port(c)].gen].stop = TRUE]
        BY <1>8, <3>2 DEF insert
      <4> QED
        BY <1>2, <4>1, SMT DEF Flag
    <3> QED
      BY <3>1, <3>2
  <2> QED
    BY <1>3, <1>8, <2>3, <2>4 DEF insert, Bound
<1>9. CASE spawn4(c)
  <2>1. gen[g].v4 = "bound" /\ gen[g].v6 \in {"none", "bound"} /\ UNCHANGED leases
    BY <1>1, <1>2, <1>9 DEF spawn4, Progress
  <2>2. PICK f : /\ gen' = [gen EXCEPT ![g] = f] /\ f.v4 \in {"run", "closed"} /\ f.v6 = gen[g].v6
    <3>1. ASSUME NEW o \in {"run", "closed"}
          PROVE  LET f == [gen[g] EXCEPT !.v4 = o] IN f.v4 = o /\ f.v6 = gen[g].v6
      BY <1>1 DEF Flag
    <3>2. PICK o \in {"run", "closed"} : gen' = [gen EXCEPT ![g].v4 = o]
      BY <1>1, <1>9 DEF spawn4
    <3> QED
      BY <3>1, <3>2
  <2>3. CASE Goto(c, "unspawn")
    BY <1>2, <1>3, <2>1, <2>2, <2>3
  <2>4. CASE gen[g].v6 = "bound" /\ handler' = [handler EXCEPT ![c] = [@ EXCEPT !.pc = "spawn6"]]
    <3>1. Goto(c, "spawn6")
      BY <2>4 DEF Goto
    <3>2. /\ handler'[c].pc = "spawn6" /\ handler'[c].gen = g
          /\ \A d \in Handlers \ {c} : handler'[d] = handler[d]
      BY <1>1, <3>1, GotoOnly
    <3>3. gen'[g] = f /\ \A k \in Gens \ {g} : gen'[k] = gen[k]
      BY <1>2, <2>2
    <3> QED
      BY <1>1, <2>1, <2>2, <3>2, <3>3, AwakeStep
  <2>5. CASE gen[g].v6 # "bound" /\ handler' = [handler EXCEPT ![c] = Served(handler[c])]
    BY <1>4, <1>5, <2>1, <2>2, <2>5 DEF Bound
  <2> QED
    BY <1>1, <1>9, <2>3, <2>4, <2>5 DEF spawn4
<1>10. CASE spawn6(c)
  <2>1. PICK o \in {"run", "closed"} : gen' = [gen EXCEPT ![g].v6 = o]
    BY <1>1, <1>10 DEF spawn6
  <2>2. gen[g].v4 # "bound"
    BY <1>1, <1>10 DEF spawn6, WakeInv
  <2>3. PICK f : gen' = [gen EXCEPT ![g] = f] /\ f = [gen[g] EXCEPT !.v6 = o]
    BY <2>1
  <2>4. ~ Bound(f)
    BY <1>1, <2>2, <2>3 DEF Bound, Flag
  <2> QED
    BY <1>4, <1>5, <1>10, <2>3, <2>4 DEF spawn6
<1>11. CASE unspawn(c)
  <2>1. gen[g].v4 = "none" /\ gen[g].v6 # "closed" /\ UNCHANGED leases
    BY <1>1, <1>11 DEF unspawn
  <2>2. CASE gen[g].v6 = "bound"
    <3>1. gen' = [gen EXCEPT ![g].v6 = "closed"] /\ UNCHANGED handler
      BY <1>1, <1>11, <2>2 DEF unspawn
    <3>2. \A k \in Gens : /\ gen'[k].v4 = gen[k].v4
                          /\ gen'[k].v6 = "bound" => gen[k].v6 = "bound"
      BY <1>2, <3>1, SMT DEF Flag
    <3>3. handler[c].pc = "unspawn"
      BY <1>11 DEF unspawn
    <3> QED
      BY <2>1, <3>1, <3>2, <3>3, AwakeStep DEF Bound
  <2>3. CASE gen[g].v6 # "bound"
    <3>1. /\ handler' = [handler EXCEPT ![c] = Failed([@ EXCEPT !.gen = None])]
          /\ gen' = [gen EXCEPT ![g] = gen[g]]
      BY <1>1, <1>2, <1>11, <2>3 DEF unspawn
    <3>2. ~ Bound(gen[g])
      BY <2>1, <2>3 DEF Bound
    <3> QED
      BY <1>4, <1>5, <2>1, <3>1, <3>2
  <2> QED
    BY <2>2, <2>3
<1> QED
  BY <1>7, <1>8, <1>9, <1>10, <1>11

\* An accept loop that ends binds nothing, and nobody moves.
LEMMA RunEndsWake ==
    ASSUME LeaseInv, WakeInv, NEW g \in Gens, run_ends(g, "v4") \/ run_ends(g, "v6")
    PROVE  WakeInv'
<1>1. /\ gen \in [Gens -> Flag] /\ UNCHANGED <<leases, handler>>
      /\ \/ gen' = [gen EXCEPT ![g].stop = TRUE, ![g].v4 = "closed"]
         \/ gen' = [gen EXCEPT ![g].stop = TRUE, ![g].v6 = "closed"]
  BY DEF LeaseInv, TypeOK, run_ends
<1>2. \A k \in Gens : /\ gen'[k].v4 = "bound" => gen[k].v4 = "bound"
                      /\ gen'[k].v6 = "bound" => gen[k].v6 = "bound"
  BY <1>1, SMT DEF Flag
<1>3. \A c \in Handlers : handler[c].pc = "spawn6" => handler[c].gen \in Gens
  BY Owner DEF Owning
<1> QED
  BY <1>1, <1>2, <1>3 DEF WakeInv, Bound, Port

\* The reaper and the clock remove no lease.
LEMMA ReaperWake ==
    ASSUME LeaseInv, LeaseInv', WakeInv, expire \/ Tick
    PROVE  WakeInv'
<1>0. /\ gen \in [Gens -> Flag] /\ leases \in [Ports -> Lease \cup {None}] /\ UNCHANGED handler
      /\ \A c \in Handlers : handler[c].pc = "spawn6" => handler[c].gen \in Gens
      /\ \A c \in Handlers : handler[c].pc = "asleep" => Port(c) \in Ports
  BY Owner DEF LeaseInv, TypeOK, expire, Tick, Owning, Serving
<1>1. CASE expire
  <2>1. \A k \in Gens : gen'[k] \in {gen[k], [gen[k] EXCEPT !.stop = TRUE]}
    BY <1>1 DEF expire
  <2>2. \A k \in Gens : gen'[k].v4 = gen[k].v4 /\ gen'[k].v6 = gen[k].v6
    BY <1>0, <2>1, SMT DEF Flag
  <2>3. UNCHANGED leases
    BY <1>1 DEF expire
  <2> QED
    BY <1>0, <2>2, <2>3 DEF WakeInv, Bound, Port
<1>2. CASE Tick
  <2>1. ASSUME NEW p \in Ports, leases[p] # None PROVE leases'[p] # None
    <3>1. CASE leases[p].left > 0
      <4>1. leases[p] \in Lease /\ leases'[p] = [leases[p] EXCEPT !.left = leases[p].left - 1]
        BY <1>0, <1>2, <2>1, <3>1 DEF Tick
      <4>2. leases[p].left - 1 \in Nat
        BY <3>1, <4>1, SMT DEF Lease
      <4>3. leases'[p] \in Lease
        BY <4>1, <4>2 DEF Lease
      <4> QED
        BY <4>3, LeaseConstants
    <3>2. CASE ~ (leases[p].left > 0)
      BY <1>2, <2>1, <3>2 DEF Tick
    <3> QED
      BY <3>1, <3>2
  <2>2. UNCHANGED gen
    BY <1>2 DEF Tick
  <2> QED
    BY <1>0, <2>1, <2>2 DEF WakeInv, Bound, Port
<1> QED
  BY <1>1, <1>2

\* The release of a lease's last listener wakes everybody.
LEMMA ReleaseWake ==
    ASSUME LeaseInv, LeaseInv', WakeInv, NEW g \in Gens, release(g, "v4") \/ release(g, "v6")
    PROVE  WakeInv'
<1>1. PICK p : p = gen[g].port
  OBVIOUS
<1>2. PICK f \in Flag :
        /\ gen' = [gen EXCEPT ![g] = f]
        /\ f = Unused \/ (f.port = p /\ f.v4 = "none" /\ f.v6 = gen[g].v6 /\ f.v6 # "none")
                      \/ (f.port = p /\ f.v6 = "none" /\ f.v4 = gen[g].v4 /\ f.v4 # "none")
  BY <1>1, ReleaseEffect, SMT
<1>3. /\ p \in Ports /\ \A q \in Ports \ {p} : leases'[q] = leases[q]
      /\ leases[p] = None \/ leases[p].gen # g => leases'[p] = leases[p]
      /\ \A d \in Handlers : /\ handler'[d].todo = handler[d].todo /\ handler'[d].gen = handler[d].gen
                             /\ \/ handler'[d].pc = handler[d].pc
                                \/ handler[d].pc = "asleep" /\ handler'[d].pc = "await"
  BY <1>1, ReleaseEffect, SMT
<1>4. gen \in [Gens -> Flag] /\ leases \in [Ports -> Lease \cup {None}]
      /\ handler \in [Handlers -> Thread]
  BY DEF LeaseInv, TypeOK
<1>5. ASSUME NEW c \in Handlers, handler'[c].pc = "asleep"
      PROVE  leases'[Head(handler'[c].todo)] # None
  <2>1. handler[c].pc = "asleep" /\ leases[Port(c)] # None /\ Port(c) \in Ports
        /\ Head(handler'[c].todo) = Port(c)
    BY <1>3, <1>5 DEF WakeInv, LeaseInv, TypeOK, Serving, Port
  <2>2. ASSUME Port(c) = p, leases[p] # None, leases[p].gen = g, leases[p].listeners = 1
        PROVE  FALSE
    <3>1. handler' = notify_all(TRUE)
      BY <1>1, <2>2 DEF release, CountDown
    <3>2. handler'[c] = [handler[c] EXCEPT !.pc = "await"]
      BY <2>1, <3>1 DEF notify_all
    <3>3. handler'[c].pc = "await"
      BY <1>4, <3>2 DEF Thread
    <3> QED
      BY <1>5, <3>3
  <2>3. ASSUME leases[p] # None, leases[p].gen = g, leases[p].listeners # 1
        PROVE  leases'[p] # None
    <3>1. leases[p] \in Lease /\ leases[p].listeners = 2
      BY <1>3, <1>4, <2>3 DEF Lease
    <3>2. leases' = [leases EXCEPT ![p] = [leases[p] EXCEPT !.listeners = leases[p].listeners - 1]]
      BY <1>1, <2>3 DEF release, CountDown
    <3>3. [leases[p] EXCEPT !.listeners = leases[p].listeners - 1] \in Lease
      BY <3>1, SMT DEF Lease
    <3> QED
      BY <1>3, <1>4, <3>2, <3>3, LeaseConstants
  <2> QED
    BY <1>3, <2>1, <2>2, <2>3
<1>6. \A k \in Gens : /\ gen'[k].v4 = "bound" => gen[k].v4 = "bound"
                      /\ gen'[k].v6 = "bound" => gen[k].v6 = "bound"
  <2>1. Unused.v4 = "none" /\ Unused.v6 = "none"
    BY DEF Unused
  <2>2. /\ f.v4 = "bound" => gen[g].v4 = "bound"
        /\ f.v6 = "bound" => gen[g].v6 = "bound"
    BY <1>2, <2>1
  <2>3. gen'[g] = f /\ \A k \in Gens \ {g} : gen'[k] = gen[k]
    BY <1>2, <1>4
  <2> QED
    BY <2>2, <2>3
<1>7. \A c \in Handlers : handler[c].pc = "spawn6" => handler[c].gen \in Gens
  BY Owner DEF Owning
<1>8. ASSUME NEW k \in Gens, Bound(gen'[k]) PROVE \E c \in Handlers : handler'[c].gen = k
  <2>1. Bound(gen[k])
    BY <1>6, <1>8 DEF Bound
  <2>2. PICK c \in Handlers : handler[c].gen = k
    BY <2>1 DEF WakeInv
  <2> QED
    BY <1>3, <2>2
<1>9. ASSUME NEW c \in Handlers, handler'[c].pc = "spawn6"
      PROVE  gen'[handler'[c].gen].v4 # "bound"
  <2>1. handler[c].pc = "spawn6" /\ handler'[c].gen = handler[c].gen
    BY <1>3, <1>9
  <2> QED
    BY <1>6, <1>7, <2>1 DEF WakeInv
<1> QED
  BY <1>5, <1>8, <1>9 DEF WakeInv, Port

LEMMA WakeStep ==
    ASSUME LeaseInv, WakeInv, [Next]_vars
    PROVE  WakeInv'
<1>0. LeaseInv'
  BY LeaseStep
<1>1. CASE \E c \in Handlers : read_request(c) \/ HandlerStep(c)
  <2>1. PICK c \in Handlers : read_request(c) \/ HandlerStep(c)
    BY <1>1
  <2> QED
    BY <1>0, <2>1, QuietWake, BindWake, OwnWake DEF HandlerStep
<1>2. CASE \E g \in Gens, f \in Families : run_ends(g, f) \/ release(g, f)
  <2>1. PICK g \in Gens : \/ run_ends(g, "v4") \/ run_ends(g, "v6")
                          \/ release(g, "v4") \/ release(g, "v6")
    BY <1>2 DEF Families
  <2> QED
    BY <1>0, <2>1, RunEndsWake, ReleaseWake
<1>3. CASE expire \/ Tick
  BY <1>0, <1>3, ReaperWake
<1>4. CASE UNCHANGED vars
  BY <1>4 DEF vars, WakeInv, Bound, Port
<1> QED
  BY <1>1, <1>2, <1>3, <1>4 DEF Next

\* No lease is stuck in the map and nobody sleeps for a port that is free: of
\* the lease a handler waits for, some listener is still to be released, and
\* the last release wakes it, for any number of handlers and ports.
THEOREM WakeUpIsOwed == Spec => []NoLostWakeUp
<1>1. LeaseInv /\ WakeInv => NoLostWakeUp
  <2> SUFFICES ASSUME LeaseInv, WakeInv PROVE NoLostWakeUp
    OBVIOUS
  <2>1. ASSUME NEW p \in Ports, leases[p] # None
        PROVE  \E f \in Families :
                 \/ gen[leases[p].gen][f] \in {"run", "closed"}
                 \/ /\ gen[leases[p].gen][f] = "bound"
                    /\ \E c \in Handlers : handler[c].gen = leases[p].gen /\ handler[c].pc \in Owning
    <3>1. leases[p].gen \in Gens /\ gen[leases[p].gen] \in Flag /\ gen[leases[p].gen].port = p
      BY <2>1, SMT DEF LeaseInv, TypeOK, Lease, Counted
    <3>2. PICK f \in Families : gen[leases[p].gen][f] # "none"
      BY <3>1, LeaseConstants DEF LeaseInv, FlagOK, Families
    <3>3. gen[leases[p].gen][f] \in Listener
      BY <3>1 DEF Flag, Families
    <3>4. CASE gen[leases[p].gen][f] = "bound"
      <4>1. Bound(gen[leases[p].gen])
        BY <3>4 DEF Bound, Families
      <4>2. PICK c \in Handlers : handler[c].gen = leases[p].gen
        BY <3>1, <4>1 DEF WakeInv
      <4> QED
        BY <3>1, <3>4, <4>2, LeaseConstants DEF LeaseInv, OwnFlags
    <3> QED
      BY <3>2, <3>3, <3>4 DEF Listener
  <2> QED
    BY <2>1 DEF NoLostWakeUp, WakeInv
<1>2. Init => WakeInv
  <2>1. Idle.pc = "idle" /\ ~ Bound(Unused)
    BY DEF Idle, Unused, Bound
  <2> QED
    BY <2>1 DEF Init, WakeInv
<1>3. LeaseInv /\ WakeInv /\ [Next]_vars => LeaseInv' /\ WakeInv'
  BY LeaseStep, WakeStep
<1> QED
  BY <1>1, <1>2, <1>3, LeaseStart, PTL DEF Spec
=============================================================================
