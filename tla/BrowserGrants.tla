--------------------------- MODULE BrowserGrants ---------------------------
(***************************************************************************)
(* The browser grants of `forward serve`: crates/forward/src/browser/grant,*)
(* with the control channel and the piped connections of each grant.       *)
(*                                                                         *)
(* A grant is held under a broker authority and ends in many ways: its     *)
(* deadline, a new authority, a subscription that cannot be trusted, the   *)
(* caller's exit.  Every ending removes it under the locks of `pipes` and  *)
(* `grants`, and only then, with both released, shuts down what it found:  *)
(* first the sockets of the pipes, then the control channels.  An action   *)
(* is one critical section of those locks, or one such shutdown.           *)
(*                                                                         *)
(* The authority comes from outside: here from anywhere, in AuthorityChain *)
(* from the broker.                                                        *)
(***************************************************************************)
EXTENDS Integers, FiniteSets

CONSTANTS Authorities,     \* what a BrokerIdentity can be
          None,            \* no authority observed
          Connections,     \* threads that relay one handed-over connection
          MaxConcurrent,   \* MAX_CONCURRENT_CONNECTIONS of one grant
          Ttls,            \* lifetimes a grant is given
          MaxId            \* model bound on the ids minted

ASSUME GrantConstants ==
    /\ None \notin Authorities
    /\ MaxConcurrent \in Nat
    /\ Ttls \subseteq Nat

VARIABLES authority,  \* Grants.authority
          grants,     \* Grants.grants; the authority of an entry is auxiliary
          pipes,      \* Grants.pipes: the handles of each grant's pipes
          next_id,    \* Grants.next_id, for grants and pipes alike
          teardown,   \* endings that have left the locks and still shut down
          channel,    \* the control channel of every grant so far, both ends
          relay       \* the relay_one threads

table == <<authority, grants, pipes, next_id, teardown>>
ends == <<channel, relay>>
bgvars == <<authority, grants, pipes, next_id, teardown, channel, relay>>

NoRelay == [pc |-> "idle", grant |-> 0, pipe |-> 0]

granted == {g.id : g \in grants}

\* observe_authority and invalidate_authority hold the lock of `authority`
\* until revoke_all has shut everything down.
AuthorityFree == \A t \in teardown : ~ t.revokes

-----------------------------------------------------------------------------
(***************************************************************************)
(* Endings.                                                                *)
(***************************************************************************)
remove(gone, cut, revokes) ==
    /\ grants' = grants \ gone
    /\ pipes' = pipes \ cut
    /\ teardown' = IF gone = {} /\ cut = {} THEN teardown
                   ELSE teardown \cup {[pipes |-> {p.id : p \in cut},
                                        controls |-> {g.id : g \in gone},
                                        revokes |-> revokes]}

ExpireForgetsChannel(id) ==
    /\ grants' = {g \in grants : g.id # id}
    /\ pipes' = {p \in pipes : p.grant # id}
    /\ UNCHANGED teardown

expire(id) == remove({g \in grants : g.id = id}, {p \in pipes : p.grant = id}, FALSE)

\* drain_all, then the shutdowns.
revoke_all == remove(grants, pipes, TRUE)

\* pipes::shutdown for one pipe: its copying threads wake up and end.
shutdown ==
    \E t \in teardown : \E p \in t.pipes :
      /\ teardown' = (teardown \ {t}) \cup {[t EXCEPT !.pipes = @ \ {p}]}
      /\ relay' = [r \in Connections |->
                     IF relay[r].pc = "piping" /\ relay[r].pipe = p
                     THEN [relay[r] EXCEPT !.pc = "closing"] ELSE relay[r]]
      /\ UNCHANGED <<authority, grants, pipes, next_id, channel>>

\* end_control for one channel, after the pipes; the last one ends the ending.
end_control ==
    \E t \in teardown :
      /\ t.pipes = {}
      /\ \E id \in t.controls :
           /\ teardown' = (teardown \ {t}) \cup
                (IF t.controls = {id} THEN {} ELSE {[t EXCEPT !.controls = @ \ {id}]})
           /\ channel' = [channel EXCEPT ![id].shut = TRUE]
      /\ UNCHANGED <<authority, grants, pipes, next_id, relay>>

(***************************************************************************)
(* The authority.                                                          *)
(***************************************************************************)
observe_authority(a) ==
    /\ AuthorityFree
    /\ authority' = a
    /\ IF authority \notin {None, a} THEN revoke_all ELSE UNCHANGED <<grants, pipes, teardown>>
    /\ UNCHANGED <<next_id, ends>>

invalidate_authority ==
    /\ AuthorityFree
    /\ authority' = None
    /\ revoke_all
    /\ UNCHANGED <<next_id, ends>>

(***************************************************************************)
(* The end of the ceremony that grants: insert under the authority that    *)
(* was redeemed, start the reaper, answer OK.  One loop answers all        *)
(* requests, so one grant at a time is being answered.                     *)
(***************************************************************************)
Answering == {id \in DOMAIN channel : channel[id].serve = "answering"}

InsertUnderAny(a, ttl) ==
    /\ AuthorityFree
    /\ next_id <= MaxId
    /\ grants' = grants \cup {[id |-> next_id, authority |-> a, left |-> ttl]}
    /\ next_id' = next_id + 1
    /\ channel' = [i \in DOMAIN channel \cup {next_id} |->
                     IF i = next_id
                     THEN [serve |-> "answering", shut |-> FALSE, caller |-> "waiting"]
                     ELSE channel[i]]
    /\ UNCHANGED <<authority, pipes, teardown, relay>>

insert_if_authority(a, ttl) ==
    /\ AuthorityFree
    /\ next_id <= MaxId
    /\ authority = a
    /\ grants' = grants \cup {[id |-> next_id, authority |-> a, left |-> ttl]}
    /\ next_id' = next_id + 1
    /\ channel' = [i \in DOMAIN channel \cup {next_id} |->
                     IF i = next_id
                     THEN [serve |-> "answering", shut |-> FALSE, caller |-> "waiting"]
                     ELSE channel[i]]
    /\ UNCHANGED <<authority, pipes, teardown, relay>>

\* `OK` is written, and from then on the caller's relay listens on its
\* endpoint and a thread serves the channel; or it cannot be written, because
\* an ending came first or the caller has left, and the grant is expired.
answer(id) ==
    /\ id \in Answering
    /\ IF channel[id].shut \/ channel[id].caller = "gone"
       THEN /\ expire(id)
            /\ channel' = [channel EXCEPT ![id].serve = "done"]
       ELSE /\ channel' = [channel EXCEPT ![id] = [@ EXCEPT !.serve = "serving", !.caller = "relay"]]
            /\ UNCHANGED <<grants, pipes, teardown>>
    /\ UNCHANGED <<authority, next_id, relay>>

ReapSparesPipes(id) ==
    /\ \E g \in grants : g.id = id /\ g.left = 0
    /\ \A p \in pipes : p.grant # id
    /\ expire(id)
    /\ UNCHANGED <<authority, next_id, ends>>

\* The thread that reap_at started.
reap(id) ==
    /\ \E g \in grants : g.id = id /\ g.left = 0
    /\ expire(id)
    /\ UNCHANGED <<authority, next_id, ends>>

-----------------------------------------------------------------------------
(***************************************************************************)
(* control::serve and the relay that holds the other end of its channel.   *)
(***************************************************************************)
\* A connection that the relay handed over, perhaps just before it exited, is
\* taken from the channel, and there is a permit for it.
receive(id, r) ==
    /\ id \in DOMAIN channel
    /\ channel[id].serve = "serving"
    /\ relay[r].pc = "idle"
    /\ Cardinality({x \in Connections : relay[x].grant = id}) < MaxConcurrent
    /\ relay' = [relay EXCEPT ![r] = [pc |-> "received", grant |-> id, pipe |-> 0]]
    /\ UNCHANGED <<table, channel>>

\* The channel ended, at either end, or carried something that is no message.
serve_ends(id) ==
    /\ id \in DOMAIN channel
    /\ channel[id].serve = "serving"
    /\ expire(id)
    /\ channel' = [channel EXCEPT ![id].serve = "done"]
    /\ UNCHANGED <<authority, next_id, relay>>

\* The end of the channel ends its reader: the relay through its watch thread,
\* or the caller that still waits for an answer.
watch(id) ==
    /\ id \in DOMAIN channel
    /\ channel[id].shut /\ channel[id].caller # "gone"
    /\ channel' = [channel EXCEPT ![id].caller = "gone"]
    /\ UNCHANGED <<table, relay>>

\* The caller or its relay exits by itself.
caller_leaves(id) ==
    /\ id \in DOMAIN channel
    /\ channel[id].caller # "gone"
    /\ channel' = [channel EXCEPT ![id].caller = "gone"]
    /\ UNCHANGED <<table, relay>>

(***************************************************************************)
(* relay_one: is the grant live; dial the laptop; register the pipe; copy  *)
(* until either side ends or the grant does; drop the PipeGuard.           *)
(***************************************************************************)
step(r, pc) == relay' = [relay EXCEPT ![r].pc = pc]
leave(r) == relay' = [relay EXCEPT ![r] = NoRelay]

live(r) ==
    LET id == relay[r].grant IN
    /\ relay[r].pc = "received"
    /\ \/ /\ \E g \in grants : g.id = id /\ g.left > 0
          /\ step(r, "admitted")
          /\ UNCHANGED <<grants, pipes, teardown>>
       \/ /\ \A g \in grants : g.id = id => g.left = 0
          /\ leave(r)
          /\ expire(id)
       \/ leave(r) /\ UNCHANGED <<grants, pipes, teardown>>   \* no loopback connection
    /\ UNCHANGED <<authority, next_id, channel>>

connect(r) ==
    /\ relay[r].pc = "admitted"
    /\ step(r, "connected") \/ leave(r)
    /\ UNCHANGED <<table, channel>>

RegisterUnchecked(r) ==
    /\ relay[r].pc = "connected"
    /\ next_id <= MaxId
    /\ pipes' = pipes \cup {[grant |-> relay[r].grant, id |-> next_id]}
    /\ next_id' = next_id + 1
    /\ relay' = [relay EXCEPT ![r] = [@ EXCEPT !.pc = "piping", !.pipe = next_id]]
    /\ UNCHANGED <<authority, grants, teardown, channel>>

register_pipe(r) ==
    /\ relay[r].pc = "connected"
    /\ \/ /\ relay[r].grant \in granted
          /\ next_id <= MaxId
          /\ pipes' = pipes \cup {[grant |-> relay[r].grant, id |-> next_id]}
          /\ next_id' = next_id + 1
          /\ relay' = [relay EXCEPT ![r] = [@ EXCEPT !.pc = "piping", !.pipe = next_id]]
       \/ leave(r) /\ UNCHANGED <<pipes, next_id>>       \* no grant, or no descriptor left
    /\ UNCHANGED <<authority, grants, teardown, channel>>

pipe_ends(r) ==
    /\ relay[r].pc = "piping"
    /\ step(r, "closing")
    /\ UNCHANGED <<table, channel>>

drop_guard(r) ==
    /\ relay[r].pc = "closing"
    /\ pipes' = {p \in pipes : p.id # relay[r].pipe}
    /\ leave(r)
    /\ UNCHANGED <<authority, grants, next_id, teardown, channel>>

Tick ==
    /\ grants' = {[g EXCEPT !.left = IF @ > 0 THEN @ - 1 ELSE 0] : g \in grants}
    /\ UNCHANGED <<authority, pipes, next_id, teardown, ends>>

-----------------------------------------------------------------------------
BGInit ==
    /\ authority = None
    /\ grants = {} /\ pipes = {} /\ teardown = {}
    /\ next_id = 1
    /\ channel = [i \in {} |-> {}]
    /\ relay = [r \in Connections |-> NoRelay]

Authority == invalidate_authority \/ \E a \in Authorities : observe_authority(a)
Insertion == Answering = {} /\ \E a \in Authorities, ttl \in Ttls : insert_if_authority(a, ttl)
Channel(id) == answer(id) \/ reap(id) \/ serve_ends(id) \/ watch(id) \/ caller_leaves(id)
Relay(r) ==
    \/ \E id \in DOMAIN channel : receive(id, r)
    \/ live(r) \/ connect(r) \/ register_pipe(r) \/ pipe_ends(r) \/ drop_guard(r)

\* What runs by itself, whatever becomes of the authority.
Running ==
    \/ shutdown \/ end_control
    \/ \E id \in DOMAIN channel : Channel(id)
    \/ \E r \in Connections : Relay(r)

BGNext == Authority \/ Insertion \/ Running \/ Tick

BGSpec == BGInit /\ [][BGNext]_bgvars

(***************************************************************************)
(* Fairness: threads that are not blocked run, timers fire, a dial is      *)
(* given up at its timeout.  Nobody is obliged to ask, to connect, to end  *)
(* a pipe or to leave.                                                     *)
(***************************************************************************)
Ended(id) == id \in DOMAIN channel /\ (channel[id].shut \/ channel[id].caller = "gone")

BGFairness ==
    /\ WF_bgvars(shutdown) /\ WF_bgvars(end_control) /\ WF_bgvars(Tick)
    /\ \A id \in 1..MaxId :
         WF_bgvars(answer(id)) /\ WF_bgvars(reap(id)) /\ WF_bgvars(watch(id))
           /\ WF_bgvars(Ended(id) /\ serve_ends(id))
    /\ \A r \in Connections :
         WF_bgvars(live(r) \/ connect(r) \/ register_pipe(r) \/ drop_guard(r))

BGFairSpec == BGSpec /\ BGFairness

-----------------------------------------------------------------------------
Ids == Nat \ {0}
GrantEntry == [id : Ids, authority : Authorities, left : Nat]
PipeEntry == [grant : Ids, id : Ids]
Ending == [pipes : SUBSET Ids, controls : SUBSET Ids, revokes : BOOLEAN]
ControlChannel == [serve : {"answering", "serving", "done"}, shut : BOOLEAN,
                   caller : {"waiting", "relay", "gone"}]
RelayOne == [pc : {"idle", "received", "admitted", "connected", "piping", "closing"},
             grant : Nat, pipe : Nat]

\* Every variable of the registry and its threads has its type, and every
\* ending is about grants that have a channel.
BGTypeOK ==
    /\ authority \in Authorities \cup {None}
    /\ grants \subseteq GrantEntry
    /\ pipes \subseteq PipeEntry
    /\ next_id \in Ids
    /\ teardown \subseteq Ending
    /\ DOMAIN channel \subseteq Ids
    /\ channel \in [DOMAIN channel -> ControlChannel]
    /\ granted \subseteq DOMAIN channel
    /\ \A t \in teardown : t.controls \subseteq DOMAIN channel
    /\ relay \in [Connections -> RelayOne]

\* Every grant stands under the authority observed last: insertion races with
\* observation, and neither order leaves a grant of an authority that was
\* replaced or given up.
GrantsUnderAuthority == \A g \in grants : authority = g.authority

\* Every connection being copied can be cut: its handles are in the table
\* under a grant that still stands, or in the hands of an ending.  The race is
\* between register_pipe and every ending.
PipesCanBeCut ==
    \A r \in Connections : relay[r].pc = "piping" =>
        \/ [grant |-> relay[r].grant, id |-> relay[r].pipe] \in pipes /\ relay[r].grant \in granted
        \/ \E t \in teardown : relay[r].pipe \in t.pipes

\* No ending leaves a listener for a grant the registry no longer holds: an
\* open channel belongs to a grant that stands, or an ending is about to shut it.
OpenChannelsAreHeld ==
    \A id \in DOMAIN channel : ~ channel[id].shut =>
        id \in granted \/ \E t \in teardown : id \in t.controls

\* Every grant ends, and its end reaches everybody: the registry, the relay at
\* the caller's endpoint, and each connection it carried.
EndReachesEverybody ==
    \A id \in 1..MaxId :
        id \in DOMAIN channel ~>
            /\ id \in DOMAIN channel /\ channel[id].caller = "gone"
            /\ id \notin granted
            /\ \A r \in Connections : relay[r].grant # id
=============================================================================
