------------------------- MODULE AuthorityChainProof -------------------------
(***************************************************************************)
(* Proofs about the browser grants and the chain that revokes them.  The   *)
(* registry of BrowserGrants comes first, for any number of grants,        *)
(* connections and authorities and whatever order authorities are observed *)
(* in.  Then the chain: it implements the registry, whose theorems carry   *)
(* over; no LOCK is missed; what the subscriber observes never goes back.  *)
(***************************************************************************)
EXTENDS AuthorityChain, TLAPS

\* Zenon is the default prover of this module; a leaf that needs arithmetic,
\* records or a longer search says SMT.
USE Zenon

\* What an ending does to the tables, in the form the proofs use.
LEMMA RemoveOK ==
    ASSUME BGTypeOK, NEW gone \in SUBSET grants, NEW cut \in SUBSET pipes,
           NEW revokes \in BOOLEAN, remove(gone, cut, revokes)
    PROVE  /\ grants' \subseteq GrantEntry
           /\ pipes' \subseteq PipeEntry
           /\ teardown' \subseteq Ending
           /\ granted' \subseteq granted
           /\ \A t \in teardown' : t.controls \subseteq DOMAIN channel
<1> DEFINE e == [pipes |-> {p.id : p \in cut}, controls |-> {g.id : g \in gone},
                 revokes |-> revokes]
<1>1. e \in Ending
  BY SMT DEF BGTypeOK, Ending, GrantEntry, PipeEntry
<1>2. e.controls \subseteq DOMAIN channel
  BY DEF BGTypeOK, granted
<1>3. teardown' \subseteq teardown \cup {e}
  BY DEF remove
<1> HIDE DEF e
<1>4. grants' \subseteq grants /\ pipes' \subseteq pipes
  BY DEF remove
<1>5. granted' \subseteq granted
  BY <1>4 DEF granted
<1> QED BY <1>1, <1>2, <1>3, <1>4, <1>5 DEF BGTypeOK

\* The ids of the grants that stand are those of the tables.
LEMMA GrantedIds == BGTypeOK => granted \subseteq Ids
BY DEF BGTypeOK, granted, GrantEntry

\* Time shortens grants; their ids stay.
LEMMA TickKeepsIds ==
    ASSUME BGTypeOK, Tick
    PROVE  /\ granted' = granted
           /\ grants' \subseteq GrantEntry
<1> DEFINE aged(g) == [g EXCEPT !.left = IF @ > 0 THEN @ - 1 ELSE 0]
<1>1. ASSUME NEW g \in grants PROVE aged(g) \in GrantEntry /\ aged(g).id = g.id
  BY SMT DEF BGTypeOK, GrantEntry
<1>2. grants' = {aged(g) : g \in grants}
  BY DEF Tick
<1> HIDE DEF aged
<1> QED BY <1>1, <1>2 DEF granted

-----------------------------------------------------------------------------
\* Every step of the registry keeps its variables in their types.
LEMMA TypeStep == BGTypeOK /\ [BGNext]_bgvars => BGTypeOK'
<1> SUFFICES ASSUME BGTypeOK, [BGNext]_bgvars PROVE BGTypeOK'
  OBVIOUS
<1> USE DEF Ids
<1>expire. ASSUME NEW id, expire(id)
           PROVE  /\ grants' \subseteq GrantEntry /\ pipes' \subseteq PipeEntry
                  /\ teardown' \subseteq Ending /\ granted' \subseteq granted
                  /\ \A t \in teardown' : t.controls \subseteq DOMAIN channel
  BY <1>expire, RemoveOK DEF expire
<1>revoke. ASSUME revoke_all
           PROVE  /\ grants' \subseteq GrantEntry /\ pipes' \subseteq PipeEntry
                  /\ teardown' \subseteq Ending /\ granted' \subseteq granted
                  /\ \A t \in teardown' : t.controls \subseteq DOMAIN channel
  BY <1>revoke, RemoveOK DEF revoke_all
<1>chan. ASSUME NEW id \in DOMAIN channel, NEW c \in ControlChannel,
                channel' = [channel EXCEPT ![id] = c]
         PROVE  /\ DOMAIN channel' = DOMAIN channel
                /\ channel' \in [DOMAIN channel' -> ControlChannel]
  BY <1>chan DEF BGTypeOK
<1>1. CASE invalidate_authority
  BY <1>1, <1>revoke DEF invalidate_authority, BGTypeOK, ends
<1>2. ASSUME NEW a \in Authorities, observe_authority(a) PROVE BGTypeOK'
  <2>1. CASE authority \notin {None, a}
    BY <1>2, <2>1, <1>revoke DEF observe_authority, BGTypeOK, ends
  <2>2. CASE authority \in {None, a}
    BY <1>2, <2>2 DEF observe_authority, BGTypeOK, ends, granted
  <2> QED BY <2>1, <2>2
<1>3. ASSUME NEW a \in Authorities, NEW ttl \in Ttls, insert_if_authority(a, ttl)
      PROVE  BGTypeOK'
  <2> DEFINE g == [id |-> next_id, authority |-> a, left |-> ttl]
             c == [serve |-> "answering", shut |-> FALSE, caller |-> "waiting"]
  <2>1. g \in GrantEntry /\ g.id = next_id
    BY GrantConstants DEF BGTypeOK, GrantEntry
  <2>2. c \in ControlChannel
    BY DEF ControlChannel
  <2>3. channel' = [i \in DOMAIN channel \cup {next_id} |-> IF i = next_id THEN c ELSE channel[i]]
    BY <1>3 DEF insert_if_authority
  <2>4. grants' = grants \cup {g}
    BY <1>3 DEF insert_if_authority
  <2> HIDE DEF g, c
  <2>5. /\ DOMAIN channel' = DOMAIN channel \cup {next_id}
        /\ channel' \in [DOMAIN channel' -> ControlChannel]
        /\ DOMAIN channel' \subseteq Ids
    BY <2>2, <2>3 DEF BGTypeOK
  <2>6. granted' = granted \cup {next_id}
    BY <2>1, <2>4 DEF granted
  <2>7. next_id' \in Ids
    BY <1>3, SMT DEF insert_if_authority, BGTypeOK
  <2>8. grants' \subseteq GrantEntry
    BY <2>1, <2>4 DEF BGTypeOK
  <2> QED BY <1>3, <2>5, <2>6, <2>7, <2>8 DEF insert_if_authority, BGTypeOK
<1>4. ASSUME NEW id \in DOMAIN channel, answer(id) PROVE BGTypeOK'
  <2>1. CASE channel[id].shut \/ channel[id].caller = "gone"
    <3>1. [channel[id] EXCEPT !.serve = "done"] \in ControlChannel
      BY DEF BGTypeOK, ControlChannel
    <3>2. channel' = [channel EXCEPT ![id] = [channel[id] EXCEPT !.serve = "done"]]
      BY <1>4, <2>1 DEF answer
    <3>3. expire(id)
      BY <1>4, <2>1 DEF answer
    <3> QED BY <1>4, <3>1, <3>2, <3>3, <1>chan, <1>expire DEF answer, BGTypeOK
  <2>2. CASE ~ (channel[id].shut \/ channel[id].caller = "gone")
    <3>1. [channel[id] EXCEPT !.serve = "serving", !.caller = "relay"] \in ControlChannel
      BY DEF BGTypeOK, ControlChannel
    <3>2. channel' = [channel EXCEPT ![id] = [channel[id] EXCEPT !.serve = "serving", !.caller = "relay"]]
      BY <1>4, <2>2 DEF answer
    <3> QED BY <1>4, <2>2, <3>1, <3>2, <1>chan DEF answer, BGTypeOK, granted
  <2> QED BY <2>1, <2>2
<1>5. ASSUME NEW id, reap(id) PROVE BGTypeOK'
  BY <1>5, <1>expire DEF reap, BGTypeOK, ends
<1>6. ASSUME NEW id \in DOMAIN channel, serve_ends(id) PROVE BGTypeOK'
  <2>1. [channel[id] EXCEPT !.serve = "done"] \in ControlChannel
    BY DEF BGTypeOK, ControlChannel
  <2>2. channel' = [channel EXCEPT ![id] = [channel[id] EXCEPT !.serve = "done"]]
    BY <1>6 DEF serve_ends
  <2> QED BY <1>6, <2>1, <2>2, <1>chan, <1>expire DEF serve_ends, BGTypeOK
<1>7. ASSUME NEW id \in DOMAIN channel, watch(id) \/ caller_leaves(id) PROVE BGTypeOK'
  <2>1. [channel[id] EXCEPT !.caller = "gone"] \in ControlChannel
    BY DEF BGTypeOK, ControlChannel
  <2>2. channel' = [channel EXCEPT ![id] = [channel[id] EXCEPT !.caller = "gone"]]
    BY <1>7 DEF watch, caller_leaves
  <2> QED BY <1>7, <2>1, <2>2, <1>chan DEF watch, caller_leaves, BGTypeOK, table, granted
<1>8. CASE shutdown
  <2>a. PICK t \in teardown : \E q \in t.pipes :
          /\ teardown' = (teardown \ {t}) \cup {[t EXCEPT !.pipes = @ \ {q}]}
          /\ relay' = [r \in Connections |->
                         IF relay[r].pc = "piping" /\ relay[r].pipe = q
                         THEN [relay[r] EXCEPT !.pc = "closing"] ELSE relay[r]]
    BY <1>8 DEF shutdown
  <2>1. PICK p \in t.pipes :
          /\ teardown' = (teardown \ {t}) \cup {[t EXCEPT !.pipes = @ \ {p}]}
          /\ relay' = [r \in Connections |->
                         IF relay[r].pc = "piping" /\ relay[r].pipe = p
                         THEN [relay[r] EXCEPT !.pc = "closing"] ELSE relay[r]]
    BY <2>a
  <2>2. /\ [t EXCEPT !.pipes = @ \ {p}] \in Ending
        /\ [t EXCEPT !.pipes = @ \ {p}].controls = t.controls
    BY DEF BGTypeOK, Ending
  <2>3. relay' \in [Connections -> RelayOne]
    <3> SUFFICES ASSUME NEW r \in Connections PROVE relay'[r] \in RelayOne
      BY <2>1
    <3>1. [relay[r] EXCEPT !.pc = "closing"] \in RelayOne /\ relay[r] \in RelayOne
      BY DEF BGTypeOK, RelayOne
    <3> QED BY <2>1, <3>1
  <2> QED BY <1>8, <2>1, <2>2, <2>3 DEF shutdown, BGTypeOK, granted
<1>9. CASE end_control
  <2>1. PICK t \in teardown : \E i \in t.controls :
          /\ teardown' = (teardown \ {t}) \cup
               (IF t.controls = {i} THEN {} ELSE {[t EXCEPT !.controls = @ \ {i}]})
          /\ channel' = [channel EXCEPT ![i].shut = TRUE]
    BY <1>9 DEF end_control
  <2>2. PICK id \in t.controls :
          /\ teardown' = (teardown \ {t}) \cup
               (IF t.controls = {id} THEN {} ELSE {[t EXCEPT !.controls = @ \ {id}]})
          /\ channel' = [channel EXCEPT ![id].shut = TRUE]
    BY <2>1
  <2>3. id \in DOMAIN channel
    BY DEF BGTypeOK
  <2>4. [channel[id] EXCEPT !.shut = TRUE] \in ControlChannel
    BY <2>3 DEF BGTypeOK, ControlChannel
  <2>5. channel' = [channel EXCEPT ![id] = [channel[id] EXCEPT !.shut = TRUE]]
    BY <2>2
  <2>6. /\ [t EXCEPT !.controls = @ \ {id}] \in Ending
        /\ [t EXCEPT !.controls = @ \ {id}].controls \subseteq t.controls
    BY DEF BGTypeOK, Ending
  <2>7. teardown' \subseteq Ending /\ \A e \in teardown' : e.controls \subseteq DOMAIN channel
    BY <2>2, <2>6 DEF BGTypeOK
  <2> QED BY <1>9, <2>3, <2>4, <2>5, <2>7, <1>chan DEF end_control, BGTypeOK, granted
<1>10. ASSUME NEW r \in Connections, NEW v \in RelayOne, relay' = [relay EXCEPT ![r] = v]
       PROVE  relay' \in [Connections -> RelayOne]
  BY <1>10 DEF BGTypeOK
<1>11. NoRelay \in RelayOne
  BY DEF NoRelay, RelayOne
<1>12. ASSUME NEW r \in Connections, NEW pc \in {"admitted", "connected", "closing"}
       PROVE  [relay[r] EXCEPT !.pc = pc] \in RelayOne
  BY DEF BGTypeOK, RelayOne
<1>13. ASSUME NEW id \in DOMAIN channel, NEW r \in Connections, receive(id, r) PROVE BGTypeOK'
  <2>1. [pc |-> "received", grant |-> id, pipe |-> 0] \in RelayOne
    BY DEF BGTypeOK, RelayOne
  <2> QED BY <1>13, <2>1, <1>10 DEF receive, BGTypeOK, table, granted
<1>14. ASSUME NEW r \in Connections, live(r) PROVE BGTypeOK'
  <2>1. CASE step(r, "admitted") /\ UNCHANGED <<grants, pipes, teardown>>
    BY <1>14, <2>1, <1>10, <1>12 DEF live, step, BGTypeOK, granted
  <2>2. CASE leave(r) /\ expire(relay[r].grant)
    BY <1>14, <2>2, <1>10, <1>11, <1>expire DEF live, leave, BGTypeOK
  <2>3. CASE leave(r) /\ UNCHANGED <<grants, pipes, teardown>>
    BY <1>14, <2>3, <1>10, <1>11 DEF live, leave, BGTypeOK, granted
  <2> QED BY <1>14, <2>1, <2>2, <2>3 DEF live
<1>15. ASSUME NEW r \in Connections, connect(r) \/ pipe_ends(r) PROVE BGTypeOK'
  BY <1>15, <1>10, <1>11, <1>12 DEF connect, pipe_ends, step, leave, BGTypeOK, table, granted
<1>16. ASSUME NEW r \in Connections, register_pipe(r) PROVE BGTypeOK'
  <2>1. CASE /\ relay[r].grant \in granted
             /\ pipes' = pipes \cup {[grant |-> relay[r].grant, id |-> next_id]}
             /\ next_id' = next_id + 1
             /\ relay' = [relay EXCEPT ![r] = [@ EXCEPT !.pc = "piping", !.pipe = next_id]]
    <3>1. [grant |-> relay[r].grant, id |-> next_id] \in PipeEntry
      BY <2>1, GrantedIds DEF BGTypeOK, PipeEntry
    <3>2. [relay[r] EXCEPT !.pc = "piping", !.pipe = next_id] \in RelayOne
      BY DEF BGTypeOK, RelayOne
    <3>3. relay' \in [Connections -> RelayOne]
      BY <2>1, <3>2, <1>10
    <3>4. next_id' \in Ids
      BY <2>1, SMT DEF BGTypeOK
    <3> QED BY <1>16, <2>1, <3>1, <3>3, <3>4 DEF register_pipe, BGTypeOK, granted
  <2>2. CASE leave(r) /\ UNCHANGED <<pipes, next_id>>
    BY <1>16, <2>2, <1>10, <1>11 DEF register_pipe, leave, BGTypeOK, granted
  <2> QED BY <1>16, <2>1, <2>2 DEF register_pipe
<1>17. ASSUME NEW r \in Connections, drop_guard(r) PROVE BGTypeOK'
  BY <1>17, <1>10, <1>11 DEF drop_guard, leave, BGTypeOK, granted
<1>18. CASE Tick
  BY <1>18, TickKeepsIds DEF Tick, BGTypeOK, ends
<1>19. CASE UNCHANGED bgvars
  BY <1>19 DEF bgvars, BGTypeOK, granted
<1> QED
  BY <1>1, <1>2, <1>3, <1>4, <1>5, <1>6, <1>7, <1>8, <1>9, <1>13, <1>14, <1>15, <1>16, <1>17,
     <1>18, <1>19
  DEF BGNext, Authority, Insertion, Running, Channel, Relay

\* Every variable of the registry and its threads keeps its type.
THEOREM BGTypeCorrect == BGSpec => []BGTypeOK
<1>1. BGInit => BGTypeOK
  BY SMT DEF BGInit, BGTypeOK, Ids, NoRelay, RelayOne, granted
<1> QED BY <1>1, TypeStep, PTL DEF BGSpec

-----------------------------------------------------------------------------
(***************************************************************************)
(* The authority.  Insertion compares and inserts under one lock, and      *)
(* observation replaces and revokes under the same lock, so the invariant  *)
(* is inductive as it stands.                                              *)
(***************************************************************************)
\* Each step keeps every grant under the authority observed last.
LEMMA AuthorityStep ==
    BGTypeOK /\ GrantsUnderAuthority /\ [BGNext]_bgvars => GrantsUnderAuthority'
<1> SUFFICES ASSUME BGTypeOK, GrantsUnderAuthority, [BGNext]_bgvars
             PROVE  GrantsUnderAuthority'
  OBVIOUS
<1> USE DEF GrantsUnderAuthority
<1>1. CASE invalidate_authority
  BY <1>1 DEF invalidate_authority, revoke_all, remove
<1>2. ASSUME NEW a \in Authorities, observe_authority(a) PROVE GrantsUnderAuthority'
  <2>1. authority = None => grants = {}
    BY GrantConstants DEF BGTypeOK, GrantEntry
  <2> QED BY <1>2, <2>1 DEF observe_authority, revoke_all, remove
<1>3. ASSUME NEW a, NEW ttl, insert_if_authority(a, ttl) PROVE GrantsUnderAuthority'
  BY <1>3, SMT DEF insert_if_authority
<1>4. CASE Tick
  <2>1. ASSUME NEW g \in grants
        PROVE  [g EXCEPT !.left = IF @ > 0 THEN @ - 1 ELSE 0].authority = g.authority
    BY DEF BGTypeOK, GrantEntry
  <2> QED BY <1>4, <2>1 DEF Tick
<1>5. CASE authority' = authority /\ grants' \subseteq grants
  BY <1>5
<1>6. ASSUME NEW id, Channel(id) PROVE GrantsUnderAuthority'
  BY <1>5, <1>6 DEF Channel, answer, reap, serve_ends, watch, caller_leaves, expire, remove, table
<1>7. ASSUME NEW r, Relay(r) PROVE GrantsUnderAuthority'
  BY <1>5, <1>7 DEF Relay, receive, live, connect, register_pipe, pipe_ends, drop_guard, expire,
                    remove, table
<1>8. CASE shutdown \/ end_control \/ UNCHANGED bgvars
  BY <1>5, <1>8 DEF shutdown, end_control, bgvars
<1> QED BY <1>1, <1>2, <1>3, <1>4, <1>6, <1>7, <1>8 DEF BGNext, Authority, Insertion, Running

\* No browser grant outlives the authority it was redeemed under, once a
\* different one is observed or the old one given up, whichever way insertion
\* and observation interleave.
THEOREM AuthorityIsFinal == BGSpec => []GrantsUnderAuthority
<1>1. BGInit => GrantsUnderAuthority
  BY DEF BGInit, GrantsUnderAuthority
<1> QED BY <1>1, AuthorityStep, BGTypeCorrect, PTL DEF BGSpec

-----------------------------------------------------------------------------
(***************************************************************************)
(* Channels.                                                               *)
(***************************************************************************)
\* An ending takes over every channel whose grant it removes.
LEMMA RemoveKeepsChannels ==
    ASSUME NEW gone \in SUBSET grants, NEW cut, NEW revokes, remove(gone, cut, revokes),
           NEW id, id \in granted \/ \E t \in teardown : id \in t.controls
    PROVE  id \in granted' \/ \E t \in teardown' : id \in t.controls
<1> DEFINE e == [pipes |-> {p.id : p \in cut}, controls |-> {g.id : g \in gone},
                 revokes |-> revokes]
<1>1. e.controls = {g.id : g \in gone}
  OBVIOUS
<1>2. gone # {} => teardown' = teardown \cup {e}
  BY DEF remove
<1> HIDE DEF e
<1>3. teardown \subseteq teardown'
  BY DEF remove
<1>4. CASE id \in {g.id : g \in gone}
  BY <1>1, <1>2, <1>4
<1>5. CASE id \in granted /\ id \notin {g.id : g \in gone}
  BY <1>5 DEF granted, remove
<1> QED BY <1>3, <1>4, <1>5

\* Each step keeps every open channel held by a grant or by an ending.
LEMMA ChannelStep ==
    BGTypeOK /\ OpenChannelsAreHeld /\ [BGNext]_bgvars => OpenChannelsAreHeld'
<1> SUFFICES ASSUME BGTypeOK, OpenChannelsAreHeld, [BGNext]_bgvars, NEW id \in DOMAIN channel',
                    ~ channel'[id].shut
             PROVE  id \in granted' \/ \E t \in teardown' : id \in t.controls
  BY DEF OpenChannelsAreHeld
<1> DEFINE Held == id \in granted \/ \E t \in teardown : id \in t.controls
           OpenBefore == id \in DOMAIN channel /\ ~ channel[id].shut
<1>1. OpenBefore => Held
  BY DEF OpenChannelsAreHeld
<1>2. ASSUME NEW i \in DOMAIN channel, NEW c, channel' = [channel EXCEPT ![i] = c],
             c.shut = channel[i].shut
      PROVE  OpenBefore
  BY <1>2 DEF BGTypeOK
<1>3. CASE UNCHANGED <<grants, teardown>> /\ Held
  BY <1>3 DEF granted
<1>4. ASSUME NEW i, expire(i), Held PROVE Held'
  BY <1>4, RemoveKeepsChannels DEF expire
<1>5. ASSUME revoke_all, Held PROVE Held'
  BY <1>5, RemoveKeepsChannels DEF revoke_all
<1>6. CASE Authority
  BY <1>1, <1>3, <1>5, <1>6
  DEF Authority, invalidate_authority, observe_authority, ends
<1>7. ASSUME NEW a, NEW ttl, insert_if_authority(a, ttl) PROVE Held'
  <2>1. grants' = grants \cup {[id |-> next_id, authority |-> a, left |-> ttl]}
    BY <1>7 DEF insert_if_authority
  <2>2. CASE id = next_id
    <3>1. [id |-> next_id, authority |-> a, left |-> ttl].id = id
      BY <2>2
    <3> QED BY <2>1, <3>1 DEF granted
  <2>3. CASE id # next_id
    <3>1. Held
      BY <1>1, <1>7, <2>3 DEF insert_if_authority
    <3> QED BY <1>7, <2>1, <3>1 DEF granted, insert_if_authority
  <2> QED BY <2>2, <2>3
<1>8. ASSUME NEW i \in DOMAIN channel, answer(i) PROVE Held'
  <2>1. CASE channel[i].shut \/ channel[i].caller = "gone"
    <3>1. [channel[i] EXCEPT !.serve = "done"].shut = channel[i].shut
      BY DEF BGTypeOK, ControlChannel
    <3>2. Held
      BY <1>1, <1>2, <1>8, <2>1, <3>1 DEF answer
    <3> QED BY <1>4, <1>8, <2>1, <3>2 DEF answer
  <2>2. CASE ~ (channel[i].shut \/ channel[i].caller = "gone")
    <3>1. [channel[i] EXCEPT !.serve = "serving", !.caller = "relay"].shut = channel[i].shut
      BY DEF BGTypeOK, ControlChannel
    <3>2. Held
      BY <1>1, <1>2, <1>8, <2>2, <3>1 DEF answer
    <3> QED BY <1>3, <1>8, <2>2, <3>2 DEF answer
  <2> QED BY <2>1, <2>2
<1>9. ASSUME NEW i, reap(i) PROVE Held'
  BY <1>1, <1>4, <1>9 DEF reap, ends
<1>10. ASSUME NEW i, serve_ends(i) PROVE Held'
  <2>1. [channel[i] EXCEPT !.serve = "done"].shut = channel[i].shut
    BY <1>10 DEF serve_ends, BGTypeOK, ControlChannel
  <2> QED BY <1>1, <1>2, <1>4, <1>10, <2>1 DEF serve_ends
<1>11. ASSUME NEW i, watch(i) \/ caller_leaves(i) PROVE Held'
  <2>1. [channel[i] EXCEPT !.caller = "gone"].shut = channel[i].shut
    BY <1>11, SMT DEF watch, caller_leaves, BGTypeOK, ControlChannel
  <2> QED BY <1>1, <1>2, <1>3, <1>11, <2>1 DEF watch, caller_leaves, table
<1>12. CASE shutdown
  <2>1. PICK t \in teardown : \E q \in t.pipes :
          teardown' = (teardown \ {t}) \cup {[t EXCEPT !.pipes = @ \ {q}]}
    BY <1>12 DEF shutdown
  <2>2. PICK q : teardown' = (teardown \ {t}) \cup {[t EXCEPT !.pipes = @ \ {q}]}
    BY <2>1
  <2>3. [t EXCEPT !.pipes = @ \ {q}].controls = t.controls
    BY DEF BGTypeOK, Ending
  <2> QED BY <1>1, <1>12, <2>2, <2>3 DEF shutdown, granted
<1>13. CASE end_control
  <2>1. PICK t \in teardown : \E j \in t.controls :
          /\ teardown' = (teardown \ {t}) \cup
               (IF t.controls = {j} THEN {} ELSE {[t EXCEPT !.controls = @ \ {j}]})
          /\ channel' = [channel EXCEPT ![j].shut = TRUE]
    BY <1>13 DEF end_control
  <2>2. PICK i \in t.controls :
          /\ teardown' = (teardown \ {t}) \cup
               (IF t.controls = {i} THEN {} ELSE {[t EXCEPT !.controls = @ \ {i}]})
          /\ channel' = [channel EXCEPT ![i] = [channel[i] EXCEPT !.shut = TRUE]]
    BY <2>1
  <2>3. i \in DOMAIN channel /\ [channel[i] EXCEPT !.shut = TRUE].shut
    BY DEF BGTypeOK, ControlChannel
  <2>4. id # i /\ OpenBefore
    BY <2>2, <2>3
  <2>5. [t EXCEPT !.controls = @ \ {i}].controls = t.controls \ {i}
    BY DEF BGTypeOK, Ending
  <2> QED BY <1>1, <1>13, <2>2, <2>4, <2>5 DEF end_control, granted
<1>14. ASSUME NEW r, live(r) PROVE Held'
  BY <1>1, <1>3, <1>4, <1>14 DEF live
<1>15. ASSUME NEW r, Relay(r) PROVE Held'
  BY <1>1, <1>3, <1>14, <1>15 DEF Relay, receive, connect, register_pipe, pipe_ends, drop_guard, table
<1>16. CASE Tick
  BY <1>1, <1>16, TickKeepsIds DEF Tick, ends
<1>17. CASE UNCHANGED bgvars
  BY <1>1, <1>3, <1>17 DEF bgvars
<1> QED BY <1>6, <1>7, <1>8, <1>9, <1>10, <1>11, <1>12, <1>13, <1>15, <1>16, <1>17
        DEF BGNext, Insertion, Running, Channel

\* No ending leaves a listener behind: an open control channel belongs to a
\* grant that stands, or an ending is about to shut it.
THEOREM NoOrphanChannel == BGSpec => []OpenChannelsAreHeld
<1>1. BGInit => OpenChannelsAreHeld
  BY DEF BGInit, OpenChannelsAreHeld
<1> QED BY <1>1, ChannelStep, BGTypeCorrect, PTL DEF BGSpec

-----------------------------------------------------------------------------
(***************************************************************************)
(* Pipes.  PipesCanBeCut needs one more fact to be inductive: a PipeGuard  *)
(* removes the entry of its own pipe and no other, because grants and      *)
(* pipes draw their ids from one counter and no two pipes share an id.     *)
(***************************************************************************)
Carrying(r) == relay[r].pc \in {"piping", "closing"}

PipeIds ==
    \A r \in Connections :
      /\ relay[r].pipe < next_id
      /\ \A s \in Connections : Carrying(r) /\ Carrying(s) /\ relay[r].pipe = relay[s].pipe => r = s

\* Where the pipe of a copying thread can be found by an ending.
CanBeCut(r) ==
    \/ [grant |-> relay[r].grant, id |-> relay[r].pipe] \in pipes /\ relay[r].grant \in granted
    \/ \E t \in teardown : relay[r].pipe \in t.pipes

\* An ending takes over the pipes of the grants it removes.
LEMMA RemoveKeepsPipes ==
    ASSUME BGTypeOK, NEW gone \in SUBSET grants, NEW cut \in SUBSET pipes, NEW revokes,
           remove(gone, cut, revokes),
           \A p \in pipes : (\E g \in gone : g.id = p.grant) => p \in cut,
           NEW r \in Connections, CanBeCut(r), relay'[r] = relay[r]
    PROVE  CanBeCut(r)'
<1> DEFINE e == [pipes |-> {p.id : p \in cut}, controls |-> {g.id : g \in gone},
                 revokes |-> revokes]
           mine == [grant |-> relay[r].grant, id |-> relay[r].pipe]
<1>1. e.pipes = {p.id : p \in cut}
  OBVIOUS
<1>2. cut # {} => teardown' = teardown \cup {e}
  BY DEF remove
<1>3. mine.id = relay[r].pipe /\ mine.grant = relay[r].grant
  OBVIOUS
<1> HIDE DEF e
<1>4. teardown \subseteq teardown' /\ pipes' = pipes \ cut /\ grants' = grants \ gone
  BY DEF remove
<1>5. CASE \E t \in teardown : relay[r].pipe \in t.pipes
  BY <1>4, <1>5 DEF CanBeCut
<1>6. CASE mine \in cut
  BY <1>1, <1>2, <1>3, <1>6 DEF CanBeCut
<1>7. CASE mine \in pipes /\ mine \notin cut /\ relay[r].grant \in granted
  <2>1. relay[r].grant \in granted'
    BY <1>3, <1>4, <1>7 DEF granted
  <2> QED BY <1>4, <1>7, <2>1 DEF CanBeCut
<1> QED BY <1>5, <1>6, <1>7 DEF CanBeCut

\* Pipe ids stay unique and below the counter.
LEMMA PipeIdStep == BGTypeOK /\ PipeIds /\ [BGNext]_bgvars => PipeIds'
<1> SUFFICES ASSUME BGTypeOK, PipeIds, [BGNext]_bgvars PROVE PipeIds'
  OBVIOUS
<1>1. next_id' \in Nat /\ next_id \in Nat /\ next_id > 0
  BY TypeStep, SMT DEF BGTypeOK, Ids
<1>2. ASSUME relay' = relay, next_id' \in {next_id, next_id + 1} PROVE PipeIds'
  BY <1>1, <1>2, SMT DEF PipeIds, Carrying, BGTypeOK, RelayOne
<1>3. ASSUME NEW r \in Connections, NEW pc \in {"received", "admitted", "connected"},
             next_id' = next_id, relay' = [relay EXCEPT ![r].pc = pc]
      PROVE  PipeIds'
  BY <1>1, <1>3, SMT DEF PipeIds, Carrying, BGTypeOK, RelayOne
<1>4. ASSUME NEW r \in Connections, NEW v \in RelayOne, v.pipe = 0, v.pc \in {"idle", "received"},
             next_id' = next_id, relay' = [relay EXCEPT ![r] = v]
      PROVE  PipeIds'
  BY <1>1, <1>4 DEF PipeIds, Carrying, BGTypeOK, RelayOne
<1>5. NoRelay \in RelayOne /\ NoRelay.pipe = 0 /\ NoRelay.pc = "idle"
  BY DEF NoRelay, RelayOne
<1>6. ASSUME NEW r \in Connections, leave(r), next_id' = next_id PROVE PipeIds'
  BY <1>4, <1>5, <1>6 DEF leave
<1>7. CASE Authority \/ Insertion
  BY <1>2, <1>7 DEF Authority, Insertion, invalidate_authority, observe_authority,
                    insert_if_authority, ends
<1>8. ASSUME NEW i, Channel(i) PROVE PipeIds'
  BY <1>2, <1>8 DEF Channel, answer, reap, serve_ends, watch, caller_leaves, ends, table
<1>9. CASE Tick \/ end_control \/ UNCHANGED bgvars
  BY <1>2, <1>9 DEF Tick, end_control, bgvars, ends
<1>10. CASE shutdown
  <2>1. PICK q : relay' = [r \in Connections |->
                    IF relay[r].pc = "piping" /\ relay[r].pipe = q
                    THEN [relay[r] EXCEPT !.pc = "closing"] ELSE relay[r]]
    BY <1>10 DEF shutdown
  <2>2. ASSUME NEW r \in Connections
        PROVE  relay'[r].pipe = relay[r].pipe /\ (Carrying(r)' => Carrying(r))
    BY <2>1 DEF Carrying, BGTypeOK, RelayOne
  <2> QED BY <1>10, <2>2 DEF PipeIds, shutdown
<1>11. ASSUME NEW r \in Connections, \E id \in DOMAIN channel : receive(id, r) PROVE PipeIds'
  <2>1. PICK id \in DOMAIN channel : receive(id, r)
    BY <1>11
  <2> DEFINE v == [pc |-> "received", grant |-> id, pipe |-> 0]
  <2>2. v \in RelayOne /\ v.pipe = 0 /\ v.pc = "received"
    BY DEF BGTypeOK, RelayOne, Ids
  <2>3. relay' = [relay EXCEPT ![r] = v] /\ next_id' = next_id
    BY <2>1 DEF receive, table
  <2> HIDE DEF v
  <2> QED BY <1>4, <2>2, <2>3
<1>12. ASSUME NEW r \in Connections, live(r) \/ connect(r) PROVE PipeIds'
  BY <1>3, <1>6, <1>12 DEF live, connect, step, table
<1>13. ASSUME NEW r \in Connections, register_pipe(r) PROVE PipeIds'
  <2>1. CASE /\ next_id' = next_id + 1
             /\ relay' = [relay EXCEPT ![r] = [@ EXCEPT !.pc = "piping", !.pipe = next_id]]
    <3>1. ASSUME NEW s \in Connections
          PROVE  IF s = r THEN relay'[s].pipe = next_id
                          ELSE relay'[s] = relay[s] /\ relay[s].pipe < next_id
      BY <2>1 DEF PipeIds, BGTypeOK, RelayOne
    <3>2. ASSUME NEW s \in Connections PROVE relay[s].pipe \in Nat
      BY DEF BGTypeOK, RelayOne
    <3>3. ASSUME NEW s \in Connections PROVE relay'[s].pipe < next_id'
      BY <1>1, <2>1, <3>1, <3>2, SMT
    <3>4. ASSUME NEW s \in Connections, NEW u \in Connections, Carrying(s)', Carrying(u)',
                 relay'[s].pipe = relay'[u].pipe
          PROVE  s = u
      <4>1. CASE s # r /\ u # r
        BY <3>1, <3>4, <4>1 DEF PipeIds, Carrying
      <4>2. CASE s = r \/ u = r
        BY <1>1, <3>1, <3>2, <3>4, <4>2, SMT
      <4> QED BY <4>1, <4>2
    <3> QED BY <3>3, <3>4 DEF PipeIds
  <2>2. CASE leave(r) /\ UNCHANGED <<pipes, next_id>>
    BY <1>6, <2>2
  <2> QED BY <1>13, <2>1, <2>2 DEF register_pipe
<1>14. ASSUME NEW r \in Connections, pipe_ends(r) PROVE PipeIds'
  <2>1. relay' = [relay EXCEPT ![r].pc = "closing"] /\ next_id' = next_id /\ relay[r].pc = "piping"
    BY <1>14 DEF pipe_ends, step, table
  <2>2. ASSUME NEW s \in Connections
        PROVE  relay'[s].pipe = relay[s].pipe /\ (Carrying(s)' => Carrying(s))
    BY <2>1 DEF Carrying, BGTypeOK, RelayOne
  <2> QED BY <2>1, <2>2 DEF PipeIds
<1>15. ASSUME NEW r \in Connections, drop_guard(r) PROVE PipeIds'
  BY <1>6, <1>15 DEF drop_guard
<1> QED BY <1>7, <1>8, <1>9, <1>10, <1>11, <1>12, <1>13, <1>14, <1>15
        DEF BGNext, Running, Relay

\* Each step leaves every copying thread within reach of an ending.
LEMMA PipeStep ==
    BGTypeOK /\ PipeIds /\ PipesCanBeCut /\ [BGNext]_bgvars => PipesCanBeCut'
<1> SUFFICES ASSUME BGTypeOK, PipeIds, PipesCanBeCut, [BGNext]_bgvars,
                    NEW r \in Connections, relay'[r].pc = "piping"
             PROVE  CanBeCut(r)'
  BY DEF PipesCanBeCut, CanBeCut
<1>1. relay[r].pc = "piping" => CanBeCut(r)
  BY DEF PipesCanBeCut, CanBeCut
<1>2. ASSUME relay'[r] = relay[r], CanBeCut(r), granted \subseteq granted', pipes \subseteq pipes',
             teardown' = teardown
      PROVE  CanBeCut(r)'
  BY <1>2 DEF CanBeCut
<1>3. ASSUME relay'[r] = relay[r], NEW id, expire(id) PROVE CanBeCut(r)'
  <2> DEFINE gone == {g \in grants : g.id = id}
             cut  == {p \in pipes : p.grant = id}
  <2>1. CanBeCut(r)
    BY <1>1, <1>3
  <2>2. gone \in SUBSET grants /\ cut \in SUBSET pipes
    OBVIOUS
  <2>3. \A p \in pipes : (\E g \in gone : g.id = p.grant) => p \in cut
    OBVIOUS
  <2>4. remove(gone, cut, FALSE)
    BY <1>3 DEF expire
  <2> HIDE DEF gone, cut
  <2> QED BY <1>3, <2>1, <2>2, <2>3, <2>4, RemoveKeepsPipes
<1>4. ASSUME relay' = relay, revoke_all PROVE CanBeCut(r)'
  <2>1. CanBeCut(r)
    BY <1>1, <1>4
  <2> QED BY <1>4, <2>1, RemoveKeepsPipes DEF revoke_all
<1>5. ASSUME relay' = relay, UNCHANGED <<grants, pipes, teardown>> PROVE CanBeCut(r)'
  BY <1>1, <1>2, <1>5 DEF granted
<1>6. CASE Authority
  BY <1>4, <1>5, <1>6 DEF Authority, invalidate_authority, observe_authority, ends
<1>7. CASE Insertion
  <2>1. grants \subseteq grants' /\ UNCHANGED <<pipes, teardown, relay>>
    BY <1>7 DEF Insertion, insert_if_authority
  <2> QED BY <1>1, <1>2, <2>1 DEF granted
<1>8. ASSUME NEW id, Channel(id) PROVE CanBeCut(r)'
  BY <1>3, <1>5, <1>8 DEF Channel, answer, reap, serve_ends, watch, caller_leaves, ends, table
<1>9. CASE Tick
  BY <1>1, <1>2, <1>9, TickKeepsIds DEF Tick, ends
<1>10. CASE shutdown
  <2>1. PICK t \in teardown : \E q \in t.pipes :
          /\ teardown' = (teardown \ {t}) \cup {[t EXCEPT !.pipes = @ \ {q}]}
          /\ relay' = [x \in Connections |->
                         IF relay[x].pc = "piping" /\ relay[x].pipe = q
                         THEN [relay[x] EXCEPT !.pc = "closing"] ELSE relay[x]]
    BY <1>10 DEF shutdown
  <2>2. PICK q \in t.pipes :
          /\ teardown' = (teardown \ {t}) \cup {[t EXCEPT !.pipes = @ \ {q}]}
          /\ relay' = [x \in Connections |->
                         IF relay[x].pc = "piping" /\ relay[x].pipe = q
                         THEN [relay[x] EXCEPT !.pc = "closing"] ELSE relay[x]]
    BY <2>1
  <2>3. relay'[r] = relay[r] /\ relay[r].pipe # q
    BY <2>2 DEF BGTypeOK, RelayOne
  <2>4. [t EXCEPT !.pipes = @ \ {q}].pipes = t.pipes \ {q}
    BY DEF BGTypeOK, Ending
  <2>5. CanBeCut(r) /\ UNCHANGED <<grants, pipes>>
    BY <1>1, <1>10, <2>3 DEF shutdown
  <2> QED BY <2>2, <2>3, <2>4, <2>5 DEF CanBeCut, granted
<1>11. CASE end_control
  <2>1. PICK t \in teardown : t.pipes = {} /\ teardown \ {t} \subseteq teardown'
    BY <1>11 DEF end_control
  <2>2. CanBeCut(r) /\ UNCHANGED <<grants, pipes, relay>>
    BY <1>1, <1>11 DEF end_control
  <2> QED BY <2>1, <2>2 DEF CanBeCut, granted
<1>12. ASSUME NEW x \in Connections, NEW v, relay' = [relay EXCEPT ![x] = v], v.pc # "piping"
       PROVE  r # x /\ relay'[r] = relay[r]
  BY <1>12 DEF BGTypeOK
<1>13. ASSUME NEW x \in Connections, step(x, "admitted") \/ step(x, "connected") \/ step(x, "closing")
                                     \/ leave(x),
              UNCHANGED <<grants, pipes, teardown>>
       PROVE  CanBeCut(r)'
  <2>1. relay'[r] = relay[r]
    BY <1>13, SMT DEF step, leave, NoRelay, BGTypeOK, RelayOne
  <2> QED BY <1>1, <1>2, <1>13, <2>1 DEF granted
<1>14. ASSUME NEW x \in Connections, NEW id, receive(id, x) PROVE CanBeCut(r)'
  BY <1>1, <1>2, <1>12, <1>14, SMT DEF receive, table, granted
<1>15. ASSUME NEW x \in Connections, live(x) PROVE CanBeCut(r)'
  <2>1. CASE step(x, "admitted") /\ UNCHANGED <<grants, pipes, teardown>>
    BY <1>13, <2>1
  <2>2. CASE leave(x) /\ expire(relay[x].grant)
    <3>1. relay'[r] = relay[r]
      BY <1>12, <2>2, SMT DEF leave, NoRelay
    <3> QED BY <1>3, <2>2, <3>1
  <2>3. CASE leave(x) /\ UNCHANGED <<grants, pipes, teardown>>
    BY <1>13, <2>3
  <2> QED BY <1>15, <2>1, <2>2, <2>3 DEF live
<1>16. ASSUME NEW x \in Connections, connect(x) \/ pipe_ends(x) PROVE CanBeCut(r)'
  BY <1>13, <1>16 DEF connect, pipe_ends, table
<1>17. ASSUME NEW x \in Connections, register_pipe(x) PROVE CanBeCut(r)'
  <2>1. CASE /\ relay[x].grant \in granted
             /\ pipes' = pipes \cup {[grant |-> relay[x].grant, id |-> next_id]}
             /\ relay' = [relay EXCEPT ![x] = [@ EXCEPT !.pc = "piping", !.pipe = next_id]]
    <3>1. UNCHANGED <<grants, teardown>>
      BY <1>17 DEF register_pipe
    <3>2. CASE r = x
      <4>1. relay'[r].grant = relay[x].grant /\ relay'[r].pipe = next_id
        BY <2>1, <3>2 DEF BGTypeOK, RelayOne
      <4> QED BY <2>1, <3>1, <4>1, SMT DEF CanBeCut, granted
    <3>3. CASE r # x
      <4>1. relay'[r] = relay[r]
        BY <2>1, <3>3 DEF BGTypeOK
      <4> QED BY <1>1, <1>2, <2>1, <3>1, <4>1 DEF granted
    <3> QED BY <3>2, <3>3
  <2>2. CASE leave(x) /\ UNCHANGED <<pipes, next_id>>
    BY <1>13, <1>17, <2>2 DEF register_pipe
  <2> QED BY <1>17, <2>1, <2>2 DEF register_pipe
<1>18. ASSUME NEW x \in Connections, drop_guard(x) PROVE CanBeCut(r)'
  <2>1. r # x /\ relay'[r] = relay[r]
    BY <1>12, <1>18, SMT DEF drop_guard, leave, NoRelay
  <2>2. relay[r].pipe # relay[x].pipe
    BY <1>18, <2>1 DEF drop_guard, PipeIds, Carrying
  <2>3. [grant |-> relay[r].grant, id |-> relay[r].pipe].id = relay[r].pipe
    OBVIOUS
  <2>4. CanBeCut(r)
    BY <1>1, <2>1
  <2>5. UNCHANGED <<grants, teardown>> /\ pipes' = {p \in pipes : p.id # relay[x].pipe}
    BY <1>18 DEF drop_guard
  <2> QED BY <2>1, <2>2, <2>3, <2>4, <2>5 DEF CanBeCut, granted
<1>19. CASE UNCHANGED bgvars
  BY <1>5, <1>19 DEF bgvars
<1> QED BY <1>6, <1>7, <1>8, <1>9, <1>10, <1>11, <1>14, <1>15, <1>16, <1>17, <1>18, <1>19
        DEF BGNext, Running, Relay

\* A connection that is being copied can always be cut: registration and
\* ending exclude each other, so no pipe escapes the end of its grant.
THEOREM NoUncuttablePipe == BGSpec => []PipesCanBeCut
<1>1. BGInit => PipeIds /\ PipesCanBeCut
  BY SMT DEF BGInit, PipeIds, PipesCanBeCut, NoRelay, Carrying
<1>2. BGTypeOK /\ PipeIds /\ PipesCanBeCut /\ [BGNext]_bgvars => PipeIds' /\ PipesCanBeCut'
  BY PipeIdStep, PipeStep
<1> QED BY <1>1, <1>2, BGTypeCorrect, PTL DEF BGSpec

-----------------------------------------------------------------------------
(***************************************************************************)
(* The chain.                                                              *)
(***************************************************************************)
INSTANCE SequenceTheorems

LEMMA IdentityIsAuthority == Identity \subseteq Authorities
BY ChainConstants, SMT DEF Identity

\* The last element of a sequence that grew at its end or lost its head.
LEMMA LastOfAppend ==
    ASSUME NEW S, NEW q \in Seq(S), NEW x \in S
    PROVE  Append(q, x) # <<>> /\ Append(q, x)[Len(Append(q, x))] = x
BY SMT

LEMMA LastOfTail ==
    ASSUME NEW S, NEW q \in Seq(S), q # <<>>
    PROVE  IF Tail(q) = <<>> THEN q[Len(q)] = Head(q)
                             ELSE Tail(q)[Len(Tail(q))] = q[Len(q)]
<1>1. Len(q) \in Nat \ {0} /\ Len(Tail(q)) = Len(q) - 1 /\ Tail(q) \in Seq(S)
  BY HeadTailProperties, EmptySeq
<1>2. Tail(q) = <<>> <=> Len(Tail(q)) = 0
  BY <1>1, EmptySeq
<1>3. \A i \in 1..Len(Tail(q)) : Tail(q)[i] = q[i + 1]
  BY HeadTailProperties
<1>4. Head(q) = q[1]
  BY SMT
<1> QED BY <1>1, <1>2, <1>3, <1>4, SMT

\* What closing streams changes, and what it does not.
LEMMA CloseOK ==
    ASSUME stream \in [Streams -> Connection], NEW S
    PROVE  /\ close(S) \in [Streams -> Connection]
           /\ \A s \in Streams : /\ close(S)[s].events = stream[s].events
                                 /\ close(S)[s].pc = IF s \in S THEN "closed" ELSE stream[s].pc
<1>1. ASSUME NEW s \in Streams
      PROVE  /\ [stream[s] EXCEPT !.pc = "closed"] \in Connection
             /\ [stream[s] EXCEPT !.pc = "closed"].events = stream[s].events
             /\ [stream[s] EXCEPT !.pc = "closed"].pc = "closed"
  BY DEF Connection
<1> QED BY <1>1 DEF close

\* An event appended to one stream.
LEMMA AppendOK ==
    ASSUME NEW c \in Connection, NEW line \in Identity
    PROVE  /\ [c EXCEPT !.events = Append(@, line)] \in Connection
           /\ [c EXCEPT !.events = Append(@, line)].pc = c.pc
           /\ [c EXCEPT !.events = Append(@, line)].events = Append(c.events, line)
           /\ [pc |-> "attached", reading |-> TRUE, events |-> Append(c.events, line)] \in Connection
<1>1. c.events \in Seq(Identity) /\ Append(c.events, line) \in Seq(Identity)
  BY SMT DEF Connection
<1> QED BY <1>1 DEF Connection

\* Who holds the hub's mutex, by what it is doing.
LEMMA HolderOK ==
    ASSUME HubOK
    PROVE  /\ hub.holder.op = "publish" => hub.holder \in Publishing
           /\ hub.holder.op = "attach" => hub.holder \in Attaching
           /\ hub.holder = Nobody => hub.holder.op = "none"
BY SMT DEF HubOK, Nobody, Publishing, Attaching

-----------------------------------------------------------------------------
\* LOCK and restart move the broker's authority forward and within its bounds.
LEMMA BrokerStep == CTypeOK /\ [CNext]_cvars => BrokerOK'
<1> SUFFICES ASSUME CTypeOK, [CNext]_cvars PROVE BrokerOK'
  OBVIOUS
<1>0. broker.epoch \in 0..MaxEpoch /\ broker.instance \in 0..MaxInstance
  BY DEF CTypeOK, BrokerOK, Identity
<1>1. CASE lock
  BY <1>0, <1>1, ChainConstants, SMT DEF lock, CTypeOK, BrokerOK, Identity
<1>2. CASE restart
  BY <1>0, <1>2, ChainConstants, SMT DEF restart, BrokerOK, Identity
<1>3. CASE publish_current
  BY <1>3 DEF publish_current, CTypeOK, BrokerOK
<1>4. ASSUME UNCHANGED <<broker, locking>> PROVE BrokerOK'
  BY <1>4 DEF CTypeOK, BrokerOK
<1>5. CASE Hub
  BY <1>3, <1>4, <1>5 DEF Hub, heartbeat, write_lines, push_entry, attach
<1>6. CASE Subscriber \/ lose_stream
  BY <1>4, <1>6 DEF Subscriber, hello, observe, subscribe, read_event, lose_stream
<1>7. CASE Ceremony
  BY <1>4, <1>7 DEF Ceremony, redeem, authority_is_current, push_token, insert_grant, refuse
<1>8. CASE (Running /\ UNCHANGED chain) \/ Time \/ UNCHANGED cvars
  BY <1>4, <1>8 DEF chain, cvars, Time
<1> QED BY <1>1, <1>2, <1>5, <1>6, <1>7, <1>8 DEF CNext

\* The subscription thread knows the identity it is about to observe and the
\* stream it reads.
LEMMA ThreadStep == CTypeOK /\ [CNext]_cvars => ThreadOK'
<1> SUFFICES ASSUME CTypeOK, [CNext]_cvars PROVE ThreadOK'
  OBVIOUS
<1>0. sub \in Thread /\ broker \in Identity /\ MaxUnhealthy \in Nat /\ MaxStreams \in Nat
  BY ChainConstants DEF CTypeOK, ThreadOK, BrokerOK
<1>1. ASSUME lose_authority \/ cannot_connect PROVE ThreadOK'
  <2>1. CASE lose_authority
    <3>1. sub' = [sub EXCEPT !.pc = "hello", !.stream = 0, !.budget = 0]
      BY <2>1 DEF lose_authority
    <3>2. 0 \in 0..MaxStreams /\ 0 \in 0..(MaxUnhealthy + 1)
      BY <1>0, SMT
    <3>3. sub' = [pc |-> "hello", seen |-> sub.seen, stream |-> 0, budget |-> 0]
      BY <1>0, <3>1 DEF Thread
    <3>4. sub' \in Thread /\ sub'.pc = "hello"
      BY <1>0, <3>2, <3>3 DEF Thread
    <3> QED BY <3>4 DEF ThreadOK
  <2>2. CASE cannot_connect
    <3> DEFINE b == IF sub.budget = 0 THEN 1 ELSE sub.budget
    <3>1. b \in 0..(MaxUnhealthy + 1)
      BY <1>0, SMT DEF Thread
    <3>2. sub' = [sub EXCEPT !.pc = "hello", !.budget = b]
      BY <2>2 DEF cannot_connect
    <3> HIDE DEF b
    <3>3. sub' \in Thread /\ sub'.pc = "hello"
      BY <1>0, <3>1, <3>2 DEF Thread
    <3> QED BY <3>3 DEF ThreadOK
  <2> QED BY <1>1, <2>1, <2>2
<1>2. CASE hello
  BY <1>0, <1>1, <1>2 DEF hello, ThreadOK, Thread
<1>3. CASE observe
  BY <1>0, <1>3 DEF observe, ThreadOK, Thread
<1>4. CASE subscribe
  <2>1. ASSUME NEW s \in Streams, sub' = [sub EXCEPT !.pc = "reading", !.stream = s]
        PROVE  ThreadOK'
    <3>1. s \in 0..MaxStreams
      BY <1>0, SMT DEF Streams
    <3>2. sub' \in Thread /\ sub'.pc = "reading" /\ sub'.stream = s
      BY <1>0, <2>1, <3>1 DEF Thread
    <3> QED BY <3>2 DEF ThreadOK
  <2> QED BY <1>1, <1>4, <2>1 DEF subscribe
<1>5. CASE Time
  <2>1. sub.budget \in 0..(MaxUnhealthy + 1)
    BY <1>0 DEF Thread
  <2>2. (IF sub.budget \in 1..MaxUnhealthy THEN sub.budget + 1 ELSE sub.budget) \in 0..(MaxUnhealthy + 1)
    BY <1>0, <2>1, SMT
  <2> QED BY <1>0, <1>5, <2>2 DEF Time, CTypeOK, ThreadOK, Thread
<1>6. ASSUME UNCHANGED sub PROVE ThreadOK'
  BY <1>6 DEF CTypeOK, ThreadOK
<1>7. CASE lock \/ restart \/ Hub
  BY <1>6, <1>7 DEF lock, restart, Hub, publish_current, heartbeat, write_lines, push_entry, attach
<1>8. CASE read_event
  BY <1>6, <1>8 DEF read_event
<1>9. CASE lose_stream
  BY <1>1, <1>9 DEF lose_stream
<1>10. CASE Ceremony
  BY <1>6, <1>10 DEF Ceremony, redeem, authority_is_current, push_token, insert_grant, refuse
<1>11. CASE (Running /\ UNCHANGED chain) \/ UNCHANGED cvars
  BY <1>6, <1>11 DEF chain, cvars
<1> QED BY <1>2, <1>3, <1>4, <1>5, <1>7, <1>8, <1>9, <1>10, <1>11 DEF CNext, Subscriber

\* The hub's table and its mutex.
LEMMA HubStep == CTypeOK /\ [CNext]_cvars => HubOK'
<1> SUFFICES ASSUME CTypeOK, [CNext]_cvars PROVE HubOK'
  OBVIOUS
<1>0. HubOK /\ broker \in Identity /\ stream \in [Streams -> Connection] /\ ThreadOK
  BY DEF CTypeOK, HubOK, BrokerOK
<1>a. Nobody.op = "none" /\ Nobody.stream = 0
  BY DEF Nobody
<1>1. CASE publish_current \/ heartbeat
  <2> DEFINE h == [op |-> "publish", stream |-> 0, line |-> broker]
  <2>1. h \in Publishing /\ h.op = "publish"
    BY <1>0 DEF Publishing
  <2>2. hub' = [hub EXCEPT !.holder = h] /\ UNCHANGED stream
    BY <1>1 DEF publish_current, heartbeat
  <2> HIDE DEF h
  <2> QED BY <1>0, <2>1, <2>2 DEF HubOK
<1>2. CASE write_lines
  <2> DEFINE kept == {s \in hub.table : stream[s].reading /\ Len(stream[s].events) < WireCapacity}
             told(s) == [stream[s] EXCEPT !.events = Append(@, hub.holder.line)]
  <2>1. hub.holder.line \in Identity
    BY <1>0, <1>2, HolderOK DEF write_lines, Publishing
  <2>2. \A s \in Streams : told(s) \in Connection /\ told(s).pc = stream[s].pc
    BY <1>0, <2>1, AppendOK
  <2>3. kept \subseteq hub.table /\ hub.table \subseteq Streams
    BY <1>0 DEF HubOK
  <2>4. /\ stream' = [s \in Streams |-> IF s \in kept THEN told(s) ELSE close(hub.table)[s]]
        /\ hub' = [holder |-> Nobody, table |-> kept]
    BY <1>2 DEF write_lines
  <2>5. close(hub.table) \in [Streams -> Connection]
    BY <1>0, CloseOK
  <2> HIDE DEF kept, told
  <2>6. stream' \in [Streams -> Connection]
    BY <2>2, <2>4, <2>5
  <2>7. \A s \in kept : stream'[s].pc = "attached"
    BY <1>0, <2>2, <2>3, <2>4 DEF HubOK
  <2> QED BY <1>a, <2>3, <2>4, <2>6, <2>7 DEF HubOK
<1>3. ASSUME NEW s \in Streams, attach(s) PROVE HubOK'
  <2> DEFINE h == [op |-> "attach", stream |-> s, line |-> broker]
  <2>1. h \in Attaching /\ h.stream = s /\ h.op = "attach"
    BY <1>0 DEF Attaching
  <2>2. stream[s].pc = "asked" /\ s \notin hub.table
    BY <1>0, <1>3 DEF attach, HubOK
  <2>3. CASE hub' = [holder |-> h, table |-> {}] /\ stream' = close(hub.table)
    <3>1. stream' \in [Streams -> Connection] /\ stream'[s].pc = "asked"
      BY <1>0, <2>2, <2>3, CloseOK, SMT
    <3> HIDE DEF h
    <3> QED BY <2>1, <2>3, <3>1 DEF HubOK
  <2>4. CASE hub' = [hub EXCEPT !.table = {}] /\ stream' = close(hub.table \cup {s})
    <3>1. hub.holder.op = "none"
      BY <1>3, <1>a DEF attach
    <3>2. stream' \in [Streams -> Connection]
      BY <1>0, <2>4, CloseOK
    <3> QED BY <1>0, <2>4, <3>1, <3>2 DEF HubOK
  <2> QED BY <1>3, <2>3, <2>4 DEF attach
<1>4. CASE push_entry
  <2> DEFINE s == hub.holder.stream
             told == [pc |-> "attached", reading |-> TRUE,
                      events |-> Append(stream[s].events, hub.holder.line)]
  <2>1. s \in Streams /\ hub.holder.line \in Identity /\ hub.table = {}
    BY <1>0, <1>4, HolderOK DEF push_entry, Attaching, HubOK
  <2>2. told \in Connection /\ told.pc = "attached"
    BY <1>0, <2>1, AppendOK
  <2>3. CASE stream[s].reading
    <3>1. stream' = [stream EXCEPT ![s] = told]
      BY <1>4, <2>3 DEF push_entry
    <3>2. hub' = [holder |-> Nobody, table |-> {s}]
      BY <1>4, <2>1, <2>3 DEF push_entry
    <3> HIDE DEF told, s
    <3> QED BY <1>0, <1>a, <2>1, <2>2, <3>1, <3>2 DEF HubOK
  <2>4. CASE ~ stream[s].reading
    <3>1. stream' = close({s}) /\ hub' = [hub EXCEPT !.holder = Nobody]
      BY <1>4, <2>4 DEF push_entry
    <3>2. stream' \in [Streams -> Connection]
      BY <1>0, <3>1, CloseOK
    <3> QED BY <1>0, <1>a, <2>1, <3>1, <3>2 DEF HubOK
  <2> QED BY <2>3, <2>4
<1>5. CASE restart
  <2>1. PICK backlog : stream' = close({s \in Streams \ backlog : stream[s].pc \in {"asked", "attached"}})
    BY <1>5 DEF restart
  <2>2. stream' \in [Streams -> Connection]
    BY <1>0, <2>1, CloseOK
  <2> QED BY <1>5, <1>a, <2>2 DEF restart, HubOK
<1>6. CASE subscribe
  <2>1. CASE UNCHANGED <<stream, hub>>
    BY <1>0, <2>1 DEF HubOK
  <2>2. ASSUME NEW s \in Streams, stream[s].pc = "none",
               stream' = [stream EXCEPT ![s] = [pc |-> "asked", reading |-> TRUE, events |-> <<>>]],
               UNCHANGED hub
        PROVE  HubOK'
    <3>1. [pc |-> "asked", reading |-> TRUE, events |-> <<>>] \in Connection
      BY SMT DEF Connection
    <3>2. hub.holder.op = "attach" => hub.holder.stream \in Streams
      BY <1>0, HolderOK DEF Attaching
    <3> QED BY <1>0, <2>2, <3>1, <3>2 DEF HubOK
  <2> QED BY <1>6, <2>1, <2>2 DEF subscribe
<1>7. CASE read_event \/ lose_stream
  <2> DEFINE x == sub.stream
  <2>1. x \in Streams
    BY <1>0, <1>7 DEF ThreadOK, read_event, lose_stream
  <2>2. PICK c : stream' = [stream EXCEPT ![x] = c] /\ c \in Connection /\ c.pc = stream[x].pc
    <3>1. CASE read_event
      <4>1. stream[x].events \in Seq(Identity) /\ Tail(stream[x].events) \in Seq(Identity)
        BY <1>0, <2>1, <3>1, SMT DEF read_event, Connection
      <4>2. stream' = [stream EXCEPT ![x] = [stream[x] EXCEPT !.events = Tail(stream[x].events)]]
        BY <3>1 DEF read_event
      <4>3. /\ [stream[x] EXCEPT !.events = Tail(stream[x].events)] \in Connection
            /\ [stream[x] EXCEPT !.events = Tail(stream[x].events)].pc = stream[x].pc
        BY <1>0, <2>1, <4>1 DEF Connection
      <4> QED BY <4>2, <4>3
    <3>2. CASE lose_stream
      <4>1. stream' = [stream EXCEPT ![x] = [stream[x] EXCEPT !.reading = FALSE]]
        BY <3>2 DEF lose_stream
      <4>2. /\ [stream[x] EXCEPT !.reading = FALSE] \in Connection
            /\ [stream[x] EXCEPT !.reading = FALSE].pc = stream[x].pc
        BY <1>0, <2>1 DEF Connection
      <4> QED BY <4>1, <4>2
    <3> QED BY <1>7, <3>1, <3>2
  <2>3. UNCHANGED hub
    BY <1>7 DEF read_event, lose_stream
  <2>4. hub.holder.op = "attach" => hub.holder.stream \in Streams
    BY <1>0, HolderOK DEF Attaching
  <2> QED BY <1>0, <2>1, <2>2, <2>3, <2>4 DEF HubOK
<1>8. ASSUME UNCHANGED <<stream, hub>> PROVE HubOK'
  BY <1>0, <1>8 DEF HubOK
<1>9. CASE lock \/ hello \/ observe \/ Ceremony
  BY <1>8, <1>9 DEF lock, hello, observe, Ceremony, redeem, authority_is_current, push_token,
                    insert_grant, refuse
<1>10. CASE (Running /\ UNCHANGED chain) \/ Time \/ UNCHANGED cvars
  BY <1>8, <1>10 DEF chain, cvars, Time
<1> QED BY <1>1, <1>2, <1>3, <1>4, <1>5, <1>6, <1>7, <1>9, <1>10 DEF CNext, Hub, Subscriber

-----------------------------------------------------------------------------
(***************************************************************************)
(* The chain implements the registry.  BrowserGrants lets any authority be *)
(* observed and anything be inserted while no other request is answered;   *)
(* that one ceremony runs at a time is what has to be shown.               *)
(***************************************************************************)
\* Only an insertion makes a request that is being answered.
LEMMA AnsweringShrinks ==
    ASSUME BGTypeOK, Running \/ Tick
    PROVE  Answering' \subseteq Answering /\ UNCHANGED authority
<1>1. ASSUME NEW i \in DOMAIN channel, NEW c, channel' = [channel EXCEPT ![i] = c],
             c.serve = "answering" => channel[i].serve = "answering"
      PROVE  Answering' \subseteq Answering
  BY <1>1 DEF BGTypeOK, Answering
<1>2. ASSUME NEW i \in DOMAIN channel
      PROVE  /\ [channel[i] EXCEPT !.serve = "done"].serve = "done"
             /\ [channel[i] EXCEPT !.serve = "serving", !.caller = "relay"].serve = "serving"
             /\ [channel[i] EXCEPT !.caller = "gone"].serve = channel[i].serve
             /\ [channel[i] EXCEPT !.shut = TRUE].serve = channel[i].serve
  BY DEF BGTypeOK, ControlChannel
<1>3. ASSUME UNCHANGED channel PROVE Answering' \subseteq Answering
  BY <1>3 DEF Answering
<1>4. ASSUME NEW i \in DOMAIN channel, answer(i) PROVE Answering' \subseteq Answering
  BY <1>1, <1>2, <1>4 DEF answer
<1>5. ASSUME NEW i \in DOMAIN channel, serve_ends(i) \/ watch(i) \/ caller_leaves(i)
      PROVE  Answering' \subseteq Answering
  <2>1. CASE serve_ends(i)
    <3>1. channel' = [channel EXCEPT ![i] = [channel[i] EXCEPT !.serve = "done"]]
      BY <2>1 DEF serve_ends
    <3>2. [channel[i] EXCEPT !.serve = "done"].serve # "answering"
      BY <1>2
    <3> QED
      BY <1>1, <3>1, <3>2
  <2>2. CASE watch(i) \/ caller_leaves(i)
    <3>1. channel' = [channel EXCEPT ![i] = [channel[i] EXCEPT !.caller = "gone"]]
      BY <2>2 DEF watch, caller_leaves
    <3>2. [channel[i] EXCEPT !.caller = "gone"].serve = channel[i].serve
      BY <1>2
    <3> QED
      BY <1>1, <3>1, <3>2
  <2> QED
    BY <1>5, <2>1, <2>2
<1>6. CASE end_control
  <2>1. PICK t \in teardown : \E j \in t.controls : channel' = [channel EXCEPT ![j].shut = TRUE]
    BY <1>6 DEF end_control
  <2>2. PICK i \in t.controls : channel' = [channel EXCEPT ![i] = [channel[i] EXCEPT !.shut = TRUE]]
    BY <2>1
  <2>3. i \in DOMAIN channel
    BY DEF BGTypeOK
  <2> QED BY <1>1, <1>2, <1>6, <2>2, <2>3 DEF end_control
<1>7. ASSUME NEW r \in Connections, Relay(r) PROVE UNCHANGED <<channel, authority>>
  BY <1>7 DEF Relay, receive, live, connect, register_pipe, pipe_ends, drop_guard, table
<1>8. ASSUME NEW i \in DOMAIN channel, Channel(i)
      PROVE  Answering' \subseteq Answering /\ UNCHANGED authority
  BY <1>3, <1>4, <1>5, <1>8 DEF Channel, answer, reap, serve_ends, watch, caller_leaves, table, ends
<1>9. CASE shutdown \/ end_control \/ Tick
  BY <1>3, <1>6, <1>9 DEF shutdown, end_control, Tick, ends
<1> QED BY <1>3, <1>7, <1>8, <1>9 DEF Running

\* What each step of the chain does to the registry.
LEMMA GrantsStep == CTypeOK /\ [CNext]_cvars => [BGNext]_bgvars
<1> SUFFICES ASSUME CTypeOK, [CNext]_cvars PROVE [BGNext]_bgvars
  OBVIOUS
<1>1. ASSUME lose_authority \/ cannot_connect PROVE [BGNext]_bgvars
  BY <1>1 DEF lose_authority, cannot_connect, BGNext, Authority
<1>2. CASE observe
  BY <1>2, IdentityIsAuthority DEF observe, CTypeOK, ThreadOK, BGNext, Authority
<1>3. CASE read_event
  <2> DEFINE events == stream[sub.stream].events
  <2>1. events \in Seq(Identity) /\ events # <<>>
    BY <1>3 DEF read_event, CTypeOK, ThreadOK, HubOK, Connection
  <2>2. Head(events) \in Authorities
    BY <2>1, IdentityIsAuthority, SMT
  <2>3. observe_authority(Head(events))
    BY <1>3 DEF read_event
  <2> QED BY <2>2, <2>3 DEF BGNext, Authority
<1>4. CASE insert_grant
  <2>1. ceremony.authority \in Authorities /\ Answering = {}
    BY <1>4, IdentityIsAuthority, SMT DEF insert_grant, CTypeOK, CeremonyOK, Request, NoCeremony
  <2> QED BY <1>4, <2>1 DEF insert_grant, BGNext, Insertion
<1>5. CASE hello \/ subscribe \/ lose_stream
  BY <1>1, <1>5 DEF hello, subscribe, lose_stream
<1>6. CASE lock \/ restart \/ Hub
  BY <1>6 DEF lock, restart, Hub, publish_current, heartbeat, write_lines, push_entry, attach
<1>7. CASE redeem \/ authority_is_current \/ push_token \/ refuse
  BY <1>7 DEF redeem, authority_is_current, push_token, refuse
<1>8. CASE (Running /\ UNCHANGED chain) \/ Time \/ UNCHANGED cvars
  BY <1>8 DEF Time, cvars, BGNext
<1> QED BY <1>2, <1>3, <1>4, <1>5, <1>6, <1>7, <1>8 DEF CNext, Subscriber, Ceremony

\* One request is answered at a time.
LEMMA CeremonyStep == CTypeOK /\ [CNext]_cvars => CeremonyOK'
<1> SUFFICES ASSUME CTypeOK, [CNext]_cvars PROVE CeremonyOK'
  OBVIOUS
<1>0. CeremonyOK /\ broker \in Identity
  BY DEF CTypeOK, BrokerOK
<1>1. ASSUME UNCHANGED ceremony, Answering' \subseteq Answering PROVE CeremonyOK'
  BY <1>0, <1>1 DEF CeremonyOK
<1>2. ASSUME UNCHANGED channel PROVE Answering' = Answering
  BY <1>2 DEF Answering
<1>3. CASE (Running /\ UNCHANGED chain) \/ Time
  BY <1>1, <1>3, AnsweringShrinks DEF CTypeOK, chain, Time
<1>4. CASE Subscriber \/ lose_stream
  <2>1. UNCHANGED <<channel, ceremony>>
    BY <1>4 DEF Subscriber, hello, observe, subscribe, read_event, lose_stream, lose_authority,
                cannot_connect, observe_authority, invalidate_authority, ends, bgvars
  <2> QED BY <1>1, <1>2, <2>1
<1>5. CASE lock \/ restart \/ Hub \/ UNCHANGED cvars
  <2>1. UNCHANGED <<channel, ceremony>>
    BY <1>5 DEF lock, restart, Hub, publish_current, heartbeat, write_lines, push_entry, attach,
                bgvars, cvars, chain
  <2> QED BY <1>1, <1>2, <2>1
<1>6. CASE redeem
  <2>1. [pc |-> "redeemed", authority |-> broker] \in Request
    BY <1>0 DEF Request
  <2> QED BY <1>2, <1>6, <2>1 DEF redeem, CeremonyOK, bgvars
<1>7. CASE authority_is_current \/ push_token
  <2>1. PICK to \in {"checked", "pushed", "rechecked"} :
          ceremony' = [ceremony EXCEPT !.pc = to] /\ ceremony.pc # "idle"
    BY <1>7 DEF authority_is_current, push_token, advance
  <2>2. ceremony \in Request
    BY <1>0, <2>1, SMT DEF CeremonyOK, NoCeremony
  <2>3. ceremony' \in Request
    BY <2>1, <2>2 DEF Request
  <2>4. UNCHANGED channel
    BY <1>7 DEF authority_is_current, push_token, bgvars
  <2> QED BY <1>0, <1>2, <2>1, <2>3, <2>4 DEF CeremonyOK
<1>8. CASE insert_grant \/ refuse
  BY <1>8, SMT DEF insert_grant, refuse, CeremonyOK, NoCeremony
<1> QED BY <1>3, <1>4, <1>5, <1>6, <1>7, <1>8 DEF CNext, Ceremony

\* The state of the chain keeps its type in every run of CSpec.
THEOREM ChainTypeCorrect == CSpec => []CTypeOK
<1>1. CInit => CTypeOK
  <2> SUFFICES ASSUME CInit PROVE CTypeOK
    OBVIOUS
  <2>1. BGTypeOK
    BY SMT DEF CInit, BGInit, BGTypeOK, Ids, NoRelay, RelayOne, granted
  <2>2. BrokerOK
    BY ChainConstants, SMT DEF CInit, BrokerOK, Identity
  <2>3. HubOK
    <3>1. NoStream \in Connection
      BY SMT DEF NoStream, Connection
    <3>2. Nobody.op = "none"
      BY DEF Nobody
    <3> QED BY <3>1, <3>2 DEF CInit, HubOK
  <2>4. ThreadOK
    BY ChainConstants, SMT DEF CInit, ThreadOK, Thread
  <2>5. CeremonyOK
    BY DEF CInit, CeremonyOK, NoCeremony
  <2> QED BY <2>1, <2>2, <2>3, <2>4, <2>5 DEF CTypeOK
<1>2. CTypeOK /\ [CNext]_cvars => CTypeOK'
  BY TypeStep, GrantsStep, BrokerStep, HubStep, ThreadStep, CeremonyStep DEF CTypeOK
<1> QED BY <1>1, <1>2, PTL DEF CSpec

\* The chain implements the registry: every run of hub, subscription thread and
\* ceremony is, seen from the registry, a run of BrowserGrants.
THEOREM ChainImplementsGrants == CSpec => BGSpec
<1>1. CInit => BGInit
  BY DEF CInit
<1> QED BY <1>1, GrantsStep, ChainTypeCorrect, PTL DEF CSpec, BGSpec

\* Through the whole chain every grant stands under the authority observed last.
THEOREM ChainAuthorityIsFinal == CSpec => []GrantsUnderAuthority
BY ChainImplementsGrants, AuthorityIsFinal, PTL

-----------------------------------------------------------------------------
(***************************************************************************)
(* No LOCK is missed.  NoMissedLock speaks of a subscriber with nothing    *)
(* left to read; to be inductive it has to speak of what the subscriber    *)
(* will know once it has read everything, and of the line that a holder of *)
(* the hub's mutex is about to write.                                      *)
(***************************************************************************)
Reading == sub.pc = "reading" /\ sub.stream \in hub.table
Events == stream[sub.stream].events
WillKnow == IF Events = <<>> THEN authority ELSE Events[Len(Events)]

NothingMissed ==
    locking = {} => IF hub.holder = Nobody THEN Reading => WillKnow = broker
                                           ELSE hub.holder.line = broker

LEMMA MissedStep == CTypeOK /\ NothingMissed /\ [CNext]_cvars => NothingMissed'
<1> SUFFICES ASSUME CTypeOK, NothingMissed, [CNext]_cvars, locking' = {}
             PROVE  IF hub'.holder = Nobody THEN Reading' => WillKnow' = broker'
                                            ELSE hub'.holder.line = broker'
  BY DEF NothingMissed
<1>0. /\ HubOK /\ ThreadOK /\ stream \in [Streams -> Connection] /\ hub.table \subseteq Streams
      /\ hub \in [holder : {Nobody} \cup Publishing \cup Attaching, table : SUBSET Streams]
  BY DEF CTypeOK, HubOK
<1>a. Nobody.op = "none"
  BY DEF Nobody
<1>1. CASE lock
  BY <1>1 DEF lock
<1>2. CASE restart
  BY <1>2 DEF restart, Reading
<1>3. CASE publish_current \/ heartbeat
  <2> DEFINE h == [op |-> "publish", stream |-> 0, line |-> broker]
  <2>1. h.line = broker /\ h # Nobody
    BY DEF Nobody
  <2>2. hub'.holder = h /\ UNCHANGED broker
    BY <1>0, <1>3 DEF publish_current, heartbeat
  <2> HIDE DEF h
  <2> QED BY <2>1, <2>2
<1>4. CASE write_lines
  <2> DEFINE kept == {s \in hub.table : stream[s].reading /\ Len(stream[s].events) < WireCapacity}
             told(s) == [stream[s] EXCEPT !.events = Append(@, hub.holder.line)]
  <2>1. hub.holder.line \in Identity /\ hub.holder # Nobody
    BY <1>0, <1>4, <1>a, HolderOK DEF write_lines, Publishing
  <2>2. hub.holder.line = broker /\ UNCHANGED <<broker, sub, authority>>
    BY <1>4, <2>1 DEF write_lines, NothingMissed, bgvars
  <2>3. \A s \in Streams : told(s).events = Append(stream[s].events, hub.holder.line)
    BY <1>0, <2>1, AppendOK
  <2>4. /\ stream' = [s \in Streams |-> IF s \in kept THEN told(s) ELSE close(hub.table)[s]]
        /\ hub' = [holder |-> Nobody, table |-> kept]
    BY <1>4 DEF write_lines
  <2>5. kept \subseteq Streams
    BY <1>0
  <2> HIDE DEF kept, told
  <2>6. ASSUME Reading' PROVE WillKnow' = broker
    <3>1. sub.stream \in kept /\ sub.stream \in Streams
      BY <2>2, <2>4, <2>5, <2>6 DEF Reading
    <3>2. Events' = Append(Events, hub.holder.line)
      BY <2>2, <2>3, <2>4, <3>1 DEF Events
    <3>3. Events \in Seq(Identity)
      BY <1>0, <3>1 DEF Events, Connection
    <3> QED BY <2>1, <2>2, <3>2, <3>3, SMT DEF WillKnow
  <2> QED BY <2>2, <2>4, <2>6
<1>5. ASSUME NEW s \in Streams, attach(s)
      PROVE  IF hub'.holder = Nobody THEN Reading' => WillKnow' = broker'
                                     ELSE hub'.holder.line = broker'
  <2> DEFINE h == [op |-> "attach", stream |-> s, line |-> broker]
  <2>1. h.line = broker /\ h # Nobody
    BY DEF Nobody
  <2>2. UNCHANGED broker /\ hub'.table = {}
    BY <1>0, <1>5, SMT DEF attach
  <2>3. hub'.holder = h \/ hub'.holder = Nobody
    BY <1>0, <1>5, SMT DEF attach
  <2> HIDE DEF h
  <2> QED BY <2>1, <2>2, <2>3 DEF Reading
<1>6. CASE push_entry
  <2> DEFINE s == hub.holder.stream
  <2>1. s \in Streams /\ hub.holder.line \in Identity /\ hub.holder # Nobody /\ hub.table = {}
    BY <1>0, <1>6, <1>a, HolderOK DEF push_entry, Attaching, HubOK
  <2>2. hub.holder.line = broker /\ UNCHANGED <<broker, sub, authority>>
    BY <1>6, <2>1 DEF push_entry, NothingMissed, bgvars
  <2>3. hub'.holder = Nobody
    BY <1>0, <1>6, SMT DEF push_entry
  <2>4. CASE stream[s].reading
    <3>1. hub'.table = {s}
      BY <1>6, <2>1, <2>4, SMT DEF push_entry
    <3>2. stream'[s].events = Append(stream[s].events, hub.holder.line)
      BY <1>0, <1>6, <2>1, <2>4, SMT DEF push_entry
    <3>3. stream[s].events \in Seq(Identity)
      BY <1>0, <2>1 DEF Connection
    <3>4. ASSUME Reading' PROVE WillKnow' = broker
      <4>1. sub.stream = s
        BY <2>2, <3>1, <3>4 DEF Reading
      <4>2. Events' = Append(stream[s].events, hub.holder.line)
        BY <2>2, <3>2, <4>1 DEF Events
      <4>3. Events' # <<>> /\ Events'[Len(Events')] = hub.holder.line
        <5> DEFINE q == stream[s].events
                   x == hub.holder.line
        <5>1. q \in Seq(Identity) /\ x \in Identity
          BY <2>1, <3>3
        <5>2. Events' = Append(q, x)
          BY <4>2
        <5> HIDE DEF q, s
        <5>3. Append(q, x) # <<>> /\ Append(q, x)[Len(Append(q, x))] = x
          BY <5>1, LastOfAppend
        <5> QED BY <5>2, <5>3
      <4> QED BY <2>2, <4>3 DEF WillKnow
    <3> QED BY <2>2, <2>3, <3>4
  <2>5. CASE ~ stream[s].reading
    BY <1>0, <1>6, <2>1, <2>5 DEF push_entry, Reading
  <2> QED BY <2>4, <2>5
<1>7. ASSUME UNCHANGED <<broker, locking, hub>>, Reading' => Reading /\ WillKnow' = WillKnow
      PROVE  IF hub'.holder = Nobody THEN Reading' => WillKnow' = broker'
                                     ELSE hub'.holder.line = broker'
  BY <1>7 DEF NothingMissed
<1>8. CASE read_event
  <2>1. sub.stream \in Streams /\ Events \in Seq(Identity) /\ Events # <<>>
    BY <1>0, <1>8 DEF read_event, ThreadOK, Events, Connection
  <2>2. UNCHANGED <<broker, locking, hub, sub>> /\ authority' = Head(Events)
    BY <1>8 DEF read_event, observe_authority, Events
  <2>3. stream' = [stream EXCEPT ![sub.stream] = [stream[sub.stream] EXCEPT !.events = Tail(Events)]]
    BY <1>8 DEF read_event, Events
  <2>4. [stream[sub.stream] EXCEPT !.events = Tail(Events)].events = Tail(Events)
    BY <1>0, <2>1 DEF Connection
  <2>5. Events' = Tail(Events)
    BY <1>0, <2>1, <2>2, <2>3, <2>4 DEF Events
  <2>6. WillKnow' = WillKnow
    <3>1. IF Tail(Events) = <<>> THEN Events[Len(Events)] = Head(Events)
                                 ELSE Tail(Events)[Len(Tail(Events))] = Events[Len(Events)]
      BY <2>1, LastOfTail
    <3> QED BY <2>1, <2>2, <2>5, <3>1 DEF WillKnow
  <2> QED BY <1>7, <2>2, <2>6 DEF Reading
<1>9. CASE hello \/ observe \/ lose_stream
  <2>1. UNCHANGED <<broker, locking, hub>> /\ sub'.pc # "reading"
    BY <1>0, <1>9 DEF hello, observe, lose_stream, lose_authority, cannot_connect, ThreadOK, Thread
  <2> QED BY <1>7, <2>1 DEF Reading
<1>10. CASE subscribe
  <2>1. UNCHANGED <<broker, locking, hub>>
    BY <1>10 DEF subscribe
  <2>2. ASSUME NEW s \in Streams, stream[s].pc = "none",
               sub' = [sub EXCEPT !.pc = "reading", !.stream = s]
        PROVE  ~ Reading'
    <3>1. sub'.stream = s
      BY <1>0, <2>2 DEF ThreadOK, Thread
    <3> QED BY <1>0, <2>1, <2>2, <3>1 DEF Reading, HubOK
  <2>3. ASSUME lose_authority \/ cannot_connect PROVE ~ Reading'
    BY <1>0, <2>3 DEF lose_authority, cannot_connect, ThreadOK, Thread, Reading
  <2> QED BY <1>7, <1>10, <2>1, <2>2, <2>3 DEF subscribe
<1>11. ASSUME UNCHANGED <<broker, locking, hub, stream, authority>>,
              sub'.pc = sub.pc, sub'.stream = sub.stream
       PROVE  IF hub'.holder = Nobody THEN Reading' => WillKnow' = broker'
                                      ELSE hub'.holder.line = broker'
  BY <1>7, <1>11 DEF Reading, WillKnow, Events
<1>12. CASE Ceremony
  BY <1>11, <1>12 DEF Ceremony, redeem, authority_is_current, push_token, insert_grant, refuse,
                      insert_if_authority, bgvars
<1>13. CASE (Running /\ UNCHANGED chain) \/ UNCHANGED cvars
  BY <1>11, <1>13, AnsweringShrinks DEF chain, cvars, bgvars, CTypeOK
<1>14. CASE Time
  BY <1>0, <1>11, <1>14, AnsweringShrinks DEF Time, CTypeOK, ThreadOK, Thread
<1> QED BY <1>1, <1>2, <1>3, <1>4, <1>5, <1>6, <1>8, <1>9, <1>10, <1>12, <1>13, <1>14
        DEF CNext, Hub, Subscriber

\* No LOCK is missed: when every LOCK has published and nobody holds the hub,
\* an attached subscriber that has read all its events has observed the broker's
\* current authority.
THEOREM NoLockIsMissed == CSpec => []NoMissedLock
<1>1. CInit => NothingMissed
  BY SMT DEF CInit, NothingMissed, Reading
<1>2. NothingMissed => NoMissedLock
  BY DEF NothingMissed, NoMissedLock, Reading, WillKnow, Events
<1> QED BY <1>1, <1>2, MissedStep, ChainTypeCorrect, PTL DEF CSpec
-----------------------------------------------------------------------------
(***************************************************************************)
(* Observations are ordered.  The subscriber observes what it reads, so    *)
(* what has to be known is everything that it may still read: the events   *)
(* on its stream are sorted and none is older than what it observed last,  *)
(* the line in the hands of the hub's holder is no older than any event on *)
(* the streams it goes to, and nothing is newer than the broker.  A stream *)
(* that is not attached carries nothing, which is why a stream left behind *)
(* cannot deliver to the next.                                             *)
(***************************************************************************)
Sorted(q) == \A i, j \in 1..Len(q) : i <= j => Older(q[i], q[j])
Below(q, a) == \A i \in 1..Len(q) : Older(q[i], a)
Above(q, a) == \A i \in 1..Len(q) : Older(a, q[i])

AuthorityOrder == authority # None => authority \in Identity /\ Older(authority, broker)

StreamOrder ==
    \A s \in Streams :
        /\ Sorted(stream[s].events) /\ Below(stream[s].events, broker)
        /\ stream[s].pc \in {"none", "asked"} => stream[s].events = <<>>

HolderOrder ==
    hub.holder.op # "none" =>
        /\ Older(hub.holder.line, broker)
        /\ \A s \in hub.table : Below(stream[s].events, hub.holder.line)

\* The holder of the hub's mutex is about to write to this stream.
Told(s) == s \in hub.table \/ (hub.holder.op = "attach" /\ hub.holder.stream = s)

ReadOrder ==
    sub.pc = "reading" /\ authority # None =>
        /\ Above(stream[sub.stream].events, authority)
        /\ hub.holder.op # "none" /\ Told(sub.stream) => Older(authority, hub.holder.line)

SeenOrder ==
    sub.pc = "observe" =>
        /\ Older(sub.seen, broker)
        /\ authority # None => Older(authority, sub.seen)

OrderInv == AuthorityOrder /\ StreamOrder /\ HolderOrder /\ ReadOrder /\ SeenOrder

\* Older is a reflexive and transitive order of the broker's identities.
LEMMA OlderOrders ==
    /\ \A a \in Identity : Older(a, a)
    /\ \A a, b, c \in Identity : Older(a, b) /\ Older(b, c) => Older(a, c)
BY ChainConstants, SMT DEF Older, Identity

\* A newer line at the end of a stream.
LEMMA AppendOrder ==
    ASSUME NEW q \in Seq(Identity), NEW x \in Identity, Sorted(q), Below(q, x)
    PROVE  /\ Sorted(Append(q, x))
           /\ \A b \in Identity : Below(q, b) /\ Older(x, b) => Below(Append(q, x), b)
           /\ \A a \in Identity : Above(q, a) /\ Older(a, x) => Above(Append(q, x), a)
<1> DEFINE r == Append(q, x)
<1>1. /\ Len(q) \in Nat /\ Len(r) = Len(q) + 1 /\ r[Len(r)] = x
      /\ \A i \in 1..Len(q) : r[i] = q[i]
  BY SMT
<1>2. Older(x, x)
  BY OlderOrders
<1>3. \A i \in 1..Len(r) : i \in 1..Len(q) \/ i = Len(r)
  BY <1>1, SMT
<1> HIDE DEF r
<1>4. Sorted(r)
  BY <1>1, <1>2, <1>3, SMT DEF Sorted, Below
<1>5. \A b \in Identity : Below(q, b) /\ Older(x, b) => Below(r, b)
  BY <1>1, <1>3 DEF Below
<1>6. \A a \in Identity : Above(q, a) /\ Older(a, x) => Above(r, a)
  BY <1>1, <1>3 DEF Above
<1> QED
  BY <1>4, <1>5, <1>6 DEF r

\* The first event of a sorted stream is the oldest.
LEMMA TailOrder ==
    ASSUME NEW q \in Seq(Identity), q # <<>>, Sorted(q)
    PROVE  /\ Head(q) \in Identity
           /\ Sorted(Tail(q)) /\ Above(Tail(q), Head(q))
           /\ \A b \in Identity : Below(q, b) => Below(Tail(q), b) /\ Older(Head(q), b)
<1>1. Len(q) \in Nat \ {0} /\ Len(Tail(q)) = Len(q) - 1 /\ Head(q) \in Identity
  BY HeadTailProperties, EmptySeq
<1>2. \A i \in 1..Len(Tail(q)) : Tail(q)[i] = q[i + 1] /\ i + 1 \in 1..Len(q)
  BY <1>1, HeadTailProperties, SMT
<1>3. Head(q) = q[1] /\ 1 \in 1..Len(q)
  BY <1>1, SMT
<1>4. Sorted(Tail(q))
  BY <1>1, <1>2, SMT DEF Sorted
<1>5. Above(Tail(q), Head(q))
  BY <1>1, <1>2, <1>3, SMT DEF Sorted, Above
<1>6. \A b \in Identity : Below(q, b) => Below(Tail(q), b) /\ Older(Head(q), b)
  BY <1>2, <1>3 DEF Below
<1> QED
  BY <1>1, <1>4, <1>5, <1>6

\* A newer authority of the broker: what was ordered below the old one is
\* ordered below the new one, and the hub goes on or starts afresh.
LEMMA BrokerKeepsOrder ==
    ASSUME CTypeOK, OrderInv, lock \/ restart, BrokerOK'
    PROVE  OrderInv'
<1>0. /\ broker \in Identity /\ broker' \in Identity /\ stream \in [Streams -> Connection]
      /\ hub \in [holder : {Nobody} \cup Publishing \cup Attaching, table : SUBSET Streams]
      /\ HubOK /\ ThreadOK
  BY DEF CTypeOK, BrokerOK, HubOK
<1>1. Older(broker, broker') /\ UNCHANGED <<authority, sub>>
  BY <1>0, SMT DEF lock, restart, Older, Identity, bgvars
<1>2. \A a \in Identity : Older(a, broker) => Older(a, broker')
  BY <1>0, <1>1, OlderOrders
<1>3. /\ \A s \in Streams : stream'[s].events = stream[s].events
      /\ \A s \in Streams : stream'[s].pc \in {"none", "asked"} => stream'[s].pc = stream[s].pc
  <2>1. CASE lock
    BY <2>1 DEF lock
  <2>2. CASE restart
    <3>1. PICK backlog :
            stream' = close({s \in Streams \ backlog : stream[s].pc \in {"asked", "attached"}})
      BY <2>2 DEF restart
    <3> QED BY <1>0, <3>1, CloseOK, SMT
  <2> QED BY <2>1, <2>2
<1>4. UNCHANGED hub \/ hub'.holder.op = "none"
  BY SMT DEF lock, restart, Nobody
<1>5. AuthorityOrder'
  BY <1>1, <1>2 DEF OrderInv, AuthorityOrder
<1>6. StreamOrder'
  <2>1. ASSUME NEW s \in Streams PROVE Below(stream[s].events, broker')
    <3>1. stream[s].events \in Seq(Identity) /\ Below(stream[s].events, broker)
      BY <1>0 DEF Connection, OrderInv, StreamOrder
    <3>2. \A i \in 1..Len(stream[s].events) : stream[s].events[i] \in Identity
      BY <3>1, SMT
    <3> QED BY <1>2, <3>1, <3>2 DEF Below
  <2> QED BY <1>3, <2>1 DEF OrderInv, StreamOrder
<1>7. HolderOrder'
  <2>1. hub.holder.op # "none" => hub.holder.line \in Identity
    BY <1>0, HolderOK DEF Nobody, Publishing, Attaching
  <2>2. hub.table \subseteq Streams
    BY <1>0
  <2> QED BY <1>2, <1>3, <1>4, <2>1, <2>2 DEF OrderInv, HolderOrder
<1>8. ReadOrder'
  <2>1. sub.pc = "reading" => sub.stream \in Streams
    BY <1>0 DEF ThreadOK
  <2> QED BY <1>1, <1>3, <1>4, <2>1 DEF OrderInv, ReadOrder, Told
<1>9. SeenOrder'
  <2>1. sub.pc = "observe" => sub.seen \in Identity
    BY <1>0 DEF ThreadOK
  <2> QED BY <1>1, <1>2, <2>1 DEF OrderInv, SeenOrder
<1> QED
  BY <1>5, <1>6, <1>7, <1>8, <1>9 DEF OrderInv

\* The hub: a line is read from the broker under the mutex, and written before
\* the mutex is given back.
LEMMA HubKeepsOrder ==
    ASSUME CTypeOK, OrderInv, Hub
    PROVE  OrderInv'
<1>0. /\ broker \in Identity /\ stream \in [Streams -> Connection]
      /\ hub \in [holder : {Nobody} \cup Publishing \cup Attaching, table : SUBSET Streams]
      /\ hub.table \subseteq Streams /\ HubOK /\ ThreadOK
      /\ UNCHANGED <<broker, authority, sub>>
  BY DEF CTypeOK, BrokerOK, HubOK, Hub, publish_current, heartbeat, write_lines, push_entry, attach,
         bgvars
<1>1. /\ AuthorityOrder' /\ SeenOrder'
      /\ sub.pc = "reading" => sub.stream \in Streams
      /\ Older(broker, broker)
      /\ \A s \in Streams : stream[s].events \in Seq(Identity) /\ Below(stream[s].events, broker)
  BY <1>0, OlderOrders DEF OrderInv, AuthorityOrder, SeenOrder, ThreadOK, StreamOrder, Connection
<1>2. CASE publish_current \/ heartbeat
  <2>1. UNCHANGED stream /\ hub'.table = hub.table /\ hub'.holder.line = broker
        /\ hub'.holder.op = "publish"
    BY <1>0, <1>2, SMT DEF publish_current, heartbeat
  <2>2. StreamOrder' /\ HolderOrder'
    BY <1>0, <1>1, <2>1 DEF OrderInv, StreamOrder, HolderOrder
  <2>3. ReadOrder'
    BY <1>0, <2>1 DEF OrderInv, ReadOrder, AuthorityOrder
  <2> QED BY <1>1, <2>2, <2>3 DEF OrderInv
<1>3. ASSUME NEW s \in Streams, attach(s) PROVE OrderInv'
  <2>1. /\ \A x \in Streams : stream'[x].events = stream[x].events
        /\ \A x \in Streams : stream'[x].pc \in {"none", "asked"} => stream'[x].pc = stream[x].pc
    BY <1>0, <1>3, CloseOK, SMT DEF attach
  <2>2. /\ hub'.table = {}
        /\ hub'.holder.op = "none" \/ hub'.holder.line = broker
    BY <1>0, <1>3, SMT DEF attach, Nobody
  <2>3. StreamOrder'
    BY <1>0, <2>1 DEF OrderInv, StreamOrder
  <2>4. HolderOrder'
    BY <1>0, <1>1, <2>2 DEF HolderOrder
  <2>5. ReadOrder'
    BY <1>0, <1>1, <2>1, <2>2 DEF OrderInv, ReadOrder, AuthorityOrder
  <2> QED BY <1>1, <2>3, <2>4, <2>5 DEF OrderInv
<1>4. CASE write_lines
  <2> DEFINE kept == {s \in hub.table : stream[s].reading /\ Len(stream[s].events) < WireCapacity}
             told(s) == [stream[s] EXCEPT !.events = Append(@, hub.holder.line)]
             line == hub.holder.line
  <2>1. line \in Identity /\ hub.holder.op = "publish"
    BY <1>0, <1>4, HolderOK DEF write_lines, Publishing
  <2>2. \A s \in Streams : told(s).events = Append(stream[s].events, line) /\ told(s).pc = stream[s].pc
    BY <1>0, <2>1, AppendOK
  <2>3. /\ stream' = [s \in Streams |-> IF s \in kept THEN told(s) ELSE close(hub.table)[s]]
        /\ hub' = [holder |-> Nobody, table |-> kept]
    BY <1>4 DEF write_lines
  <2>4. kept \subseteq hub.table
    OBVIOUS
  <2> HIDE DEF kept, told, line
  <2>5. \A s \in kept : stream'[s].events = Append(stream[s].events, line) /\ stream'[s].pc = stream[s].pc
    BY <1>0, <2>2, <2>3, <2>4
  <2>6. \A s \in Streams \ kept :
          /\ stream'[s].events = stream[s].events
          /\ stream'[s].pc \in {"none", "asked"} => stream'[s].pc = stream[s].pc
    BY <1>0, <2>3, CloseOK, SMT
  <2>7. hub'.holder.op = "none"
    BY <2>3 DEF Nobody
  <2>8. \A s \in kept : /\ Sorted(stream[s].events) /\ Below(stream[s].events, line)
                        /\ stream[s].pc = "attached"
    BY <1>0, <2>1, <2>4 DEF OrderInv, StreamOrder, HolderOrder, HubOK, line
  <2>9. Older(line, broker)
    BY <2>1 DEF OrderInv, HolderOrder, line
  <2>10. ASSUME NEW s \in kept
         PROVE  /\ Sorted(stream'[s].events) /\ Below(stream'[s].events, broker)
                /\ \A a \in Identity : Above(stream[s].events, a) /\ Older(a, line)
                                         => Above(stream'[s].events, a)
    <3>1. stream[s].events \in Seq(Identity) /\ Below(stream[s].events, broker)
      BY <1>0, <1>1, <2>4
    <3> QED BY <1>0, <2>1, <2>5, <2>8, <2>9, <3>1, AppendOrder
  <2>11. StreamOrder'
    BY <1>0, <2>5, <2>6, <2>8, <2>10 DEF OrderInv, StreamOrder
  <2>12. ReadOrder'
    <3> SUFFICES ASSUME sub.pc = "reading", authority # None
                 PROVE  Above(stream'[sub.stream].events, authority)
      BY <1>0, <2>7 DEF ReadOrder
    <3>1. CASE sub.stream \in kept
      <4>1. Above(stream[sub.stream].events, authority) /\ Older(authority, line)
        BY <2>1, <2>4, <3>1 DEF OrderInv, ReadOrder, Told, line
      <4>2. authority \in Identity
        BY DEF OrderInv, AuthorityOrder
      <4> QED BY <2>10, <3>1, <4>1, <4>2
    <3>2. CASE sub.stream \notin kept
      BY <1>1, <2>6, <3>2 DEF OrderInv, ReadOrder
    <3> QED BY <3>1, <3>2
  <2> QED BY <1>1, <2>7, <2>11, <2>12 DEF OrderInv, HolderOrder
<1>5. CASE push_entry
  <2> DEFINE s == hub.holder.stream
             line == hub.holder.line
  <2>1. s \in Streams /\ line \in Identity /\ hub.holder.op = "attach" /\ stream[s].pc = "asked"
    BY <1>0, <1>5, HolderOK DEF push_entry, Attaching, HubOK
  <2>2. hub'.holder.op = "none"
    BY <1>0, <1>5, SMT DEF push_entry, Nobody
  <2>3. stream[s].events = <<>> /\ Older(line, broker)
    BY <2>1 DEF OrderInv, StreamOrder, HolderOrder
  <2>4. CASE stream[s].reading
    <3>1. stream' = [stream EXCEPT ![s] = [pc |-> "attached", reading |-> TRUE,
                                           events |-> Append(stream[s].events, line)]]
      BY <1>5, <2>4 DEF push_entry
    <3>2. /\ stream'[s].pc = "attached" /\ stream'[s].events = Append(stream[s].events, line)
          /\ \A x \in Streams \ {s} : stream'[x] = stream[x]
      BY <1>0, <2>1, <3>1
    <3>3. Sorted(stream[s].events) /\ Below(stream[s].events, line) /\ Above(stream[s].events, authority)
      BY <2>3, SMT DEF Sorted, Below, Above
    <3> HIDE DEF s, line
    <3>4. /\ Sorted(stream'[s].events) /\ Below(stream'[s].events, broker)
          /\ \A a \in Identity : Above(stream[s].events, a) /\ Older(a, line)
                                   => Above(stream'[s].events, a)
      <4>1. stream[s].events \in Seq(Identity) /\ Below(stream[s].events, broker)
        BY <1>1, <2>1
      <4> QED BY <1>0, <2>1, <2>3, <3>2, <3>3, <4>1, AppendOrder
    <3>5. StreamOrder'
      BY <1>0, <3>2, <3>4 DEF OrderInv, StreamOrder
    <3>6. ReadOrder'
      <4> SUFFICES ASSUME sub.pc = "reading", authority # None
                   PROVE  Above(stream'[sub.stream].events, authority)
        BY <1>0, <2>2 DEF ReadOrder
      <4>1. CASE sub.stream = s
        <5>1. Older(authority, line) /\ authority \in Identity
          BY <2>1, <4>1 DEF OrderInv, ReadOrder, Told, AuthorityOrder, s, line
        <5> QED BY <3>3, <3>4, <4>1, <5>1
      <4>2. CASE sub.stream # s
        BY <1>1, <3>2, <4>2 DEF OrderInv, ReadOrder
      <4> QED BY <4>1, <4>2
    <3> QED BY <1>1, <2>2, <3>5, <3>6 DEF OrderInv, HolderOrder
  <2>5. CASE ~ stream[s].reading
    <3>1. stream' = close({s})
      BY <1>5, <2>5 DEF push_entry
    <3>2. \A x \in Streams :
            /\ stream'[x].events = stream[x].events
            /\ stream'[x].pc \in {"none", "asked"} => stream'[x].pc = stream[x].pc
      BY <1>0, <3>1, CloseOK, SMT
    <3> QED BY <1>0, <1>1, <2>2, <3>2 DEF OrderInv, StreamOrder, HolderOrder, ReadOrder
  <2> QED BY <2>4, <2>5
<1> QED
  BY <1>2, <1>3, <1>4, <1>5 DEF Hub

\* The subscription thread: it observes the oldest event that it has not read,
\* or the identity that it asked for before it had a stream.
LEMMA SubscriberKeepsOrder ==
    ASSUME CTypeOK, OrderInv, Subscriber \/ lose_stream
    PROVE  OrderInv' /\ (authority # None /\ authority' # None => Older(authority, authority'))
<1>0. /\ broker \in Identity /\ stream \in [Streams -> Connection] /\ sub \in Thread
      /\ hub.table \subseteq Streams /\ HubOK /\ ThreadOK
      /\ UNCHANGED <<broker, hub>> /\ Older(broker, broker)
  BY OlderOrders DEF CTypeOK, BrokerOK, HubOK, ThreadOK, Subscriber, lose_stream, hello, observe,
                     subscribe, read_event
<1>1. authority # None => authority \in Identity /\ Older(authority, authority)
  BY OlderOrders DEF OrderInv, AuthorityOrder
<1>2. ASSUME \A s \in Streams : stream'[s].events = stream[s].events /\ stream'[s].pc = stream[s].pc
      PROVE  StreamOrder' /\ HolderOrder'
  BY <1>0, <1>2 DEF OrderInv, StreamOrder, HolderOrder
<1>3. ASSUME \A s \in Streams : stream'[s].events = stream[s].events /\ stream'[s].pc = stream[s].pc,
             authority' \in {authority, None}, sub'.pc = "hello"
      PROVE  OrderInv' /\ (authority # None /\ authority' # None => Older(authority, authority'))
  BY <1>0, <1>1, <1>2, <1>3 DEF OrderInv, AuthorityOrder, ReadOrder, SeenOrder
<1>4. ASSUME lose_authority \/ cannot_connect
      PROVE  authority' \in {authority, None} /\ sub'.pc = "hello"
  BY <1>0, <1>4 DEF lose_authority, cannot_connect, invalidate_authority, bgvars, Thread
<1>5. CASE hello
  <2>1. CASE lose_authority \/ cannot_connect
    BY <1>3, <1>4, <1>5, <2>1 DEF hello
  <2>2. CASE sub' = [sub EXCEPT !.pc = "observe", !.seen = broker] /\ UNCHANGED bgvars
    <3>1. sub'.pc = "observe" /\ sub'.seen = broker /\ UNCHANGED <<authority, stream>>
      BY <1>0, <1>5, <2>2 DEF hello, Thread, bgvars
    <3> QED BY <1>0, <1>1, <1>2, <3>1 DEF OrderInv, AuthorityOrder, ReadOrder, SeenOrder
  <2> QED BY <1>5, <2>1, <2>2 DEF hello
<1>6. CASE observe
  <2>1. /\ sub.pc = "observe" /\ authority' = sub.seen /\ sub.seen \in Identity
        /\ sub'.pc = "subscribe" /\ UNCHANGED stream
    BY <1>0, <1>6 DEF observe, observe_authority, ThreadOK, Thread
  <2> QED BY <1>0, <1>2, <2>1 DEF OrderInv, AuthorityOrder, ReadOrder, SeenOrder
<1>7. CASE subscribe
  <2>1. CASE (lose_authority \/ cannot_connect) /\ UNCHANGED stream
    BY <1>3, <1>4, <2>1
  <2>2. ASSUME NEW s \in Streams, UNCHANGED bgvars, stream[s].pc = "none",
               stream' = [stream EXCEPT ![s] = [pc |-> "asked", reading |-> TRUE, events |-> <<>>]],
               sub' = [sub EXCEPT !.pc = "reading", !.stream = s]
        PROVE  OrderInv' /\ (authority # None /\ authority' # None => Older(authority, authority'))
    <3>1. /\ stream'[s].events = <<>> /\ stream'[s].pc = "asked"
          /\ \A x \in Streams \ {s} : stream'[x] = stream[x]
      BY <1>0, <2>2
    <3>2. UNCHANGED authority /\ sub'.pc = "reading" /\ sub'.stream = s
      BY <1>0, <2>2 DEF bgvars, Thread
    <3>3. s \notin hub.table /\ ~ (hub.holder.op = "attach" /\ hub.holder.stream = s)
      BY <1>0, <2>2 DEF HubOK
    <3>4. stream[s].events = <<>>
      BY <2>2 DEF OrderInv, StreamOrder
    <3>5. StreamOrder' /\ HolderOrder'
      <4>1. \A x \in Streams : stream'[x].events = stream[x].events
        BY <3>1, <3>4
      <4>2. \A x \in Streams : stream'[x].pc \in {"none", "asked"} => stream[x].pc \in {"none", "asked"}
        BY <2>2, <3>1
      <4> QED BY <1>0, <4>1, <4>2 DEF OrderInv, StreamOrder, HolderOrder
    <3>6. Above(stream'[s].events, authority)
      BY <3>1, SMT DEF Above
    <3>7. ReadOrder'
      BY <1>0, <3>2, <3>3, <3>6 DEF ReadOrder, Told
    <3> QED BY <1>0, <1>1, <3>2, <3>5, <3>7 DEF OrderInv, AuthorityOrder, SeenOrder
  <2> QED BY <1>7, <2>1, <2>2 DEF subscribe
<1>8. CASE read_event
  <2> DEFINE x == sub.stream
             q == stream[x].events
  <2>1. x \in Streams /\ q \in Seq(Identity) /\ q # <<>> /\ sub.pc = "reading"
    BY <1>0, <1>8 DEF read_event, ThreadOK, Connection
  <2>2. /\ UNCHANGED sub /\ authority' = Head(q)
        /\ stream' = [stream EXCEPT ![x] = [stream[x] EXCEPT !.events = Tail(q)]]
    BY <1>8 DEF read_event, observe_authority
  <2>3. stream'[x].events = Tail(q) /\ stream'[x].pc = stream[x].pc
        /\ \A s \in Streams \ {x} : stream'[s] = stream[s]
    BY <1>0, <2>1, <2>2 DEF Connection
  <2>4. Sorted(q) /\ Below(q, broker) /\ stream[x].pc \notin {"none", "asked"}
    BY <2>1 DEF OrderInv, StreamOrder
  <2>5. authority # None => Older(authority, Head(q))
    <3>1. authority # None => Above(q, authority)
      BY <2>1 DEF OrderInv, ReadOrder
    <3>2. Head(q) = q[1] /\ 1 \in 1..Len(q)
      BY <2>1, SMT
    <3> HIDE DEF q
    <3> QED BY <3>1, <3>2 DEF Above
  <2>6. hub.holder.op # "none" /\ x \in hub.table => Below(q, hub.holder.line) /\ hub.holder.line \in Identity
    BY <1>0, HolderOK DEF OrderInv, HolderOrder, HubOK, Nobody, Publishing, Attaching
  <2> HIDE DEF q
  <2>7. /\ Head(q) \in Identity /\ Sorted(Tail(q)) /\ Above(Tail(q), Head(q))
        /\ \A b \in Identity : Below(q, b) => Below(Tail(q), b) /\ Older(Head(q), b)
    BY <2>1, <2>4, TailOrder
  <2>8. AuthorityOrder'
    BY <1>0, <2>2, <2>4, <2>7 DEF AuthorityOrder
  <2>9. StreamOrder'
    BY <1>0, <2>1, <2>3, <2>4, <2>7 DEF OrderInv, StreamOrder
  <2>10. HolderOrder'
    BY <1>0, <2>1, <2>3, <2>6, <2>7 DEF OrderInv, HolderOrder, q
  <2>11. ReadOrder'
    <3>1. ~ (hub.holder.op = "attach" /\ hub.holder.stream = x)
      BY <1>0, <2>4 DEF HubOK
    <3> QED BY <1>0, <2>2, <2>3, <2>6, <2>7, <3>1 DEF ReadOrder, Told
  <2>12. SeenOrder'
    BY <2>1, <2>2 DEF SeenOrder
  <2> QED BY <2>2, <2>5, <2>8, <2>9, <2>10, <2>11, <2>12 DEF OrderInv
<1>9. CASE lose_stream
  <2>1. lose_authority /\ sub.stream \in Streams
        /\ stream' = [stream EXCEPT ![sub.stream] = [stream[sub.stream] EXCEPT !.reading = FALSE]]
    BY <1>0, <1>9 DEF lose_stream, ThreadOK
  <2>2. \A s \in Streams : stream'[s].events = stream[s].events /\ stream'[s].pc = stream[s].pc
    BY <1>0, <2>1 DEF Connection
  <2> QED BY <1>3, <1>4, <2>1, <2>2
<1> QED
  BY <1>5, <1>6, <1>7, <1>8, <1>9 DEF Subscriber

\* Every step keeps the order, and none takes the observed authority back.
LEMMA OrderStep ==
    ASSUME CTypeOK, OrderInv, [CNext]_cvars
    PROVE  OrderInv' /\ (authority # None /\ authority' # None => Older(authority, authority'))
<1>0. authority # None => Older(authority, authority)
  BY OlderOrders DEF OrderInv, AuthorityOrder
<1>1. CASE lock \/ restart
  <2>1. UNCHANGED authority
    BY <1>1 DEF lock, restart, bgvars
  <2> QED BY <1>0, <1>1, <2>1, BrokerKeepsOrder, BrokerStep
<1>2. CASE Hub
  <2>1. UNCHANGED authority
    BY <1>2 DEF Hub, publish_current, heartbeat, write_lines, push_entry, attach, bgvars
  <2> QED BY <1>0, <1>2, <2>1, HubKeepsOrder
<1>3. CASE Subscriber \/ lose_stream
  BY <1>3, SubscriberKeepsOrder
<1>4. ASSUME UNCHANGED <<broker, hub, stream, authority>>,
             sub'.pc = sub.pc, sub'.stream = sub.stream, sub'.seen = sub.seen
      PROVE  OrderInv' /\ (authority # None /\ authority' # None => Older(authority, authority'))
  BY <1>0, <1>4 DEF OrderInv, AuthorityOrder, StreamOrder, HolderOrder, ReadOrder, Told, SeenOrder
<1>5. CASE Ceremony
  BY <1>4, <1>5 DEF Ceremony, redeem, authority_is_current, push_token, insert_grant, refuse,
                    insert_if_authority, bgvars
<1>6. CASE (Running /\ UNCHANGED chain) \/ UNCHANGED cvars
  BY <1>4, <1>6, AnsweringShrinks DEF chain, cvars, bgvars, CTypeOK
<1>7. CASE Time
  <2>1. sub \in Thread
    BY DEF CTypeOK, ThreadOK
  <2> QED BY <1>4, <1>7, <2>1, AnsweringShrinks DEF Time, CTypeOK, Thread
<1> QED
  BY <1>1, <1>2, <1>3, <1>5, <1>6, <1>7 DEF CNext

\* The authority that the subscriber observes never goes back: concurrent LOCKs
\* cannot deliver an older epoch after a newer, nor a stream left behind to the
\* next, for any number of LOCKs, restarts, reconnects and events in flight.
THEOREM ObservedInOrder == CSpec => ObservationIsOrdered
<1>1. CInit => OrderInv
  <2> SUFFICES ASSUME CInit PROVE OrderInv
    OBVIOUS
  <2>1. authority = None
    BY DEF CInit, BGInit
  <2>2. \A s \in Streams : stream[s].events = <<>>
    BY DEF CInit, NoStream
  <2>3. hub.holder.op = "none" /\ sub.pc = "hello"
    BY DEF CInit, Nobody
  <2> QED BY <2>1, <2>2, <2>3, SMT DEF OrderInv, AuthorityOrder, StreamOrder, HolderOrder, ReadOrder,
                                  SeenOrder, Sorted, Below
<1>2. CTypeOK /\ OrderInv /\ [CNext]_cvars
        => OrderInv' /\ [(authority # None /\ authority' # None) => Older(authority, authority')]_cvars
  BY OrderStep
<1> QED
  BY <1>1, <1>2, ChainTypeCorrect, PTL DEF CSpec, ObservationIsOrdered
=============================================================================
