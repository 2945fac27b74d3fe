-------------------------- MODULE PortBridgeProof ---------------------------
(***************************************************************************)
(* Proofs about the callback bridge, for any number of ports, holders and  *)
(* threads: a held port has one route, and no thread, however late, takes  *)
(* a port from a holder that lives; nor do threads wait for each other.    *)
(***************************************************************************)
EXTENDS PortBridge, TLAPS

\* Zenon is the default prover of this module; a leaf that needs arithmetic,
\* records or a longer search says SMT.
USE Zenon

(***************************************************************************)
(* Type correctness, thread by thread, and what the elementary steps do.   *)
(***************************************************************************)
\* A reply goes to the holder it is for, and to nobody else.
LEMMA ReplyEffect ==
    ASSUME NEW h \in Holds, NEW answer \in {"ok", "busy", "unsafe", "dial"}, reply(h, answer),
           chan \in [Holds -> Channel]
    PROVE  /\ chan' \in [Holds -> Channel]
           /\ \A g \in Holds \ {h} : chan'[g] = chan[g]
           /\ chan'[h].up = chan[h].up /\ chan'[h].down = Append(chan[h].down, answer)
           /\ Len(chan'[h].down) = Len(chan[h].down) + 1
<1>1. /\ chan[h].down \in Seq({"ok", "busy", "unsafe", "dial"})
      /\ chan[h].up \in Seq({"+", "-", "?"})
  BY DEF Channel
<1>2. /\ Append(chan[h].down, answer) \in Seq({"ok", "busy", "unsafe", "dial"})
      /\ Len(Append(chan[h].down, answer)) = Len(chan[h].down) + 1
  BY <1>1, SMT
<1>3. chan' = [chan EXCEPT ![h] = [chan[h] EXCEPT !.down = Append(chan[h].down, answer)]]
  BY DEF reply
<1>4. [chan[h] EXCEPT !.down = Append(chan[h].down, answer)] \in Channel
  BY <1>1, <1>2 DEF Channel
<1> QED
  BY <1>1, <1>2, <1>3, <1>4 DEF Channel

\* The ARM threads keep every variable's type.
LEMMA ArmTypeOK ==
    ASSUME BridgeTypeOK, NEW a \in Armers, arm_request(a) \/ ArmStep(a)
    PROVE  BridgeTypeOK'
<1> USE BridgeConstants DEF BridgeTypeOK
<1>1. CASE arm_request(a)
  <2>1. PICK p \in Ports, ttl \in Ttls :
          arming' = [arming EXCEPT ![a] = [NoArm EXCEPT !.pc = "look", !.port = p, !.left = ttl]]
    BY <1>1 DEF arm_request
  <2>2. [NoArm EXCEPT !.pc = "look", !.port = p, !.left = ttl] \in ArmThread
    BY DEF NoArm, ArmThread
  <2> QED
    BY <1>1, <2>1, <2>2 DEF arm_request, NoArm
<1>2. CASE arm_look(a)
  <2> DEFINE h == holders[arming[a].port]
             x == [arming[a] EXCEPT !.pc = IF h = None THEN "insert" ELSE "peek", !.existing = h]
  <2>1. h \in Holds \cup {None} /\ arming[a].port \in Ports /\ arming[a] \in ArmThread
    BY <1>2 DEF arm_look
  <2>2. /\ x \in ArmThread /\ x.port \in Ports
        /\ x.pc = IF h = None THEN "insert" ELSE "peek"
        /\ x.existing = h
    <3> HIDE DEF h
    <3> QED BY <2>1 DEF ArmThread
  <2>3. /\ arming' = [arming EXCEPT ![a] = x]
        /\ UNCHANGED <<ports, holders, holding, call, dialer, chan, held, faulted>>
    BY <1>2 DEF arm_look
  <2>4. x.pc \in {"peek", "release"} => x.existing \in Holds
    BY <2>1, <2>2, SMT
  <2> HIDE DEF x, h
  <2> QED
    BY <2>2, <2>3, <2>4
<1>3. CASE arm_peek(a)
  <2>1. NoArm \in ArmThread /\ [arming[a] EXCEPT !.pc = "release"] \in ArmThread
    BY SMT DEF NoArm, ArmThread
  <2> QED
    BY <1>3, <2>1, SMT DEF arm_peek, NoArm, ArmThread
<1>4. CASE arm_release(a)
  <2>0. arming[a] \in ArmThread
    OBVIOUS
  <2>1. [arming[a] EXCEPT !.pc = "insert", !.existing = None] \in ArmThread
    BY <2>0 DEF ArmThread
  <2>2. holders' \in [Ports -> Holds \cup {None}]
    BY <1>4 DEF arm_release, release
  <2> QED
    BY <1>4, <2>1, <2>2 DEF arm_release, ArmThread
<1>5. CASE arm_insert(a)
  <2>0. arming[a].port \in Ports /\ arming[a].left \in Nat
    BY <1>5 DEF arm_insert, ArmThread
  <2>1. NoArm \in ArmThread /\ [arming[a] EXCEPT !.pc = "look"] \in ArmThread
    BY SMT DEF NoArm, ArmThread
  <2>2. ports' \in [Ports -> Nat]
    BY <1>5, <2>0, SMT DEF arm_insert
  <2> QED
    BY <1>5, <2>0, <2>1, <2>2, SMT DEF arm_insert, NoArm, ArmThread
<1> QED
  BY <1>1, <1>2, <1>3, <1>4, <1>5 DEF ArmStep

\* The HOLD threads keep every variable's type.
LEMMA HoldTypeOK ==
    ASSUME BridgeTypeOK, NEW h \in Holds, HoldStep(h)
    PROVE  BridgeTypeOK'
<1> USE BridgeConstants DEF BridgeTypeOK
<1>0. NoHold \in HoldThread /\ held[h].port \in Ports
  BY DEF NoHold, HoldThread, HoldStep, hold_look, hold_peek, hold_release
<1>1. CASE hold_look(h)
  <2>1. CASE holders[held[h].port] = None
    <3>1. /\ chan' \in [Holds -> Channel] /\ holders' \in [Ports -> Holds \cup {None}]
          /\ ports' \in [Ports -> Nat] /\ holding' = [holding EXCEPT ![h] = NoHold]
      <4>1. CASE held[h].open
        <5>1. reply(h, "ok")
          BY <1>1, <2>1, <4>1 DEF hold_look
        <5>2. chan' \in [Holds -> Channel]
          BY <5>1, ReplyEffect
        <5>3. /\ holders' = [holders EXCEPT ![held[h].port] = h]
              /\ ports' = [ports EXCEPT ![held[h].port] = 0]
              /\ holding' = [holding EXCEPT ![h] = NoHold]
          BY <1>1, <2>1, <4>1 DEF hold_look
        <5> QED
          BY <5>2, <5>3
      <4>2. CASE ~ held[h].open
        BY <1>0, <1>1, <2>1, <4>2 DEF hold_look
      <4> QED BY <4>1, <4>2
    <3> QED
      BY <1>0, <1>1, <3>1, SMT DEF hold_look, NoHold
  <2>2. CASE holders[held[h].port] # None
    <3>1. [pc |-> "peek", existing |-> holders[held[h].port]] \in HoldThread
          /\ holders[held[h].port] \in Holds
      BY <1>0, <2>2 DEF HoldThread
    <3> QED
      BY <1>0, <1>1, <2>2, <3>1, SMTT(30) DEF hold_look
  <2> QED
    BY <2>1, <2>2
<1>2. CASE hold_peek(h)
  <2>1. [holding[h] EXCEPT !.pc = "release"] \in HoldThread
    BY SMT DEF HoldThread
  <2>2. chan' \in [Holds -> Channel]
    BY <1>2, ReplyEffect DEF hold_peek
  <2>3. /\ holding' \in [Holds -> HoldThread]
        /\ \A g \in Holds : /\ holding'[g].pc # "idle" => holding[g].pc # "idle"
                            /\ holding'[g].pc \in {"peek", "release"} =>
                                 holding'[g].existing = holding[g].existing
                                 /\ holding[g].pc \in {"peek", "release"}
    BY <1>0, <1>2, <2>1, SMT DEF hold_peek, NoHold, HoldThread
  <2> QED
    BY <1>2, <2>2, <2>3 DEF hold_peek
<1>3. CASE hold_release(h)
  <2>1. [pc |-> "look", existing |-> None] \in HoldThread
    BY DEF HoldThread
  <2>2. holders' \in [Ports -> Holds \cup {None}]
    BY <1>3 DEF hold_release, release
  <2> QED
    BY <1>3, <2>1, <2>2 DEF hold_release
<1> QED
  BY <1>1, <1>2, <1>3 DEF HoldStep

\* The bridge connections keep every variable's type.
LEMMA CallTypeOK ==
    ASSUME BridgeTypeOK, NEW c \in Calls,
           accept_loop(c) \/ handle(c) \/ CallStep(c) \/ relay_ends(c)
    PROVE  BridgeTypeOK'
<1> USE BridgeConstants DEF BridgeTypeOK
<1>0. NoCall \in CallThread /\ call[c] \in CallThread
  BY DEF NoCall, CallThread
<1>1. CASE accept_loop(c)
  <2>1. [call[c] EXCEPT !.pc = "reading"] \in CallThread
    BY <1>0 DEF CallThread
  <2> QED
    BY <1>0, <1>1, <2>1 DEF accept_loop, CallThread
<1>2. CASE handle(c)
  <2>1. PICK p \in read_port :
          call' = [call EXCEPT ![c] =
                    IF p = None \/ denied_port(p) THEN NoCall
                    ELSE [pc |-> IF holders[p] = None THEN "is_armed" ELSE "dial",
                          port |-> p, existing |-> holders[p]]]
    BY <1>2 DEF handle
  <2>2. CASE p = None \/ denied_port(p)
    BY <1>0, <1>2, <2>1, <2>2 DEF handle, NoCall
  <2>3. CASE ~ (p = None \/ denied_port(p))
    <3> DEFINE x == [pc |-> IF holders[p] = None THEN "is_armed" ELSE "dial",
                     port |-> p, existing |-> holders[p]]
    <3>1. p \in Ports
      BY <2>3 DEF read_port
    <3>2. /\ x \in CallThread /\ x.port \in Ports
          /\ x.pc \in {"dial", "receive", "release"} => x.existing \in Holds
      BY <3>1 DEF CallThread
    <3>3. call' = [call EXCEPT ![c] = x]
      BY <2>1, <2>3
    <3> HIDE DEF x
    <3> QED
      BY <1>2, <3>2, <3>3 DEF handle
  <2> QED
    BY <2>2, <2>3
<1>3. CASE is_armed(c)
  <2>1. [call[c] EXCEPT !.pc = "loopback"] \in CallThread
    BY <1>0 DEF CallThread
  <2> QED
    BY <1>0, <1>3, <2>1 DEF is_armed, NoCall, CallThread
<1>4. CASE connect_loopback(c)
  <2>1. [call[c] EXCEPT !.pc = "piped"] \in CallThread
    BY <1>0 DEF CallThread
  <2> QED
    BY <1>0, <1>4, <2>1, SMTT(30) DEF connect_loopback, NoCall, CallThread
<1>5. CASE dial(c)
  <2>1. /\ call[c].existing \in Holds /\ call[c].port \in Ports
        /\ [call[c] EXCEPT !.pc = "receive"] \in CallThread
        /\ [call[c] EXCEPT !.pc = "release"] \in CallThread
    BY <1>0, <1>5 DEF dial, CallThread
  <2>2. CASE held[call[c].existing].open
    <3>1. chan' \in [Holds -> Channel]
      BY <1>5, <2>1, <2>2, ReplyEffect DEF dial
    <3>2. /\ call' = [call EXCEPT ![c] = [call[c] EXCEPT !.pc = "receive"]]
          /\ dialer' = [dialer EXCEPT ![call[c].existing] = c]
          /\ UNCHANGED <<ports, holders, arming, holding, held, faulted>>
      BY <1>5, <2>2 DEF dial
    <3>3. LET x == [call[c] EXCEPT !.pc = "receive"] IN
          x.port = call[c].port /\ x.existing = call[c].existing
      BY <1>0 DEF CallThread
    <3> QED
      BY <2>1, <3>1, <3>2, <3>3
  <2>3. CASE ~ held[call[c].existing].open
    BY <1>5, <2>1, <2>3, SMT DEF dial, CallThread
  <2> QED
    BY <2>2, <2>3
<1>6. CASE dial_answer(c)
  <2> DEFINE h == call[c].existing
  <2>1. /\ h \in Holds /\ call[c].port \in Ports
        /\ [call[c] EXCEPT !.pc = "piped", !.existing = None] \in CallThread
        /\ [call[c] EXCEPT !.pc = "release"] \in CallThread
    BY <1>0, <1>6 DEF dial_answer, CallThread
  <2>2. chan' \in [Holds -> Channel]
    <3>1. chan[h] \in Channel /\ chan[h].up # <<>> /\ chan' = [chan EXCEPT ![h].up = Tail(@)]
      BY <1>6, <2>1 DEF dial_answer
    <3>2. Tail(chan[h].up) \in Seq({"+", "-", "?"})
      BY <3>1, SMT DEF Channel
    <3> HIDE DEF h
    <3>3. [chan[h] EXCEPT !.up = Tail(chan[h].up)] \in Channel
      BY <3>1, <3>2 DEF Channel
    <3> QED
      BY <3>1, <3>3
  <2>3. \E x \in CallThread :
          /\ call' = [call EXCEPT ![c] = x]
          /\ x.pc = "idle" \/ x.port = call[c].port
          /\ x.pc \in {"dial", "receive", "release"} => x.existing = h
    <3>1. CASE receive(h) = "+"
      <4>1. call' = [call EXCEPT ![c] = [call[c] EXCEPT !.pc = "piped", !.existing = None]]
        BY <1>6, <3>1 DEF dial_answer, stream_from
      <4> QED BY <1>0, <2>1, <4>1 DEF CallThread
    <3>2. CASE receive(h) = "-"
      <4>1. call' = [call EXCEPT ![c] = NoCall]
        BY <1>6, <3>2 DEF dial_answer, stream_from
      <4> QED BY <1>0, <2>1, <4>1 DEF NoCall
    <3>3. CASE receive(h) # "+" /\ receive(h) # "-"
      <4>1. call' = [call EXCEPT ![c] = [call[c] EXCEPT !.pc = "release"]]
        BY <1>6, <3>3 DEF dial_answer, stream_from
      <4> QED BY <1>0, <2>1, <4>1 DEF CallThread
    <3> QED BY <3>1, <3>2, <3>3
  <2> QED
    BY <1>6, <2>1, <2>2, <2>3, SMT DEF dial_answer
<1>7. CASE dial_failed(c)
  <2>1. /\ call[c].existing \in Holds /\ call[c].port \in Ports
        /\ [call[c] EXCEPT !.pc = "release"] \in CallThread
    BY <1>0, <1>7 DEF dial_failed, CallThread
  <2> QED
    BY <1>7, <2>1 DEF dial_failed, CallThread
<1>8. CASE connect_release(c)
  <2>1. holders' \in [Ports -> Holds \cup {None}]
    BY <1>8 DEF connect_release, release
  <2> QED
    BY <1>0, <1>8, <2>1 DEF connect_release, NoCall
<1>9. CASE relay_ends(c)
  BY <1>0, <1>9 DEF relay_ends, NoCall
<1> QED
  BY <1>1, <1>2, <1>3, <1>4, <1>5, <1>6, <1>7, <1>8, <1>9 DEF CallStep

\* A process that leaves closes its end and keeps its port; nobody else is affected.
LEMMA LeaveEffect ==
    ASSUME NEW h \in Holds, leave(h), held \in [Holds -> Process]
    PROVE  /\ held' \in [Holds -> Process]
           /\ held'[h].pc = "exited" /\ ~ held'[h].open
           /\ \A g \in Holds : held'[g].port = held[g].port
           /\ \A g \in Holds \ {h} : held'[g] = held[g]
<1>1. held[h] \in Process
  OBVIOUS
<1>2. /\ [held[h] EXCEPT !.pc = "exited", !.open = FALSE] \in Process
      /\ [held[h] EXCEPT !.pc = "exited", !.open = FALSE].pc = "exited"
      /\ [held[h] EXCEPT !.pc = "exited", !.open = FALSE].open = FALSE
      /\ [held[h] EXCEPT !.pc = "exited", !.open = FALSE].port = held[h].port
  BY <1>1 DEF Process
<1> QED
  BY <1>2 DEF leave

\* The `forward port` processes keep every variable's type.
LEMMA HeldTypeOK ==
    ASSUME BridgeTypeOK, NEW h \in Holds,
           \/ hold(h) \/ hold_reply(h) \/ first_renewal(h) \/ serve(h)
           \/ serve_ended(h) \/ stopped(h) \/ restart(h)
    PROVE  BridgeTypeOK'
<1> USE BridgeConstants
<1>a. held[h] \in Process /\ chan[h] \in Channel
  BY DEF BridgeTypeOK
<1>b. NoHeld \in Process
  BY DEF NoHeld, Process
<1>c. NoChan \in Channel
  BY SMT DEF NoChan, Channel
<1>d. /\ chan[h].down \in Seq({"ok", "busy", "unsafe", "dial"})
      /\ chan[h].up \in Seq({"+", "-", "?"})
  BY <1>a DEF Channel
<1>0. /\ NoHeld \in Process /\ held[h] \in Process /\ NoChan \in Channel
      /\ chan[h] \in Channel
      /\ chan[h].down \in Seq({"ok", "busy", "unsafe", "dial"})
      /\ chan[h].up \in Seq({"+", "-", "?"})
  BY <1>a, <1>b, <1>c, <1>d
<1> USE DEF BridgeTypeOK
<1>1. CASE hold(h)
  <2>1. PICK p \in Ports :
          /\ held' = [held EXCEPT ![h] = [pc |-> "asked", port |-> p, open |-> TRUE]]
          /\ IF can_arm(p)
             THEN holding' = [holding EXCEPT ![h].pc = "look"] /\ UNCHANGED chan
             ELSE reply(h, "unsafe") /\ UNCHANGED holding
    BY <1>1 DEF hold
  <2>2. [pc |-> "asked", port |-> p, open |-> TRUE] \in Process
        /\ [holding[h] EXCEPT !.pc = "look"] \in HoldThread
    BY SMT DEF Process, HoldThread
  <2>3. chan' \in [Holds -> Channel]
    BY <2>1, ReplyEffect
  <2>4. /\ holding' \in [Holds -> HoldThread]
        /\ \A g \in Holds : holding'[g] # holding[g] => g = h /\ holding'[g].pc = "look"
    BY <2>1, <2>2, SMT DEF HoldThread
  <2> QED
    BY <1>1, <2>1, <2>2, <2>3, <2>4, ZenonT(60) DEF hold
<1>2. CASE hold_reply(h)
  <2>1. [held[h] EXCEPT !.pc = "renewing"] \in Process
    BY <1>0 DEF Process
  <2>2. chan' \in [Holds -> Channel]
    <3> HIDE DEF BridgeTypeOK
    <3>0. chan[h].down # <<>> => Tail(chan[h].down) \in Seq({"ok", "busy", "unsafe", "dial"})
      BY <1>0, SMT
    <3>1. chan[h].down # <<>> => [chan[h] EXCEPT !.down = Tail(chan[h].down)] \in Channel
      BY <1>0, <3>0 DEF Channel
    <3> QED
      BY <1>2, <3>1 DEF hold_reply, BridgeTypeOK
  <2>3. /\ held' \in [Holds -> Process]
        /\ \A g \in Holds : held'[g].port = held[g].port
        /\ \A g \in Holds : held'[g].pc = "idle" <=> held[g].pc = "idle"
    <3>1. held[h].pc = "asked" /\ (leave(h) \/ held' = [held EXCEPT ![h].pc = "renewing"])
      BY <1>2 DEF hold_reply
    <3>2. CASE leave(h)
      BY <3>1, <3>2, LeaveEffect
    <3>3. CASE held' = [held EXCEPT ![h].pc = "renewing"]
      BY <1>0, <2>1, <3>1, <3>3 DEF Process
    <3> QED BY <3>1, <3>2, <3>3
  <2>4. UNCHANGED <<ports, holders, arming, holding, call, dialer, faulted>>
    BY <1>2 DEF hold_reply, bridge
  <2> QED
    BY <2>2, <2>3, <2>4
<1>3. CASE first_renewal(h)
  <2>1. [held[h] EXCEPT !.pc = "serving"] \in Process
    BY <1>0 DEF Process
  <2> QED
    BY <1>0, <1>3, <2>1 DEF first_renewal, bridge, Process
<1>4. CASE serve(h)
  <2>1. PICK answer \in {"+", "-", "?"} :
          chan' = [chan EXCEPT ![h] = [chan[h] EXCEPT !.down = Tail(chan[h].down),
                              !.up = IF Referenced(h) THEN Append(chan[h].up, answer)
                                     ELSE chan[h].up]]
    BY <1>0, <1>4, ZenonT(60) DEF serve, Channel
  <2>2. Tail(chan[h].down) \in Seq({"ok", "busy", "unsafe", "dial"})
    BY <1>0, <1>4, SMT DEF serve
  <2>3. (IF Referenced(h) THEN Append(chan[h].up, answer) ELSE chan[h].up) \in Seq({"+", "-", "?"})
    <3> HIDE DEF BridgeTypeOK
    <3>1. Append(chan[h].up, answer) \in Seq({"+", "-", "?"})
      BY <1>d, SMT
    <3> QED
      BY <1>d, <3>1
  <2>4. chan' \in [Holds -> Channel]
    BY <1>0, <2>1, <2>2, <2>3 DEF Channel
  <2>5. CASE Referenced(h)
    BY <1>4, <2>4, <2>5 DEF serve, bridge
  <2>6. CASE ~ Referenced(h)
    <3>1. leave(h) /\ held[h].pc = "serving"
      BY <1>4, <2>6 DEF serve
    <3> QED
      BY <1>4, <2>4, <3>1, LeaveEffect, SMT DEF serve, bridge
  <2> QED
    BY <2>5, <2>6
<1>5. CASE serve_ended(h) \/ stopped(h)
  <2>1. leave(h) /\ held[h].pc # "idle"
    BY <1>5 DEF serve_ended, stopped
  <2> QED
    BY <1>5, <2>1, LeaveEffect, ZenonT(60) DEF serve_ended, stopped, bridge
<1>6. CASE restart(h)
  BY <1>0, <1>6 DEF restart, bridge, NoHeld, Referenced
<1> QED
  BY <1>1, <1>2, <1>3, <1>4, <1>5, <1>6

\* Every step keeps every variable's type.
LEMMA BridgeTypeStep == BridgeTypeOK /\ [Next]_vars => BridgeTypeOK'
<1> SUFFICES ASSUME BridgeTypeOK, [Next]_vars PROVE BridgeTypeOK'
  OBVIOUS
<1>1. CASE Tick
  <2> USE DEF BridgeTypeOK
  <2>1. \A a \in Armers :
          /\ [arming[a] EXCEPT !.left = IF @ > 0 THEN @ - 1 ELSE 0] \in ArmThread
          /\ arming'[a] = [arming[a] EXCEPT !.left = IF @ > 0 THEN @ - 1 ELSE 0]
          /\ arming'[a].pc = arming[a].pc /\ arming'[a].port = arming[a].port
          /\ arming'[a].existing = arming[a].existing
    BY <1>1, SMT DEF Tick, ArmThread
  <2>2. arming' \in [Armers -> ArmThread] /\ ports' \in [Ports -> Nat]
    BY <1>1, <2>1, SMT DEF Tick
  <2> QED
    BY <1>1, <2>1, <2>2 DEF Tick
<1>2. CASE UNCHANGED vars
  BY <1>2 DEF vars, BridgeTypeOK
<1> QED
  BY <1>1, <1>2, ArmTypeOK, HoldTypeOK, CallTypeOK, HeldTypeOK DEF Next

-----------------------------------------------------------------------------
(***************************************************************************)
(* The inductive invariant.  A thread about to release a holder has seen   *)
(* it dead, and dead it stays, because a holder's name is used again only  *)
(* when nothing refers to it.  What makes `is_alive` right is the shape of *)
(* a live control connection: it carries one question or one answer, and   *)
(* only while a dial keeps the holder's mutex.  An answer is then readable *)
(* outside a dial only after a dial that failed.                           *)
(***************************************************************************)
Dead(h) == ~ held[h].open \/ faulted[h]

\* Somebody on the bridge's side has this hold in hand.
Seen(h) ==
    \/ \E p \in Ports : holders[p] = h
    \/ \E a \in Armers : arming[a].existing = h
    \/ \E g \in Holds : holding[g].existing = h
    \/ \E c \in Calls : call[c].existing = h

\* The control connection of a live holder, by where the two ends are: the
\* request is being served; it was refused; it was granted, and is idle,
\* asked, or has answered.
Requested(h) ==
    /\ held[h].pc = "asked" /\ holding[h].pc # "idle" /\ dialer[h] = None /\ ~ Seen(h)
    /\ Len(chan[h].down) = 0 /\ Len(chan[h].up) = 0

Refused(h) ==
    /\ held[h].pc = "asked" /\ holding[h].pc = "idle" /\ dialer[h] = None /\ ~ Seen(h)
    /\ Len(chan[h].down) = 1 /\ chan[h].down[1] # "ok" /\ Len(chan[h].up) = 0

Granted(h) ==
    /\ held[h].pc \in {"asked", "renewing", "serving"} /\ holding[h].pc = "idle"
    /\ LET told == IF held[h].pc = "asked" THEN 1 ELSE 0 IN
       \/ dialer[h] = None /\ Len(chan[h].down) = told /\ Len(chan[h].up) = 0
       \/ dialer[h] # None /\ Len(chan[h].down) = told + 1 /\ Len(chan[h].up) = 0
       \/ /\ dialer[h] # None /\ Len(chan[h].down) = 0 /\ Len(chan[h].up) = 1
          /\ held[h].pc = "serving"

Line(h) == Dead(h) \/ Requested(h) \/ Refused(h) \/ Granted(h)

\* Nothing is left of an earlier process of that name.
Fresh(h) ==
    held[h].pc = "idle" => /\ ~ held[h].open /\ ~ faulted[h] /\ ~ Seen(h)
                           /\ Len(chan[h].down) = 0 /\ Len(chan[h].up) = 0

\* The control mutex is kept by the connection that waits for the answer.
Dialing ==
    /\ \A h \in Holds : dialer[h] # None =>
         call[dialer[h]].pc = "receive" /\ call[dialer[h]].existing = h
    /\ \A c \in Calls : call[c].pc = "receive" => dialer[call[c].existing] = c

Releasing ==
    /\ \A a \in Armers : arming[a].pc = "release" => Dead(arming[a].existing)
    /\ \A h \in Holds : holding[h].pc = "release" => Dead(holding[h].existing)
    /\ \A c \in Calls : call[c].pc = "release" => Dead(call[c].existing)

BridgeInv ==
    /\ \A h \in Holds : Fresh(h) /\ Line(h)
    /\ Dialing /\ Releasing /\ HeldHasOneRoute

(***************************************************************************)
(* The invariant.                                                          *)
(***************************************************************************)
\* Only the start of a process makes a dead holder live again.
LEMMA StaysDead ==
    ASSUME NEW h, Dead(h), held'[h].open => held[h].open, faulted[h] => faulted'[h]
    PROVE  Dead(h)'
  BY DEF Dead

\* A holder that a step leaves alone, and shows to nobody new, is as it was.
LEMMA SameLine ==
    ASSUME NEW h \in Holds, Fresh(h), Line(h),
           held'[h] = held[h], faulted'[h] = faulted[h], chan'[h] = chan[h],
           dialer'[h] = dialer[h], holding'[h].pc = "idle" <=> holding[h].pc = "idle",
           Seen(h)' => Seen(h)
    PROVE  Fresh(h)' /\ Line(h)'
<1> HIDE DEF Seen
<1> QED
  BY DEF Fresh, Line, Dead, Requested, Refused, Granted

\* `is_alive` is right about the holders it calls dead: outside a dial, a live
\* holder's end has nothing to read.
LEMMA DeadAtPeek ==
    ASSUME BridgeTypeOK, BridgeInv, NEW h \in Holds, dialer[h] = None, ~ is_alive(h)
    PROVE  Dead(h)
<1>1. chan[h].up \in Seq({"+", "-", "?"}) /\ Line(h)
  BY DEF BridgeTypeOK, Channel, BridgeInv
<1>2. Len(chan[h].up) = 0 => chan[h].up = <<>>
  BY <1>1, SMT
<1> QED
  BY <1>1, <1>2 DEF is_alive, Readable, Line, Dead, Requested, Refused, Granted

\* Releasing a holder takes entries from the map and adds none.
LEMMA ReleaseShrinks ==
    ASSUME NEW port \in Ports, NEW h, release(port, h), holders \in [Ports -> Holds \cup {None}]
    PROVE  /\ \A p \in Ports : holders'[p] \in {holders[p], None}
           /\ \A p \in Ports : holders'[p] # holders[p] => holders[p] = h
  BY DEF release

\* The ARM threads keep the invariant: they release what they saw dead, and
\* they record a lease only on a port without a holder.
LEMMA ArmKeepsInv ==
    ASSUME BridgeTypeOK, BridgeInv, NEW a \in Armers, arm_request(a) \/ ArmStep(a)
    PROVE  BridgeInv'
<1> USE BridgeConstants
<1>0. /\ UNCHANGED <<holding, call, dialer, chan, held, faulted>>
      /\ holders \in [Ports -> Holds \cup {None}] /\ ports \in [Ports -> Nat]
      /\ arming \in [Armers -> ArmThread] /\ arming[a] \in ArmThread
  BY DEF ArmStep, arm_request, arm_look, arm_peek, arm_release, arm_insert, BridgeTypeOK
<1>1. \A p \in Ports : holders'[p] \in {holders[p], None}
  <2>1. CASE arm_release(a)
    <3>1. arming[a].port \in Ports /\ release(arming[a].port, arming[a].existing)
      BY <2>1 DEF arm_release, BridgeTypeOK
    <3> QED BY <1>0, <3>1, ReleaseShrinks
  <2> QED BY <2>1 DEF ArmStep, arm_request, arm_look, arm_peek, arm_insert
<1>2. \A x \in Armers \ {a} : arming'[x] = arming[x]
  BY <1>0 DEF ArmStep, arm_request, arm_look, arm_peek, arm_release, arm_insert
<1>r. arm_request(a) => arming'[a].existing = None /\ arming'[a].pc = "look"
  <2> SUFFICES ASSUME arm_request(a) PROVE arming'[a].existing = None /\ arming'[a].pc = "look"
    OBVIOUS
  <2>1. PICK p \in Ports, ttl \in Ttls :
          arming' = [arming EXCEPT ![a] = [NoArm EXCEPT !.pc = "look", !.port = p, !.left = ttl]]
    BY DEF arm_request
  <2>2. LET x == [NoArm EXCEPT !.pc = "look", !.port = p, !.left = ttl] IN
        x.existing = None /\ x.pc = "look"
    BY DEF NoArm
  <2> QED BY <1>0, <2>1, <2>2
<1>3. \/ arming'[a].existing \in {None, arming[a].existing}
      \/ arming[a].port \in Ports /\ arming'[a].existing = holders[arming[a].port]
  <2>1. CASE arm_request(a)
    BY <1>r, <2>1
  <2>2. CASE arm_look(a)
    BY <1>0, <2>2 DEF arm_look, ArmThread, BridgeTypeOK
  <2>3. CASE arm_peek(a)
    BY <1>0, <2>3 DEF arm_peek, NoArm, ArmThread
  <2>4. CASE arm_release(a)
    BY <1>0, <2>4 DEF arm_release, ArmThread
  <2>5. CASE arm_insert(a)
    BY <1>0, <2>5, SMT DEF arm_insert, NoArm, ArmThread
  <2> QED BY <2>1, <2>2, <2>3, <2>4, <2>5 DEF ArmStep
<1>4. \A h \in Holds : Seen(h)' => Seen(h)
  BY <1>0, <1>1, <1>2, <1>3, SMT DEF Seen
<1>5. \A h \in Holds : Fresh(h)' /\ Line(h)'
  BY <1>0, <1>4, SameLine DEF BridgeInv
<1>6. Dialing'
  BY <1>0 DEF BridgeInv, Dialing
<1>7. arming'[a].pc = "release" => arming'[a].existing \in Holds /\ Dead(arming'[a].existing)
  <2>1. CASE arm_peek(a)
    <3>1. arming[a].existing \in Holds /\ dialer[arming[a].existing] = None
      BY <2>1 DEF arm_peek, BridgeTypeOK
    <3>2. arming'[a].pc = "release" => /\ ~ is_alive(arming[a].existing)
                                       /\ arming'[a].existing = arming[a].existing
      BY <1>0, <2>1 DEF arm_peek, NoArm, ArmThread
    <3> QED BY <3>1, <3>2, DeadAtPeek
  <2>2. CASE ~ arm_peek(a)
    BY <1>0, <1>r, <2>2, SMT DEF ArmStep, arm_look, arm_release, arm_insert, NoArm, ArmThread
  <2> QED BY <2>1, <2>2
<1>8. Releasing'
  BY <1>0, <1>2, <1>7 DEF BridgeInv, Releasing, Dead
<1>9. HeldHasOneRoute'
  <2>1. CASE arm_insert(a)
    BY <1>0, <2>1 DEF arm_insert, BridgeInv, HeldHasOneRoute, BridgeTypeOK
  <2>2. CASE ~ arm_insert(a)
    <3>1. UNCHANGED ports
      BY <2>2 DEF ArmStep, arm_request, arm_look, arm_peek, arm_release
    <3> QED BY <1>1, <3>1 DEF BridgeInv, HeldHasOneRoute
  <2> QED BY <2>1, <2>2
<1> QED
  BY <1>5, <1>6, <1>8, <1>9 DEF BridgeInv

\* The HOLD threads keep the invariant: a hold is granted only on a port that
\* has no holder, and the lease under it goes in the same step.
LEMMA HoldKeepsInv ==
    ASSUME BridgeTypeOK, BridgeInv, NEW h \in Holds, HoldStep(h)
    PROVE  BridgeInv'
<1> USE BridgeConstants
<1>0. /\ UNCHANGED <<arming, call, dialer, held, faulted>>
      /\ held[h].pc # "idle" /\ held[h].port \in Ports /\ holding[h].pc # "idle"
      /\ holders \in [Ports -> Holds \cup {None}] /\ ports \in [Ports -> Nat]
      /\ holding \in [Holds -> HoldThread] /\ holding[h] \in HoldThread
      /\ chan \in [Holds -> Channel]
      /\ \A g \in Holds \ {h} : holding'[g] = holding[g]
  BY DEF HoldStep, hold_look, hold_peek, hold_release, BridgeTypeOK
<1>1. Dialing'
  BY <1>0 DEF BridgeInv, Dialing
<1>2. Dead(h) => Dead(h)'
  BY <1>0 DEF Dead
<1>3. Fresh(h)'
  BY <1>0 DEF Fresh
<1>4. ~ Dead(h) => Requested(h)
  BY <1>0 DEF BridgeInv, Line, Refused, Granted
<1>5. \A g \in Holds \ {h} :
        (Seen(g)' => Seen(g)) /\ chan'[g] = chan[g] => Fresh(g)' /\ Line(g)'
  BY <1>0, SameLine DEF BridgeInv
<1>6. ASSUME holding'[h].pc # "release" PROVE Releasing'
  BY <1>0, <1>6 DEF BridgeInv, Releasing, Dead
<1>7. CASE hold_look(h) /\ holders[held[h].port] = None /\ held[h].open
  <2>1. /\ holders' = [holders EXCEPT ![held[h].port] = h]
        /\ ports' = [ports EXCEPT ![held[h].port] = 0]
        /\ holding' = [holding EXCEPT ![h] = NoHold]
        /\ reply(h, "ok")
    BY <1>7 DEF hold_look
  <2>2. holding'[h].pc = "idle" /\ holding'[h].existing = None
    BY <1>0, <2>1 DEF NoHold
  <2>3. \A g \in Holds \ {h} : Seen(g)' => Seen(g)
    BY <1>0, <2>1, <2>2 DEF Seen
  <2>4. /\ \A g \in Holds \ {h} : chan'[g] = chan[g]
        /\ chan'[h].up = chan[h].up /\ Len(chan'[h].down) = Len(chan[h].down) + 1
    BY <1>0, <2>1, ReplyEffect
  <2>5. Requested(h) => Granted(h)'
    BY <1>0, <2>2, <2>4, SMT DEF Requested, Granted
  <2>6. \A g \in Holds : Fresh(g)' /\ Line(g)'
    BY <1>2, <1>3, <1>4, <1>5, <2>3, <2>4, <2>5 DEF Line
  <2>7. HeldHasOneRoute'
    BY <1>0, <2>1 DEF BridgeInv, HeldHasOneRoute
  <2> QED
    BY <1>1, <1>6, <2>2, <2>6, <2>7 DEF BridgeInv
<1>8. CASE hold_look(h) /\ ~ (holders[held[h].port] = None /\ held[h].open)
  <2>1. UNCHANGED <<holders, ports, chan>>
    BY <1>8 DEF hold_look
  <2>2. /\ holding'[h].pc # "release"
        /\ \/ holding'[h].existing = None /\ ~ held[h].open
           \/ holding'[h].existing = holders[held[h].port] /\ holding'[h].pc = "peek"
    BY <1>0, <1>8, SMT DEF hold_look, NoHold
  <2>3. \A g \in Holds : Seen(g)' => Seen(g)
    BY <1>0, <2>1, <2>2 DEF Seen
  <2>4. Line(h)'
    <3>1. CASE Dead(h)
      BY <1>2, <3>1 DEF Line
    <3>2. CASE ~ Dead(h)
      <4>1. Requested(h)'
        BY <1>0, <1>4, <2>1, <2>2, <2>3, <3>2 DEF Requested, Dead
      <4> QED BY <4>1 DEF Line
    <3> QED BY <3>1, <3>2
  <2>5. HeldHasOneRoute'
    BY <2>1 DEF BridgeInv, HeldHasOneRoute
  <2> QED
    BY <1>1, <1>3, <1>5, <1>6, <2>1, <2>2, <2>3, <2>4, <2>5 DEF BridgeInv
<1>9. CASE hold_peek(h)
  <2>0. UNCHANGED <<holders, ports>> /\ dialer[holding[h].existing] = None
        /\ holding[h].existing \in Holds
    BY <1>9 DEF hold_peek, BridgeTypeOK
  <2>1. HeldHasOneRoute'
    BY <2>0 DEF BridgeInv, HeldHasOneRoute
  <2>2. CASE is_alive(holding[h].existing)
    <3>1. reply(h, "busy") /\ holding' = [holding EXCEPT ![h] = NoHold]
      BY <1>9, <2>2 DEF hold_peek
    <3>2. holding'[h].pc = "idle" /\ holding'[h].existing = None
      BY <1>0, <3>1 DEF NoHold
    <3>3. \A g \in Holds : Seen(g)' => Seen(g)
      BY <1>0, <2>0, <3>2, SMT DEF Seen
    <3>4. /\ \A g \in Holds \ {h} : chan'[g] = chan[g]
          /\ chan'[h].up = chan[h].up /\ chan'[h].down = Append(chan[h].down, "busy")
          /\ Len(chan'[h].down) = Len(chan[h].down) + 1
      BY <1>0, <3>1, ReplyEffect
    <3>5. Len(chan[h].down) = 0 => chan'[h].down[1] # "ok"
      BY <1>0, <3>4, SMT DEF Channel
    <3>6. Requested(h) => Refused(h)'
      BY <1>0, <3>2, <3>3, <3>4, <3>5, SMT DEF Requested, Refused
    <3> QED
      BY <1>1, <1>2, <1>3, <1>4, <1>5, <1>6, <2>1, <3>2, <3>3, <3>4, <3>6 DEF Line, BridgeInv
  <2>3. CASE ~ is_alive(holding[h].existing)
    <3>1. UNCHANGED chan /\ holding' = [holding EXCEPT ![h].pc = "release"]
      BY <1>9, <2>3 DEF hold_peek
    <3>2. holding'[h].pc = "release" /\ holding'[h].existing = holding[h].existing
      BY <1>0, <3>1 DEF HoldThread
    <3>3. \A g \in Holds : Seen(g)' => Seen(g)
      BY <1>0, <2>0, <3>2 DEF Seen
    <3>4. Dead(holding[h].existing)
      BY <2>0, <2>3, DeadAtPeek
    <3>5. Releasing'
      BY <1>0, <3>2, <3>4 DEF BridgeInv, Releasing, Dead
    <3>6. \A g \in Holds : Fresh(g)' /\ Line(g)'
      BY <1>0, <3>1, <3>2, <3>3, SameLine DEF BridgeInv
    <3> QED
      BY <1>1, <2>1, <3>5, <3>6 DEF BridgeInv
  <2> QED BY <2>2, <2>3
<1>10. CASE hold_release(h)
  <2>1. /\ UNCHANGED <<ports, chan>> /\ release(held[h].port, holding[h].existing)
        /\ holding'[h].pc = "look" /\ holding'[h].existing = None
    BY <1>0, <1>10 DEF hold_release
  <2>2. \A p \in Ports : holders'[p] \in {holders[p], None}
    BY <1>0, <2>1, ReleaseShrinks
  <2>3. \A g \in Holds : Seen(g)' => Seen(g)
    BY <1>0, <2>1, <2>2 DEF Seen
  <2>4. \A g \in Holds : Fresh(g)' /\ Line(g)'
    BY <1>0, <2>1, <2>3, SameLine DEF BridgeInv
  <2>5. HeldHasOneRoute'
    BY <2>1, <2>2 DEF BridgeInv, HeldHasOneRoute
  <2> QED
    BY <1>1, <1>6, <2>1, <2>4, <2>5 DEF BridgeInv
<1> QED
  BY <1>7, <1>8, <1>9, <1>10 DEF HoldStep

\* The bridge connections keep the invariant: a dial that got no answer, or no
\* socket, leaves its holder marked before the mutex is free again.
LEMMA CallKeepsInv ==
    ASSUME BridgeTypeOK, BridgeInv, NEW c \in Calls,
           accept_loop(c) \/ handle(c) \/ CallStep(c) \/ relay_ends(c)
    PROVE  BridgeInv'
<1> USE BridgeConstants
<1>0. /\ UNCHANGED <<arming, holding, held, ports>>
      /\ holders \in [Ports -> Holds \cup {None}] /\ call \in [Calls -> CallThread]
      /\ call[c] \in CallThread /\ chan \in [Holds -> Channel]
      /\ dialer \in [Holds -> Calls \cup {None}] /\ faulted \in [Holds -> BOOLEAN]
      /\ \A d \in Calls \ {c} : call'[d] = call[d]
  BY DEF accept_loop, handle, CallStep, relay_ends, is_armed, connect_loopback, dial,
         dial_answer, dial_failed, connect_release, BridgeTypeOK
<1>1. \A p \in Ports : holders'[p] \in {holders[p], None}
  <2>1. CASE connect_release(c)
    <3>1. call[c].port \in Ports /\ release(call[c].port, call[c].existing)
      BY <2>1 DEF connect_release, BridgeTypeOK
    <3> QED BY <1>0, <3>1, ReleaseShrinks
  <2> QED
    BY <2>1 DEF accept_loop, handle, CallStep, relay_ends, is_armed, connect_loopback, dial,
                dial_answer, dial_failed
<1>2. HeldHasOneRoute'
  BY <1>0, <1>1 DEF BridgeInv, HeldHasOneRoute
<1>3. ASSUME \/ call'[c].existing \in {None, call[c].existing}
             \/ \E p \in Ports : call'[c].existing = holders[p]
      PROVE  \A h \in Holds : Seen(h)' => Seen(h)
  BY <1>0, <1>1, <1>3, SMT DEF Seen
<1>4. ASSUME UNCHANGED <<dialer, chan, faulted>>, call'[c].pc \notin {"receive", "release"},
             call[c].pc # "receive", \A h \in Holds : Seen(h)' => Seen(h)
      PROVE  BridgeInv'
  <2>1. \A h \in Holds : Fresh(h)' /\ Line(h)'
    BY <1>0, <1>4, SameLine DEF BridgeInv
  <2>2. Dialing'
    BY <1>0, <1>4, SMT DEF BridgeInv, Dialing
  <2>3. Releasing'
    BY <1>0, <1>4 DEF BridgeInv, Releasing, Dead
  <2> QED
    BY <1>2, <2>1, <2>2, <2>3 DEF BridgeInv
<1>5. CASE accept_loop(c) \/ is_armed(c) \/ connect_loopback(c) \/ connect_release(c) \/ relay_ends(c)
  <2>1. /\ UNCHANGED <<dialer, chan, faulted>> /\ call'[c].pc \notin {"receive", "release"}
        /\ call[c].pc # "receive" /\ call'[c].existing \in {None, call[c].existing}
    BY <1>0, <1>5, SMT DEF accept_loop, is_armed, connect_loopback, connect_release, relay_ends, NoCall,
                      CallThread
  <2> QED
    BY <1>3, <1>4, <2>1
<1>6. CASE handle(c)
  <2>1. PICK p \in read_port :
          call' = [call EXCEPT ![c] =
                    IF p = None \/ denied_port(p) THEN NoCall
                    ELSE [pc |-> IF holders[p] = None THEN "is_armed" ELSE "dial",
                          port |-> p, existing |-> holders[p]]]
    BY <1>6 DEF handle
  <2>2. /\ call'[c].pc \notin {"receive", "release"}
        /\ call'[c].existing = None \/ \E q \in Ports : call'[c].existing = holders[q]
    BY <1>0, <2>1 DEF read_port, NoCall
  <2>3. UNCHANGED <<dialer, chan, faulted>> /\ call[c].pc # "receive"
    BY <1>6 DEF handle
  <2> QED
    BY <1>3, <1>4, <2>2, <2>3
<1>7. CASE dial(c)
  <2>h. PICK h \in Holds : h = call[c].existing
    BY <1>7 DEF dial, BridgeTypeOK
  <2>0. /\ h \in Holds /\ call[c].pc = "dial" /\ dialer[h] = None /\ UNCHANGED <<holders, faulted>>
        /\ Seen(h)
    BY <2>h, <1>7 DEF dial, BridgeTypeOK, Seen
  <2>1. CASE held[h].open
    <3>1. /\ dialer' = [dialer EXCEPT ![h] = c] /\ reply(h, "dial")
          /\ call'[c].pc = "receive" /\ call'[c].existing = h
      BY <2>h, <1>0, <1>7, <2>1, SMT DEF dial, CallThread
    <3>2. \A g \in Holds : Seen(g)' => Seen(g)
      BY <2>h, <1>3, <3>1
    <3>3. /\ \A g \in Holds \ {h} : chan'[g] = chan[g]
          /\ chan'[h].up = chan[h].up /\ Len(chan'[h].down) = Len(chan[h].down) + 1
      BY <1>0, <2>0, <3>1, ReplyEffect
    <3>4. \A g \in Holds \ {h} : Fresh(g)' /\ Line(g)'
      BY <1>0, <2>0, <3>1, <3>2, <3>3, SameLine DEF BridgeInv
    <3>5. Fresh(h)'
      BY <1>0, <2>0 DEF BridgeInv, Fresh
    <3>6. Line(h)'
      <4>1. CASE Dead(h)
        BY <1>0, <2>0, <4>1 DEF Line, Dead
      <4>2. CASE ~ Dead(h)
        <5>1. Granted(h)
          BY <2>0, <4>2 DEF BridgeInv, Line, Requested, Refused
        <5>2. Granted(h)'
          BY <1>0, <2>0, <3>1, <3>3, <5>1 DEF Granted
        <5> QED BY <5>2 DEF Line
      <4> QED BY <4>1, <4>2
    <3>7. Dialing'
      BY <1>0, <2>0, <3>1, SMT DEF BridgeInv, Dialing, BridgeTypeOK
    <3>8. Releasing'
      BY <1>0, <2>0, <3>1 DEF BridgeInv, Releasing, Dead
    <3> QED
      BY <1>2, <3>4, <3>5, <3>6, <3>7, <3>8 DEF BridgeInv
  <2>2. CASE ~ held[h].open
    <3>1. /\ UNCHANGED <<dialer, chan>> /\ call'[c].pc = "release" /\ call'[c].existing = h
      BY <2>h, <1>0, <1>7, <2>2, SMT DEF dial, CallThread
    <3>2. \A g \in Holds : Fresh(g)' /\ Line(g)'
      BY <2>h, <1>0, <1>3, <2>0, <3>1, SameLine DEF BridgeInv
    <3>3. Dialing'
      BY <1>0, <2>0, <3>1, SMT DEF BridgeInv, Dialing
    <3>4. Releasing'
      BY <1>0, <2>0, <2>2, <3>1 DEF BridgeInv, Releasing, Dead
    <3> QED
      BY <1>2, <3>2, <3>3, <3>4 DEF BridgeInv
  <2> QED BY <2>1, <2>2
<1>8. CASE dial_answer(c) \/ dial_failed(c)
  <2>h. PICK h \in Holds : h = call[c].existing
    BY <1>8 DEF dial_answer, dial_failed, BridgeTypeOK
  <2>0. /\ h \in Holds /\ call[c].pc = "receive" /\ dialer[h] = c /\ UNCHANGED holders
        /\ dialer' = [dialer EXCEPT ![h] = None] /\ Seen(h)
        /\ \A g \in Holds \ {h} : chan'[g] = chan[g] /\ faulted'[g] = faulted[g]
        /\ faulted[h] => faulted'[h]
    BY <2>h, <1>0, <1>8, SMT DEF dial_answer, dial_failed, BridgeTypeOK, BridgeInv, Dialing, Seen
  <2>1. /\ call'[c].pc # "receive" /\ call'[c].existing \in {None, h}
        /\ call'[c].pc = "release" => call'[c].existing = h /\ faulted'[h]
    <3>1. CASE dial_failed(c)
      BY <2>h, <1>0, <2>0, <3>1, SMT DEF dial_failed, CallThread
    <3>2. CASE dial_answer(c)
      <4>1. receive(h) \in {"+", "-", "?"}
        BY <2>h, <1>0, <2>0, <3>2, SMT DEF receive, dial_answer, Channel
      <4>2. CASE receive(h) = "+"
        BY <2>h, <1>0, <3>2, <4>2 DEF dial_answer, stream_from, CallThread
      <4>3. CASE receive(h) = "-"
        BY <2>h, <1>0, <3>2, <4>3 DEF dial_answer, stream_from, NoCall
      <4>4. CASE receive(h) = "?"
        BY <2>h, <1>0, <2>0, <3>2, <4>4 DEF dial_answer, stream_from, CallThread
      <4> QED BY <4>1, <4>2, <4>3, <4>4
    <3> QED BY <1>8, <3>1, <3>2
  <2>2. \A g \in Holds : Seen(g)' => Seen(g)
    BY <2>h, <1>3, <2>1
  <2>3. Line(h)'
    <3>1. CASE Dead(h) \/ dial_failed(c)
      BY <2>h, <1>0, <2>0, <3>1 DEF Line, Dead, dial_failed
    <3>2. CASE ~ Dead(h) /\ dial_answer(c)
      <4>1. Granted(h)
        BY <2>0, <3>2 DEF BridgeInv, Line, Requested, Refused
      <4>2. chan[h].up \in Seq({"+", "-", "?"}) /\ chan[h].up # <<>> /\ chan[h] \in Channel
        BY <2>h, <1>0, <2>0, <3>2, SMT DEF dial_answer, Channel
      <4>3. chan'[h].down = chan[h].down /\ chan'[h].up = Tail(chan[h].up)
        BY <2>h, <1>0, <2>0, <3>2, <4>2 DEF dial_answer, Channel
      <4>4. Len(chan[h].up) # 0 /\ Len(chan'[h].up) = Len(chan[h].up) - 1
        BY <4>2, <4>3, SMT
      <4>5. Granted(h)'
        BY <1>0, <2>0, <4>1, <4>3, <4>4, SMT DEF Granted
      <4> QED BY <4>5 DEF Line
    <3> QED BY <1>8, <3>1, <3>2
  <2>4. \A g \in Holds \ {h} : Fresh(g)' /\ Line(g)'
    BY <1>0, <2>0, <2>2, SameLine DEF BridgeInv
  <2>5. Fresh(h)'
    BY <1>0, <2>0 DEF BridgeInv, Fresh
  <2>6. Dialing'
    BY <1>0, <2>0, <2>1, SMT DEF BridgeInv, Dialing, BridgeTypeOK
  <2>7. Releasing'
    <3>1. \A g \in Holds : Dead(g) => Dead(g)'
      BY <1>0, <2>0 DEF Dead
    <3>2. Dead(h)' \/ call'[c].pc # "release"
      BY <2>1 DEF Dead
    <3> QED
      BY <1>0, <2>1, <3>1, <3>2, SMT DEF BridgeInv, Releasing, BridgeTypeOK
  <2> QED
    BY <1>2, <2>3, <2>4, <2>5, <2>6, <2>7 DEF BridgeInv
<1> QED
  BY <1>5, <1>6, <1>7, <1>8 DEF CallStep

\* The `forward port` processes keep the invariant: a process answers a dial,
\* or leaves; and its name is used again only when the bridge has let it go.
LEMMA HeldKeepsInv ==
    ASSUME BridgeTypeOK, BridgeInv, NEW h \in Holds,
           \/ hold(h) \/ hold_reply(h) \/ first_renewal(h) \/ serve(h)
           \/ serve_ended(h) \/ stopped(h) \/ restart(h)
    PROVE  BridgeInv'
<1> USE BridgeConstants
<1>0. /\ UNCHANGED <<ports, holders, arming, call, dialer>>
      /\ held \in [Holds -> Process] /\ held[h] \in Process /\ holding \in [Holds -> HoldThread]
      /\ chan \in [Holds -> Channel] /\ chan[h] \in Channel /\ faulted \in [Holds -> BOOLEAN]
      /\ chan[h].down \in Seq({"ok", "busy", "unsafe", "dial"})
      /\ chan[h].up \in Seq({"+", "-", "?"})
      /\ Fresh(h) /\ Line(h)
  BY DEF hold, hold_reply, first_renewal, serve, serve_ended, stopped, restart, bridge,
         BridgeTypeOK, Channel, BridgeInv
<1>1. /\ \A g \in Holds \ {h} : held'[g] = held[g] /\ faulted'[g] = faulted[g]
      /\ \A g \in Holds \ {h} : chan'[g] = chan[g]
      /\ \A g \in Holds \ {h} : holding'[g] = holding[g]
      /\ holding'[h] # holding[h] => hold(h) /\ holding'[h] = [holding[h] EXCEPT !.pc = "look"]
  <2>1. CASE hold(h)
    BY <1>0, <2>1, ReplyEffect DEF hold
  <2>2. CASE hold_reply(h) \/ first_renewal(h) \/ serve(h) \/ serve_ended(h) \/ stopped(h) \/ restart(h)
    BY <1>0, <2>2 DEF hold_reply, first_renewal, serve, serve_ended, stopped, restart, bridge, leave
  <2> QED BY <2>1, <2>2
<1>2. /\ holding'[h].existing = holding[h].existing
      /\ holding'[h].pc = "release" => holding[h].pc = "release"
  BY <1>0, <1>1, SMT DEF HoldThread
<1>3. \A g \in Holds : Seen(g)' <=> Seen(g)
  BY <1>0, <1>1, <1>2 DEF Seen
<1>4. \A g \in Holds \ {h} : Fresh(g)' /\ Line(g)'
  BY <1>0, <1>1, <1>3, SameLine DEF BridgeInv
<1>5. Dialing' /\ HeldHasOneRoute'
  BY <1>0 DEF BridgeInv, Dialing, HeldHasOneRoute
<1>6. ASSUME Dead(h) => Dead(h)' \/ ~ Seen(h) PROVE Releasing'
  <2>1. \A g \in Holds : Dead(g) /\ Seen(g) => Dead(g)'
    BY <1>1, <1>6 DEF Dead
  <2> QED
    BY <1>0, <1>1, <1>2, <2>1, ZenonT(60) DEF BridgeInv, Releasing, BridgeTypeOK, Seen
<1>7. CASE hold(h)
  <2>1. /\ held[h].pc = "idle" /\ UNCHANGED faulted
        /\ held'[h].pc = "asked"
    BY <1>0, <1>7, SMT DEF hold
  <2>2. /\ ~ Seen(h) /\ ~ faulted[h] /\ Len(chan[h].down) = 0 /\ Len(chan[h].up) = 0
        /\ holding[h].pc = "idle" /\ dialer[h] = None
    BY <1>0, <2>1, SMT DEF Fresh, BridgeInv, Dialing, Seen, BridgeTypeOK
  <2>3. \/ UNCHANGED chan /\ holding'[h].pc = "look"
        \/ reply(h, "unsafe") /\ UNCHANGED holding
    BY <1>0, <1>7, SMT DEF hold, HoldThread
  <2>4. ASSUME UNCHANGED chan, holding'[h].pc = "look" PROVE Line(h)'
    BY <1>0, <1>3, <2>1, <2>2, <2>4, SMT DEF Line, Requested
  <2>5. ASSUME reply(h, "unsafe"), UNCHANGED holding PROVE Line(h)'
    <3>1. /\ chan'[h].up = chan[h].up /\ chan'[h].down = Append(chan[h].down, "unsafe")
          /\ Len(chan'[h].down) = Len(chan[h].down) + 1
      BY <1>0, <2>5, ReplyEffect
    <3>2. chan'[h].down[1] # "ok"
      BY <1>0, <2>2, <3>1, SMT
    <3> QED
      BY <1>0, <1>3, <2>1, <2>2, <2>5, <3>1, <3>2, SMT DEF Line, Refused
  <2>6. Fresh(h)' /\ Line(h)'
    <3>1. Fresh(h)' BY <2>1 DEF Fresh
    <3> QED BY <2>3, <2>4, <2>5, <3>1
  <2> QED
    BY <1>4, <1>5, <1>6, <2>2, <2>6 DEF BridgeInv
<1>8. CASE restart(h)
  <2>1. ~ Seen(h) /\ held'[h] = NoHeld /\ chan'[h] = NoChan /\ ~ faulted'[h]
    BY <1>0, <1>8 DEF restart, Referenced, Seen
  <2>2. Fresh(h)' /\ Line(h)'
    <3>1. ~ held'[h].open /\ Len(chan'[h].down) = 0 /\ Len(chan'[h].up) = 0
      BY <2>1, SMT DEF NoHeld, NoChan
    <3>2. ~ Seen(h)'
      BY <1>3, <2>1
    <3>3. Fresh(h)'
      BY <2>1, <3>1, <3>2 DEF Fresh
    <3>4. Line(h)'
      BY <3>1 DEF Line, Dead
    <3> QED BY <3>3, <3>4
  <2> QED
    BY <1>4, <1>5, <1>6, <2>1, <2>2 DEF BridgeInv
<1>9. ASSUME leave(h), UNCHANGED faulted PROVE BridgeInv'
  <2>1. held'[h].pc = "exited" /\ ~ held'[h].open
    BY <1>0, <1>9, LeaveEffect
  <2>2. Fresh(h)' /\ Line(h)' /\ Dead(h)'
    BY <2>1 DEF Fresh, Line, Dead
  <2> QED
    BY <1>4, <1>5, <1>6, <2>2 DEF BridgeInv
<1>10. ASSUME UNCHANGED <<faulted, holding>>, held'[h].open = held[h].open, held'[h].pc # "idle",
              ~ Dead(h) => Granted(h)'
       PROVE  BridgeInv'
  <2>1. Dead(h) => Dead(h)'
    BY <1>10 DEF Dead
  <2>2. Fresh(h)' /\ Line(h)'
    BY <1>10, <2>1 DEF Fresh, Line
  <2> QED
    BY <1>4, <1>5, <1>6, <2>1, <2>2 DEF BridgeInv
<1>11. CASE hold_reply(h)
  <2>0. UNCHANGED <<faulted, holding>> /\ held[h].pc = "asked"
    BY <1>11 DEF hold_reply, bridge
  <2>1. CASE leave(h)
    BY <1>9, <2>0, <2>1
  <2>2. CASE ~ leave(h)
    <3>1. /\ chan[h].down # <<>> /\ Head(chan[h].down) = "ok"
          /\ held' = [held EXCEPT ![h].pc = "renewing"]
          /\ chan' = [chan EXCEPT ![h].down = Tail(@)]
      BY <1>11, <2>2 DEF hold_reply
    <3>2. /\ held'[h].pc = "renewing" /\ held'[h].open = held[h].open
          /\ chan'[h].up = chan[h].up /\ chan'[h].down = Tail(chan[h].down)
      BY <1>0, <3>1 DEF Process, Channel
    <3>3. /\ Len(chan'[h].down) = Len(chan[h].down) - 1 /\ Len(chan[h].down) # 0
          /\ chan[h].down[1] = "ok"
      BY <1>0, <3>1, <3>2, SMT
    <3>4. ~ Dead(h) => Granted(h)
      BY <1>0, <3>3 DEF Line, Requested, Refused
    <3>5. Granted(h) => Granted(h)'
      BY <1>0, <2>0, <3>2, <3>3, SMT DEF Granted
    <3> QED
      BY <1>10, <2>0, <3>2, <3>4, <3>5
  <2> QED BY <2>1, <2>2
<1>12. CASE first_renewal(h)
  <2>1. /\ UNCHANGED <<faulted, holding, chan>> /\ held[h].pc = "renewing"
        /\ held'[h].pc = "serving" /\ held'[h].open = held[h].open
    BY <1>0, <1>12 DEF first_renewal, bridge, Process
  <2>2. ~ Dead(h) => Granted(h)
    BY <1>0, <2>1 DEF Line, Requested, Refused
  <2>3. Granted(h) => Granted(h)'
    BY <1>0, <2>1 DEF Granted
  <2> QED
    BY <1>10, <2>1, <2>2, <2>3
<1>13. CASE serve(h)
  <2>0. UNCHANGED <<faulted, holding>> /\ held[h].pc = "serving" /\ chan[h].down # <<>>
    BY <1>13 DEF serve, bridge
  <2>1. CASE ~ Referenced(h)
    BY <1>9, <1>13, <2>0, <2>1 DEF serve
  <2>2. CASE Referenced(h)
    <3>1. PICK answer \in {"+", "-", "?"} :
            chan' = [chan EXCEPT ![h].down = Tail(@), ![h].up = Append(@, answer)]
      BY <1>13, <2>2 DEF serve
    <3>2. chan'[h].down = Tail(chan[h].down) /\ chan'[h].up = Append(chan[h].up, answer)
      BY <1>0, <3>1 DEF Channel
    <3>3. /\ Len(chan'[h].down) = Len(chan[h].down) - 1 /\ Len(chan[h].down) # 0
          /\ Len(chan'[h].up) = Len(chan[h].up) + 1
      BY <1>0, <2>0, <3>2, SMT
    <3>4. UNCHANGED held
      BY <1>13, <2>2 DEF serve
    <3>5. ~ Dead(h) => Granted(h)
      BY <1>0, <2>0 DEF Line, Requested, Refused
    <3>6. Granted(h) => Granted(h)'
      BY <1>0, <2>0, <3>3, <3>4, SMT DEF Granted
    <3> QED
      BY <1>10, <2>0, <3>4, <3>5, <3>6
  <2> QED BY <2>1, <2>2
<1>14. CASE serve_ended(h) \/ stopped(h)
  BY <1>9, <1>14 DEF serve_ended, stopped
<1> QED
  BY <1>7, <1>8, <1>11, <1>12, <1>13, <1>14

(***************************************************************************)
(* The theorems.                                                           *)
(***************************************************************************)
\* A bridge that has just started satisfies both invariants.
LEMMA BridgeStarts == Init => BridgeTypeOK /\ BridgeInv
<1> SUFFICES ASSUME Init PROVE BridgeTypeOK /\ BridgeInv
  OBVIOUS
<1> USE BridgeConstants
<1>1. NoArm \in ArmThread /\ NoHold \in HoldThread /\ NoCall \in CallThread
      /\ NoChan \in Channel /\ NoHeld \in Process
  BY SMT DEF NoArm, NoHold, NoCall, NoChan, NoHeld, ArmThread, HoldThread, CallThread, Channel, Process
<1>2. BridgeTypeOK
  BY <1>1 DEF Init, BridgeTypeOK, NoArm, NoHold, NoCall, NoHeld
<1>3. \A h \in Holds : Fresh(h) /\ Line(h)
  BY DEF Init, Fresh, Line, Dead, Seen, NoArm, NoHold, NoCall, NoHeld, NoChan
<1>4. Dialing /\ Releasing /\ HeldHasOneRoute
  BY DEF Init, Dialing, Releasing, HeldHasOneRoute, NoArm, NoHold, NoCall
<1> QED
  BY <1>2, <1>3, <1>4 DEF BridgeInv

\* Every step keeps the invariant.
LEMMA BridgeInvStep == BridgeTypeOK /\ BridgeInv /\ [Next]_vars => BridgeInv'
<1> SUFFICES ASSUME BridgeTypeOK, BridgeInv, [Next]_vars PROVE BridgeInv'
  OBVIOUS
<1>1. CASE Tick \/ UNCHANGED vars
  <2>1. /\ UNCHANGED <<holders, holding, call, dialer, chan, held, faulted>>
        /\ \A a \in Armers : /\ arming'[a].pc = arming[a].pc
                             /\ arming'[a].existing = arming[a].existing
    BY <1>1, SMT DEF Tick, vars, BridgeTypeOK, ArmThread
  <2>2. \A p \in Ports : ports[p] = 0 => ports'[p] = 0
    BY <1>1, SMT DEF Tick, vars
  <2>3. \A h \in Holds : Seen(h)' => Seen(h)
    BY <2>1 DEF Seen
  <2>4. \A h \in Holds : Fresh(h)' /\ Line(h)'
    BY <2>1, <2>3, SameLine DEF BridgeInv
  <2>5. Dialing' /\ Releasing' /\ HeldHasOneRoute'
    BY <2>1, <2>2 DEF BridgeInv, Dialing, Releasing, Dead, HeldHasOneRoute
  <2> QED
    BY <2>4, <2>5 DEF BridgeInv
<1> QED
  BY <1>1, ArmKeepsInv, HoldKeepsInv, CallKeepsInv, HeldKeepsInv DEF Next

\* Types and invariant hold throughout.
LEMMA BridgeInvariant == Spec => [](BridgeTypeOK /\ BridgeInv)
  BY BridgeStarts, BridgeTypeStep, BridgeInvStep, PTL DEF Spec

\* The bridge's maps, threads and processes always have their types
\* (bridge/armed.rs, port.rs).
THEOREM BridgeTypeCorrect == Spec => []BridgeTypeOK
  BY BridgeInvariant, PTL

\* However ARM and HOLD threads interleave between the two locks of armed.rs,
\* no lease is ever left under a holder.
THEOREM OneRoute == Spec => []HeldHasOneRoute
<1>1. BridgeInv => HeldHasOneRoute
  BY DEF BridgeInv
<1> QED
  BY <1>1, BridgeInvariant, PTL

\* No step takes a port from a holder that has its end open and has answered
\* its dials: `release` compares holders, and what it compares with is dead.
LEMMA LiveHolderStep ==
    ASSUME BridgeTypeOK, BridgeInv, [Next]_vars, NEW p \in Ports, NEW h \in Holds,
           holders[p] = h, holders'[p] # h
    PROVE  ~ held[h].open \/ faulted[h]
<1>0. holders \in [Ports -> Holds \cup {None}] /\ h # None
  BY BridgeConstants DEF BridgeTypeOK
<1>1. ASSUME NEW a \in Armers, arm_release(a) PROVE Dead(h)
  <2>1. arming[a].port \in Ports /\ release(arming[a].port, arming[a].existing)
    BY <1>1 DEF arm_release, BridgeTypeOK
  <2>2. h = arming[a].existing
    BY <1>0, <2>1, ReleaseShrinks
  <2> QED
    BY <1>1, <2>2 DEF arm_release, BridgeInv, Releasing
<1>2. ASSUME NEW g \in Holds, hold_release(g) PROVE Dead(h)
  <2>1. held[g].port \in Ports /\ release(held[g].port, holding[g].existing)
    BY <1>2 DEF hold_release, BridgeTypeOK
  <2>2. h = holding[g].existing
    BY <1>0, <2>1, ReleaseShrinks
  <2> QED
    BY <1>2, <2>2 DEF hold_release, BridgeInv, Releasing
<1>3. ASSUME NEW c \in Calls, connect_release(c) PROVE Dead(h)
  <2>1. call[c].port \in Ports /\ release(call[c].port, call[c].existing)
    BY <1>3 DEF connect_release, BridgeTypeOK
  <2>2. h = call[c].existing
    BY <1>0, <2>1, ReleaseShrinks
  <2> QED
    BY <1>3, <2>2 DEF connect_release, BridgeInv, Releasing
<1>4. ASSUME NEW g \in Holds, hold_look(g) PROVE FALSE
  BY <1>0, <1>4 DEF hold_look
<1>5. \/ \E a \in Armers : arm_release(a)
      \/ \E g \in Holds : hold_release(g) \/ hold_look(g)
      \/ \E c \in Calls : connect_release(c)
  <2>1. holders' # holders
    OBVIOUS
  <2> QED
    BY <2>1 DEF Next, vars, Tick, bridge, ArmStep, arm_request, arm_look, arm_peek, arm_insert,
                HoldStep, hold_peek, CallStep, accept_loop, handle, relay_ends, is_armed,
                connect_loopback, dial, dial_answer, dial_failed, hold, hold_reply, first_renewal,
                serve, serve_ended, stopped, restart
<1> QED
  BY <1>1, <1>2, <1>3, <1>4, <1>5 DEF Dead

\* A live holder is never displaced, by any thread and however late it is.
THEOREM LiveHolderStays == Spec => LiveHolderKept
<1>1. BridgeTypeOK /\ BridgeInv /\ [Next]_vars =>
        [\A p \in Ports, h \in Holds :
           holders[p] = h /\ holders'[p] # h => ~ held[h].open \/ faulted[h]]_vars
  BY LiveHolderStep
<1> QED
  BY <1>1, BridgeInvariant, PTL DEF Spec, LiveHolderKept

-----------------------------------------------------------------------------
(***************************************************************************)
(* What CallsAnswered and OrphanedHoldExits rest on, for every instance.   *)
(***************************************************************************)
\* Holder::is_alive never calls a live holder dead: outside a dial, the bridge
\* has nothing to read from a holder that has its end open and has answered.
AliveIsSeen ==
    \A h \in Holds : held[h].open /\ ~ faulted[h] /\ dialer[h] = None => is_alive(h)

\* The threads that want the control mutex of a holder.
WantsMutex(h) ==
    \/ \E a \in Armers : arming[a].pc = "peek" /\ arming[a].existing = h
    \/ \E g \in Holds : holding[g].pc = "peek" /\ holding[g].existing = h
    \/ \E c \in Calls : call[c].pc = "dial" /\ call[c].existing = h

\* Who waits for a holder's mutex waits for one connection that awaits the
\* answer of that holder: its next step, an answer or the timeout, frees the
\* mutex, and it wants no mutex itself.
NoChainOfWaits ==
    \A h \in Holds : WantsMutex(h) /\ dialer[h] # None =>
        \E c \in Calls : /\ dialer[h] = c /\ call[c].pc = "receive" /\ call[c].existing = h
                         /\ \A g \in Holds : dialer[g] = c => g = h

\* A peek between two dials sees every live holder alive (armed.rs, `arm` and
\* `hold`; holder.rs, `is_alive`).
THEOREM AliveIsAlive == Spec => []AliveIsSeen
<1>1. BridgeTypeOK /\ BridgeInv => AliveIsSeen
  BY DeadAtPeek DEF AliveIsSeen, Dead
<1> QED
  BY <1>1, BridgeInvariant, PTL

\* No thread keeps a holder's mutex past its dial, and none keeps two: threads
\* never wait for each other in a circle (armed.rs, `connect`; holder.rs, `dial`).
THEOREM MutexIsFreed == Spec => []NoChainOfWaits
<1>1. ASSUME BridgeTypeOK, BridgeInv PROVE NoChainOfWaits
  <2> SUFFICES ASSUME NEW h \in Holds, dialer[h] # None
               PROVE  \E c \in Calls : /\ dialer[h] = c /\ call[c].pc = "receive"
                                       /\ call[c].existing = h
                                       /\ \A g \in Holds : dialer[g] = c => g = h
    BY SMT DEF NoChainOfWaits
  <2>1. PICK c \in Calls : c = dialer[h]
    BY <1>1 DEF BridgeTypeOK
  <2>2. Dialing /\ c # None
    BY <1>1, <2>1 DEF BridgeInv
  <2>3. call[c].pc = "receive" /\ call[c].existing = h
    BY <2>1, <2>2 DEF Dialing
  <2>4. ASSUME NEW g \in Holds, dialer[g] = c PROVE g = h
    BY <2>2, <2>3, <2>4 DEF Dialing
  <2> QED
    BY <2>1, <2>3, <2>4
<1> QED
  BY <1>1, BridgeInvariant, PTL
=============================================================================
