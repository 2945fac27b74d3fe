---------------------------- MODULE BrokerProof ----------------------------
(***************************************************************************)
(* Proofs about Broker, for every value of its constants: any number of    *)
(* connections, sessions, terminals and keys, any time limits.  First the  *)
(* queue, the slot, LOCK and the touch; then what a handler waits on, the  *)
(* receipts, the cached reads and the number of pending requests.          *)
(***************************************************************************)
EXTENDS Broker, TLAPS

\* Zenon is the default prover of this module; a leaf that needs arithmetic,
\* records or a longer search says SMT.
USE Zenon

(***************************************************************************)
(* The queue's operations keep its type.                                   *)
(***************************************************************************)
LEMMA PushOK ==
    ASSUME NEW q, QueueOK(q), NEW scope \in Scopes, NEW key \in AllKeys,
           NEW ttl \in Ttls \cup {None}
    PROVE  QueueOK(push(q, scope, key, ttl))
<1> DEFINE p == push(q, scope, key, ttl)
           fresh == [scope |-> scope, key |-> key, state |-> "Pending", generation |-> 0,
                     age |-> 0, ttl |-> ttl]
<1>1. fresh \in Request
  BY QueueLimits, SMT DEF Request, RequestState, Horizon
<1>2. p.requests = [i \in DOMAIN q.requests \cup {q.next_id} |->
                      IF i = q.next_id THEN fresh ELSE q.requests[i]]
  BY DEF QueueOK, push
<1>3. p.requests \in [DOMAIN p.requests -> Request]
  BY <1>1, <1>2 DEF QueueOK
<1>4. p.next_id = q.next_id + 1 /\ p.next_id \in RequestIds
  BY SMT DEF QueueOK, push, RequestIds
<1>5. p \in [requests : {p.requests}, next_id : RequestIds, generation : Nat, inflight : Nat,
             cooling : 0..Cooldown]
  BY <1>4 DEF QueueOK, push
<1>6. \A i \in DOMAIN p.requests : i \in RequestIds /\ i < p.next_id
  BY <1>2, <1>4, SMT DEF QueueOK, RequestIds
<1> QED
  BY <1>3, <1>5, <1>6 DEF QueueOK

\* finish frees the slot and starts the cooldown; the queue keeps its type.
LEMMA FinishOK ==
    ASSUME NEW q, QueueOK(q), NEW id
    PROVE  QueueOK(finish(q, id))
<1> DEFINE p == finish(q, id)
<1>1. p.inflight \in Nat /\ p.cooling \in 0..Cooldown
  BY QueueLimits, SMT DEF QueueOK, NoRequest, finish
<1>2. p.requests = q.requests /\ p.next_id = q.next_id
  BY DEF QueueOK, finish
<1>3. p \in [requests : {p.requests}, next_id : RequestIds, generation : Nat, inflight : Nat,
             cooling : 0..Cooldown]
  BY <1>1, <1>2 DEF QueueOK, finish
<1> QED
  BY <1>2, <1>3 DEF QueueOK

\* mark_decrypting keeps the queue's type.
LEMMA MarkOK ==
    ASSUME NEW q, QueueOK(q), NEW id \in DOMAIN q.requests
    PROVE  QueueOK(mark_decrypting(q, id))
<1> DEFINE p == mark_decrypting(q, id)
<1>1. /\ p.requests = [q.requests EXCEPT ![id].state = "Decrypting",
                                         ![id].generation = q.generation + 1]
      /\ p.next_id = q.next_id
  BY DEF QueueOK, mark_decrypting
<1>2. p.requests \in [DOMAIN p.requests -> Request] /\ DOMAIN p.requests = DOMAIN q.requests
  BY <1>1, SMT DEF QueueOK, Request, RequestState
<1>3. p.generation \in Nat /\ p.inflight \in Nat
  BY SMT DEF QueueOK, mark_decrypting, RequestIds
<1>4. p \in [requests : {p.requests}, next_id : RequestIds, generation : Nat, inflight : Nat,
             cooling : 0..Cooldown]
  BY <1>3 DEF QueueOK, mark_decrypting
<1> QED
  BY <1>1, <1>2, <1>4 DEF QueueOK

\* complete keeps the queue's type.
LEMMA CompleteOK ==
    ASSUME NEW q, QueueOK(q), NEW id, NEW generation
    PROVE  QueueOK(complete(q, id, generation))
<1>1. ASSUME still_current(q, id, generation)
      PROVE  QueueOK([q EXCEPT !.requests[id].state = "Granted"])
  BY <1>1, SMT DEF QueueOK, still_current, state_of, Request, RequestIds, RequestState
<1> QED
  BY <1>1, FinishOK DEF complete

\* fail keeps the queue's type.
LEMMA FailOK ==
    ASSUME NEW q, QueueOK(q), NEW id
    PROVE  QueueOK(fail(q, id))
<1>1. ASSUME id \in DOMAIN q.requests
      PROVE  QueueOK([q EXCEPT !.requests[id].state = "Failed"])
  BY <1>1, SMT DEF QueueOK, Request, RequestIds, RequestState
<1> QED
  BY <1>1, FinishOK DEF fail

\* deny and timeout, through settle, keep the queue's type.
LEMMA SettleOK ==
    ASSUME NEW q, QueueOK(q), NEW id, NEW v \in RequestState
    PROVE  QueueOK(settle(q, id, v))
<1>1. ASSUME state_of(q, id) \in Unsettled
      PROVE  QueueOK([q EXCEPT !.requests[id].state = v, !.requests[id].generation = @ + 1])
  BY <1>1, SMT DEF QueueOK, state_of, Unsettled, Request, RequestIds
<1> QED
  BY <1>1, FinishOK DEF settle

\* sweep_timeouts keeps the queue's type.
LEMMA SweepOK ==
    ASSUME NEW q, QueueOK(q)
    PROVE  QueueOK(sweep_timeouts(q))
<1> DEFINE p == sweep_timeouts(q)
<1>1. /\ p.requests = [i \in DOMAIN q.requests |->
                         IF i \in expired(q)
                         THEN [q.requests[i] EXCEPT !.state = "TimedOut", !.generation = @ + 1]
                         ELSE q.requests[i]]
      /\ p.next_id = q.next_id
  BY DEF QueueOK, sweep_timeouts
<1>2. p.requests \in [DOMAIN p.requests -> Request] /\ DOMAIN p.requests = DOMAIN q.requests
  <2>1. ASSUME NEW i \in DOMAIN q.requests, i \in expired(q)
        PROVE  p.requests[i] \in Request
    <3>1. q.requests[i] \in Request
      BY DEF QueueOK
    <3>2. p.requests[i] = [q.requests[i] EXCEPT !.state = "TimedOut", !.generation = @ + 1]
      BY <1>1, <2>1
    <3>3. "TimedOut" \in RequestState /\ q.requests[i].generation + 1 \in Nat
      BY <3>1, SMT DEF Request, RequestState
    <3> HIDE DEF p
    <3> QED
      BY <3>1, <3>2, <3>3 DEF Request
  <2>2. ASSUME NEW i \in DOMAIN q.requests, i \notin expired(q)
        PROVE  p.requests[i] \in Request
    BY <1>1, <2>2 DEF QueueOK
  <2> QED
    BY <1>1, <2>1, <2>2
<1>3. p.inflight \in Nat /\ p.cooling \in 0..Cooldown
  BY QueueLimits, SMT DEF QueueOK, sweep_timeouts, NoRequest
<1>4. p \in [requests : {p.requests}, next_id : RequestIds, generation : Nat, inflight : Nat,
             cooling : 0..Cooldown]
  BY <1>3 DEF QueueOK, sweep_timeouts
<1> QED
  BY <1>1, <1>2, <1>4 DEF QueueOK

\* prune keeps the queue's type.
LEMMA PruneOK ==
    ASSUME NEW q, QueueOK(q)
    PROVE  QueueOK(prune(q))
  BY DEF QueueOK, prune, Request, RequestIds

\* The passing of time keeps the queue's type: an age stops at the horizon.
LEMMA ElapseOK ==
    ASSUME NEW q, QueueOK(q)
    PROVE  QueueOK(elapse(q))
<1> DEFINE p == elapse(q)
<1>1. /\ p.requests = [i \in DOMAIN q.requests |->
                         [q.requests[i] EXCEPT !.age = IF @ < Horizon THEN @ + 1 ELSE @]]
      /\ p.next_id = q.next_id
  BY DEF QueueOK, elapse
<1>2. p.requests \in [DOMAIN p.requests -> Request] /\ DOMAIN p.requests = DOMAIN q.requests
  <2>1. ASSUME NEW r \in Request
        PROVE  [r EXCEPT !.age = IF @ < Horizon THEN @ + 1 ELSE @] \in Request
    BY QueueLimits, SMT DEF Request, Horizon
  <2> QED
    BY <1>1, <2>1, SMT DEF QueueOK
<1>3. p.cooling \in 0..Cooldown
  BY QueueLimits, SMT DEF QueueOK, elapse
<1>4. p \in [requests : {p.requests}, next_id : RequestIds, generation : Nat, inflight : Nat,
             cooling : 0..Cooldown]
  BY <1>3 DEF QueueOK, elapse
<1> QED
  BY <1>1, <1>2, <1>4 DEF QueueOK

(***************************************************************************)
(* The handlers' bookkeeping keeps its type.                               *)
(***************************************************************************)
LEMMA IdleOK == Idle \in Handling
  BY QueueLimits, SMT DEF Idle, Handling, NoRequest

\* An answering handler keeps the type of the handlers.
LEMMA ReplyOK ==
    ASSUME ConnOK, NEW c \in Conns, NEW value \in Nat,
           NEW reply \in {"Refused", "Granted", "Value", "Receipt", "Denied", "TimedOut",
                          "Failed", "Internal"},
           reply_with(c, reply, value)
    PROVE  ConnOK'
<1> DEFINE r == [Idle EXCEPT !.pc = "done", !.id = conn[c].id, !.reply = reply,
                             !.asked = conn[c].asked, !.value = value]
<1>1. conn[c].id \in Nat /\ conn[c].asked \in Nat
  BY DEF ConnOK, Handling
<1>2. r \in Handling /\ r.pc = "done"
  BY <1>1, IdleOK DEF Handling
<1>3. conn' = [conn EXCEPT ![c] = r]
  BY DEF reply_with
<1> HIDE DEF r
<1> QED
  BY <1>2, <1>3 DEF ConnOK

\* The same of a bare answer.
LEMMA AnswerOK ==
    ASSUME ConnOK, NEW c \in Conns,
           NEW reply \in {"Refused", "Granted", "Value", "Receipt", "Denied", "TimedOut",
                          "Failed", "Internal"},
           answer(c, reply)
    PROVE  ConnOK'
  BY ReplyOK DEF answer

\* Registry::resolve leaves the handler refused or with a scope, and agent_ttys typed.
LEMMA ResolveOK ==
    ASSUME ConnOK, WorldOK, DOMAIN registry \subseteq Tokens, agent_ttys \subseteq Ttys,
           NEW c \in Conns, NEW access \in Access, NEW epoch \in Nat,
           access.op = "AUTHORIZE" => access.key \in Capabilities,
           resolve(c, access, epoch)
    PROVE  ConnOK' /\ agent_ttys' \subseteq Ttys
<1> DEFINE inside == /\ access.token \in DOMAIN registry
                     /\ descends_from(access.caller, registry[access.token].root)
           typed  == access.token = None /\ access.tty \in Ttys \ agent_ttys
           scope  == IF inside THEN access.token ELSE access.tty
           r == [Idle EXCEPT !.pc = "resolved", !.access = access, !.scope = scope,
                             !.epoch_before = epoch, !.asked = file[access.key].version]
           n == [Idle EXCEPT !.pc = "done", !.reply = "Refused"]
<1>1. conn' = [conn EXCEPT ![c] = IF inside \/ typed THEN r ELSE n]
  BY DEF resolve
<1>2. n \in Handling /\ n.pc = "done"
  BY IdleOK DEF Handling
<1>3. ASSUME inside \/ typed
      PROVE  r \in Handling /\ r.access = access /\ r.scope \in Scopes
  <2>1. scope \in Scopes
    BY <1>3 DEF Scopes
  <2>2. file[access.key].version \in Nat
    BY DEF WorldOK, Access
  <2> HIDE DEF scope
  <2> QED
    BY <2>1, <2>2, IdleOK DEF Handling
<1>4. agent_ttys' \subseteq Ttys
  BY DEF resolve
<1> HIDE DEF inside, typed, r, n
<1>5. CASE inside \/ typed
  BY <1>1, <1>3, <1>4, <1>5 DEF ConnOK
<1>6. CASE ~ (inside \/ typed)
  BY <1>1, <1>2, <1>4, <1>6 DEF ConnOK
<1> QED
  BY <1>5, <1>6

\* The record of verdicts holds terminal states only.
LEMMA VerdictOK ==
    ASSUME QueueOK(queue)', verdict \in [DOMAIN verdict -> Terminal], RecordVerdict
    PROVE  verdict' \in [DOMAIN verdict' -> Terminal]
  BY DEF RecordVerdict

\* kill_active keeps active_decrypt and the child typed.
LEMMA KillOK ==
    ASSUME active_decrypt \in Nat, child \in Child, NEW ids, kill_active(ids)
    PROVE  active_decrypt' \in Nat /\ child' \in Child
  BY DEF kill_active, Child, NoRequest

(***************************************************************************)
(* Every action keeps the type invariant.                                  *)
(***************************************************************************)
LEMMA HandlerTypeOK ==
    ASSUME TypeOK, NEW c \in Conns, Handler(c)
    PROVE  TypeOK'
<1> USE DEF TypeOK
<1>1. CASE Get(c)
  <2> PICK access \in Access :
        /\ access.op # "AUTHORIZE"
        /\ IF access.key \in Capabilities
           THEN answer(c, "Refused") /\ UNCHANGED agent_ttys
           ELSE resolve(c, access, 0)
    BY <1>1 DEF Get
  <2>1. ConnOK' /\ agent_ttys' \subseteq Ttys
    BY AnswerOK, ResolveOK DEF StateOK
  <2> QED
    BY <1>1, <2>1 DEF Get, StateOK, WorkerOK, WorldOK, world
<1>2. CASE authorize(c)
  <2> PICK access \in Access :
        /\ access.op = "AUTHORIZE" /\ access.key \in Capabilities
        /\ conn' = [conn EXCEPT ![c] = [Idle EXCEPT !.pc = "authorize", !.access = access,
                                                    !.epoch_before = lock_epoch]]
    BY <1>2 DEF authorize
  <2> DEFINE r == [Idle EXCEPT !.pc = "authorize", !.access = access, !.epoch_before = lock_epoch]
  <2>1. r \in Handling /\ r.pc = "authorize" /\ r.access = access
    BY IdleOK DEF Handling, StateOK
  <2>0. conn' = [conn EXCEPT ![c] = r]
    OBVIOUS
  <2> HIDE DEF r
  <2>2. ConnOK'
    BY <2>0, <2>1 DEF ConnOK
  <2>3. UNCHANGED <<shared, worker, child, world, registrations, verdict>>
    BY <1>2 DEF authorize
  <2> QED
    BY <2>2, <2>3 DEF StateOK, WorkerOK, WorldOK, world, shared
<1>3. CASE authorize_resolve(c)
  <2>1. conn[c].epoch_before \in Nat
    BY DEF ConnOK, Handling
  <2>2. ConnOK' /\ agent_ttys' \subseteq Ttys
    BY <1>3, <2>1, ResolveOK DEF authorize_resolve, ConnOK, StateOK
  <2> QED
    BY <1>3, <2>2 DEF authorize_resolve, StateOK, WorkerOK, WorldOK, world
<1>4. CASE await_approval(c)
  <2> DEFINE scope == conn[c].scope
             key   == conn[c].access.key
             wait(id) == conn' = [conn EXCEPT ![c] = [@ EXCEPT !.pc = "waiting", !.id = id,
                                                               !.left = RequestTtl + 1]]
  <2>1. conn[c].pc = "resolved" /\ scope \in Scopes /\ key \in AllKeys
        /\ conn[c].access.ttl \in Ttls \cup {None}
    BY <1>4 DEF await_approval, ConnOK, Access
  <2>2. ASSUME NEW id \in Nat, wait(id)
        PROVE  ConnOK'
    <3> DEFINE r == [conn[c] EXCEPT !.pc = "waiting", !.id = id, !.left = RequestTtl + 1]
    <3>0. conn[c] \in Handling /\ RequestTtl + 1 \in 0..(RequestTtl + 1)
      BY QueueLimits, SMT DEF ConnOK
    <3>1. r \in Handling /\ r.access = conn[c].access /\ r.scope = conn[c].scope
      BY <3>0 DEF Handling
    <3>2. conn' = [conn EXCEPT ![c] = r]
      BY <2>2
    <3> HIDE DEF r
    <3> QED
      BY <2>1, <3>1, <3>2 DEF ConnOK
  <2>3. grants' \subseteq Grant
    BY <1>4 DEF await_approval, serve_cached, queue_ceremony, others, StateOK
  <2>4. QueueOK(queue)' /\ ConnOK'
    <3>1. CASE serve_cached(c)
      BY <2>1, <3>1, SMT DEF serve_cached, ConnOK, Handling, StateOK, QueueOK
    <3>2. CASE answer(c, "Refused") /\ UNCHANGED queue
      BY <3>2, AnswerOK DEF StateOK, QueueOK
    <3>3. CASE UNCHANGED queue /\ \E id \in twins(queue, scope, key) : wait(id)
      <4>1. twins(queue, scope, key) \subseteq Nat
        BY DEF twins, unsettled, StateOK, QueueOK, RequestIds
      <4> QED
        BY <2>2, <3>3, <4>1 DEF StateOK, QueueOK
    <3>4. CASE /\ wait(queue.next_id)
               /\ queue' = push(queue, scope, key, conn[c].access.ttl)
      <4>2. QueueOK(push(queue, scope, key, conn[c].access.ttl))
        BY <2>1, PushOK DEF StateOK
      <4>3. queue.next_id \in Nat
        BY DEF StateOK, QueueOK, RequestIds
      <4>4. QueueOK(queue')
        BY <3>4, <4>2
      <4> QED
        BY <2>2, <3>4, <4>3, <4>4 DEF QueueOK
    <3> QED
      BY <1>4, <3>1, <3>2, <3>3, <3>4 DEF await_approval, queue_ceremony
  <2> QED
    BY <1>4, <2>3, <2>4 DEF await_approval, StateOK, WorkerOK, WorldOK, world
<1>5. CASE observe(c)
  <2> DEFINE id == conn[c].id
             st == state_of(queue, id)
  <2>1. QueueOK(queue)' /\ active_decrypt' \in Nat /\ child' \in Child
    <3>1. CASE UNCHANGED <<queue, active_decrypt, child>>
      BY <3>1 DEF StateOK, WorkerOK, QueueOK
    <3>2. CASE queue' = timeout(queue, id) /\ kill_active({id})
      <4>1. QueueOK(queue')
        BY <3>2, SettleOK DEF timeout, StateOK, RequestState
      <4> QED
        BY <3>2, <4>1, KillOK DEF StateOK, WorkerOK, QueueOK
    <3> QED
      BY <1>5, <3>1, <3>2 DEF observe
  <2>2. ConnOK'
    <3>1. CASE /\ conn[c].pc = "waiting"
               /\ conn' = [conn EXCEPT ![c] = [@ EXCEPT !.pc = "granted", !.left = 0]]
      <4> DEFINE r == [conn[c] EXCEPT !.pc = "granted", !.left = 0]
      <4>0. conn[c] \in Handling /\ 0 \in 0..(RequestTtl + 1)
        BY QueueLimits, SMT DEF ConnOK
      <4>1. r \in Handling /\ r.access = conn[c].access /\ r.scope = conn[c].scope
        BY <4>0 DEF Handling
      <4>2. conn' = [conn EXCEPT ![c] = r]
        BY <3>1
      <4> HIDE DEF r
      <4> QED
        BY <3>1, <4>1, <4>2 DEF ConnOK
    <3>2. CASE answer(c, refusal(id, st)) \/ answer(c, "TimedOut")
      <4>1. refusal(id, st) \in {"Denied", "TimedOut", "Failed", "Internal"}
        BY DEF refusal
      <4> QED
        BY <3>2, <4>1, AnswerOK
    <3> QED
      BY <1>5, <3>1, <3>2 DEF observe
  <2>3. verdict' \in [DOMAIN verdict' -> Terminal]
    BY <1>5, <2>1, VerdictOK DEF observe, StateOK
  <2> QED
    BY <1>5, <2>1, <2>2, <2>3 DEF observe, StateOK, WorkerOK, WorldOK, world
<1>6. CASE deliver(c)
  <2>1. ConnOK' /\ receipts' \subseteq Receipt
    <3>1. CASE read_value(c) /\ UNCHANGED receipts
      <4>1. \A g \in lookup(conn[c].scope, conn[c].access.key) : g.version \in Nat
        BY DEF lookup, StateOK, Grant
      <4> QED
        BY <3>1, <4>1, ReplyOK, AnswerOK DEF read_value, StateOK
    <3>2. CASE conn[c].pc = "granted" /\ mints(c) /\ finish_authorization(c)
      <4> DEFINE r == [request |-> conn[c].id, cap |-> conn[c].access.key,
                       left |-> ReceiptTtl, epoch |-> conn[c].epoch_before]
      <4>1. r \in Receipt
        BY <3>2, BrokerConfig
           DEF mints, ConnOK, Handling, Receipt, RequestIds, NoRequest
      <4>2. sweep(receipts) \subseteq Receipt
        BY DEF sweep, StateOK
      <4>3. receipts' \subseteq Receipt
        BY <3>2, <4>1, <4>2 DEF finish_authorization, mint, StateOK
      <4> QED
        BY <3>2, <4>3, AnswerOK DEF finish_authorization
    <3>3. CASE answer(c, "Granted") /\ UNCHANGED receipts
      BY <3>3, AnswerOK DEF StateOK
    <3> QED
      BY <1>6, <3>1, <3>2, <3>3 DEF deliver
  <2> QED
    BY <1>6, <2>1 DEF deliver, StateOK, WorkerOK, WorldOK, world, QueueOK
<1>7. CASE Reply(c)
  <2>1. ConnOK'
    BY <1>7, IdleOK DEF Reply, ConnOK, Idle
  <2> QED
    BY <1>7, <2>1 DEF Reply, StateOK, WorkerOK, WorldOK, world, shared
<1> QED
  BY <1>1, <1>2, <1>3, <1>4, <1>5, <1>6, <1>7 DEF Handler

\* A worker between jobs is well typed.
LEMMA NoJobOK == JobOK(NoJob)
  BY DEF JobOK, NoJob, Job, NoRequest

\* The control operations (REDEEM, REGISTER, UNREGISTER, DENY, LOCK) keep the type.
LEMMA ControlTypeOK ==
    ASSUME TypeOK, Control
    PROVE  TypeOK'
<1> USE DEF TypeOK
<1>1. CASE redeem
  <2> PICK r \in receipts, expected_cap \in Capabilities :
         IF r.left > 0 /\ r.cap = expected_cap
         THEN /\ receipts' = sweep(receipts) \ {r}
              /\ capability_grants' = capability_grants \cup
                   {[request |-> r.request, left |-> MaxGrant, epoch |-> r.epoch]}
         ELSE receipts' = sweep(receipts) /\ UNCHANGED capability_grants
    BY <1>1 DEF redeem, redeemable, insert_capability
  <2>1. [request |-> r.request, left |-> MaxGrant, epoch |-> r.epoch] \in CapabilityGrant
    BY BrokerConfig DEF StateOK, Receipt, CapabilityGrant
  <2>2. receipts' \subseteq Receipt /\ capability_grants' \subseteq CapabilityGrant
    BY <2>1 DEF StateOK, sweep
  <2> QED
    BY <1>1, <2>2 DEF redeem, StateOK, WorkerOK, ConnOK, WorldOK, world
<1>2. CASE register
  <2> PICK token \in Tokens \ DOMAIN registry, session \in Sessions, root \in Roots :
        LET displaced == {t \in DOMAIN registry : registry[t].session = session} IN
        /\ registrations' = registrations + 1
        /\ registry' = [t \in (DOMAIN registry \ displaced) \cup {token} |->
                          IF t = token
                          THEN [session |-> session, root |-> root]
                          ELSE registry[t]]
        /\ grants' = revoke_tokens(grants, displaced)
        /\ UNCHANGED <<queue, receipts, capability_grants, agent_ttys, lock_epoch, failures,
                       active_decrypt, worker, child, conn, world, verdict>>
    BY <1>2, ZenonT(60) DEF register, registered, tokens_of
  <2>1. [session |-> session, root |-> root] \in Registration
    BY DEF StateOK, Registration
  <2>2. DOMAIN registry' \subseteq Tokens /\ registry' \in [DOMAIN registry' -> Registration]
    BY <2>1 DEF StateOK
  <2>3. grants' \subseteq Grant /\ registrations' \in Nat
    BY SMT DEF StateOK, revoke_tokens
  <2> QED
    BY <2>2, <2>3 DEF StateOK, WorkerOK, ConnOK, WorldOK, world
<1>3. CASE unregister
  <2>1. /\ DOMAIN registry' \subseteq Tokens /\ registry' \in [DOMAIN registry' -> Registration]
        /\ grants' \subseteq Grant
    BY <1>3 DEF unregister, StateOK, revoke_tokens
  <2>2. UNCHANGED <<queue, receipts, capability_grants, agent_ttys, lock_epoch, failures,
                    active_decrypt, worker, child, conn, world, registrations, verdict>>
    BY <1>3 DEF unregister
  <2> QED
    BY <2>1, <2>2 DEF StateOK, WorkerOK, ConnOK, WorldOK, world
<1>4. CASE deny_request
  <2> PICK id \in unsettled(queue) : queue' = deny(queue, id) /\ kill_active({id})
    BY <1>4 DEF deny_request
  <2>1. QueueOK(queue')
    BY SettleOK DEF deny, StateOK, RequestState
  <2>2. active_decrypt' \in Nat /\ child' \in Child
    BY KillOK DEF StateOK, WorkerOK
  <2>3. QueueOK(queue)' /\ verdict' \in [DOMAIN verdict' -> Terminal]
    BY <1>4, <2>1, VerdictOK DEF deny_request, StateOK, QueueOK
  <2> QED
    BY <1>4, <2>2, <2>3 DEF deny_request, StateOK, WorkerOK, ConnOK, WorldOK, world
<1>5. CASE lock
  <2>1. QueueOK(queue')
    BY <1>5, SettleOK DEF lock, deny, StateOK, RequestState
  <2>2. active_decrypt' \in Nat /\ child' \in Child
    BY <1>5, KillOK DEF lock, StateOK, WorkerOK
  <2>3. QueueOK(queue)' /\ verdict' \in [DOMAIN verdict' -> Terminal]
    BY <1>5, <2>1, VerdictOK DEF lock, StateOK, QueueOK
  <2>4. /\ grants' = {} /\ receipts' = {} /\ capability_grants' = {} /\ lock_epoch' \in Nat
        /\ UNCHANGED <<registry, agent_ttys, failures, worker, conn, world, registrations>>
    BY <1>5, SMT DEF lock, StateOK
  <2> QED
    BY <2>2, <2>3, <2>4 DEF StateOK, WorkerOK, ConnOK, WorldOK, world
<1> QED
  BY <1>1, <1>2, <1>3, <1>4, <1>5 DEF Control

\* The worker thread's steps keep the type.
LEMMA WorkerTypeOK ==
    ASSUME TypeOK, Worker
    PROVE  TypeOK'
<1> USE DEF TypeOK
<1>1. CASE scan
  <2> DEFINE q == prune(sweep_timeouts(queue))
  <2>1. QueueOK(q)
    BY SweepOK, PruneOK DEF StateOK
  <2>2. /\ grants' \subseteq Grant /\ receipts' \subseteq Receipt
        /\ capability_grants' \subseteq CapabilityGrant
        /\ failures' \subseteq RequestIds
    BY <1>1 DEF scan, sweep, revoke_missing_ttys, StateOK
  <2>3. active_decrypt' \in Nat /\ child' \in Child
    BY <1>1, KillOK DEF scan, StateOK, WorkerOK
  <2>4. QueueOK(queue') /\ JobOK(worker')
    <3>1. CASE queue' = q /\ UNCHANGED worker
      BY <2>1, <3>1 DEF WorkerOK, JobOK
    <3>2. ASSUME NEW id \in DOMAIN q.requests, queue' = mark_decrypting(q, id), worker' = job(q, id)
          PROVE  QueueOK(queue') /\ JobOK(worker')
      <4>1. q.requests[id] \in Request /\ id \in RequestIds /\ q.generation + 1 \in Nat
        BY <2>1, SMT DEF QueueOK
      <4>2. QueueOK(queue')
        BY <2>1, <3>2, MarkOK
      <4> HIDE DEF q
      <4>3. lock_epoch \in Nat
        BY DEF StateOK
      <4> QED
        BY <3>2, <4>1, <4>2, <4>3 DEF job, Job, JobOK, Request, RequestIds
    <3>3. \/ queue' = q /\ UNCHANGED worker
          \/ \E id \in DOMAIN q.requests :
               queue' = mark_decrypting(q, id) /\ worker' = job(q, id)
      BY <1>1 DEF scan
    <3> HIDE DEF q
    <3> QED
      BY <3>1, <3>2, <3>3
  <2>5. QueueOK(queue)' /\ verdict' \in [DOMAIN verdict' -> Terminal]
    BY <1>1, <2>4, VerdictOK DEF scan, StateOK, QueueOK
  <2>6. UNCHANGED <<registry, agent_ttys, lock_epoch, conn, world, registrations>>
    BY <1>1 DEF scan
  <2> HIDE DEF q
  <2> QED
    BY <2>2, <2>3, <2>4, <2>5, <2>6 DEF StateOK, WorkerOK, JobOK, ConnOK, WorldOK, world
<1>2. CASE spawn
  <2>1. JobOK(worker') /\ child' \in Child
    <3>1. CASE worker' = [worker EXCEPT !.pc = "failed"] /\ UNCHANGED child
      BY <1>2, <3>1 DEF spawn, WorkerOK, JobOK, Job
    <3>2. CASE /\ worker' = [worker EXCEPT !.pc = "spawned", !.version = file[worker.key].version]
               /\ child' = [child EXCEPT !.state = "running", !.touched = FALSE]
      <4>1. file[worker.key].version \in Nat
        BY <1>2 DEF spawn, WorkerOK, JobOK, WorldOK
      <4>2. child' \in Child
        BY <3>2 DEF WorkerOK, Child
      <4> QED
        BY <1>2, <3>2, <4>1, <4>2 DEF spawn, WorkerOK, JobOK, Job
    <3> QED
      BY <1>2, <3>1, <3>2 DEF spawn
  <2> QED
    BY <1>2, <2>1 DEF spawn, StateOK, WorkerOK, JobOK, ConnOK, WorldOK, world, shared
<1>3. CASE on_started
  <2>1. JobOK(worker')
    BY <1>3 DEF on_started, WorkerOK, JobOK, Job
  <2>2. active_decrypt' \in Nat /\ child' \in Child
    BY <1>3 DEF on_started, StateOK, WorkerOK, JobOK, Job, Child
  <2>3. UNCHANGED <<queue, grants, receipts, capability_grants, registry, agent_ttys, lock_epoch,
                    failures, conn, world, registrations, verdict>>
    BY <1>3 DEF on_started
  <2> QED
    BY <2>1, <2>2, <2>3 DEF StateOK, WorkerOK, JobOK, ConnOK, WorldOK, world
<1>4. CASE finish_decrypt
  <2>1. worker.pc # "scan" /\ JobOK(worker)
    BY <1>4 DEF finish_decrypt, WorkerOK
  <2>2. QueueOK(queue') /\ grants' \subseteq Grant /\ failures' \subseteq RequestIds
    <3>1. CASE install
      <4> DEFINE q == IF lock_epoch # worker.lock_epoch \/ ~ session_is_active
                      THEN deny(queue, worker.id) ELSE queue
      <4>1. QueueOK(q)
        BY SettleOK DEF deny, StateOK, RequestState
      <4>2. QueueOK(queue')
        BY <3>1, <4>1, CompleteOK DEF install
      <4>3. effective_grant_ttl(worker.ttl) \in Nat
        BY <2>1, BrokerConfig DEF effective_grant_ttl, JobOK, Job
      <4>4. new_grant \in Grant
        BY <2>1, <4>3 DEF new_grant, Grant, JobOK, Job
      <4>5. grants' \subseteq Grant /\ UNCHANGED failures
        BY <3>1, <4>4 DEF install, others, StateOK
      <4> QED
        BY <4>2, <4>5 DEF StateOK
    <3>2. CASE record_failure
      BY <2>1, <3>2, FailOK DEF record_failure, JobOK, StateOK
    <3> QED
      BY <1>4, <3>1, <3>2 DEF finish_decrypt
  <2>3. active_decrypt' \in Nat /\ child' \in Child
    BY <1>4 DEF finish_decrypt, StateOK, WorkerOK, Child, NoRequest
  <2>4. JobOK(worker')
    BY <1>4, NoJobOK DEF finish_decrypt
  <2>5. QueueOK(queue)' /\ verdict' \in [DOMAIN verdict' -> Terminal]
    BY <1>4, <2>2, VerdictOK DEF finish_decrypt, StateOK, QueueOK
  <2>6. UNCHANGED <<receipts, capability_grants, registry, agent_ttys, lock_epoch, conn, world,
                    registrations>>
    BY <1>4 DEF finish_decrypt
  <2> QED
    BY <2>2, <2>3, <2>4, <2>5, <2>6 DEF StateOK, WorkerOK, JobOK, ConnOK, WorldOK, world
<1> QED
  BY <1>1, <1>2, <1>3, <1>4 DEF Worker

\* Steps of the outside world, and time, keep the type.
LEMMA WorldTypeOK ==
    ASSUME TypeOK, World
    PROVE  TypeOK'
<1> USE DEF TypeOK
<1>1. CASE touch \/ sops_succeeds \/ sops_fails
  <2>1. child' \in Child
    <3>1. TouchCache \in 0..TouchCache
      BY BrokerConfig, SMT
    <3>2. CASE touch
      BY <3>1, <3>2 DEF touch, WorkerOK, Child
    <3>3. CASE sops_succeeds \/ sops_fails
      BY <3>3 DEF sops_succeeds, sops_fails, WorkerOK, Child
    <3> QED
      BY <1>1, <3>2, <3>3
  <2>2. UNCHANGED <<shared, worker, conn, world, registrations, verdict>>
    BY <1>1 DEF touch, sops_succeeds, sops_fails
  <2> QED
    BY <2>1, <2>2 DEF StateOK, WorkerOK, JobOK, ConnOK, WorldOK, world, shared
<1>2. CASE edit_file \/ root_dies \/ tty_vanishes \/ tty_reopens
  <2>1. WorldOK'
    <3>1. CASE edit_file
      <4> PICK key \in AllKeys, present \in BOOLEAN :
            file' = [file EXCEPT ![key] = [present |-> present, version |-> @.version + 1]]
        BY <3>1 DEF edit_file
      <4>1. file' \in [AllKeys -> [present : BOOLEAN, version : Nat]]
        BY SMT DEF WorldOK
      <4> QED
        BY <3>1, <4>1 DEF edit_file, WorldOK
    <3>2. CASE root_dies
      BY <3>2 DEF root_dies, WorldOK
    <3>3. CASE tty_vanishes
      BY <3>3 DEF tty_vanishes, WorldOK
    <3>4. CASE tty_reopens
      BY <3>4 DEF tty_reopens, WorldOK
    <3> QED
      BY <1>2, <3>1, <3>2, <3>3, <3>4
  <2>2. UNCHANGED <<shared, worker, child, conn, registrations, verdict>>
    BY <1>2 DEF edit_file, root_dies, tty_vanishes, tty_reopens
  <2> QED
    BY <2>1, <2>2 DEF StateOK, WorkerOK, JobOK, ConnOK, shared
<1>3. CASE Tick
  <2>1. QueueOK(queue')
    BY <1>3, ElapseOK DEF Tick, StateOK
  <2>2. grants' \subseteq Grant
    BY <1>3, SMT DEF Tick, age, less, StateOK, Grant
  <2>3. receipts' \subseteq Receipt /\ capability_grants' \subseteq CapabilityGrant
    BY <1>3, SMT DEF Tick, age, less, StateOK, Receipt, CapabilityGrant
  <2>4. child' \in Child
    BY <1>3, BrokerConfig, SMT DEF Tick, less, WorkerOK, Child
  <2>5. ConnOK'
    <3>1. ASSUME NEW r \in Handling
          PROVE  /\ [r EXCEPT !.left = less(@)] \in Handling
                 /\ [r EXCEPT !.left = less(@)].pc = r.pc
                 /\ [r EXCEPT !.left = less(@)].access = r.access
                 /\ [r EXCEPT !.left = less(@)].scope = r.scope
      BY QueueLimits, SMT DEF Handling, less
    <3>2. conn' = [c \in Conns |-> [conn[c] EXCEPT !.left = less(@)]]
      BY <1>3 DEF Tick
    <3> QED
      BY <3>1, <3>2 DEF ConnOK
  <2>6. UNCHANGED <<registry, agent_ttys, lock_epoch, failures, active_decrypt, worker, world,
                    registrations, verdict>>
    BY <1>3 DEF Tick
  <2> QED
    BY <2>1, <2>2, <2>3, <2>4, <2>5, <2>6 DEF StateOK, WorkerOK, JobOK, QueueOK, WorldOK, world
<1> QED
  BY <1>1, <1>2, <1>3 DEF World

\* Every reachable state of the broker is well typed, and its handlers and its
\* worker have the locals their place in the code needs.
THEOREM TypeCorrect == Spec => []TypeOK
<1>1. Init => TypeOK
  <2> SUFFICES ASSUME Init PROVE TypeOK
    OBVIOUS
  <2>1. StateOK
    BY QueueLimits, SMT DEF Init, StateOK, QueueOK, new, RequestIds, NoRequest, Request, Registration
  <2>2. WorkerOK
    BY NoJobOK, BrokerConfig, SMT DEF Init, WorkerOK, NoChild, Child
  <2>3. ConnOK
    BY IdleOK DEF Init, ConnOK, Idle
  <2>4. WorldOK
    BY DEF Init, WorldOK
  <2> QED
    BY <2>1, <2>2, <2>3, <2>4 DEF TypeOK
<1>2. TypeOK /\ [Next]_vars => TypeOK'
  <2> SUFFICES ASSUME TypeOK, [Next]_vars PROVE TypeOK'
    OBVIOUS
  <2>1. CASE UNCHANGED vars
    BY <2>1 DEF vars, TypeOK, StateOK, WorkerOK, JobOK, ConnOK, WorldOK, QueueOK
  <2> QED
    BY <2>1, HandlerTypeOK, ControlTypeOK, WorkerTypeOK, WorldTypeOK DEF Next
<1> QED
  BY <1>1, <1>2, PTL DEF Spec

-----------------------------------------------------------------------------
(***************************************************************************)
(* LOCK and the end of a session.                                          *)
(***************************************************************************)
LEMMA DeniedNotCurrent ==
    ASSUME NEW q, QueueOK(q), NEW id, NEW generation
    PROVE  ~ still_current(deny(q, id), id, generation)
<1>1. CASE state_of(q, id) \in Unsettled
  <2>1. id \in DOMAIN q.requests
    BY <1>1 DEF state_of, Unsettled
  <2>2. deny(q, id).requests = [q.requests EXCEPT ![id].state = "Denied", ![id].generation = @ + 1]
    BY <1>1 DEF deny, settle, finish, QueueOK
  <2>3. state_of(deny(q, id), id) = "Denied"
    BY <2>1, <2>2, SMT DEF state_of, QueueOK, Request
  <2> QED
    BY <2>3 DEF still_current
<1>2. CASE state_of(q, id) \notin Unsettled
  BY <1>2 DEF deny, settle, still_current, Unsettled
<1> QED
  BY <1>1, <1>2

\* What a step can do to the grants: drop some, age them, or install the one
\* the worker has just decrypted, which it does only in the epoch it started
\* in and only while whoever asked is still there.
LEMMA GrantStep ==
    ASSUME TypeOK, [Next]_vars
    PROVE  \/ grants' \subseteq grants
           \/ Tick
           \/ /\ finish_decrypt /\ install
              /\ grants' \subseteq grants \cup {new_grant}
              /\ lock_epoch = worker.lock_epoch /\ session_is_active
<1>1. CASE UNCHANGED vars
  BY <1>1 DEF vars
<1>2. ASSUME NEW c \in Conns, Handler(c)
      PROVE  grants' \subseteq grants
  BY <1>2 DEF Handler, Get, authorize, authorize_resolve, await_approval, serve_cached,
              queue_ceremony, others, observe, deliver, Reply, shared
<1>3. CASE Control
  BY <1>3 DEF Control, redeem, register, unregister, deny_request, lock, revoke_tokens
<1>4. CASE scan \/ spawn \/ on_started
  BY <1>4 DEF scan, sweep, revoke_missing_ttys, spawn, on_started, shared
<1>5. CASE finish_decrypt
  <2>1. CASE record_failure
    BY <2>1 DEF record_failure
  <2>2. CASE install /\ (lock_epoch # worker.lock_epoch \/ ~ session_is_active)
    <3>1. ~ still_current(deny(queue, worker.id), worker.id, worker.generation)
      BY DeniedNotCurrent DEF TypeOK, StateOK
    <3> QED
      BY <2>2, <3>1 DEF install
  <2>3. CASE install /\ lock_epoch = worker.lock_epoch /\ session_is_active
    BY <1>5, <2>3 DEF install, others
  <2> QED
    BY <1>5, <2>1, <2>2, <2>3 DEF finish_decrypt
<1>6. CASE World
  BY <1>6 DEF World, touch, sops_succeeds, sops_fails, edit_file, root_dies, tty_vanishes,
              tty_reopens, shared
<1> QED
  BY <1>1, <1>2, <1>3, <1>4, <1>5, <1>6 DEF Next, Worker

\* What a step can do to receipts and redeemed capabilities: besides dropping
\* or ageing them, mint one for an authorization that no LOCK interrupted, or
\* turn a receipt into a capability.
LEMMA ReceiptStep ==
    ASSUME [Next]_vars
    PROVE  \/ Tick
           \/ receipts' \subseteq receipts /\ capability_grants' \subseteq capability_grants
           \/ /\ capability_grants' = capability_grants
              /\ \E c \in Conns :
                   /\ deliver(c) /\ conn[c].pc = "granted" /\ mints(c) /\ lock_epoch = conn[c].epoch_before
                   /\ receipts' \subseteq receipts \cup
                        {[request |-> conn[c].id, cap |-> conn[c].access.key,
                          left |-> ReceiptTtl, epoch |-> conn[c].epoch_before]}
           \/ \E r \in receipts :
                /\ receipts' \subseteq receipts \ {r}
                /\ capability_grants' = capability_grants \cup
                     {[request |-> r.request, left |-> MaxGrant, epoch |-> r.epoch]}
<1>1. CASE UNCHANGED vars
  BY <1>1 DEF vars
<1>2. ASSUME NEW c \in Conns, Handler(c), ~ deliver(c)
      PROVE  UNCHANGED <<receipts, capability_grants>>
  BY <1>2 DEF Handler, Get, authorize, authorize_resolve, await_approval, observe, Reply, shared
<1>3. ASSUME NEW c \in Conns, deliver(c), ~ (receipts' \subseteq receipts)
      PROVE  /\ capability_grants' = capability_grants
             /\ conn[c].pc = "granted" /\ mints(c) /\ lock_epoch = conn[c].epoch_before
             /\ receipts' \subseteq receipts \cup
                  {[request |-> conn[c].id, cap |-> conn[c].access.key,
                    left |-> ReceiptTtl, epoch |-> conn[c].epoch_before]}
  BY <1>3 DEF deliver, finish_authorization, mint, sweep
<1>4. ASSUME NEW c \in Conns, deliver(c)
      PROVE  capability_grants' = capability_grants
  BY <1>4 DEF deliver
<1>5. CASE Control /\ ~ redeem
  BY <1>5 DEF Control, register, unregister, deny_request, lock
<1>6. CASE redeem
  BY <1>6 DEF redeem, redeemable, insert_capability, sweep
<1>7. CASE Worker
  BY <1>7 DEF Worker, scan, sweep, spawn, on_started, finish_decrypt, shared
<1>8. CASE World /\ ~ Tick
  BY <1>8 DEF World, touch, sops_succeeds, sops_fails, edit_file, root_dies, tty_vanishes,
              tty_reopens, shared
<1> QED
  BY <1>1, <1>2, <1>3, <1>4, <1>5, <1>6, <1>7, <1>8 DEF Next, Control, World

\* Only LOCK changes lock_epoch.
LEMMA EpochStep ==
    ASSUME [Next]_vars, ~ lock
    PROVE  lock_epoch' = lock_epoch
<1>1. CASE UNCHANGED vars
  BY <1>1 DEF vars
<1>2. ASSUME NEW c \in Conns, Handler(c)
      PROVE  lock_epoch' = lock_epoch
  BY <1>2 DEF Handler, Get, authorize, authorize_resolve, await_approval, observe, deliver, Reply,
              shared
<1>3. CASE Control
  BY <1>3 DEF Control, redeem, register, unregister, deny_request
<1>4. CASE Worker
  BY <1>4 DEF Worker, scan, spawn, on_started, finish_decrypt, shared
<1>5. CASE World
  BY <1>5 DEF World, touch, sops_succeeds, sops_fails, edit_file, root_dies, tty_vanishes,
              tty_reopens, Tick, shared
<1> QED
  BY <1>1, <1>2, <1>3, <1>4, <1>5 DEF Next

\* Only REGISTER and UNREGISTER change the registry.
LEMMA RegistryStep ==
    ASSUME [Next]_vars, ~ register, ~ unregister
    PROVE  registry' = registry
<1>1. CASE UNCHANGED vars
  BY <1>1 DEF vars
<1>2. ASSUME NEW c \in Conns, Handler(c)
      PROVE  registry' = registry
  BY <1>2 DEF Handler, Get, authorize, authorize_resolve, await_approval, observe, deliver, Reply,
              shared
<1>3. CASE Control
  BY <1>3 DEF Control, redeem, deny_request, lock
<1>4. CASE Worker
  BY <1>4 DEF Worker, scan, spawn, on_started, finish_decrypt, shared
<1>5. CASE World
  BY <1>5 DEF World, touch, sops_succeeds, sops_fails, edit_file, root_dies, tty_vanishes,
              tty_reopens, Tick, shared
<1> QED
  BY <1>1, <1>2, <1>3, <1>4, <1>5 DEF Next

\* LOCK wipes all authority for good: no grant, receipt or redeemed capability
\* ever belongs to a ceremony that began before the last LOCK.
THEOREM LockIsFinal == Spec => []LockWipesAuthority
<1>1. Init => LockWipesAuthority
  BY DEF Init, LockWipesAuthority
<1>2. TypeOK /\ LockWipesAuthority /\ [Next]_vars => LockWipesAuthority'
  <2> SUFFICES ASSUME TypeOK, LockWipesAuthority, [Next]_vars PROVE LockWipesAuthority'
    OBVIOUS
  <2>1. CASE Tick
    BY <2>1 DEF Tick, age, LockWipesAuthority, TypeOK, StateOK, Grant, Receipt, CapabilityGrant
  <2>2. CASE lock
    BY <2>2 DEF lock, LockWipesAuthority
  <2>3. CASE ~ Tick /\ ~ lock
    <3>1. lock_epoch' = lock_epoch
      BY <2>3, EpochStep
    <3>2. \A g \in grants' : g.epoch = lock_epoch
      BY <2>3, GrantStep, SMT DEF new_grant, LockWipesAuthority
    <3>3. \A r \in receipts' \cup capability_grants' : r.epoch = lock_epoch
      BY <2>3, ReceiptStep, SMT DEF LockWipesAuthority
    <3> QED
      BY <3>1, <3>2, <3>3 DEF LockWipesAuthority
  <2> QED
    BY <2>1, <2>2, <2>3
<1> QED
  BY <1>1, <1>2, TypeCorrect, PTL DEF Spec

\* A session's grants die with its registration, also when the session ends
\* while its request is being decrypted.
THEOREM SessionEndIsFinal == Spec => []SessionGrantsRegistered
<1>1. Init => SessionGrantsRegistered
  BY DEF Init, SessionGrantsRegistered
<1>2. TypeOK /\ SessionGrantsRegistered /\ [Next]_vars => SessionGrantsRegistered'
  <2> SUFFICES ASSUME TypeOK, SessionGrantsRegistered, [Next]_vars PROVE SessionGrantsRegistered'
    OBVIOUS
  <2>1. CASE Tick
    BY <2>1 DEF Tick, age, SessionGrantsRegistered, TypeOK, StateOK, Grant
  <2>2. CASE register
    BY <2>2 DEF register, registered, tokens_of, revoke_tokens, SessionGrantsRegistered
  <2>3. CASE unregister
    BY <2>3 DEF unregister, revoke_tokens, SessionGrantsRegistered
  <2>4. CASE ~ Tick /\ ~ register /\ ~ unregister
    <3>1. registry' = registry
      BY <2>4, RegistryStep
    <3> QED
      BY <2>4, <3>1, GrantStep, SMT DEF new_grant, session_is_active, SessionGrantsRegistered
  <2> QED
    BY <2>1, <2>2, <2>3, <2>4
<1> QED
  BY <1>1, <1>2, TypeCorrect, PTL DEF Spec

(***************************************************************************)
(* One touch, one approval.  OneTouchPerApproval is not inductive: it      *)
(* holds because a decrypt starts on a cold touch cache.  Between decrypts *)
(* the cooldown outlasts the cache, since whatever ends a decrypt restarts *)
(* the cooldown and Config::validate made it longer than the cache.        *)
(***************************************************************************)
CooldownCoversCache ==
    /\ worker.pc = "scan" => child.state = "none" /\ child.cache <= queue.cooling
    /\ worker.pc \in {"picked", "failed"} => child.state = "none" /\ child.cache = 0
    /\ worker.pc \in {"spawned", "running"} => /\ child.state # "none"
                                               /\ child.touched \/ child.cache = 0
                                               /\ child.state = "exited" => child.touched

\* Settling a request leaves the cooldown as it was or restarts it in full.
LEMMA SettleCooling ==
    ASSUME NEW q, QueueOK(q), NEW id, NEW v
    PROVE  settle(q, id, v).cooling \in {q.cooling, Cooldown}
  BY DEF settle, finish, QueueOK

\* The same of sweep_timeouts.
LEMMA SweepCooling ==
    ASSUME NEW q, QueueOK(q)
    PROVE  prune(sweep_timeouts(q)).cooling \in {q.cooling, Cooldown}
<1>1. sweep_timeouts(q).cooling \in {q.cooling, Cooldown}
  BY DEF sweep_timeouts, QueueOK
<1>2. prune(sweep_timeouts(q)).cooling = sweep_timeouts(q).cooling
  BY SweepOK DEF prune, QueueOK
<1> QED
  BY <1>1, <1>2

\* Settling requests and killing their decrypt keeps the cache covered.
LEMMA SettledStaysCovered ==
    ASSUME TypeOK, CooldownCoversCache, UNCHANGED worker,
           queue'.cooling \in {queue.cooling, Cooldown},
           NEW ids, kill_active(ids) \/ UNCHANGED child
    PROVE  CooldownCoversCache'
<1>1. child.cache <= Cooldown
  BY QueueLimits, BrokerConfig, SMT DEF TypeOK, WorkerOK, Child
<1>2. /\ child'.cache = child.cache /\ child'.touched = child.touched
      /\ child'.state # child.state => child.state = "running" /\ child'.state = "killed"
  <2>1. CASE child' = [child EXCEPT !.state = "killed"] /\ child.state = "running"
    BY <2>1 DEF TypeOK, WorkerOK, Child
  <2>2. CASE child' = child
    BY <2>2
  <2>3. \/ child' = child
        \/ child' = [child EXCEPT !.state = "killed"] /\ child.state = "running"
    <3>1. CASE kill_active(ids)
      BY <3>1 DEF kill_active
    <3> QED
      BY <3>1
  <2> QED
    BY <2>1, <2>2, <2>3
<1> QED
  BY <1>1, <1>2 DEF CooldownCoversCache

\* A step keeps the touch cache inside the cooldown, and sops off the cache.
LEMMA TouchStep ==
    ASSUME TypeOK, CooldownCoversCache, [Next]_vars
    PROVE  CooldownCoversCache'
<1>0. /\ child \in Child /\ worker \in Job /\ QueueOK(queue)
      /\ child.cache \in Nat /\ queue.cooling \in Nat /\ child.cache <= Cooldown
  BY QueueLimits, BrokerConfig, SMT DEF TypeOK, WorkerOK, JobOK, StateOK, QueueOK, Child
<1>1. CASE UNCHANGED <<queue, worker, child>>
  BY <1>1 DEF CooldownCoversCache
<1>2. ASSUME NEW c \in Conns, await_approval(c)
      PROVE  CooldownCoversCache'
  <2>1. queue'.cooling = queue.cooling
    BY <1>0, <1>2 DEF await_approval, serve_cached, queue_ceremony, push, QueueOK
  <2> QED
    BY <1>2, <2>1 DEF await_approval, CooldownCoversCache
<1>3. ASSUME NEW c \in Conns, observe(c)
      PROVE  CooldownCoversCache'
  <2>1. queue'.cooling \in {queue.cooling, Cooldown} /\ UNCHANGED worker
    BY <1>0, <1>3, SettleCooling DEF observe, timeout
  <2>2. \E ids : kill_active(ids) \/ UNCHANGED child
    BY <1>3 DEF observe
  <2> QED
    BY <2>1, <2>2, SettledStaysCovered
<1>4. CASE deny_request \/ lock
  <2>1. queue'.cooling \in {queue.cooling, Cooldown} /\ UNCHANGED worker
    BY <1>0, <1>4, SettleCooling DEF deny_request, lock, deny
  <2>2. \E ids : kill_active(ids)
    BY <1>4 DEF deny_request, lock
  <2> QED
    BY <2>1, <2>2, SettledStaysCovered
<1>5. CASE scan
  <2> DEFINE q == prune(sweep_timeouts(queue))
  <2>1. QueueOK(q) /\ q.cooling \in {queue.cooling, Cooldown}
    BY <1>0, SweepOK, PruneOK, SweepCooling
  <2>2. worker.pc = "scan" /\ child.state = "none" /\ child.cache <= queue.cooling
    BY <1>5 DEF scan, CooldownCoversCache
  <2>3. child' = child
    BY <1>5, <2>2 DEF scan, kill_active
  <2>4. CASE queue' = q /\ UNCHANGED worker
    BY <1>0, <2>1, <2>2, <2>3, <2>4 DEF CooldownCoversCache
  <2>5. ASSUME NEW id, next_ready(q, id), worker' = job(q, id)
        PROVE  CooldownCoversCache'
    <3>1. q.cooling = 0 /\ worker'.pc = "picked"
      BY <2>5 DEF next_ready, job
    <3>2. child.cache = 0
      BY <1>0, <2>1, <2>2, <3>1, QueueLimits, SMT
    <3> QED
      BY <2>2, <2>3, <3>1, <3>2 DEF CooldownCoversCache
  <2>6. \/ queue' = q /\ UNCHANGED worker
        \/ \E id \in DOMAIN q.requests : next_ready(q, id) /\ worker' = job(q, id)
    BY <1>5 DEF scan
  <2> HIDE DEF q
  <2> QED
    BY <2>4, <2>5, <2>6
<1>6. CASE spawn
  BY <1>0, <1>6, ZenonT(60) DEF spawn, CooldownCoversCache, Job, Child
<1>7. CASE on_started
  BY <1>0, <1>7 DEF on_started, CooldownCoversCache, Job, Child
<1>8. CASE finish_decrypt
  <2>1. queue'.cooling = Cooldown
    <3>1. CASE install
      <4> DEFINE q == IF lock_epoch # worker.lock_epoch \/ ~ session_is_active
                      THEN deny(queue, worker.id) ELSE queue
      <4>1. QueueOK(q)
        BY <1>0, SettleOK DEF deny, RequestState
      <4>2. queue' = complete(q, worker.id, worker.generation)
        BY <3>1 DEF install
      <4> HIDE DEF q
      <4> QED
        BY <4>1, <4>2 DEF complete, finish, QueueOK
    <3>2. CASE record_failure
      BY <1>0, <3>2 DEF record_failure, fail, finish, QueueOK
    <3> QED
      BY <1>8, <3>1, <3>2 DEF finish_decrypt
  <2>2. worker'.pc = "scan" /\ child'.state = "none" /\ child'.cache = child.cache
    BY <1>0, <1>8 DEF finish_decrypt, NoJob, Child
  <2> QED
    BY <1>0, <2>1, <2>2 DEF CooldownCoversCache
<1>9. CASE touch \/ sops_succeeds \/ sops_fails
  <2>1. UNCHANGED <<queue, worker>> /\ worker.pc \in {"spawned", "running"}
    BY <1>0, <1>9 DEF touch, sops_succeeds, sops_fails, shared, CooldownCoversCache, Job
  <2>2. child.touched \/ child.cache = 0
    BY <2>1 DEF CooldownCoversCache
  <2>3. CASE touch
    BY <1>0, <2>1, <2>3 DEF touch, CooldownCoversCache, Child
  <2>4. CASE sops_succeeds
    BY <1>0, <2>1, <2>2, <2>4, SMT DEF sops_succeeds, CooldownCoversCache, Child
  <2>5. CASE sops_fails
    BY <1>0, <2>1, <2>2, <2>5 DEF sops_fails, CooldownCoversCache, Child
  <2> QED
    BY <1>9, <2>3, <2>4, <2>5
<1>10. CASE Tick
  <2>1. queue'.cooling = less(queue.cooling) /\ child'.cache = less(child.cache)
    BY <1>0, <1>10 DEF Tick, elapse, less, QueueOK, Child
  <2>2. child'.state = child.state /\ child'.touched = child.touched /\ UNCHANGED worker
    BY <1>0, <1>10 DEF Tick, Child
  <2> QED
    BY <1>0, <2>1, <2>2, SMT DEF CooldownCoversCache, less
<1>11. ASSUME NEW c \in Conns, Handler(c), ~ await_approval(c), ~ observe(c)
       PROVE  UNCHANGED <<queue, worker, child>>
  BY <1>11 DEF Handler, Get, authorize, authorize_resolve, deliver, Reply, shared
<1>12. CASE redeem \/ register \/ unregister \/ edit_file \/ root_dies \/ tty_vanishes \/ tty_reopens
  BY <1>1, <1>12 DEF redeem, register, unregister, edit_file, root_dies, tty_vanishes, tty_reopens,
                     shared
<1>13. CASE UNCHANGED vars
  BY <1>1, <1>13 DEF vars
<1> QED
  BY <1>1, <1>2, <1>3, <1>4, <1>5, <1>6, <1>7, <1>8, <1>9, <1>10, <1>11, <1>12, <1>13
     DEF Next, Control, Worker, World

\* One touch never approves two requests, for any cooldown longer than the
\* YubiKey's touch cache and however the earlier decrypt ended.
THEOREM OneTouch == Spec => []OneTouchPerApproval
<1>1. Init => CooldownCoversCache
  BY QueueLimits, SMT DEF Init, CooldownCoversCache, NoJob, NoChild, new
<1>2. TypeOK /\ CooldownCoversCache /\ [Next]_vars => CooldownCoversCache'
  BY TouchStep
<1>3. TypeOK /\ CooldownCoversCache => OneTouchPerApproval
  BY DEF TypeOK, WorkerOK, JobOK, Job, CooldownCoversCache, OneTouchPerApproval
<1> QED
  BY <1>1, <1>2, <1>3, TypeCorrect, PTL DEF Spec

(***************************************************************************)
(* The hardware slot and the process group.  The two properties support    *)
(* each other, and need two more facts: a Decrypting request has the       *)
(* generation of the worker's job, so the job's end always frees the slot, *)
(* and active_decrypt is set only while that request is Decrypting.        *)
(***************************************************************************)
SlotOK(q) ==
    /\ \A i \in DOMAIN q.requests : q.requests[i].state = "Decrypting" <=> q.inflight = i
    /\ q.inflight # NoRequest => q.inflight \in DOMAIN q.requests

SlotInv ==
    /\ SlotOK(queue)
    /\ queue.inflight # NoRequest =>
         /\ worker.pc # "scan" /\ worker.id = queue.inflight
         /\ queue.requests[worker.id].generation = worker.generation
    /\ active_decrypt # NoRequest =>
         worker.pc = "running" /\ active_decrypt = worker.id /\ queue.inflight = worker.id
    /\ worker.pc = "running" /\ child.state = "running" =>
         active_decrypt = worker.id /\ queue.inflight = worker.id

\* What settle does to one request, to the slot and to the others.
LEMMA SettleEffect ==
    ASSUME NEW q, QueueOK(q), NEW id, NEW v \in Terminal
    PROVE  /\ DOMAIN settle(q, id, v).requests = DOMAIN q.requests
           /\ \A i \in DOMAIN q.requests \ {id} : settle(q, id, v).requests[i] = q.requests[i]
           /\ id \in DOMAIN q.requests => settle(q, id, v).requests[id].state \in Terminal
           /\ state_of(q, id) \in Unsettled =>
                settle(q, id, v).inflight = IF q.inflight = id THEN NoRequest ELSE q.inflight
           /\ state_of(q, id) \notin Unsettled => settle(q, id, v) = q
<1>1. CASE state_of(q, id) \in Unsettled
  <2>1. id \in DOMAIN q.requests
    BY <1>1 DEF state_of, Unsettled
  <2>2. /\ settle(q, id, v).requests =
             [q.requests EXCEPT ![id].state = v, ![id].generation = @ + 1]
        /\ settle(q, id, v).inflight = IF q.inflight = id THEN NoRequest ELSE q.inflight
    BY <1>1 DEF settle, finish, QueueOK
  <2> QED
    BY <1>1, <2>1, <2>2, SMT DEF QueueOK, Request
<1>2. CASE state_of(q, id) \notin Unsettled
  BY <1>2 DEF settle, state_of, Terminal, QueueOK, Request
<1> QED
  BY <1>1, <1>2

\* Settling a request keeps the slot exact.
LEMMA SettleSlot ==
    ASSUME NEW q, QueueOK(q), SlotOK(q), NEW id, NEW v \in Terminal
    PROVE  /\ SlotOK(settle(q, id, v))
           /\ settle(q, id, v).inflight = IF q.inflight = id THEN NoRequest ELSE q.inflight
<1>1. q.inflight \in Nat /\ \A i \in DOMAIN q.requests : i # NoRequest
  BY DEF QueueOK, RequestIds, NoRequest
<1>2. settle(q, id, v).inflight = IF q.inflight = id THEN NoRequest ELSE q.inflight
  BY <1>1, SettleEffect, SMT DEF SlotOK, state_of, Unsettled
<1>3. "Decrypting" \notin Terminal
  BY DEF Terminal, Unsettled
<1> QED
  BY <1>1, <1>2, <1>3, SettleEffect, SMT DEF SlotOK

\* Settling one request and killing its decrypt, whoever does it.
LEMMA SettleKeepsSlot ==
    ASSUME TypeOK, SlotInv, NEW id, NEW v \in Terminal,
           queue' = settle(queue, id, v), kill_active({id}), UNCHANGED worker
    PROVE  SlotInv'
<1>1. QueueOK(queue) /\ child \in Child
  BY DEF TypeOK, StateOK, WorkerOK
<1>2. SlotOK(queue') /\ queue'.inflight = IF queue.inflight = id THEN NoRequest ELSE queue.inflight
  BY <1>1, SettleSlot DEF SlotInv
<1>3. queue'.inflight # NoRequest =>
        queue'.inflight = queue.inflight /\ queue'.requests[worker.id] = queue.requests[worker.id]
  BY <1>1, <1>2, SettleEffect, SMT DEF SlotInv, SlotOK
<1>4. active_decrypt' = IF active_decrypt = id THEN NoRequest ELSE active_decrypt
  BY DEF kill_active
<1>5. /\ child.state # "running" => child'.state # "running"
      /\ active_decrypt = id /\ id # NoRequest => child'.state # "running"
  BY <1>1 DEF kill_active, Child
<1>6. worker.pc = "running" => worker.id # NoRequest
  BY DEF TypeOK, WorkerOK, JobOK, RequestIds, NoRequest
<1> QED
  BY <1>2, <1>3, <1>4, <1>5, <1>6, SMT DEF SlotInv, SlotOK

\* A new request is Pending and does not disturb the slot.
LEMMA PushSlot ==
    ASSUME NEW q, QueueOK(q), SlotOK(q), NEW scope, NEW key, NEW ttl
    PROVE  /\ SlotOK(push(q, scope, key, ttl))
           /\ push(q, scope, key, ttl).inflight = q.inflight
           /\ \A i \in DOMAIN q.requests :
                push(q, scope, key, ttl).requests[i] = q.requests[i]
<1> DEFINE p == push(q, scope, key, ttl)
<1>1. /\ DOMAIN p.requests = DOMAIN q.requests \cup {q.next_id}
      /\ p.inflight = q.inflight
      /\ p.requests[q.next_id].state = "Pending"
      /\ \A i \in DOMAIN q.requests : i # q.next_id => p.requests[i] = q.requests[i]
  BY DEF push, QueueOK
<1>2. q.next_id # NoRequest /\ q.next_id \notin DOMAIN q.requests
  BY SMT DEF QueueOK, RequestIds, NoRequest
<1> QED
  BY <1>1, <1>2 DEF SlotOK

\* The sweep at the head of the worker's loop finds the slot free and leaves it free.
LEMMA SweepSlot ==
    ASSUME NEW q, QueueOK(q), SlotOK(q), q.inflight = NoRequest
    PROVE  /\ SlotOK(prune(sweep_timeouts(q)))
           /\ prune(sweep_timeouts(q)).inflight = NoRequest
<1> DEFINE s == sweep_timeouts(q)
           p == prune(s)
<1>1. s.inflight = NoRequest /\ DOMAIN s.requests = DOMAIN q.requests
  BY DEF sweep_timeouts, QueueOK
<1>2. \A i \in DOMAIN q.requests : q.requests[i].state # "Decrypting" /\ i # NoRequest
  BY DEF SlotOK, QueueOK, RequestIds, NoRequest
<1>3. \A i \in DOMAIN s.requests : s.requests[i].state # "Decrypting"
  BY <1>2, SMT DEF sweep_timeouts, QueueOK, Request
<1>4. QueueOK(s)
  BY SweepOK
<1> HIDE DEF s
<1>5. /\ p.inflight = s.inflight /\ DOMAIN p.requests \subseteq DOMAIN s.requests
      /\ \A i \in DOMAIN p.requests : p.requests[i] = s.requests[i]
  BY <1>4 DEF prune, QueueOK
<1> QED
  BY <1>1, <1>2, <1>3, <1>5 DEF SlotOK, s

\* mark_decrypting puts the request it marks, and no other, into a free slot.
LEMMA MarkSlot ==
    ASSUME NEW q, QueueOK(q), SlotOK(q), q.inflight = NoRequest, NEW id \in DOMAIN q.requests
    PROVE  /\ SlotOK(mark_decrypting(q, id)) /\ mark_decrypting(q, id).inflight = id
           /\ mark_decrypting(q, id).requests[id].generation = q.generation + 1
<1> DEFINE p == mark_decrypting(q, id)
<1>1. /\ p.requests = [q.requests EXCEPT ![id].state = "Decrypting",
                                         ![id].generation = q.generation + 1]
      /\ p.inflight = id
  BY DEF QueueOK, mark_decrypting
<1>2. \A i \in DOMAIN q.requests : i # NoRequest /\ q.requests[i] \in Request
  BY DEF QueueOK, RequestIds, NoRequest
<1> HIDE DEF p
<1>3. /\ DOMAIN p.requests = DOMAIN q.requests
      /\ p.requests[id].state = "Decrypting" /\ p.requests[id].generation = q.generation + 1
      /\ \A i \in DOMAIN q.requests \ {id} : p.requests[i] = q.requests[i]
  BY <1>1, <1>2, SMT DEF QueueOK, Request
<1> QED
  BY <1>1, <1>2, <1>3, SMT DEF SlotOK, p

\* The end of a job: the request it was for leaves Decrypting, and no other
\* request was in it.
LEMMA FailSlot ==
    ASSUME NEW q, QueueOK(q), SlotOK(q), NEW id, q.inflight # NoRequest => q.inflight = id
    PROVE  SlotOK(fail(q, id)) /\ fail(q, id).inflight = NoRequest
<1> DEFINE p == fail(q, id)
<1>1. /\ p.inflight = NoRequest
      /\ DOMAIN p.requests = DOMAIN q.requests
      /\ \A i \in DOMAIN q.requests \ {id} : p.requests[i] = q.requests[i]
      /\ id \in DOMAIN q.requests => p.requests[id].state = "Failed"
  BY DEF fail, finish, QueueOK, Request
<1>2. \A i \in DOMAIN q.requests : i # NoRequest
  BY DEF QueueOK, RequestIds, NoRequest
<1> QED
  BY <1>1, <1>2 DEF SlotOK

\* When the worker completes the request in the slot, the slot is exact and free.
LEMMA CompleteSlot ==
    ASSUME NEW q, QueueOK(q), SlotOK(q), NEW id, NEW generation,
           q.inflight # NoRequest => q.inflight = id /\ q.requests[id].generation = generation
    PROVE  /\ SlotOK(complete(q, id, generation))
           /\ complete(q, id, generation).inflight = NoRequest
<1> DEFINE p == complete(q, id, generation)
<1>1. /\ p.inflight = NoRequest
      /\ DOMAIN p.requests = DOMAIN q.requests
      /\ \A i \in DOMAIN q.requests \ {id} : p.requests[i] = q.requests[i]
      /\ still_current(q, id, generation) => p.requests[id].state = "Granted"
      /\ ~ still_current(q, id, generation) => p.requests = q.requests
  BY SMT DEF complete, finish, still_current, state_of, QueueOK, Request
<1>2. \A i \in DOMAIN q.requests : i # NoRequest
  BY DEF QueueOK, RequestIds, NoRequest
<1>3. id \in DOMAIN q.requests /\ q.requests[id].state = "Decrypting" =>
        still_current(q, id, generation)
  BY <1>2 DEF SlotOK, still_current, state_of
<1> QED
  BY <1>1, <1>2, <1>3 DEF SlotOK

\* Every step keeps the slot exact and sops bound to a live request.
LEMMA SlotStep ==
    ASSUME TypeOK, SlotInv, [Next]_vars
    PROVE  SlotInv'
<1>0. /\ QueueOK(queue) /\ child \in Child /\ worker \in Job /\ active_decrypt \in Nat
      /\ SlotOK(queue)
      /\ worker.pc # "scan" => worker.id # NoRequest
      /\ \A i \in DOMAIN queue.requests : i # NoRequest
  BY DEF TypeOK, StateOK, WorkerOK, JobOK, QueueOK, RequestIds, NoRequest, SlotInv
<1>1. CASE UNCHANGED <<queue, worker, child, active_decrypt>>
  BY <1>1 DEF SlotInv, SlotOK
<1>2. ASSUME NEW c \in Conns, await_approval(c)
      PROVE  SlotInv'
  <2>1. CASE UNCHANGED queue
    BY <1>1, <1>2, <2>1 DEF await_approval
  <2>2. CASE ~ UNCHANGED queue
    <3>1. queue' = push(queue, conn[c].scope, conn[c].access.key, conn[c].access.ttl)
      BY <1>2, <2>2 DEF await_approval, serve_cached, queue_ceremony
    <3>2. /\ SlotOK(queue') /\ queue'.inflight = queue.inflight
          /\ \A i \in DOMAIN queue.requests : queue'.requests[i] = queue.requests[i]
      BY <1>0, <3>1, PushSlot, SMT
    <3> QED
      BY <1>2, <3>2 DEF await_approval, SlotInv, SlotOK
  <2> QED
    BY <2>1, <2>2
<1>3. ASSUME NEW c \in Conns, observe(c)
      PROVE  SlotInv'
  <2>1. CASE queue' = timeout(queue, conn[c].id) /\ kill_active({conn[c].id})
    <3>1. "TimedOut" \in Terminal /\ UNCHANGED worker
      BY <1>3 DEF observe, Terminal, RequestState, Unsettled
    <3> QED
      BY <2>1, <3>1, SettleKeepsSlot DEF timeout
  <2> QED
    BY <1>1, <1>3, <2>1 DEF observe
<1>4. CASE deny_request \/ lock
  <2>1. "Denied" \in Terminal /\ UNCHANGED worker
    BY <1>4 DEF deny_request, lock, Terminal, RequestState, Unsettled
  <2>2. CASE \E id : queue' = deny(queue, id) /\ kill_active({id})
    BY <2>1, <2>2, SettleKeepsSlot DEF deny
  <2>3. CASE lock /\ active_decrypt = NoRequest
    <3>1. UNCHANGED <<queue, worker, child, active_decrypt>>
      BY <2>3 DEF lock, kill_active
    <3> QED
      BY <1>1, <3>1
  <2> QED
    BY <1>4, <2>2, <2>3 DEF deny_request, lock
<1>5. CASE scan
  <2> DEFINE q == prune(sweep_timeouts(queue))
  <2>1. worker.pc = "scan" /\ queue.inflight = NoRequest /\ active_decrypt = NoRequest
    BY <1>5 DEF scan, SlotInv
  <2>2. QueueOK(q) /\ SlotOK(q) /\ q.inflight = NoRequest
    BY <1>0, <2>1, SweepOK, PruneOK, SweepSlot
  <2>3. active_decrypt' = NoRequest
    BY <1>5, <2>1 DEF scan, kill_active
  <2>4. CASE queue' = q /\ UNCHANGED worker
    BY <2>1, <2>2, <2>3, <2>4 DEF SlotInv
  <2>5. ASSUME NEW id \in DOMAIN q.requests, queue' = mark_decrypting(q, id), worker' = job(q, id)
        PROVE  SlotInv'
    <3>1. /\ SlotOK(queue') /\ queue'.inflight = id
          /\ queue'.requests[id].generation = q.generation + 1
      BY <2>2, <2>5, MarkSlot
    <3>2. worker'.pc = "picked" /\ worker'.id = id /\ worker'.generation = q.generation + 1
      BY <2>5 DEF job
    <3> QED
      BY <2>3, <3>1, <3>2 DEF SlotInv
  <2>6. \/ queue' = q /\ UNCHANGED worker
        \/ \E id \in DOMAIN q.requests :
             queue' = mark_decrypting(q, id) /\ worker' = job(q, id)
    BY <1>5 DEF scan
  <2> HIDE DEF q
  <2> QED
    BY <2>4, <2>5, <2>6
<1>6. CASE spawn
  <2>1. /\ UNCHANGED <<queue, active_decrypt>> /\ worker.pc = "picked"
        /\ worker'.pc \in {"failed", "spawned"}
        /\ worker'.id = worker.id /\ worker'.generation = worker.generation
    BY <1>0, <1>6 DEF spawn, shared, Job
  <2> QED
    BY <2>1 DEF SlotInv, SlotOK
<1>7. CASE on_started
  <2>1. /\ UNCHANGED queue /\ worker.pc = "spawned" /\ worker'.pc = "running"
        /\ worker'.id = worker.id /\ worker'.generation = worker.generation
    BY <1>0, <1>7 DEF on_started, Job
  <2>2. CASE state_of(queue, worker.id) = "Decrypting"
    <3>1. queue.inflight = worker.id /\ active_decrypt' = worker.id
      BY <1>0, <1>7, <2>2 DEF on_started, state_of, SlotOK
    <3> QED
      BY <1>0, <2>1, <3>1 DEF SlotInv, SlotOK
  <2>3. CASE state_of(queue, worker.id) # "Decrypting"
    <3>1. child'.state # "running" /\ active_decrypt' = active_decrypt
      BY <1>0, <1>7, <2>3 DEF on_started, Child
    <3> QED
      BY <2>1, <3>1 DEF SlotInv, SlotOK
  <2> QED
    BY <2>2, <2>3
<1>8. CASE finish_decrypt
  <2>1. SlotOK(queue') /\ queue'.inflight = NoRequest
    <3>1. CASE install
      <4> DEFINE q == IF lock_epoch # worker.lock_epoch \/ ~ session_is_active
                      THEN deny(queue, worker.id) ELSE queue
      <4>1. QueueOK(q) /\ SlotOK(q)
        BY <1>0, SettleOK, SettleSlot DEF deny, RequestState, Terminal, Unsettled
      <4>2. q.inflight # NoRequest => q = queue
        <5>1. "Denied" \in Terminal
          BY DEF Terminal, RequestState, Unsettled
        <5> QED
          BY <1>0, <5>1, SettleSlot, SMT DEF deny, SlotInv
      <4>3. queue' = complete(q, worker.id, worker.generation)
        BY <3>1 DEF install
      <4> HIDE DEF q
      <4>4. q.inflight # NoRequest =>
              q.inflight = worker.id /\ q.requests[worker.id].generation = worker.generation
        BY <4>2 DEF SlotInv
      <4> QED
        BY <4>1, <4>3, <4>4, CompleteSlot
    <3>2. CASE record_failure
      BY <1>0, <3>2, FailSlot DEF record_failure, SlotInv
    <3> QED
      BY <1>8, <3>1, <3>2 DEF finish_decrypt
  <2>2. worker'.pc = "scan" /\ active_decrypt' = NoRequest
    BY <1>8 DEF finish_decrypt, NoJob, SlotInv
  <2> QED
    BY <2>1, <2>2 DEF SlotInv
<1>9. CASE touch \/ sops_succeeds \/ sops_fails
  <2>1. UNCHANGED <<queue, worker, active_decrypt>> /\ child.state = "running"
    BY <1>9 DEF touch, sops_succeeds, sops_fails, shared
  <2> QED
    BY <2>1 DEF SlotInv, SlotOK
<1>10. CASE Tick
  <2>1. /\ UNCHANGED <<worker, active_decrypt>> /\ child'.state = child.state
        /\ queue'.inflight = queue.inflight
        /\ DOMAIN queue'.requests = DOMAIN queue.requests
        /\ \A i \in DOMAIN queue.requests :
             /\ queue'.requests[i].state = queue.requests[i].state
             /\ queue'.requests[i].generation = queue.requests[i].generation
    BY <1>0, <1>10, SMT DEF Tick, elapse, QueueOK, Request, Child
  <2> QED
    BY <2>1 DEF SlotInv, SlotOK
<1>11. ASSUME NEW c \in Conns, Handler(c), ~ await_approval(c), ~ observe(c)
       PROVE  UNCHANGED <<queue, worker, child, active_decrypt>>
  BY <1>11 DEF Handler, Get, authorize, authorize_resolve, deliver, Reply, shared
<1>12. CASE redeem \/ register \/ unregister \/ edit_file \/ root_dies \/ tty_vanishes \/ tty_reopens
  BY <1>1, <1>12 DEF redeem, register, unregister, edit_file, root_dies, tty_vanishes, tty_reopens,
                     shared
<1>13. CASE UNCHANGED vars
  BY <1>1, <1>13 DEF vars
<1> QED
  BY <1>1, <1>2, <1>3, <1>4, <1>5, <1>6, <1>7, <1>8, <1>9, <1>10, <1>11, <1>12, <1>13
     DEF Next, Control, Worker, World

\* The hardware slot never leaks and is never freed early; and once its process
\* group is published, sops runs only for a request that is still Decrypting
\* and that whoever settles it can kill.
THEOREM SlotExact == Spec => []HardwareSlotExact
<1>1. Init => SlotInv
  BY SMT DEF Init, SlotInv, SlotOK, new, NoRequest, NoJob, NoChild
<1>2. TypeOK /\ SlotInv /\ [Next]_vars => SlotInv'
  BY SlotStep
<1>3. TypeOK /\ SlotInv => HardwareSlotExact
  <2> SUFFICES ASSUME TypeOK, SlotInv PROVE HardwareSlotExact
    OBVIOUS
  <2>1. worker.pc = "running" => worker.id # NoRequest
    BY DEF TypeOK, WorkerOK, JobOK, RequestIds, NoRequest
  <2> QED
    BY <2>1 DEF SlotInv, SlotOK, HardwareSlotExact, state_of
<1> QED
  BY <1>1, <1>2, <1>3, TypeCorrect, PTL DEF Spec

(***************************************************************************)
(* Late output.  `verdict` records first terminal states, so the argument  *)
(* is that a request never returns from a terminal state, and becomes      *)
(* Granted only while it is unsettled.                                     *)
(***************************************************************************)
Onward(q, p) ==
    /\ p.next_id = q.next_id
    /\ \A i \in DOMAIN p.requests :
         /\ i \in DOMAIN q.requests
         /\ p.requests[i].state \in Unsettled => q.requests[i].state \in Unsettled
         /\ p.requests[i].state = "Granted" =>
              q.requests[i].state \in Unsettled \cup {"Granted"}

VerdictInv ==
    /\ \A i \in DOMAIN verdict : i \in Nat /\ i < queue.next_id
    /\ \A i \in DOMAIN queue.requests :
         /\ queue.requests[i].state \in Unsettled => i \notin DOMAIN verdict
         /\ queue.requests[i].state \in Terminal => i \in DOMAIN verdict
         /\ queue.requests[i].state = "Granted" => verdict[i] = "Granted"
    /\ \A c \in Conns :
         /\ conn[c].pc \in {"idle", "authorize", "resolved"} => conn[c].id = NoRequest
         /\ conn[c].pc = "granted" /\ conn[c].id # NoRequest =>
              conn[c].id \in DOMAIN verdict /\ verdict[conn[c].id] = "Granted"

\* deny and timeout, through settle, move requests onward only.
LEMMA SettleOnward ==
    ASSUME NEW q, QueueOK(q), NEW id, NEW v \in Terminal \ {"Granted"}
    PROVE  Onward(q, settle(q, id, v))
<1>1. settle(q, id, v).next_id = q.next_id
  BY DEF settle, finish, QueueOK
<1>2. CASE state_of(q, id) \in Unsettled
  <2>1. id \in DOMAIN q.requests /\ q.requests[id].state \in Unsettled
    BY <1>2 DEF state_of, Unsettled
  <2>2. \A s \in Terminal : s \notin Unsettled
    BY DEF Terminal
  <2> QED
    BY <1>1, <2>1, <2>2, SettleEffect, SMT DEF Onward
<1>3. CASE state_of(q, id) \notin Unsettled
  BY <1>3, SettleEffect, SMT DEF Onward
<1> QED
  BY <1>2, <1>3

\* sweep_timeouts moves requests onward only.
LEMMA SweepOnward ==
    ASSUME NEW q, QueueOK(q)
    PROVE  Onward(q, prune(sweep_timeouts(q)))
<1> DEFINE s == sweep_timeouts(q)
           p == prune(s)
<1>1. /\ s.next_id = q.next_id /\ DOMAIN s.requests = DOMAIN q.requests
      /\ \A i \in DOMAIN q.requests : s.requests[i].state \in {"TimedOut", q.requests[i].state}
  BY SMT DEF sweep_timeouts, QueueOK, Request
<1>2. QueueOK(s)
  BY SweepOK
<1> HIDE DEF s
<1>3. /\ p.next_id = s.next_id /\ DOMAIN p.requests \subseteq DOMAIN s.requests
      /\ \A i \in DOMAIN p.requests : p.requests[i] = s.requests[i]
  BY <1>2 DEF prune, QueueOK
<1> HIDE DEF p
<1>4. Onward(q, p)
  BY <1>1, <1>3 DEF Onward, Unsettled
<1> QED
  BY <1>4 DEF p, s

\* mark_decrypting moves a Pending request onward.
LEMMA MarkOnward ==
    ASSUME NEW q, QueueOK(q), NEW id \in DOMAIN q.requests, state_of(q, id) = "Pending"
    PROVE  Onward(q, mark_decrypting(q, id))
<1> DEFINE p == mark_decrypting(q, id)
<1>1. /\ p.requests = [q.requests EXCEPT ![id].state = "Decrypting",
                                         ![id].generation = q.generation + 1]
      /\ p.next_id = q.next_id
  BY DEF QueueOK, mark_decrypting
<1> HIDE DEF p
<1>2. /\ DOMAIN p.requests = DOMAIN q.requests
      /\ p.requests[id].state = "Decrypting"
      /\ \A i \in DOMAIN q.requests \ {id} : p.requests[i] = q.requests[i]
  BY <1>1, SMT DEF QueueOK, Request
<1>3. Onward(q, p)
  BY <1>1, <1>2 DEF Onward, state_of, Unsettled
<1> QED
  BY <1>3 DEF p

\* fail moves requests onward only, although it overwrites Denied and TimedOut.
LEMMA FailOnward ==
    ASSUME NEW q, QueueOK(q), NEW id
    PROVE  Onward(q, fail(q, id))
<1> DEFINE p == fail(q, id)
<1>1. /\ p.next_id = q.next_id
      /\ DOMAIN p.requests = DOMAIN q.requests
      /\ \A i \in DOMAIN q.requests \ {id} : p.requests[i] = q.requests[i]
      /\ id \in DOMAIN q.requests => p.requests[id].state = "Failed"
  BY DEF fail, finish, QueueOK, Request
<1> QED
  BY <1>1 DEF Onward, Unsettled

\* complete grants only a request that is still current.
LEMMA CompleteOnward ==
    ASSUME NEW q, QueueOK(q), NEW id, NEW generation
    PROVE  /\ Onward(q, complete(q, id, generation))
           /\ still_current(q, id, generation) =>
                /\ id \in DOMAIN complete(q, id, generation).requests
                /\ complete(q, id, generation).requests[id].state = "Granted"
<1> DEFINE p == complete(q, id, generation)
<1>1. /\ p.next_id = q.next_id
      /\ DOMAIN p.requests = DOMAIN q.requests
      /\ \A i \in DOMAIN q.requests \ {id} : p.requests[i] = q.requests[i]
      /\ still_current(q, id, generation) =>
           /\ id \in DOMAIN q.requests /\ q.requests[id].state = "Decrypting"
           /\ p.requests[id].state = "Granted"
      /\ ~ still_current(q, id, generation) => p.requests = q.requests
  BY DEF complete, finish, still_current, state_of, QueueOK, Request
<1> QED
  BY <1>1 DEF Onward, Unsettled

\* Moving onward twice is moving onward.
LEMMA OnwardTrans ==
    ASSUME NEW q, NEW p, NEW r, Onward(q, p), Onward(p, r)
    PROVE  Onward(q, r)
  BY DEF Onward, Unsettled

\* An action that moves the queue onward and records the verdicts keeps the
\* invariant's first two conjuncts, and forgets no verdict.
LEMMA RecordStep ==
    ASSUME TypeOK, VerdictInv, QueueOK(queue'), Onward(queue, queue'), RecordVerdict
    PROVE  /\ \A i \in DOMAIN verdict' : i \in Nat /\ i < queue'.next_id
           /\ \A i \in DOMAIN queue'.requests :
                /\ queue'.requests[i].state \in Unsettled => i \notin DOMAIN verdict'
                /\ queue'.requests[i].state \in Terminal => i \in DOMAIN verdict'
                /\ queue'.requests[i].state = "Granted" => verdict'[i] = "Granted"
           /\ \A i \in DOMAIN verdict : i \in DOMAIN verdict' /\ verdict'[i] = verdict[i]
<1> DEFINE settled == {i \in DOMAIN queue'.requests : queue'.requests[i].state \in Terminal}
<1>1. /\ DOMAIN verdict' = DOMAIN verdict \cup settled
      /\ \A i \in DOMAIN verdict : verdict'[i] = verdict[i]
      /\ \A i \in settled : i \notin DOMAIN verdict => verdict'[i] = queue'.requests[i].state
  BY DEF RecordVerdict
<1>2. "Granted" \in Terminal /\ "Granted" \notin Unsettled /\ \A s \in Unsettled : s \notin Terminal
  BY DEF Terminal, Unsettled, RequestState
<1>3. \A i \in DOMAIN queue'.requests : i \in Nat /\ i < queue'.next_id
  BY DEF QueueOK, RequestIds
<1>4. \A i \in DOMAIN verdict' : i \in Nat /\ i < queue'.next_id
  BY <1>1, <1>3 DEF VerdictInv, Onward
<1>5. ASSUME NEW i \in DOMAIN queue'.requests, queue'.requests[i].state = "Granted"
      PROVE  verdict'[i] = "Granted"
  <2>1. i \in settled /\ i \in DOMAIN queue.requests
    BY <1>2, <1>5 DEF Onward
  <2>2. CASE queue.requests[i].state = "Granted"
    <3>1. i \in DOMAIN verdict /\ verdict[i] = "Granted"
      BY <1>2, <2>1, <2>2 DEF VerdictInv
    <3> QED
      BY <1>1, <3>1
  <2>3. CASE queue.requests[i].state \in Unsettled
    <3>1. i \notin DOMAIN verdict
      BY <2>1, <2>3 DEF VerdictInv
    <3> QED
      BY <1>1, <1>5, <2>1, <3>1
  <2> QED
    BY <1>5, <2>2, <2>3 DEF Onward
<1>6. ASSUME NEW i \in DOMAIN queue'.requests, queue'.requests[i].state \in Unsettled
      PROVE  i \notin DOMAIN verdict'
  BY <1>1, <1>2, <1>6 DEF Onward, VerdictInv
<1> QED
  BY <1>1, <1>4, <1>5, <1>6

\* Answering a request (reply_with) ends that handler and touches no other.
LEMMA ReplyEffect ==
    ASSUME conn \in [Conns -> Handling], NEW c \in Conns, NEW reply, NEW value,
           reply_with(c, reply, value)
    PROVE  conn'[c].pc = "done" /\ \A d \in Conns \ {c} : conn'[d] = conn[d]
<1> DEFINE r == [Idle EXCEPT !.pc = "done", !.id = conn[c].id, !.reply = reply,
                             !.asked = conn[c].asked, !.value = value]
<1>1. conn' = [conn EXCEPT ![c] = r]
  BY DEF reply_with
<1>2. r.pc = "done"
  BY DEF Idle
<1> HIDE DEF r
<1> QED
  BY <1>1, <1>2

\* The same of a bare answer.
LEMMA AnswerEffect ==
    ASSUME conn \in [Conns -> Handling], NEW c \in Conns, NEW reply, answer(c, reply)
    PROVE  conn'[c].pc = "done" /\ \A d \in Conns \ {c} : conn'[d] = conn[d]
  BY ReplyEffect DEF answer

\* Resolving a caller refuses it or leaves it resolved, with no request id yet.
LEMMA ResolveEffect ==
    ASSUME conn \in [Conns -> Handling], NEW c \in Conns, NEW access, NEW epoch,
           resolve(c, access, epoch)
    PROVE  /\ \/ conn'[c].pc = "done"
              \/ conn'[c].pc = "resolved" /\ conn'[c].id = NoRequest
           /\ \A d \in Conns \ {c} : conn'[d] = conn[d]
<1>1. PICK scope, asked, b :
        conn' = [conn EXCEPT ![c] =
                   IF b
                   THEN [Idle EXCEPT !.pc = "resolved", !.access = access, !.scope = scope,
                                     !.epoch_before = epoch, !.asked = asked]
                   ELSE [Idle EXCEPT !.pc = "done", !.reply = "Refused"]]
  BY DEF resolve
<1>2. [Idle EXCEPT !.pc = "done", !.reply = "Refused"].pc = "done"
  BY DEF Idle
<1> DEFINE r == [Idle EXCEPT !.pc = "resolved", !.access = access, !.scope = scope,
                             !.epoch_before = epoch, !.asked = asked]
<1>3. r.pc = "resolved" /\ r.id = NoRequest
  BY DEF Idle
<1> HIDE DEF r
<1>4. conn' = [conn EXCEPT ![c] = IF b THEN r
                                  ELSE [Idle EXCEPT !.pc = "done", !.reply = "Refused"]]
  BY <1>1 DEF r
<1> QED
  BY <1>2, <1>3, <1>4

\* Every critical section that settles, starts or drops a request moves the
\* records onward only, and notes each verdict as it is given.
LEMMA SettlersMoveOnward ==
    ASSUME TypeOK, \/ \E c \in Conns : observe(c)
                   \/ deny_request \/ lock \/ scan \/ finish_decrypt
    PROVE  Onward(queue, queue') /\ RecordVerdict
<1>0. QueueOK(queue) /\ Onward(queue, queue)
  BY DEF TypeOK, StateOK, Onward
<1>6. RecordVerdict
  BY DEF observe, deny_request, lock, scan, finish_decrypt
<1> SUFFICES Onward(queue, queue')
  BY <1>6
<1>1. {"Denied", "TimedOut"} \subseteq Terminal \ {"Granted"}
  BY DEF Terminal, RequestState, Unsettled
<1>2. ASSUME NEW c \in Conns, observe(c)
      PROVE  Onward(queue, queue')
  BY <1>0, <1>1, <1>2, SettleOnward DEF observe, timeout
<1>3. CASE deny_request \/ lock
  BY <1>0, <1>1, <1>3, SettleOnward DEF deny_request, lock, deny
<1>4. CASE scan
  <2> DEFINE q == prune(sweep_timeouts(queue))
  <2>1. QueueOK(q) /\ Onward(queue, q)
    BY <1>0, SweepOK, PruneOK, SweepOnward
  <2>2. CASE queue' = q
    BY <2>1, <2>2
  <2>3. ASSUME NEW id \in DOMAIN q.requests, next_ready(q, id), queue' = mark_decrypting(q, id)
        PROVE  Onward(queue, queue')
    <3>1. Onward(q, queue')
      BY <2>1, <2>3, MarkOnward DEF next_ready
    <3> QED
      BY <2>1, <3>1, OnwardTrans
  <2>4. \/ queue' = q
        \/ \E id \in DOMAIN q.requests : next_ready(q, id) /\ queue' = mark_decrypting(q, id)
    BY <1>4 DEF scan
  <2> HIDE DEF q
  <2> QED
    BY <2>2, <2>3, <2>4
<1>5. CASE finish_decrypt
  <2>1. CASE install
    <3> DEFINE q == IF lock_epoch # worker.lock_epoch \/ ~ session_is_active
                    THEN deny(queue, worker.id) ELSE queue
    <3>1. QueueOK(q) /\ Onward(queue, q)
      BY <1>0, <1>1, SettleOK, SettleOnward DEF deny, Terminal
    <3>2. queue' = complete(q, worker.id, worker.generation)
      BY <2>1 DEF install
    <3> HIDE DEF q
    <3>3. Onward(q, queue')
      BY <3>1, <3>2, CompleteOnward
    <3> QED
      BY <3>1, <3>3, OnwardTrans
  <2>2. CASE record_failure
    BY <1>0, <2>2, FailOnward DEF record_failure
  <2> QED
    BY <1>5, <2>1, <2>2 DEF finish_decrypt
<1> QED
  BY <1>2, <1>3, <1>4, <1>5

\* A step keeps the verdict log consistent with the queue, and rewrites no entry.
LEMMA VerdictStep ==
    ASSUME TypeOK, TypeOK', VerdictInv, [Next]_vars
    PROVE  /\ VerdictInv'
           /\ \A i \in DOMAIN verdict : i \in DOMAIN verdict' /\ verdict'[i] = verdict[i]
<1>0. QueueOK(queue) /\ QueueOK(queue') /\ conn \in [Conns -> Handling]
  BY DEF TypeOK, StateOK, ConnOK
<1>1. CASE UNCHANGED <<queue, verdict, conn>>
  BY <1>1 DEF VerdictInv
<1>2. CASE deny_request \/ lock \/ scan \/ finish_decrypt
  <2>1. UNCHANGED conn
    BY <1>2 DEF deny_request, lock, scan, finish_decrypt
  <2> QED
    BY <1>0, <1>2, <2>1, SettlersMoveOnward, RecordStep DEF VerdictInv
<1>3. ASSUME NEW c \in Conns, observe(c)
      PROVE  VerdictInv' /\ \A i \in DOMAIN verdict : i \in DOMAIN verdict' /\ verdict'[i] = verdict[i]
  <2>1. /\ \A i \in DOMAIN verdict' : i \in Nat /\ i < queue'.next_id
        /\ \A i \in DOMAIN queue'.requests :
             /\ queue'.requests[i].state \in Unsettled => i \notin DOMAIN verdict'
             /\ queue'.requests[i].state \in Terminal => i \in DOMAIN verdict'
             /\ queue'.requests[i].state = "Granted" => verdict'[i] = "Granted"
        /\ \A i \in DOMAIN verdict : i \in DOMAIN verdict' /\ verdict'[i] = verdict[i]
    BY <1>0, <1>3, SettlersMoveOnward, RecordStep
  <2>2. CASE \E reply : answer(c, reply)
    <3>1. conn'[c].pc = "done" /\ \A d \in Conns \ {c} : conn'[d] = conn[d]
      BY <1>0, <2>2, AnswerEffect
    <3> QED
      BY <2>1, <3>1, SMT DEF VerdictInv
  <2>3. CASE /\ state_of(queue, conn[c].id) = "Granted"
             /\ conn' = [conn EXCEPT ![c] = [@ EXCEPT !.pc = "granted", !.left = 0]]
    <3>1. /\ conn'[c].id = conn[c].id /\ conn'[c].pc = "granted"
          /\ \A d \in Conns \ {c} : conn'[d] = conn[d]
      BY <1>0, <2>3 DEF Handling
    <3>2. conn[c].id \in DOMAIN queue.requests /\ queue.requests[conn[c].id].state = "Granted"
      BY <2>3 DEF state_of
    <3>3. conn[c].id \in DOMAIN verdict /\ verdict[conn[c].id] = "Granted"
      BY <3>2 DEF VerdictInv, Terminal, RequestState, Unsettled
    <3> QED
      BY <2>1, <3>1, <3>3, SMT DEF VerdictInv
  <2> QED
    BY <1>3, <2>2, <2>3 DEF observe
<1>4. ASSUME NEW c \in Conns, await_approval(c)
      PROVE  VerdictInv' /\ UNCHANGED verdict
  <2>1. UNCHANGED verdict /\ conn[c].pc = "resolved" /\ conn[c].id = NoRequest
    BY <1>4 DEF await_approval, VerdictInv
  <2>2. /\ conn'[c].pc \in {"waiting", "done", "granted"}
        /\ conn'[c].pc = "granted" => conn'[c].id = conn[c].id
        /\ \A d \in Conns \ {c} : conn'[d] = conn[d]
    <3>1. CASE \E reply : answer(c, reply)
      BY <1>0, <3>1, AnswerEffect
    <3>2. CASE conn' = [conn EXCEPT ![c].pc = "granted"]
      BY <1>0, <3>2 DEF Handling
    <3>3. CASE \E id : conn' = [conn EXCEPT ![c] = [@ EXCEPT !.pc = "waiting", !.id = id,
                                                           !.left = RequestTtl + 1]]
      <4> PICK id : conn' = [conn EXCEPT ![c] = [@ EXCEPT !.pc = "waiting", !.id = id,
                                                          !.left = RequestTtl + 1]]
        BY <3>3
      <4> QED
        BY <1>0 DEF Handling
    <3> QED
      BY <1>4, <3>1, <3>2, <3>3 DEF await_approval, serve_cached, queue_ceremony
  <2>3. CASE UNCHANGED queue
    BY <2>1, <2>2, <2>3, SMT DEF VerdictInv
  <2>4. CASE ~ UNCHANGED queue
    <3>1. queue' = push(queue, conn[c].scope, conn[c].access.key, conn[c].access.ttl)
      BY <1>4, <2>4, ZenonT(60) DEF await_approval, serve_cached, queue_ceremony
    <3>2. /\ queue'.next_id = queue.next_id + 1 /\ queue.next_id \in Nat
          /\ DOMAIN queue'.requests = DOMAIN queue.requests \cup {queue.next_id}
          /\ queue'.requests[queue.next_id].state = "Pending"
          /\ \A i \in DOMAIN queue.requests :
               i # queue.next_id /\ queue'.requests[i] = queue.requests[i]
      BY <1>0, <3>1, SMT DEF push, QueueOK, RequestIds
    <3>3. "Pending" \notin Terminal /\ "Pending" # "Granted"
      BY DEF Terminal, Unsettled
    <3>4. queue.next_id \notin DOMAIN verdict
      BY <3>2, SMT DEF VerdictInv
    <3>5. \A i \in DOMAIN verdict : i \in Nat /\ i < queue'.next_id
      BY <1>0, <3>2, SMT DEF VerdictInv, QueueOK, RequestIds
    <3> QED
      BY <2>1, <2>2, <3>2, <3>3, <3>4, <3>5, SMT DEF VerdictInv
  <2> QED
    BY <2>1, <2>3, <2>4
<1>5. ASSUME NEW c \in Conns, Get(c) \/ authorize(c) \/ authorize_resolve(c) \/ deliver(c) \/ Reply(c)
      PROVE  VerdictInv' /\ UNCHANGED verdict
  <2>1. UNCHANGED <<queue, verdict>>
    BY <1>5 DEF Get, authorize, authorize_resolve, deliver, Reply, shared
  <2>2. \A d \in Conns \ {c} : conn'[d] = conn[d]
    <3>1. CASE Get(c) \/ authorize_resolve(c)
      BY <1>0, <3>1, AnswerEffect, ResolveEffect DEF Get, authorize_resolve
    <3>2. CASE deliver(c)
      BY <1>0, <3>2, AnswerEffect, ReplyEffect DEF deliver, read_value, finish_authorization
    <3>3. CASE authorize(c) \/ Reply(c)
      BY <1>0, <3>3 DEF authorize, Reply
    <3> QED
      BY <1>5, <3>1, <3>2, <3>3
  <2>3. CASE deliver(c)
    <3>1. conn'[c].pc = "done"
      BY <1>0, <2>3, AnswerEffect, ReplyEffect DEF deliver, read_value, finish_authorization
    <3> QED
      BY <2>1, <2>2, <3>1, SMT DEF VerdictInv
  <2>4. CASE Reply(c)
    <3>1. conn'[c] = Idle
      BY <1>0, <2>4 DEF Reply
    <3> QED
      BY <2>1, <2>2, <3>1, SMT DEF VerdictInv, Idle
  <2>5. CASE authorize(c)
    <3>1. conn'[c].id = NoRequest /\ conn'[c].pc = "authorize"
      BY <1>0, <2>5 DEF authorize, Idle
    <3> QED
      BY <2>1, <2>2, <3>1 DEF VerdictInv
  <2>6. CASE Get(c) \/ authorize_resolve(c)
    <3>1. \/ conn'[c].pc = "done"
          \/ conn'[c].pc = "resolved" /\ conn'[c].id = NoRequest
      BY <1>0, <2>6, AnswerEffect, ResolveEffect DEF Get, authorize_resolve
    <3> QED
      BY <2>1, <2>2, <3>1 DEF VerdictInv
  <2> QED
    BY <1>5, <2>1, <2>3, <2>4, <2>5, <2>6
<1>6. CASE Tick
  <2>1. /\ queue'.next_id = queue.next_id /\ DOMAIN queue'.requests = DOMAIN queue.requests
        /\ \A i \in DOMAIN queue.requests : queue'.requests[i].state = queue.requests[i].state
    <3>1. queue' = elapse(queue)
      BY <1>6 DEF Tick
    <3>2. /\ queue'.next_id = queue.next_id
          /\ queue'.requests =
               [i \in DOMAIN queue.requests |->
                  [queue.requests[i] EXCEPT !.age = IF @ < Horizon THEN @ + 1 ELSE @]]
      BY <1>0, <3>1 DEF elapse, QueueOK
    <3>3. \A i \in DOMAIN queue.requests : queue.requests[i] \in Request
      BY <1>0 DEF QueueOK
    <3> QED
      BY <3>2, <3>3 DEF Request
  <2>2. \A c \in Conns : conn'[c].pc = conn[c].pc /\ conn'[c].id = conn[c].id
    <3>1. \A c \in Conns : conn'[c] = [conn[c] EXCEPT !.left = less(@)]
      BY <1>6 DEF Tick
    <3> QED
      BY <1>0, <3>1, ZenonT(60) DEF Handling
  <2>3. UNCHANGED verdict
    BY <1>6 DEF Tick
  <2> QED
    BY <2>1, <2>2, <2>3 DEF VerdictInv
<1>7. CASE \/ redeem \/ register \/ unregister \/ spawn \/ on_started \/ touch \/ sops_succeeds
           \/ sops_fails \/ edit_file \/ root_dies \/ tty_vanishes \/ tty_reopens
  BY <1>1, <1>7 DEF redeem, register, unregister, spawn, on_started, touch, sops_succeeds,
                    sops_fails, edit_file, root_dies, tty_vanishes, tty_reopens, shared
<1>8. CASE UNCHANGED vars
  BY <1>1, <1>8 DEF vars
<1> QED
  BY <1>2, <1>3, <1>4, <1>5, <1>6, <1>7, <1>8 DEF Next, Handler, Control, Worker, World

\* Late output is discarded: no grant, receipt or redeemed capability ever comes
\* from a request that was denied, timed out or failed first.
THEOREM LateOutput == Spec => []LateOutputDiscarded
<1>1. Init => VerdictInv /\ LateOutputDiscarded
  <2> SUFFICES ASSUME Init PROVE VerdictInv /\ LateOutputDiscarded
    OBVIOUS
  <2>1. /\ DOMAIN verdict = {} /\ DOMAIN queue.requests = {}
        /\ grants = {} /\ receipts = {} /\ capability_grants = {}
    BY DEF Init, new
  <2>2. \A c \in Conns : conn[c].pc = "idle" /\ conn[c].id = NoRequest
    BY DEF Init, Idle
  <2> QED
    BY <2>1, <2>2 DEF VerdictInv, LateOutputDiscarded
<1>2. TypeOK /\ TypeOK' /\ VerdictInv /\ LateOutputDiscarded /\ [Next]_vars =>
        VerdictInv' /\ LateOutputDiscarded'
  <2> SUFFICES ASSUME TypeOK, TypeOK', VerdictInv, LateOutputDiscarded, [Next]_vars
               PROVE  VerdictInv' /\ LateOutputDiscarded'
    OBVIOUS
  <2>1. /\ VerdictInv'
        /\ \A i \in DOMAIN verdict : i \in DOMAIN verdict' /\ verdict'[i] = verdict[i]
    BY VerdictStep
  <2>2. \A g \in grants' : g.id \in DOMAIN verdict' /\ verdict'[g.id] = "Granted"
    <3>1. CASE Tick
      BY <2>1, <3>1, SMT DEF Tick, age, LateOutputDiscarded, TypeOK, StateOK, Grant
    <3>2. CASE grants' \subseteq grants
      BY <2>1, <3>2 DEF LateOutputDiscarded
    <3>3. CASE /\ finish_decrypt /\ install
               /\ grants' \subseteq grants \cup {new_grant}
               /\ lock_epoch = worker.lock_epoch /\ session_is_active
               /\ ~ (grants' \subseteq grants)
      <4>1. /\ queue' = complete(queue, worker.id, worker.generation)
            /\ still_current(queue, worker.id, worker.generation)
        BY <3>3 DEF install
      <4>2. /\ worker.id \in DOMAIN queue'.requests
            /\ queue'.requests[worker.id].state = "Granted"
        BY <4>1, CompleteOnward, SMT DEF TypeOK, StateOK
      <4>3. worker.id \in DOMAIN verdict' /\ verdict'[worker.id] = "Granted"
        BY <2>1, <4>2 DEF VerdictInv, Terminal, RequestState, Unsettled
      <4> QED
        BY <2>1, <3>3, <4>3, SMT DEF new_grant, LateOutputDiscarded
    <3> QED
      BY <3>1, <3>2, <3>3, GrantStep
  <2>3. \A r \in receipts' \cup capability_grants' :
          r.request \in DOMAIN verdict' /\ verdict'[r.request] = "Granted"
    <3>1. CASE Tick
      BY <2>1, <3>1, SMT DEF Tick, age, LateOutputDiscarded, TypeOK, StateOK, Receipt, CapabilityGrant
    <3>2. CASE ~ Tick
      <4>1. \A r \in receipts \cup capability_grants :
              r.request \in DOMAIN verdict' /\ verdict'[r.request] = "Granted"
        BY <2>1 DEF LateOutputDiscarded
      <4>2. \A c \in Conns : conn[c].pc = "granted" /\ mints(c) =>
              conn[c].id \in DOMAIN verdict' /\ verdict'[conn[c].id] = "Granted"
        BY <2>1 DEF mints, VerdictInv
      <4>3. \A r \in receipts' \cup capability_grants' :
              \/ \E x \in receipts \cup capability_grants : r.request = x.request
              \/ \E c \in Conns : conn[c].pc = "granted" /\ mints(c) /\ r.request = conn[c].id
        BY <3>2, ReceiptStep, SMT
      <4> QED
        BY <4>1, <4>2, <4>3
    <3> QED
      BY <3>1, <3>2
  <2> QED
    BY <2>1, <2>2, <2>3 DEF LateOutputDiscarded
<1> QED
  BY <1>1, <1>2, TypeCorrect, PTL DEF Spec

-----------------------------------------------------------------------------

(***************************************************************************)
(* The broker implements TouchGate.  The mapping needs to know that a      *)
(* touch belongs to a decrypt that runs, so that each ceremony begins      *)
(* untouched, and that a job never comes from a later epoch, so that a     *)
(* LOCK voids it for good.                                                 *)
(***************************************************************************)
GateInv ==
    /\ CooldownCoversCache
    /\ child.touched => worker.pc \in {"spawned", "running"}
    /\ worker.lock_epoch <= lock_epoch

Pairs(gs) == {<<g.scope, g.key>> : g \in gs}

\* The worker's place in its job, the touch and the epoch: who changes them.
LEMMA JobOrTouch ==
    ASSUME TypeOK, CooldownCoversCache, [Next]_vars
    PROVE  \/ UNCHANGED <<worker, lock_epoch>> /\ child'.touched = child.touched
           \/ lock \/ scan \/ spawn \/ on_started \/ finish_decrypt \/ touch
<1>0. child \in Child
  BY DEF TypeOK, WorkerOK
<1>k. ASSUME NEW ids, kill_active(ids)
      PROVE  child'.touched = child.touched
  BY <1>0, <1>k DEF kill_active, Child
<1>1. CASE UNCHANGED vars
  BY <1>1 DEF vars
<1>2. ASSUME NEW c \in Conns, Handler(c)
      PROVE  UNCHANGED <<worker, lock_epoch>> /\ child'.touched = child.touched
  <2>1. UNCHANGED <<worker, lock_epoch>>
    BY <1>2 DEF Handler, Get, authorize, authorize_resolve, await_approval, observe, deliver, Reply,
                shared
  <2>2. CASE observe(c)
    BY <1>k, <2>1, <2>2 DEF observe
  <2>3. CASE ~ observe(c)
    BY <1>2, <2>1, <2>3 DEF Handler, Get, authorize, authorize_resolve, await_approval, deliver, Reply
  <2> QED
    BY <2>2, <2>3
<1>3. CASE deny_request
  BY <1>k, <1>3 DEF deny_request
<1>4. CASE redeem \/ register \/ unregister
  BY <1>4 DEF redeem, register, unregister
<1>5. CASE sops_succeeds \/ sops_fails
  BY <1>0, <1>5, SMT DEF sops_succeeds, sops_fails, shared, Child
<1>6. CASE edit_file \/ root_dies \/ tty_vanishes \/ tty_reopens
  BY <1>6 DEF edit_file, root_dies, tty_vanishes, tty_reopens, shared
<1>7. CASE Tick
  BY <1>0, <1>7 DEF Tick, Child
<1> QED
  BY <1>1, <1>2, <1>3, <1>4, <1>5, <1>6, <1>7 DEF Next, Control, Worker, World

\* A scan leaves the touch alone and takes at most one job, in this epoch.
LEMMA ScanEffect ==
    ASSUME TypeOK, CooldownCoversCache, scan
    PROVE  /\ worker.pc = "scan" /\ child' = child /\ lock_epoch' = lock_epoch
           /\ grants' \subseteq grants
           /\ \/ worker' = worker
              \/ /\ worker'.pc = "picked" /\ worker'.lock_epoch = lock_epoch
                 /\ worker'.scope \in Scopes /\ worker'.key \in AllKeys
<1> DEFINE q == prune(sweep_timeouts(queue))
<1>1. QueueOK(q)
  BY SweepOK, PruneOK DEF TypeOK, StateOK
<1>2. worker.pc = "scan" /\ child' = child /\ lock_epoch' = lock_epoch
  BY DEF scan, CooldownCoversCache, kill_active
<1>3. grants' \subseteq grants
  BY DEF scan, revoke_missing_ttys, sweep
<1>4. worker' = worker \/ \E id \in DOMAIN q.requests : worker' = job(q, id)
  BY DEF scan
<1>5. ASSUME NEW id \in DOMAIN q.requests, worker' = job(q, id)
      PROVE  /\ worker'.pc = "picked" /\ worker'.lock_epoch = lock_epoch
             /\ worker'.scope \in Scopes /\ worker'.key \in AllKeys
  <2>1. q.requests[id] \in Request
    BY <1>1, <1>5 DEF QueueOK
  <2> HIDE DEF q
  <2> QED
    BY <1>5, <2>1 DEF job, Request
<1> QED
  BY <1>2, <1>3, <1>4, <1>5

LEMMA GateInvStep ==
    ASSUME TypeOK, GateInv, [Next]_vars
    PROVE  GateInv'
<1>0. /\ CooldownCoversCache /\ CooldownCoversCache' /\ child \in Child /\ worker \in Job
      /\ worker.lock_epoch \in Nat /\ lock_epoch \in Nat
  BY TouchStep DEF GateInv, TypeOK, WorkerOK, JobOK, Job, StateOK
<1>1. CASE UNCHANGED <<worker, lock_epoch>> /\ child'.touched = child.touched
  BY <1>0, <1>1 DEF GateInv
<1>2. CASE lock
  <2>1. worker' = worker /\ child'.touched = child.touched /\ lock_epoch' = lock_epoch + 1
    BY <1>0, <1>2 DEF lock, kill_active, Child
  <2> QED
    BY <1>0, <2>1, SMT DEF GateInv
<1>3. CASE scan
  BY <1>0, <1>3, ScanEffect, SMT DEF GateInv
<1>4. CASE spawn
  <2>1. /\ worker.pc = "picked" /\ lock_epoch' = lock_epoch
        /\ worker'.lock_epoch = worker.lock_epoch
    BY <1>0, <1>4 DEF spawn, shared, Job
  <2>2. ~ child'.touched
    BY <1>0, <1>4, <2>1 DEF spawn, GateInv, Child
  <2> QED
    BY <1>0, <2>1, <2>2 DEF GateInv
<1>5. CASE on_started
  <2>1. /\ worker'.pc = "running" /\ lock_epoch' = lock_epoch
        /\ worker'.lock_epoch = worker.lock_epoch
    BY <1>0, <1>5 DEF on_started, Job
  <2> QED
    BY <1>0, <2>1 DEF GateInv
<1>6. CASE finish_decrypt
  <2>1. worker'.lock_epoch = 0 /\ ~ child'.touched /\ lock_epoch' = lock_epoch
    BY <1>0, <1>6 DEF finish_decrypt, NoJob, Child
  <2> QED
    BY <1>0, <2>1, SMT DEF GateInv
<1>7. CASE touch
  <2>1. worker' = worker /\ lock_epoch' = lock_epoch /\ child.state = "running"
    BY <1>7 DEF touch, shared
  <2>2. worker.pc \in {"spawned", "running"}
    BY <1>0, <2>1 DEF CooldownCoversCache, Job
  <2> QED
    BY <1>0, <2>1, <2>2 DEF GateInv
<1> QED
  BY <1>0, <1>1, <1>2, <1>3, <1>4, <1>5, <1>6, <1>7, JobOrTouch
\* Steps that only drop grants are revocations; those that keep the granted
\* pairs, the job, the touch and the epoch are nothing to the gate.
LEMMA GateRevokes ==
    ASSUME grants' \subseteq grants, worker' = worker, child'.touched = child.touched,
           lock_epoch' = lock_epoch
    PROVE  Gate!Revoke
BY DEF Gate!Revoke

LEMMA GateStutters ==
    ASSUME Pairs(grants') = Pairs(grants), worker'.pc = "scan" <=> worker.pc = "scan",
           worker'.scope = worker.scope, worker'.key = worker.key,
           worker'.lock_epoch = worker.lock_epoch, child'.touched = child.touched,
           lock_epoch' = lock_epoch
    PROVE  UNCHANGED Gate!gate
BY DEF Gate!gate, Pairs

\* A grant's age is not part of its pair.
LEMMA AgeKeepsPairs ==
    ASSUME NEW gs, gs \subseteq Grant
    PROVE  Pairs(age(gs)) = Pairs(gs)
<1>1. ASSUME NEW g \in gs
      PROVE  LET h == [g EXCEPT !.left = less(@)] IN h.scope = g.scope /\ h.key = g.key
  BY DEF Grant
<1> QED
  BY <1>1, ZenonT(60) DEF Pairs, age

\* The install replaces the pair's old grant, if any, by the new one.
LEMMA InstallPairs ==
    Pairs(others(worker.scope, worker.key) \cup {new_grant})
      = Pairs(grants) \cup {<<worker.scope, worker.key>>}
<1>1. new_grant.scope = worker.scope /\ new_grant.key = worker.key
  BY DEF new_grant
<1> QED
  BY <1>1 DEF Pairs, others

\* A finished decrypt approves its ceremony, touched and not void, or
\* abandons it.
LEMMA GateFinish ==
    ASSUME TypeOK, GateInv, finish_decrypt
    PROVE  Gate!Approve \/ Gate!Abandon
<1>1. /\ worker.pc \in {"failed", "running"} /\ worker.scope \in Scopes /\ worker.key \in AllKeys
      /\ worker'.pc = "scan" /\ ~ child'.touched /\ child.touched \in BOOLEAN
  BY DEF finish_decrypt, NoJob, TypeOK, WorkerOK, JobOK, Child
<1> DEFINE pair == <<worker.scope, worker.key>>
<1>2. pair # None /\ worker.pc # "scan"
  BY <1>1, BrokerConfig, SMT DEF Scopes, AllKeys
<1>3. CASE grants' = grants
  <2>1. Pairs(grants') = Pairs(grants)
    BY <1>3
  <2> QED
    BY <1>1, <1>2, <2>1, SMT DEF Gate!Abandon, Gate!Rest, Pairs
<1>4. CASE install /\ child.state = "exited" /\ worker.pc = "running" /\ grants' # grants
  <2> DEFINE q == IF lock_epoch # worker.lock_epoch \/ ~ session_is_active
                  THEN deny(queue, worker.id) ELSE queue
  <2>1. still_current(q, worker.id, worker.generation)
    BY <1>4 DEF install
  <2>2. lock_epoch = worker.lock_epoch
    BY <2>1, DeniedNotCurrent DEF TypeOK, StateOK
  <2>3. grants' = others(worker.scope, worker.key) \cup {new_grant}
    BY <1>4, <2>1 DEF install
  <2>4. Pairs(grants') = Pairs(grants) \cup {pair}
    BY <2>3, InstallPairs
  <2>5. child.touched
    BY <1>4 DEF GateInv, CooldownCoversCache
  <2> QED
    BY <1>1, <1>2, <2>2, <2>4, <2>5, SMT DEF Gate!Approve, Gate!Rest, Pairs
<1>5. grants' = grants \/ (install /\ child.state = "exited" /\ worker.pc = "running")
  BY DEF finish_decrypt, record_failure
<1> QED
  BY <1>3, <1>4, <1>5

LEMMA GateStep ==
    ASSUME TypeOK, GateInv, [Next]_vars
    PROVE  [Gate!Next]_(Gate!gate)
<1>0. /\ CooldownCoversCache /\ child \in Child /\ worker \in Job /\ grants \subseteq Grant
      /\ worker.lock_epoch \in Nat /\ lock_epoch \in Nat /\ worker.lock_epoch <= lock_epoch
      /\ worker.pc # "scan" => <<worker.scope, worker.key>> # None
  BY BrokerConfig, SMT DEF GateInv, TypeOK, WorkerOK, JobOK, Job, StateOK, Scopes, AllKeys
<1>1. CASE UNCHANGED <<worker, lock_epoch>> /\ child'.touched = child.touched /\ ~ Tick /\ ~ finish_decrypt
  <2>1. grants' \subseteq grants
    BY <1>1, GrantStep
  <2> QED
    BY <1>1, <2>1, GateRevokes DEF Gate!Next
<1>2. CASE lock
  <2>1. /\ worker' = worker /\ child'.touched = child.touched /\ lock_epoch' = lock_epoch + 1
        /\ grants' = {}
    BY <1>0, <1>2 DEF lock, kill_active, Child
  <2>2. worker.lock_epoch # lock_epoch'
    BY <1>0, <2>1, SMT
  <2>3. Gate!Lock
    BY <1>0, <2>1, <2>2 DEF Gate!Lock
  <2> QED
    BY <2>3 DEF Gate!Next
<1>3. CASE scan
  <2>1. CASE worker' = worker
    BY <1>0, <1>3, <2>1, ScanEffect, GateRevokes DEF Gate!Next
  <2>2. CASE worker'.pc = "picked"
    <3>1. ~ child.touched
      BY <1>3, ScanEffect, <1>0 DEF GateInv
    <3>2. worker.pc = "scan" /\ child' = child /\ lock_epoch' = lock_epoch /\ grants' \subseteq grants
      BY <1>0, <1>3, ScanEffect
    <3>3. /\ worker'.lock_epoch = lock_epoch' /\ worker'.scope \in Scopes /\ worker'.key \in AllKeys
      BY <1>0, <1>3, <2>2, <3>2, ScanEffect
    <3>4. child.touched = FALSE
      BY <1>0, <3>1 DEF Child
    <3>5. Gate!Begin
      BY <2>2, <3>2, <3>3, <3>4 DEF Gate!Begin
    <3> QED
      BY <3>5 DEF Gate!Next
  <2> QED
    BY <1>0, <1>3, <2>1, <2>2, ScanEffect
<1>4. CASE spawn
  <2>1. /\ worker.pc = "picked" /\ UNCHANGED <<grants, lock_epoch>> /\ worker'.pc # "scan"
        /\ worker'.lock_epoch = worker.lock_epoch /\ worker'.scope = worker.scope
        /\ worker'.key = worker.key
    BY <1>0, <1>4 DEF spawn, shared, Job
  <2>2. child'.touched = child.touched
    BY <1>0, <1>4, <2>1 DEF spawn, GateInv, Child
  <2> QED
    BY <2>1, <2>2, GateStutters
<1>5. CASE on_started
  <2>1. /\ worker.pc # "scan" /\ UNCHANGED <<grants, lock_epoch>> /\ worker'.pc # "scan"
        /\ worker'.lock_epoch = worker.lock_epoch /\ worker'.scope = worker.scope
        /\ worker'.key = worker.key
    BY <1>0, <1>5 DEF on_started, Job
  <2>2. child'.touched = child.touched
    BY <1>0, <1>5 DEF on_started, Child
  <2> QED
    BY <2>1, <2>2, GateStutters
<1>6. CASE finish_decrypt
  BY <1>6, GateFinish DEF Gate!Next
<1>7. CASE touch
  <2>1. worker' = worker /\ UNCHANGED <<grants, lock_epoch>> /\ child.state = "running"
    BY <1>7 DEF touch, shared
  <2>2. worker.pc # "scan" /\ child'.touched = TRUE
    BY <1>0, <1>7, <2>1 DEF CooldownCoversCache, Child, touch
  <2>3. Gate!Touch
    BY <1>0, <2>1, <2>2 DEF Gate!Touch
  <2> QED
    BY <2>3 DEF Gate!Next
<1>8. CASE Tick
  <2>1. worker' = worker /\ UNCHANGED lock_epoch /\ grants' = age(grants)
    BY <1>8 DEF Tick
  <2>2. child'.touched = child.touched
    BY <1>0, <1>8 DEF Tick, Child
  <2> QED
    BY <1>0, <2>1, <2>2, AgeKeepsPairs, GateStutters
<1> QED
  BY <1>0, <1>1, <1>2, <1>3, <1>4, <1>5, <1>6, <1>7, <1>8, JobOrTouch

\* The broker implements TouchGate: a pair becomes readable only at the end of
\* a ceremony of its own that was touched and that no LOCK fell into, for any
\* number of clients, keys and requests.
THEOREM GateIsImplemented == Spec => ImplementsTouchGate
<1>1. Init => GateInv
  BY QueueLimits, SMT DEF Init, GateInv, CooldownCoversCache, NoJob, NoChild, new
<1>2. TypeOK /\ GateInv /\ [Next]_vars => GateInv'
  BY GateInvStep
<1>3. Init => Gate!Init
  BY SMT DEF Init, Gate!Init, NoJob, NoChild
<1>4. TypeOK /\ GateInv /\ [Next]_vars => [Gate!Next]_(Gate!gate)
  BY GateStep
<1> QED
  BY <1>1, <1>2, <1>3, <1>4, TypeCorrect, PTL DEF Spec, ImplementsTouchGate, Gate!Spec

-----------------------------------------------------------------------------
(***************************************************************************)
(* The queue only ever forgets a request or changes its state; the scope   *)
(* and the key it was made for stay.                                       *)
(***************************************************************************)
Keeps(q, p) ==
    /\ p.next_id = q.next_id
    /\ \A i \in DOMAIN p.requests :
         /\ i \in DOMAIN q.requests
         /\ p.requests[i].scope = q.requests[i].scope
         /\ p.requests[i].key = q.requests[i].key

\* deny and timeout keep every request's scope and key.
LEMMA SettleKeeps ==
    ASSUME NEW q, QueueOK(q), NEW id, NEW v \in Terminal
    PROVE  Keeps(q, settle(q, id, v))
<1>1. CASE state_of(q, id) \in Unsettled
  <2>1. id \in DOMAIN q.requests
    BY <1>1 DEF state_of, Unsettled
  <2>2. /\ settle(q, id, v).requests =
             [q.requests EXCEPT ![id].state = v, ![id].generation = @ + 1]
        /\ settle(q, id, v).next_id = q.next_id
    BY <1>1 DEF settle, finish, QueueOK
  <2>3. \A i \in DOMAIN q.requests : q.requests[i] \in Request
    BY DEF QueueOK
  <2> QED
    BY <2>1, <2>2, <2>3, SMT DEF Keeps, Request
<1>2. CASE state_of(q, id) \notin Unsettled
  BY <1>2 DEF settle, Keeps
<1> QED
  BY <1>1, <1>2

\* The sweep and the pruning at the head of the worker's loop do too.
LEMMA SweepKeeps ==
    ASSUME NEW q, QueueOK(q)
    PROVE  Keeps(q, prune(sweep_timeouts(q)))
<1> DEFINE s == sweep_timeouts(q)
           p == prune(s)
<1>1. /\ s.next_id = q.next_id /\ DOMAIN s.requests = DOMAIN q.requests
      /\ \A i \in DOMAIN q.requests : s.requests[i].scope = q.requests[i].scope
                                      /\ s.requests[i].key = q.requests[i].key
  BY SMT DEF sweep_timeouts, QueueOK, Request
<1>2. QueueOK(s)
  BY SweepOK
<1> HIDE DEF s
<1>3. /\ p.next_id = s.next_id /\ DOMAIN p.requests \subseteq DOMAIN s.requests
      /\ \A i \in DOMAIN p.requests : p.requests[i] = s.requests[i]
  BY <1>2 DEF prune, QueueOK
<1> HIDE DEF p
<1>4. Keeps(q, p)
  BY <1>1, <1>3 DEF Keeps
<1> QED
  BY <1>4 DEF p, s

\* mark_decrypting changes the state and the generation of one request.
LEMMA MarkKeeps ==
    ASSUME NEW q, QueueOK(q), NEW id \in DOMAIN q.requests
    PROVE  Keeps(q, mark_decrypting(q, id))
<1>1. /\ mark_decrypting(q, id).requests =
           [q.requests EXCEPT ![id].state = "Decrypting", ![id].generation = q.generation + 1]
      /\ mark_decrypting(q, id).next_id = q.next_id
  BY DEF QueueOK, mark_decrypting
<1>2. \A i \in DOMAIN q.requests : q.requests[i] \in Request
  BY DEF QueueOK
<1> QED
  BY <1>1, <1>2, SMT DEF Keeps, Request

\* fail changes the state of one request.
LEMMA FailKeeps ==
    ASSUME NEW q, QueueOK(q), NEW id
    PROVE  Keeps(q, fail(q, id))
<1>1. /\ fail(q, id).next_id = q.next_id
      /\ DOMAIN fail(q, id).requests = DOMAIN q.requests
      /\ \A i \in DOMAIN q.requests : fail(q, id).requests[i].scope = q.requests[i].scope
                                      /\ fail(q, id).requests[i].key = q.requests[i].key
  BY SMT DEF fail, finish, QueueOK, Request
<1> QED
  BY <1>1 DEF Keeps

\* complete changes the state of one request.
LEMMA CompleteKeeps ==
    ASSUME NEW q, QueueOK(q), NEW id, NEW generation
    PROVE  Keeps(q, complete(q, id, generation))
<1>1. /\ complete(q, id, generation).next_id = q.next_id
      /\ DOMAIN complete(q, id, generation).requests = DOMAIN q.requests
      /\ \A i \in DOMAIN q.requests :
           /\ complete(q, id, generation).requests[i].scope = q.requests[i].scope
           /\ complete(q, id, generation).requests[i].key = q.requests[i].key
  BY SMT DEF complete, finish, still_current, state_of, QueueOK, Request
<1> QED
  BY <1>1 DEF Keeps

\* The passing of time changes ages only.
LEMMA ElapseKeeps ==
    ASSUME NEW q, QueueOK(q)
    PROVE  Keeps(q, elapse(q)) /\ Onward(q, elapse(q))
<1>1. /\ elapse(q).next_id = q.next_id
      /\ elapse(q).requests =
           [i \in DOMAIN q.requests |->
              [q.requests[i] EXCEPT !.age = IF @ < Horizon THEN @ + 1 ELSE @]]
  BY DEF elapse, QueueOK
<1>2. \A i \in DOMAIN q.requests : q.requests[i] \in Request
  BY DEF QueueOK
<1>3. /\ DOMAIN elapse(q).requests = DOMAIN q.requests
      /\ \A i \in DOMAIN q.requests :
           /\ elapse(q).requests[i].scope = q.requests[i].scope
           /\ elapse(q).requests[i].key = q.requests[i].key
           /\ elapse(q).requests[i].state = q.requests[i].state
  BY <1>1, <1>2, SMT DEF Request
<1> QED
  BY <1>1, <1>3 DEF Keeps, Onward

\* Keeping twice is keeping.
LEMMA KeepsTrans ==
    ASSUME NEW q, NEW p, NEW r, Keeps(q, p), Keeps(p, r)
    PROVE  Keeps(q, r)
  BY DEF Keeps

\* Every critical section that settles, starts or drops a request keeps the
\* scopes and keys of those that remain.
LEMMA SettlersKeep ==
    ASSUME TypeOK, \/ \E c \in Conns : observe(c)
                   \/ deny_request \/ lock \/ scan \/ finish_decrypt
    PROVE  Keeps(queue, queue')
<1>0. QueueOK(queue) /\ Keeps(queue, queue)
  BY DEF TypeOK, StateOK, Keeps
<1>1. {"Denied", "TimedOut"} \subseteq Terminal
  BY DEF Terminal, RequestState, Unsettled
<1>2. ASSUME NEW c \in Conns, observe(c)
      PROVE  Keeps(queue, queue')
  BY <1>0, <1>1, <1>2, SettleKeeps DEF observe, timeout
<1>3. CASE deny_request \/ lock
  BY <1>0, <1>1, <1>3, SettleKeeps DEF deny_request, lock, deny
<1>4. CASE scan
  <2> DEFINE q == prune(sweep_timeouts(queue))
  <2>1. QueueOK(q) /\ Keeps(queue, q)
    BY <1>0, SweepOK, PruneOK, SweepKeeps
  <2>2. \/ queue' = q
        \/ \E id \in DOMAIN q.requests : queue' = mark_decrypting(q, id)
    BY <1>4 DEF scan
  <2> HIDE DEF q
  <2> QED
    BY <2>1, <2>2, MarkKeeps, KeepsTrans, SMT
<1>5. CASE finish_decrypt
  <2>1. CASE install
    <3> DEFINE q == IF lock_epoch # worker.lock_epoch \/ ~ session_is_active
                    THEN deny(queue, worker.id) ELSE queue
    <3>1. QueueOK(q) /\ Keeps(queue, q)
      <4>1. QueueOK(deny(queue, worker.id)) /\ Keeps(queue, deny(queue, worker.id))
        BY <1>0, <1>1, SettleOK, SettleKeeps DEF deny, Terminal
      <4> QED
        BY <1>0, <4>1
    <3>2. queue' = complete(q, worker.id, worker.generation)
      BY <2>1 DEF install
    <3> HIDE DEF q
    <3> QED
      BY <3>1, <3>2, CompleteKeeps, KeepsTrans
  <2>2. CASE record_failure
    BY <1>0, <2>2, FailKeeps DEF record_failure
  <2> QED
    BY <1>5, <2>1, <2>2 DEF finish_decrypt
<1> QED
  BY <1>2, <1>3, <1>4, <1>5

(***************************************************************************)
(* What a step does to the queue and to one handler.                       *)
(***************************************************************************)
\* The handler that makes a new request.
Asks(c) ==
    /\ conn[c].pc = "resolved"
    /\ twins(queue, conn[c].scope, conn[c].access.key) = {}
    /\ admits(queue, conn[c].scope, conn[c].access.key)
    /\ queue' = push(queue, conn[c].scope, conn[c].access.key, conn[c].access.ttl)

\* A step makes no new request, or one that admits let in.
LEMMA QueueStep ==
    ASSUME TypeOK, [Next]_vars
    PROVE  \/ Keeps(queue, queue') /\ Onward(queue, queue')
           \/ \E c \in Conns : Asks(c)
<1>0. QueueOK(queue) /\ Keeps(queue, queue) /\ Onward(queue, queue)
  BY DEF TypeOK, StateOK, Keeps, Onward
<1>1. CASE \/ \E c \in Conns : observe(c)
           \/ deny_request \/ lock \/ scan \/ finish_decrypt
  BY <1>1, SettlersKeep, SettlersMoveOnward
<1>2. ASSUME NEW c \in Conns, await_approval(c)
      PROVE  UNCHANGED queue \/ Asks(c)
  BY <1>2 DEF await_approval, serve_cached, queue_ceremony, Asks
<1>3. CASE \E c \in Conns : \/ Get(c) \/ authorize(c) \/ authorize_resolve(c)
                            \/ deliver(c) \/ Reply(c)
  BY <1>0, <1>3 DEF Get, authorize, authorize_resolve, deliver, Reply, shared
<1>4. CASE Tick
  BY <1>0, <1>4, ElapseKeeps DEF Tick
<1>5. CASE \/ redeem \/ register \/ unregister \/ spawn \/ on_started \/ touch \/ sops_succeeds
           \/ sops_fails \/ edit_file \/ root_dies \/ tty_vanishes \/ tty_reopens
  BY <1>0, <1>5 DEF redeem, register, unregister, spawn, on_started, touch, sops_succeeds,
                    sops_fails, edit_file, root_dies, tty_vanishes, tty_reopens, shared
<1>6. CASE UNCHANGED vars
  BY <1>0, <1>6 DEF vars
<1> QED
  BY <1>0, <1>1, <1>2, <1>3, <1>4, <1>5, <1>6, ZenonT(60) DEF Next, Handler, Control, Worker, World

\* The question and the answer of a handler stay as they are.
Same(c) ==
    /\ conn'[c].access = conn[c].access /\ conn'[c].scope = conn[c].scope
    /\ conn'[c].id = conn[c].id /\ conn'[c].asked = conn[c].asked
    /\ conn'[c].reply = conn[c].reply /\ conn'[c].value = conn[c].value

\* The handler enters the wait loop, on a request it joins or has just made.
Enters(c) ==
    /\ conn[c].pc = "resolved" /\ conn'[c].pc = "waiting"
    /\ conn'[c].access = conn[c].access /\ conn'[c].scope = conn[c].scope
    /\ conn'[c].reply = conn[c].reply
    /\ \/ /\ conn'[c].id \in twins(queue, conn[c].scope, conn[c].access.key)
          /\ UNCHANGED queue
       \/ conn'[c].id = queue.next_id /\ Asks(c)

\* One step of one handler leaves the others alone; it ends the handler's
\* request, begins one, enters the wait loop or leaves it.
LEMMA HandlerStep ==
    ASSUME TypeOK, NEW c \in Conns, Handler(c)
    PROVE  /\ \A d \in Conns \ {c} : conn'[d] = conn[d]
           /\ \/ conn'[c].pc \in {"idle", "authorize", "resolved", "done"}
              \/ Enters(c)
              \/ /\ conn'[c].pc = "granted" /\ Same(c)
                 /\ \/ conn[c].pc = "waiting"
                    \/ conn[c].pc = "resolved" /\ serve_cached(c)
<1>0. conn \in [Conns -> Handling]
  BY DEF TypeOK, ConnOK
<1>1. CASE Get(c) \/ authorize_resolve(c)
  BY <1>0, <1>1, AnswerEffect, ResolveEffect DEF Get, authorize_resolve
<1>2. CASE authorize(c)
  BY <1>0, <1>2 DEF authorize, Idle
<1>3. CASE deliver(c)
  BY <1>0, <1>3, AnswerEffect, ReplyEffect DEF deliver, read_value, finish_authorization
<1>4. CASE Reply(c)
  BY <1>0, <1>4 DEF Reply, Idle
<1>5. CASE observe(c)
  <2>1. CASE \E reply : answer(c, reply)
    BY <1>0, <2>1, AnswerEffect
  <2>2. CASE conn' = [conn EXCEPT ![c] = [@ EXCEPT !.pc = "granted", !.left = 0]]
    <3>1. /\ conn'[c] = [conn[c] EXCEPT !.pc = "granted", !.left = 0]
          /\ \A d \in Conns \ {c} : conn'[d] = conn[d]
      BY <1>0, <2>2
    <3>2. conn'[c].pc = "granted" /\ Same(c)
      BY <1>0, <3>1, SMT DEF Handling, Same
    <3> QED
      BY <1>5, <3>1, <3>2 DEF observe
  <2> QED
    BY <1>5, <2>1, <2>2 DEF observe
<1>6. CASE await_approval(c)
  <2>0. conn[c].pc = "resolved"
    BY <1>6 DEF await_approval
  <2>1. CASE serve_cached(c)
    <3>1. /\ conn'[c] = [conn[c] EXCEPT !.pc = "granted"]
          /\ \A d \in Conns \ {c} : conn'[d] = conn[d]
      BY <1>0, <2>1 DEF serve_cached
    <3>2. conn'[c].pc = "granted" /\ Same(c)
      BY <1>0, <3>1, SMT DEF Handling, Same
    <3> QED
      BY <2>0, <2>1, <3>1, <3>2
  <2>2. CASE queue_ceremony(c)
    <3>1. CASE answer(c, "Refused")
      BY <1>0, <3>1, AnswerEffect
    <3>2. ASSUME NEW id,
                 conn' = [conn EXCEPT ![c] = [@ EXCEPT !.pc = "waiting", !.id = id,
                                                       !.left = RequestTtl + 1]],
                 \/ id \in twins(queue, conn[c].scope, conn[c].access.key) /\ UNCHANGED queue
                 \/ id = queue.next_id /\ Asks(c)
          PROVE  Enters(c) /\ \A d \in Conns \ {c} : conn'[d] = conn[d]
      <4>1. /\ conn'[c] = [conn[c] EXCEPT !.pc = "waiting", !.id = id, !.left = RequestTtl + 1]
            /\ \A d \in Conns \ {c} : conn'[d] = conn[d]
        BY <1>0, <3>2
      <4>2. /\ conn'[c].pc = "waiting" /\ conn'[c].id = id
            /\ conn'[c].access = conn[c].access /\ conn'[c].scope = conn[c].scope
            /\ conn'[c].reply = conn[c].reply
        BY <1>0, <4>1, SMT DEF Handling
      <4> QED
        BY <2>0, <3>2, <4>1, <4>2 DEF Enters
    <3>3. \/ answer(c, "Refused")
          \/ \E id : /\ conn' = [conn EXCEPT ![c] = [@ EXCEPT !.pc = "waiting", !.id = id,
                                                              !.left = RequestTtl + 1]]
                     /\ \/ /\ id \in twins(queue, conn[c].scope, conn[c].access.key)
                           /\ UNCHANGED queue
                        \/ id = queue.next_id /\ Asks(c)
      BY <2>0, <2>2 DEF queue_ceremony, Asks
    <3> QED
      BY <3>1, <3>2, <3>3
  <2> QED
    BY <1>6, <2>1, <2>2 DEF await_approval
<1> QED
  BY <1>1, <1>2, <1>3, <1>4, <1>5, <1>6 DEF Handler

\* Nobody but its own handler changes the question, the place or the answer of
\* a request being handled.
LEMMA ConnStep ==
    ASSUME TypeOK, [Next]_vars, NEW c \in Conns
    PROVE  Handler(c) \/ (conn'[c].pc = conn[c].pc /\ Same(c))
<1>0. conn \in [Conns -> Handling]
  BY DEF TypeOK, ConnOK
<1>1. ASSUME NEW d \in Conns, Handler(d)
      PROVE  Handler(c) \/ conn'[c] = conn[c]
  BY <1>1, HandlerStep
<1>2. CASE Tick
  <2>1. conn'[c] = [conn[c] EXCEPT !.left = less(@)]
    BY <1>2 DEF Tick
  <2> QED
    BY <1>0, <2>1 DEF Handling, Same
<1>3. CASE \/ redeem \/ register \/ unregister \/ deny_request \/ lock \/ scan \/ spawn
           \/ on_started \/ finish_decrypt \/ touch \/ sops_succeeds \/ sops_fails
           \/ edit_file \/ root_dies \/ tty_vanishes \/ tty_reopens
  BY <1>3 DEF redeem, register, unregister, deny_request, lock, scan, spawn, on_started,
              finish_decrypt, touch, sops_succeeds, sops_fails, edit_file, root_dies,
              tty_vanishes, tty_reopens, Same
<1>4. CASE UNCHANGED vars
  BY <1>4 DEF vars, Same
<1> QED
  BY <1>1, <1>2, <1>3, <1>4 DEF Next, Control, Worker, World, Same

\* push adds one Pending request under the next id and keeps the others.
LEMMA PushEffect ==
    ASSUME NEW q, QueueOK(q), NEW scope, NEW key, NEW ttl
    PROVE  LET p == push(q, scope, key, ttl) IN
           /\ p.next_id = q.next_id + 1
           /\ DOMAIN p.requests = DOMAIN q.requests \cup {q.next_id}
           /\ q.next_id \notin DOMAIN q.requests
           /\ p.requests[q.next_id].scope = scope /\ p.requests[q.next_id].key = key
           /\ \A i \in DOMAIN q.requests : p.requests[i] = q.requests[i]
<1> DEFINE p == push(q, scope, key, ttl)
<1>1. q.next_id \notin DOMAIN q.requests
  BY SMT DEF QueueOK, RequestIds
<1>2. /\ p.next_id = q.next_id + 1
      /\ p.requests = [i \in DOMAIN q.requests \cup {q.next_id} |->
                         IF i = q.next_id
                         THEN [scope |-> scope, key |-> key, state |-> "Pending",
                               generation |-> 0, age |-> 0, ttl |-> ttl]
                         ELSE q.requests[i]]
  BY DEF push, QueueOK
<1> HIDE DEF p
<1>3. /\ p.next_id = q.next_id + 1
      /\ DOMAIN p.requests = DOMAIN q.requests \cup {q.next_id}
      /\ p.requests[q.next_id].scope = scope /\ p.requests[q.next_id].key = key
      /\ \A i \in DOMAIN q.requests : p.requests[i] = q.requests[i]
  BY <1>1, <1>2, SMT
<1> QED
  BY <1>1, <1>3 DEF p

(***************************************************************************)
(* Whose request a handler waits for.  The request may be pruned while its *)
(* handler sleeps; because ids grow, no later request can take its place.  *)
(***************************************************************************)
WaitInv ==
    /\ \A c \in Conns : conn[c].pc = "waiting" => conn[c].id < queue.next_id
    /\ WaitsOnOwnRequest

\* A step keeps every waiter on a request of its own scope and key.
LEMMA WaitStep ==
    ASSUME TypeOK, TypeOK', WaitInv, [Next]_vars
    PROVE  WaitInv'
<1>0. /\ QueueOK(queue) /\ queue.next_id \in Nat
      /\ \A c \in Conns : conn[c].id \in Nat
  BY DEF TypeOK, StateOK, ConnOK, QueueOK, RequestIds, Handling
<1>1. /\ queue.next_id <= queue'.next_id
      /\ \A i \in DOMAIN queue'.requests : i < queue.next_id =>
           /\ i \in DOMAIN queue.requests
           /\ queue'.requests[i].scope = queue.requests[i].scope
           /\ queue'.requests[i].key = queue.requests[i].key
  <2>1. CASE Keeps(queue, queue')
    BY <1>0, <2>1, SMTT(30) DEF Keeps
  <2>2. ASSUME NEW c \in Conns, Asks(c)
        PROVE  <1>1!1 /\ <1>1!2
    BY <1>0, <2>2, PushEffect, SMT DEF Asks
  <2> QED
    BY <2>1, <2>2, QueueStep
<1> SUFFICES ASSUME NEW c \in Conns, conn'[c].pc = "waiting"
             PROVE  /\ conn'[c].id < queue'.next_id
                    /\ conn'[c].id \in DOMAIN queue'.requests =>
                         /\ queue'.requests[conn'[c].id].scope = conn'[c].scope
                         /\ queue'.requests[conn'[c].id].key = conn'[c].access.key
  BY DEF WaitInv, WaitsOnOwnRequest
<1>2. CASE conn'[c].pc = conn[c].pc /\ Same(c)
  <2>1. conn[c].pc = "waiting" /\ conn[c].id < queue.next_id
    BY <1>2 DEF WaitInv
  <2>2. conn[c].id < queue'.next_id
    BY <1>0, <1>1, <2>1, SMT DEF TypeOK, StateOK, QueueOK, RequestIds
  <2> QED
    BY <1>1, <1>2, <2>1, <2>2, ZenonT(60) DEF Same, WaitInv, WaitsOnOwnRequest
<1>3. CASE Enters(c)
  <2>1. CASE /\ conn'[c].id \in twins(queue, conn[c].scope, conn[c].access.key)
             /\ UNCHANGED queue
    <3>1. /\ conn'[c].id \in DOMAIN queue.requests
          /\ queue.requests[conn'[c].id].scope = conn[c].scope
          /\ queue.requests[conn'[c].id].key = conn[c].access.key
      BY <2>1 DEF twins, unsettled
    <3> QED
      BY <1>0, <1>3, <2>1, <3>1 DEF Enters, QueueOK
  <2>2. CASE conn'[c].id = queue.next_id /\ Asks(c)
    <3>1. queue' = push(queue, conn[c].scope, conn[c].access.key, conn[c].access.ttl)
      BY <2>2, SMT DEF Asks
    <3>2. /\ queue'.next_id = queue.next_id + 1
          /\ queue'.requests[queue.next_id].scope = conn[c].scope
          /\ queue'.requests[queue.next_id].key = conn[c].access.key
      BY <1>0, <3>1, PushEffect, SMT
    <3>3. conn'[c].access = conn[c].access /\ conn'[c].scope = conn[c].scope
      BY <1>3 DEF Enters
    <3> QED
      BY <1>0, <2>2, <3>2, <3>3, SMT
  <2> QED
    BY <1>3, <2>1, <2>2 DEF Enters
<1> QED
  BY <1>2, <1>3, ConnStep, HandlerStep

\* A handler waits on a request of its own scope and key: one session's
\* approval is never another's, although requests are shared (coalesced) and
\* pruned under the handlers that wait for them.
THEOREM WaitsOnOwn == Spec => []WaitsOnOwnRequest
<1>1. Init => WaitInv
  BY SMT DEF Init, WaitInv, WaitsOnOwnRequest, Idle
<1>2. TypeOK /\ TypeOK' /\ WaitInv /\ [Next]_vars => WaitInv'
  BY WaitStep
<1>3. WaitInv => WaitsOnOwnRequest
  BY DEF WaitInv
<1> QED
  BY <1>1, <1>2, <1>3, TypeCorrect, PTL DEF Spec

(***************************************************************************)
(* One receipt per ceremony.  A capability request is never shared, so the *)
(* handler that made it is the only one to hold its id; ids grow, so no    *)
(* receipt and no redeemed capability has an id yet to be given; and two   *)
(* receipts never have the same id, so redeeming the one leaves none.      *)
(***************************************************************************)
Minting(c) == conn[c].pc \in {"waiting", "granted"} /\ conn[c].access.op = "AUTHORIZE"

ReceiptInv ==
    /\ \A c \in Conns : Minting(c) => conn[c].id < queue.next_id
    /\ \A e \in receipts \cup capability_grants : e.request < queue.next_id
    /\ \A r, s \in receipts : r.request = s.request => r = s
    /\ ReceiptPerCeremony

\* A handler that is minting after a step was minting before it, with the same
\* request, and has not delivered; or it has just made a request of its own.
LEMMA MinterStep ==
    ASSUME TypeOK, [Next]_vars, NEW c \in Conns, Minting(c)'
    PROVE  \/ Minting(c) /\ conn'[c].id = conn[c].id /\ ~ deliver(c)
           \/ /\ conn'[c].id = queue.next_id /\ queue'.next_id = queue.next_id + 1
              /\ \A d \in Conns \ {c} : conn'[d] = conn[d]
              /\ Handler(c) /\ ~ deliver(c)
<1>0. conn \in [Conns -> Handling] /\ QueueOK(queue)
  BY DEF TypeOK, ConnOK, StateOK
<1>1. ~ deliver(c)
  BY <1>0, AnswerEffect, ReplyEffect
     DEF deliver, read_value, finish_authorization, Minting
<1>2. CASE conn'[c].pc = conn[c].pc /\ Same(c)
  BY <1>1, <1>2 DEF Minting, Same
<1>3. CASE Enters(c) /\ Handler(c)
  <2>1. conn[c].access.key \in Capabilities
    BY <1>3 DEF Enters, Minting, TypeOK, ConnOK
  <2>2. twins(queue, conn[c].scope, conn[c].access.key) = {}
    BY <2>1 DEF twins
  <2>3. conn'[c].id = queue.next_id /\ Asks(c)
    BY <1>3, <2>2 DEF Enters
  <2>4. queue'.next_id = queue.next_id + 1
    BY <1>0, <2>3, PushEffect, SMT DEF Asks
  <2> QED
    BY <1>1, <1>3, <2>3, <2>4, HandlerStep
<1>4. CASE /\ conn'[c].pc = "granted" /\ Same(c)
           /\ \/ conn[c].pc = "waiting"
              \/ conn[c].pc = "resolved" /\ serve_cached(c)
  BY <1>1, <1>4 DEF Minting, Same, serve_cached, force_fresh
<1> QED
  BY <1>2, <1>3, <1>4, ConnStep, HandlerStep DEF Minting

\* A step keeps one receipt per ceremony.
LEMMA OneReceiptStep ==
    ASSUME TypeOK, TypeOK', ReceiptInv, [Next]_vars
    PROVE  ReceiptInv'
<1>0. /\ queue.next_id \in Nat /\ queue'.next_id \in Nat /\ queue.next_id <= queue'.next_id
      /\ \A c \in Conns : conn[c].id \in Nat
      /\ \A e \in receipts \cup capability_grants : e.request \in Nat
  <2>1. QueueOK(queue) /\ queue.next_id \in Nat /\ queue'.next_id \in Nat
    BY DEF TypeOK, StateOK, QueueOK, RequestIds
  <2>2. queue.next_id <= queue'.next_id
    BY <2>1, QueueStep, PushEffect, SMT DEF Keeps, Asks
  <2> QED
    BY <2>1, <2>2 DEF TypeOK, StateOK, ConnOK, Handling, Receipt, CapabilityGrant, RequestIds
<1>1. \A c \in Conns : Minting(c)' =>
        \/ Minting(c) /\ conn'[c].id = conn[c].id /\ ~ deliver(c)
        \/ /\ conn'[c].id = queue.next_id /\ queue'.next_id = queue.next_id + 1
           /\ \A d \in Conns \ {c} : conn'[d] = conn[d]
           /\ Handler(c) /\ ~ deliver(c)
  BY MinterStep
<1>11. /\ \A c, d \in Conns : Minting(c) /\ Minting(d) /\ conn[c].id = conn[d].id => c = d
       /\ \A c \in Conns, e \in receipts \cup capability_grants :
            Minting(c) => e.request # conn[c].id
  BY DEF ReceiptInv, ReceiptPerCeremony, Minting
<1>2. \A c \in Conns : Minting(c)' => conn'[c].id < queue'.next_id
  BY <1>0, <1>1, SMT DEF ReceiptInv
<1>3. \A c, d \in Conns : Minting(c)' /\ Minting(d)' /\ conn'[c].id = conn'[d].id => c = d
  <2> SUFFICES ASSUME NEW c \in Conns, NEW d \in Conns, Minting(c)', Minting(d)',
                      conn'[c].id = conn'[d].id, c # d
               PROVE  FALSE
    OBVIOUS
  <2>1. CASE Minting(c) /\ conn'[c].id = conn[c].id /\ Minting(d) /\ conn'[d].id = conn[d].id
    BY <1>11, <2>1
  <2>2. CASE conn'[c].id = queue.next_id /\ \A x \in Conns \ {c} : conn'[x] = conn[x]
    <3>1. Minting(d) /\ conn[d].id = queue.next_id
      BY <2>2 DEF Minting
    <3> QED
      BY <1>0, <3>1, SMT DEF ReceiptInv
  <2>3. CASE conn'[d].id = queue.next_id /\ \A x \in Conns \ {d} : conn'[x] = conn[x]
    <3>1. Minting(c) /\ conn[c].id = queue.next_id
      BY <2>3 DEF Minting
    <3> QED
      BY <1>0, <3>1, SMT DEF ReceiptInv
  <2> QED
    BY <1>1, <2>1, <2>2, <2>3
<1>4. SUFFICES /\ \A e \in receipts' \cup capability_grants' : e.request < queue'.next_id
               /\ \A r, s \in receipts' : r.request = s.request => r = s
               /\ \A r \in receipts', g \in capability_grants' : r.request # g.request
               /\ \A c \in Conns, e \in receipts' \cup capability_grants' :
                    Minting(c)' => e.request # conn'[c].id
  BY <1>2, <1>3 DEF ReceiptInv, ReceiptPerCeremony, Minting
\* An entry whose request was there before is no new minter's.
<1>5. ASSUME NEW e \in receipts \cup capability_grants, NEW c \in Conns, Minting(c)'
      PROVE  e.request # conn'[c].id
  <2>1. CASE Minting(c) /\ conn'[c].id = conn[c].id
    BY <1>5, <1>11, <2>1
  <2>2. CASE conn'[c].id = queue.next_id
    BY <1>0, <1>5, <2>2, SMT DEF ReceiptInv
  <2> QED
    BY <1>1, <1>5, <2>1, <2>2
<1>6. \A e \in receipts \cup capability_grants : e.request < queue'.next_id
  BY <1>0, SMT DEF ReceiptInv
<1>7. CASE receipts' \subseteq receipts /\ capability_grants' \subseteq capability_grants
  BY <1>5, <1>6, <1>7 DEF ReceiptInv, ReceiptPerCeremony
<1>8. CASE Tick
  <2>1. /\ \A e \in receipts' : \E f \in receipts : e = [f EXCEPT !.left = less(@)]
        /\ \A e \in capability_grants' :
             \E f \in capability_grants : e = [f EXCEPT !.left = less(@)]
    BY <1>8 DEF Tick, age
  <2>2. /\ \A e \in receipts' : \E f \in receipts : e = [f EXCEPT !.left = less(@)]
                                                    /\ e.request = f.request
        /\ \A e \in capability_grants' : \E f \in capability_grants : e.request = f.request
    BY <2>1 DEF TypeOK, StateOK, Receipt, CapabilityGrant
  <2>3. \A r, s \in receipts' : r.request = s.request => r = s
    BY <2>2, SMT DEF ReceiptInv
  <2> QED
    BY <1>5, <1>6, <2>2, <2>3, SMT DEF ReceiptInv, ReceiptPerCeremony
<1>9. ASSUME capability_grants' = capability_grants, NEW c \in Conns,
             deliver(c), conn[c].pc = "granted", mints(c),
             receipts' \subseteq receipts \cup
                {[request |-> conn[c].id, cap |-> conn[c].access.key,
                  left |-> ReceiptTtl, epoch |-> conn[c].epoch_before]}
      PROVE  <1>4!1
  <2> DEFINE fresh == [request |-> conn[c].id, cap |-> conn[c].access.key,
                       left |-> ReceiptTtl, epoch |-> conn[c].epoch_before]
  <2>1. Minting(c) /\ fresh.request = conn[c].id /\ receipts' \subseteq receipts \cup {fresh}
    BY <1>9 DEF Minting, mints
  <2> HIDE DEF fresh
  <2>2. /\ conn[c].id < queue'.next_id
        /\ \A e \in receipts \cup capability_grants : e.request # conn[c].id
    BY <1>0, <1>11, <2>1, SMT DEF ReceiptInv
  <2>3. ASSUME NEW d \in Conns, Minting(d)'
        PROVE  conn'[d].id # conn[c].id
    <3>1. CASE Minting(d) /\ conn'[d].id = conn[d].id /\ ~ deliver(d)
      BY <1>9, <1>11, <2>1, <3>1
    <3>2. CASE conn'[d].id = queue.next_id
      BY <1>0, <2>1, <3>2, SMT DEF ReceiptInv
    <3> QED
      BY <1>1, <2>3, <3>1, <3>2
  <2> QED
    BY <1>5, <1>6, <1>9, <2>1, <2>2, <2>3, ZenonT(60) DEF ReceiptInv, ReceiptPerCeremony
<1>10. ASSUME NEW r \in receipts, receipts' \subseteq receipts \ {r},
              capability_grants' = capability_grants \cup
                 {[request |-> r.request, left |-> MaxGrant, epoch |-> r.epoch]}
       PROVE  <1>4!1
  <2> DEFINE fresh == [request |-> r.request, left |-> MaxGrant, epoch |-> r.epoch]
  <2>1. fresh.request = r.request /\ capability_grants' = capability_grants \cup {fresh}
    BY <1>10
  <2> HIDE DEF fresh
  <2>2. \A s \in receipts' : s.request # r.request
    BY <1>10, SMTT(30) DEF ReceiptInv
  <2> QED
    BY <1>5, <1>6, <1>10, <2>1, <2>2 DEF ReceiptInv, ReceiptPerCeremony
<1> QED
  BY <1>7, <1>8, <1>9, <1>10, ReceiptStep

\* One ceremony, one receipt, one redemption: a capability approval is never
\* shared by two handlers, minted twice, or redeemed after it was redeemed.
THEOREM OneReceipt == Spec => []ReceiptPerCeremony
<1>1. Init => ReceiptInv
  BY SMT DEF Init, ReceiptInv, ReceiptPerCeremony, Minting, Idle
<1>2. TypeOK /\ TypeOK' /\ ReceiptInv /\ [Next]_vars => ReceiptInv'
  BY OneReceiptStep
<1>3. ReceiptInv => ReceiptPerCeremony
  BY DEF ReceiptInv
<1> QED
  BY <1>1, <1>2, <1>3, TypeCorrect, PTL DEF Spec


(***************************************************************************)
(* A cached value is as new as the question.  The comparison with the file *)
(* and the read of the value are two critical sections, and between them   *)
(* the file may change and the worker may install another grant.  What     *)
(* saves the reader is that grants come only from the worker: the one a    *)
(* decrypt replaces was made from a file no newer than the one it opened.  *)
(***************************************************************************)
Busy == worker.pc \in {"spawned", "running"}
For(g, c) == g.scope = conn[c].scope /\ g.key = conn[c].access.key
Cached(c) == conn[c].pc = "granted" /\ conn[c].id = NoRequest

ReadInv ==
    /\ \A g \in grants : g.version <= file[g.key].version
    /\ \A g, h \in grants : g.scope = h.scope /\ g.key = h.key => g = h
    /\ Busy => /\ worker.version <= file[worker.key].version
               /\ \A g \in grants : g.key = worker.key => g.version <= worker.version
    /\ \A c \in Conns : conn[c].pc = "resolved" \/ Cached(c) =>
         conn[c].asked <= file[conn[c].access.key].version
    /\ \A c \in Conns : conn[c].pc = "waiting" => conn[c].id # NoRequest
    /\ \A c \in Conns : Cached(c) =>
         /\ \A g \in grants : For(g, c) => conn[c].asked <= g.version
         /\ Busy /\ worker.key = conn[c].access.key => conn[c].asked <= worker.version
    /\ CachedReadIsCurrent

\* No file gets older.
LEMMA FileStep ==
    ASSUME TypeOK, [Next]_vars
    PROVE  /\ \A k \in AllKeys : /\ file[k].version \in Nat /\ file'[k].version \in Nat
                                 /\ file[k].version <= file'[k].version
           /\ edit_file => UNCHANGED <<grants, worker, conn>>
           /\ ~ edit_file => UNCHANGED file
<1>0. file \in [AllKeys -> [present : BOOLEAN, version : Nat]]
  BY DEF TypeOK, WorldOK
<1>1. CASE edit_file
  <2>1. PICK key \in AllKeys, present \in BOOLEAN :
          file' = [file EXCEPT ![key] = [present |-> present, version |-> @.version + 1]]
    BY <1>1 DEF edit_file
  <2>2. \A k \in AllKeys : file[k].version \in Nat
    BY <1>0
  <2>3. \A k \in AllKeys : file'[k].version = IF k = key THEN file[k].version + 1
                                              ELSE file[k].version
    BY <1>0, <2>1
  <2>4. UNCHANGED <<grants, worker, conn>>
    BY <1>1 DEF edit_file, shared
  <2>5. \A k \in AllKeys : file'[k].version \in Nat /\ file[k].version <= file'[k].version
    BY <2>2, <2>3, SMT
  <2> QED
    BY <1>1, <2>2, <2>4, <2>5
<1>2. CASE ~ edit_file
  <2>1. UNCHANGED file
    BY <1>2, ZenonT(60) DEF Next, Handler, Get, authorize, authorize_resolve, await_approval, observe, deliver,
                Reply, Control, redeem, register, unregister, deny_request, lock, Worker, scan, spawn,
                on_started, finish_decrypt, World, touch, sops_succeeds, sops_fails, root_dies,
                tty_vanishes, tty_reopens, Tick, shared, world, vars
  <2> QED
    BY <1>0, <1>2, <2>1, SMTT(30)
<1> QED
  BY <1>1, <1>2

\* A decrypt that is under way after a step was under way before it, from the
\* same file, or has just opened the file as it is now.
LEMMA JobStep ==
    ASSUME TypeOK, [Next]_vars, Busy'
    PROVE  \/ Busy /\ worker'.key = worker.key /\ worker'.version = worker.version
           \/ /\ worker'.key \in AllKeys /\ worker'.version = file[worker'.key].version
              /\ UNCHANGED <<grants, conn>>
<1>0. worker \in Job /\ (worker.pc # "scan" => worker.key \in AllKeys)
  BY DEF TypeOK, WorkerOK, JobOK
<1>1. CASE scan
  BY <1>0, <1>1, SMT DEF scan, job, Busy
<1>2. CASE spawn
  <2>1. CASE worker' = [worker EXCEPT !.pc = "failed"]
    BY <1>0, <2>1 DEF Busy, Job
  <2>2. CASE worker' = [worker EXCEPT !.pc = "spawned", !.version = file[worker.key].version]
    BY <1>0, <1>2, <2>2 DEF Job, spawn, shared
  <2> QED
    BY <1>2, <2>1, <2>2 DEF spawn
<1>3. CASE on_started
  BY <1>0, <1>3 DEF on_started, Busy, Job
<1>4. CASE finish_decrypt
  BY <1>4 DEF finish_decrypt, NoJob, Busy
<1>5. CASE ~ Worker
  <2>1. UNCHANGED worker
    BY <1>5 DEF Next, Handler, Get, authorize, authorize_resolve, await_approval, observe, deliver,
                Reply, Control, redeem, register, unregister, deny_request, lock, World, touch,
                sops_succeeds, sops_fails, edit_file, root_dies, tty_vanishes, tty_reopens, Tick, vars
  <2> QED
    BY <2>1 DEF Busy
<1> QED
  BY <1>1, <1>2, <1>3, <1>4, <1>5, ZenonT(60) DEF Worker

\* Every grant after a step was there before it, but for its age, or is the
\* one the worker has decrypted, in place of the one it had for the same pair.
LEMMA TableStep ==
    ASSUME TypeOK, [Next]_vars
    PROVE  \/ grants' \subseteq grants
           \/ \A g \in grants' : \E h \in grants :
                /\ g = [h EXCEPT !.left = less(@)]
                /\ g.scope = h.scope /\ g.key = h.key /\ g.version = h.version
           \/ /\ worker.pc = "running" /\ ~ Busy'
              /\ grants' = others(worker.scope, worker.key) \cup {new_grant}
<1>0. grants \subseteq Grant
  BY DEF TypeOK, StateOK
<1>1. CASE grants' \subseteq grants
  BY <1>1
<1>2. CASE Tick
  <2>1. \A g \in grants' : \E h \in grants : g = [h EXCEPT !.left = less(@)]
    BY <1>2 DEF Tick, age
  <2> QED
    BY <1>0, <1>2, <2>1 DEF Grant
<1>3. CASE finish_decrypt /\ install /\ ~ (grants' \subseteq grants)
  <2>1. grants' = others(worker.scope, worker.key) \cup {new_grant}
    BY <1>3 DEF install
  <2>2. worker' = NoJob /\ ~ record_failure
    BY <1>3 DEF finish_decrypt, record_failure
  <2>3. worker.pc = "running"
    BY <1>3, <2>2 DEF finish_decrypt
  <2> QED
    BY <2>1, <2>2, <2>3 DEF Busy, NoJob
<1> QED
  BY <1>1, <1>2, <1>3, GrantStep

\* What a handler's own step leaves in it, as far as its reads are concerned:
\* only deliver answers with a value, the one of a live grant for its pair.
LEMMA ReaderStep ==
    ASSUME TypeOK, NEW c \in Conns, Handler(c)
    PROVE  /\ UNCHANGED <<worker, file>> /\ grants' \subseteq grants
           /\ \/ conn'[c].pc \in {"idle", "authorize", "done"} /\ conn'[c].reply # "Value"
              \/ /\ conn'[c].pc = "resolved" /\ conn'[c].reply # "Value"
                 /\ conn'[c].asked = file[conn'[c].access.key].version
              \/ /\ conn'[c].pc = "done" /\ conn[c].pc = "granted"
                 /\ conn'[c].id = conn[c].id /\ conn'[c].asked = conn[c].asked
                 /\ \E g \in grants : For(g, c) /\ conn'[c].value = g.version
              \/ Enters(c)
              \/ /\ conn'[c].pc = "granted" /\ Same(c)
                 /\ \/ conn[c].pc = "waiting"
                    \/ conn[c].pc = "resolved" /\ serve_cached(c)
<1>0. conn \in [Conns -> Handling] /\ None # "Value" /\ Idle.reply = None
  BY BrokerConfig DEF TypeOK, ConnOK, Idle
<1>1. UNCHANGED <<worker, file>> /\ grants' \subseteq grants
  BY DEF Handler, Get, authorize, authorize_resolve, await_approval, serve_cached, queue_ceremony,
         others, observe, deliver, Reply, shared, world
<1>2. ASSUME NEW reply, NEW value, reply_with(c, reply, value)
      PROVE  /\ conn'[c].pc = "done" /\ conn'[c].reply = reply /\ conn'[c].value = value
             /\ conn'[c].id = conn[c].id /\ conn'[c].asked = conn[c].asked
  <2>1. conn'[c] = [Idle EXCEPT !.pc = "done", !.id = conn[c].id, !.reply = reply,
                                !.asked = conn[c].asked, !.value = value]
    BY <1>0, <1>2 DEF reply_with
  <2> QED
    BY <2>1 DEF Idle
<1>3. ASSUME NEW reply, answer(c, reply), reply # "Value"
      PROVE  conn'[c].pc = "done" /\ conn'[c].reply # "Value"
  BY <1>2, <1>3 DEF answer
<1>4. ASSUME NEW access, NEW epoch, resolve(c, access, epoch)
      PROVE  \/ conn'[c].pc = "done" /\ conn'[c].reply # "Value"
             \/ /\ conn'[c].pc = "resolved" /\ conn'[c].reply # "Value"
                /\ conn'[c].asked = file[conn'[c].access.key].version
  <2>1. \/ conn'[c] = [Idle EXCEPT !.pc = "done", !.reply = "Refused"]
        \/ \E scope : conn'[c] = [Idle EXCEPT !.pc = "resolved", !.access = access, !.scope = scope,
                                              !.epoch_before = epoch,
                                              !.asked = file[access.key].version]
    BY <1>0, <1>4 DEF resolve
  <2> QED
    BY <1>0, <2>1, ZenonT(60) DEF Idle
<1>5. CASE Get(c) \/ authorize_resolve(c)
  BY <1>1, <1>3, <1>4, <1>5 DEF Get, authorize_resolve
<1>6. CASE authorize(c)
  <2>1. \E access : conn'[c] = [Idle EXCEPT !.pc = "authorize", !.access = access,
                                            !.epoch_before = lock_epoch]
    BY <1>0, <1>6 DEF authorize
  <2> QED
    BY <1>0, <1>1, <2>1 DEF Idle
<1>7. CASE Reply(c)
  <2>1. conn'[c] = Idle
    BY <1>0, <1>7 DEF Reply
  <2> QED
    BY <1>0, <1>1, <2>1, SMT DEF Idle
<1>8. CASE deliver(c)
  <2>1. CASE read_value(c)
    BY <1>1, <1>2, <1>3, <1>8, <2>1, ZenonT(60) DEF read_value, lookup, For, deliver
  <2>2. CASE finish_authorization(c) \/ answer(c, "Granted")
    BY <1>1, <1>3, <2>2, SMT DEF finish_authorization
  <2> QED
    BY <1>8, <2>1, <2>2 DEF deliver
<1>9. CASE observe(c)
  <2>1. CASE \E reply \in {"Denied", "TimedOut", "Failed", "Internal"} : answer(c, reply)
    BY <1>1, <1>3, <2>1, SMT
  <2>2. CASE conn' = [conn EXCEPT ![c] = [@ EXCEPT !.pc = "granted", !.left = 0]]
    <3>1. conn'[c].pc = "granted"
      BY <1>0, <2>2, SMT DEF Handling
    <3> QED
      BY <1>1, <1>9, <3>1, HandlerStep, ZenonT(60) DEF Enters
  <2> QED
    BY <1>9, <2>1, <2>2, ZenonT(60) DEF observe, refusal
<1>10. CASE await_approval(c)
  <2>1. CASE answer(c, "Refused")
    BY <1>1, <1>3, <2>1
  <2>2. CASE conn'[c].pc \in {"waiting", "granted"}
    BY <1>1, <2>2, HandlerStep DEF Enters
  <2>3. CASE serve_cached(c)
    <3>1. conn'[c].pc = "granted"
      BY <1>0, <2>3, ZenonT(60) DEF serve_cached, Handling
    <3> QED
      BY <2>2, <3>1
  <2>4. CASE queue_ceremony(c)
    <3>1. \/ answer(c, "Refused")
          \/ \E id : conn' = [conn EXCEPT ![c] = [@ EXCEPT !.pc = "waiting", !.id = id,
                                                           !.left = RequestTtl + 1]]
      BY <2>4 DEF queue_ceremony
    <3>2. answer(c, "Refused") \/ conn'[c].pc = "waiting"
      BY <1>0, <3>1, ZenonT(60) DEF Handling
    <3> QED
      BY <2>1, <2>2, <3>2
  <2> QED
    BY <1>10, <2>3, <2>4 DEF await_approval
<1> QED
  BY <1>5, <1>6, <1>7, <1>8, <1>9, <1>10, ZenonT(60) DEF Handler

\* A step keeps every cached answer as new as its question.
LEMMA ReadStep ==
    ASSUME TypeOK, TypeOK', ReadInv, [Next]_vars
    PROVE  ReadInv'
<1>0. /\ \A g \in grants : g.key \in AllKeys /\ g.version \in Nat
      /\ \A c \in Conns : conn[c].asked \in Nat /\ conn[c].value \in Nat
      /\ \A c \in Conns : conn[c].pc \in {"resolved", "granted"} => conn[c].access.key \in AllKeys
      /\ worker.version \in Nat /\ (Busy => worker.key \in AllKeys)
      /\ worker'.version \in Nat /\ (Busy' => worker'.key \in AllKeys)
      /\ \A g \in grants' : g.key \in AllKeys /\ g.version \in Nat
      /\ \A c \in Conns : conn'[c].asked \in Nat
      /\ \A c \in Conns : conn'[c].pc \in {"resolved", "granted"} => conn'[c].access.key \in AllKeys
  BY DEF TypeOK, StateOK, Grant, ConnOK, Handling, Access, WorkerOK, JobOK, Job, Busy
<1>1. \A k \in AllKeys : /\ file[k].version \in Nat /\ file'[k].version \in Nat
                         /\ file[k].version <= file'[k].version
  BY FileStep
<1>2. new_grant.scope = worker.scope /\ new_grant.key = worker.key
      /\ new_grant.version = worker.version
  BY DEF new_grant
<1>3. \A g \in grants' : g.version <= file'[g.key].version
  <2>1. CASE /\ worker.pc = "running" /\ ~ Busy'
             /\ grants' = others(worker.scope, worker.key) \cup {new_grant}
    <3>1. worker.key \in AllKeys /\ worker.version <= file[worker.key].version
      BY <1>0, <2>1 DEF ReadInv, Busy
    <3>2. new_grant.version <= file'[new_grant.key].version
      BY <1>0, <1>1, <1>2, <3>1, SMTT(30)
    <3>3. \A g \in grants : g.version <= file'[g.key].version
      BY <1>0, <1>1, SMT DEF ReadInv
    <3>4. \A g \in grants' : g = new_grant \/ g \in grants
      BY <2>1 DEF others
    <3> QED
      BY <3>2, <3>3, <3>4
  <2> QED
    BY <1>0, <1>1, <2>1, TableStep, SMT DEF ReadInv
<1>4. \A g, h \in grants' : g.scope = h.scope /\ g.key = h.key => g = h
  <2>1. CASE /\ worker.pc = "running" /\ ~ Busy'
             /\ grants' = others(worker.scope, worker.key) \cup {new_grant}
    BY <1>2, <2>1, SMT DEF ReadInv, others
  <2> QED
    BY <2>1, TableStep, SMT DEF ReadInv
<1>5. ASSUME Busy'
      PROVE  /\ worker'.version <= file'[worker'.key].version
             /\ \A g \in grants' : g.key = worker'.key => g.version <= worker'.version
  <2>1. CASE Busy /\ worker'.key = worker.key /\ worker'.version = worker.version
    <3>1. \A g \in grants' : \E h \in grants : g.key = h.key /\ g.version = h.version
      BY <1>5, TableStep
    <3> QED
      BY <1>0, <1>1, <2>1, <3>1, SMT DEF ReadInv
  <2>2. CASE /\ worker'.key \in AllKeys /\ worker'.version = file[worker'.key].version
             /\ UNCHANGED <<grants, conn>>
    BY <1>0, <1>1, <2>2 DEF ReadInv
  <2> QED
    BY <1>5, <2>1, <2>2, JobStep, ZenonT(60)
<1> SUFFICES ASSUME NEW c \in Conns
             PROVE  /\ (conn'[c].pc = "resolved" \/ Cached(c)') =>
                         conn'[c].asked <= file'[conn'[c].access.key].version
                    /\ conn'[c].pc = "waiting" => conn'[c].id # NoRequest
                    /\ Cached(c)' =>
                         /\ \A g \in grants' : For(g, c)' => conn'[c].asked <= g.version
                         /\ Busy' /\ worker'.key = conn'[c].access.key =>
                              conn'[c].asked <= worker'.version
                    /\ conn'[c].reply = "Value" /\ conn'[c].id = NoRequest =>
                         conn'[c].value >= conn'[c].asked
  BY <1>3, <1>4, <1>5 DEF ReadInv, CachedReadIsCurrent, For
<1>6. CASE conn'[c].pc = conn[c].pc /\ Same(c)
  <2>1. Cached(c)' <=> Cached(c)
    BY <1>6, SMTT(30) DEF Cached, Same
  <2>2. (conn'[c].pc = "resolved" \/ Cached(c)') =>
           conn'[c].asked <= file'[conn'[c].access.key].version
    BY <1>0, <1>1, <1>6, <2>1, SMT DEF ReadInv, Same, Cached
  <2>3. ASSUME Cached(c)', NEW g \in grants', For(g, c)'
        PROVE  conn'[c].asked <= g.version
    <3>1. /\ Cached(c) /\ conn'[c].asked = conn[c].asked
          /\ g.scope = conn[c].scope /\ g.key = conn[c].access.key
      BY <1>6, <2>1, <2>3 DEF Same, For
    <3>2. CASE \E h \in grants : g.scope = h.scope /\ g.key = h.key /\ g.version = h.version
      BY <3>1, <3>2 DEF ReadInv, For
    <3>3. CASE worker.pc = "running" /\ g = new_grant
      BY <1>2, <3>1, <3>3 DEF ReadInv, Busy
    <3>4. \/ \E h \in grants : g.scope = h.scope /\ g.key = h.key /\ g.version = h.version
          \/ worker.pc = "running" /\ g = new_grant
      BY TableStep DEF others
    <3> QED
      BY <3>2, <3>3, <3>4
  <2>4. ASSUME Cached(c)', Busy', worker'.key = conn'[c].access.key
        PROVE  conn'[c].asked <= worker'.version
    <3>1. Cached(c) /\ conn'[c].asked = conn[c].asked /\ worker'.key = conn[c].access.key
      BY <1>6, <2>1, <2>4, ZenonT(60) DEF Same
    <3> QED
      BY <2>4, <3>1, JobStep, SMT DEF ReadInv
  <2> QED
    BY <1>6, <2>2, <2>3, <2>4, ZenonT(60) DEF ReadInv, CachedReadIsCurrent, Same
<1>7. CASE Handler(c)
  <2>0. UNCHANGED <<worker, file>> /\ grants' \subseteq grants
    BY <1>7, ReaderStep
  <2>1. CASE conn'[c].pc \in {"idle", "authorize", "done"} /\ conn'[c].reply # "Value"
    BY <2>1 DEF Cached
  <2>2. CASE /\ conn'[c].pc = "resolved" /\ conn'[c].reply # "Value"
             /\ conn'[c].asked = file[conn'[c].access.key].version
    BY <1>0, <1>1, <2>0, <2>2, ZenonT(60) DEF Cached
  <2>3. CASE /\ conn'[c].pc = "done" /\ conn[c].pc = "granted"
             /\ conn'[c].id = conn[c].id /\ conn'[c].asked = conn[c].asked
             /\ \E g \in grants : For(g, c) /\ conn'[c].value = g.version
    <3>1. ~ Cached(c)'
      BY <2>3 DEF Cached
    <3>2. conn'[c].id = NoRequest => conn'[c].value >= conn'[c].asked
      BY <1>0, <2>3 DEF ReadInv, Cached
    <3> QED
      BY <2>3, <3>1, <3>2, SMT
  <2>4. CASE Enters(c)
    <3>1. conn'[c].pc = "waiting" /\ conn'[c].id # NoRequest
      BY <2>4 DEF Enters, twins, unsettled, TypeOK, StateOK, QueueOK, RequestIds, NoRequest
    <3> QED
      BY <3>1 DEF Cached
  <2>5. CASE conn'[c].pc = "granted" /\ Same(c) /\ conn[c].pc = "waiting"
    <3>1. conn'[c].id # NoRequest
      BY <2>5 DEF ReadInv, Same
    <3> QED
      BY <2>5, <3>1 DEF Cached
  <2>6. CASE conn'[c].pc = "granted" /\ Same(c) /\ conn[c].pc = "resolved" /\ serve_cached(c)
    <3>1. PICK g \in grants : For(g, c) /\ g.version = file[g.key].version
      BY <2>6 DEF serve_cached, lookup, unchanged_on_disk, For
    <3>2. conn[c].asked <= g.version
      BY <2>6, <3>1 DEF ReadInv, For
    <3>3. \A h \in grants : For(h, c) => h = g
      BY <3>1, SMTT(30) DEF ReadInv, For
    <3>4. Busy /\ worker.key = conn[c].access.key => conn[c].asked <= worker.version
      BY <1>0, <3>1, <3>2, SMT DEF ReadInv, For
    <3>5. /\ \A h \in grants' : For(h, c)' => conn'[c].asked <= h.version
          /\ Busy' /\ worker'.key = conn'[c].access.key => conn'[c].asked <= worker'.version
          /\ conn'[c].asked <= file'[conn'[c].access.key].version
      BY <2>0, <2>6, <3>1, <3>2, <3>3, <3>4, ZenonT(60) DEF Same, For, Busy
    <3>6. conn'[c].reply = "Value" /\ conn'[c].id = NoRequest => conn'[c].value >= conn'[c].asked
      BY <2>6, ZenonT(60) DEF ReadInv, CachedReadIsCurrent, Same
    <3> QED
      BY <2>6, <3>5, <3>6, ZenonT(60)
  <2> QED
    BY <1>7, <2>1, <2>2, <2>3, <2>4, <2>5, <2>6, ReaderStep, ZenonT(60)
<1> QED
  BY <1>6, <1>7, ConnStep, SMTT(30)

\* A GET served from the cache returns a value at least as new as the file was
\* when the request arrived, although the check and the read are two critical
\* sections.
THEOREM CachedIsCurrent == Spec => []CachedReadIsCurrent
<1>1. Init => ReadInv
  BY SMT DEF Init, ReadInv, CachedReadIsCurrent, Cached, Busy, Idle, NoJob
<1>2. TypeOK /\ TypeOK' /\ ReadInv /\ [Next]_vars => ReadInv'
  BY ReadStep
<1>3. ReadInv => CachedReadIsCurrent
  BY DEF ReadInv
<1> QED
  BY <1>1, <1>2, <1>3, TypeCorrect, PTL DEF Spec

(***************************************************************************)
(* The limit of a scope.                                                   *)
(***************************************************************************)
Ordinary(q, scope) ==
    {i \in unsettled(q) : q.requests[i].scope = scope /\ q.requests[i].key \notin Capabilities}

Caps(q, scope) ==
    {i \in unsettled(q) : q.requests[i].scope = scope /\ q.requests[i].key \in Capabilities}

Bounded(q, scope) ==
    Cardinality(Ordinary(q, scope)) <= MaxPendingPerScope /\ Cardinality(Caps(q, scope)) <= 1

INSTANCE FiniteSetTheorems

\* A queue is finite: its ids lie below next_id.
LEMMA QueueFinite ==
    ASSUME NEW q, QueueOK(q)
    PROVE  IsFiniteSet(unsettled(q))
<1>1. IsFiniteSet(1..q.next_id)
  <2>1. q.next_id \in Int
    BY SMT DEF QueueOK, RequestIds
  <2> QED
    BY <2>1, FS_Interval, SMTT(30)
<1>2. unsettled(q) \subseteq 1..q.next_id
  BY SMT DEF unsettled, QueueOK, RequestIds
<1> QED
  BY <1>1, <1>2, FS_Subset, ZenonT(60)

\* A smaller set of waiting requests is still within the limit.
LEMMA FewerBounded ==
    ASSUME NEW q, NEW p, NEW scope, QueueOK(q), Bounded(q, scope),
           Ordinary(p, scope) \subseteq Ordinary(q, scope), Caps(p, scope) \subseteq Caps(q, scope)
    PROVE  Bounded(p, scope)
<1>1. IsFiniteSet(Ordinary(q, scope)) /\ IsFiniteSet(Caps(q, scope))
  <2>1. Ordinary(q, scope) \in SUBSET unsettled(q) /\ Caps(q, scope) \in SUBSET unsettled(q)
    BY DEF Ordinary, Caps
  <2> QED
    BY <2>1, QueueFinite, FS_Subset
<1>2. /\ Cardinality(Ordinary(p, scope)) <= Cardinality(Ordinary(q, scope))
      /\ Cardinality(Caps(p, scope)) <= Cardinality(Caps(q, scope))
  BY <1>1, FS_Subset
<1>3. /\ Cardinality(Ordinary(p, scope)) \in Nat /\ Cardinality(Ordinary(q, scope)) \in Nat
      /\ Cardinality(Caps(p, scope)) \in Nat /\ Cardinality(Caps(q, scope)) \in Nat
  BY <1>1, FS_Subset, FS_CardinalityType, SMTT(30)
<1> QED
  BY <1>2, <1>3, QueueLimits, SMTT(30) DEF Bounded

\* A request that admits lets in keeps its scope within the limit.
LEMMA AdmittedBounded ==
    ASSUME NEW q, NEW scope, NEW key, NEW ttl, NEW other, QueueOK(q), Bounded(q, other),
           admits(q, scope, key)
    PROVE  Bounded(push(q, scope, key, ttl), other)
<1> DEFINE p == push(q, scope, key, ttl)
<1>1. /\ DOMAIN p.requests = DOMAIN q.requests \cup {q.next_id}
      /\ q.next_id \notin DOMAIN q.requests
      /\ p.requests[q.next_id].scope = scope /\ p.requests[q.next_id].key = key
      /\ \A i \in DOMAIN q.requests : p.requests[i] = q.requests[i]
  <2>1. LET r == push(q, scope, key, ttl) IN
           /\ r.next_id = q.next_id + 1
           /\ DOMAIN r.requests = DOMAIN q.requests \cup {q.next_id}
           /\ q.next_id \notin DOMAIN q.requests
           /\ r.requests[q.next_id].scope = scope /\ r.requests[q.next_id].key = key
           /\ \A i \in DOMAIN q.requests : r.requests[i] = q.requests[i]
    BY ONLY QueueOK(q), PushEffect, SMTT(30)
  <2> QED
    BY ONLY <2>1
<1> HIDE DEF p
<1>2. CASE other # scope
  <2>1. Ordinary(p, other) \subseteq Ordinary(q, other) /\ Caps(p, other) \subseteq Caps(q, other)
    BY <1>1, <1>2 DEF Ordinary, Caps, unsettled
  <2> QED
    BY <2>1, FewerBounded DEF p
<1>3. CASE other = scope /\ key \in Capabilities
  <2>1. Cardinality(Caps(q, scope)) < 1
    <3>1. {i \in unsettled(q) : /\ q.requests[i].scope = scope
                                /\ key \in Capabilities => q.requests[i].key \in Capabilities}
            = Caps(q, scope)
      BY <1>3 DEF Caps
    <3> QED
      BY <1>3, <3>1 DEF admits
  <2>2. Caps(q, scope) = {}
    <3>1. IsFiniteSet(Caps(q, scope))
      BY QueueFinite, FS_Subset DEF Caps
    <3>2. Cardinality(Caps(q, scope)) = 0
      BY <2>1, <3>1, FS_CardinalityType, SMTT(30)
    <3> QED
      BY <3>1, <3>2, FS_EmptySet
  <2>3. Ordinary(p, scope) \subseteq Ordinary(q, scope)
    BY <1>1, <1>3 DEF Ordinary, unsettled
  <2>4. Caps(p, scope) \subseteq {q.next_id}
    BY <1>1, <2>2 DEF Caps, unsettled
  <2>5. Cardinality(Caps(p, scope)) <= 1
    <3>1. IsFiniteSet({q.next_id}) /\ Cardinality({q.next_id}) = 1
      BY FS_Singleton
    <3> QED
      BY <2>4, <3>1, FS_Subset
  <2>6. Cardinality(Ordinary(p, scope)) <= MaxPendingPerScope
    <3>1. IsFiniteSet(Ordinary(q, scope))
      BY QueueFinite, FS_Subset DEF Ordinary
    <3>2. /\ Cardinality(Ordinary(p, scope)) <= Cardinality(Ordinary(q, scope))
          /\ Cardinality(Ordinary(p, scope)) \in Nat /\ Cardinality(Ordinary(q, scope)) \in Nat
      BY <2>3, <3>1, FS_Subset, FS_CardinalityType, SMTT(30)
    <3> QED
      BY <1>3, <3>2, QueueLimits, SMTT(30) DEF Bounded
  <2> QED
    BY <1>3, <2>5, <2>6 DEF Bounded, p
<1>4. CASE other = scope /\ key \notin Capabilities
  <2> DEFINE active == {i \in unsettled(q) :
                          /\ q.requests[i].scope = scope
                          /\ key \in Capabilities => q.requests[i].key \in Capabilities}
  <2>1. Cardinality(active) < MaxPendingPerScope
    BY <1>4 DEF admits
  <2>2. IsFiniteSet(active) /\ Ordinary(q, scope) \subseteq active /\ q.next_id \notin active
    BY <1>1, <1>4, QueueFinite, FS_Subset, ZenonT(60) DEF Ordinary, unsettled
  <2>3. Ordinary(p, scope) \subseteq active \cup {q.next_id}
    BY <1>1, <1>4 DEF Ordinary, unsettled
  <2>4. Caps(p, scope) \subseteq Caps(q, scope)
    BY <1>1, <1>4 DEF Caps, unsettled
  <2> HIDE DEF active
  <2>5. /\ IsFiniteSet(active \cup {q.next_id})
        /\ Cardinality(active \cup {q.next_id}) = Cardinality(active) + 1
    BY <2>2, FS_AddElement
  <2>6. Cardinality(Ordinary(p, scope)) <= MaxPendingPerScope
    <3>1. /\ Cardinality(Ordinary(p, scope)) <= Cardinality(active \cup {q.next_id})
          /\ Cardinality(Ordinary(p, scope)) \in Nat /\ Cardinality(active) \in Nat
      BY <2>2, <2>3, <2>5, FS_Subset, FS_CardinalityType, ZenonT(60)
    <3> QED
      BY <2>1, <2>5, <3>1, QueueLimits, SMTT(30)
  <2>7. Cardinality(Caps(p, scope)) <= 1
    <3>1. IsFiniteSet(Caps(q, scope))
      BY QueueFinite, FS_Subset DEF Caps
    <3>2. /\ Cardinality(Caps(p, scope)) <= Cardinality(Caps(q, scope))
          /\ Cardinality(Caps(p, scope)) \in Nat /\ Cardinality(Caps(q, scope)) \in Nat
      BY <2>4, <3>1, FS_Subset, FS_CardinalityType
    <3> QED
      BY <1>4, <3>2, SMTT(30) DEF Bounded
  <2> QED
    BY <1>4, <2>6, <2>7, SMTT(30) DEF Bounded, p
<1> QED
  BY <1>2, <1>3, <1>4, SMTT(30)

\* The waiting requests of a scope stay within its limit, and one capability on
\* top: enqueue checks the limit in the critical section in which it pushes,
\* and nothing else makes a request wait.
THEOREM PendingIsBounded == Spec => []PendingBounded
<1> DEFINE Inv == \A scope \in Scopes : Bounded(queue, scope)
<1>1. Init => Inv
  <2> SUFFICES ASSUME Init PROVE Inv
    OBVIOUS
  <2>1. \A scope : Ordinary(queue, scope) = {} /\ Caps(queue, scope) = {}
    BY DEF Init, new, Ordinary, Caps, unsettled
  <2> QED
    BY <2>1, FS_EmptySet, QueueLimits, SMTT(30) DEF Bounded
<1>2. TypeOK /\ Inv /\ [Next]_vars => Inv'
  <2> SUFFICES ASSUME TypeOK, Inv, [Next]_vars, NEW scope \in Scopes
               PROVE  Bounded(queue', scope)
    OBVIOUS
  <2>0. QueueOK(queue)
    BY DEF TypeOK, StateOK
  <2>1. CASE Keeps(queue, queue') /\ Onward(queue, queue')
    <3>1. /\ Ordinary(queue', scope) \subseteq Ordinary(queue, scope)
          /\ Caps(queue', scope) \subseteq Caps(queue, scope)
      BY <2>1 DEF Keeps, Onward, Ordinary, Caps, unsettled
    <3> QED
      BY <2>0, <3>1, FewerBounded
  <2>2. ASSUME NEW c \in Conns, Asks(c)
        PROVE  Bounded(queue', scope)
    BY <2>0, <2>2, AdmittedBounded DEF Asks
  <2> QED
    BY <2>1, <2>2, QueueStep
<1>3. Inv => PendingBounded
  <2> SUFFICES ASSUME Inv, NEW scope \in Scopes
               PROVE  LET waiting == {i \in unsettled(queue) : queue.requests[i].scope = scope}
                          caps == {i \in waiting : queue.requests[i].key \in Capabilities}
                      IN  /\ Cardinality(waiting \ caps) <= MaxPendingPerScope
                          /\ Cardinality(caps) <= 1
    BY DEF PendingBounded
  <2> DEFINE waiting == {i \in unsettled(queue) : queue.requests[i].scope = scope}
             caps == {i \in waiting : queue.requests[i].key \in Capabilities}
  <2>1. waiting \ caps = Ordinary(queue, scope) /\ caps = Caps(queue, scope)
    BY DEF Ordinary, Caps
  <2> QED
    BY <2>1 DEF Bounded
<1> QED
  BY <1>1, <1>2, <1>3, TypeCorrect, PTL DEF Spec
=============================================================================
