------------------------------ MODULE Broker ------------------------------
(***************************************************************************)
(* secretsd, the hardware-gated secrets broker: crates/secrets/src/server, *)
(* with its queue, grant table, registry and receipts.                     *)
(*                                                                         *)
(* The program is one Mutex<State> shared by connection handlers and by    *)
(* one worker thread that drives the YubiKey.  An action is one critical   *)
(* section of that mutex (or one step of the outside world), because that  *)
(* is where threads can interleave.  A condition-variable wait is an       *)
(* action that may run whenever its loop would leave the wait: wake-ups    *)
(* may be spurious, and the wait carries a timeout, so a waiter may look   *)
(* at the queue at any time and always looks again before long.            *)
(*                                                                         *)
(* Instants are kept as time left or time elapsed, so time is unbounded    *)
(* and the state finite: Tick lets one unit pass for all of them at once.  *)
(***************************************************************************)
EXTENDS ApprovalQueue

CONSTANTS Conns,       \* connection handlers of the Main lane
          Tokens,      \* session tokens: the Scope::Session scopes
          Ttys,        \* terminals: the Scope::Tty scopes
          Sessions,    \* harness-supplied session names
          Roots,       \* process trees; a caller is named by the tree it is in
          Keys,        \* ordinary human-tier keys
          Ttls,        \* grant lifetimes a caller may ask for
          Ops,         \* the operations the clients of this instance use
          MaxGrant, MaxRequestedGrant, ReceiptTtl, MaxReceipts,
          TouchCache,  \* how long the key answers without another touch
          None,        \* an absent token, tty or lifetime
          MaxRequests, MaxEpoch, MaxRegistrations, MaxVersion \* model bounds

\* Config::validate: with cached touches the cooldown must exceed the cache;
\* with touch policy `always` there is no cache at all.
ASSUME BrokerConfig ==
    /\ TouchCache \in Nat
    /\ TouchCache = 0 \/ TouchCache < Cooldown
    /\ MaxGrant \in Nat /\ MaxRequestedGrant \in Nat
    /\ ReceiptTtl \in Nat /\ MaxReceipts \in Nat
    /\ Ttls \subseteq Nat
    /\ Ops \subseteq {"GET", "REQUEST", "AUTHORIZE"}
    /\ Tokens \cap Ttys = {} /\ Keys \cap Capabilities = {}
    /\ None \notin Tokens \cup Ttys \cup Nat /\ None # "Value"
    /\ None \notin (Tokens \cup Ttys) \X (Keys \cup Capabilities)

VARIABLES queue,              \* State.queue
          grants,             \* State.grants
          receipts,           \* State.receipts
          capability_grants,  \* State.capability_grants
          registry,           \* State.registry.sessions, by token
          agent_ttys,         \* State.registry.agent_ttys
          lock_epoch,         \* State.lock_epoch
          failures,           \* ids in State.failures (their codes are left out)
          active_decrypt,     \* the request of State.active_decrypt
          worker,             \* the worker thread and its Job
          child,              \* the sops process group and the YubiKey behind it
          conn,               \* the connection handlers
          file,               \* the ciphertext files (external)
          ttys,               \* the terminal devices there are (external)
          alive,              \* the process trees whose root lives (external)
          registrations,      \* auxiliary: how many registrations there have been
          verdict             \* auxiliary: the first terminal state of each request

shared == <<queue, grants, receipts, capability_grants, registry, agent_ttys,
            lock_epoch, failures, active_decrypt>>
world == <<file, ttys, alive>>
vars == <<queue, grants, receipts, capability_grants, registry, agent_ttys,
          lock_epoch, failures, active_decrypt, worker, child, conn,
          file, ttys, alive, registrations, verdict>>

Scopes == Tokens \cup Ttys
AllKeys == Keys \cup Capabilities

Access == [op : Ops, token : Tokens \cup {None},
           tty : Ttys \cup {None}, caller : Roots, key : AllKeys, ttl : Ttls \cup {None}]

Idle == [pc |-> "idle", access |-> None, scope |-> None, id |-> NoRequest,
         left |-> 0, epoch_before |-> 0, asked |-> 0, reply |-> None, value |-> 0]

NoJob == [pc |-> "scan", id |-> NoRequest, scope |-> None, key |-> None, generation |-> 0,
          lock_epoch |-> 0, ttl |-> None, version |-> 0]

NoChild == [state |-> "none", touched |-> FALSE, cache |-> 0]

(***************************************************************************)
(* The grant table.  A grant holds the file identity it was decrypted from *)
(* and the time its own ttl has left.  `id` and `epoch` are auxiliary: the *)
(* request that installed it and the lock epoch its decrypt started in.    *)
(***************************************************************************)
lookup(scope, key) ==
    {g \in grants : g.scope = scope /\ g.key = key /\ g.left > 0}

others(scope, key) == {g \in grants : ~(g.scope = scope /\ g.key = key)}

revoke_tokens(gs, tokens) == {g \in gs : g.scope \notin tokens}

revoke_missing_ttys(gs) == {g \in gs : g.scope \in Ttys => g.scope \in ttys}

PresentOnDisk(g) == file[g.key].present

\* HumanStore::identity equals the identity recorded in the grant.
unchanged_on_disk(g) == file[g.key].present /\ file[g.key].version = g.version

effective_grant_ttl(requested) ==
    IF requested = None THEN MaxGrant
    ELSE IF requested <= MaxRequestedGrant THEN requested ELSE MaxRequestedGrant

sweep(entries) == {e \in entries : e.left > 0}

(***************************************************************************)
(* Killing the decrypt of the requests in `ids`: State::kill_active takes  *)
(* active_decrypt if it is theirs and signals its process group, which     *)
(* matters only while the child still runs.                                *)
(***************************************************************************)
kill_active(ids) ==
    /\ active_decrypt' = IF active_decrypt \in ids THEN NoRequest ELSE active_decrypt
    /\ child' = IF active_decrypt \in ids \ {NoRequest} /\ child.state = "running"
                THEN [child EXCEPT !.state = "killed"]
                ELSE child

\* The auxiliary record of each request's first terminal state.
RecordVerdict ==
    LET settled == {i \in DOMAIN queue'.requests : queue'.requests[i].state \in Terminal} IN
    verdict' = [i \in DOMAIN verdict \cup settled |->
                  IF i \in DOMAIN verdict THEN verdict[i] ELSE queue'.requests[i].state]

-----------------------------------------------------------------------------
(***************************************************************************)
(* GET, REQUEST and AUTHORIZE: three or four critical sections each.       *)
(***************************************************************************)
\* The decision is made; of the handler's locals only what it answers is kept.
reply_with(c, reply, value) ==
    conn' = [conn EXCEPT ![c] = [Idle EXCEPT !.pc = "done", !.id = conn[c].id, !.reply = reply,
                                             !.asked = conn[c].asked, !.value = value]]

answer(c, reply) == reply_with(c, reply, 0)

\* PinnedPeer::descends_from: both ends must still run.
descends_from(caller, root) == caller = root /\ root \in alive

\* Registry::resolve, the body of resolve_access.
resolve(c, access, epoch) ==
    LET session == access.token \in DOMAIN registry
        inside  == session /\ descends_from(access.caller, registry[access.token].root)
        typed   == access.token = None /\ access.tty \in Ttys \ agent_ttys
        scope   == IF inside THEN access.token ELSE access.tty
    IN  /\ conn' = [conn EXCEPT ![c] =
             IF inside \/ typed
             THEN [Idle EXCEPT !.pc = "resolved", !.access = access, !.scope = scope,
                               !.epoch_before = epoch, !.asked = file[access.key].version]
             ELSE [Idle EXCEPT !.pc = "done", !.reply = "Refused"]]
        /\ agent_ttys' = IF inside /\ access.tty \in Ttys
                         THEN agent_ttys \cup {access.tty} ELSE agent_ttys

\* The bound on request ids: a new access starts only while every access that
\* may still enqueue would get an id of at most MaxRequests.
MayEnqueue == {c \in Conns : conn[c].pc \in {"authorize", "resolved"}}
RoomForRequest == queue.next_id + Cardinality(MayEnqueue) <= MaxRequests

\* dispatch: GET and REQUEST of a capability key are refused before anything else.
Get(c) ==
    /\ conn[c].pc = "idle"
    /\ RoomForRequest
    /\ \E access \in Access :
         /\ access.op # "AUTHORIZE"
         /\ IF access.key \in Capabilities
            THEN answer(c, "Refused") /\ UNCHANGED agent_ttys
            ELSE resolve(c, access, 0)
    /\ UNCHANGED <<queue, grants, receipts, capability_grants, registry, lock_epoch, failures,
                   active_decrypt, worker, child, world, registrations, verdict>>

\* authorize: the epoch is read in a critical section of its own, first.
authorize(c) ==
    /\ conn[c].pc = "idle"
    /\ RoomForRequest
    /\ \E access \in Access :
         /\ access.op = "AUTHORIZE" /\ access.key \in Capabilities /\ access.ttl = None
         /\ conn' = [conn EXCEPT ![c] = [Idle EXCEPT !.pc = "authorize", !.access = access,
                                                     !.epoch_before = lock_epoch]]
    /\ UNCHANGED <<shared, worker, child, world, registrations, verdict>>

authorize_resolve(c) ==
    /\ conn[c].pc = "authorize"
    /\ resolve(c, conn[c].access, conn[c].epoch_before)
    /\ UNCHANGED <<queue, grants, receipts, capability_grants, registry, lock_epoch, failures,
                   active_decrypt, worker, child, world, registrations, verdict>>

(***************************************************************************)
(* await_approval up to its wait loop, one critical section: serve a live  *)
(* grant whose file is unchanged; otherwise drop it and queue a ceremony.  *)
(* AUTHORIZE (force_fresh) drops the grant even when it is good.           *)
(***************************************************************************)
force_fresh(c) == conn[c].access.op = "AUTHORIZE"

serve_cached(c) ==
    /\ \E g \in lookup(conn[c].scope, conn[c].access.key) : unchanged_on_disk(g)
    /\ ~ force_fresh(c)
    /\ conn' = [conn EXCEPT ![c].pc = "granted"]
    /\ UNCHANGED <<queue, grants>>

\* HumanStore::locate finds the sole backing file; two files with one name are
\* modelled as none, both being refused.
locate(key) == file[key].present

queue_ceremony(c) ==
    LET scope  == conn[c].scope
        key    == conn[c].access.key
        joined == twins(queue, scope, key)
        wait(id) == conn' = [conn EXCEPT ![c] = [@ EXCEPT !.pc = "waiting", !.id = id,
                                                          !.left = RequestTtl + 1]]
    IN  /\ force_fresh(c) \/ ~ \E g \in lookup(scope, key) : unchanged_on_disk(g)
        /\ grants' = IF lookup(scope, key) # {} THEN others(scope, key) ELSE grants
        /\ \/ /\ ~ locate(key)
              /\ answer(c, "Refused")
              /\ UNCHANGED queue
           \/ /\ locate(key)
              /\ \E id \in joined : wait(id)
              /\ UNCHANGED queue
           \/ /\ locate(key) /\ joined = {} /\ admits(queue, scope, key)
              /\ wait(queue.next_id)
              /\ queue' = push(queue, scope, key, conn[c].access.ttl)
           \/ /\ locate(key) /\ joined = {} /\ ~ admits(queue, scope, key)
              /\ answer(c, "Refused")                         \* TooManyPending
              /\ UNCHANGED queue

await_approval(c) ==
    /\ conn[c].pc = "resolved"
    /\ serve_cached(c) \/ queue_ceremony(c)
    /\ UNCHANGED <<receipts, capability_grants, registry, agent_ttys, lock_epoch, failures,
                   active_decrypt, worker, child, world, registrations, verdict>>

(***************************************************************************)
(* The wait loop of await_approval.  A waiter whose own deadline has       *)
(* passed settles the request itself, and kills its decrypt.               *)
(***************************************************************************)
LeavesWaitOnTerminal(st) == st \in Terminal

leaves_wait(st) == st \notin Unsettled     \* "None": pruned meanwhile

refusal(id, st) ==
    CASE st \in {"Denied", "TimedOut"} -> st
      [] st = "Failed" /\ id \in failures -> "Failed"
      [] OTHER -> "Internal"

observe(c) ==
    LET id == conn[c].id
        st == state_of(queue, id)
    IN  /\ conn[c].pc = "waiting"
        /\ \/ /\ st = "Granted"
              /\ conn' = [conn EXCEPT ![c] = [@ EXCEPT !.pc = "granted", !.left = 0]]
              /\ UNCHANGED <<queue, active_decrypt, child>>
           \/ /\ leaves_wait(st) /\ st # "Granted"
              /\ answer(c, refusal(id, st))
              /\ UNCHANGED <<queue, active_decrypt, child>>
           \/ /\ st \in Unsettled /\ conn[c].left = 0
              /\ queue' = timeout(queue, id)
              /\ kill_active({id})
              /\ answer(c, "TimedOut")
        /\ RecordVerdict
        /\ UNCHANGED <<grants, receipts, capability_grants, registry, agent_ttys, lock_epoch,
                       failures, worker, world, registrations>>

(***************************************************************************)
(* After the approval, in a critical section of its own: GET reads the     *)
(* value, AUTHORIZE mints a receipt, REQUEST only reports.                 *)
(***************************************************************************)
mints(c) == conn[c].access.op = "AUTHORIZE" /\ conn[c].id # NoRequest

\* ReceiptTable::mint.  `request` and `epoch` of a receipt are auxiliary: whose
\* ceremony it is, when it began.
mint(live, c) ==
    live \cup {[request |-> conn[c].id, cap |-> conn[c].access.key,
                left |-> ReceiptTtl, epoch |-> conn[c].epoch_before]}

MintIgnoresLock(c) ==
    LET live == sweep(receipts) IN
    /\ receipts' = mint(live, c)
    /\ answer(c, "Receipt")

\* finish_authorization: mint only if no LOCK came between.
finish_authorization(c) ==
    LET live == sweep(receipts) IN
    \/ /\ lock_epoch = conn[c].epoch_before
       /\ Cardinality(live) < MaxReceipts
       /\ receipts' = mint(live, c)
       /\ answer(c, "Receipt")
    \/ /\ lock_epoch = conn[c].epoch_before
       /\ receipts' = live
       /\ answer(c, IF Cardinality(live) >= MaxReceipts
                    THEN "Refused" ELSE "Internal")           \* receipt entropy unavailable
    \/ /\ lock_epoch # conn[c].epoch_before
       /\ answer(c, "Denied")
       /\ UNCHANGED receipts

read_value(c) ==
    LET live == lookup(conn[c].scope, conn[c].access.key) IN
    \/ \E g \in live : reply_with(c, "Value", g.version)
    \/ live = {} /\ answer(c, "Internal")                     \* "grant disappeared"

deliver(c) ==
    /\ conn[c].pc = "granted"
    /\ \/ conn[c].access.op = "GET" /\ read_value(c) /\ UNCHANGED receipts
       \/ mints(c) /\ finish_authorization(c)
       \/ conn[c].access.op # "GET" /\ ~ mints(c) /\ answer(c, "Granted") /\ UNCHANGED receipts
    /\ UNCHANGED <<queue, grants, capability_grants, registry, agent_ttys, lock_epoch,
                   failures, active_decrypt, worker, child, world, registrations, verdict>>

\* The reply is on the wire; the handler takes its next connection.
Reply(c) ==
    /\ conn[c].pc = "done"
    /\ conn' = [conn EXCEPT ![c] = Idle]
    /\ UNCHANGED <<shared, worker, child, world, registrations, verdict>>

-----------------------------------------------------------------------------
(***************************************************************************)
(* REDEEM, REGISTER, UNREGISTER, DENY and LOCK: one critical section each. *)
(***************************************************************************)
redeemable(r, expected_cap) == r.left > 0 /\ r.cap = expected_cap

insert_capability(r) ==
    capability_grants \cup {[request |-> r.request, left |-> MaxGrant, epoch |-> r.epoch]}

redeem ==
    /\ \E r \in receipts, expected_cap \in Capabilities :
         IF redeemable(r, expected_cap)
         THEN /\ receipts' = sweep(receipts) \ {r}
              /\ capability_grants' = insert_capability(r)
         ELSE receipts' = sweep(receipts) /\ UNCHANGED capability_grants
    /\ UNCHANGED <<queue, grants, registry, agent_ttys, lock_epoch, failures, active_decrypt,
                   worker, child, conn, world, registrations, verdict>>

tokens_of(session) == {t \in DOMAIN registry : registry[t].session = session}

\* Registry::register of an unbound token, in place of the session's others.
registered(token, session, root) ==
    [t \in (DOMAIN registry \ tokens_of(session)) \cup {token} |->
       IF t = token THEN [session |-> session, root |-> root] ELSE registry[t]]

\* A token already bound keeps its registration and its root; registering is
\* then a no-op (same session) or refused (another), and not a step here.
register ==
    \E token \in Tokens \ DOMAIN registry, session \in Sessions, root \in Roots :
      /\ root \in alive
      /\ registrations < MaxRegistrations
      /\ registrations' = registrations + 1
      /\ registry' = registered(token, session, root)
      /\ grants' = revoke_tokens(grants, tokens_of(session))
      /\ UNCHANGED <<queue, receipts, capability_grants, agent_ttys, lock_epoch, failures,
                     active_decrypt, worker, child, conn, world, verdict>>

unregister ==
    \E session \in {registry[t].session : t \in DOMAIN registry} :
      /\ registry' = [t \in DOMAIN registry \ tokens_of(session) |-> registry[t]]
      /\ grants' = revoke_tokens(grants, tokens_of(session))
      /\ UNCHANGED <<queue, receipts, capability_grants, agent_ttys, lock_epoch, failures,
                     active_decrypt, worker, child, conn, world, registrations, verdict>>

\* Denying a request that is not unsettled is refused and changes nothing.
deny_request ==
    /\ \E id \in unsettled(queue) : queue' = deny(queue, id) /\ kill_active({id})
    /\ RecordVerdict
    /\ UNCHANGED <<grants, receipts, capability_grants, registry, agent_ttys, lock_epoch,
                   failures, worker, conn, world, registrations>>

lock ==
    /\ lock_epoch < MaxEpoch
    /\ grants' = {} /\ receipts' = {} /\ capability_grants' = {}
    /\ lock_epoch' = lock_epoch + 1
    /\ queue' = IF active_decrypt # NoRequest THEN deny(queue, active_decrypt) ELSE queue
    /\ kill_active({active_decrypt})
    /\ RecordVerdict
    /\ UNCHANGED <<registry, agent_ttys, failures, worker, conn, world, registrations>>

-----------------------------------------------------------------------------
(***************************************************************************)
(* The worker thread.  `scan` is the head of its loop: sweep every table,  *)
(* then take the next ready request, if any.                               *)
(***************************************************************************)
job(q, id) ==
    [pc |-> "picked", id |-> id, scope |-> q.requests[id].scope, key |-> q.requests[id].key,
     generation |-> q.generation + 1, lock_epoch |-> lock_epoch, ttl |-> q.requests[id].ttl,
     version |-> 0]

scan ==
    LET q == prune(sweep_timeouts(queue)) IN
    /\ worker.pc = "scan"
    /\ kill_active(expired(queue))
    /\ grants' = revoke_missing_ttys(sweep(grants))
    /\ receipts' = sweep(receipts)
    /\ capability_grants' = sweep(capability_grants)
    /\ failures' = failures \cap DOMAIN q.requests
    /\ \/ /\ \A id \in DOMAIN q.requests : ~ next_ready(q, id)
          /\ queue' = q
          /\ UNCHANGED worker
       \/ \E id \in DOMAIN q.requests :
            /\ next_ready(q, id)
            /\ queue' = mark_decrypting(q, id)
            /\ worker' = job(q, id)
    /\ RecordVerdict
    /\ UNCHANGED <<registry, agent_ttys, lock_epoch, conn, world, registrations>>

(***************************************************************************)
(* decrypt_opened_with_start: open the ciphertext and spawn sops; an       *)
(* unreachable key, an unreadable file or a failed spawn returns early.    *)
(* Then the on_started callback publishes the process group, unless the    *)
(* request was settled before there was a group to kill.                   *)
(***************************************************************************)
spawn ==
    /\ worker.pc = "picked"
    /\ \/ /\ worker' = [worker EXCEPT !.pc = "failed"]
          /\ UNCHANGED child
       \/ /\ file[worker.key].present
          /\ worker' = [worker EXCEPT !.pc = "spawned", !.version = file[worker.key].version]
          /\ child' = [child EXCEPT !.state = "running", !.touched = FALSE]
    /\ UNCHANGED <<shared, conn, world, registrations, verdict>>

on_started ==
    /\ worker.pc = "spawned"
    /\ worker' = [worker EXCEPT !.pc = "running"]
    /\ IF state_of(queue, worker.id) = "Decrypting"
       THEN active_decrypt' = worker.id /\ UNCHANGED child
       ELSE /\ child' = IF child.state = "running" THEN [child EXCEPT !.state = "killed"] ELSE child
            /\ UNCHANGED active_decrypt
    /\ UNCHANGED <<queue, grants, receipts, capability_grants, registry, agent_ttys, lock_epoch,
                   failures, conn, world, registrations, verdict>>

(***************************************************************************)
(* The decrypt returned: settle its request, and install the grant if the  *)
(* request is still current, no LOCK came since the job was taken, and     *)
(* somebody is left to use the value.                                      *)
(***************************************************************************)
SessionAlwaysActive == TRUE

session_is_active ==
    IF worker.scope \in Tokens
    THEN worker.scope \in DOMAIN registry /\ registry[worker.scope].root \in alive
    ELSE worker.scope \in ttys

new_grant ==
    [scope |-> worker.scope, key |-> worker.key, version |-> worker.version,
     left |-> effective_grant_ttl(worker.ttl),
     id |-> worker.id, epoch |-> worker.lock_epoch]

InstallSamplesLate ==
    LET q == IF ~ session_is_active THEN deny(queue, worker.id) ELSE queue
    IN  /\ queue' = complete(q, worker.id, worker.generation)
        /\ grants' = IF still_current(q, worker.id, worker.generation)
                     THEN others(worker.scope, worker.key)
                            \cup {[new_grant EXCEPT !.epoch = lock_epoch]}
                     ELSE grants
        /\ UNCHANGED failures

install ==
    LET q == IF lock_epoch # worker.lock_epoch \/ ~ session_is_active
             THEN deny(queue, worker.id) ELSE queue
    IN  /\ queue' = complete(q, worker.id, worker.generation)
        /\ grants' = IF still_current(q, worker.id, worker.generation)
                     THEN others(worker.scope, worker.key) \cup {new_grant}
                     ELSE grants
        /\ UNCHANGED failures

record_failure ==
    /\ queue' = fail(queue, worker.id)
    /\ failures' = failures \cup {worker.id}
    /\ UNCHANGED grants

finish_decrypt ==
    /\ \/ worker.pc = "running" /\ child.state = "exited" /\ install
       \/ worker.pc = "running" /\ child.state \in {"exited", "killed"} /\ record_failure
       \/ worker.pc = "failed" /\ record_failure
    /\ active_decrypt' = IF active_decrypt = worker.id THEN NoRequest ELSE active_decrypt
    /\ child' = [child EXCEPT !.state = "none", !.touched = FALSE]
    /\ worker' = NoJob
    /\ RecordVerdict
    /\ UNCHANGED <<receipts, capability_grants, registry, agent_ttys, lock_epoch, conn, world,
                   registrations>>

-----------------------------------------------------------------------------
(***************************************************************************)
(* The outside world.  sops succeeds after a touch, or from the key's      *)
(* touch cache; it may fail at any moment, and the decryptor's own         *)
(* deadline makes it fail if nobody ever touches.                          *)
(***************************************************************************)
touch ==
    /\ child.state = "running" /\ ~ child.touched
    /\ child' = [child EXCEPT !.touched = TRUE, !.cache = TouchCache]
    /\ UNCHANGED <<shared, worker, conn, world, registrations, verdict>>

sops_succeeds ==
    /\ child.state = "running"
    /\ child.touched \/ child.cache > 0
    /\ child' = [child EXCEPT !.state = "exited"]
    /\ UNCHANGED <<shared, worker, conn, world, registrations, verdict>>

sops_fails ==
    /\ child.state = "running"
    /\ child' = [child EXCEPT !.state = "killed"]
    /\ UNCHANGED <<shared, worker, conn, world, registrations, verdict>>

edit_file ==
    /\ \A key \in AllKeys : file[key].version < MaxVersion
    /\ \E key \in AllKeys, present \in BOOLEAN :
         file' = [file EXCEPT ![key] = [present |-> present, version |-> @.version + 1]]
    /\ UNCHANGED <<shared, worker, child, conn, ttys, alive, registrations, verdict>>

root_dies ==
    /\ \E root \in alive : alive' = alive \ {root}
    /\ UNCHANGED <<shared, worker, child, conn, file, ttys, registrations, verdict>>

tty_vanishes ==
    /\ \E tty \in ttys : ttys' = ttys \ {tty}
    /\ UNCHANGED <<shared, worker, child, conn, file, alive, registrations, verdict>>

tty_reopens ==
    /\ \E tty \in Ttys \ ttys : ttys' = ttys \cup {tty}
    /\ UNCHANGED <<shared, worker, child, conn, file, alive, registrations, verdict>>

less(n) == IF n > 0 THEN n - 1 ELSE 0
age(entries) == {[e EXCEPT !.left = less(@)] : e \in entries}

Tick ==
    /\ queue' = elapse(queue)
    /\ grants' = age(grants)
    /\ receipts' = age(receipts)
    /\ capability_grants' = age(capability_grants)
    /\ child' = [child EXCEPT !.cache = less(@)]
    /\ conn' = [c \in Conns |-> [conn[c] EXCEPT !.left = less(@)]]
    /\ UNCHANGED <<registry, agent_ttys, lock_epoch, failures, active_decrypt, worker, world,
                   registrations, verdict>>

-----------------------------------------------------------------------------
Init ==
    /\ queue = new
    /\ grants = {} /\ receipts = {} /\ capability_grants = {}
    /\ registry = [t \in {} |-> {}]
    /\ agent_ttys = {}
    /\ lock_epoch = 0
    /\ failures = {}
    /\ active_decrypt = NoRequest
    /\ worker = NoJob
    /\ child = NoChild
    /\ conn = [c \in Conns |-> Idle]
    /\ file = [k \in AllKeys |-> [present |-> TRUE, version |-> 0]]
    /\ ttys = Ttys
    /\ alive = Roots
    /\ registrations = 0
    /\ verdict = [i \in {} |-> "Granted"]

Handler(c) ==
    \/ Get(c) \/ authorize(c) \/ authorize_resolve(c) \/ await_approval(c)
    \/ observe(c) \/ deliver(c) \/ Reply(c)

Control == redeem \/ register \/ unregister \/ deny_request \/ lock
Worker == scan \/ spawn \/ on_started \/ finish_decrypt
World ==
    \/ touch \/ sops_succeeds \/ sops_fails
    \/ edit_file \/ root_dies \/ tty_vanishes \/ tty_reopens \/ Tick

Next == (\E c \in Conns : Handler(c)) \/ Control \/ Worker \/ World

Spec == Init /\ [][Next]_vars

(***************************************************************************)
(* Fairness: the threads keep running and time passes.  A handler takes    *)
(* the mutex in the end, and its wait has a timeout; the decryptor gives   *)
(* up at its deadline.  Nobody is obliged to ask, touch, deny or lock.     *)
(***************************************************************************)
Fairness ==
    /\ \A c \in Conns :
         WF_vars(authorize_resolve(c) \/ await_approval(c) \/ observe(c) \/ deliver(c) \/ Reply(c))
    /\ WF_vars(Worker)
    /\ WF_vars(sops_fails)
    /\ WF_vars(Tick)

FairSpec == Spec /\ Fairness

-----------------------------------------------------------------------------
RequestIds == Nat \ {0}

Request == [scope : Scopes, key : AllKeys, state : RequestState, generation : Nat,
            age : 0..Horizon, ttl : Ttls \cup {None}]

Grant == [scope : Scopes, key : AllKeys, version : Nat, left : Nat, id : RequestIds,
          epoch : Nat]

QueueOK(q) ==
    /\ q \in [requests : {q.requests}, next_id : RequestIds, generation : Nat, inflight : Nat,
             cooling : 0..Cooldown]
    /\ q.requests \in [DOMAIN q.requests -> Request]
    /\ \A i \in DOMAIN q.requests : i \in RequestIds /\ i < q.next_id

Receipt == [request : RequestIds, cap : Capabilities, left : Nat, epoch : Nat]
CapabilityGrant == [request : RequestIds, left : Nat, epoch : Nat]
Registration == [session : Sessions, root : Roots]

Job == [pc : {"scan", "picked", "failed", "spawned", "running"}, id : Nat,
        scope : Scopes \cup {None}, key : AllKeys \cup {None}, generation : Nat,
        lock_epoch : Nat, ttl : Ttls \cup {None}, version : Nat]

Child == [state : {"none", "running", "exited", "killed"}, touched : BOOLEAN,
          cache : 0..TouchCache]

Handling == [pc : {"idle", "authorize", "resolved", "waiting", "granted", "done"},
             access : Access \cup {None}, scope : Scopes \cup {None}, id : Nat,
             left : 0..(RequestTtl + 1), epoch_before : Nat, asked : Nat,
             reply : {None, "Refused", "Granted", "Value", "Receipt", "Denied", "TimedOut",
                      "Failed", "Internal"},
             value : Nat]

StateOK ==
    /\ QueueOK(queue)
    /\ grants \subseteq Grant
    /\ receipts \subseteq Receipt
    /\ capability_grants \subseteq CapabilityGrant
    /\ DOMAIN registry \subseteq Tokens
    /\ registry \in [DOMAIN registry -> Registration]
    /\ agent_ttys \subseteq Ttys
    /\ lock_epoch \in Nat
    /\ failures \subseteq RequestIds
    /\ active_decrypt \in Nat
    /\ registrations \in Nat
    /\ verdict \in [DOMAIN verdict -> Terminal]

JobOK(j) ==
    /\ j \in Job
    /\ j.pc # "scan" => j.id \in RequestIds /\ j.scope \in Scopes /\ j.key \in AllKeys

WorkerOK == JobOK(worker) /\ child \in Child

ConnOK ==
    /\ conn \in [Conns -> Handling]
    /\ \A c \in Conns :
         /\ conn[c].pc \in {"authorize", "resolved", "waiting", "granted"} =>
              /\ conn[c].access \in Access
              /\ conn[c].access.op = "AUTHORIZE" => conn[c].access.key \in Capabilities
         /\ conn[c].pc \in {"resolved", "waiting", "granted"} => conn[c].scope \in Scopes

WorldOK ==
    /\ file \in [AllKeys -> [present : BOOLEAN, version : Nat]]
    /\ ttys \subseteq Ttys
    /\ alive \subseteq Roots

\* Every variable of the broker, its worker and its handlers has its type, and
\* a handler or the worker has the locals that its place in the code needs.
TypeOK == StateOK /\ WorkerOK /\ ConnOK /\ WorldOK

(***************************************************************************)
(* Safety.                                                                 *)
(***************************************************************************)
\* The hardware slot is exact: queue.inflight names a request exactly while
\* that request is Decrypting, and the worker is then at work on it.  A slot
\* that leaked would stop every later ceremony; one freed early would let two
\* requests meet one touch.  And once the process group of sops has been
\* published, sops runs only for that request, and active_decrypt names it so
\* that whoever settles it can kill it: the race is with a settlement between
\* the spawn and on_started.
HardwareSlotExact ==
    /\ \A i \in DOMAIN queue.requests :
         queue.requests[i].state = "Decrypting" <=> queue.inflight = i
    /\ queue.inflight # NoRequest => worker.pc # "scan" /\ worker.id = queue.inflight
    /\ worker.pc = "running" /\ child.state = "running" =>
         state_of(queue, worker.id) = "Decrypting" /\ active_decrypt = worker.id

\* One touch never approves two requests: sops never succeeds from the touch
\* cache, because the next decrypt starts only when the cooldown that the end
\* of the previous one started has run out, however that one ended.
OneTouchPerApproval ==
    child.state = "exited" => child.touched

\* Late output is discarded: whatever authority stands (a grant, a receipt, a
\* redeemed capability) comes from a request whose first terminal state is
\* Granted; a request once denied, timed out or failed never yields any.
LateOutputDiscarded ==
    /\ \A g \in grants : g.id \in DOMAIN verdict /\ verdict[g.id] = "Granted"
    /\ \A r \in receipts \cup capability_grants :
         r.request \in DOMAIN verdict /\ verdict[r.request] = "Granted"

\* LOCK wipes all authority for good: every grant, receipt and redeemed
\* capability belongs to a ceremony that began after the last LOCK, also when
\* the LOCK falls inside the ceremony or between approval and minting.
LockWipesAuthority ==
    \A e \in grants \cup receipts \cup capability_grants : e.epoch = lock_epoch

\* A session's grants die with its registration: every grant in a session
\* scope has its token registered, also when the session ends during the
\* decrypt.
SessionGrantsRegistered ==
    \A g \in grants : g.scope \in Tokens => g.scope \in DOMAIN registry

\* One ceremony, one receipt, one redemption: a handler about to mint shares
\* its request with no other handler and with no receipt or redeemed
\* capability, and a redeemed receipt is gone.
ReceiptPerCeremony ==
    LET minting == {c \in Conns : /\ conn[c].pc \in {"waiting", "granted"}
                                  /\ conn[c].access.op = "AUTHORIZE"}
    IN  /\ \A r \in receipts, g \in capability_grants : r.request # g.request
        /\ \A c \in minting, e \in receipts \cup capability_grants : e.request # conn[c].id
        /\ \A c, d \in minting : conn[c].id = conn[d].id => c = d

\* A handler waits on its own question: the request it waits for, while it is
\* in the queue, is for the handler's own scope and key, so one session's
\* approval is never another's.
WaitsOnOwnRequest ==
    \A c \in Conns : conn[c].pc = "waiting" /\ conn[c].id \in DOMAIN queue.requests =>
        /\ queue.requests[conn[c].id].scope = conn[c].scope
        /\ queue.requests[conn[c].id].key = conn[c].access.key

\* A GET served without a ceremony returns a value at least as new as the file
\* was when the request arrived, although the file is compared in one critical
\* section and the value read in a later one.
CachedReadIsCurrent ==
    \A c \in Conns : conn[c].reply = "Value" /\ conn[c].id = NoRequest =>
        conn[c].value >= conn[c].asked

\* A scope never has more requests waiting than its limit, and one capability
\* on top, however its handlers interleave.
PendingBounded ==
    \A scope \in Scopes :
      LET waiting == {i \in unsettled(queue) : queue.requests[i].scope = scope}
          caps    == {i \in waiting : queue.requests[i].key \in Capabilities}
      IN  Cardinality(waiting \ caps) <= MaxPendingPerScope /\ Cardinality(caps) <= 1

(***************************************************************************)
(* The abstract promise.                                                   *)
(***************************************************************************)
Gate == INSTANCE TouchGate WITH
            Keys       <- AllKeys,
            NoCeremony <- None,
            granted    <- {<<g.scope, g.key>> : g \in grants},
            ceremony   <- IF worker.pc = "scan" THEN None ELSE <<worker.scope, worker.key>>,
            touched    <- child.touched,
            void       <- worker.pc # "scan" /\ worker.lock_epoch # lock_epoch

\* The broker implements TouchGate: a pair becomes readable only by a touch
\* made for its own ceremony, with no LOCK since the ceremony began.
ImplementsTouchGate == Gate!Spec

(***************************************************************************)
(* Liveness.                                                               *)
(***************************************************************************)
\* Every access is answered, whatever the human, the hardware and the other
\* clients do.
Answered == \A c \in Conns : conn[c].pc # "idle" ~> conn[c].pc = "idle"
=============================================================================
