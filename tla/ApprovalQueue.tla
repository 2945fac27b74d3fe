--------------------------- MODULE ApprovalQueue ---------------------------
(***************************************************************************)
(* The broker's approval queue: crates/secrets/src/requests.               *)
(*                                                                         *)
(* A queue is a value; each method of `Queue` that changes it is an        *)
(* operator from the old queue to the new one, and Broker applies them     *)
(* inside its critical sections.                                           *)
(*                                                                         *)
(* The Vec of requests is a function from request ids: ids are handed out  *)
(* in increasing order and never reused, so "the first in the Vec" is "the *)
(* least id".  An Instant is kept as what the code computes from it: a     *)
(* request carries the age `now - created` (saturated at the pruning       *)
(* horizon, past which nothing distinguishes ages), and `last_finished`    *)
(* is the part of the cooldown that is still to run (0 for `None`).        *)
(***************************************************************************)
EXTENDS Integers, FiniteSets

CONSTANTS RequestTtl,          \* limits.ttl
          Cooldown,            \* limits.cooldown
          MaxPendingPerScope,  \* limits.max_pending_per_scope
          Capabilities         \* the keys whose name starts with CAP_

ASSUME QueueLimits ==
    /\ RequestTtl \in Nat
    /\ Cooldown \in Nat
    /\ MaxPendingPerScope \in Nat

RequestState == {"Pending", "Decrypting", "Granted", "Denied", "TimedOut", "Failed"}
Unsettled == {"Pending", "Decrypting"}
Terminal == RequestState \ Unsettled

NoRequest == 0     \* the `None` of inflight and active_decrypt
Horizon == 2 * RequestTtl

new == [requests   |-> [i \in {} |-> {}],
        next_id    |-> 1,
        generation |-> 0,
        inflight   |-> NoRequest,
        cooling    |-> 0]

state_of(q, id) ==
    IF id \in DOMAIN q.requests THEN q.requests[id].state ELSE "None"

unsettled(q) == {i \in DOMAIN q.requests : q.requests[i].state \in Unsettled}

(***************************************************************************)
(* enqueue: coalesce with an unsettled request of the same scope and key,  *)
(* unless the key is a capability; otherwise admit one more request if the *)
(* scope is below its limit.  A capability competes only with              *)
(* capabilities, an ordinary key with everything its scope has waiting.    *)
(***************************************************************************)
TwinsAcrossKeys(q, scope, key) ==
    {i \in unsettled(q) : q.requests[i].scope = scope /\ key \notin Capabilities}

TwinsAmongCapabilities(q, scope, key) ==
    {i \in unsettled(q) : q.requests[i].scope = scope /\ q.requests[i].key = key}

twins(q, scope, key) ==
    {i \in unsettled(q) : /\ key \notin Capabilities
                          /\ q.requests[i].scope = scope
                          /\ q.requests[i].key = key}

AdmitsOneTooMany(q, scope, key) ==
    Cardinality({i \in unsettled(q) : q.requests[i].scope = scope}) <= MaxPendingPerScope

admits(q, scope, key) ==
    LET active == {i \in unsettled(q) :
                     /\ q.requests[i].scope = scope
                     /\ key \in Capabilities => q.requests[i].key \in Capabilities}
        limit  == IF key \in Capabilities THEN 1 ELSE MaxPendingPerScope
    IN  Cardinality(active) < limit

push(q, scope, key, ttl) ==
    [q EXCEPT
       !.next_id  = @ + 1,
       !.requests = [i \in DOMAIN @ \cup {q.next_id} |->
                       IF i = q.next_id
                       THEN [scope |-> scope, key |-> key, state |-> "Pending",
                             generation |-> 0, age |-> 0, ttl |-> ttl]
                       ELSE @[i]]]

(***************************************************************************)
(* The hardware: one decrypt at a time, and none while the cooldown runs.  *)
(***************************************************************************)
NextReadyIgnoresCooldown(q, id) ==
    /\ q.inflight = NoRequest
    /\ state_of(q, id) = "Pending"

next_ready(q, id) ==
    /\ q.inflight = NoRequest
    /\ q.cooling = 0
    /\ state_of(q, id) = "Pending"
    /\ \A i \in DOMAIN q.requests : q.requests[i].state = "Pending" => id <= i

mark_decrypting(q, id) ==
    [q EXCEPT !.generation = @ + 1,
              !.requests[id].state = "Decrypting",
              !.requests[id].generation = q.generation + 1,
              !.inflight = id]

FinishLeaksSlot(q, id) == [q EXCEPT !.cooling = Cooldown]

finish(q, id) ==
    [q EXCEPT !.inflight = IF @ = id THEN NoRequest ELSE @,
              !.cooling  = Cooldown]

CurrentUnlessDenied(q, id, generation) == state_of(q, id) \notin {"None", "Denied"}

still_current(q, id, generation) ==
    /\ state_of(q, id) = "Decrypting"
    /\ q.requests[id].generation = generation

complete(q, id, generation) ==
    finish(IF still_current(q, id, generation)
           THEN [q EXCEPT !.requests[id].state = "Granted"]
           ELSE q, id)

fail(q, id) ==
    finish(IF id \in DOMAIN q.requests
           THEN [q EXCEPT !.requests[id].state = "Failed"]
           ELSE q, id)

(***************************************************************************)
(* Settling a request early.  timeout and deny share their shape: only an  *)
(* unsettled request changes, and its generation moves on so that a        *)
(* decrypt already running for it is no longer current.                    *)
(***************************************************************************)
settle(q, id, verdict) ==
    IF state_of(q, id) \in Unsettled
    THEN finish([q EXCEPT !.requests[id].state = verdict,
                          !.requests[id].generation = @ + 1], id)
    ELSE q

timeout(q, id) == settle(q, id, "TimedOut")

deny(q, id) == settle(q, id, "Denied")

expired(q) == {i \in unsettled(q) : q.requests[i].age > RequestTtl}

sweep_timeouts(q) ==
    [q EXCEPT
       !.requests = [i \in DOMAIN q.requests |->
                       IF i \in expired(q)
                       THEN [q.requests[i] EXCEPT !.state = "TimedOut", !.generation = @ + 1]
                       ELSE q.requests[i]],
       !.inflight = IF @ \in expired(q) THEN NoRequest ELSE @,
       !.cooling  = IF expired(q) # {} THEN Cooldown ELSE @]

prune(q) ==
    [q EXCEPT !.requests =
        [i \in {j \in DOMAIN @ : @[j].state \in Unsettled \/ @[j].age < Horizon} |-> @[i]]]

\* One unit of time passes for the Instants held by the queue.
elapse(q) ==
    [q EXCEPT
       !.requests = [i \in DOMAIN q.requests |->
                       [q.requests[i] EXCEPT !.age = IF @ < Horizon THEN @ + 1 ELSE @]],
       !.cooling  = IF @ > 0 THEN @ - 1 ELSE 0]
=============================================================================
