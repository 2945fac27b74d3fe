# Verification of forward and secretsd

`forward` links a remote development box to its owner's laptop; `secretsd` is the
broker on the box that hands out human-tier secrets, each behind a touch of a
YubiKey.  This directory keeps TLA+ models of the parts of that system whose
correctness depends on the order in which threads, processes, timers and people
act, the TLC configurations that check them, and proofs checked by TLAPS.

## The system

| Part | Source (under `src/crates`) | State | Module |
|---|---|---|---|
| Approval queue | `secrets/src/requests` | requests with state, age and generation; the hardware slot; the cooldown | `ApprovalQueue` |
| Grants, registry, receipts, capability grants | `secrets/src/{grants,registry}*`, `receipts.rs` | cached plaintext per scope and key; sessions by token; one-use receipts | `Broker` |
| Access dispatch and approval wait, decrypt worker | `secrets/src/server*` | one handler per connection and one worker, under one `Mutex<State>` and a condition variable; the sops process group | `Broker` |
| Wire protocol, accept loop, lanes | `proto/src`, `secrets/src/proto`, `secrets/src/server.rs` | bytes on their way; four bounded queues with their workers | `BrokerWire` |
| Write doors of the `secrets` client | `secrets/src/client` | ciphertext files of two tiers, flocks, temporaries, the editor's plaintext | `EditSecret` |
| Subscriber hub, authority subscription, approval ceremony | `secrets/src/server/subscribers.rs`, `forward/src/browser/{subscription.rs,request}` | the broker's instance and epoch, streams of events, the authority last observed | `AuthorityChain` |
| Browser grants and pipes | `forward/src/browser/grant*` | live grants under a broker authority; sockets to cut | `BrowserGrants` |
| Token feed | `forward/src/browser/{push.rs,feed*}` | the laptop's leased mirror of live relay tokens | `TokenFeed` |
| Port bridge | `forward/src/bridge`, `port.rs` | armed ports, holders, a control connection per holder | `PortBridge` |
| OAuth callback listener | `forward/src/callback`, `daemon.rs` | one lease per laptop port, two listeners per lease | `CallbackLease` |
| Opening a URL | `forward/src/{opener,send,daemon,request,policy,ratelimit,process}*` | the handler of a connection, a notifier process, the limiter's table | `OpenUrl` |

The parts meet at three places.  A browser grant starts with AUTHORIZE at the
broker (a touch, then a receipt) and REDEEM by `forward serve`, and lives from then on
under the broker's *authority*, its instance and lock epoch: LOCK raises the epoch,
the hub publishes it, the subscription revokes the grants, and the laptop's copies
of the tokens are no longer renewed and die with their lease.  Every request to the
broker goes through the lanes of `BrokerWire` before a handler of `Broker` sees it.
A URL with a callback port needs a laptop listener (`CallbackLease`) that relays to a
port the devbox armed or holds (`PortBridge`).

`PROJECT.json` lists, at the line where each bites, what is hard to test here: the
races, late answers, crashes and limits that the properties below are about.

## Modules

Definitions carry the names of the functions they translate; `map` in
`PROJECT.json` gives the lines.  An action is a step between two acquisitions of a
lock, two system calls others can observe, or two reads.  Instants are kept as time
left or elapsed and a `Tick` ages all of them, so time is unbounded and the state
finite.  Operators named after a slip (`PayloadUpToEof`, `DroppedLate`, ...) stand in
for a definition when a property is tested against that slip; no specification
uses them.

**Broker**, with **ApprovalQueue** for the methods of `Queue`.  A handler goes
through `authorize_resolve`, `await_approval`, `observe`, `deliver` and its reply,
each a critical section of `Mutex<State>`; the worker through `scan` (with all its
sweeps), `spawn`, `on_started` and `finish_decrypt`.  The world touches the key, ends
sops, edits ciphertext files, closes terminals and ends processes.  A wait on the
condition variable is an action that may look at the queue at any time: wake-ups may
be spurious and every wait has a timeout.  **TouchGate** models no code: it is the
abstract promise that access appears only at the end of a touched ceremony that no
LOCK interrupted, and `Broker` maps its grants and its worker onto it.

**BrokerWire.**  A client writes its line in two pieces, reads the header under one
deadline and the payload of a GET or of GRANTS byte by byte up to the announced length
(one beyond `MaxFrame` is refused), and accepts a reply only once the broker has closed.  The accept loop peeks at what has arrived, picks a lane and hands the
connection over or turns it away; a worker reads, parses by the fields a request
needs, and answers header first, then a payload of any of `Sizes` bytes.  What waits for a human is `decide`, which need never
happen.  `broker_dies` closes everything at any moment.

**EditSecret.**  A process lists the human files, takes an exclusive flock on every
root, edits through a temporary or a scratch file, checks and publishes by rename.
Each step that can fail has its error exit, on which the destructors run: the editor,
sops and the checks, and the reopening of the scratch file behind an editor that saved
by rename.  A process may be killed (SIGKILL, no destructor) at any step, and a sync
tool that takes no lock may replace an agent file at any moment.  A content is the
names it assigns and its author.  `LeavesNothingBehind` says of a command that came to
its end that its scratch file is unlinked and that the inodes it had open were
overwritten: the one it created, and the editor's replacement once reopened.  A command
that was killed is held to whole agent files only.

**BrowserGrants.**  `expire` and `drain_all` remove rows under both locks, then
shut down pipes and the control channel without a lock.  What has been removed
and not yet shut down is an element of `teardown`; `observe_authority` and
`invalidate_authority` hold the lock of `authority` over the whole of it.  The
authority stored in a grant is auxiliary: the code does not keep it, the properties
need it.

**AuthorityChain** composes `BrowserGrants` with the hub, the subscription thread and
the ceremony.  LOCK changes the epoch under the state's mutex and publishes after it
has let go; the hub's mutex is held across the read of the epoch and the writes.  A
restart gives the broker a new instance, closes the streams it had accepted and leaves
those in the backlog of the socket to its successor.

**TokenFeed.**  Both ends of the feed: a push holds the slot's lock from its line to
its OK; a ceremony, the renewer and the thread that attached a new connection push.
Connections break, acknowledgements come late, an older connection may attach after a
newer one; the laptop mirrors a token for at most a lease and a timer scrubs the
expired.  A tick is a second.  Grants do not end on the second, so what is left of one is
kept rounded up, and a snapshot taken within a second (`parts`) drops that second as
`as_secs` does, with the floor of one that `.max(1)` gives.  A line of no time would be
refused by the laptop's parser and end the connection (`malformed`).  So the claim is
that a line gives its token a lease, or the rest of its grant but for one second.

**PortBridge.**  Two maps with a mutex each, one control mutex per holder that a dial
keeps until its answer, the threads that arm, hold and connect, and the `forward port`
process at the other end of each control connection.

**CallbackLease.**  Handlers, two accept loops per lease and the reaper share the map;
`bind(2)` is the only other arbiter.  A stop flag is shared by a lease and its
listeners, so a flag outlives its lease.

**OpenUrl.**  `forward open` and the laptop's thread for it: admission (a legacy
configuration, with `peer` instead of `peers`, also admits the laptop's own loopback),
the allowlist by host labels, port and path prefix, the notifier with its timeout and
what it leaves behind, the clipboard tool, the limiter.  The wait for the clipboard tool
has no timeout in the code (`notification.rs:94`) and the tool need not exit: a thread
that waits for it is `Held`, and `OpensEnd` excepts a thread that is held for ever.
`permits` is auxiliary: every open the limiter let
through, with its age.  The limiter counts for the origin under `peers`, and for the one
configured peer, or nobody, under a legacy configuration (`peer_ip`).

**Retain** is the `retain` of a Vec or VecDeque, for the laptop's mirror in `TokenFeed`
and the limiter's list in `OpenUrl`.

Each `...Proof` module holds the theorems about the module it is named after.
`AuthorityChainProof` also holds those about `BrowserGrants`.

## What the runs check

| Run | Shows | States |
|---|---|---|
| `sessions` | two handlers of one session, two keys, denial, timeout, failure, edits, registration and session end: `HardwareSlotExact`, `LateOutputDiscarded`, `SessionGrantsRegistered`, `CachedReadIsCurrent`, `WaitsOnOwnRequest`, `PendingBounded` | 3.1M |
| `lock` | REQUEST, AUTHORIZE, REDEEM and LOCK in every order with cooldown 2 and cache 1: `LockWipesAuthority`, `ReceiptPerCeremony`, `OneTouchPerApproval`, and the broker implements `TouchGate` | 1.5M |
| `liveness` | every request is answered, touched or not | 271k |
| `wire` | a client returns a value or a list of grants only whole (`ValueIsWhole`); a LOCK passes GETs that wait for ever; every exchange ends | 598k |
| `edit` | a key stays in one tier, agent files are whole and an ended command's plaintext is overwritten, no locked update is lost, every command ends | 434k |
| `grants` | no grant of a replaced authority, no connection that cannot be cut, no channel without a grant; the end of a grant reaches everybody | 138k |
| `chain` | no LOCK is missed, no older authority is observed after a newer, and once the broker's authority stays, every grant is one of it | 800k |
| `feed` | an acknowledged push was inserted, a line covers its grant but for a second, the reaper is armed, the feed recovers | 748k |
| `bridge` | one route per held port, no live holder displaced, every connection answered, every orphaned holder exits | 69k |
| `callbacks` | a lease that can be refreshed is served, keeps its owner, and is released once stopped; waiters wake | 418k |
| `open` | a devbox and a tunnel that ends on the laptop, under three configurations: loops are cut, nothing opens without leave, every laptop thread ends that no clipboard tool or left process holds for ever | 213k |

For each property `PROJECT.json` names a plausible slip in one definition under which
the same run finds it violated.

The run `duplicate` shows a disagreement.  `edit.rs` says that the lock is taken so
that two writers "cannot each pass their check and both publish"; but the listing the
check uses is made before the lock, so two `secrets edit-human` of one new key in two
roots both publish, and later commands fail with a duplicate key (`OneHumanFile`).

Other places where a document says more than the code does, met while modelling and
kept here for whoever edits either:

* a denied or timed-out request can end as a failed decrypt, because the killed
  decrypt fails later and `fail` overwrites the state (`requests/queue.rs:168`,
  `docs/design.md:308`);
* a request made after a file changed may join a decrypt of the old file
  (`requests/queue.rs:56`, `skills/using-secrets/SKILL.md:69`);
* a session unregistered and registered again during its decrypt starts with a grant
  (`server/worker.rs:119`, `docs/design.md:319`);
* a terminal that vanishes and returns between two sweeps keeps its grant
  (`grants/table.rs:126`, `docs/design.md:267`);
* the reply deadline covers the header, and each read of a payload is then given what
  was left of it anew (`proto/src/response.rs:233`, `proto/src/client/stream.rs:56`);
* an editor that saves by rename and then fails, or whose file cannot be reopened,
  leaves an inode with plaintext that is unlinked and not overwritten
  (`client/edit/plaintext.rs:54`; `docs/design.md:60` has it "scrubbed and unlinked on
  every exit path");
* `opened` is answered for an open that the limiter dropped or the opener failed.

### Bounds

Two handlers, two requests and one or two of every other thing suffice for each race
above: every one of them is between two parties over one request, key, port, grant or
stream, and a second shows that an id or a slot is not confused with the next.
Bounds on counters sit in guards: `MaxRequests`, `MaxEpoch`, `MaxRegistrations`,
`MaxVersion` in `Broker`; `MaxId` (grants and pipes together) in `BrowserGrants`;
`MaxInstance`, `MaxEpoch`, `MaxStreams` in `AuthorityChain`; `MaxFaults` in
`TokenFeed`; `MaxBusy` (requests, connections and holders at a time) in
`PortBridge`; `MaxSync` in `EditSecret`.  Capacities are small so that a full one
happens: one place and one worker a lane, two events in a subscriber's socket, one
pending request a scope, one live token, two tracked opens, payloads of nothing, of
`MaxFrame` bytes and of one more.  The theorems hold without those choices.  Four cases
are out of the runs' bounds and rest on the theorems: `sessions` registers a session once, and
`SessionEndIsFinal` is proved for any number of registrations; in `open` no third open
follows an eviction from the limiter's table, which `LimiterIsExact` and `LoopsAreCut`
cover; in `feed` no grant outlasts the lease, so that the clamp to it cuts nothing, and
`RenewalsCover` holds for any lease; `chain` sees two LOCKs, one restart, two streams and
one grant, and `NoLockIsMissed` and `ObservedInOrder` hold for any number of them.

Connection handlers, keys and capabilities are interchangeable in `Broker`, and the
two runs that use symmetry check no liveness.

### Fairness

Mostly what threads and timers guarantee, and for `edit` also that the programs which the
code waits for without a limit come to an end.  `liveness`: a handler that can run runs, the
worker loops, time passes, and sops ends by itself or at its deadline; nobody has to
ask, touch, deny or lock.  `wire`: threads of both sides run and time passes; no human
decides.  `edit`: a process that can get a lock again and again gets it (strong
fairness, since `flock` may be lost to another process each time); and the editor, sops
and the writer of standard input end, since the commands wait for each without a
timeout and `CommandsEnd` could not hold otherwise.  `grants`: threads
run, reapers fire, a dial ends at its timeout; no connection has to end by itself.
`chain`: the subscription thread takes its steps, whoever holds the hub's mutex goes
on and whoever waits for it gets it in the end; the broker may stay unreachable for
ever, no heartbeat has to come and no grant has to reach its own deadline.  `feed`:
both ends' threads run, and a thread that can take the slot's lock again and again
takes it; at most `MaxFaults` connections break or time out.  `bridge`: threads run and get the mutexes they wait for;
a holder that is told to end does.  `callbacks`: handlers run, accept loops see their
flag and release.  `open`: both ends run; a user need not answer, and neither the
clipboard tool nor a process the notifier left behind need end (`OpensEnd` names the
threads that these hold).

## What is proved

The constants are arbitrary within the named assumptions of the modules, which TLC
evaluates for every run: `QueueLimits`, `BrokerConfig` (what `Config::validate`
enforces: the cooldown exceeds the touch cache), `WireConstants`, `EditConstants`
(what `Sources::parse` admits, and whole agent files at the start), `GrantConstants`,
`ChainConstants` (every authority within the bounds is an authority),
`FeedConstants`, `BridgeConstants`, `LeaseConstants` and `OpenConstants` (the limiter
tracks at least as many opens as it allows, an address has no wildcard, a legacy
configuration names at most one peer).  So the theorems speak of any number of
connections, sessions, keys, grants, ports, tokens and writers, and any time limits.
Every safety property of the passing runs is proved.

`BrokerProof`

| Theorem | Argument |
|---|---|
| `TypeCorrect` | inductive, one step per action; a lemma for each method of the queue |
| `LockIsFinal` (`LockWipesAuthority`) | what a step can do to grants and receipts: install only in the epoch the ceremony began in |
| `SessionEndIsFinal` (`SessionGrantsRegistered`) | the same lemmas, with what a step does to the registry |
| `OneTouch` (`OneTouchPerApproval`) | `CooldownCoversCache`: between decrypts the cache is shorter than what is left of the cooldown, since whatever ends a decrypt restarts the cooldown; so a decrypt starts on a cold cache |
| `SlotExact` (`HardwareSlotExact`) | `SlotInv` relates slot, worker, `active_decrypt` and sops through every settlement |
| `LateOutput` (`LateOutputDiscarded`) | `VerdictInv`: the first terminal state of a request decides |
| `GateIsImplemented` (`ImplementsTouchGate`) | `GateInv`: a touch belongs to a decrypt that runs, and no job comes from a later epoch; then each step is a step of `TouchGate` or leaves it alone |
| `WaitsOnOwn` (`WaitsOnOwnRequest`) | `WaitInv`: a request may be pruned while its handler sleeps, and because ids grow none takes its place |
| `OneReceipt` (`ReceiptPerCeremony`) | `ReceiptInv`: a capability request is never shared, and receipts, redeemed capabilities and minting handlers have distinct ids |
| `CachedIsCurrent` (`CachedReadIsCurrent`) | `ReadInv`: the grant that replaces the one compared was made from a file no older |
| `PendingIsBounded` (`PendingBounded`) | `Bounded`, counted separately for ordinary and for capability requests |

`AuthorityChainProof`, which begins with the registry of `BrowserGrants`

| Theorem | Argument |
|---|---|
| `BGTypeCorrect`, `AuthorityIsFinal` (`GrantsUnderAuthority`) | inductive as stated: comparing and inserting share a lock with observing and revoking |
| `NoOrphanChannel` (`OpenChannelsAreHeld`) | every ending takes over the channels of the rows it removes |
| `NoUncuttablePipe` (`PipesCanBeCut`) | with `PipeIds`: a guard removes the entry of its own pipe only, because ids come from one counter |
| `ChainTypeCorrect` | component by component: broker, hub, thread, ceremony |
| `ChainImplementsGrants` | every step of the chain is a step of `BrowserGrants` or leaves it alone; the point to show is that one ceremony runs at a time.  The theorems about the registry carry over (`ChainAuthorityIsFinal`) |
| `NoLockIsMissed` (`NoMissedLock`) | `NothingMissed`: what an attached subscriber *will* know once it has read everything is current, or the line the mutex's holder is about to write is, or a LOCK is still to be published |
| `ObservedInOrder` (`ObservationIsOrdered`) | `OrderInv`: last observed, events on the stream, the holder's line and the broker are in order |

`TokenFeedProof`, `BrokerWireProof`

| Theorem | Argument |
|---|---|
| `FeedTypeCorrect`, `ReaperIsArmed` (`ReaperArmed`) | insertions, the reaper and the clock each leave a timer no later than the first deadline, or a thread about to set it; that `next_deadline` is the first, and which entries `retain` keeps, come from the well-foundedness of `<` |
| `AckedIsInserted` (`AckMeansInserted`) | `OneLine`: while the devbox keeps its end of a connection open, the only thing under way on it is the push of the thread that holds the slot, as a line, an insertion or an OK |
| `RenewalsCover` (`RenewalCoversGrant`) | `LinesCover`: a line in flight or in a snapshot has a time of at least one second, and at most one second less than its grant has left; the line's time stands while the grant's runs, so an old snapshot only gives more.  A line is therefore taken, and what it inserts is its time clamped to the lease |
| `ReturnedValueIsWhole` (`ValueIsWhole`) | `Streams`: nothing is on its way before the broker answers, and behind the header of a payload there are as many bytes as were written and not yet read, so a client at the announced length followed by the end of the stream has them all |
| `OnePlace` (`Places`) | a connection is in the backlog once, or in its lane's queue once, or with a worker; `Streams` needs it, and it needs that a client dials once |

`PortBridgeProof`, `CallbackLeaseProof`, `EditSecretProof`

| Theorem | Argument |
|---|---|
| `BridgeTypeCorrect`, `OneRoute` (`HeldHasOneRoute`) | arming and holding look at both maps before they write |
| `LiveHolderStays` (`LiveHolderKept`) | `BridgeInv`: a live control connection carries one question or one answer, and only while a dial keeps its mutex, so a holder seen dead is dead and stays so |
| `LiveIsServed` (`LiveLeaseIsServed`), `OwnerIsKept` (`LiveLeaseKeepsOwner`) | `LeaseInv`: each flag has one handler, each port's IPv4 address one flag, and a lease counts the listeners of its flag |
| `KeyInOneTier` (`OneTier`), `NothingIsLeft` (`LeavesNothingBehind`), `NoUpdateIsLost` (`NoLostUpdate`) | `EditInv`: who works holds every root's lock, what it checked about the other tier still holds, and from the re-read on only the sync tool has touched its file; an end, with or without an error, is reached only past the destructor of the scratch file |

`OpenUrlProof`

| Theorem | Argument |
|---|---|
| `LimiterIsExact` (`OpenTypeOK`, `RecentIsLatest`) | the limiter's list is a tail of the opens let through, ages only fall along them, and what is before the tail is out of the window or not among the last `MAX_TRACKED`; what `retain` keeps, and in which order, is the part about sequences |
| `LoopsAreCut` (`LoopBounded`) | from `RecentIsLatest` the opens that count against the bound are among those the limiter counts, so an open at the bound is dropped; dropping the oldest of a full list loses only one that is no longer among the last `MAX_TRACKED` |
| `LeaveIsNeeded` (`OpensWithLeave`) | `LeaveInv`: a handler about to open was let through by the allowlist or saw its notifier approve, and a notifier that has exited stays as it is.  The lemmas show that a text prefix that ends in a slash, or is the whole path, covers whole segments, for every path |

### What liveness rests on

Fairness is out of the prover's reach, but each liveness property below rests on a safety
fact: whoever waits, waits for something that can still happen.  Those facts are
theorems for every value of the constants; the runs check that the waiting then ends.

| Theorem | What it says | Argument | Behind |
|---|---|---|---|
| `NoDeadlock` (`NoCircularWait`) | while a command waits for a flock, some command that holds one does not wait | every command takes the locks in the order of the configuration, so who holds the lock a command waits for is further on; the furthest does not wait | `CommandsEnd` |
| `WakeUpIsOwed` (`NoLostWakeUp`) | every lease in the map has a listener that is still to be released, and a sleeping handler's port has a lease | `WakeInv` on top of `LeaseInv`: the last release removes the lease and wakes every sleeper in the same critical section | `WaitersWake`, `StoppedLeaseReleased` |
| `ControlLaneIsFree` (`OnlyMainWaits`) | no worker outside the main lane waits for a human or for a line | a connection leaves the main lane only when its whole line was peeked, and lines do not change | `LockGetsThrough` |
| `LanesAreBounded` (`LaneBounds`) | queues stay within their depth, lanes within their workers | the guards of `accept` and of taking from a queue, with `Places`: a worker is counted for the lane it came from | `LockGetsThrough` |
| `AliveIsAlive` (`AliveIsSeen`), `MutexIsFreed` (`NoChainOfWaits`) | outside a dial a live holder is seen alive; who waits for a control mutex waits for one dial that awaits its answer and keeps no other mutex | both from `BridgeInv` | `CallsAnswered`, `OrphanedHoldExits` |
| `FeedIsNotStranded` (`NoStrandedFeed`) | the connection the laptop reads waits to be accepted or attached, is attached, or has been shut | `Attended`: a connection the devbox keeps open is in the slot or its thread is about to put it there; whoever replaces it shuts it | `FeedRecovers` |

Model-checked only:

* liveness (`Answered`, `LockGetsThrough`, `CallReturns`, `CommandsEnd`,
  `EndReachesEverybody`, `LockReachesGrants`, `FeedRecovers`, `CallsAnswered`,
  `OrphanedHoldExits`, `StoppedLeaseReleased`, `WaitersWake`, `OpensEnd`): the prover
  does not handle fairness.

The operators of the allowlist and of `retain` are proved about without induction: a
least or a longest element comes from the well-foundedness of `<`.

## Not modelled

Power loss (nothing is synced before a rename, so `LeavesNothingBehind` speaks of killed
processes and not of a machine that stops), I/O errors while the scratch file is
overwritten, the text of GRANTS and STATUS, audit lines, the escaping of field text, zeroizing,
`/proc` walks and pidfds (abstracted to membership in a live process tree), reuse of
process numbers by the kernel, the client commands that send one request and print the
reply, the bytes a relay copies, the pumps for sound and smart cards, file serving,
the doctor and the editor plugins: no protocol state of their own, or state of the
kernel.  `PROJECT.json` lists each part with its reason.
