------------------------------- MODULE OpenUrl -------------------------------
(***************************************************************************)
(* Opening a devbox URL in the laptop's browser: `forward open` on the     *)
(* devbox (opener.rs, send.rs) and the handler thread the                  *)
(* laptop daemon starts for its connection (daemon.rs, request.rs,         *)
(* policy.rs, daemon/notification.rs, process.rs, ratelimit.rs).           *)
(*                                                                         *)
(* The devbox waits ten seconds for the outcome.  The laptop may ask its   *)
(* user through a notifier process for five minutes, and refuses to open   *)
(* the same URL of the same devbox again and again.  The callback ports a  *)
(* URL names are leased by CallbackLease; here a lease is granted or not.  *)
(***************************************************************************)
EXTENDS Integers, Sequences, FiniteSets, Retain

CONSTANTS
    Conns,               \* runs of `forward open`, with their connections
    Labels, Chars,       \* what host names and paths are made of
    Addresses,           \* where a connection may come from, as a host's labels
    Loopback,            \* the laptop's own ones
    Urls,                \* [host, port, path]
    Asks,                \* what each run may send, and from where
    Configs,             \* the laptop configurations that validate
    FILES_PORT,          \* the port of a devbox's file previews
    MAX_OPENS,           \* MAX_OPENS_PER_WINDOW
    MAX_TRACKED,         \* MAX_TRACKED_OPENS
    OPEN_WINDOW,
    None

Slash == "/"

Pattern == [host : Seq(Labels), port : Nat \cup {None}, path : Seq(Chars)]

Config == [mode : {"auto", "allowlist"}, multi : BOOLEAN, peers : SUBSET Addresses,
           allow : SUBSET Pattern, notifier : BOOLEAN, clipboard : BOOLEAN]

(* A peer is a literal address, so none of its labels is a wildcard.       *)
ASSUME OpenConstants ==
    /\ MAX_OPENS \in Nat \ {0} /\ MAX_TRACKED \in Nat /\ MAX_OPENS <= MAX_TRACKED
    /\ OPEN_WINDOW \in Nat \ {0} /\ FILES_PORT \in Nat \ {None}
    /\ "localhost" \in Labels /\ Slash \in Chars
    /\ Addresses \subseteq Seq(Labels \ {"*"}) /\ Loopback \subseteq Addresses
    /\ Urls \subseteq [host : Seq(Labels), port : Nat, path : Seq(Chars)]
    /\ Asks \in [Conns -> SUBSET [url : Urls, origin : Addresses]]
    /\ Configs \subseteq Config
    /\ \A k \in Configs : ~ k.multi => \A p, q \in k.peers : p = q

VARIABLES
    cfg,        \* the laptop's configuration
    sender,     \* each `forward open`
    handler,    \* the laptop thread of its connection
    notifier,   \* the process that thread runs: the notifier or the clipboard tool
    recent,     \* RecentOpens.entries
    permits     \* every open the limiter let through, with its age

vars == <<cfg, sender, handler, notifier, recent, permits>>

-----------------------------------------------------------------------------
(* The allowlist: host labels, an optional port, a path prefix.            *)
normalize_loopback_alias(host) ==
    IF host \in {<<"127", "0", "0", "1">>, <<"[::1]">>} THEN <<"localhost">> ELSE host

HostMatches(pattern, host) ==
    /\ Len(pattern) = Len(host)
    /\ \A i \in 1 .. Len(pattern) : pattern[i] = "*" \/ pattern[i] = host[i]

trim_end(prefix) ==
    LET kept == {0} \cup {i \in 1 .. Len(prefix) : prefix[i] # Slash}
    IN  SubSeq(prefix, 1, CHOOSE n \in kept : \A i \in kept : i <= n)

starts_with(path, p) == Len(p) <= Len(path) /\ \A i \in 1 .. Len(p) : path[i] = p[i]

(* A bug: the prefix of the text, which may end inside a segment.          *)
PrefixOfText(prefix, path) ==
    LET p == trim_end(prefix) IN p = <<>> \/ starts_with(path, <<Slash>> \o p)

PathMatches(prefix, path) ==
    LET p == trim_end(prefix) IN
    \/ p = <<>>
    \/ path = <<Slash>> \o p
    \/ starts_with(path, <<Slash>> \o p \o <<Slash>>)

allow_matches(pattern, url) ==
    /\ pattern.port \in {None, url.port}
    /\ HostMatches(normalize_loopback_alias(pattern.host), normalize_loopback_alias(url.host))
    /\ PathMatches(pattern.path, url.path)

Preview(peer) == [host |-> peer, port |-> FILES_PORT, path |-> <<>>]

(* origin::config: a connection's own configuration, which lets its origin *)
(* open its own previews.                                                  *)
origin_config(origin) ==
    cfg.allow \cup (IF cfg.multi THEN {Preview(origin)} ELSE {})

decide(origin, url) ==
    cfg.mode = "auto" \/ \E pattern \in origin_config(origin) : allow_matches(pattern, url)

-----------------------------------------------------------------------------
(* RecentOpens::record.                                                    *)
Fresh == retain(recent, {i \in DOMAIN recent : recent[i].age < OPEN_WINDOW})

(* An open is counted per devbox and URL.                                  *)
SameOpen(e, url, origin) == e.origin = origin /\ e.url = url

Count(url, origin) ==
    Cardinality({i \in DOMAIN Fresh : SameOpen(Fresh[i], url, origin)}) + 1

(* A bug: off by one.                                                      *)
DroppedLate(url, origin) == Count(url, origin) > MAX_OPENS + 1

Dropped(url, origin) == Count(url, origin) > MAX_OPENS

Recorded(url, origin) ==
    LET room == IF Len(Fresh) = MAX_TRACKED THEN Tail(Fresh) ELSE Fresh
    IN  Append(room, [url |-> url, origin |-> origin, age |-> 0])

-----------------------------------------------------------------------------
NoSender == [pc |-> "new", url |-> None, origin |-> None, exit |-> None]
NoHandler == [pc |-> "none", reply |-> None]
NoNotifier == [pc |-> "none", out |-> None, survivor |-> FALSE]

Init ==
    /\ cfg \in Configs
    /\ sender = [c \in Conns |-> NoSender]
    /\ handler = [c \in Conns |-> NoHandler]
    /\ notifier = [c \in Conns |-> NoNotifier]
    /\ recent = <<>>
    /\ permits = <<>>

(* `forward open` exits: with an error, it has printed and copied the URL  *)
(* for its user to paste.                                                  *)
Exit(c, ok) ==
    sender' = [sender EXCEPT ![c] = [@ EXCEPT
                 !.pc = "exited", !.exit = IF ok THEN "zero" ELSE "error"]]

(* open_target and send::request: a re-entered opener and an unusable      *)
(* target end here with nothing sent; otherwise the laptop is dialled and  *)
(* the line written, or the laptop is unreachable.                         *)
open_target(c) ==
    /\ sender[c].pc = "new"
    /\ \/ Exit(c, FALSE) /\ UNCHANGED handler
       \/ \E ask \in Asks[c] :
            /\ sender' = [sender EXCEPT ![c] = [NoSender EXCEPT
                            !.pc = "await", !.url = ask.url, !.origin = ask.origin]]
            /\ handler' = [handler EXCEPT ![c].pc = "accept"]
    /\ UNCHANGED <<cfg, notifier, recent, permits>>

(* The one line that comes back, or the end of the connection.             *)
Outcome_from_wire(c) ==
    /\ sender[c].pc = "await" /\ handler[c].pc = "closed"
    /\ Exit(c, handler[c].reply = "opened")
    /\ UNCHANGED <<cfg, handler, notifier, recent, permits>>

(* OUTCOME_TIMEOUT.                                                        *)
outcome_timeout(c) ==
    /\ sender[c].pc = "await" /\ handler[c].pc # "closed"
    /\ Exit(c, FALSE)
    /\ UNCHANGED <<cfg, handler, notifier, recent, permits>>

-----------------------------------------------------------------------------
Goto(c, pc) == handler' = [handler EXCEPT ![c].pc = pc]
Close(c, reply) == handler' = [handler EXCEPT ![c] = [@ EXCEPT !.pc = "closed", !.reply = reply]]

(* A legacy configuration with one peer also admits the laptop itself.     *)
authorized(remote) == (~ cfg.multi /\ remote \in Loopback) \/ remote \in cfg.peers

(* daemon::run: an address that is not admitted gets no thread; a thread   *)
(* that cannot start drops the connection too.                             *)
accept(c) ==
    /\ handler[c].pc = "accept"
    /\ \/ Close(c, None)
       \/ authorized(sender[c].origin) /\ Goto(c, "read")
    /\ UNCHANGED <<cfg, sender, notifier, recent, permits>>

(* request::read_request gives nothing when no whole line came in time, or *)
(* no http(s) URL was in it: the thread ends without an answer.            *)
read_request(c) == Close(c, None)

(* handle_connection: a callback port that cannot be leased refuses the    *)
(* URL, and the allowlist decides about the rest.                          *)
handle_connection(c) ==
    /\ handler[c].pc = "read"
    /\ \/ read_request(c)
       \/ Close(c, "refused")
       \/ Goto(c, IF decide(sender[c].origin, sender[c].url) THEN "open"
                  ELSE IF cfg.notifier THEN "notify" ELSE "builtin")
    /\ UNCHANGED <<cfg, sender, notifier, recent, permits>>

(* A process ends, and may leave one behind that holds what it inherited.  *)
Ends(c, pc) ==
    \E survivor \in BOOLEAN :
        notifier' = [notifier EXCEPT ![c] = [@ EXCEPT !.pc = pc, !.survivor = survivor]]

(* notify_builtin: the clipboard tool is started, if there is one and it   *)
(* starts, and the URL written to it; the notification is not waited for.  *)
copy_url(c) ==
    /\ handler[c].pc = "builtin"
    /\ \/ Close(c, "notified") /\ UNCHANGED notifier
       \/ /\ cfg.clipboard
          /\ Goto(c, "copy")
          /\ notifier' = [notifier EXCEPT ![c].pc = "copying"]
    /\ UNCHANGED <<cfg, sender, recent, permits>>

clipboard_exits(c) ==
    /\ notifier[c].pc = "copying"
    /\ Ends(c, "copied")
    /\ UNCHANGED <<cfg, sender, handler, recent, permits>>

(* A bug: the clipboard tool's output is piped and read to its end, which  *)
(* the process that owns the selection holds open.                         *)
WaitPiped(c) ==
    /\ handler[c].pc = "copy" /\ notifier[c].pc = "copied" /\ ~notifier[c].survivor
    /\ Close(c, "notified")
    /\ UNCHANGED <<cfg, sender, notifier, recent, permits>>

(* The tool is waited for without a limit, but not the process it leaves   *)
(* behind to own the selection, which holds no pipe of the thread's.       *)
wait(c) ==
    /\ handler[c].pc = "copy" /\ notifier[c].pc = "copied"
    /\ Close(c, "notified")
    /\ UNCHANGED <<cfg, sender, notifier, recent, permits>>

(* notify_with_approval runs the configured notifier.                      *)
run_command(c) ==
    /\ handler[c].pc = "notify"
    /\ \/ Close(c, "notified") /\ UNCHANGED notifier          \* spawn failed
       \/ /\ Goto(c, "wait")
          /\ notifier' = [notifier EXCEPT ![c].pc = "shown"]
    /\ UNCHANGED <<cfg, sender, recent, permits>>

(* The user answers: the notifier prints `default` or something else.      *)
answered(c) ==
    /\ notifier[c].pc = "shown"
    /\ \E out \in {"default", "declined"} :
          notifier' = [notifier EXCEPT ![c] = [@ EXCEPT !.pc = "answered", !.out = out]]
    /\ UNCHANGED <<cfg, sender, handler, recent, permits>>

notifier_exits(c) ==
    /\ notifier[c].pc \in {"shown", "answered"}
    /\ \E status \in {"exited", "failed"} : Ends(c, status)
    /\ UNCHANGED <<cfg, sender, handler, recent, permits>>

(* The poll finds the process gone, or its time over: it is then killed,   *)
(* but no process that it started.                                         *)
try_wait(c) ==
    /\ handler[c].pc = "wait"
    /\ \/ notifier[c].pc \in {"exited", "failed"} /\ Goto(c, "collect") /\ UNCHANGED notifier
       \/ notifier[c].pc \in {"shown", "answered"} /\ Goto(c, "collect") /\ Ends(c, "killed")
    /\ UNCHANGED <<cfg, sender, recent, permits>>

(* Only a successful exit within the time, with `default` printed.         *)
Approves(n) == n.pc = "exited" /\ n.out = "default"

(* collect_output joins the readers, which end when nothing holds the      *)
(* pipes any more; reading may have failed.                                *)
collect_output(c) ==
    /\ handler[c].pc = "collect" /\ ~notifier[c].survivor
    /\ \/ Close(c, "notified")
       \/ Approves(notifier[c]) /\ Goto(c, "open")
    /\ UNCHANGED <<cfg, sender, notifier, recent, permits>>

survivor_ends(c) ==
    /\ notifier[c].survivor
    /\ notifier' = [notifier EXCEPT ![c].survivor = FALSE]
    /\ UNCHANGED <<cfg, sender, handler, recent, permits>>

(* Whose open the limiter counts: the connection's own devbox, or the one  *)
(* a legacy configuration names, if it names one.                          *)
peer_ip(origin) ==
    IF cfg.multi THEN origin
    ELSE IF cfg.peers = {} THEN None ELSE CHOOSE p \in cfg.peers : TRUE

(* open_permitted_url and open_url: the limiter, then the opener, which    *)
(* may be missing or fail to start; the reply is the same.                 *)
open_permitted_url(c) ==
    /\ handler[c].pc = "open"
    /\ LET url == sender[c].url  origin == peer_ip(sender[c].origin) IN
       IF Dropped(url, origin)
       THEN recent' = Fresh /\ UNCHANGED permits
       ELSE /\ recent' = Recorded(url, origin)
            /\ permits' = Append(permits, [url |-> url, origin |-> origin, conn |-> c, age |-> 0])
    /\ Close(c, "opened")
    /\ UNCHANGED <<cfg, sender, notifier>>

Older(e) == [e EXCEPT !.age = IF @ < OPEN_WINDOW THEN @ + 1 ELSE @]

Tick ==
    /\ recent' = [i \in DOMAIN recent |-> Older(recent[i])]
    /\ permits' = [i \in DOMAIN permits |-> Older(permits[i])]
    /\ UNCHANGED <<cfg, sender, handler, notifier>>

Sends(c) == open_target(c) \/ Outcome_from_wire(c) \/ outcome_timeout(c)
Handles(c) ==
    \/ accept(c) \/ handle_connection(c) \/ copy_url(c) \/ wait(c)
    \/ run_command(c) \/ try_wait(c) \/ collect_output(c) \/ open_permitted_url(c)

Next ==
    \/ \E c \in Conns : Sends(c) \/ Handles(c)
    \/ \E c \in Conns :
          answered(c) \/ notifier_exits(c) \/ clipboard_exits(c) \/ survivor_ends(c)
    \/ Tick

(* Both ends run on; a user need not answer, and neither a clipboard tool  *)
(* nor a process left behind need end.                                     *)
Spec ==
    /\ Init /\ [][Next]_vars
    /\ \A c \in Conns : WF_vars(Sends(c)) /\ WF_vars(Handles(c))

-----------------------------------------------------------------------------
(* The opens of a devbox's URL that are within one window, among the last  *)
(* MAX_TRACKED.                                                            *)
InWindow(url, origin) ==
    {i \in DOMAIN permits :
        /\ permits[i].age < OPEN_WINDOW /\ Len(permits) - i < MAX_TRACKED
        /\ SameOpen(permits[i], url, origin)}

(* Opener loops are cut: among the last MAX_TRACKED opens, no devbox's URL *)
(* opened more than MAX_OPENS times within one window.                     *)
LoopBounded ==
    \A i \in DOMAIN permits :
        Cardinality(InWindow(permits[i].url, permits[i].origin)) <= MAX_OPENS

(* The segments of a path, each with its place.                            *)
SegmentEnd(path, i) ==
    CHOOSE e \in i + 1 .. Len(path) + 1 :
        /\ e = Len(path) + 1 \/ path[e] = Slash
        /\ \A j \in i + 1 .. e - 1 : path[j] # Slash

Segments(path) ==
    {<<i, SubSeq(path, i + 1, SegmentEnd(path, i) - 1)>> :
        i \in {0} \cup {j \in 1 .. Len(path) : path[j] = Slash}}

(* What the user lets a devbox open unasked: anything without a gate, its  *)
(* own file previews, and what an allowlist entry names, the path by whole *)
(* segments, so that an entry for /a does not stand for /ab.               *)
Unasked(origin, url) ==
    \/ cfg.mode = "auto"
    \/ /\ cfg.multi /\ url.port = FILES_PORT
       /\ normalize_loopback_alias(url.host) = normalize_loopback_alias(origin)
    \/ \E pattern \in cfg.allow :
         /\ pattern.port \in {None, url.port}
         /\ HostMatches(normalize_loopback_alias(pattern.host), normalize_loopback_alias(url.host))
         /\ trim_end(pattern.path) # <<>> =>
               Segments(<<Slash>> \o trim_end(pattern.path)) \subseteq Segments(url.path)

(* Nothing opens without leave: a URL that its devbox may not open unasked *)
(* opens only after a notifier that ended by itself, successfully and      *)
(* before its deadline, printed the approval.                              *)
OpensWithLeave ==
    \A i \in DOMAIN permits :
        \/ Unasked(permits[i].origin, permits[i].url)
        \/ notifier[permits[i].conn].pc = "exited" /\ notifier[permits[i].conn].out = "default"

(* What can hold a thread for ever: a clipboard tool that does not exit,   *)
(* or a process that the notifier left behind and that keeps its pipes.    *)
Held(c) ==
    \/ handler[c].pc = "copy" /\ notifier[c].pc = "copying"
    \/ handler[c].pc = "collect" /\ notifier[c].survivor

(* The laptop's thread ends, although its user need not answer and the     *)
(* process that owns the clipboard's selection lives on; only the two      *)
(* processes that the code waits for without a limit can keep it, and they *)
(* have to keep it for ever.                                               *)
OpensEnd ==
    \A c \in Conns : handler[c].pc = "accept" ~> (handler[c].pc = "closed" \/ []Held(c))

=============================================================================
