---------------------------- MODULE OpenUrlProof ----------------------------
(***************************************************************************)
(* Proofs about opening URLs, for any number of runs of `forward open`,    *)
(* any URLs, allowlists and configurations, and any limits.                *)
(***************************************************************************)
EXTENDS OpenUrl, FiniteSetTheorems, TLAPS

\* Zenon is the default prover of this module; a leaf that needs arithmetic,
\* records or a longer search says SMT.
USE Zenon

Sender == [pc : {"new", "await", "exited"}, url : Urls \cup {None},
           origin : Addresses \cup {None}, exit : {None, "zero", "error"}]
Handler == [pc : {"none", "accept", "read", "open", "notify", "builtin", "copy", "wait",
                  "collect", "closed"},
            reply : {None, "refused", "notified", "opened"}]
Notifier == [pc : {"none", "copying", "copied", "shown", "answered", "exited", "failed",
                   "killed"},
             out : {None, "default", "declined"}, survivor : BOOLEAN]
Entry == [url : Urls, origin : Addresses \cup {None}, age : Nat]
Permit == [url : Urls, origin : Addresses \cup {None}, conn : Conns, age : Nat]

\* Every variable has its type, and a handler thread serves a run that has
\* sent its URL.
OpenTypeOK ==
    /\ cfg \in Configs
    /\ sender \in [Conns -> Sender]
    /\ handler \in [Conns -> Handler]
    /\ notifier \in [Conns -> Notifier]
    /\ recent \in Seq(Entry)
    /\ permits \in Seq(Permit)
    /\ \A c \in Conns : handler[c].pc # "none" =>
          sender[c].pc # "new" /\ sender[c].url \in Urls /\ sender[c].origin \in Addresses

(***************************************************************************)
(* The limiter's entries are the last opens, oldest first, with all of the *)
(* last MAX_TRACKED that are still within the window among them.           *)
(***************************************************************************)
Latest(es, ps) ==
    LET before == Len(ps) - Len(es) IN
    /\ Len(es) <= Len(ps) /\ Len(es) <= MAX_TRACKED
    /\ \A i \in 1 .. Len(es) : /\ SameOpen(ps[before + i], es[i].url, es[i].origin)
                               /\ ps[before + i].age = es[i].age
    /\ \A i \in 1 .. Len(ps), j \in 1 .. Len(ps) : i <= j => ps[j].age <= ps[i].age
    /\ \A i \in 1 .. before : ps[i].age >= OPEN_WINDOW \/ Len(ps) - i >= MAX_TRACKED

RecentIsLatest == Latest(recent, permits)

(***************************************************************************)
(* A handler about to open has leave, and what gave the leave stays.       *)
(***************************************************************************)
Leave(c, origin, url) == Unasked(origin, url) \/ Approves(notifier[c])

LeaveInv ==
    /\ \A c \in Conns : handler[c].pc = "open" =>
          Leave(c, peer_ip(sender[c].origin), sender[c].url)
    /\ \A i \in DOMAIN permits :
          /\ handler[permits[i].conn].pc = "closed"
          /\ Leave(permits[i].conn, permits[i].origin, permits[i].url)

-----------------------------------------------------------------------------
(***************************************************************************)
(* What the operators compute.                                             *)
(***************************************************************************)
LEMMA Least ==
    ASSUME NEW T \in SUBSET Nat, T # {}
    PROVE  \E n \in T : \A m \in T : n <= m
<1>1. IsWellFoundedOn(OpToRel(<, Nat), Nat)
  BY NatLessThanWellFounded
<1>2. PICK n \in T : \A m \in T : ~ (<<m, n>> \in OpToRel(<, Nat))
  BY <1>1, WFMin
<1>3. \A a, b \in Nat : a < b => <<a, b>> \in OpToRel(<, Nat)
  BY SMT DEF OpToRel
<1>4. \A m \in T : ~ (m < n)
  BY <1>2, <1>3
<1> QED
  BY <1>4, SMT

LEMMA Greatest ==
    ASSUME NEW T \in SUBSET Nat, T # {}, NEW b \in Nat, \A m \in T : m <= b
    PROVE  \E n \in T : \A m \in T : m <= n
<1> DEFINE D == {b - m : m \in T}
<1>a. \A m \in T : b - m \in Nat
  BY SMT
<1>1. D \in SUBSET Nat /\ D # {}
  BY <1>a
<1>2. PICK d \in D : \A x \in D : d <= x
  BY <1>1, Least
<1>3. PICK n \in T : d = b - n
  BY <1>2
<1>4. \A m \in T : b - n <= b - m
  BY <1>2, <1>3
<1> QED
  BY <1>3, <1>4, SMT

LEMMA TableIsSeq ==
    ASSUME NEW S, NEW m \in Nat, NEW f \in [1 .. m -> S]
    PROVE  f \in Seq(S) /\ Len(f) = m
  BY SMT

\* Retaining all places after the k-th keeps the sequence from there on.
LEMMA RetainSuffix ==
    ASSUME NEW S, NEW es \in Seq(S), NEW k \in 0 .. Len(es)
    PROVE  LET kept == retain(es, k + 1 .. Len(es)) IN
           /\ kept \in Seq(S) /\ Len(kept) = Len(es) - k
           /\ \A n \in 1 .. Len(es) - k : kept[n] = es[k + n]
<1> DEFINE at == k + 1 .. Len(es)
           nth(n) == CHOOSE i \in at : Cardinality({j \in at : j <= i}) = n
<1>1. Len(es) \in Nat /\ k \in Nat /\ k <= Len(es)
  BY SMT
<1>2. Cardinality(at) = Len(es) - k
  <2>1. k + 1 \in Int /\ Len(es) \in Int
    BY <1>1, SMT
  <2>2. PICK n : n = Cardinality(k + 1 .. Len(es))
    OBVIOUS
  <2>3. n = IF k + 1 > Len(es) THEN 0 ELSE Len(es) - (k + 1) + 1
    BY <2>1, <2>2, FS_Interval
  <2>4. n = Len(es) - k
    BY <1>1, <2>3, SMT
  <2> QED
    BY <2>2, <2>4
<1>3. ASSUME NEW i \in at
      PROVE  Cardinality({j \in at : j <= i}) = i - k
  <2>1. {j \in at : j <= i} = k + 1 .. i
    BY <1>1, SMT
  <2>2. i \in Int /\ k + 1 \in Int /\ i >= k + 1
    BY <1>1, SMT
  <2>3. Cardinality(k + 1 .. i) = IF k + 1 > i THEN 0 ELSE i - (k + 1) + 1
    BY <2>2, FS_Interval
  <2>4. (IF k + 1 > i THEN 0 ELSE i - (k + 1) + 1) = i - k
    BY <1>1, <2>2, SMT
  <2> QED
    BY <2>1, <2>3, <2>4
<1>4. ASSUME NEW n \in 1 .. Len(es) - k
      PROVE  nth(n) = k + n
  <2>1. k + n \in at /\ (k + n) - k = n
    BY <1>1, SMT
  <2>2. Cardinality({j \in at : j <= k + n}) = n
    BY <1>3, <2>1
  <2>3. nth(n) \in at /\ Cardinality({j \in at : j <= nth(n)}) = n
    BY <2>1, <2>2
  <2>4. nth(n) - k = n
    BY <1>3, <2>3
  <2>5. \A m \in at : m - k = n => m = k + n
    BY <1>1, SMT
  <2> QED
    BY <2>3, <2>4, <2>5
<1>5. retain(es, at) = [n \in 1 .. Len(es) - k |-> es[nth(n)]]
  BY <1>2 DEF retain
<1> HIDE DEF nth
<1>6. retain(es, at) = [n \in 1 .. Len(es) - k |-> es[k + n]]
  BY <1>4, <1>5
<1>7. \A n \in 1 .. Len(es) - k : es[k + n] \in S
  BY <1>1, SMT
<1>8. retain(es, at) \in [1 .. Len(es) - k -> S]
  BY <1>6, <1>7
<1>9. Len(es) - k \in Nat
  BY <1>1, SMT
<1>10. retain(es, at) \in Seq(S) /\ Len(retain(es, at)) = Len(es) - k
  BY <1>8, <1>9, TableIsSeq
<1>11. \A n \in 1 .. Len(es) - k : retain(es, at)[n] = es[k + n]
  BY <1>6
<1> QED
  BY <1>10, <1>11

\* The trimmed prefix is a path.
LEMMA TrimOK ==
    ASSUME NEW prefix \in Seq(Chars)
    PROVE  trim_end(prefix) \in Seq(Chars)
<1> DEFINE kept == {0} \cup {i \in 1 .. Len(prefix) : prefix[i] # Slash}
           last == CHOOSE n \in kept : \A i \in kept : i <= n
<1>1. Len(prefix) \in Nat /\ kept \in SUBSET Nat /\ 0 \in kept /\ \A i \in kept : i <= Len(prefix)
  BY SMT
<1>2. \E n \in kept : \A i \in kept : i <= n
  BY <1>1, Greatest
<1>3. last \in Nat /\ last <= Len(prefix)
  BY <1>1, <1>2
<1>4. trim_end(prefix) = SubSeq(prefix, 1, last)
  BY DEF trim_end
<1> HIDE DEF last
<1> QED
  BY <1>1, <1>3, <1>4, SMT

\* Every place of a path has one end of the segment after it.
IsEnd(path, i, e) ==
    /\ e \in i + 1 .. Len(path) + 1
    /\ e = Len(path) + 1 \/ path[e] = Slash
    /\ \A j \in i + 1 .. e - 1 : path[j] # Slash

LEMMA EndOK ==
    ASSUME NEW path \in Seq(Chars), NEW i \in 0 .. Len(path)
    PROVE  IsEnd(path, i, SegmentEnd(path, i))
<1> DEFINE T == {e \in i + 1 .. Len(path) + 1 : e = Len(path) + 1 \/ path[e] = Slash}
<1>1. Len(path) \in Nat /\ i \in Nat /\ T \in SUBSET Nat /\ Len(path) + 1 \in T
  BY SMT
<1>2. PICK e \in T : \A m \in T : e <= m
  BY <1>1, Least
<1>3. \A j \in i + 1 .. e - 1 : path[j] # Slash
  BY <1>1, <1>2, SMT
<1>4. /\ e \in i + 1 .. Len(path) + 1
      /\ e = Len(path) + 1 \/ path[e] = Slash
  BY <1>2
<1> QED
  BY <1>3, <1>4 DEF IsEnd, SegmentEnd

LEMMA EndUnique ==
    ASSUME NEW path \in Seq(Chars), NEW i \in 0 .. Len(path), NEW d, NEW e,
           IsEnd(path, i, d), IsEnd(path, i, e)
    PROVE  d = e
  BY SMT DEF IsEnd

\* A path that equals q, or goes on after it with a slash, has the segments
\* of q where q has them.
LEMMA WholeSegments ==
    ASSUME NEW q \in Seq(Chars), NEW path \in Seq(Chars),
           path = q \/ starts_with(path, q \o <<Slash>>)
    PROVE  Segments(q) \subseteq Segments(path)
<1>1. /\ Len(q) \in Nat /\ Len(path) \in Nat /\ Len(q) <= Len(path)
      /\ \A j \in 1 .. Len(q) : path[j] = q[j]
      /\ Len(path) = Len(q) \/ (Len(q) + 1 <= Len(path) /\ path[Len(q) + 1] = Slash)
  <2>1. CASE path = q
    BY <2>1, SMT
  <2>2. CASE starts_with(path, q \o <<Slash>>)
    <3>1. PICK r : r = q \o <<Slash>>
      OBVIOUS
    <3>2. /\ Len(r) = Len(q) + 1 /\ r[Len(q) + 1] = Slash
          /\ \A j \in 1 .. Len(q) : r[j] = q[j]
      BY <3>1, OpenConstants, SMT
    <3>3. Len(r) <= Len(path) /\ \A j \in 1 .. Len(r) : path[j] = r[j]
      BY <2>2, <3>1 DEF starts_with
    <3> QED
      BY <3>2, <3>3, SMT
  <2> QED
    BY <2>1, <2>2
<1>2. ASSUME NEW i \in {0} \cup {j \in 1 .. Len(q) : q[j] = Slash}
      PROVE  <<i, SubSeq(q, i + 1, SegmentEnd(q, i) - 1)>> \in Segments(path)
  <2>1. /\ i \in 0 .. Len(q) /\ i \in 0 .. Len(path)
        /\ i \in {0} \cup {j \in 1 .. Len(path) : path[j] = Slash}
    BY <1>1, SMT
  <2>2. PICK e : e = SegmentEnd(q, i)
    OBVIOUS
  <2>3. IsEnd(q, i, e)
    BY <2>1, <2>2, EndOK
  <2>4. IsEnd(path, i, e)
    <3>1. /\ e \in Nat /\ e \in i + 1 .. Len(q) + 1 /\ e \in i + 1 .. Len(path) + 1
      BY <1>1, <2>1, <2>3, SMT DEF IsEnd
    <3>2. e = Len(path) + 1 \/ path[e] = Slash
      <4>1. CASE e = Len(q) + 1
        BY <1>1, <4>1
      <4>2. CASE e # Len(q) + 1
        <5>1. e \in 1 .. Len(q)
          BY <1>1, <2>1, <3>1, <4>2, SMT
        <5> QED
          BY <1>1, <2>3, <4>2, <5>1 DEF IsEnd
      <4> QED
        BY <4>1, <4>2
    <3>3. ASSUME NEW j \in i + 1 .. e - 1 PROVE path[j] # Slash
      <4>1. j \in 1 .. Len(q)
        BY <1>1, <2>1, <3>1, <3>3, SMT
      <4> QED
        BY <1>1, <2>3, <4>1 DEF IsEnd
    <3> QED
      BY <3>1, <3>2, <3>3 DEF IsEnd
  <2>5. e = SegmentEnd(path, i)
    BY <2>1, <2>4, EndOK, EndUnique
  <2>6. SubSeq(q, i + 1, e - 1) = SubSeq(path, i + 1, e - 1)
    <3>1. e - 1 <= Len(q) /\ i + 1 \in Nat /\ e - 1 \in Nat
      BY <1>1, <2>1, <2>3, SMT DEF IsEnd
    <3> HIDE <2>3, <2>4
    <3> QED
      BY <1>1, <3>1, SMTT(30)
  <2> QED
    BY <2>1, <2>2, <2>5, <2>6 DEF Segments
<1> QED
  BY <1>2 DEF Segments

LEMMA Prepended ==
    ASSUME NEW S, NEW x \in S, NEW q \in Seq(S)
    PROVE  <<x>> \o q \in Seq(S)
<1>1. <<x>> \in Seq(S)
  BY SMT
<1> QED
  BY <1>1, SMT

\* An allowlist entry's path stands for whole segments.
LEMMA PathsBySegment ==
    ASSUME NEW prefix \in Seq(Chars), NEW path \in Seq(Chars),
           PathMatches(prefix, path), trim_end(prefix) # <<>>
    PROVE  Segments(<<Slash>> \o trim_end(prefix)) \subseteq Segments(path)
<1>1. PICK p \in Seq(Chars) : p = trim_end(prefix)
  BY TrimOK
<1>2. <<Slash>> \o p \in Seq(Chars)
  <2>1. Slash \in Chars
    BY OpenConstants
  <2> QED
    BY <2>1, Prepended
<1>3. path = <<Slash>> \o p \/ starts_with(path, <<Slash>> \o p \o <<Slash>>)
  BY <1>1 DEF PathMatches
<1> QED
  BY <1>1, <1>2, <1>3, WholeSegments

\* A host without wildcards matches itself only.
LEMMA LiteralHost ==
    ASSUME NEW pattern \in Seq(Labels \ {"*"}), NEW host \in Seq(Labels),
           HostMatches(pattern, host)
    PROVE  host = pattern
  BY SMT DEF HostMatches

LEMMA AliasOK ==
    ASSUME NEW S, NEW host \in Seq(S), "localhost" \in S
    PROVE  normalize_loopback_alias(host) \in Seq(S)
<1>1. <<"localhost">> \in Seq(S)
  BY SMT
<1> QED
  BY <1>1 DEF normalize_loopback_alias

\* What the laptop opens without asking, it may.
LEMMA DecidedIsUnasked ==
    ASSUME cfg \in Configs, NEW origin \in Addresses, NEW url \in Urls, decide(origin, url)
    PROVE  Unasked(peer_ip(origin), url)
<1>1. CASE cfg.mode = "auto"
  BY <1>1 DEF Unasked
<1>2. CASE cfg.mode # "auto"
  <2>1. PICK pattern \in origin_config(origin) : allow_matches(pattern, url)
    BY <1>2 DEF decide
  <2>u. url.path \in Seq(Chars) /\ url.host \in Seq(Labels)
    BY OpenConstants
  <2>2. CASE pattern \in cfg.allow
    <3>1. pattern.path \in Seq(Chars)
      BY <2>2, OpenConstants DEF Config, Pattern
    <3>2. trim_end(pattern.path) # <<>> =>
            Segments(<<Slash>> \o trim_end(pattern.path)) \subseteq Segments(url.path)
      BY <2>1, <2>u, <3>1, PathsBySegment DEF allow_matches
    <3> QED
      BY <2>1, <2>2, <3>2 DEF allow_matches, Unasked
  <2>3. CASE pattern \notin cfg.allow
    <3>1. cfg.multi /\ pattern = Preview(origin)
      BY <2>3 DEF origin_config
    <3>2. pattern.host = origin /\ pattern.port = FILES_PORT
      BY <3>1 DEF Preview
    <3>3. /\ normalize_loopback_alias(origin) \in Seq(Labels \ {"*"})
          /\ normalize_loopback_alias(url.host) \in Seq(Labels)
      <4>1. origin \in Seq(Labels \ {"*"})
        BY OpenConstants
      <4>2. "localhost" \in Labels \ {"*"} /\ "localhost" \in Labels
        <5>1. "localhost" \in Labels
          BY OpenConstants
        <5>2. "localhost" # "*"
          OBVIOUS
        <5> QED
          BY <5>1, <5>2
      <4> QED
        BY <2>u, <4>1, <4>2, AliasOK
    <3>4. normalize_loopback_alias(url.host) = normalize_loopback_alias(origin)
      BY <2>1, <3>2, <3>3, LiteralHost DEF allow_matches
    <3>5. url.port = FILES_PORT
      BY <2>1, <3>2, OpenConstants DEF allow_matches
    <3> QED
      BY <3>1, <3>4, <3>5 DEF Unasked, peer_ip
  <2> QED
    BY <2>2, <2>3
<1> QED
  BY <1>1, <1>2

-----------------------------------------------------------------------------
(***************************************************************************)
(* Types.                                                                  *)
(***************************************************************************)
LEMMA ExitOK ==
    ASSUME sender \in [Conns -> Sender], NEW c \in Conns, NEW ok, Exit(c, ok)
    PROVE  /\ sender' \in [Conns -> Sender]
           /\ \A d \in Conns : /\ sender'[d].url = sender[d].url
                               /\ sender'[d].origin = sender[d].origin
                               /\ sender[d].pc # "new" => sender'[d].pc # "new"
<1>1. PICK k : k = [sender[c] EXCEPT !.pc = "exited", !.exit = IF ok THEN "zero" ELSE "error"]
  OBVIOUS
<1>2. sender' = [sender EXCEPT ![c] = k]
  BY <1>1, SMT DEF Exit
<1>3. /\ k \in Sender /\ k.pc # "new"
      /\ k.url = sender[c].url /\ k.origin = sender[c].origin
  BY <1>1 DEF Sender
<1> QED
  BY <1>2, <1>3

LEMMA GotoOK ==
    ASSUME handler \in [Conns -> Handler], NEW c \in Conns,
           NEW pc \in {"accept", "read", "open", "notify", "builtin", "copy", "wait", "collect"},
           Goto(c, pc)
    PROVE  /\ handler' \in [Conns -> Handler]
           /\ handler'[c].pc = pc
           /\ \A d \in Conns : d # c => handler'[d] = handler[d]
<1>1. PICK k : k = [handler[c] EXCEPT !.pc = pc]
  OBVIOUS
<1>2. handler' = [handler EXCEPT ![c] = k]
  BY <1>1, SMT DEF Goto
<1>3. k \in Handler /\ k.pc = pc
  BY <1>1 DEF Handler
<1> QED
  BY <1>2, <1>3

LEMMA CloseOK ==
    ASSUME handler \in [Conns -> Handler], NEW c \in Conns,
           NEW reply \in {None, "refused", "notified", "opened"}, Close(c, reply)
    PROVE  /\ handler' \in [Conns -> Handler]
           /\ handler'[c].pc = "closed"
           /\ \A d \in Conns : d # c => handler'[d] = handler[d]
<1>1. PICK k : k = [handler[c] EXCEPT !.pc = "closed", !.reply = reply]
  OBVIOUS
<1>2. handler' = [handler EXCEPT ![c] = k]
  BY <1>1, SMT DEF Close
<1>3. k \in Handler /\ k.pc = "closed"
  BY <1>1 DEF Handler
<1> QED
  BY <1>2, <1>3

LEMMA NotifierOK ==
    ASSUME notifier \in [Conns -> Notifier], NEW c \in Conns,
           NEW pc \in {"copying", "shown"},
           notifier' = [notifier EXCEPT ![c].pc = pc]
    PROVE  /\ notifier' \in [Conns -> Notifier]
           /\ \A d \in Conns : d # c => notifier'[d] = notifier[d]
<1>1. PICK k : k = [notifier[c] EXCEPT !.pc = pc]
  OBVIOUS
<1>2. notifier' = [notifier EXCEPT ![c] = k]
  BY <1>1, SMT
<1>3. k \in Notifier
  BY <1>1 DEF Notifier
<1> QED
  BY <1>2, <1>3

LEMMA EndsOK ==
    ASSUME notifier \in [Conns -> Notifier], NEW c \in Conns,
           NEW pc \in {"copied", "exited", "failed", "killed"}, Ends(c, pc)
    PROVE  /\ notifier' \in [Conns -> Notifier]
           /\ \A d \in Conns : d # c => notifier'[d] = notifier[d]
<1>1. PICK survivor \in BOOLEAN :
        notifier' = [notifier EXCEPT ![c] = [@ EXCEPT !.pc = pc, !.survivor = survivor]]
  BY DEF Ends
<1>2. PICK k : k = [notifier[c] EXCEPT !.pc = pc, !.survivor = survivor]
  OBVIOUS
<1>3. notifier' = [notifier EXCEPT ![c] = k]
  BY <1>1, <1>2
<1>4. k \in Notifier
  BY <1>2 DEF Notifier
<1> QED
  BY <1>3, <1>4

\* The steps of a handler thread but the last: it goes on or ends, and its
\* sender and the limiter stay as they are.
Waits(c) ==
    \/ accept(c) \/ handle_connection(c) \/ copy_url(c) \/ wait(c)
    \/ run_command(c) \/ try_wait(c) \/ collect_output(c)

LEMMA WaitsOK ==
    ASSUME OpenTypeOK, NEW c \in Conns, Waits(c)
    PROVE  /\ handler' \in [Conns -> Handler] /\ notifier' \in [Conns -> Notifier]
           /\ handler[c].pc \notin {"none", "closed", "open"} /\ handler'[c].pc # "none"
           /\ \A d \in Conns : d # c => handler'[d] = handler[d] /\ notifier'[d] = notifier[d]
           /\ UNCHANGED <<cfg, sender, recent, permits>>
<1> USE DEF OpenTypeOK
<1>1. CASE accept(c)
  BY <1>1, GotoOK, CloseOK DEF accept
<1>2. CASE handle_connection(c)
  <2>1. CASE read_request(c) \/ Close(c, "refused")
    BY <1>2, <2>1, CloseOK DEF handle_connection, read_request
  <2>2. CASE ~ (read_request(c) \/ Close(c, "refused"))
    <3>1. PICK pc \in {"open", "notify", "builtin"} : Goto(c, pc)
      BY <1>2, <2>2 DEF handle_connection
    <3> QED
      BY <1>2, <3>1, GotoOK DEF handle_connection
  <2> QED
    BY <2>1, <2>2
<1>3. CASE copy_url(c)
  BY <1>3, CloseOK, GotoOK, NotifierOK DEF copy_url
<1>4. CASE run_command(c)
  BY <1>4, CloseOK, GotoOK, NotifierOK DEF run_command
<1>5. CASE try_wait(c)
  BY <1>5, GotoOK, EndsOK DEF try_wait
<1>6. CASE collect_output(c)
  BY <1>6, GotoOK, CloseOK DEF collect_output
<1>7. CASE wait(c)
  BY <1>7, CloseOK DEF wait
<1> QED
  BY <1>1, <1>2, <1>3, <1>4, <1>5, <1>6, <1>7 DEF Waits

\* What the outside does to a process of the thread's.
Outside(c) == answered(c) \/ notifier_exits(c) \/ clipboard_exits(c) \/ survivor_ends(c)

LEMMA OutsideOK ==
    ASSUME OpenTypeOK, NEW c \in Conns, Outside(c)
    PROVE  /\ notifier' \in [Conns -> Notifier]
           /\ \A d \in Conns : d # c => notifier'[d] = notifier[d]
           /\ Approves(notifier[c]) => Approves(notifier'[c])
           /\ UNCHANGED <<cfg, sender, handler, recent, permits>>
<1> USE DEF OpenTypeOK
<1>1. CASE answered(c)
  <2>1. PICK out \in {"default", "declined"} :
          notifier' = [notifier EXCEPT ![c] = [@ EXCEPT !.pc = "answered", !.out = out]]
    BY <1>1 DEF answered
  <2>2. PICK k : k = [notifier[c] EXCEPT !.pc = "answered", !.out = out]
    OBVIOUS
  <2>3. notifier' = [notifier EXCEPT ![c] = k]
    BY <2>1, <2>2
  <2>4. k \in Notifier
    BY <2>2 DEF Notifier
  <2>5. ~ Approves(notifier[c])
    BY <1>1 DEF answered, Approves
  <2> QED
    BY <1>1, <2>3, <2>4, <2>5 DEF answered
<1>2. CASE notifier_exits(c)
  <2>1. PICK pc \in {"exited", "failed"} : Ends(c, pc)
    BY <1>2 DEF notifier_exits
  <2>2. ~ Approves(notifier[c])
    BY <1>2 DEF notifier_exits, Approves
  <2> QED
    BY <1>2, <2>1, <2>2, EndsOK DEF notifier_exits
<1>3. CASE survivor_ends(c)
  <2>1. PICK k : k = [notifier[c] EXCEPT !.survivor = FALSE]
    OBVIOUS
  <2>2. notifier' = [notifier EXCEPT ![c] = k]
    BY <1>3, <2>1, SMT DEF survivor_ends
  <2>3. k \in Notifier /\ k.pc = notifier[c].pc /\ k.out = notifier[c].out
    BY <2>1 DEF Notifier
  <2> QED
    BY <1>3, <2>2, <2>3 DEF survivor_ends, Approves
<1>4. CASE clipboard_exits(c)
  <2>1. ~ Approves(notifier[c])
    BY <1>4 DEF clipboard_exits, Approves
  <2> QED
    BY <1>4, <2>1, EndsOK DEF clipboard_exits
<1> QED
  BY <1>1, <1>2, <1>3, <1>4 DEF Outside

\* The entries within the window are the last ones.
LEMMA FreshIsSuffix ==
    ASSUME recent \in Seq(Entry),
           \A i \in 1 .. Len(recent), j \in 1 .. Len(recent) :
              i <= j => recent[j].age <= recent[i].age
    PROVE  \E k \in 0 .. Len(recent) :
             /\ Fresh \in Seq(Entry) /\ Len(Fresh) = Len(recent) - k
             /\ \A n \in 1 .. Len(recent) - k : Fresh[n] = recent[k + n]
             /\ \A i \in 1 .. k : recent[i].age >= OPEN_WINDOW
             /\ \A i \in k + 1 .. Len(recent) : recent[i].age < OPEN_WINDOW
<1> DEFINE T == {0} \cup {i \in 1 .. Len(recent) : recent[i].age >= OPEN_WINDOW}
<1>1. /\ Len(recent) \in Nat /\ T \in SUBSET Nat /\ 0 \in T
      /\ \A i \in T : i <= Len(recent)
  BY SMT
<1>2. PICK k \in T : \A i \in T : i <= k
  BY <1>1, Greatest
<1>3. \A i \in 1 .. Len(recent) : recent[i].age \in Nat
  <2>1. \A i \in 1 .. Len(recent) : recent[i] \in Entry
    BY SMT
  <2> QED
    BY <2>1 DEF Entry
<1>4. k \in 0 .. Len(recent)
  BY <1>1, <1>2, SMT
<1>5. \A i \in 1 .. k : recent[i].age >= OPEN_WINDOW
  BY <1>1, <1>2, <1>3, OpenConstants, SMT
<1>6. \A i \in k + 1 .. Len(recent) : recent[i].age < OPEN_WINDOW
  BY <1>1, <1>2, <1>3, OpenConstants, SMT
<1>7. {i \in DOMAIN recent : recent[i].age < OPEN_WINDOW} = k + 1 .. Len(recent)
  BY <1>1, <1>3, <1>4, <1>5, <1>6, OpenConstants, SMT
<1>8. Fresh = retain(recent, k + 1 .. Len(recent))
  BY <1>7 DEF Fresh
<1> QED
  BY <1>4, <1>5, <1>6, <1>8, RetainSuffix

\* An entry joins the ones within the window; the oldest leaves a full list.
LEMMA RecordedOK ==
    ASSUME Fresh \in Seq(Entry), NEW url \in Urls, NEW origin \in Addresses \cup {None}
    PROVE  LET was == Len(Fresh)
               out == IF was = MAX_TRACKED THEN 1 ELSE 0
               now == Recorded(url, origin)
           IN  /\ now \in Seq(Entry) /\ Len(now) = was - out + 1
               /\ \A i \in 1 .. was - out : now[i] = Fresh[i + out]
               /\ now[was - out + 1] = [url |-> url, origin |-> origin, age |-> 0]
<1>1. PICK e \in Entry : e = [url |-> url, origin |-> origin, age |-> 0]
  BY DEF Entry
<1>2. PICK f \in Seq(Entry) : f = Fresh
  OBVIOUS
<1>3. PICK room : room = IF Len(f) = MAX_TRACKED THEN Tail(f) ELSE f
  OBVIOUS
<1>4. Recorded(url, origin) = Append(room, e)
  BY <1>1, <1>2, <1>3 DEF Recorded
<1>5. CASE Len(f) = MAX_TRACKED
  <2>1. f # <<>>
    BY <1>5, OpenConstants, SMT
  <2>2. /\ room \in Seq(Entry) /\ Len(room) = Len(f) - 1
        /\ \A i \in 1 .. Len(f) - 1 : room[i] = f[i + 1]
    BY <1>3, <1>5, <2>1, SMT
  <2>3. /\ Append(room, e) \in Seq(Entry) /\ Len(Append(room, e)) = Len(f) - 1 + 1
        /\ \A i \in 1 .. Len(f) - 1 : Append(room, e)[i] = f[i + 1]
        /\ Append(room, e)[Len(f) - 1 + 1] = e
    BY <2>2, SMT
  <2> QED
    BY <1>1, <1>2, <1>4, <1>5, <2>3
<1>6. CASE Len(f) # MAX_TRACKED
  <2>1. /\ Append(f, e) \in Seq(Entry) /\ Len(Append(f, e)) = Len(f) - 0 + 1
        /\ \A i \in 1 .. Len(f) - 0 : Append(f, e)[i] = f[i + 0]
        /\ Append(f, e)[Len(f) - 0 + 1] = e
    BY SMT
  <2> QED
    BY <1>1, <1>2, <1>3, <1>4, <1>6, <2>1
<1> QED
  BY <1>5, <1>6

LEMMA OlderOK ==
    ASSUME NEW e \in Entry \cup Permit
    PROVE  /\ e \in Entry => Older(e) \in Entry
           /\ e \in Permit => Older(e) \in Permit
           /\ Older(e).url = e.url /\ Older(e).origin = e.origin
           /\ e \in Permit => Older(e).conn = e.conn
           /\ e.age \in Nat
           /\ Older(e).age = IF e.age < OPEN_WINDOW THEN e.age + 1 ELSE e.age
<1>1. e.age \in Nat
  BY DEF Entry, Permit
<1>2. PICK a : a = IF e.age < OPEN_WINDOW THEN e.age + 1 ELSE e.age
  OBVIOUS
<1>3. a \in Nat
  BY <1>1, <1>2, SMT
<1>4. Older(e) = [e EXCEPT !.age = a]
  BY <1>2 DEF Older
<1> QED
  BY <1>1, <1>2, <1>3, <1>4 DEF Entry, Permit

LEMMA AllOlder ==
    ASSUME NEW S, S = Entry \/ S = Permit, NEW es \in Seq(S)
    PROVE  LET now == [i \in DOMAIN es |-> Older(es[i])] IN
           /\ now \in Seq(S) /\ Len(now) = Len(es)
           /\ \A i \in 1 .. Len(es) : now[i] = Older(es[i])
<1>1. Len(es) \in Nat /\ DOMAIN es = 1 .. Len(es) /\ \A i \in 1 .. Len(es) : es[i] \in S
  BY SMT
<1>2. \A i \in 1 .. Len(es) : Older(es[i]) \in S
  BY <1>1, OlderOK
<1>3. PICK now : now = [i \in DOMAIN es |-> Older(es[i])]
  OBVIOUS
<1>4. now \in [1 .. Len(es) -> S] /\ \A i \in 1 .. Len(es) : now[i] = Older(es[i])
  BY <1>1, <1>2, <1>3
<1>5. now \in Seq(S) /\ Len(now) = Len(es)
  BY <1>1, <1>4, SMT
<1> QED
  BY <1>3, <1>4, <1>5

-----------------------------------------------------------------------------
(***************************************************************************)
(* The limiter.                                                            *)
(***************************************************************************)
LEMMA Ages ==
    ASSUME NEW S, S = Entry \/ S = Permit, NEW es \in Seq(S)
    PROVE  \A i \in 1 .. Len(es) : es[i].age \in Nat
<1>1. \A i \in 1 .. Len(es) : es[i] \in S
  BY SMT
<1> QED
  BY <1>1 DEF Entry, Permit

LEMMA LatestIsSorted ==
    ASSUME NEW es \in Seq(Entry), NEW ps \in Seq(Permit), Latest(es, ps)
    PROVE  \A i \in 1 .. Len(es), j \in 1 .. Len(es) : i <= j => es[j].age <= es[i].age
<1> SUFFICES ASSUME NEW i \in 1 .. Len(es), NEW j \in 1 .. Len(es), i <= j
             PROVE  es[j].age <= es[i].age
  OBVIOUS
<1>1. PICK b : b = Len(ps) - Len(es)
  OBVIOUS
<1>2. Len(es) \in Nat /\ Len(ps) \in Nat /\ Len(es) <= Len(ps)
  BY SMT DEF Latest
<1>3. b + i \in 1 .. Len(ps) /\ b + j \in 1 .. Len(ps) /\ b + i <= b + j
  BY <1>1, <1>2, SMT
<1>4. ps[b + i].age = es[i].age /\ ps[b + j].age = es[j].age
  BY <1>1 DEF Latest
<1>5. ps[b + j].age <= ps[b + i].age
  BY <1>3 DEF Latest
<1> QED
  BY <1>4, <1>5

LEMMA LatestSuffix ==
    ASSUME NEW es \in Seq(Entry), NEW ps \in Seq(Permit), Latest(es, ps),
           NEW k \in 0 .. Len(es), NEW f \in Seq(Entry), Len(f) = Len(es) - k,
           \A n \in 1 .. Len(es) - k : f[n] = es[k + n],
           \A i \in 1 .. k : es[i].age >= OPEN_WINDOW
    PROVE  Latest(f, ps)
<1>1. Len(es) \in Nat /\ Len(ps) \in Nat /\ MAX_TRACKED \in Nat
  BY OpenConstants, SMT
<1>2. Len(f) <= Len(ps) /\ Len(f) <= MAX_TRACKED
  BY <1>1, SMT DEF Latest
<1>3. ASSUME NEW i \in 1 .. Len(f)
      PROVE  /\ SameOpen(ps[Len(ps) - Len(f) + i], f[i].url, f[i].origin)
             /\ ps[Len(ps) - Len(f) + i].age = f[i].age
  <2>1. /\ k + i \in 1 .. Len(es) /\ f[i] = es[k + i]
        /\ Len(ps) - Len(es) + (k + i) = Len(ps) - Len(f) + i
    BY <1>1, SMT
  <2> QED
    BY <2>1 DEF Latest
<1>4. ASSUME NEW i \in 1 .. Len(ps) - Len(f)
      PROVE  ps[i].age >= OPEN_WINDOW \/ Len(ps) - i >= MAX_TRACKED
  <2>1. CASE i <= Len(ps) - Len(es)
    BY <1>1, <2>1, SMT DEF Latest
  <2>2. CASE i > Len(ps) - Len(es)
    <3>1. PICK j \in 1 .. k : i = Len(ps) - Len(es) + j
      <4>1. i - (Len(ps) - Len(es)) \in 1 .. k
        BY <1>1, <2>2, SMT
      <4>2. i = Len(ps) - Len(es) + (i - (Len(ps) - Len(es)))
        BY <1>1, SMT
      <4> QED
        BY <4>1, <4>2
    <3>2. j \in 1 .. Len(es)
      BY <1>1, SMT
    <3>3. ps[i].age = es[j].age /\ es[j].age >= OPEN_WINDOW
      BY <3>1, <3>2 DEF Latest
    <3> QED
      BY <3>3
  <2> QED
    BY <1>1, <2>1, <2>2, SMT
<1> QED
  BY <1>2, <1>3, <1>4 DEF Latest

LEMMA LatestRecord ==
    ASSUME NEW f \in Seq(Entry), NEW ps \in Seq(Permit), Latest(f, ps),
           NEW out \in {0, 1}, (out = 1) <=> (Len(f) = MAX_TRACKED),
           NEW e \in Entry, e.age = 0, NEW p \in Permit,
           SameOpen(p, e.url, e.origin), p.age = 0,
           NEW now \in Seq(Entry), Len(now) = Len(f) - out + 1,
           \A i \in 1 .. Len(f) - out : now[i] = f[i + out], now[Len(f) - out + 1] = e
    PROVE  Latest(now, Append(ps, p))
<1>1. /\ Len(f) \in Nat /\ Len(ps) \in Nat /\ out \in Nat
      /\ MAX_TRACKED \in Nat /\ MAX_TRACKED >= 1
  BY OpenConstants, SMT
<1>2. PICK qs \in Seq(Permit) : qs = Append(ps, p)
  <2>1. Append(ps, p) \in Seq(Permit)
    BY SMT
  <2> QED
    BY <2>1
<1>3. /\ Len(qs) = Len(ps) + 1 /\ qs[Len(ps) + 1] = p
      /\ \A i \in 1 .. Len(ps) : qs[i] = ps[i]
  BY <1>2, SMT
<1>4. Len(now) <= Len(qs) /\ Len(now) <= MAX_TRACKED
  BY <1>1, <1>3, SMT DEF Latest
<1>5. ASSUME NEW i \in 1 .. Len(now)
      PROVE  /\ SameOpen(qs[Len(qs) - Len(now) + i], now[i].url, now[i].origin)
             /\ qs[Len(qs) - Len(now) + i].age = now[i].age
  <2>1. CASE i = Len(now)
    <3>1. Len(qs) - Len(now) + i = Len(ps) + 1 /\ now[i] = e
      BY <1>1, <1>3, <2>1, SMT
    <3> QED
      BY <1>3, <3>1
  <2>2. CASE i # Len(now)
    <3>1. /\ i \in 1 .. Len(f) - out /\ i + out \in 1 .. Len(f)
          /\ Len(qs) - Len(now) + i = Len(ps) - Len(f) + (i + out)
          /\ Len(ps) - Len(f) + (i + out) \in 1 .. Len(ps)
      BY <1>1, <1>3, <2>2, SMT DEF Latest
    <3>2. now[i] = f[i + out]
      BY <3>1
    <3> QED
      BY <1>3, <3>1, <3>2, ZenonT(60) DEF Latest
  <2> QED
    BY <2>1, <2>2
<1>6. ASSUME NEW i \in 1 .. Len(qs), NEW j \in 1 .. Len(qs), i <= j
      PROVE  qs[j].age <= qs[i].age
  <2>1. \A n \in 1 .. Len(qs) : qs[n].age \in Nat
    BY <1>2, Ages
  <2>2. CASE j = Len(ps) + 1
    BY <1>3, <2>1, <2>2, SMT
  <2>3. CASE j # Len(ps) + 1
    <3>1. i \in 1 .. Len(ps) /\ j \in 1 .. Len(ps)
      BY <1>1, <1>3, <1>6, <2>3, SMT
    <3> QED
      BY <1>3, <1>6, <3>1 DEF Latest
  <2> QED
    BY <2>2, <2>3
<1>7. ASSUME NEW i \in 1 .. Len(qs) - Len(now)
      PROVE  qs[i].age >= OPEN_WINDOW \/ Len(qs) - i >= MAX_TRACKED
  <2>1. i \in 1 .. Len(ps) /\ qs[i] = ps[i]
    BY <1>1, <1>3, SMT
  <2>2. CASE i \in 1 .. Len(ps) - Len(f)
    <3>1. ps[i].age >= OPEN_WINDOW \/ Len(ps) - i >= MAX_TRACKED
      BY <2>2 DEF Latest
    <3>2. Len(ps) - i >= MAX_TRACKED => Len(qs) - i >= MAX_TRACKED
      BY <1>1, <1>3, <2>1, SMT
    <3> QED
      BY <2>1, <3>1, <3>2
  <2>3. CASE i \notin 1 .. Len(ps) - Len(f)
    BY <1>1, <1>3, <2>3, SMT
  <2> QED
    BY <2>2, <2>3
<1> QED
  BY <1>2, <1>4, <1>5, <1>6, <1>7 DEF Latest

LEMMA LatestOlder ==
    ASSUME NEW es \in Seq(Entry), NEW ps \in Seq(Permit), Latest(es, ps),
           NEW fs \in Seq(Entry), Len(fs) = Len(es),
           \A i \in 1 .. Len(es) : fs[i] = Older(es[i]),
           NEW qs \in Seq(Permit), Len(qs) = Len(ps),
           \A i \in 1 .. Len(ps) : qs[i] = Older(ps[i])
    PROVE  Latest(fs, qs)
<1>1. Len(es) \in Nat /\ Len(ps) \in Nat /\ Len(es) <= Len(ps) /\ OPEN_WINDOW \in Nat
  BY OpenConstants, SMT DEF Latest
<1>2. \A i \in 1 .. Len(es) : es[i] \in Entry
  BY SMT
<1>3. \A i \in 1 .. Len(ps) : ps[i] \in Permit
  BY SMT
<1>4. \A i \in 1 .. Len(es) :
         /\ fs[i].url = es[i].url /\ fs[i].origin = es[i].origin
         /\ fs[i].age = IF es[i].age < OPEN_WINDOW THEN es[i].age + 1 ELSE es[i].age
  BY <1>2, OlderOK
<1>5. \A i \in 1 .. Len(ps) :
         /\ qs[i].url = ps[i].url /\ qs[i].origin = ps[i].origin
         /\ qs[i].age = IF ps[i].age < OPEN_WINDOW THEN ps[i].age + 1 ELSE ps[i].age
  BY <1>3, OlderOK
<1>6. ASSUME NEW i \in 1 .. Len(fs)
      PROVE  /\ SameOpen(qs[Len(qs) - Len(fs) + i], fs[i].url, fs[i].origin)
             /\ qs[Len(qs) - Len(fs) + i].age = fs[i].age
  <2>1. PICK j \in 1 .. Len(ps) : j = Len(ps) - Len(es) + i
    <3>1. Len(ps) - Len(es) + i \in 1 .. Len(ps)
      BY <1>1, SMT
    <3> QED
      BY <3>1
  <2>2. /\ ps[j].url = es[i].url /\ ps[j].origin = es[i].origin
        /\ ps[j].age = es[i].age
    BY <2>1 DEF Latest, SameOpen
  <2>3. qs[j].age = fs[i].age
    BY <1>4, <1>5, <2>2
  <2> QED
    BY <1>4, <1>5, <2>1, <2>2, <2>3 DEF SameOpen
<1>7. ASSUME NEW i \in 1 .. Len(qs), NEW j \in 1 .. Len(qs), i <= j
      PROVE  qs[j].age <= qs[i].age
  <2>1. ps[i].age \in Nat /\ ps[j].age \in Nat
    BY Ages
  <2>2. ps[j].age <= ps[i].age
    BY <1>7 DEF Latest
  <2>3. /\ qs[i].age = IF ps[i].age < OPEN_WINDOW THEN ps[i].age + 1 ELSE ps[i].age
        /\ qs[j].age = IF ps[j].age < OPEN_WINDOW THEN ps[j].age + 1 ELSE ps[j].age
    BY <1>5
  <2>4. \A a, b \in Nat :
          b <= a => (IF b < OPEN_WINDOW THEN b + 1 ELSE b) <= (IF a < OPEN_WINDOW THEN a + 1 ELSE a)
    BY <1>1, SMT
  <2> QED
    BY <2>1, <2>2, <2>3, <2>4
<1>8. ASSUME NEW i \in 1 .. Len(qs) - Len(fs)
      PROVE  qs[i].age >= OPEN_WINDOW \/ Len(qs) - i >= MAX_TRACKED
  <2>1. i \in 1 .. Len(ps) /\ ps[i].age \in Nat
    <3>1. i \in 1 .. Len(ps)
      BY <1>1, SMT
    <3> QED
      BY <3>1, Ages
  <2>2. ps[i].age >= OPEN_WINDOW \/ Len(ps) - i >= MAX_TRACKED
    BY DEF Latest
  <2> QED
    BY <1>1, <1>5, <2>1, <2>2, SMT
<1>9. Len(fs) <= Len(qs) /\ Len(fs) <= MAX_TRACKED
  BY DEF Latest
<1> QED
  BY <1>6, <1>7, <1>8, <1>9 DEF Latest

LEMMA PeerOK ==
    ASSUME cfg \in Configs, NEW origin \in Addresses
    PROVE  peer_ip(origin) \in Addresses \cup {None}
<1>1. cfg.peers \subseteq Addresses
  BY OpenConstants DEF Config
<1> QED
  BY <1>1 DEF peer_ip

Opened(c) == [url |-> sender[c].url, origin |-> peer_ip(sender[c].origin), conn |-> c, age |-> 0]

\* A permitted URL is opened and recorded, or dropped with nothing recorded;
\* the limiter's entries are the latest opens either way.
LEMMA OpenStep ==
    ASSUME OpenTypeOK, RecentIsLatest, NEW c \in Conns, open_permitted_url(c)
    PROVE  /\ Opened(c) \in Permit /\ Fresh \in Seq(Entry) /\ Latest(Fresh, permits)
           /\ \A n \in 1 .. Len(Fresh) : Fresh[n].age < OPEN_WINDOW
           /\ recent' \in Seq(Entry) /\ permits' \in Seq(Permit) /\ RecentIsLatest'
           /\ \/ permits' = permits
              \/ /\ permits' = Append(permits, Opened(c))
                 /\ ~ Dropped(Opened(c).url, Opened(c).origin)
<1> USE DEF OpenTypeOK
<1>1. PICK url \in Urls, origin \in Addresses \cup {None} :
         url = sender[c].url /\ origin = peer_ip(sender[c].origin)
  BY PeerOK DEF open_permitted_url
<1>2. /\ Opened(c) = [url |-> url, origin |-> origin, conn |-> c, age |-> 0]
      /\ Opened(c) \in Permit
      /\ Opened(c).url = url /\ Opened(c).origin = origin /\ Opened(c).age = 0
  BY <1>1 DEF Opened, Permit
<1>3. PICK k \in 0 .. Len(recent) :
         /\ Fresh \in Seq(Entry) /\ Len(Fresh) = Len(recent) - k
         /\ \A n \in 1 .. Len(recent) - k : Fresh[n] = recent[k + n]
         /\ \A i \in 1 .. k : recent[i].age >= OPEN_WINDOW
         /\ \A i \in k + 1 .. Len(recent) : recent[i].age < OPEN_WINDOW
  BY LatestIsSorted, FreshIsSuffix DEF RecentIsLatest
<1>4. Latest(Fresh, permits)
  BY <1>3, LatestSuffix DEF RecentIsLatest
<1>5. \A n \in 1 .. Len(Fresh) : Fresh[n].age < OPEN_WINDOW
  <2>1. Len(recent) \in Nat
    BY SMT
  <2>2. \A n \in 1 .. Len(Fresh) : k + n \in k + 1 .. Len(recent)
    BY <1>3, <2>1, SMT
  <2> QED
    BY <1>3, <2>2
<1>6. CASE Dropped(url, origin)
  <2>1. recent' = Fresh /\ permits' = permits
    BY <1>1, <1>6 DEF open_permitted_url
  <2> QED
    BY <1>2, <1>3, <1>4, <1>5, <2>1 DEF RecentIsLatest
<1>7. CASE ~ Dropped(url, origin)
  <2>1. recent' = Recorded(url, origin) /\ permits' = Append(permits, Opened(c))
    BY <1>1, <1>2, <1>7 DEF open_permitted_url
  <2>2. PICK p \in Permit : p = Opened(c)
    BY <1>2
  <2>3. PICK e \in Entry : e = [url |-> url, origin |-> origin, age |-> 0]
    BY DEF Entry
  <2>4. PICK out \in {0, 1} : out = IF Len(Fresh) = MAX_TRACKED THEN 1 ELSE 0
    OBVIOUS
  <2>5. /\ recent' \in Seq(Entry) /\ Len(recent') = Len(Fresh) - out + 1
        /\ \A i \in 1 .. Len(Fresh) - out : recent'[i] = Fresh[i + out]
        /\ recent'[Len(Fresh) - out + 1] = e
    BY <1>3, <2>1, <2>3, <2>4, RecordedOK
  <2>6. (out = 1) <=> (Len(Fresh) = MAX_TRACKED)
    BY <2>4, SMT
  <2>7. e.age = 0 /\ p.age = 0 /\ SameOpen(p, e.url, e.origin)
    <3>1. e.age = 0 /\ e.url = url /\ e.origin = origin
      BY <2>3
    <3> QED
      BY <1>2, <2>2, <3>1 DEF SameOpen
  <2>8. Latest(recent', Append(permits, p))
    BY <1>3, <1>4, <2>5, <2>6, <2>7, LatestRecord, ZenonT(60)
  <2>9. permits' \in Seq(Permit)
    <3>1. Append(permits, p) \in Seq(Permit)
      BY SMT
    <3> QED
      BY <2>1, <2>2, <3>1
  <2>10. RecentIsLatest'
    BY <2>1, <2>2, <2>8 DEF RecentIsLatest
  <2> QED
    BY <1>2, <1>3, <1>4, <1>5, <1>7, <2>1, <2>5, <2>9, <2>10
<1> QED
  BY <1>6, <1>7

\* Every step is one of these.
LEMMA StepIs ==
    ASSUME [Next]_vars
    PROVE  \/ UNCHANGED vars
           \/ Tick
           \/ \E c \in Conns : Sends(c)
           \/ \E c \in Conns : Waits(c)
           \/ \E c \in Conns : open_permitted_url(c)
           \/ \E c \in Conns : Outside(c)
  BY DEF Next, Handles, Waits, Outside

LEMMA SendsOK ==
    ASSUME OpenTypeOK, NEW c \in Conns, Sends(c)
    PROVE  /\ OpenTypeOK'
           /\ UNCHANGED <<cfg, notifier, recent, permits>>
           /\ \A d \in Conns :
                 \/ /\ handler'[d] = handler[d]
                    /\ handler[d].pc # "none" => /\ sender'[d].url = sender[d].url
                                                 /\ sender'[d].origin = sender[d].origin
                 \/ handler[d].pc = "none" /\ handler'[d].pc = "accept"
<1> USE DEF OpenTypeOK
<1>1. CASE UNCHANGED handler /\ \E ok : Exit(c, ok)
  <2>1. UNCHANGED <<cfg, notifier, recent, permits>>
    BY DEF Sends, open_target, Outcome_from_wire, outcome_timeout
  <2> QED
    BY <1>1, <2>1, ExitOK
<1>2. CASE /\ sender[c].pc = "new"
           /\ \E ask \in Asks[c] :
                /\ sender' = [sender EXCEPT ![c] = [NoSender EXCEPT
                                !.pc = "await", !.url = ask.url, !.origin = ask.origin]]
                /\ handler' = [handler EXCEPT ![c].pc = "accept"]
  <2>1. PICK ask \in Asks[c] :
          /\ sender' = [sender EXCEPT ![c] = [NoSender EXCEPT
                          !.pc = "await", !.url = ask.url, !.origin = ask.origin]]
          /\ handler' = [handler EXCEPT ![c].pc = "accept"]
    BY <1>2
  <2>2. ask.url \in Urls /\ ask.origin \in Addresses
    <3>1. Asks[c] \subseteq [url : Urls, origin : Addresses]
      BY OpenConstants
    <3>2. ask \in [url : Urls, origin : Addresses]
      BY <3>1
    <3> QED
      BY <3>2
  <2>3. PICK k : /\ k \in Sender /\ sender' = [sender EXCEPT ![c] = k]
                 /\ k.pc = "await" /\ k.url \in Urls /\ k.origin \in Addresses
    <3>1. PICK k : k = [NoSender EXCEPT
                          !.pc = "await", !.url = ask.url, !.origin = ask.origin]
      OBVIOUS
    <3>2. /\ k.pc = "await" /\ k.url = ask.url /\ k.origin = ask.origin
          /\ k \in Sender
      BY <2>2, <3>1 DEF NoSender, Sender
    <3> QED
      BY <2>1, <2>2, <3>1, <3>2
  <2>4. /\ handler' \in [Conns -> Handler] /\ handler'[c].pc = "accept"
        /\ \A d \in Conns : d # c => handler'[d] = handler[d]
    BY <2>1, GotoOK DEF Goto
  <2>5. handler[c].pc = "none"
    BY <1>2
  <2>6. UNCHANGED <<cfg, notifier, recent, permits>>
    BY DEF Sends, open_target, Outcome_from_wire, outcome_timeout
  <2> QED
    BY <2>3, <2>4, <2>5, <2>6
<1> QED
  BY <1>1, <1>2 DEF Sends, open_target, Outcome_from_wire, outcome_timeout

LEMMA TickOK ==
    ASSUME OpenTypeOK, RecentIsLatest, Tick
    PROVE  /\ OpenTypeOK' /\ RecentIsLatest' /\ Len(permits') = Len(permits)
           /\ \A i \in 1 .. Len(permits) : permits'[i] = Older(permits[i])
<1> USE DEF OpenTypeOK
<1>1. /\ recent' \in Seq(Entry) /\ Len(recent') = Len(recent)
      /\ \A i \in 1 .. Len(recent) : recent'[i] = Older(recent[i])
  BY AllOlder DEF Tick
<1>2. /\ permits' \in Seq(Permit) /\ Len(permits') = Len(permits)
      /\ \A i \in 1 .. Len(permits) : permits'[i] = Older(permits[i])
  BY AllOlder DEF Tick
<1>3. RecentIsLatest'
  BY <1>1, <1>2, LatestOlder DEF RecentIsLatest
<1>4. UNCHANGED <<cfg, sender, handler, notifier>>
  BY DEF Tick
<1> QED
  BY <1>1, <1>2, <1>3, <1>4

LEMMA TypeStep ==
    ASSUME OpenTypeOK, RecentIsLatest, [Next]_vars
    PROVE  OpenTypeOK' /\ RecentIsLatest'
<1>1. CASE UNCHANGED vars
  BY <1>1 DEF vars, OpenTypeOK, RecentIsLatest
<1>2. CASE Tick
  BY <1>2, TickOK
<1>3. ASSUME NEW c \in Conns, Sends(c)
      PROVE  OpenTypeOK' /\ RecentIsLatest'
  BY <1>3, SendsOK DEF RecentIsLatest
<1>4. ASSUME NEW c \in Conns, Waits(c)
      PROVE  OpenTypeOK' /\ RecentIsLatest'
  BY <1>4, WaitsOK DEF RecentIsLatest, OpenTypeOK
<1>5. ASSUME NEW c \in Conns, open_permitted_url(c)
      PROVE  OpenTypeOK' /\ RecentIsLatest'
  <2>1. /\ handler' \in [Conns -> Handler]
        /\ \A d \in Conns : d # c => handler'[d] = handler[d]
    BY <1>5, CloseOK DEF open_permitted_url, OpenTypeOK
  <2>2. handler[c].pc # "none" /\ UNCHANGED <<cfg, sender, notifier>>
    BY <1>5 DEF open_permitted_url
  <2> QED
    BY <1>5, <2>1, <2>2, OpenStep DEF OpenTypeOK
<1>6. ASSUME NEW c \in Conns, Outside(c)
      PROVE  OpenTypeOK' /\ RecentIsLatest'
  BY <1>6, OutsideOK DEF RecentIsLatest, OpenTypeOK
<1> QED
  BY <1>1, <1>2, <1>3, <1>4, <1>5, <1>6, StepIs

LEMMA TypeInit == Init => OpenTypeOK /\ RecentIsLatest
<1> SUFFICES ASSUME Init PROVE OpenTypeOK /\ RecentIsLatest
  OBVIOUS
<1>1. <<>> \in Seq(Entry) /\ <<>> \in Seq(Permit)
  BY SMT
<1>2. NoSender \in Sender /\ NoHandler \in Handler /\ NoNotifier \in Notifier
  BY DEF NoSender, Sender, NoHandler, Handler, NoNotifier, Notifier
<1>3. OpenTypeOK
  BY <1>1, <1>2 DEF Init, OpenTypeOK, NoHandler
<1>4. RecentIsLatest
  BY OpenConstants, SMT DEF Init, RecentIsLatest, Latest
<1> QED
  BY <1>3, <1>4

\* Opening URLs is type correct, and the limiter's list is the latest of the
\* opens it let through: every one of the last MAX_TRACKED that is still
\* within the window is in it, in their order.
THEOREM LimiterIsExact == Spec => [](OpenTypeOK /\ RecentIsLatest)
<1>1. OpenTypeOK /\ RecentIsLatest /\ [Next]_vars => OpenTypeOK' /\ RecentIsLatest'
  BY TypeStep
<1> QED
  BY <1>1, TypeInit, PTL DEF Spec

LEMMA WindowIsFinite ==
    ASSUME NEW ps \in Seq(Permit), NEW T \in SUBSET DOMAIN ps
    PROVE  IsFiniteSet(T) /\ Cardinality(T) \in Nat
<1>1. DOMAIN ps = 1 .. Len(ps) /\ 1 \in Int /\ Len(ps) \in Int
  BY SMT
<1>2. IsFiniteSet(1 .. Len(ps))
  BY <1>1, FS_Interval
<1> QED
  BY <1>1, <1>2, FS_Subset, FS_CardinalityType

\* The window only lost opens.
LEMMA WindowShrinks ==
    ASSUME OpenTypeOK, LoopBounded, OpenTypeOK',
           NEW i \in DOMAIN permits, NEW url, NEW origin,
           permits[i].url = url, permits[i].origin = origin,
           InWindow(url, origin)' \subseteq InWindow(url, origin)
    PROVE  Cardinality(InWindow(url, origin)') <= MAX_OPENS
<1>1. InWindow(url, origin) \subseteq DOMAIN permits
  BY DEF InWindow
<1>2. IsFiniteSet(InWindow(url, origin)) /\ Cardinality(InWindow(url, origin)) \in Nat
  BY <1>1, WindowIsFinite DEF OpenTypeOK
<1>3. /\ Cardinality(InWindow(url, origin)') <= Cardinality(InWindow(url, origin))
      /\ IsFiniteSet(InWindow(url, origin)')
  BY <1>2, FS_Subset
<1>4. Cardinality(InWindow(url, origin)') \in Nat
  BY <1>3, FS_CardinalityType
<1>5. Cardinality(InWindow(url, origin)) <= MAX_OPENS
  BY DEF LoopBounded
<1> QED
  BY <1>2, <1>3, <1>4, <1>5, OpenConstants, SMT

\* Opens of the latest list's entries: the window holds no more of them than
\* the list.
LEMMA WindowInList ==
    ASSUME NEW f \in Seq(Entry), NEW ps \in Seq(Permit), Latest(f, ps), NEW url, NEW origin,
           NEW V \in SUBSET DOMAIN ps,
           \A j \in V : /\ ps[j].age < OPEN_WINDOW /\ Len(ps) - j < MAX_TRACKED
                        /\ SameOpen(ps[j], url, origin)
    PROVE  LET F == {n \in DOMAIN f : SameOpen(f[n], url, origin)} IN
           /\ Cardinality(F) \in Nat /\ Cardinality(V) \in Nat
           /\ Cardinality(V) <= Cardinality(F)
<1> DEFINE F == {n \in DOMAIN f : SameOpen(f[n], url, origin)}
<1>1. PICK b : b = Len(ps) - Len(f)
  OBVIOUS
<1>2. /\ Len(f) \in Nat /\ Len(ps) \in Nat /\ b \in Nat /\ MAX_TRACKED \in Nat /\ OPEN_WINDOW \in Nat
      /\ DOMAIN f = 1 .. Len(f) /\ DOMAIN ps = 1 .. Len(ps)
  BY <1>1, OpenConstants, SMT DEF Latest
<1>3. IsFiniteSet(F) /\ Cardinality(F) \in Nat
  <2>1. IsFiniteSet(1 .. Len(f))
    BY <1>2, FS_Interval, SMT
  <2> QED
    BY <1>2, <2>1, FS_Subset, FS_CardinalityType
<1>4. ASSUME NEW j \in V
      PROVE  j \in Nat /\ j - b \in F
  <2>1. j \in 1 .. Len(ps) /\ ps[j].age \in Nat
    BY <1>2, Ages
  <2>2. ~ (j \in 1 .. b)
    <3>1. ~ (ps[j].age >= OPEN_WINDOW \/ Len(ps) - j >= MAX_TRACKED)
      BY <1>2, <2>1, SMT
    <3> QED
      BY <1>1, <3>1 DEF Latest
  <2>3. j - b \in 1 .. Len(f) /\ b + (j - b) = j
    BY <1>1, <1>2, <2>1, <2>2, SMT
  <2>4. SameOpen(ps[j], f[j - b].url, f[j - b].origin)
    BY <1>1, <2>3 DEF Latest
  <2>5. SameOpen(f[j - b], url, origin)
    BY <2>4 DEF SameOpen
  <2>6. j \in Nat
    BY <1>2, <2>1, SMT
  <2>7. j - b \in DOMAIN f
    BY <1>2, <2>3
  <2> QED
    BY <2>5, <2>6, <2>7
<1> DEFINE g == [j \in V |-> j - b]
<1>5. g \in Injection(V, F)
  <2>1. g \in [V -> F]
    BY <1>4
  <2>2. \A x, y \in V : x - b = y - b => x = y
    BY <1>2, <1>4, SMT
  <2>3. \A x, y \in DOMAIN g : g[x] = g[y] => x = y
    BY <2>2
  <2> QED
    BY <2>1, <2>3 DEF Injection, IsInjective
<1> HIDE DEF g, F
<1>6. IsFiniteSet(V) /\ Cardinality(V) <= Cardinality(F)
  BY <1>3, <1>5, FS_Injection
<1> QED
  BY <1>3, <1>6, FS_CardinalityType DEF F

LEMMA LoopStep ==
    ASSUME OpenTypeOK, RecentIsLatest, LoopBounded, [Next]_vars
    PROVE  LoopBounded'
<1>t. OpenTypeOK'
  BY TypeStep
<1>1. CASE UNCHANGED permits
  BY <1>1 DEF LoopBounded, InWindow
<1>2. CASE Tick
  <2> SUFFICES ASSUME NEW i \in DOMAIN permits', NEW url, NEW origin,
                      url = permits'[i].url, origin = permits'[i].origin
               PROVE  Cardinality(InWindow(url, origin)') <= MAX_OPENS
    BY DEF LoopBounded, InWindow
  <2>1. /\ Len(permits') = Len(permits)
        /\ \A j \in 1 .. Len(permits) : permits'[j] = Older(permits[j])
    BY <1>2, TickOK
  <2>2. /\ DOMAIN permits = 1 .. Len(permits) /\ DOMAIN permits' = 1 .. Len(permits)
        /\ \A j \in 1 .. Len(permits) : permits[j] \in Permit
    BY <1>t, <2>1, SMT DEF OpenTypeOK
  <2>3. \A j \in 1 .. Len(permits) :
          /\ permits'[j].url = permits[j].url /\ permits'[j].origin = permits[j].origin
          /\ permits'[j].age < OPEN_WINDOW => permits[j].age < OPEN_WINDOW
    <3>1. ASSUME NEW a \in Nat, NEW w \in Nat
          PROVE  (IF a < w THEN a + 1 ELSE a) < w => a < w
      BY SMT
    <3>2. \A j \in 1 .. Len(permits) : permits[j].age \in Nat
      BY <2>2, OlderOK
    <3>3. OPEN_WINDOW \in Nat
      BY OpenConstants
    <3>4. \A j \in 1 .. Len(permits) :
            (IF permits[j].age < OPEN_WINDOW THEN permits[j].age + 1 ELSE permits[j].age)
               < OPEN_WINDOW => permits[j].age < OPEN_WINDOW
      BY <3>1, <3>2, <3>3
    <3> QED
      BY <2>1, <2>2, <3>4, OlderOK, SMT
  <2>4. permits[i].url = url /\ permits[i].origin = origin /\ i \in DOMAIN permits
    BY <2>2, <2>3
  <2>5. InWindow(url, origin)' \subseteq InWindow(url, origin)
    BY <2>1, <2>2, <2>3 DEF InWindow, SameOpen
  <2> QED
    BY <1>t, <2>4, <2>5, WindowShrinks
<1>3. ASSUME NEW c \in Conns, open_permitted_url(c), permits' = Append(permits, Opened(c)),
             ~ Dropped(Opened(c).url, Opened(c).origin)
      PROVE  LoopBounded'
  <2> SUFFICES ASSUME NEW i \in DOMAIN permits', NEW url, NEW origin,
                      url = permits'[i].url, origin = permits'[i].origin
               PROVE  Cardinality(InWindow(url, origin)') <= MAX_OPENS
    BY DEF LoopBounded, InWindow
  <2>1. PICK p : p = Opened(c)
    OBVIOUS
  <2>2. p \in Permit /\ Fresh \in Seq(Entry) /\ Latest(Fresh, permits)
    BY <1>3, <2>1, OpenStep
  <2>3. permits \in Seq(Permit) /\ Len(permits) \in Nat /\ DOMAIN permits = 1 .. Len(permits)
    BY SMT DEF OpenTypeOK
  <2>4. /\ Len(permits') = Len(permits) + 1 /\ permits'[Len(permits) + 1] = p
        /\ DOMAIN permits' = 1 .. Len(permits) + 1
        /\ \A j \in 1 .. Len(permits) : permits'[j] = permits[j]
    <3>1. permits' = Append(permits, p)
      BY <1>3, <2>1
    <3> QED
      BY <2>2, <2>3, <3>1, SMT
  <2>m. MAX_TRACKED \in Nat /\ MAX_OPENS \in Nat
    BY OpenConstants
  <2>6. \A j \in InWindow(url, origin)' \ {Len(permits) + 1} :
          /\ j \in DOMAIN permits /\ permits'[j] = permits[j] /\ permits[j].age < OPEN_WINDOW
          /\ Len(permits) - j < MAX_TRACKED /\ SameOpen(permits[j], url, origin)
    <3> SUFFICES ASSUME NEW j \in InWindow(url, origin)' \ {Len(permits) + 1}
                 PROVE  /\ j \in DOMAIN permits /\ permits'[j] = permits[j]
                        /\ permits[j].age < OPEN_WINDOW /\ Len(permits) - j < MAX_TRACKED
                        /\ SameOpen(permits[j], url, origin)
      OBVIOUS
    <3>1. /\ j \in 1 .. Len(permits) + 1 /\ j # Len(permits) + 1
          /\ permits'[j].age < OPEN_WINDOW /\ Len(permits') - j < MAX_TRACKED
          /\ SameOpen(permits'[j], url, origin)
      BY <2>4 DEF InWindow, SameOpen
    <3>2. j \in 1 .. Len(permits) /\ Len(permits) - j < MAX_TRACKED
      BY <2>3, <2>4, <2>m, <3>1, SMT
    <3> QED
      BY <2>3, <2>4, <3>1, <3>2
  <2>7. CASE SameOpen(p, url, origin)
    <3>1. PICK V : V = InWindow(url, origin)' \ {Len(permits) + 1}
      OBVIOUS
    <3>2. PICK F : F = {n \in DOMAIN Fresh : SameOpen(Fresh[n], url, origin)}
      OBVIOUS
    <3>3. /\ Cardinality(F) \in Nat /\ Cardinality(V) \in Nat
          /\ Cardinality(V) <= Cardinality(F)
      <4>1. V \in SUBSET DOMAIN permits
        BY <2>6, <3>1
      <4>2. \A j \in V : /\ permits[j].age < OPEN_WINDOW /\ Len(permits) - j < MAX_TRACKED
                         /\ SameOpen(permits[j], url, origin)
        BY <2>6, <3>1
      <4>3. PICK f \in Seq(Entry) : f = Fresh /\ Latest(f, permits)
        BY <2>2
      <4>4. F = {n \in DOMAIN f : SameOpen(f[n], url, origin)}
        BY <3>2, <4>3
      <4> QED
        BY <2>3, <4>1, <4>2, <4>3, <4>4, WindowInList, ZenonT(60)
    <3>4. Cardinality(F) + 1 <= MAX_OPENS
      <4>1. ~ Dropped(url, origin)
        BY <1>3, <2>1, <2>7 DEF SameOpen
      <4>2. ~ (Cardinality(F) + 1 > MAX_OPENS)
        BY <3>2, <4>1 DEF Dropped, Count
      <4> QED
        BY <2>m, <3>3, <4>2, SMT
    <3>5. IsFiniteSet(V)
      <4>1. V \subseteq DOMAIN permits
        BY <2>6, <3>1
      <4> QED
        BY <2>3, <4>1, WindowIsFinite
    <3>6. /\ IsFiniteSet(V \cup {Len(permits) + 1})
          /\ Cardinality(V \cup {Len(permits) + 1}) = Cardinality(V) + 1
      BY <3>1, <3>5, FS_AddElement
    <3>7. InWindow(url, origin)' \subseteq V \cup {Len(permits) + 1}
      BY <3>1
    <3>8. PICK W : W = InWindow(url, origin)'
      OBVIOUS
    <3>9. IsFiniteSet(W) /\ Cardinality(W) <= Cardinality(V \cup {Len(permits) + 1})
      <4>1. W \in SUBSET (V \cup {Len(permits) + 1})
        BY <3>7, <3>8
      <4> QED
        BY <3>6, <4>1, FS_Subset
    <3>10. Cardinality(W) \in Nat
      BY <3>9, FS_CardinalityType
    <3>11. Cardinality(W) <= MAX_OPENS
      BY <2>m, <3>3, <3>4, <3>6, <3>9, <3>10, SMT
    <3> QED
      BY <3>8, <3>11
  <2>8. CASE ~ SameOpen(p, url, origin)
    <3>1. i # Len(permits) + 1
      BY <2>4, <2>8 DEF SameOpen
    <3>2. i \in DOMAIN permits /\ permits'[i] = permits[i]
      BY <2>3, <2>4, <3>1, SMT
    <3>3. Len(permits) + 1 \notin InWindow(url, origin)'
      BY <2>4, <2>8 DEF InWindow, SameOpen
    <3>4. InWindow(url, origin)' \subseteq InWindow(url, origin)
      BY <2>6, <3>3 DEF InWindow
    <3> QED
      BY <1>t, <3>2, <3>4, WindowShrinks
  <2> QED
    BY <2>7, <2>8
<1>4. ASSUME NEW c \in Conns, open_permitted_url(c)
      PROVE  LoopBounded'
  BY <1>1, <1>3, <1>4, OpenStep
<1>5. UNCHANGED permits \/ Tick \/ \E c \in Conns : open_permitted_url(c)
  BY StepIs, SendsOK, WaitsOK, OutsideOK DEF vars
<1> QED
  BY <1>1, <1>2, <1>4, <1>5

\* Opener loops are cut: among the last MAX_TRACKED opens, no devbox's URL
\* opened more than MAX_OPENS times within one window, whatever the limits,
\* the URLs, and the number of runs that ask.
THEOREM LoopsAreCut == Spec => []LoopBounded
<1>1. Init => LoopBounded
  BY SMT DEF Init, LoopBounded
<1>2. OpenTypeOK /\ RecentIsLatest /\ LoopBounded /\ [Next]_vars => LoopBounded'
  BY LoopStep
<1> QED
  BY <1>1, <1>2, LimiterIsExact, PTL DEF Spec

-----------------------------------------------------------------------------
(***************************************************************************)
(* Leave.                                                                  *)
(***************************************************************************)
\* The configuration never changes, and what it lets a devbox open neither.
LEMMA SameConfig ==
    ASSUME cfg' = cfg, NEW origin, NEW url
    PROVE  (Unasked(origin, url)' <=> Unasked(origin, url)) /\ peer_ip(origin)' = peer_ip(origin)
<1>1. Unasked(origin, url)' <=> Unasked(origin, url)
  BY DEF Unasked
<1>2. peer_ip(origin)' = peer_ip(origin)
  BY SMT DEF peer_ip
<1> QED
  BY <1>1, <1>2

LEMMA LeaveStays ==
    ASSUME cfg' = cfg, NEW c, NEW origin, NEW url, Leave(c, origin, url),
           Approves(notifier[c]) => Approves(notifier'[c])
    PROVE  Leave(c, origin, url)'
  BY SameConfig DEF Leave, Approves

\* It is enough to show LeaveInv for handlers and opens one by one.
LEMMA LeaveNext ==
    ASSUME cfg' = cfg,
           \A c \in Conns : \A origin, url :
              handler'[c].pc = "open" /\ origin = sender'[c].origin /\ url = sender'[c].url
                 => Leave(c, peer_ip(origin), url)',
           \A i \in DOMAIN permits' : \A c, origin, url :
              c = permits'[i].conn /\ origin = permits'[i].origin /\ url = permits'[i].url
                 => handler'[c].pc = "closed" /\ Leave(c, origin, url)'
    PROVE  LeaveInv'
  BY DEF LeaveInv, Leave, Approves

\* What a step does not touch keeps its leave.
LEMMA LeaveKept ==
    ASSUME OpenTypeOK, LeaveInv, cfg' = cfg, NEW d \in Conns,
           Approves(notifier[d]) => Approves(notifier'[d]), handler'[d] = handler[d]
    PROVE  /\ \A origin, url :
                 handler'[d].pc = "open" /\ origin = sender[d].origin /\ url = sender[d].url
                    => Leave(d, peer_ip(origin), url)'
           /\ \A i \in DOMAIN permits : \A origin, url :
                 d = permits[i].conn /\ origin = permits[i].origin /\ url = permits[i].url
                    => handler'[d].pc = "closed" /\ Leave(d, origin, url)'
<1>1. ASSUME NEW origin, NEW url, handler'[d].pc = "open",
             origin = sender[d].origin, url = sender[d].url
      PROVE  Leave(d, peer_ip(origin), url)'
  <2>1. PICK o : o = peer_ip(origin)
    OBVIOUS
  <2>2. peer_ip(origin)' = o
    BY <2>1, SameConfig
  <2>3. Leave(d, o, url)
    BY <1>1, <2>1 DEF LeaveInv
  <2>4. Leave(d, o, url)'
    BY <2>3, LeaveStays
  <2> QED
    BY <2>2, <2>4 DEF Leave, Unasked
<1>2. ASSUME NEW i \in DOMAIN permits, NEW origin, NEW url,
             d = permits[i].conn, origin = permits[i].origin, url = permits[i].url
      PROVE  handler'[d].pc = "closed" /\ Leave(d, origin, url)'
  <2>1. handler[d].pc = "closed" /\ Leave(d, origin, url)
    BY <1>2 DEF LeaveInv
  <2> QED
    BY <2>1, LeaveStays
<1> QED
  BY <1>1, <1>2

LEMMA ConnsOK ==
    ASSUME OpenTypeOK, NEW i \in DOMAIN permits
    PROVE  permits[i].conn \in Conns
<1>1. permits[i] \in Permit
  BY SMT DEF OpenTypeOK
<1> QED
  BY <1>1 DEF Permit

\* A thread that waits for nothing more has leave to open.
LEMMA WaitsLeave ==
    ASSUME OpenTypeOK, NEW c \in Conns, Waits(c), handler'[c].pc = "open"
    PROVE  Leave(c, peer_ip(sender[c].origin), sender[c].url)'
<1>1. /\ UNCHANGED <<cfg, sender>>
      /\ sender[c].origin \in Addresses /\ sender[c].url \in Urls
  BY WaitsOK DEF OpenTypeOK
<1>2. PICK o, u : o = peer_ip(sender[c].origin) /\ u = sender[c].url
  OBVIOUS
<1>3. Unasked(o, u) \/ Approves(notifier'[c])
  <2>1. CASE handle_connection(c)
    <3>1. decide(sender[c].origin, sender[c].url)
      <4>1. ~ (read_request(c) \/ Close(c, "refused"))
        BY CloseOK DEF read_request, OpenTypeOK
      <4>2. Goto(c, IF decide(sender[c].origin, sender[c].url) THEN "open"
                    ELSE IF cfg.notifier THEN "notify" ELSE "builtin")
        BY <2>1, <4>1 DEF handle_connection
      <4>3. PICK pc \in {"open", "notify", "builtin"} :
              /\ pc = IF decide(sender[c].origin, sender[c].url) THEN "open"
                      ELSE IF cfg.notifier THEN "notify" ELSE "builtin"
              /\ Goto(c, pc)
        BY <4>2
      <4>4. pc = "open"
        BY <4>3, GotoOK DEF OpenTypeOK
      <4> QED
        BY <4>3, <4>4
    <3> QED
      BY <1>1, <1>2, <3>1, DecidedIsUnasked DEF OpenTypeOK
  <2>2. CASE collect_output(c)
    <3>1. CASE Approves(notifier[c])
      BY <2>2, <3>1 DEF collect_output
    <3>2. CASE ~ Approves(notifier[c])
      <4>1. handler'[c].pc = "closed"
        BY <2>2, <3>2, CloseOK DEF collect_output, OpenTypeOK
      <4> QED
        BY <4>1
    <3> QED
      BY <3>1, <3>2
  <2>3. CASE accept(c)
    BY <2>3, GotoOK, CloseOK DEF accept, OpenTypeOK
  <2>4. CASE copy_url(c)
    BY <2>4, GotoOK, CloseOK DEF copy_url, OpenTypeOK
  <2>5. CASE run_command(c)
    BY <2>5, GotoOK, CloseOK DEF run_command, OpenTypeOK
  <2>6. CASE try_wait(c)
    BY <2>6, GotoOK DEF try_wait, OpenTypeOK
  <2>7. CASE wait(c)
    BY <2>7, CloseOK DEF wait, OpenTypeOK
  <2> QED
    BY <2>1, <2>2, <2>3, <2>4, <2>5, <2>6, <2>7 DEF Waits
<1>4. peer_ip(sender[c].origin)' = o /\ sender'[c].url = u
  <2>1. PICK a : a = sender[c].origin
    OBVIOUS
  <2>2. peer_ip(a)' = peer_ip(a)
    BY <1>1, SameConfig
  <2> QED
    BY <1>1, <1>2, <2>1, <2>2 DEF peer_ip
<1>5. Unasked(o, u)' <=> Unasked(o, u)
  BY <1>1, SameConfig
<1> QED
  BY <1>3, <1>4, <1>5 DEF Leave, Unasked

LEMMA LeaveStep ==
    ASSUME OpenTypeOK, RecentIsLatest, LeaveInv, [Next]_vars
    PROVE  LeaveInv'
<1>1. CASE UNCHANGED vars
  BY <1>1, ZenonT(60) DEF vars, LeaveInv, Leave, Unasked, Approves, peer_ip
<1>2. CASE Tick
  <2>1. UNCHANGED <<cfg, sender, handler, notifier>>
    BY <1>2 DEF Tick
  <2>2. /\ DOMAIN permits' = DOMAIN permits
        /\ \A i \in DOMAIN permits : permits'[i] = Older(permits[i]) /\ permits[i] \in Permit
    <3>1. /\ OpenTypeOK' /\ Len(permits') = Len(permits)
          /\ \A i \in 1 .. Len(permits) : permits'[i] = Older(permits[i])
      BY <1>2, TickOK
    <3> QED
      BY <3>1, SMT DEF OpenTypeOK
  <2>3. \A i \in DOMAIN permits : /\ permits'[i].conn = permits[i].conn
                                  /\ permits'[i].origin = permits[i].origin
                                  /\ permits'[i].url = permits[i].url
    BY <2>2, OlderOK
  <2>4. ASSUME NEW d \in Conns, NEW origin, NEW url, handler'[d].pc = "open",
               origin = sender'[d].origin, url = sender'[d].url
        PROVE  Leave(d, peer_ip(origin), url)'
    BY <2>1, <2>4, LeaveKept
  <2>5. ASSUME NEW i \in DOMAIN permits', NEW d, NEW origin, NEW url,
               d = permits'[i].conn, origin = permits'[i].origin, url = permits'[i].url
        PROVE  handler'[d].pc = "closed" /\ Leave(d, origin, url)'
    <3>1. /\ i \in DOMAIN permits /\ d \in Conns
          /\ d = permits[i].conn /\ origin = permits[i].origin /\ url = permits[i].url
      BY <2>2, <2>3, <2>5, ConnsOK
    <3> QED
      BY <2>1, <3>1, LeaveKept
  <2> QED
    BY <2>1, <2>4, <2>5, LeaveNext
<1>3. ASSUME NEW c \in Conns, Sends(c)
      PROVE  LeaveInv'
  <2>1. /\ UNCHANGED <<cfg, notifier, permits>>
        /\ \A d \in Conns :
              \/ /\ handler'[d] = handler[d]
                 /\ handler[d].pc # "none" => /\ sender'[d].url = sender[d].url
                                              /\ sender'[d].origin = sender[d].origin
              \/ handler[d].pc = "none" /\ handler'[d].pc = "accept"
    BY <1>3, SendsOK
  <2>2. ASSUME NEW d \in Conns, NEW origin, NEW url, handler'[d].pc = "open",
               origin = sender'[d].origin, url = sender'[d].url
        PROVE  Leave(d, peer_ip(origin), url)'
    BY <2>1, <2>2, LeaveKept
  <2>3. ASSUME NEW i \in DOMAIN permits, NEW d, NEW origin, NEW url,
               d = permits[i].conn, origin = permits[i].origin, url = permits[i].url
        PROVE  handler'[d].pc = "closed" /\ Leave(d, origin, url)'
    <3>1. d \in Conns /\ handler[d].pc = "closed"
      BY <2>3, ConnsOK DEF LeaveInv
    <3>2. handler'[d] = handler[d]
      BY <2>1, <3>1
    <3> QED
      BY <2>1, <2>3, <3>1, <3>2, LeaveKept
  <2> QED
    BY <2>1, <2>2, <2>3, LeaveNext
<1>4. ASSUME NEW c \in Conns, Waits(c)
      PROVE  LeaveInv'
  <2>1. /\ UNCHANGED <<cfg, sender, permits>>
        /\ handler[c].pc \notin {"none", "closed", "open"}
        /\ \A d \in Conns : d # c => handler'[d] = handler[d] /\ notifier'[d] = notifier[d]
    BY <1>4, WaitsOK
  <2>2. ASSUME NEW d \in Conns, NEW origin, NEW url, handler'[d].pc = "open",
               origin = sender'[d].origin, url = sender'[d].url
        PROVE  Leave(d, peer_ip(origin), url)'
    <3>1. CASE d = c
      <4>1. Leave(c, peer_ip(sender[c].origin), sender[c].url)'
        BY <1>4, <2>2, <3>1, WaitsLeave
      <4> QED
        BY <2>2, <3>1, <4>1 DEF Leave, Unasked, peer_ip
    <3>2. CASE d # c
      BY <2>1, <2>2, <3>2, LeaveKept
    <3> QED
      BY <3>1, <3>2
  <2>3. ASSUME NEW i \in DOMAIN permits, NEW d, NEW origin, NEW url,
               d = permits[i].conn, origin = permits[i].origin, url = permits[i].url
        PROVE  handler'[d].pc = "closed" /\ Leave(d, origin, url)'
    <3>1. d \in Conns /\ handler[d].pc = "closed"
      BY <2>3, ConnsOK DEF LeaveInv
    <3>2. d # c
      BY <2>1, <3>1
    <3> QED
      BY <2>1, <2>3, <3>1, <3>2, LeaveKept
  <2> QED
    BY <2>1, <2>2, <2>3, LeaveNext
<1>5. ASSUME NEW c \in Conns, open_permitted_url(c)
      PROVE  LeaveInv'
  <2>1. /\ UNCHANGED <<cfg, sender, notifier>> /\ handler[c].pc = "open"
        /\ handler'[c].pc = "closed"
        /\ \A d \in Conns : d # c => handler'[d] = handler[d]
    BY <1>5, CloseOK DEF open_permitted_url, OpenTypeOK
  <2>2. ASSUME NEW d \in Conns, NEW origin, NEW url, handler'[d].pc = "open",
               origin = sender'[d].origin, url = sender'[d].url
        PROVE  Leave(d, peer_ip(origin), url)'
    BY <2>1, <2>2, LeaveKept
  <2>3. ASSUME NEW i \in DOMAIN permits, NEW d, NEW origin, NEW url,
               d = permits[i].conn, origin = permits[i].origin, url = permits[i].url
        PROVE  handler'[d].pc = "closed" /\ Leave(d, origin, url)'
    <3>1. d \in Conns /\ handler[d].pc = "closed"
      BY <2>3, ConnsOK DEF LeaveInv
    <3>2. d # c
      BY <2>1, <3>1
    <3> QED
      BY <2>1, <2>3, <3>1, <3>2, LeaveKept
  <2>4. PICK p : p = Opened(c)
    OBVIOUS
  <2>5. /\ p.conn = c /\ p.origin = peer_ip(sender[c].origin) /\ p.url = sender[c].url
        /\ p \in Permit
    BY <1>5, <2>4, OpenStep DEF Opened
  <2>6. Leave(c, p.origin, p.url)'
    <3>1. Leave(c, p.origin, p.url)
      BY <2>1, <2>5 DEF LeaveInv
    <3> QED
      BY <2>1, <3>1, LeaveStays
  <2>7. ASSUME NEW i \in DOMAIN permits', NEW d, NEW origin, NEW url,
               d = permits'[i].conn, origin = permits'[i].origin, url = permits'[i].url
        PROVE  handler'[d].pc = "closed" /\ Leave(d, origin, url)'
    <3>1. CASE i \in DOMAIN permits /\ permits'[i] = permits[i]
      BY <2>3, <2>7, <3>1
    <3>2. CASE permits'[i] = p
      BY <2>1, <2>5, <2>6, <2>7, <3>2
    <3>3. (i \in DOMAIN permits /\ permits'[i] = permits[i]) \/ permits'[i] = p
      <4>1. permits \in Seq(Permit)
        BY DEF OpenTypeOK
      <4>2. permits' = permits \/ permits' = Append(permits, p)
        BY <1>5, <2>4, OpenStep
      <4> QED
        BY <2>5, <4>1, <4>2, SMT
    <3> QED
      BY <3>1, <3>2, <3>3
  <2> QED
    BY <2>1, <2>2, <2>7, LeaveNext
<1>6. ASSUME NEW c \in Conns, Outside(c)
      PROVE  LeaveInv'
  <2>1. /\ UNCHANGED <<cfg, sender, handler, permits>>
        /\ \A d \in Conns : Approves(notifier[d]) => Approves(notifier'[d])
    BY <1>6, OutsideOK
  <2> QED
    BY <2>1, LeaveKept, LeaveNext, ConnsOK
<1> QED
  BY <1>1, <1>2, <1>3, <1>4, <1>5, <1>6, StepIs

\* Nothing opens without leave: a URL its devbox may not open unasked opens
\* only after a notifier that ended by itself, in time and with success,
\* printed the approval.
THEOREM LeaveIsNeeded == Spec => []OpensWithLeave
<1>1. Init => LeaveInv
  BY SMT DEF Init, LeaveInv, NoHandler
<1>2. OpenTypeOK /\ RecentIsLatest /\ LeaveInv /\ [Next]_vars => LeaveInv'
  BY LeaveStep
<1>3. LeaveInv => OpensWithLeave
  BY DEF LeaveInv, OpensWithLeave, Leave, Approves
<1> QED
  BY <1>1, <1>2, <1>3, LimiterIsExact, PTL DEF Spec

=============================================================================
