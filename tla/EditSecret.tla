------------------------------ MODULE EditSecret ------------------------------
(***************************************************************************)
(* The write doors of the `secrets` client: `secrets edit`, `edit-local`   *)
(* and `edit-human`, run by several processes at once against the same     *)
(* configured source roots.                                                *)
(*                                                                         *)
(* A process loads its context (the human-tier file names), takes an       *)
(* exclusive flock on every root directory in configuration order, picks a *)
(* door, lets an editor or sops produce the new content, checks it and     *)
(* publishes it by rename.  A process may be killed at any step; the       *)
(* kernel then drops its locks and its temporary files stay.  A sync tool  *)
(* that takes no lock may rewrite an agent file at any moment.  The        *)
(* machine itself stays up: nothing here is synced to disk before it is    *)
(* renamed, and what a power loss leaves is not modelled.                  *)
(*                                                                         *)
(* A file's content is abstracted to the key names it assigns and to the   *)
(* writer that produced it.                                                *)
(***************************************************************************)
EXTENDS Naturals, Sequences, FiniteSets

CONSTANTS
    Writers,      \* processes, each running one command
    Names,        \* key names
    Dirs,         \* root directories, by inode
    Configs,      \* configured root lists: sequences of [name, path, dir]
    Commands,     \* command lines a process may be started with
    Disks,        \* the ciphertext files there may be at the start
    MaxSync,      \* how many times the sync tool writes
    Sync,         \* the sync tool, as the author of a content
    Shipped,      \* the author of what is on disk at the start
    None

(***************************************************************************)
(* Two agent files a root (secrets.local.env and secrets.env) and, for     *)
(* each key, a shared and a local human file in its secrets.human.d.       *)
(***************************************************************************)
AgentFiles == [tier : {"agent"}, dir : Dirs, local : BOOLEAN]
HumanFiles == [tier : {"human"}, dir : Dirs, local : BOOLEAN, name : Names]
Files == AgentFiles \cup HumanFiles
Authors == Writers \cup {Sync, Shipped}
Contents == [names : SUBSET Names, by : Authors, whole : BOOLEAN]

(* What happens to the editor's plaintext: the inode the client created,   *)
(* the one an editor that saves by rename put in its place, whether the    *)
(* client holds the edited file open, whether the path is still there, and *)
(* how the editor did: "lost" when the file it left could not be opened.   *)
Inode == {"prefill", "secret", "zero"}
Scratches == [original : Inode, replaced : Inode \cup {None},
              edited : BOOLEAN, linked : BOOLEAN, editor : {None, "ok", "failed", "lost"}]

(* Sources::parse: at least one root, no name and no path twice; two paths *)
(* may still be the same directory.                                        *)
parse_sources(rs) ==
    /\ rs # <<>>
    /\ \A i, j \in DOMAIN rs :
          i # j => rs[i].name # rs[j].name /\ rs[i].path # rs[j].path

ASSUME EditConstants ==
    /\ None \notin Writers \cup Names \cup Dirs \cup Contents \cup Scratches
                 \cup Inode \cup {"ok", "failed", "lost"}
    /\ Sync \notin Writers /\ Shipped \notin Writers /\ Sync # Shipped
    /\ MaxSync \in Nat
    /\ Configs \subseteq Seq([name : STRING, path : STRING, dir : Dirs])
    /\ \A rs \in Configs : parse_sources(rs)
    /\ \A c \in Commands : /\ c.door \in {"agent", "human"} /\ c.local \in BOOLEAN
                           /\ c.door = "human" => c.name \in Names
    /\ Disks \subseteq [Files -> Contents \cup {None}]
    /\ \A disk \in Disks, f \in AgentFiles : disk[f] # None => disk[f].whole

VARIABLES
    roots,     \* the configuration, fixed at the start
    fs,        \* the ciphertext files
    temps,     \* temporary names lying in each human directory
    lock,      \* holder of the exclusive flock on each directory
    pc, cmd,   \* each process's place and command line
    human,     \* HumanNames: the files the context load listed
    next,      \* the next root lock_roots takes
    target,    \* the file being edited
    before,    \* its content when the process staged it
    seen,      \* its content at the re-read before the rename
    draft,     \* the names of the new content
    scratch,   \* the plaintext scratch file
    synced     \* how many times the sync tool has written

vars == <<roots, fs, temps, lock, pc, cmd, human, next, target, before, seen,
          draft, scratch, synced>>
files == <<roots, fs, temps, synced>>
locals == <<cmd, human, target, before, seen, draft, scratch>>

-----------------------------------------------------------------------------
(* Names a human directory holds are classified by their suffix: a         *)
(* ciphertext temporary has none and is skipped, a stage ends in .env and   *)
(* is not a key name.                                                      *)
CiphertextTemp == "ciphertext"
StageTemp == "stage.env"

parse_human_file_name(temp) == IF temp = StageTemp THEN "invalid" ELSE "ignored"

(* One listing of the configured human directories; a directory configured *)
(* twice is listed twice.                                                  *)
Listed(i) == {f \in HumanFiles : f.dir = roots[i].dir /\ fs[f] # None}

LoadFails ==
    \/ \E i \in DOMAIN roots, t \in UNION {temps[d] : d \in Dirs} :
          t \in temps[roots[i].dir] /\ parse_human_file_name(t) = "invalid"
    \/ \E i \in DOMAIN roots : \E f, g \in Listed(i) : f # g /\ f.name = g.name
    \/ \E i, j \in DOMAIN roots :
          i # j /\ \E f \in Listed(i), g \in Listed(j) : f.name = g.name

Load == UNION {Listed(i) : i \in DOMAIN roots}

(* AgentStore::names_in: sops leaves the names of a dotenv file readable.  *)
names_in(f) == IF fs[f] = None THEN {} ELSE fs[f].names

(* AgentStore::contains: the names in the agent files of every root.       *)
agent_contains(name) ==
    \E f \in AgentFiles :
        /\ \E i \in DOMAIN roots : roots[i].dir = f.dir
        /\ name \in names_in(f)

(* ensure_no_human_clash: the human tier, listed again now.                *)
clashes(names) == LoadFails \/ \E f \in Load : f.name \in names

select_named_root(source) == {i \in DOMAIN roots : roots[i].name = source}

select_root(source) ==
    IF source = None
    THEN IF Len(roots) = 1 THEN {1} ELSE {}
    ELSE select_named_root(source)

agent_path(c) ==
    LET i == CHOOSE i \in select_root(c.source) : TRUE
    IN  [tier |-> "agent", dir |-> roots[i].dir, local |-> c.local]

new_human_path(c) ==
    LET i == CHOOSE i \in select_root(c.source) : TRUE
    IN  [tier |-> "human", dir |-> roots[i].dir, local |-> c.local, name |-> c.name]

(* existing_human_path: the arguments must not contradict where the key is. *)
EditConflict(c, location) ==
    \/ /\ c.source # None
       /\ \A i \in select_named_root(c.source) : roots[i].dir # location.dir
    \/ c.local /\ ~location.local

-----------------------------------------------------------------------------
EmptyScratch == [original |-> "prefill", replaced |-> None,
                 edited |-> FALSE, linked |-> TRUE, editor |-> None]

(* A bug: the client keeps only its first descriptor of the scratch file.  *)
KeepsOriginal(s) == s

(* reopen_after_editor, when it succeeds: opens what the path names now.   *)
reopen_after_editor(s) == [s EXCEPT !.edited = TRUE]

(* PlaintextTemp::drop: the opened edited inode and the original inode are *)
(* overwritten, then the path is removed; none of these writes fails.      *)
drop_scratch(s) ==
    IF s = None THEN None
    ELSE [s EXCEPT
            !.original = "zero",
            !.replaced = IF s.edited /\ s.replaced # None THEN "zero" ELSE s.replaced,
            !.linked = FALSE]

Goto(w, l) == pc' = [pc EXCEPT ![w] = l]

Unlock(w) == lock' = [d \in Dirs |-> IF lock[d] = w THEN None ELSE lock[d]]

(* The process leaves: the scratch is dropped, then the flock guards.      *)
Leave(w) == Goto(w, "done") /\ Unlock(w)

Finish(w) ==
    /\ Leave(w)
    /\ scratch' = [scratch EXCEPT ![w] = drop_scratch(@)]

(* A content takes its place whole, by rename.                             *)
Publish(w, f) ==
    fs' = [fs EXCEPT ![f] = [names |-> draft[w], by |-> w, whole |-> TRUE]]

AddTemp(f, t) ==
    temps' = IF f.tier = "human" THEN [temps EXCEPT ![f.dir] = @ \cup {t}] ELSE temps
DropTemp(f, t) ==
    temps' = IF f.tier = "human" THEN [temps EXCEPT ![f.dir] = @ \ {t}] ELSE temps

-----------------------------------------------------------------------------
(* Context::from_environment, then the checks made before the lock: a      *)
(* listing that fails or a source that cannot be selected ends the command. *)
run(w, c) ==
    /\ pc[w] = "new"
    /\ cmd' = [cmd EXCEPT ![w] = c]
    /\ IF LoadFails \/ (c.door = "agent" /\ select_root(c.source) = {})
       THEN Goto(w, "done") /\ UNCHANGED <<human, next>>
       ELSE /\ Goto(w, "lock")
            /\ human' = [human EXCEPT ![w] = Load]
            /\ next' = [next EXCEPT ![w] = 1]
    /\ UNCHANGED <<files, lock, target, before, seen, draft, scratch>>

(* A bug: a directory configured under two names is locked twice.          *)
LockAliasTwice(w) ==
    /\ pc[w] = "lock"
    /\ LET d == roots[next[w]].dir IN
         /\ lock[d] = None
         /\ lock' = [lock EXCEPT ![d] = w]
    /\ next' = [next EXCEPT ![w] = @ + 1]
    /\ Goto(w, IF next[w] = Len(roots) THEN "door" ELSE "lock")
    /\ UNCHANGED <<files, locals>>

(* A bug: only the edited root is locked.                                  *)
LockOwnRoot(w) ==
    /\ pc[w] = "lock"
    /\ LET d == roots[next[w]].dir IN
         IF cmd[w].source # roots[next[w]].name
         THEN UNCHANGED lock
         ELSE lock[d] \in {None, w} /\ lock' = [lock EXCEPT ![d] = w]
    /\ next' = [next EXCEPT ![w] = @ + 1]
    /\ Goto(w, IF next[w] = Len(roots) THEN "door" ELSE "lock")
    /\ UNCHANGED <<files, locals>>

(* lock_roots: the next root in configuration order; a directory already   *)
(* locked under another name is skipped.                                   *)
lock_roots(w) ==
    /\ pc[w] = "lock"
    /\ LET d == roots[next[w]].dir IN
         /\ lock[d] \in {None, w}
         /\ lock' = [lock EXCEPT ![d] = w]
    /\ next' = [next EXCEPT ![w] = @ + 1]
    /\ Goto(w, IF next[w] = Len(roots) THEN "door" ELSE "lock")
    /\ UNCHANGED <<files, locals>>

Opened(w, f, l) ==
    /\ target' = [target EXCEPT ![w] = f]
    /\ before' = [before EXCEPT ![w] = fs[f]]
    /\ Goto(w, l)

(* The agent door: an existing file is staged, a new one is written from a *)
(* plaintext scratch.                                                      *)
edit_agent_door(w) ==
    /\ pc[w] = "door" /\ cmd[w].door = "agent"
    /\ LET f == agent_path(cmd[w]) IN
         IF fs[f] # None
         THEN Opened(w, f, "stage") /\ UNCHANGED scratch
         ELSE /\ Opened(w, f, "editor")
              /\ scratch' = [scratch EXCEPT ![w] = EmptyScratch]
    /\ UNCHANGED <<files, lock, cmd, human, next, seen, draft>>

(* The human door: refused while the agent tier holds the name; the path   *)
(* comes from the listing the context made before the lock.                *)
edit_human_door(w) ==
    /\ pc[w] = "door" /\ cmd[w].door = "human"
    /\ LET c == cmd[w]
           locations == {f \in human[w] : f.name = c.name} IN
         \/ /\ \/ agent_contains(c.name)
               \/ \E f \in locations : EditConflict(c, f)
               \/ locations = {} /\ select_root(c.source) = {}
            /\ Finish(w) /\ UNCHANGED <<target, before>>
         \/ /\ ~agent_contains(c.name)
            /\ \E f \in locations :
                  /\ ~EditConflict(c, f)
                  /\ Opened(w, f, IF c.piped THEN "stdin" ELSE "in_place")
            /\ UNCHANGED <<lock, scratch>>
         \/ /\ ~agent_contains(c.name) /\ locations = {} /\ select_root(c.source) # {}
            /\ Opened(w, new_human_path(c), IF c.piped THEN "stdin" ELSE "editor")
            /\ scratch' = IF c.piped THEN scratch
                          ELSE [scratch EXCEPT ![w] = EmptyScratch]
            /\ UNCHANGED lock
    /\ UNCHANGED <<files, cmd, human, next, seen, draft>>

-----------------------------------------------------------------------------
(* An existing agent file: sops edits the stage beside it.                 *)
sops_edits_stage(w) ==
    /\ pc[w] = "stage"
    /\ \/ Finish(w) /\ UNCHANGED draft                        \* sops failed
       \/ \E names \in SUBSET Names :
             /\ draft' = [draft EXCEPT ![w] = names]
             /\ Goto(w, "reread") /\ UNCHANGED <<lock, scratch>>
    /\ UNCHANGED <<files, cmd, human, next, target, before, seen>>

(* The staged names are checked against the human tier and the original is *)
(* read again: it must still hold the bytes that were staged.              *)
reread(w) ==
    /\ pc[w] = "reread"
    /\ \/ Finish(w) /\ UNCHANGED seen                         \* refused, or unreadable
       \/ /\ ~clashes(draft[w]) /\ fs[target[w]] = before[w]
          /\ seen' = [seen EXCEPT ![w] = fs[target[w]]]
          /\ Goto(w, "rename") /\ UNCHANGED <<lock, scratch>>
    /\ UNCHANGED <<files, cmd, human, next, target, before, draft>>

rename_stage(w) ==
    /\ pc[w] = "rename"
    /\ UNCHANGED fs \/ Publish(w, target[w])
    /\ Finish(w)
    /\ UNCHANGED <<roots, temps, synced, cmd, human, next, target, before, seen, draft>>

(* sops edits a human file in place; nothing checks what it left.          *)
sops_edits_in_place(w) ==
    /\ pc[w] = "in_place"
    /\ Finish(w)
    /\ \/ UNCHANGED fs                                        \* sops failed
       \/ \E names \in SUBSET Names :
             fs' = [fs EXCEPT ![target[w]] = [names |-> names, by |-> w, whole |-> TRUE]]
    /\ UNCHANGED <<roots, temps, synced, cmd, human, next, target, before, seen, draft>>

-----------------------------------------------------------------------------
(* A new file: the editor writes the secret into the scratch file, in      *)
(* place or by renaming a file of its own over it, and exits.              *)
run_editor(w) ==
    /\ pc[w] = "editor"
    /\ \E ok \in BOOLEAN, byRename \in BOOLEAN, names \in SUBSET Names :
         LET s == [scratch[w] EXCEPT
                     !.original = IF byRename THEN @ ELSE "secret",
                     !.replaced = IF byRename THEN "secret" ELSE @,
                     !.editor = IF ok THEN "ok" ELSE "failed"]
         IN  IF ok
             THEN /\ scratch' = [scratch EXCEPT ![w] = s]
                  /\ draft' = [draft EXCEPT ![w] = names]
                  /\ Goto(w, "reopen") /\ UNCHANGED lock
             ELSE /\ Leave(w)
                  /\ scratch' = [scratch EXCEPT ![w] = drop_scratch(s)]
                  /\ UNCHANGED draft
    /\ UNCHANGED <<files, cmd, human, next, target, before, seen>>

(* parse_single_assignment: exactly one assignment, of the expected name.  *)
parse_single_assignment(names, expected) == names = {expected}

(* The edited file is opened again and passes its tier's check: a human    *)
(* file is one assignment of its key, an agent file has no name of the     *)
(* human tier.  It may be gone, a link or not the user's own; what was     *)
(* opened may be unreadable, or be refused.                                *)
validate(w) ==
    /\ pc[w] = "reopen"
    /\ LET s == reopen_after_editor(scratch[w])
           valid == IF cmd[w].door = "human"
                    THEN parse_single_assignment(draft[w], cmd[w].name)
                    ELSE ~clashes(draft[w])
       IN  \/ /\ Leave(w)
              /\ \E left \in {[scratch[w] EXCEPT !.editor = "lost"], s} :
                    scratch' = [scratch EXCEPT ![w] = drop_scratch(left)]
           \/ /\ valid
              /\ scratch' = [scratch EXCEPT ![w] = s]
              /\ Goto(w, "encrypt") /\ UNCHANGED lock
    /\ UNCHANGED <<files, cmd, human, next, target, before, seen, draft>>

(* encrypt: the ciphertext goes to a temporary file beside the target, if  *)
(* one can be made there.                                                  *)
encrypt(w) ==
    /\ pc[w] = "encrypt"
    /\ \/ Finish(w) /\ UNCHANGED temps
       \/ AddTemp(target[w], CiphertextTemp) /\ Goto(w, "install")
          /\ UNCHANGED <<lock, scratch>>
    /\ UNCHANGED <<roots, fs, synced, cmd, human, next, target, before, seen, draft>>

(* A bug: the new file is renamed over whatever is there.                  *)
InstallClobbers(w) ==
    /\ pc[w] = "install"
    /\ DropTemp(target[w], CiphertextTemp)
    /\ Finish(w)
    /\ UNCHANGED fs \/ Publish(w, target[w])
    /\ UNCHANGED <<roots, synced, cmd, human, next, target, before, seen, draft>>

(* persist_noclobber fails when the target exists; a failed sops or a      *)
(* failed install removes the temporary file.                              *)
install(w) ==
    /\ pc[w] = "install"
    /\ DropTemp(target[w], CiphertextTemp)
    /\ Finish(w)
    /\ \/ UNCHANGED fs
       \/ fs[target[w]] = None /\ Publish(w, target[w])
    /\ UNCHANGED <<roots, synced, cmd, human, next, target, before, seen, draft>>

(* read_piped_assignment: an empty or multi-line value ends the command.   *)
read_piped_assignment(w) ==
    /\ pc[w] = "stdin"
    /\ \/ Finish(w) /\ UNCHANGED draft
       \/ /\ draft' = [draft EXCEPT ![w] = {cmd[w].name}]
          /\ Goto(w, "sops") /\ UNCHANGED <<lock, scratch>>
    /\ UNCHANGED <<files, cmd, human, next, target, before, seen>>

(* encrypt_bytes: sops failing, or printing more than the limit, ends the  *)
(* command before anything is written beside the target.                   *)
encrypt_bytes(w) ==
    /\ pc[w] = "sops"
    /\ \/ Finish(w) /\ UNCHANGED temps
       \/ AddTemp(target[w], CiphertextTemp) /\ Goto(w, "persist")
          /\ UNCHANGED <<lock, scratch>>
    /\ UNCHANGED <<roots, fs, synced, cmd, human, next, target, before, seen, draft>>

persist(w) ==
    /\ pc[w] = "persist"
    /\ DropTemp(target[w], CiphertextTemp)
    /\ UNCHANGED fs \/ Publish(w, target[w])
    /\ Finish(w)
    /\ UNCHANGED <<roots, synced, cmd, human, next, target, before, seen, draft>>

-----------------------------------------------------------------------------
(* SIGKILL: the locks go, the temporary files stay, and a file sops was    *)
(* rewriting in place may be cut short.                                    *)
Killed(w) ==
    /\ pc[w] \notin {"new", "done"}
    /\ Goto(w, "killed")
    /\ Unlock(w)
    /\ \/ UNCHANGED fs
       \/ pc[w] = "in_place" /\ fs' = [fs EXCEPT ![target[w]].whole = FALSE]
    /\ UNCHANGED <<roots, temps, synced, locals, next>>

(* The sync tool brings a newer content of an agent file, or creates one   *)
(* that assigns nothing; it takes no lock.                                 *)
SyncWrites(f) ==
    /\ synced < MaxSync
    /\ synced' = synced + 1
    /\ fs' = [fs EXCEPT ![f] = [names |-> IF @ = None THEN {} ELSE @.names,
                                by |-> Sync, whole |-> TRUE]]
    /\ UNCHANGED <<roots, temps, lock, pc, locals, next>>

Init ==
    /\ roots \in Configs
    /\ fs \in Disks
    /\ temps = [d \in Dirs |-> {}]
    /\ ~LoadFails
    /\ \A f \in Load : ~agent_contains(f.name)
    /\ lock = [d \in Dirs |-> None]
    /\ pc = [w \in Writers |-> "new"]
    /\ cmd = [w \in Writers |-> None]
    /\ human = [w \in Writers |-> {}]
    /\ next = [w \in Writers |-> 1]
    /\ target = [w \in Writers |-> None]
    /\ before = [w \in Writers |-> None]
    /\ seen = [w \in Writers |-> None]
    /\ draft = [w \in Writers |-> {}]
    /\ scratch = [w \in Writers |-> None]
    /\ synced = 0

Step(w) ==
    \/ lock_roots(w)
    \/ edit_agent_door(w) \/ edit_human_door(w)
    \/ sops_edits_stage(w) \/ reread(w) \/ rename_stage(w)
    \/ sops_edits_in_place(w)
    \/ run_editor(w) \/ validate(w) \/ encrypt(w) \/ install(w)
    \/ read_piped_assignment(w) \/ encrypt_bytes(w) \/ persist(w)

Next ==
    \/ \E w \in Writers : \E c \in Commands : run(w, c)
    \/ \E w \in Writers : Step(w)
    \/ \E w \in Writers : Killed(w)
    \/ \E f \in AgentFiles : SyncWrites(f)

(* An editor, sops and standard input come to an end; a waiter on a flock  *)
(* that is released again and again gets it.                               *)
Spec == Init /\ [][Next]_vars /\ \A w \in Writers : SF_vars(Step(w))

-----------------------------------------------------------------------------
(* The steps a process takes with every root locked.                       *)
AgentSteps == {"stage", "reread", "rename"}
NewFileSteps == {"editor", "reopen", "encrypt", "install"}
HumanSteps == {"in_place", "stdin", "sops", "persist"}
Working == {"door"} \cup AgentSteps \cup NewFileSteps \cup HumanSteps

TypeOK ==
    /\ roots \in Configs
    /\ fs \in [Files -> Contents \cup {None}]
    /\ temps \in [Dirs -> SUBSET {CiphertextTemp}]
    /\ lock \in [Dirs -> Writers \cup {None}]
    /\ pc \in [Writers -> {"new", "lock", "done", "killed"} \cup Working]
    /\ cmd \in [Writers -> Commands \cup {None}]
    /\ human \in [Writers -> SUBSET HumanFiles]
    /\ next \in [Writers -> Nat \ {0}]
    /\ target \in [Writers -> Files \cup {None}]
    /\ before \in [Writers -> Contents \cup {None}]
    /\ seen \in [Writers -> Contents \cup {None}]
    /\ draft \in [Writers -> SUBSET Names]
    /\ scratch \in [Writers -> Scratches \cup {None}]

(* A key lives in one tier: whatever the doors' order, no name is at once  *)
(* in an agent file and the name of a human file of a configured root.     *)
OneTier == \A f \in Load : ~agent_contains(f.name)

(* What a command leaves behind: every agent file is a complete content,   *)
(* whichever process was killed at whichever step, and a command that came *)
(* to its end, in whatever way, has unlinked its scratch file and          *)
(* overwritten the inode it had created, and also the one that an editor   *)
(* saving by rename put in its place, once that one has been opened again. *)
LeavesNothingBehind ==
    /\ \A f \in AgentFiles : fs[f] # None => fs[f].whole
    /\ \A w \in Writers :
         pc[w] = "done" /\ scratch[w] # None
            => /\ scratch[w].original = "zero" /\ ~scratch[w].linked
               /\ scratch[w].editor = "ok" => scratch[w].replaced \in {None, "zero"}

(* No update of an agent file is lost: a process replaces the content it   *)
(* staged (nothing, for a new file), or one that the sync tool brought     *)
(* after the re-read.                                                      *)
NoLostUpdate ==
    [][\A f \in AgentFiles, w \in Writers :
          fs'[f] # fs[f] /\ fs'[f].by = w /\ (fs[f] = None \/ fs[f].by # w) =>
              \/ fs[f] = before[w]
              \/ fs[f].by = Sync /\ before[w] # None /\ seen[w] = before[w]]_vars

(* Every command ends: taking every root in one order, each directory      *)
(* once, leaves no two processes waiting on each other and none on itself. *)
CommandsEnd == \A w \in Writers : pc[w] = "lock" ~> pc[w] \in {"done", "killed"}

(* The writers serialize: a process that finds no human file of its key    *)
(* never puts a second one beside a first that another process published.  *)
OneHumanFile == \A f, g \in Load : f.name = g.name => f = g
=============================================================================
