--------------------------- MODULE EditSecretProof --------------------------
(***************************************************************************)
(* Proofs about the write doors of the `secrets` client: a key stays in    *)
(* one tier, no update is lost, nothing is left behind, and processes do   *)
(* not wait for each other's locks in a circle, for any number             *)
(* of processes, roots and keys, with processes killed and files synced at *)
(* any moment.                                                             *)
(***************************************************************************)
EXTENDS EditSecret, WellFoundedInduction, NaturalsInduction, TLAPS

\* Zenon is the default prover of this module; a leaf that needs arithmetic,
\* records or a longer search says SMT.
USE Zenon

\* A process holds the locks it has passed, and every root's while it works.
Locked(w) ==
    /\ pc[w] = "lock" => /\ next[w] \in DOMAIN roots
                         /\ \A i \in DOMAIN roots : i < next[w] => lock[roots[i].dir] = w
    /\ pc[w] \in Working => \A i \in DOMAIN roots : lock[roots[i].dir] = w

\* What a process is at work on: its own tier's file, and for a human file the
\* one of its key.  A human file it has listed does not go away.
Aimed(w) ==
    /\ pc[w] # "new" => cmd[w] \in Commands
    /\ \A f \in human[w] : fs[f] # None
    /\ pc[w] \in AgentSteps =>
         cmd[w].door = "agent" /\ target[w] \in AgentFiles /\ before[w] # None
    /\ pc[w] \in NewFileSteps /\ cmd[w].door = "agent" =>
         target[w] \in AgentFiles /\ before[w] = None
    /\ pc[w] \in NewFileSteps /\ cmd[w].door = "human" =>
         target[w] \in HumanFiles /\ target[w].name = cmd[w].name
    /\ pc[w] \in HumanSteps =>
         cmd[w].door = "human" /\ target[w] \in HumanFiles /\ target[w].name = cmd[w].name
    /\ pc[w] = "in_place" => fs[target[w]] # None
    /\ pc[w] \in {"lock", "door"} /\ cmd[w].door = "agent" =>
         select_root(cmd[w].source) # {}

\* What a process has checked about the other tier still holds.
Checked(w) ==
    /\ pc[w] \in NewFileSteps \cup HumanSteps /\ cmd[w].door = "human" =>
         ~ agent_contains(cmd[w].name)
    /\ pc[w] = "rename" \/ (pc[w] \in {"encrypt", "install"} /\ cmd[w].door = "agent") =>
         \A f \in Load : f.name \notin draft[w]

\* From the re-read on, only the sync tool has touched the file.
Reread(w) ==
    pc[w] = "rename" =>
        /\ seen[w] = before[w] /\ fs[target[w]] # None
        /\ fs[target[w]] = before[w] \/ fs[target[w]].by = Sync

\* The plaintext: the edited file is opened before anything can end well.
Clean(w) ==
    /\ pc[w] = "new" => scratch[w] = None
    /\ pc[w] \in NewFileSteps => scratch[w] # None
    /\ pc[w] \in {"encrypt", "install"} => scratch[w].edited
    /\ pc[w] \notin {"reopen", "encrypt", "install", "done", "killed"} /\ scratch[w] # None =>
         scratch[w].editor # "ok"
    /\ pc[w] = "done" /\ scratch[w] # None =>
         /\ scratch[w].original = "zero" /\ ~ scratch[w].linked
         /\ scratch[w].editor = "ok" => scratch[w].replaced \in {None, "zero"}

AgentWhole == \A f \in AgentFiles : fs[f] # None => fs[f].whole

ProcOK(w) == Locked(w) /\ Aimed(w) /\ Checked(w) /\ Reread(w) /\ Clean(w)

EditInv == TypeOK /\ OneTier /\ AgentWhole /\ \A w \in Writers : ProcOK(w)

-----------------------------------------------------------------------------
\* The configured roots: at least one, each a directory.
LEMMA Roots ==
    ASSUME TypeOK
    PROVE  /\ Len(roots) \in Nat \ {0} /\ DOMAIN roots = 1..Len(roots)
           /\ \A i \in DOMAIN roots : roots[i].dir \in Dirs
<1> DEFINE Root == [name : STRING, path : STRING, dir : Dirs]
<1>1. roots \in Seq(Root) /\ roots # <<>>
  BY EditConstants DEF TypeOK, parse_sources
<1>2. \A r \in Root : r.dir \in Dirs
  OBVIOUS
<1> HIDE DEF Root
<1>3. Len(roots) \in Nat \ {0} /\ DOMAIN roots = 1..Len(roots)
  BY <1>1, SMT
<1>4. \A i \in 1..Len(roots) : roots[i] \in Root
  BY <1>1, SMT
<1> QED
  BY <1>2, <1>3, <1>4

\* The two tiers' files are different files.
LEMMA Tiers == \A f \in AgentFiles, g \in HumanFiles : f # g /\ f \in Files /\ g \in Files
<1>1. \A f \in AgentFiles : f.tier = "agent"
  BY DEF AgentFiles
<1>2. \A f \in HumanFiles : f.tier = "human"
  BY DEF HumanFiles
<1> QED
  BY <1>1, <1>2 DEF Files

\* What the listing and the agent tier say depends on the files alone.
LEMMA SameFiles ==
    ASSUME UNCHANGED <<roots, fs>>
    PROVE  Load' = Load /\ \A n : agent_contains(n)' <=> agent_contains(n)
<1>1. Load' = Load
  BY SMT DEF Load, Listed
<1>2. \A n : agent_contains(n)' <=> agent_contains(n)
  BY DEF agent_contains, names_in
<1> QED
  BY <1>1, <1>2

\* So does that a key is in one tier, and that the agent files are whole.
LEMMA SameTiers ==
    ASSUME EditInv, UNCHANGED <<roots, fs>>
    PROVE  OneTier' /\ AgentWhole'
<1>1. OneTier'
  BY SameFiles DEF EditInv, OneTier
<1>2. AgentWhole'
  BY DEF EditInv, AgentWhole
<1> QED
  BY <1>1, <1>2

\* The first root's lock keeps any two processes from working at once.
LEMMA Alone ==
    ASSUME EditInv, NEW w \in Writers, NEW v \in Writers, pc[w] \in Working, pc[v] \in Working
    PROVE  v = w
<1>1. 1 \in DOMAIN roots
  BY Roots, SMT DEF EditInv
<1>2. lock[roots[1].dir] = w /\ lock[roots[1].dir] = v
  BY <1>1 DEF EditInv, ProcOK, Locked
<1> QED
  BY <1>2

\* A process that takes no part in a step.
Stays(v) ==
    /\ pc'[v] = pc[v] /\ cmd'[v] = cmd[v] /\ human'[v] = human[v] /\ next'[v] = next[v]
    /\ target'[v] = target[v] /\ before'[v] = before[v] /\ seen'[v] = seen[v]
    /\ draft'[v] = draft[v] /\ scratch'[v] = scratch[v]

\* What a step of w does to the state the processes share: it takes free locks
\* or drops its own, and writes only while it works.
Shared(w) ==
    /\ UNCHANGED roots
    /\ \A v \in Writers \ {w} : Stays(v)
    /\ \A d \in Dirs : lock[d] \notin {w, None} => lock'[d] = lock[d]
    /\ \/ UNCHANGED fs
       \/ pc[w] \in Working /\ \A f \in Files : fs[f] # None => fs'[f] # None

\* Such a step does not disturb another process.
LEMMA OthersKeep ==
    ASSUME EditInv, NEW w \in Writers, Shared(w), NEW v \in Writers \ {w}
    PROVE  ProcOK(v)'
<1>0. ProcOK(v) /\ Stays(v) /\ UNCHANGED roots /\ TypeOK /\ v # None
  BY EditConstants DEF EditInv, Shared
<1>1. \A f \in Files : fs[f] # None => fs'[f] # None
  BY DEF Shared
<1>2. Locked(v)'
  <2>1. \A i \in DOMAIN roots : lock[roots[i].dir] = v => lock'[roots[i].dir] = v
    BY <1>0, Roots DEF Shared
  <2> QED
    BY <1>0, <2>1 DEF ProcOK, Locked, Stays
<1>3. Aimed(v)'
  <2>1. human[v] \subseteq HumanFiles /\ \A f \in HumanFiles : f \in Files
    BY <1>0 DEF TypeOK, Files
  <2>2. select_root(cmd[v].source)' = select_root(cmd[v].source)
    BY <1>0 DEF select_root, select_named_root, Stays
  <2>3. \A f \in human'[v] : fs'[f] # None
    BY <1>0, <1>1, <2>1 DEF ProcOK, Aimed, Stays
  <2>4. pc'[v] = "in_place" => fs'[target'[v]] # None
    BY <1>0, <1>1, <2>1 DEF ProcOK, Aimed, Stays, HumanSteps
  <2> QED
    BY <1>0, <2>2, <2>3, <2>4 DEF ProcOK, Aimed, Stays
<1>4. Checked(v)' /\ Reread(v)'
  <2>1. CASE UNCHANGED fs
    <3>1. Checked(v)'
      BY <1>0, <2>1, SameFiles DEF ProcOK, Checked, Stays
    <3>2. Reread(v)'
      BY <1>0, <2>1 DEF ProcOK, Reread, Stays
    <3> QED
      BY <3>1, <3>2
  <2>2. CASE pc[w] \in Working
    <3>1. pc'[v] \notin Working
      BY <1>0, <2>2, Alone DEF Stays
    <3> QED
      BY <3>1 DEF Checked, Reread, Working, NewFileSteps, HumanSteps, AgentSteps
  <2> QED
    BY <2>1, <2>2 DEF Shared
<1>5. Clean(v)'
  BY <1>0 DEF ProcOK, Clean, Stays
<1> QED
  BY <1>2, <1>3, <1>4, <1>5 DEF ProcOK

\* A step that writes no file keeps the invariant if its own process is right.
LEMMA QuietStep ==
    ASSUME EditInv, NEW w \in Writers, Shared(w), UNCHANGED fs, TypeOK', ProcOK(w)'
    PROVE  EditInv'
<1>1. OneTier' /\ AgentWhole'
  BY SameTiers DEF Shared
<1>2. \A v \in Writers : ProcOK(v)'
  BY OthersKeep
<1> QED
  BY <1>1, <1>2 DEF EditInv

\* Dropping the scratch file overwrites what the client can still reach.
LEMMA DropScratch ==
    ASSUME NEW s \in Scratches \cup {None},
           s # None /\ s.editor = "ok" => s.edited
    PROVE  /\ drop_scratch(s) \in Scratches \cup {None}
           /\ drop_scratch(s) # None =>
                /\ drop_scratch(s).original = "zero" /\ ~ drop_scratch(s).linked
                /\ drop_scratch(s).editor = "ok" => drop_scratch(s).replaced \in {None, "zero"}
<1>1. CASE s = None
  BY <1>1 DEF drop_scratch
<1>2. CASE s # None
  <2> DEFINE r == IF s.edited /\ s.replaced # None THEN "zero" ELSE s.replaced
             x == [s EXCEPT !.original = "zero", !.replaced = r, !.linked = FALSE]
  <2>1. s \in Scratches /\ drop_scratch(s) = x
    BY <1>2 DEF drop_scratch
  <2>2. r \in Inode \cup {None} /\ (s.edited => r \in {None, "zero"})
    BY <2>1 DEF Scratches, Inode
  <2> HIDE DEF r
  <2>3. /\ x \in Scratches /\ x.original = "zero" /\ x.replaced = r /\ x.linked = FALSE
        /\ x.editor = s.editor
    BY <2>1, <2>2 DEF Scratches, Inode
  <2> HIDE DEF x
  <2> QED
    BY <1>2, <2>1, <2>2, <2>3
<1> QED
  BY <1>1, <1>2

\* A process that leaves drops its locks and its scratch file.
LEMMA LeaveKeeps ==
    ASSUME EditInv, NEW w \in Writers, pc[w] \in Working, Leave(w),
           NEW s \in Scratches \cup {None}, s # None /\ s.editor = "ok" => s.edited,
           scratch' = [scratch EXCEPT ![w] = drop_scratch(s)],
           UNCHANGED <<roots, cmd, human, next, target, before, seen, draft>>,
           \A f \in Files : fs[f] # None => fs'[f] # None
    PROVE  /\ Shared(w) /\ ProcOK(w)'
           /\ fs' \in [Files -> Contents \cup {None}]
              /\ temps' \in [Dirs -> SUBSET {CiphertextTemp}] => TypeOK'
<1>0. TypeOK /\ ProcOK(w)
  BY DEF EditInv
<1>1. /\ drop_scratch(s) \in Scratches \cup {None}
      /\ drop_scratch(s) # None =>
           /\ drop_scratch(s).original = "zero" /\ ~ drop_scratch(s).linked
           /\ drop_scratch(s).editor = "ok" => drop_scratch(s).replaced \in {None, "zero"}
  BY DropScratch
<1>2. pc'[w] = "done" /\ scratch'[w] = drop_scratch(s)
  BY <1>0 DEF TypeOK, Leave, Goto
<1>3. /\ pc' \in [Writers -> {"new", "lock", "done", "killed"} \cup Working]
      /\ scratch' \in [Writers -> Scratches \cup {None}]
      /\ lock' \in [Dirs -> Writers \cup {None}]
      /\ \A d \in Dirs : lock[d] \notin {w, None} => lock'[d] = lock[d]
  BY <1>0, <1>1 DEF TypeOK, Leave, Goto, Unlock
<1>4. \A v \in Writers \ {w} : Stays(v)
  BY <1>0 DEF TypeOK, Leave, Goto, Stays
<1>5. Shared(w)
  BY <1>3, <1>4 DEF Shared
<1>6. ProcOK(w)'
  <2>1. Locked(w)' /\ Checked(w)' /\ Reread(w)'
    BY <1>2 DEF Locked, Checked, Reread, Working, AgentSteps, NewFileSteps, HumanSteps
  <2>2. Aimed(w)'
    <3>1. cmd'[w] \in Commands
      BY <1>0 DEF ProcOK, Aimed, Working, AgentSteps, NewFileSteps, HumanSteps
    <3>2. \A f \in human'[w] : fs'[f] # None
      BY <1>0 DEF ProcOK, Aimed, TypeOK, Files
    <3> QED
      BY <1>2, <3>1, <3>2 DEF Aimed, AgentSteps, NewFileSteps, HumanSteps
  <2>3. Clean(w)'
    BY <1>1, <1>2 DEF Clean, NewFileSteps
  <2> QED
    BY <2>1, <2>2, <2>3 DEF ProcOK
<1>7. ASSUME fs' \in [Files -> Contents \cup {None}], temps' \in [Dirs -> SUBSET {CiphertextTemp}]
      PROVE  TypeOK'
  BY <1>0, <1>3, <1>7 DEF TypeOK
<1> QED
  BY <1>5, <1>6, <1>7

\* Everywhere but between the editor's end and the re-opening, a process can
\* leave with its scratch file as it is.
LEMMA FinishKeeps ==
    ASSUME EditInv, NEW w \in Writers, pc[w] \in Working \ {"reopen"}, Finish(w),
           UNCHANGED <<roots, cmd, human, next, target, before, seen, draft>>,
           \A f \in Files : fs[f] # None => fs'[f] # None
    PROVE  /\ Shared(w) /\ ProcOK(w)'
           /\ fs' \in [Files -> Contents \cup {None}]
              /\ temps' \in [Dirs -> SUBSET {CiphertextTemp}] => TypeOK'
<1>1. scratch[w] \in Scratches \cup {None}
  BY DEF EditInv, TypeOK
<1>2. scratch[w] # None /\ scratch[w].editor = "ok" => scratch[w].edited
  BY DEF EditInv, ProcOK, Clean, Working, AgentSteps, NewFileSteps, HumanSteps
<1>3. Leave(w) /\ scratch' = [scratch EXCEPT ![w] = drop_scratch(scratch[w])]
  BY DEF Finish
<1> QED
  BY <1>1, <1>2, <1>3, LeaveKeeps

\* The temporary file beside a target.
LEMMA TempsTyped ==
    ASSUME temps \in [Dirs -> SUBSET {CiphertextTemp}], NEW f \in Files,
           AddTemp(f, CiphertextTemp) \/ DropTemp(f, CiphertextTemp)
    PROVE  temps' \in [Dirs -> SUBSET {CiphertextTemp}]
<1>1. f.dir \in Dirs
  BY DEF Files, AgentFiles, HumanFiles
<1> QED
  BY <1>1 DEF AddTemp, DropTemp

\* A content written to an agent file, none of whose names a human file has.
LEMMA PublishAgent ==
    ASSUME EditInv, NEW f \in AgentFiles, NEW x \in Contents, x.whole,
           fs' = [fs EXCEPT ![f] = x], UNCHANGED roots,
           \A g \in Load : g.name \in x.names /\ (\E i \in DOMAIN roots : roots[i].dir = f.dir)
                            => agent_contains(g.name)
    PROVE  /\ OneTier' /\ AgentWhole' /\ fs' \in [Files -> Contents \cup {None}]
           /\ \A g \in Files : fs[g] # None => fs'[g] # None
<1>0. fs \in [Files -> Contents \cup {None}] /\ f \in Files /\ x # None
  BY EditConstants DEF EditInv, TypeOK, Files
<1>1. fs'[f] = x /\ \A g \in Files \ {f} : fs'[g] = fs[g]
  BY <1>0
<1>2. fs' \in [Files -> Contents \cup {None}] /\ \A g \in Files : fs[g] # None => fs'[g] # None
  BY <1>0
<1>3. AgentWhole'
  BY <1>0, <1>1 DEF EditInv, AgentWhole, Files
<1>4. Load' = Load
  <2>1. \A g \in HumanFiles : fs'[g] = fs[g]
    BY <1>1, Tiers
  <2>2. \A i \in DOMAIN roots : Listed(i)' = Listed(i)
    BY <2>1 DEF Listed
  <2> QED
    BY <2>2 DEF Load
<1>5. \A g \in Load : agent_contains(g.name)' => agent_contains(g.name)
  <2>1. SUFFICES ASSUME NEW g \in Load, agent_contains(g.name)' PROVE agent_contains(g.name)
    OBVIOUS
  <2>2. PICK h \in AgentFiles : /\ \E i \in DOMAIN roots : roots[i].dir = h.dir
                                 /\ g.name \in names_in(h)'
    BY <2>1 DEF agent_contains
  <2>3. CASE h = f
    BY <1>0, <1>1, <2>2, <2>3 DEF names_in
  <2>4. CASE h # f
    BY <1>1, <2>2, <2>4 DEF names_in, agent_contains, Files
  <2> QED
    BY <2>3, <2>4
<1> QED
  BY <1>2, <1>3, <1>4, <1>5 DEF OneTier, EditInv

\* A content written to the human file of a name the agent tier does not have.
LEMMA PublishHuman ==
    ASSUME EditInv, NEW f \in HumanFiles, NEW x \in Contents,
           fs' = [fs EXCEPT ![f] = x], UNCHANGED roots, ~ agent_contains(f.name)
    PROVE  /\ OneTier' /\ AgentWhole' /\ fs' \in [Files -> Contents \cup {None}]
           /\ \A g \in Files : fs[g] # None => fs'[g] # None
<1>0. fs \in [Files -> Contents \cup {None}] /\ f \in Files /\ x # None
  BY EditConstants DEF EditInv, TypeOK, Files
<1>1. \A g \in Files \ {f} : fs'[g] = fs[g]
  BY <1>0
<1>2. fs' \in [Files -> Contents \cup {None}] /\ \A g \in Files : fs[g] # None => fs'[g] # None
  BY <1>0
<1>3. \A g \in AgentFiles : fs'[g] = fs[g]
  BY <1>1, Tiers
<1>4. AgentWhole'
  BY <1>3 DEF EditInv, AgentWhole
<1>5. \A name : agent_contains(name)' => agent_contains(name)
  BY <1>3 DEF agent_contains, names_in
<1>6. \A g \in Load' : g = f \/ g \in Load
  BY <1>1, SMT DEF Load, Listed, Files
<1> QED
  BY <1>2, <1>4, <1>5, <1>6 DEF OneTier, EditInv

-----------------------------------------------------------------------------
\* Each step keeps the invariant.
Leaving == <<roots, cmd, human, next, target, before, seen, draft>>

\* A process that only leaves.
LEMMA FinishStep ==
    ASSUME EditInv, NEW w \in Writers, pc[w] \in Working \ {"reopen"}, Finish(w),
           UNCHANGED Leaving, UNCHANGED fs, temps' \in [Dirs -> SUBSET {CiphertextTemp}]
    PROVE  EditInv'
<1>1. fs' \in [Files -> Contents \cup {None}]
  BY DEF EditInv, TypeOK
<1>2. Shared(w) /\ ProcOK(w)' /\ TypeOK'
  BY <1>1, FinishKeeps DEF Leaving
<1> QED
  BY <1>2, QuietStep

\* The context load and the checks before the lock.
LEMMA RunKeeps ==
    ASSUME EditInv, NEW w \in Writers, NEW c \in Commands, run(w, c)
    PROVE  EditInv'
<1>0. TypeOK /\ ProcOK(w) /\ pc[w] = "new"
  BY DEF EditInv, run
<1>1. Load \subseteq HumanFiles /\ \A f \in Load : fs[f] # None
  BY DEF Load, Listed
<1>2. TypeOK'
  BY <1>0, <1>1, SMT DEF TypeOK, run, Goto, files, Working
<1>3. Shared(w) /\ UNCHANGED fs
  BY <1>0 DEF TypeOK, Shared, Stays, run, Goto, files
<1>4. cmd'[w] = c /\ scratch'[w] = scratch[w] /\ UNCHANGED <<roots, fs, lock>>
  BY <1>0 DEF TypeOK, run, files
<1>5. CASE LoadFails \/ (c.door = "agent" /\ select_root(c.source) = {})
  <2>1. pc'[w] = "done" /\ human'[w] = human[w]
    BY <1>0, <1>5 DEF TypeOK, run, Goto
  <2>2. ProcOK(w)'
    <3>1. Locked(w)' /\ Checked(w)' /\ Reread(w)'
      BY <2>1 DEF Locked, Checked, Reread, Working, AgentSteps, NewFileSteps, HumanSteps
    <3>2. Aimed(w)'
      BY <1>0, <1>4, <2>1 DEF ProcOK, Aimed, AgentSteps, NewFileSteps, HumanSteps
    <3>3. Clean(w)'
      BY <1>0, <1>4, <2>1 DEF ProcOK, Clean, NewFileSteps
    <3> QED
      BY <3>1, <3>2, <3>3 DEF ProcOK
  <2> QED
    BY <1>2, <1>3, <2>2, QuietStep
<1>6. CASE ~ (LoadFails \/ (c.door = "agent" /\ select_root(c.source) = {}))
  <2>1. pc'[w] = "lock" /\ human'[w] = Load /\ next'[w] = 1
    BY <1>0, <1>6 DEF TypeOK, run, Goto
  <2>2. ProcOK(w)'
    <3>1. Locked(w)'
      <4>1. 1 \in DOMAIN roots /\ \A i \in DOMAIN roots : ~ (i < 1)
        BY <1>0, Roots, SMT
      <4> QED
        BY <1>4, <2>1, <4>1 DEF Locked, Working, AgentSteps, NewFileSteps, HumanSteps
    <3>2. Checked(w)' /\ Reread(w)'
      BY <2>1 DEF Checked, Reread, AgentSteps, NewFileSteps, HumanSteps
    <3>3. Aimed(w)'
      <4>1. c.door = "agent" => select_root(c.source)' # {}
        BY <1>4, <1>6 DEF select_root, select_named_root
      <4> QED
        BY <1>1, <1>4, <2>1, <4>1 DEF Aimed, AgentSteps, NewFileSteps, HumanSteps
    <3>4. Clean(w)'
      BY <1>0, <1>4, <2>1 DEF ProcOK, Clean, NewFileSteps
    <3> QED
      BY <3>1, <3>2, <3>3, <3>4 DEF ProcOK
  <2> QED
    BY <1>2, <1>3, <2>2, QuietStep
<1> QED
  BY <1>5, <1>6

\* The locks are taken root after root; an alias is already held.
LEMMA LockKeeps ==
    ASSUME EditInv, NEW w \in Writers, lock_roots(w)
    PROVE  EditInv'
<1> DEFINE d == roots[next[w]].dir
<1>0. TypeOK /\ ProcOK(w) /\ pc[w] = "lock"
  BY DEF EditInv, lock_roots
<1>1. /\ next[w] \in DOMAIN roots /\ d \in Dirs /\ next[w] \in Nat \ {0}
      /\ Len(roots) \in Nat \ {0} /\ DOMAIN roots = 1..Len(roots)
      /\ \A i \in DOMAIN roots : roots[i].dir \in Dirs
  BY <1>0, Roots DEF ProcOK, Locked, TypeOK
<1>2. /\ lock[d] \in {None, w} /\ lock' = [lock EXCEPT ![d] = w]
      /\ pc' = [pc EXCEPT ![w] = IF next[w] = Len(roots) THEN "door" ELSE "lock"]
      /\ next' = [next EXCEPT ![w] = next[w] + 1] /\ UNCHANGED <<files, locals>>
  BY DEF lock_roots, Goto
<1> HIDE DEF d
<1>3. TypeOK'
  BY <1>0, <1>1, <1>2, SMT DEF TypeOK, files, locals, Working
<1>4. Shared(w) /\ UNCHANGED fs
  BY <1>0, <1>1, <1>2 DEF TypeOK, Shared, Stays, files, locals
<1>5. /\ pc'[w] \in {"door", "lock"} /\ next'[w] = next[w] + 1
      /\ (pc'[w] = "lock" <=> next[w] # Len(roots))
      /\ UNCHANGED <<roots, fs, cmd, human, scratch>>
  BY <1>0, <1>2 DEF TypeOK, files, locals
<1>6. lock'[d] = w /\ \A e \in Dirs \ {d} : lock'[e] = lock[e]
  BY <1>0, <1>1, <1>2 DEF TypeOK
<1>7. Locked(w)'
  <2>1. \A i \in DOMAIN roots : i < next[w] + 1 => lock'[roots[i].dir] = w
    <3>1. SUFFICES ASSUME NEW i \in DOMAIN roots, i < next[w] + 1 PROVE lock'[roots[i].dir] = w
      OBVIOUS
    <3>2. CASE i = next[w]
      BY <1>6, <3>2 DEF d
    <3>3. CASE i # next[w]
      <4>1. lock[roots[i].dir] = w
        BY <1>0, <1>1, <3>1, <3>3, SMT DEF ProcOK, Locked
      <4> QED
        BY <1>1, <1>6, <4>1
    <3> QED
      BY <3>2, <3>3
  <2>2. next[w] # Len(roots) => next[w] + 1 \in DOMAIN roots
    BY <1>1, SMT
  <2>3. next[w] = Len(roots) => \A i \in DOMAIN roots : lock'[roots[i].dir] = w
    BY <1>1, <2>1, SMT
  <2> QED
    BY <1>5, <2>1, <2>2, <2>3 DEF Locked, Working, AgentSteps, NewFileSteps, HumanSteps
<1>8. Aimed(w)'
  <2>1. select_root(cmd[w].source)' = select_root(cmd[w].source)
    BY <1>5 DEF select_root, select_named_root
  <2> QED
    BY <1>0, <1>5, <2>1 DEF ProcOK, Aimed, AgentSteps, NewFileSteps, HumanSteps
<1>9. Checked(w)' /\ Reread(w)' /\ Clean(w)'
  BY <1>0, <1>5 DEF ProcOK, Checked, Reread, Clean, AgentSteps, NewFileSteps, HumanSteps
<1> QED
  BY <1>3, <1>4, <1>7, <1>8, <1>9, QuietStep DEF ProcOK

\* A step from one place of the work to another that writes no file.
Onward(w, l) ==
    /\ pc[w] \in Working /\ l \in Working /\ Goto(w, l)
    /\ UNCHANGED <<roots, fs, lock, cmd, human, next>>
    /\ temps' \in [Dirs -> SUBSET {CiphertextTemp}]
    /\ target' \in [Writers -> Files \cup {None}]
    /\ before' \in [Writers -> Contents \cup {None}]
    /\ seen' \in [Writers -> Contents \cup {None}]
    /\ draft' \in [Writers -> SUBSET Names]
    /\ scratch' \in [Writers -> Scratches \cup {None}]
    /\ \A v \in Writers \ {w} :
         /\ target'[v] = target[v] /\ before'[v] = before[v] /\ seen'[v] = seen[v]
         /\ draft'[v] = draft[v] /\ scratch'[v] = scratch[v]

LEMMA OnwardKeeps ==
    ASSUME EditInv, NEW w \in Writers, NEW l, Onward(w, l)
    PROVE  /\ pc'[w] = l /\ TypeOK' /\ Locked(w)' /\ Shared(w) /\ UNCHANGED fs
           /\ cmd[w] \in Commands /\ \A f \in human'[w] : fs'[f] # None
<1>0. TypeOK /\ ProcOK(w)
  BY DEF EditInv
<1>1. pc'[w] = l /\ TypeOK'
  BY <1>0 DEF TypeOK, Onward, Goto
<1>2. Shared(w) /\ UNCHANGED fs
  BY <1>0 DEF TypeOK, Onward, Goto, Shared, Stays
<1>3. Locked(w)'
  BY <1>0, <1>1 DEF ProcOK, Locked, Onward, Working, AgentSteps, NewFileSteps, HumanSteps
<1>4. cmd[w] \in Commands /\ \A f \in human'[w] : fs'[f] # None
  BY <1>0 DEF ProcOK, Aimed, Onward, Working, AgentSteps, NewFileSteps, HumanSteps
<1> QED
  BY <1>1, <1>2, <1>3, <1>4

\* The paths a door writes to are files of its tier.
LEMMA Paths ==
    ASSUME TypeOK, NEW c \in Commands, select_root(c.source) # {}
    PROVE  /\ agent_path(c) \in AgentFiles
           /\ c.door = "human" => new_human_path(c) \in HumanFiles /\ new_human_path(c).name = c.name
<1> DEFINE k == CHOOSE i \in select_root(c.source) : TRUE
<1>1. k \in select_root(c.source)
  OBVIOUS
<1>2. k \in DOMAIN roots
  <2>1. 1 \in DOMAIN roots
    BY Roots, SMT
  <2> QED
    BY <1>1, <2>1, SMT DEF select_root, select_named_root
<1>3. roots[k].dir \in Dirs /\ c.local \in BOOLEAN /\ (c.door = "human" => c.name \in Names)
  <2>1. roots[k].dir \in Dirs
    BY <1>2, Roots
  <2>2. \A x \in Commands : x.local \in BOOLEAN /\ (x.door = "human" => x.name \in Names)
    BY EditConstants
  <2> QED
    BY <2>1, <2>2
<1>4. /\ agent_path(c) = [tier |-> "agent", dir |-> roots[k].dir, local |-> c.local]
      /\ new_human_path(c) = [tier |-> "human", dir |-> roots[k].dir, local |-> c.local, name |-> c.name]
  BY DEF agent_path, new_human_path
<1> HIDE DEF k
<1> QED
  BY <1>3, <1>4, SMT DEF AgentFiles, HumanFiles

LEMMA EmptyTyped ==
    EmptyScratch \in Scratches /\ EmptyScratch.editor # "ok" /\ EmptyScratch # None
<1>1. EmptyScratch \in Scratches
  BY DEF EmptyScratch, Scratches, Inode
<1>2. None # "ok" /\ None \notin Scratches
  BY EditConstants
<1> QED
  BY <1>1, <1>2 DEF EmptyScratch

\* A door opens its file.
LEMMA OpenKeeps ==
    ASSUME EditInv, NEW w \in Writers, pc[w] = "door", NEW f \in Files, NEW l \in Working,
           Opened(w, f, l), UNCHANGED <<files, lock, cmd, human, next, seen, draft>>,
           \/ scratch' = scratch /\ l \notin NewFileSteps
           \/ scratch' = [scratch EXCEPT ![w] = EmptyScratch] /\ l = "editor"
    PROVE  /\ Onward(w, l) /\ target'[w] = f /\ before'[w] = fs[f]
           /\ l \notin {"reopen", "encrypt", "install"} => Clean(w)'
<1>0. TypeOK /\ ProcOK(w) /\ pc[w] \in Working
  BY DEF EditInv, Working
<1>1. scratch' \in [Writers -> Scratches \cup {None}]
  BY <1>0, EmptyTyped DEF TypeOK
<1>2. Onward(w, l)
  BY <1>0, <1>1 DEF TypeOK, Onward, Opened, files
<1>3. target'[w] = f /\ before'[w] = fs[f] /\ pc'[w] = l
  BY <1>0 DEF TypeOK, Opened, Goto
<1>4. ASSUME l \notin {"reopen", "encrypt", "install"} PROVE Clean(w)'
  <2>1. l # "done" /\ l # "killed" /\ l # "new"
    BY DEF Working, AgentSteps, NewFileSteps, HumanSteps
  <2>2. CASE scratch' = scratch /\ l \notin NewFileSteps
    BY <1>0, <1>3, <1>4, <2>1, <2>2 DEF ProcOK, Clean
  <2>3. CASE scratch' = [scratch EXCEPT ![w] = EmptyScratch] /\ l = "editor"
    <3>1. scratch'[w] = EmptyScratch
      BY <1>0, <2>3 DEF TypeOK
    <3> QED
      BY <1>3, <2>3, <3>1, EmptyTyped DEF Clean
  <2> QED
    BY <2>2, <2>3
<1> QED
  BY <1>2, <1>3, <1>4

LEMMA AgentDoorKeeps ==
    ASSUME EditInv, NEW w \in Writers, edit_agent_door(w)
    PROVE  EditInv'
<1> DEFINE f == agent_path(cmd[w])
<1>0. TypeOK /\ ProcOK(w) /\ pc[w] = "door" /\ cmd[w].door = "agent"
  BY DEF EditInv, edit_agent_door
<1>1. cmd[w] \in Commands /\ f \in AgentFiles /\ f \in Files
  <2>1. cmd[w] \in Commands /\ select_root(cmd[w].source) # {}
    BY <1>0 DEF ProcOK, Aimed
  <2> QED
    BY <1>0, <2>1, Paths DEF Files
<1>2. \/ fs[f] # None /\ Opened(w, f, "stage") /\ UNCHANGED scratch
      \/ fs[f] = None /\ Opened(w, f, "editor") /\ scratch' = [scratch EXCEPT ![w] = EmptyScratch]
  BY DEF edit_agent_door
<1>3. UNCHANGED <<files, lock, cmd, human, next, seen, draft>>
  BY DEF edit_agent_door
<1> HIDE DEF f
<1>4. CASE fs[f] # None /\ Opened(w, f, "stage") /\ UNCHANGED scratch
  <2>1. Onward(w, "stage") /\ target'[w] = f /\ before'[w] = fs[f] /\ Clean(w)'
    <3>1. "stage" \in Working \ NewFileSteps
      BY DEF Working, AgentSteps, NewFileSteps
    <3> QED
      BY <1>0, <1>1, <1>3, <1>4, <3>1, OpenKeeps, SMT
  <2>2. pc'[w] = "stage" /\ TypeOK' /\ Locked(w)' /\ Shared(w) /\ UNCHANGED fs
        /\ \A g \in human'[w] : fs'[g] # None
    BY <2>1, OnwardKeeps
  <2>3. Aimed(w)' /\ Checked(w)' /\ Reread(w)'
    BY <1>0, <1>1, <1>3, <1>4, <2>1, <2>2
       DEF Aimed, Checked, Reread, AgentSteps, NewFileSteps, HumanSteps
  <2> QED
    BY <2>1, <2>2, <2>3, QuietStep DEF ProcOK
<1>5. CASE fs[f] = None /\ Opened(w, f, "editor") /\ scratch' = [scratch EXCEPT ![w] = EmptyScratch]
  <2>1. Onward(w, "editor") /\ target'[w] = f /\ before'[w] = fs[f] /\ Clean(w)'
    <3>1. "editor" \in Working /\ "editor" \notin {"reopen", "encrypt", "install"}
      BY DEF Working, NewFileSteps
    <3>2. Opened(w, f, "editor") /\ scratch' = [scratch EXCEPT ![w] = EmptyScratch]
      BY <1>5
    <3>3. /\ Onward(w, "editor") /\ target'[w] = f /\ before'[w] = fs[f]
          /\ "editor" \notin {"reopen", "encrypt", "install"} => Clean(w)'
      BY <1>0, <1>1, <1>3, <3>1, <3>2, OpenKeeps
    <3> QED
      BY <3>1, <3>3
  <2>2. pc'[w] = "editor" /\ TypeOK' /\ Locked(w)' /\ Shared(w) /\ UNCHANGED fs
        /\ \A g \in human'[w] : fs'[g] # None
    BY <2>1, OnwardKeeps
  <2>3. Aimed(w)' /\ Checked(w)' /\ Reread(w)'
    BY <1>0, <1>1, <1>3, <1>5, <2>1, <2>2
       DEF Aimed, Checked, Reread, AgentSteps, NewFileSteps, HumanSteps
  <2> QED
    BY <2>1, <2>2, <2>3, QuietStep DEF ProcOK
<1> QED
  BY <1>2, <1>4, <1>5

\* The human door opens a file of its key, once no agent file has the name.
LEMMA OpenHuman ==
    ASSUME EditInv, NEW w \in Writers, pc[w] = "door", cmd[w].door = "human",
           ~ agent_contains(cmd[w].name), NEW f \in HumanFiles, f.name = cmd[w].name,
           NEW l \in {"stdin", "in_place", "editor"}, l = "in_place" => fs[f] # None,
           Opened(w, f, l), UNCHANGED <<files, lock, cmd, human, next, seen, draft>>,
           \/ scratch' = scratch /\ l \notin NewFileSteps
           \/ scratch' = [scratch EXCEPT ![w] = EmptyScratch] /\ l = "editor"
    PROVE  EditInv'
<1>1. l \in Working /\ l \notin {"reopen", "encrypt", "install"} /\ f \in Files
  BY DEF Working, NewFileSteps, HumanSteps, Files
<1>2. Onward(w, l) /\ target'[w] = f /\ Clean(w)'
  BY <1>1, OpenKeeps
<1>3. /\ pc'[w] = l /\ TypeOK' /\ Locked(w)' /\ Shared(w) /\ UNCHANGED fs
      /\ cmd[w] \in Commands /\ \A g \in human'[w] : fs'[g] # None
  BY <1>2, OnwardKeeps
<1>4. Aimed(w)'
  BY <1>2, <1>3 DEF Aimed, AgentSteps, NewFileSteps, HumanSteps
<1>5. Checked(w)'
  <2>1. UNCHANGED <<roots, fs, cmd>>
    BY DEF files
  <2>2. ~ agent_contains(cmd[w].name)'
    BY <2>1 DEF agent_contains, names_in
  <2> QED
    BY <1>3, <2>1, <2>2 DEF Checked
<1>6. Reread(w)'
  BY <1>3 DEF Reread
<1> QED
  BY <1>2, <1>3, <1>4, <1>5, <1>6, QuietStep DEF ProcOK

LEMMA HumanDoorKeeps ==
    ASSUME EditInv, NEW w \in Writers, edit_human_door(w)
    PROVE  EditInv'
<1> DEFINE c == cmd[w]
           locations == {f \in human[w] : f.name = c.name}
<1>0. TypeOK /\ ProcOK(w) /\ pc[w] = "door" /\ c.door = "human"
  BY DEF EditInv, edit_human_door
<1>1. UNCHANGED <<files, cmd, human, next, seen, draft>>
  BY DEF edit_human_door
<1>2. CASE Finish(w) /\ UNCHANGED <<target, before>>
  <2>1. UNCHANGED Leaving /\ UNCHANGED fs /\ temps' \in [Dirs -> SUBSET {CiphertextTemp}]
    BY <1>0, <1>1, <1>2 DEF Leaving, files, TypeOK
  <2>2. pc[w] \in Working \ {"reopen"}
    BY <1>0 DEF Working
  <2> QED
    BY <1>2, <2>1, <2>2, FinishStep
<1>3. ASSUME ~ agent_contains(c.name), NEW f \in locations,
             Opened(w, f, IF c.piped THEN "stdin" ELSE "in_place"), UNCHANGED <<lock, scratch>>
      PROVE  EditInv'
  <2>1. f \in HumanFiles /\ f.name = c.name /\ fs[f] # None
    BY <1>0 DEF TypeOK, ProcOK, Aimed
  <2>2. PICK l \in {"stdin", "in_place"} : Opened(w, f, l)
    BY <1>3
  <2>3. l \in {"stdin", "in_place", "editor"} /\ l \notin NewFileSteps
    BY DEF NewFileSteps
  <2> QED
    BY <1>0, <1>1, <1>3, <2>1, <2>2, <2>3, OpenHuman
<1>4. ASSUME ~ agent_contains(c.name), select_root(c.source) # {},
             Opened(w, new_human_path(c), IF c.piped THEN "stdin" ELSE "editor"),
             scratch' = IF c.piped THEN scratch ELSE [scratch EXCEPT ![w] = EmptyScratch],
             UNCHANGED lock
      PROVE  EditInv'
  <2>1. new_human_path(c) \in HumanFiles /\ new_human_path(c).name = c.name
    BY <1>0, <1>4, Paths DEF ProcOK, Aimed
  <2>2. CASE c.piped
    <3>1. Opened(w, new_human_path(c), "stdin") /\ scratch' = scratch /\ "stdin" \notin NewFileSteps
      BY <1>4, <2>2 DEF NewFileSteps
    <3> QED
      BY <1>0, <1>1, <1>4, <2>1, <3>1, OpenHuman
  <2>3. CASE ~ c.piped
    <3>1. /\ Opened(w, new_human_path(c), "editor")
          /\ scratch' = [scratch EXCEPT ![w] = EmptyScratch]
      BY <1>4, <2>3
    <3> QED
      BY <1>0, <1>1, <1>4, <2>1, <3>1, OpenHuman
  <2> QED
    BY <2>2, <2>3
<1> QED
  BY <1>2, <1>3, <1>4 DEF edit_human_door

\* sops edits the stage; the file itself is not touched.
LEMMA StageKeeps ==
    ASSUME EditInv, NEW w \in Writers, sops_edits_stage(w)
    PROVE  EditInv'
<1>0. TypeOK /\ ProcOK(w) /\ pc[w] = "stage" /\ pc[w] \in Working \ {"reopen"}
  BY DEF EditInv, sops_edits_stage, Working, AgentSteps
<1>1. UNCHANGED <<files, cmd, human, next, target, before, seen>>
  BY DEF sops_edits_stage
<1>2. CASE Finish(w) /\ UNCHANGED draft
  <2>1. UNCHANGED Leaving /\ UNCHANGED fs /\ temps' \in [Dirs -> SUBSET {CiphertextTemp}]
    BY <1>0, <1>1, <1>2 DEF Leaving, files, TypeOK
  <2> QED
    BY <1>0, <1>2, <2>1, FinishStep
<1>3. ASSUME NEW names \in SUBSET Names, draft' = [draft EXCEPT ![w] = names],
             Goto(w, "reread"), UNCHANGED <<lock, scratch>>
      PROVE  EditInv'
  <2>1. Onward(w, "reread")
    BY <1>0, <1>1, <1>3 DEF TypeOK, Onward, files, Working, AgentSteps
  <2>2. /\ pc'[w] = "reread" /\ TypeOK' /\ Locked(w)' /\ Shared(w) /\ UNCHANGED fs
        /\ cmd[w] \in Commands /\ \A g \in human'[w] : fs'[g] # None
    BY <2>1, OnwardKeeps
  <2>3. Aimed(w)'
    BY <1>0, <1>1, <2>2 DEF ProcOK, Aimed, AgentSteps, NewFileSteps, HumanSteps
  <2>4. Checked(w)' /\ Reread(w)'
    BY <2>2 DEF Checked, Reread, NewFileSteps, HumanSteps
  <2>5. Clean(w)'
    BY <1>0, <1>3, <2>2 DEF ProcOK, Clean, NewFileSteps
  <2> QED
    BY <2>2, <2>3, <2>4, <2>5, QuietStep DEF ProcOK
<1> QED
  BY <1>2, <1>3 DEF sops_edits_stage

\* The re-read: names no human file has, and the bytes that were staged.
LEMMA RereadKeeps ==
    ASSUME EditInv, NEW w \in Writers, reread(w)
    PROVE  EditInv'
<1>0. TypeOK /\ ProcOK(w) /\ pc[w] = "reread" /\ pc[w] \in Working \ {"reopen"}
  BY DEF EditInv, reread, Working, AgentSteps
<1>1. UNCHANGED <<files, cmd, human, next, target, before, draft>>
  BY DEF reread
<1>2. CASE Finish(w) /\ UNCHANGED seen
  <2>1. UNCHANGED Leaving /\ UNCHANGED fs /\ temps' \in [Dirs -> SUBSET {CiphertextTemp}]
    BY <1>0, <1>1, <1>2 DEF Leaving, files, TypeOK
  <2> QED
    BY <1>0, <1>2, <2>1, FinishStep
<1>3. ASSUME ~ clashes(draft[w]), fs[target[w]] = before[w],
             seen' = [seen EXCEPT ![w] = fs[target[w]]],
             Goto(w, "rename"), UNCHANGED <<lock, scratch>>
      PROVE  EditInv'
  <2>0. cmd[w].door = "agent" /\ target[w] \in AgentFiles /\ before[w] # None /\ target[w] \in Files
    BY <1>0 DEF ProcOK, Aimed, AgentSteps, Files
  <2>1. Onward(w, "rename")
    BY <1>0, <1>1, <1>3, <2>0 DEF TypeOK, Onward, files, Working, AgentSteps
  <2>2. /\ pc'[w] = "rename" /\ TypeOK' /\ Locked(w)' /\ Shared(w) /\ UNCHANGED fs
        /\ cmd[w] \in Commands /\ \A g \in human'[w] : fs'[g] # None
    BY <2>1, OnwardKeeps
  <2>3. Aimed(w)'
    BY <1>1, <2>0, <2>2 DEF Aimed, AgentSteps, NewFileSteps, HumanSteps
  <2>4. Checked(w)'
    <3>1. \A f \in Load' : f.name \notin draft[w]
      BY <1>1, <1>3, SMT DEF clashes, Load, Listed, files
    <3> QED
      BY <1>1, <2>2, <3>1 DEF Checked, NewFileSteps, HumanSteps
  <2>5. Reread(w)'
    <3>1. seen'[w] = fs[target[w]]
      BY <1>0, <1>3 DEF TypeOK
    <3> QED
      BY <1>1, <1>3, <2>0, <2>2, <3>1 DEF Reread
  <2>6. Clean(w)'
    BY <1>0, <1>3, <2>2 DEF ProcOK, Clean, NewFileSteps
  <2> QED
    BY <2>2, <2>3, <2>4, <2>5, <2>6, QuietStep DEF ProcOK
<1> QED
  BY <1>2, <1>3 DEF reread

-----------------------------------------------------------------------------
\* A content this process writes.
LEMMA Written ==
    ASSUME NEW w \in Writers, NEW names \in SUBSET Names
    PROVE  [names |-> names, by |-> w, whole |-> TRUE] \in Contents
BY DEF Contents, Authors

\* A process that publishes an agent file and leaves.
LEMMA AgentWrite ==
    ASSUME EditInv, NEW w \in Writers, pc[w] \in Working \ {"reopen"},
           NEW f \in AgentFiles, Publish(w, f), Finish(w), UNCHANGED Leaving,
           temps' \in [Dirs -> SUBSET {CiphertextTemp}],
           \A g \in Load : g.name \notin draft[w]
    PROVE  EditInv'
<1> DEFINE x == [names |-> draft[w], by |-> w, whole |-> TRUE]
<1>1. x \in Contents /\ x.whole /\ x.names = draft[w]
  BY Written DEF EditInv, TypeOK
<1>2. fs' = [fs EXCEPT ![f] = x] /\ UNCHANGED roots
  BY DEF Publish, Leaving
<1> HIDE DEF x
<1>3. /\ OneTier' /\ AgentWhole' /\ fs' \in [Files -> Contents \cup {None}]
      /\ \A g \in Files : fs[g] # None => fs'[g] # None
  BY <1>1, <1>2, PublishAgent
<1>4. Shared(w) /\ ProcOK(w)' /\ TypeOK'
  BY <1>3, FinishKeeps DEF Leaving
<1> QED
  BY <1>3, <1>4, OthersKeep DEF EditInv

\* A process that writes a human file and leaves.
LEMMA HumanWrite ==
    ASSUME EditInv, NEW w \in Writers, pc[w] \in Working \ {"reopen"},
           NEW f \in HumanFiles, NEW names \in SUBSET Names,
           fs' = [fs EXCEPT ![f] = [names |-> names, by |-> w, whole |-> TRUE]],
           Finish(w), UNCHANGED Leaving,
           temps' \in [Dirs -> SUBSET {CiphertextTemp}], ~ agent_contains(f.name)
    PROVE  EditInv'
<1>1. [names |-> names, by |-> w, whole |-> TRUE] \in Contents /\ UNCHANGED roots
  BY Written DEF Leaving
<1>2. /\ OneTier' /\ AgentWhole' /\ fs' \in [Files -> Contents \cup {None}]
      /\ \A g \in Files : fs[g] # None => fs'[g] # None
  BY <1>1, PublishHuman
<1>3. Shared(w) /\ ProcOK(w)' /\ TypeOK'
  BY <1>2, FinishKeeps DEF Leaving
<1> QED
  BY <1>2, <1>3, OthersKeep DEF EditInv

LEMMA RenameKeeps ==
    ASSUME EditInv, NEW w \in Writers, rename_stage(w)
    PROVE  EditInv'
<1>1. pc[w] = "rename" /\ ProcOK(w) /\ TypeOK /\ pc[w] \in Working \ {"reopen"}
  BY DEF EditInv, rename_stage, Working, AgentSteps
<1>2. target[w] \in AgentFiles /\ \A g \in Load : g.name \notin draft[w]
  BY <1>1 DEF ProcOK, Aimed, Checked, AgentSteps
<1>3. /\ Finish(w) /\ UNCHANGED Leaving
      /\ temps' \in [Dirs -> SUBSET {CiphertextTemp}]
  BY <1>1 DEF rename_stage, Leaving, TypeOK
<1>4. CASE UNCHANGED fs
  BY <1>1, <1>3, <1>4, FinishStep
<1>5. CASE Publish(w, target[w])
  BY <1>1, <1>2, <1>3, <1>5, AgentWrite
<1> QED
  BY <1>4, <1>5 DEF rename_stage

LEMMA InPlaceKeeps ==
    ASSUME EditInv, NEW w \in Writers, sops_edits_in_place(w)
    PROVE  EditInv'
<1>1. pc[w] = "in_place" /\ ProcOK(w) /\ TypeOK /\ pc[w] \in Working \ {"reopen"}
  BY DEF EditInv, sops_edits_in_place, Working, HumanSteps
<1>2. target[w] \in HumanFiles /\ ~ agent_contains(target[w].name)
  BY <1>1 DEF ProcOK, Aimed, Checked, HumanSteps
<1>3. Finish(w) /\ UNCHANGED Leaving /\ temps' \in [Dirs -> SUBSET {CiphertextTemp}]
  BY <1>1 DEF sops_edits_in_place, Leaving, TypeOK
<1>4. CASE UNCHANGED fs
  BY <1>1, <1>3, <1>4, FinishStep
<1>5. ASSUME NEW names \in SUBSET Names,
             fs' = [fs EXCEPT ![target[w]] = [names |-> names, by |-> w, whole |-> TRUE]]
      PROVE  EditInv'
  BY <1>1, <1>2, <1>3, <1>5, HumanWrite
<1> QED
  BY <1>4, <1>5 DEF sops_edits_in_place

LEMMA EditorKeeps ==
    ASSUME EditInv, NEW w \in Writers, run_editor(w)
    PROVE  EditInv'
<1>0. pc[w] = "editor" /\ ProcOK(w) /\ TypeOK /\ pc[w] \in Working
  BY DEF EditInv, run_editor, Working, NewFileSteps
<1>1. UNCHANGED <<files, cmd, human, next, target, before, seen>>
  BY DEF run_editor
<1>2. scratch[w] \in Scratches
  BY <1>0 DEF ProcOK, Clean, TypeOK, NewFileSteps
<1>3. PICK ok \in BOOLEAN, s \in Scratches :
         /\ s.editor = (IF ok THEN "ok" ELSE "failed")
         /\ IF ok
            THEN /\ scratch' = [scratch EXCEPT ![w] = s]
                 /\ \E names \in SUBSET Names : draft' = [draft EXCEPT ![w] = names]
                 /\ Goto(w, "reopen") /\ UNCHANGED lock
            ELSE /\ Leave(w)
                 /\ scratch' = [scratch EXCEPT ![w] = drop_scratch(s)]
                 /\ UNCHANGED draft
  <2>1. PICK ok \in BOOLEAN, byRename \in BOOLEAN, names \in SUBSET Names :
          LET s == [scratch[w] EXCEPT
                      !.original = IF byRename THEN @ ELSE "secret",
                      !.replaced = IF byRename THEN "secret" ELSE @,
                      !.editor = IF ok THEN "ok" ELSE "failed"]
          IN  IF ok
              THEN /\ scratch' = [scratch EXCEPT ![w] = s]
                   /\ draft' = [draft EXCEPT ![w] = names]
                   /\ Goto(w, "reopen") /\ UNCHANGED lock
              ELSE /\ Leave(w)
                   /\ scratch' = [scratch EXCEPT ![w] = drop_scratch(s)]
                   /\ UNCHANGED draft
    BY DEF run_editor
  <2> DEFINE s == [scratch[w] EXCEPT
                     !.original = IF byRename THEN @ ELSE "secret",
                     !.replaced = IF byRename THEN "secret" ELSE @,
                     !.editor = IF ok THEN "ok" ELSE "failed"]
  <2>2. s \in Scratches /\ s.editor = (IF ok THEN "ok" ELSE "failed")
    BY <1>2 DEF Scratches, Inode
  <2>3. IF ok
        THEN /\ scratch' = [scratch EXCEPT ![w] = s]
             /\ draft' = [draft EXCEPT ![w] = names]
             /\ Goto(w, "reopen") /\ UNCHANGED lock
        ELSE /\ Leave(w)
             /\ scratch' = [scratch EXCEPT ![w] = drop_scratch(s)]
             /\ UNCHANGED draft
    BY <2>1
  <2> HIDE DEF s
  <2> QED
    BY <2>2, <2>3
<1>4. CASE ok
  <2>0. PICK names \in SUBSET Names : draft' = [draft EXCEPT ![w] = names]
    BY <1>3, <1>4
  <2>1. scratch' = [scratch EXCEPT ![w] = s] /\ Goto(w, "reopen") /\ UNCHANGED lock
    BY <1>3, <1>4
  <2>2. Onward(w, "reopen")
    BY <1>0, <1>1, <2>0, <2>1 DEF TypeOK, Onward, files, Working, NewFileSteps
  <2>3. /\ pc'[w] = "reopen" /\ TypeOK' /\ Locked(w)' /\ Shared(w) /\ UNCHANGED fs
        /\ cmd[w] \in Commands /\ \A g \in human'[w] : fs'[g] # None
    BY <2>2, OnwardKeeps
  <2>4. Aimed(w)'
    BY <1>0, <1>1, <2>3 DEF ProcOK, Aimed, AgentSteps, NewFileSteps, HumanSteps
  <2>5. Checked(w)' /\ Reread(w)'
    BY <1>0, <1>1, <2>3
       DEF ProcOK, Checked, Reread, NewFileSteps, HumanSteps, agent_contains, names_in, files
  <2>6. Clean(w)'
    <3>1. scratch'[w] = s /\ s # None
      BY <1>0, <2>1, EditConstants DEF TypeOK
    <3> QED
      BY <2>3, <3>1 DEF Clean, NewFileSteps
  <2> QED
    BY <2>3, <2>4, <2>5, <2>6, QuietStep DEF ProcOK
<1>5. CASE ~ ok
  <2>1. /\ Leave(w) /\ scratch' = [scratch EXCEPT ![w] = drop_scratch(s)]
        /\ UNCHANGED Leaving /\ UNCHANGED fs /\ s.editor # "ok"
        /\ fs' \in [Files -> Contents \cup {None}]
        /\ temps' \in [Dirs -> SUBSET {CiphertextTemp}]
    BY <1>0, <1>1, <1>3, <1>5 DEF Leaving, files, TypeOK
  <2>2. Shared(w) /\ ProcOK(w)' /\ TypeOK'
    BY <1>0, <2>1, LeaveKeeps DEF Leaving
  <2> QED
    BY <2>1, <2>2, QuietStep
<1> QED
  BY <1>4, <1>5

LEMMA ValidateKeeps ==
    ASSUME EditInv, NEW w \in Writers, validate(w)
    PROVE  EditInv'
<1> DEFINE s == reopen_after_editor(scratch[w])
           valid == IF cmd[w].door = "human"
                    THEN parse_single_assignment(draft[w], cmd[w].name)
                    ELSE ~clashes(draft[w])
<1>0. pc[w] = "reopen" /\ ProcOK(w) /\ TypeOK /\ pc[w] \in Working
  BY DEF EditInv, validate, Working, NewFileSteps
<1>1. UNCHANGED <<files, cmd, human, next, target, before, seen, draft>>
  BY DEF validate
<1> DEFINE lost == [scratch[w] EXCEPT !.editor = "lost"]
<1>2. s \in Scratches /\ s.edited = TRUE /\ s # None /\ lost \in Scratches /\ lost.editor = "lost"
  <2>1. scratch[w] \in Scratches
    BY <1>0 DEF ProcOK, Clean, TypeOK, NewFileSteps
  <2>2. s \in Scratches /\ s.edited = TRUE
    BY <2>1 DEF reopen_after_editor, Scratches
  <2>3. lost \in Scratches /\ lost.editor = "lost"
    BY <2>1 DEF Scratches
  <2> QED
    BY <2>2, <2>3, EditConstants
<1>3. \/ valid /\ scratch' = [scratch EXCEPT ![w] = s] /\ Goto(w, "encrypt") /\ UNCHANGED lock
      \/ Leave(w) /\ \E left \in {lost, s} : scratch' = [scratch EXCEPT ![w] = drop_scratch(left)]
  BY DEF validate
<1> HIDE DEF s, lost
<1>4. CASE valid /\ scratch' = [scratch EXCEPT ![w] = s] /\ Goto(w, "encrypt") /\ UNCHANGED lock
  <2>2. Onward(w, "encrypt")
    BY <1>0, <1>1, <1>2, <1>4 DEF TypeOK, Onward, files, Working, NewFileSteps
  <2>3. /\ pc'[w] = "encrypt" /\ TypeOK' /\ Locked(w)' /\ Shared(w) /\ UNCHANGED fs
        /\ cmd[w] \in Commands /\ \A g \in human'[w] : fs'[g] # None
    BY <2>2, OnwardKeeps
  <2>4. Aimed(w)'
    BY <1>0, <1>1, <2>3 DEF ProcOK, Aimed, AgentSteps, NewFileSteps, HumanSteps
  <2>5. Checked(w)'
    <3>1. cmd[w].door = "human" => ~ agent_contains(cmd[w].name)'
      BY <1>0, <1>1 DEF ProcOK, Checked, NewFileSteps, agent_contains, names_in, files
    <3>2. cmd[w].door = "agent" => \A f \in Load' : f.name \notin draft[w]
      BY <1>1, <1>4, SMT DEF clashes, Load, Listed, files
    <3> QED
      BY <1>1, <2>3, <3>1, <3>2 DEF Checked
  <2>6. Reread(w)'
    BY <2>3 DEF Reread
  <2>7. Clean(w)'
    <3>1. scratch'[w] = s
      BY <1>0, <1>4 DEF TypeOK
    <3> QED
      BY <1>2, <2>3, <3>1 DEF Clean, NewFileSteps
  <2> QED
    BY <2>3, <2>4, <2>5, <2>6, <2>7, QuietStep DEF ProcOK
<1>5. ASSUME Leave(w), NEW left \in {lost, s},
             scratch' = [scratch EXCEPT ![w] = drop_scratch(left)]
      PROVE  EditInv'
  <2>1. /\ UNCHANGED Leaving /\ UNCHANGED fs
        /\ fs' \in [Files -> Contents \cup {None}]
        /\ temps' \in [Dirs -> SUBSET {CiphertextTemp}]
        /\ left \in Scratches /\ (left.editor = "ok" => left.edited)
    BY <1>0, <1>1, <1>2, <1>5 DEF Leaving, files, TypeOK
  <2>2. Shared(w) /\ ProcOK(w)' /\ TypeOK'
    BY <1>0, <1>5, <2>1, LeaveKeeps DEF Leaving
  <2> QED
    BY <2>1, <2>2, QuietStep
<1> QED
  BY <1>3, <1>4, <1>5

LEMMA EncryptKeeps ==
    ASSUME EditInv, NEW w \in Writers, encrypt(w)
    PROVE  EditInv'
<1>0. pc[w] = "encrypt" /\ ProcOK(w) /\ TypeOK /\ pc[w] \in Working \ {"reopen"}
  BY DEF EditInv, encrypt, Working, NewFileSteps
<1>1. UNCHANGED <<roots, fs, synced, cmd, human, next, target, before, seen, draft>>
  BY DEF encrypt
<1>2. CASE Finish(w) /\ UNCHANGED temps
  <2>1. UNCHANGED Leaving /\ temps' \in [Dirs -> SUBSET {CiphertextTemp}]
    BY <1>0, <1>1, <1>2 DEF Leaving, TypeOK
  <2> QED
    BY <1>0, <1>1, <1>2, <2>1, FinishStep
<1>3. CASE AddTemp(target[w], CiphertextTemp) /\ Goto(w, "install") /\ UNCHANGED <<lock, scratch>>
  <2>1. target[w] \in Files
    <3>1. cmd[w].door \in {"agent", "human"}
      BY <1>0, EditConstants DEF ProcOK, Aimed
    <3> QED
      BY <1>0, <3>1 DEF ProcOK, Aimed, NewFileSteps, Files
  <2>2. temps' \in [Dirs -> SUBSET {CiphertextTemp}]
    BY <1>0, <1>3, <2>1, TempsTyped DEF TypeOK
  <2>3. Onward(w, "install")
    BY <1>0, <1>1, <1>3, <2>2 DEF TypeOK, Onward, Working, NewFileSteps
  <2>4. /\ pc'[w] = "install" /\ TypeOK' /\ Locked(w)' /\ Shared(w) /\ UNCHANGED fs
        /\ cmd[w] \in Commands /\ \A g \in human'[w] : fs'[g] # None
    BY <2>3, OnwardKeeps
  <2>5. Aimed(w)'
    BY <1>0, <1>1, <2>4 DEF ProcOK, Aimed, AgentSteps, NewFileSteps, HumanSteps
  <2>6. Checked(w)'
    <3>1. cmd[w].door = "human" => ~ agent_contains(cmd[w].name)'
      BY <1>0, <1>1 DEF ProcOK, Checked, NewFileSteps, agent_contains, names_in
    <3>2. cmd[w].door = "agent" => \A f \in Load' : f.name \notin draft[w]
      BY <1>0, <1>1, SMT DEF ProcOK, Checked, Load, Listed
    <3> QED
      BY <1>1, <2>4, <3>1, <3>2 DEF Checked
  <2>7. Reread(w)' /\ Clean(w)'
    BY <1>0, <1>3, <2>4 DEF ProcOK, Reread, Clean, NewFileSteps
  <2> QED
    BY <2>4, <2>5, <2>6, <2>7, QuietStep DEF ProcOK
<1> QED
  BY <1>2, <1>3 DEF encrypt

\* The target of a process that installs a new file.
LEMMA NewTarget ==
    ASSUME EditInv, NEW w \in Writers, pc[w] = "install"
    PROVE  \/ target[w] \in AgentFiles /\ \A g \in Load : g.name \notin draft[w]
           \/ target[w] \in HumanFiles /\ ~ agent_contains(target[w].name)
<1>1. ProcOK(w) /\ cmd[w] \in Commands
  BY DEF EditInv, ProcOK, Aimed
<1>2. cmd[w].door \in {"agent", "human"}
  BY <1>1, EditConstants
<1> QED
  BY <1>1, <1>2 DEF ProcOK, Aimed, Checked, NewFileSteps

LEMMA InstallKeeps ==
    ASSUME EditInv, NEW w \in Writers, install(w)
    PROVE  EditInv'
<1>1. pc[w] = "install" /\ TypeOK /\ pc[w] \in Working \ {"reopen"} /\ draft[w] \in SUBSET Names
  BY DEF EditInv, TypeOK, install, Working, NewFileSteps
<1>2. \/ target[w] \in AgentFiles /\ \A g \in Load : g.name \notin draft[w]
      \/ target[w] \in HumanFiles /\ ~ agent_contains(target[w].name)
  BY <1>1, NewTarget
<1>3. Finish(w) /\ UNCHANGED Leaving
  BY DEF install, Leaving
<1>4. temps' \in [Dirs -> SUBSET {CiphertextTemp}]
  BY <1>1, <1>2, TempsTyped DEF install, TypeOK, Files
<1>5. CASE UNCHANGED fs
  BY <1>1, <1>3, <1>4, <1>5, FinishStep
<1>6. CASE Publish(w, target[w])
  <2>1. CASE target[w] \in AgentFiles /\ \A g \in Load : g.name \notin draft[w]
    BY <1>1, <1>3, <1>4, <1>6, <2>1, AgentWrite
  <2>2. CASE target[w] \in HumanFiles /\ ~ agent_contains(target[w].name)
    <3>1. fs' = [fs EXCEPT ![target[w]] = [names |-> draft[w], by |-> w, whole |-> TRUE]]
      BY <1>6 DEF Publish
    <3> QED
      BY <1>1, <1>3, <1>4, <2>2, <3>1, HumanWrite
  <2> QED
    BY <1>2, <2>1, <2>2
<1> QED
  BY <1>5, <1>6 DEF install

LEMMA StdinKeeps ==
    ASSUME EditInv, NEW w \in Writers, read_piped_assignment(w)
    PROVE  EditInv'
<1>0. /\ pc[w] = "stdin" /\ ProcOK(w) /\ TypeOK /\ pc[w] \in Working \ {"reopen"}
      /\ cmd[w] \in Commands /\ cmd[w].door = "human"
  BY DEF EditInv, ProcOK, Aimed, read_piped_assignment, Working, HumanSteps
<1>1. UNCHANGED <<files, cmd, human, next, target, before, seen>>
  BY DEF read_piped_assignment
<1>2. CASE Finish(w) /\ UNCHANGED draft
  <2>1. UNCHANGED Leaving /\ UNCHANGED fs /\ temps' \in [Dirs -> SUBSET {CiphertextTemp}]
    BY <1>0, <1>1, <1>2 DEF Leaving, files, TypeOK
  <2> QED
    BY <1>0, <1>2, <2>1, FinishStep
<1>3. CASE /\ draft' = [draft EXCEPT ![w] = {cmd[w].name}]
           /\ Goto(w, "sops") /\ UNCHANGED <<lock, scratch>>
  <2>0. {cmd[w].name} \in SUBSET Names
    BY <1>0, EditConstants
  <2>1. Onward(w, "sops")
    BY <1>0, <1>1, <1>3, <2>0 DEF TypeOK, Onward, files, Working, HumanSteps
  <2>2. /\ pc'[w] = "sops" /\ TypeOK' /\ Locked(w)' /\ Shared(w) /\ UNCHANGED fs
        /\ cmd[w] \in Commands /\ \A g \in human'[w] : fs'[g] # None
    BY <2>1, OnwardKeeps
  <2>3. Aimed(w)'
    BY <1>0, <1>1, <2>2 DEF ProcOK, Aimed, AgentSteps, NewFileSteps, HumanSteps
  <2>4. Checked(w)' /\ Reread(w)'
    BY <1>0, <1>1, <2>2
       DEF ProcOK, Checked, Reread, NewFileSteps, HumanSteps, agent_contains, names_in, files
  <2>5. Clean(w)'
    BY <1>0, <1>3, <2>2 DEF ProcOK, Clean, NewFileSteps
  <2> QED
    BY <2>2, <2>3, <2>4, <2>5, QuietStep DEF ProcOK
<1> QED
  BY <1>2, <1>3 DEF read_piped_assignment

\* What holds of a process that is at work on a human file.
LEMMA AtHuman ==
    ASSUME EditInv, NEW w \in Writers, pc[w] \in HumanSteps
    PROVE  /\ target[w] \in HumanFiles /\ target[w] \in Files
           /\ ~ agent_contains(target[w].name) /\ draft[w] \in SUBSET Names
           /\ pc[w] \in Working \ {"reopen"}
BY DEF EditInv, TypeOK, ProcOK, Aimed, Checked, HumanSteps, Working, Files

LEMMA SopsKeeps ==
    ASSUME EditInv, NEW w \in Writers, encrypt_bytes(w)
    PROVE  EditInv'
<1>0. pc[w] = "sops" /\ ProcOK(w) /\ TypeOK /\ pc[w] \in HumanSteps
  BY DEF EditInv, encrypt_bytes, HumanSteps
<1>1. target[w] \in Files /\ pc[w] \in Working \ {"reopen"}
  BY <1>0, AtHuman
<1>2. UNCHANGED <<roots, fs, synced, cmd, human, next, target, before, seen, draft>>
  BY DEF encrypt_bytes
<1>3. CASE Finish(w) /\ UNCHANGED temps
  <2>1. UNCHANGED Leaving /\ temps' \in [Dirs -> SUBSET {CiphertextTemp}]
    BY <1>0, <1>2, <1>3 DEF Leaving, TypeOK
  <2> QED
    BY <1>1, <1>2, <1>3, <2>1, FinishStep
<1>4. CASE AddTemp(target[w], CiphertextTemp) /\ Goto(w, "persist") /\ UNCHANGED <<lock, scratch>>
  <2>1. temps' \in [Dirs -> SUBSET {CiphertextTemp}]
    BY <1>0, <1>1, <1>4, TempsTyped DEF TypeOK
  <2>2. Onward(w, "persist")
    BY <1>0, <1>1, <1>2, <1>4, <2>1 DEF TypeOK, Onward, Working, HumanSteps
  <2>3. /\ pc'[w] = "persist" /\ TypeOK' /\ Locked(w)' /\ Shared(w) /\ UNCHANGED fs
        /\ cmd[w] \in Commands /\ \A g \in human'[w] : fs'[g] # None
    BY <2>2, OnwardKeeps
  <2>4. Aimed(w)'
    BY <1>0, <1>2, <2>3 DEF ProcOK, Aimed, AgentSteps, NewFileSteps, HumanSteps
  <2>5. Checked(w)' /\ Reread(w)'
    BY <1>0, <1>2, <2>3
       DEF ProcOK, Checked, Reread, NewFileSteps, HumanSteps, agent_contains, names_in
  <2>6. Clean(w)'
    BY <1>0, <1>4, <2>3 DEF ProcOK, Clean, NewFileSteps
  <2> QED
    BY <2>3, <2>4, <2>5, <2>6, QuietStep DEF ProcOK
<1> QED
  BY <1>3, <1>4 DEF encrypt_bytes

LEMMA PersistKeeps ==
    ASSUME EditInv, NEW w \in Writers, persist(w)
    PROVE  EditInv'
<1>1. pc[w] \in HumanSteps /\ TypeOK
  BY DEF EditInv, persist, HumanSteps
<1>2. /\ target[w] \in HumanFiles /\ target[w] \in Files
      /\ ~ agent_contains(target[w].name) /\ draft[w] \in SUBSET Names
      /\ pc[w] \in Working \ {"reopen"}
  BY <1>1, AtHuman
<1>3. Finish(w) /\ UNCHANGED Leaving
  BY DEF persist, Leaving
<1>4. temps' \in [Dirs -> SUBSET {CiphertextTemp}]
  BY <1>1, <1>2, TempsTyped DEF persist, TypeOK
<1>5. CASE UNCHANGED fs
  BY <1>2, <1>3, <1>4, <1>5, FinishStep
<1>6. CASE fs' = [fs EXCEPT ![target[w]] = [names |-> draft[w], by |-> w, whole |-> TRUE]]
  BY <1>2, <1>3, <1>4, <1>6, HumanWrite
<1> QED
  BY <1>5, <1>6 DEF persist, Publish

\* A process is killed: its locks go, and only a human file can be cut short.
LEMMA KilledKeeps ==
    ASSUME EditInv, NEW w \in Writers, Killed(w)
    PROVE  EditInv'
<1>0. TypeOK /\ ProcOK(w) /\ pc[w] # "new"
  BY DEF EditInv, Killed
<1>1. /\ OneTier' /\ AgentWhole' /\ fs' \in [Files -> Contents \cup {None}]
      /\ \A g \in Files : fs[g] # None => fs'[g] # None
      /\ UNCHANGED fs \/ pc[w] \in Working
  <2>1. CASE UNCHANGED fs
    <3>1. OneTier' /\ AgentWhole'
      BY <2>1, SameTiers DEF Killed
    <3>2. fs' \in [Files -> Contents \cup {None}]
      BY <2>1 DEF EditInv, TypeOK
    <3> QED
      BY <2>1, <3>1, <3>2
  <2>2. CASE pc[w] = "in_place" /\ fs' = [fs EXCEPT ![target[w]].whole = FALSE]
    <3> DEFINE x == [fs[target[w]] EXCEPT !.whole = FALSE]
    <3>1. /\ target[w] \in HumanFiles /\ target[w] \in Files
          /\ ~ agent_contains(target[w].name) /\ pc[w] \in Working
      BY <2>2, AtHuman DEF HumanSteps
    <3>2. fs[target[w]] \in Contents
      BY <1>0, <2>2, <3>1 DEF ProcOK, Aimed, TypeOK
    <3>3. x \in Contents /\ fs' = [fs EXCEPT ![target[w]] = x]
      BY <2>2, <3>2 DEF Contents
    <3> HIDE DEF x
    <3>4. UNCHANGED roots
      BY DEF Killed
    <3> QED
      BY <3>1, <3>3, <3>4, PublishHuman
  <2> QED
    BY <2>1, <2>2 DEF Killed
<1>2. Goto(w, "killed") /\ Unlock(w) /\ UNCHANGED <<roots, temps, synced, locals, next>>
  BY DEF Killed
<1>3. pc'[w] = "killed" /\ TypeOK'
  BY <1>0, <1>1, <1>2 DEF TypeOK, Goto, Unlock, locals
<1>4. Shared(w)
  <2>1. \A d \in Dirs : lock[d] \notin {w, None} => lock'[d] = lock[d]
    BY <1>2 DEF Unlock
  <2>2. \A v \in Writers \ {w} : Stays(v)
    BY <1>0, <1>2 DEF TypeOK, Stays, Goto, locals
  <2> QED
    BY <1>1, <1>2, <2>1, <2>2 DEF Shared
<1>5. ProcOK(w)'
  <2>1. Locked(w)' /\ Checked(w)' /\ Reread(w)' /\ Clean(w)'
    BY <1>3 DEF Locked, Checked, Reread, Clean, Working, AgentSteps, NewFileSteps, HumanSteps
  <2>2. cmd'[w] \in Commands /\ \A f \in human'[w] : fs'[f] # None
    BY <1>0, <1>1, <1>2 DEF ProcOK, Aimed, TypeOK, Files, locals
  <2>3. Aimed(w)'
    BY <1>3, <2>2 DEF Aimed, AgentSteps, NewFileSteps, HumanSteps
  <2> QED
    BY <2>1, <2>3 DEF ProcOK
<1> QED
  BY <1>1, <1>3, <1>4, <1>5, OthersKeep DEF EditInv

\* The sync tool takes no lock, but it brings no name that was not there.
LEMMA SyncKeeps ==
    ASSUME EditInv, NEW f \in AgentFiles, SyncWrites(f)
    PROVE  EditInv'
<1> DEFINE x == [names |-> IF fs[f] = None THEN {} ELSE fs[f].names, by |-> Sync, whole |-> TRUE]
<1>0. TypeOK /\ f \in Files
  BY DEF EditInv, Files
<1>1. x \in Contents /\ x.whole /\ x.names = names_in(f) /\ x.by = Sync
  BY <1>0 DEF TypeOK, Contents, Authors, names_in
<1>2. fs' = [fs EXCEPT ![f] = x] /\ UNCHANGED <<roots, temps, lock, pc, locals, next>>
  BY DEF SyncWrites
<1> HIDE DEF x
<1>3. /\ OneTier' /\ AgentWhole' /\ fs' \in [Files -> Contents \cup {None}]
      /\ \A g \in Files : fs[g] # None => fs'[g] # None
  BY <1>1, <1>2, PublishAgent DEF agent_contains
<1>4. TypeOK'
  BY <1>0, <1>2, <1>3 DEF TypeOK, locals
<1>5. fs'[f] = x /\ x # None /\ \A g \in Files \ {f} : fs'[g] = fs[g]
  BY <1>0, <1>1, <1>2, EditConstants DEF TypeOK
<1>6. Load' = Load
  <2>1. \A g \in HumanFiles : fs'[g] = fs[g]
    BY <1>5, Tiers
  <2> QED
    BY <1>2, <2>1, SMT DEF Load, Listed
<1>7. \A n : agent_contains(n)' => agent_contains(n)
  <2>1. \A g \in AgentFiles : names_in(g)' = names_in(g)
    BY <1>1, <1>5 DEF names_in, Files
  <2> QED
    BY <1>2, <2>1 DEF agent_contains
<1>8. ASSUME NEW v \in Writers PROVE ProcOK(v)'
  <2>0. ProcOK(v) /\ Stays(v)
    BY <1>2 DEF EditInv, Stays, locals
  <2>1. Locked(v)' /\ Clean(v)'
    BY <1>2, <2>0 DEF ProcOK, Locked, Clean, Stays
  <2>2. Checked(v)'
    BY <1>6, <1>7, <2>0 DEF ProcOK, Checked, Stays
  <2>3. Reread(v)'
    <3>1. pc[v] = "rename" => target[v] \in Files
      BY <2>0 DEF ProcOK, Aimed, AgentSteps, Files
    <3> QED
      BY <1>1, <1>5, <2>0, <3>1 DEF ProcOK, Reread, Stays
  <2>4. Aimed(v)'
    <3>1. \A g \in human[v] : fs'[g] # None
      BY <1>0, <1>3, <2>0 DEF ProcOK, Aimed, TypeOK, Files
    <3>2. pc[v] = "in_place" => fs'[target[v]] # None
      BY <1>3, <2>0 DEF ProcOK, Aimed, HumanSteps, Files
    <3>3. select_root(cmd[v].source)' = select_root(cmd[v].source)
      BY <1>2, <2>0 DEF select_root, select_named_root, Stays
    <3> QED
      BY <2>0, <3>1, <3>2, <3>3 DEF ProcOK, Aimed, Stays
  <2> QED
    BY <2>1, <2>2, <2>3, <2>4 DEF ProcOK
<1> QED
  BY <1>3, <1>4, <1>8 DEF EditInv

-----------------------------------------------------------------------------
LEMMA EditStart == Init => EditInv
<1> SUFFICES ASSUME Init PROVE EditInv
  OBVIOUS
<1>1. TypeOK
  BY EditConstants, SMT DEF Init, TypeOK
<1>2. OneTier
  BY DEF Init, OneTier
<1>3. AgentWhole
  BY EditConstants DEF Init, AgentWhole
<1>4. ASSUME NEW w \in Writers PROVE ProcOK(w)
  <2>1. pc[w] = "new" /\ human[w] = {} /\ scratch[w] = None
    BY DEF Init
  <2>2. Locked(w) /\ Checked(w) /\ Reread(w) /\ Clean(w)
    BY <2>1 DEF Locked, Checked, Reread, Clean, Working, AgentSteps, NewFileSteps, HumanSteps
  <2>3. Aimed(w)
    BY <2>1 DEF Aimed, AgentSteps, NewFileSteps, HumanSteps
  <2> QED
    BY <2>2, <2>3 DEF ProcOK
<1> QED
  BY <1>1, <1>2, <1>3, <1>4 DEF EditInv

LEMMA EditStep == EditInv /\ [Next]_vars => EditInv'
<1> SUFFICES ASSUME EditInv, [Next]_vars PROVE EditInv'
  OBVIOUS
<1>1. CASE UNCHANGED vars
  <2>1. TypeOK' /\ OneTier' /\ AgentWhole'
    <3>1. OneTier' /\ AgentWhole'
      BY <1>1, SameTiers DEF vars
    <3>2. TypeOK'
      BY <1>1 DEF vars, EditInv, TypeOK
    <3> QED
      BY <3>1, <3>2
  <2>2. ASSUME NEW w \in Writers PROVE ProcOK(w)'
    <3>1. ProcOK(w) /\ UNCHANGED <<roots, fs, lock>> /\ Stays(w)
      BY <1>1 DEF vars, EditInv, Stays
    <3>2. Locked(w)' /\ Reread(w)' /\ Clean(w)'
      <4>1. Locked(w)'
        BY <3>1 DEF ProcOK, Locked, Stays
      <4>2. Reread(w)'
        BY <3>1 DEF ProcOK, Reread, Stays
      <4>3. Clean(w)'
        BY <3>1 DEF ProcOK, Clean, Stays
      <4> QED
        BY <4>1, <4>2, <4>3
    <3>3. Aimed(w)'
      BY <3>1 DEF ProcOK, Aimed, Stays, select_root, select_named_root
    <3>4. Checked(w)'
      BY <3>1, SameFiles DEF ProcOK, Checked, Stays
    <3> QED
      BY <3>2, <3>3, <3>4 DEF ProcOK
  <2> QED
    BY <2>1, <2>2 DEF EditInv
<1>2. ASSUME NEW w \in Writers, NEW c \in Commands, run(w, c) PROVE EditInv'
  BY <1>2, RunKeeps
<1>3. ASSUME NEW w \in Writers, Step(w) PROVE EditInv'
  <2>1. (lock_roots(w) \/ edit_agent_door(w) \/ edit_human_door(w)
         \/ sops_edits_stage(w) \/ reread(w) \/ rename_stage(w)) => EditInv'
    BY LockKeeps, AgentDoorKeeps, HumanDoorKeeps, StageKeeps, RereadKeeps, RenameKeeps
  <2>2. sops_edits_in_place(w) \/ run_editor(w) \/ validate(w) \/ encrypt(w) => EditInv'
    BY InPlaceKeeps, EditorKeeps, ValidateKeeps, EncryptKeeps
  <2>3. install(w) \/ read_piped_assignment(w) \/ encrypt_bytes(w) \/ persist(w) => EditInv'
    BY InstallKeeps, StdinKeeps, SopsKeeps, PersistKeeps
  <2> QED
    BY <1>3, <2>1, <2>2, <2>3 DEF Step
<1>4. ASSUME NEW w \in Writers, Killed(w) PROVE EditInv'
  BY <1>4, KilledKeeps
<1>5. ASSUME NEW f \in AgentFiles, SyncWrites(f) PROVE EditInv'
  BY <1>5, SyncKeeps
<1> QED
  BY <1>1, <1>2, <1>3, <1>4, <1>5 DEF Next

\* What a step can do to an agent file: the rename replaces what the re-read
\* saw or what the sync tool brought since, an install replaces nothing.
LEMMA UpdateStep ==
    ASSUME EditInv, [Next]_vars, NEW f \in AgentFiles, NEW w \in Writers,
           fs'[f] # fs[f], fs'[f].by = w
    PROVE  \/ fs[f] = before[w]
           \/ fs[f].by = Sync /\ before[w] # None /\ seen[w] = before[w]
<1>0. fs \in [Files -> Contents \cup {None}] /\ f \in Files
  BY DEF EditInv, TypeOK, Files
<1>1. ASSUME NEW u \in Writers, NEW g \in Files, NEW names,
             fs' = [fs EXCEPT ![g] = [names |-> names, by |-> u, whole |-> TRUE]]
      PROVE  f = g /\ u = w
  BY <1>0, <1>1
<1>2. ASSUME NEW u \in Writers, rename_stage(u)
      PROVE  \/ fs[f] = before[w]
             \/ fs[f].by = Sync /\ before[w] # None /\ seen[w] = before[w]
  <2>1. pc[u] = "rename" /\ ProcOK(u)
    BY <1>2 DEF rename_stage, EditInv
  <2>2. target[u] \in Files /\ before[u] # None
    BY <2>1 DEF ProcOK, Aimed, AgentSteps, Files
  <2>3. fs' = [fs EXCEPT ![target[u]] = [names |-> draft[u], by |-> u, whole |-> TRUE]]
    BY <1>2 DEF rename_stage, Publish
  <2>4. f = target[u] /\ u = w
    BY <1>1, <2>2, <2>3
  <2> QED
    BY <2>1, <2>2, <2>4 DEF ProcOK, Reread
<1>3. ASSUME NEW u \in Writers, install(u) PROVE fs[f] = before[w]
  <2>1. pc[u] = "install" /\ ProcOK(u)
    BY <1>3 DEF install, EditInv
  <2>2. \/ target[u] \in AgentFiles \/ target[u] \in HumanFiles
    BY <2>1, NewTarget
  <2>3. /\ fs[target[u]] = None
        /\ fs' = [fs EXCEPT ![target[u]] = [names |-> draft[u], by |-> u, whole |-> TRUE]]
    BY <1>3 DEF install, Publish
  <2>4. f = target[u] /\ u = w
    BY <1>1, <2>2, <2>3 DEF Files
  <2>5. cmd[u].door \in {"agent", "human"}
    BY <2>1, EditConstants DEF ProcOK, Aimed
  <2>6. before[u] = None
    BY <2>1, <2>4, <2>5, Tiers DEF ProcOK, Aimed, NewFileSteps
  <2> QED
    BY <2>3, <2>4, <2>6
<1>4. ASSUME NEW u \in Writers, sops_edits_in_place(u) \/ persist(u) \/ Killed(u) PROVE FALSE
  <2>1. ASSUME pc[u] \in HumanSteps, NEW x, fs' = [fs EXCEPT ![target[u]] = x] PROVE FALSE
    <3>1. target[u] \in HumanFiles
      BY <2>1, AtHuman
    <3>2. f # target[u]
      BY <3>1, Tiers
    <3> QED
      BY <1>0, <2>1, <3>2
  <2>2. CASE sops_edits_in_place(u)
    <3>1. pc[u] \in HumanSteps
      BY <2>2 DEF sops_edits_in_place, HumanSteps
    <3> QED
      BY <2>1, <2>2, <3>1 DEF sops_edits_in_place
  <2>3. CASE persist(u)
    <3>1. pc[u] \in HumanSteps
      BY <2>3 DEF persist, HumanSteps
    <3> QED
      BY <2>1, <2>3, <3>1 DEF persist, Publish
  <2>4. CASE Killed(u)
    <3>1. pc[u] = "in_place" /\ fs' = [fs EXCEPT ![target[u]].whole = FALSE]
      BY <2>4 DEF Killed
    <3>2. pc[u] \in HumanSteps
      BY <3>1 DEF HumanSteps
    <3>3. fs' = [fs EXCEPT ![target[u]] = [fs[target[u]] EXCEPT !.whole = FALSE]]
      BY <3>1
    <3> QED
      BY <2>1, <3>2, <3>3
  <2> QED
    BY <1>4, <2>2, <2>3, <2>4
<1>5. ASSUME NEW g \in AgentFiles, SyncWrites(g) PROVE FALSE
  <2>1. g \in Files
    BY DEF Files
  <2>2. PICK n : fs' = [fs EXCEPT ![g] = [names |-> n, by |-> Sync, whole |-> TRUE]]
    BY <1>5 DEF SyncWrites
  <2>3. fs'[f].by = Sync
    BY <1>0, <2>1, <2>2
  <2> QED
    BY <2>3, EditConstants
<1>6. ASSUME NEW u \in Writers, Step(u) PROVE UNCHANGED fs \/ rename_stage(u) \/ install(u)
                                              \/ sops_edits_in_place(u) \/ persist(u)
  BY <1>6 DEF Step, lock_roots, edit_agent_door, edit_human_door, sops_edits_stage, reread,
              run_editor, validate, encrypt, read_piped_assignment, encrypt_bytes, files
<1>7. \/ \E u \in Writers : Step(u) \/ Killed(u)
      \/ \E g \in AgentFiles : SyncWrites(g)
  BY DEF Next, run, files, vars
<1> QED
  BY <1>2, <1>3, <1>4, <1>5, <1>6, <1>7

LEMMA EditAlways == Spec => []EditInv
<1> QED
  BY EditStart, EditStep, PTL DEF Spec

\* A key lives in one tier: however the doors of any number of processes
\* interleave, and whoever is killed, no name of a human file is in an agent
\* file of a configured root.
THEOREM KeyInOneTier == Spec => []OneTier
<1>1. EditInv => OneTier
  BY DEF EditInv
<1> QED
  BY <1>1, EditAlways, PTL

\* Agent files are whole whoever was killed, and a command that ends, in
\* whatever way, has unlinked its plaintext and overwritten what it created,
\* and what its editor put in its place if that could be opened again.
THEOREM NothingIsLeft == Spec => []LeavesNothingBehind
<1>1. EditInv => LeavesNothingBehind
  BY DEF EditInv, ProcOK, AgentWhole, LeavesNothingBehind, Clean
<1> QED
  BY <1>1, EditAlways, PTL

\* No update of an agent file is lost: what a process replaces is what it
\* staged, or what the sync tool brought after the re-read.
THEOREM NoUpdateIsLost == Spec => NoLostUpdate
<1> DEFINE Keeps == \A f \in AgentFiles, w \in Writers :
              fs'[f] # fs[f] /\ fs'[f].by = w /\ (fs[f] = None \/ fs[f].by # w) =>
                  \/ fs[f] = before[w]
                  \/ fs[f].by = Sync /\ before[w] # None /\ seen[w] = before[w]
<1>1. EditInv /\ [Next]_vars => [Keeps]_vars
  BY UpdateStep
<1>2. Spec => [][Keeps]_vars
  <2> HIDE DEF Keeps
  <2> QED
    BY <1>1, EditAlways, PTL DEF Spec
<1> QED
  BY <1>2 DEF NoLostUpdate

-----------------------------------------------------------------------------
(***************************************************************************)
(* Why commands cannot wait on each other for ever.                        *)
(***************************************************************************)
\* A process waits for the flock of a root that another process holds.
Blocked(w) == pc[w] = "lock" /\ lock[roots[next[w]].dir] \notin {None, w}

\* Whoever holds a flock is still at its command, and has passed that root
\* while it is locking.
MayHold(d, l, n) ==
    /\ l \in {"lock"} \cup Working
    /\ l = "lock" => \E i \in DOMAIN roots : i < n /\ roots[i].dir = d

Holding == \A w \in Writers, d \in Dirs : lock[d] = w => MayHold(d, pc[w], next[w])

\* No process waits on itself or, around a circle, on its own waiters: whoever
\* a waiter waits for is at its command and, if it is locking too, is further
\* on in the order of the configuration (lock_roots).  So while anyone waits,
\* some process that does not wait holds on to a flock.
NoCircularWait ==
    /\ \A v, w \in Writers : Blocked(v) /\ lock[roots[next[v]].dir] = w =>
          /\ w # v /\ pc[w] \in {"lock"} \cup Working
          /\ pc[w] = "lock" => next[v] < next[w]
    /\ (\E v \in Writers : Blocked(v)) =>
          \E w \in Writers : /\ pc[w] \in {"lock"} \cup Working /\ ~ Blocked(w)
                             /\ \E i \in DOMAIN roots : lock[roots[i].dir] = w

\* Past the locks, a step goes on with them or drops them all.
LEMMA WorkStep ==
    ASSUME NEW w \in Writers, Step(w), ~ lock_roots(w)
    PROVE  /\ UNCHANGED <<roots, next>> /\ pc[w] \in Working
           /\ \/ Leave(w)
              \/ UNCHANGED lock /\ \E l \in Working : Goto(w, l)
<1> USE DEF Working, AgentSteps, NewFileSteps, HumanSteps, Finish, files
<1>1. CASE edit_agent_door(w)
  BY <1>1 DEF edit_agent_door, Opened
<1>2. CASE edit_human_door(w)
  BY <1>2 DEF edit_human_door, Opened
<1>3. CASE sops_edits_stage(w) \/ reread(w) \/ rename_stage(w) \/ sops_edits_in_place(w)
  BY <1>3 DEF sops_edits_stage, reread, rename_stage, sops_edits_in_place
<1>4. CASE run_editor(w) \/ validate(w)
  BY <1>4 DEF run_editor, validate
<1>5. CASE encrypt(w) \/ install(w)
  BY <1>5 DEF encrypt, install
<1>6. CASE read_piped_assignment(w) \/ encrypt_bytes(w) \/ persist(w)
  BY <1>6 DEF read_piped_assignment, encrypt_bytes, persist
<1> QED
  BY <1>1, <1>2, <1>3, <1>4, <1>5, <1>6 DEF Step

\* A step of w that takes at most free locks keeps the others' holding, and
\* its own if it is right.
LEMMA HolderStep ==
    ASSUME TypeOK, Holding, UNCHANGED roots, NEW w \in Writers, NEW l, NEW n,
           pc' = [pc EXCEPT ![w] = l], next' = [next EXCEPT ![w] = n],
           \A d \in Dirs : lock'[d] \notin {w, None} => lock[d] = lock'[d],
           \A d \in Dirs : lock'[d] = w => MayHold(d, l, n)
    PROVE  Holding'
<1>1. SUFFICES ASSUME NEW v \in Writers, NEW d \in Dirs, lock'[d] = v
               PROVE  MayHold(d, pc'[v], next'[v])
  BY SMT DEF Holding, MayHold
<1>2. pc'[w] = l /\ next'[w] = n
  BY DEF TypeOK
<1>3. CASE v = w
  BY <1>1, <1>2, <1>3
<1>4. CASE v # w
  <2>1. lock[d] = v /\ pc'[v] = pc[v] /\ next'[v] = next[v]
    BY <1>1, <1>4, EditConstants DEF TypeOK
  <2> QED
    BY <2>1 DEF Holding
<1> QED
  BY <1>3, <1>4

LEMMA HoldingStep == EditInv /\ Holding /\ [Next]_vars => Holding'
<1> SUFFICES ASSUME EditInv, Holding, [Next]_vars PROVE Holding'
  OBVIOUS
<1>0. TypeOK /\ \A w \in Writers : w # None /\ next = [next EXCEPT ![w] = next[w]]
  BY EditConstants DEF EditInv, TypeOK
<1>1. CASE UNCHANGED <<roots, lock, pc, next>>
  BY <1>1, SMT DEF Holding, MayHold
<1>2. ASSUME NEW w \in Writers, Unlock(w), NEW l, Goto(w, l), UNCHANGED <<roots, next>>
      PROVE  Holding'
  <2>1. \A d \in Dirs : lock'[d] # w /\ (lock'[d] # None => lock[d] = lock'[d])
    BY <1>0, <1>2 DEF Unlock
  <2>2. pc' = [pc EXCEPT ![w] = l] /\ next' = [next EXCEPT ![w] = next[w]]
    BY <1>0, <1>2 DEF Goto
  <2> QED
    BY <1>0, <1>2, <2>1, <2>2, HolderStep
<1>3. ASSUME NEW w \in Writers, NEW c \in Commands, run(w, c) PROVE Holding'
  <2>1. pc[w] = "new" /\ UNCHANGED <<roots, lock>>
    BY <1>3 DEF run, files
  <2>2. \A d \in Dirs : lock'[d] # w
    BY <2>1 DEF Holding, MayHold, Working, AgentSteps, NewFileSteps, HumanSteps
  <2>3. PICK l, n : pc' = [pc EXCEPT ![w] = l] /\ next' = [next EXCEPT ![w] = n]
    BY <1>0, <1>3, SMT DEF run, Goto
  <2> QED
    BY <1>0, <2>1, <2>2, <2>3, HolderStep
<1>4. ASSUME NEW w \in Writers, lock_roots(w) PROVE Holding'
  <2>1. PICK l : l \in {"lock", "door"} /\ pc' = [pc EXCEPT ![w] = l]
    BY <1>4 DEF lock_roots, Goto
  <2>2. /\ pc[w] = "lock" /\ lock' = [lock EXCEPT ![roots[next[w]].dir] = w]
        /\ next' = [next EXCEPT ![w] = next[w] + 1] /\ UNCHANGED roots
        /\ lock[roots[next[w]].dir] \in {None, w}
    BY <1>4 DEF lock_roots, files
  <2>3. next[w] \in DOMAIN roots /\ DOMAIN roots = 1..Len(roots) /\ Len(roots) \in Nat
    BY <2>2, Roots DEF EditInv, ProcOK, Locked
  <2>4. \A d \in Dirs : lock'[d] = IF d = roots[next[w]].dir THEN w ELSE lock[d]
    BY <1>0, <2>2 DEF TypeOK
  <2>5. \A i \in DOMAIN roots : i <= next[w] => i < next[w] + 1
    BY <2>3, SMT
  <2>6. \A i \in DOMAIN roots : i < next[w] => i <= next[w]
    BY <2>3, SMT
  <2>7. \A d \in Dirs : lock'[d] = w =>
            \E i \in DOMAIN roots : i < next[w] + 1 /\ roots[i].dir = d
    <3>1. SUFFICES ASSUME NEW d \in Dirs, lock'[d] = w
                   PROVE  \E i \in DOMAIN roots : i <= next[w] /\ roots[i].dir = d
      BY <2>5
    <3>2. CASE d = roots[next[w]].dir
      BY <2>3, <3>2, SMT
    <3>3. CASE d # roots[next[w]].dir
      <4>1. MayHold(d, pc[w], next[w])
        BY <2>4, <3>1, <3>3 DEF Holding
      <4> QED
        BY <2>2, <2>6, <4>1 DEF MayHold
    <3> QED
      BY <3>2, <3>3
  <2>8. \A d \in Dirs : lock'[d] = w => MayHold(d, l, next[w] + 1)
    BY <2>1, <2>7 DEF MayHold, Working
  <2>9. \A d \in Dirs : lock'[d] \notin {w, None} => lock[d] = lock'[d]
    BY <2>4
  <2> QED
    BY <1>0, <2>1, <2>2, <2>8, <2>9, HolderStep
<1>5. ASSUME NEW w \in Writers, Step(w), ~ lock_roots(w) PROVE Holding'
  <2>1. CASE Leave(w)
    BY <1>2, <1>5, <2>1, WorkStep DEF Leave
  <2>2. CASE UNCHANGED lock /\ \E l \in Working : Goto(w, l)
    <3>1. PICK l \in Working : pc' = [pc EXCEPT ![w] = l]
      BY <2>2 DEF Goto
    <3>2. l # "lock" /\ UNCHANGED <<roots, next, lock>>
      BY <1>5, <2>2, WorkStep DEF Working, AgentSteps, NewFileSteps, HumanSteps
    <3>3. next' = [next EXCEPT ![w] = next[w]] /\ \A d \in Dirs : MayHold(d, l, next[w])
      BY <1>0, <3>1, <3>2 DEF MayHold
    <3> QED
      BY <1>0, <3>1, <3>2, <3>3, HolderStep
  <2> QED
    BY <1>5, <2>1, <2>2, WorkStep
<1>6. ASSUME NEW w \in Writers, Killed(w) PROVE Holding'
  BY <1>2, <1>6 DEF Killed
<1>7. ASSUME NEW f \in AgentFiles, SyncWrites(f) PROVE Holding'
  BY <1>1, <1>7 DEF SyncWrites
<1>8. CASE UNCHANGED vars
  BY <1>1, <1>8 DEF vars
<1> QED
  BY <1>3, <1>4, <1>5, <1>6, <1>7, <1>8 DEF Next

\* A set of naturals has a least member.
LEMMA Least ==
    ASSUME NEW T \in SUBSET Nat, T # {}
    PROVE  \E n \in T : \A m \in T : n <= m
<1>1. IsWellFoundedOn(OpToRel(<, Nat), Nat)
  BY NatLessThanWellFounded
<1>2. PICK n \in T : \A m \in T : ~ (<<m, n>> \in OpToRel(<, Nat))
  BY <1>1, WFMin
<1>3. \A a, b \in Nat : a < b => <<a, b>> \in OpToRel(<, Nat)
  BY SMT DEF OpToRel
<1>4. \A m \in T : ~ (m < n)
  BY <1>2, <1>3
<1> QED
  BY <1>4, SMT

\* A waiter is behind whoever it waits for.
LEMMA WaitsForward ==
    ASSUME EditInv, Holding, NEW v \in Writers, NEW w \in Writers,
           Blocked(v), lock[roots[next[v]].dir] = w
    PROVE  /\ w # v /\ pc[w] \in {"lock"} \cup Working
           /\ pc[w] = "lock" => next[v] < next[w]
           /\ next[v] \in DOMAIN roots
<1> DEFINE d == roots[next[v]].dir
<1>1. /\ pc[v] = "lock" /\ w # v /\ next[v] \in DOMAIN roots /\ d \in Dirs
      /\ \A i \in DOMAIN roots : i < next[v] => lock[roots[i].dir] = v
      /\ Len(roots) \in Nat /\ DOMAIN roots = 1 .. Len(roots)
      /\ next[w] \in Nat
  BY Roots, SMT DEF EditInv, TypeOK, ProcOK, Locked, Blocked
<1>2. pc[w] \in {"lock"} \cup Working
  BY <1>1 DEF Holding, MayHold
<1>3. ASSUME pc[w] = "lock" PROVE next[v] < next[w]
  <2>1. PICK i \in DOMAIN roots : i < next[w] /\ roots[i].dir = d
    BY <1>1, <1>3 DEF Holding, MayHold
  <2>2. ~ (i < next[v])
    BY <1>1, <2>1
  <2> QED
    BY <1>1, <2>1, <2>2, SMT
<1> QED
  BY <1>1, <1>2, <1>3

LEMMA NoCircle == EditInv /\ Holding => NoCircularWait
<1> SUFFICES ASSUME EditInv, Holding PROVE NoCircularWait
  OBVIOUS
<1>1. \A v, w \in Writers : Blocked(v) /\ lock[roots[next[v]].dir] = w =>
          /\ w # v /\ pc[w] \in {"lock"} \cup Working
          /\ pc[w] = "lock" => next[v] < next[w]
  BY WaitsForward
<1>2. ASSUME NEW u \in Writers, Blocked(u)
      PROVE  \E w \in Writers : /\ pc[w] \in {"lock"} \cup Working /\ ~ Blocked(w)
                                /\ \E i \in DOMAIN roots : lock[roots[i].dir] = w
  <2>1. \A v \in Writers : Blocked(v) =>
            /\ next[v] \in DOMAIN roots /\ lock[roots[next[v]].dir] \in Writers
    <3>1. ASSUME NEW v \in Writers, Blocked(v) PROVE lock[roots[next[v]].dir] \in Writers
      <4>1. next[v] \in DOMAIN roots /\ lock[roots[next[v]].dir] # None
        BY <3>1 DEF Blocked, EditInv, ProcOK, Locked
      <4>2. roots[next[v]].dir \in Dirs
        BY <4>1, Roots DEF EditInv
      <4> QED
        BY <4>1, <4>2 DEF EditInv, TypeOK
    <3> QED
      BY <3>1, WaitsForward
  <2>2. Len(roots) \in Nat /\ DOMAIN roots = 1 .. Len(roots)
    BY Roots DEF EditInv
  <2>3. PICK T : T = {n \in Nat : \E v \in Writers : Blocked(v) /\ n + next[v] = Len(roots)}
    OBVIOUS
  <2>4. Len(roots) - next[u] \in T
    <3>1. Len(roots) - next[u] \in Nat /\ (Len(roots) - next[u]) + next[u] = Len(roots)
      BY <1>2, <2>1, <2>2, SMT
    <3> QED
      BY <1>2, <2>3, <3>1
  <2>5. PICK n \in T : \A m \in T : n <= m
    BY <2>3, <2>4, Least
  <2>6. PICK v \in Writers : Blocked(v) /\ n + next[v] = Len(roots)
    BY <2>3
  <2>7. PICK w \in Writers : w = lock[roots[next[v]].dir]
    BY <2>1, <2>6
  <2>8. ASSUME Blocked(w) PROVE FALSE
    <3>1. next[v] < next[w] /\ next[w] \in DOMAIN roots
      BY <1>1, <2>1, <2>6, <2>7, <2>8 DEF Blocked
    <3>2. Len(roots) - next[w] \in Nat /\ (Len(roots) - next[w]) + next[w] = Len(roots)
      BY <2>2, <3>1, SMT
    <3>3. Len(roots) - next[w] \in T
      BY <2>3, <2>8, <3>2
    <3>4. next[v] \in DOMAIN roots /\ n \in Nat /\ n <= Len(roots) - next[w]
      BY <2>1, <2>3, <2>5, <2>6, <3>3
    <3> QED
      BY <2>2, <2>6, <3>1, <3>4, SMT
  <2> QED
    BY <1>1, <2>1, <2>6, <2>7, <2>8
<1> QED
  BY <1>1, <1>2 DEF NoCircularWait

\* Commands do not wait on each other for ever because of the locks: whatever
\* the roots and whoever is killed, while a process waits for a flock, some
\* process that holds one does not wait.
THEOREM NoDeadlock == Spec => []NoCircularWait
<1>1. Init => Holding
  <2>1. \A w \in Writers : w # None
    BY EditConstants
  <2> QED
    BY <2>1 DEF Init, Holding
<1> QED
  BY <1>1, EditAlways, HoldingStep, NoCircle, PTL DEF Spec
=============================================================================
