---------------------------- MODULE MCEditSecret ----------------------------
(***************************************************************************)
(* Two processes on two roots, one key, and a sync tool.                   *)
(***************************************************************************)
EXTENDS EditSecret, TLC

CONSTANTS a, b, k

MCDirs == {a, b}
MCNames == {k}

Root(n, d) == [name |-> n, path |-> n, dir |-> d]

(* Two roots, and one directory configured under two names.                *)
MCConfigs == {<<Root("a", a), Root("b", b)>>, <<Root("a", a), Root("alias", a)>>}

Edit(source, local) == [door |-> "agent", source |-> source, local |-> local]
Human(source, local, piped) ==
    [door |-> "human", source |-> source, local |-> local, piped |-> piped, name |-> k]

MCCommands ==
    {Edit("a", FALSE), Edit("b", TRUE), Edit(None, FALSE),
     Human("a", FALSE, TRUE), Human("a", FALSE, FALSE), Human("a", TRUE, FALSE), Human("b", FALSE, FALSE),
     Human(None, FALSE, TRUE)}

Agent(d, local) == [tier |-> "agent", dir |-> d, local |-> local]
Content(names) == [names |-> names, by |-> Shipped, whole |-> TRUE]

(* The key in the agent tier, the key in the human tier, or in neither; a  *)
(* root that is not configured leaves an empty disk.                       *)
MCDisks ==
    LET Disk(f, c) == [g \in Files |-> IF g = f THEN c ELSE None]
    IN  {Disk(Agent(a, FALSE), Content({k})), Disk(Agent(b, TRUE), Content({})),
         Disk([tier |-> "human", dir |-> a, local |-> FALSE, name |-> k], Content({k}))}

=============================================================================
