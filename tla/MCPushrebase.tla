---------------------------- MODULE MCPushrebase ----------------------------
(* A small instance of Pushrebase.                                         *)
EXTENDS Pushrebase

\* a, A (equal in lower case), a/b (a is its directory), c; and nothing.
MCOtherFileSets == {{<<1>>}, {<<101>>}, {<<1, 2>>}, {<<3>>}}
MCFileSets == MCOtherFileSets \cup {{}}
MCStacks == [p \in Pushers |-> IF p = "p1" THEN 2 ELSE 1]
MCBases == [p \in Pushers |-> IF p = "p1" THEN 1 ELSE 2]

\* The second commit of the server changes c.  Those of p1 change a/b and the one of p2
\* changes something; or the second one of p1 and the one of p2 are empty; or both of p1.
FilesOf(p, i) == files[IdOf(<<p, i>>)]
MCInit ==
  /\ Init
  /\ files[2] = {<<3>>}
  /\ \/ FilesOf("p1", 1) = {<<1, 2>>} /\ FilesOf("p1", 2) = {<<1, 2>>} /\ FilesOf("p2", 1) # {}
     \/ FilesOf("p1", 1) = {<<1, 2>>} /\ FilesOf("p1", 2) = {} /\ FilesOf("p2", 1) = {}
     \/ FilesOf("p1", 1) = {} /\ FilesOf("p1", 2) = {} /\ FilesOf("p2", 1) = {<<1>>}
MCSpec == MCInit /\ [][Next]_vars
=============================================================================
