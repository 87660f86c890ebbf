------------------------------ MODULE MCTables ------------------------------
(***************************************************************************)
(* Two SQL tables behind caches, on small instances.  An initial state     *)
(* chooses one of them, the bonsai <-> hg mapping, without or with rows    *)
(* kept in memory, or the file nodes with one of four batches; the other   *)
(* one stays as it is.                                                     *)
(***************************************************************************)
EXTENDS Filenodes, TLC

CONSTANTS Hosts, Clients, Bonsais, HgIds

VARIABLES scenario, mapLog, mapApplied, cachelib, memcache, overlay, call

M == INSTANCE BonsaiHgMapping WITH log <- mapLog, applied <- mapApplied

mappingVars == <<mapLog, mapApplied, cachelib, memcache, overlay, call>>
vars == <<scenario, fnVars, mappingVars>>

MCShardOf == "p" :> 1 @@ "q" :> 2 @@ "d" :> 2
MCIsTree == "p" :> FALSE @@ "q" :> FALSE @@ "d" :> TRUE

\* The bounds: pointers drawn, and rows MemWrites accepts.
MaxPointers == IF scenario = "copylist" THEN 2 ELSE 5
MaxInserts == 2

First == CHOOSE a \in Adders : TRUE
Batches(first, second) == [a \in Adders |-> IF a = First THEN first ELSE second]

BatchOf(s) ==
  CASE s = "lists" ->    \* the list of p grows in two places; node 2 is added twice
         Batches(<<{Info("p", 2, "c1", None), Info("p", 3, "c1", None)}>>,
                 <<{Info("p", 1, "c2", None), Info("p", 2, "c2", None)}>>)
    [] s = "copy" ->     \* q is copied from p on the other shard, in two chunks
         Batches(<<{Info("p", 2, "c1", None)}>>,
                 <<{Info("q", 1, "c2", <<"p", 2>>)}, {Info("p", 2, "c2", None)}>>)
    [] s = "copylist" -> \* the list of q has a copy
         Batches(<<{Info("q", 1, "c1", <<"p", 2>>)}>>, <<{Info("p", 2, "c2", None)}>>)
    [] OTHER ->          \* a tree copied from a file is refused
         Batches(<<{Info("d", 1, "c1", <<"p", 2>>), Info("p", 2, "c1", None)}>>,
                 <<{Info("p", 2, "c2", None)}>>)

MCInit ==
  /\ scenario \in {"mapping", "overlay", "lists", "copy", "copylist", "invalid"}
  /\ FilenodesInit(BatchOf(scenario))
  /\ M!MappingInit

\* Rows that clash in one of their keys, or the ones beside rows kept in memory.
Added ==
  IF scenario = "mapping" THEN {<<"b1", "h1">>, <<"b2", "h2">>, <<"b1", "h2">>}
                          ELSE {<<"b1", "h1">>}

\* Clients of two processes, or of the one that keeps the rows in memory.
HostOf(c) == IF scenario = "mapping" THEN c ELSE CHOOSE h \in Hosts : TRUE

MappingStep ==
  \/ M!Replicate
  \/ \E c \in Clients :
       \/ M!CallStep(c)
       \/ \E row \in Added : M!Add(c, row)
       \/ \E keys \in {{<<"Bonsai", "b1">>, <<"Bonsai", "b2">>}, {<<"Hg", "h1">>}} :
            M!Get(c, HostOf(c), keys)
       \/ /\ scenario = "overlay"
          /\ \/ M!MemGet(c, HostOf(c), {<<"Bonsai", "b1">>, <<"Bonsai", "b2">>})
             \/ \E row \in {<<"b1", "h1">>, <<"b1", "h2">>} : M!MemAdd(c, HostOf(c), row)

FilenodesStep ==
  \/ \E a \in Adders : AdderStep(a) \/ (scenario \in {"copy", "invalid"} /\ AdderFails(a))
  \/ \E sh \in Shards : Replicate(sh)
  \/ FillStep
  \/ \E r \in Readers :
       \/ ReaderStep(r)
       \/ scenario = "lists" /\ GetAllFilenodes(r, "p")
       \/ scenario = "copylist" /\ GetAllFilenodes(r, "q")
       \/ scenario = "copy" /\ (GetFilenode(r, "q", 1) \/ GetFilenode(r, "p", 2))
       \/ scenario = "invalid" /\ (GetFilenode(r, "d", 1) \/ GetFilenode(r, "p", 2))

MCNext ==
  /\ UNCHANGED scenario
  /\ \/ scenario \in {"mapping", "overlay"} /\ MappingStep /\ UNCHANGED fnVars
     \/ scenario \notin {"mapping", "overlay"} /\ FilenodesStep /\ UNCHANGED mappingVars
  /\ pointer' <= MaxPointers /\ Len(overlay'.inserts) <= MaxInserts

MCSpec == MCInit /\ [][MCNext]_vars

-----------------------------------------------------------------------------
\* The bonsai <-> hg mapping: an add that succeeds stored exactly its row, or found
\* exactly that row; what cachelib and memcache hold under a key is the row the table
\* has for it; and a get misses nothing that was stored when it began, however far
\* behind the replica is (bonsai_hg_mapping/src/lib.rs, caching.rs, mem_writes.rs).
MappingExact == M!AddMeansStored /\ M!LayersExact /\ M!AnswerFresh
=============================================================================
