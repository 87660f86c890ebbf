------------------------- MODULE MCBlobstoreHealer --------------------------
EXTENDS BlobstoreHealer, TLC

CONSTANTS p2, k2, s1

\* p2 has put k2 earlier and only the request to s1 succeeded.
MCInit ==
  /\ pkey = [p \in Puts |-> IF p = p2 THEN k2 ELSE NoKey]
  /\ req = [p \in Puts |-> [s \in Stores |->
              IF p # p2 THEN "idle" ELSE IF s = s1 THEN "done" ELSE "failed"]]
  /\ blobs = [s \in Stores |-> IF s = s1 THEN {k2} ELSE {}]
  /\ queue = {[id |-> 1, key |-> k2, store |-> s1, age |-> 0]}
  /\ nextId = 2 /\ faults = 1
  /\ rkey = [r \in Reads |-> NoKey]
  /\ ans = [r \in Reads |-> [s \in Stores |-> "idle"]]
  /\ res = [r \in Reads |-> "idle"]
  /\ must = [r \in Reads |-> FALSE]
  /\ hpc = "idle" /\ groups = {} /\ left = <<>> /\ fetched = {} /\ copy = <<>> /\ cleaned = {}

MCFairSpec == MCInit /\ [][HNext]_allvars /\ HFairness
=============================================================================
