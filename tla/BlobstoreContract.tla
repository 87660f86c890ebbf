------------------------- MODULE BlobstoreContract -------------------------
(***************************************************************************)
(* What the trait Blobstore promises about one key (blobstore/src/lib.rs). *)
(* A key has at most one value, so the store either has it or not.  A put  *)
(* that returns Ok has stored the value; a put that fails, or whose future *)
(* is dropped, may have stored it or may still do so; a get or is_present  *)
(* answers with a state the store was in while the call was running.       *)
(***************************************************************************)
CONSTANTS Clients

VARIABLES
    data,    \* does the store have the value?
    issued,  \* has a put of the key ever been called?
    call,    \* call[c]: the call client c is waiting for, or "none"
    missing, \* missing[c]: was the value absent when c made its call?
    answer   \* answer[c]: how c's last call ended

cvars == <<data, issued, call, missing, answer>>

Calls == {"put", "get", "is_present"}
Answers == {"none", "ok", "some", "absent", "error"}

CInit ==
    /\ data \in BOOLEAN
    /\ issued = data
    /\ call = [c \in Clients |-> "none"]
    /\ missing = [c \in Clients |-> FALSE]
    /\ answer = [c \in Clients |-> "none"]

Ask(c) ==
    /\ call[c] = "none"
    /\ \E op \in Calls :
          /\ call' = [call EXCEPT ![c] = op]
          /\ issued' = (issued \/ op = "put")
    /\ missing' = [missing EXCEPT ![c] = ~data]
    /\ answer' = [answer EXCEPT ![c] = "none"]
    /\ UNCHANGED data

\* The value of some put that was called reaches the store.
Store ==
    /\ issued
    /\ ~data
    /\ data' = TRUE
    /\ UNCHANGED <<issued, call, missing, answer>>

\* The answers the trait allows to c's call.
Allowed(c, a) ==
    \/ a = "error"
    \/ a = "ok" /\ call[c] = "put" /\ data
    \/ a = "some" /\ call[c] \in {"get", "is_present"} /\ data
    \/ a = "absent" /\ call[c] \in {"get", "is_present"} /\ missing[c]

Answer(c) ==
    /\ call[c] # "none"
    /\ \E a \in Answers \ {"none"} :
          /\ Allowed(c, a)
          /\ answer' = [answer EXCEPT ![c] = a]
    /\ call' = [call EXCEPT ![c] = "none"]
    /\ UNCHANGED <<data, issued, missing>>

CNext ==
    \/ Store
    \/ \E c \in Clients : Ask(c) \/ Answer(c)

CSpec == CInit /\ [][CNext]_cvars
=============================================================================
