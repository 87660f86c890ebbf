-------------------------- MODULE CreateChangeset --------------------------
(***************************************************************************)
(* How commits get into a repository (blobrepo/src/repo.rs, repo_commit.rs *)
(* and upload_changesets of the bundle2 resolver).  A push uploads the     *)
(* commits of its bundle concurrently: a commit may use the ids of its     *)
(* parents as soon as these are known, writes its blobs, and is entered    *)
(* into the database only after its parents are complete.  A pushrebase    *)
(* saves its rewritten commits with save_bonsai_changesets, and their      *)
(* Mercurial counterparts are derived by whoever asks for them first.      *)
(* Steps fail, servers crash, and clients push again.                      *)
(*                                                                         *)
(* Manifests have one level: a commit's root manifest lists its entries.   *)
(***************************************************************************)
EXTENDS Naturals, Sequences, FiniteSets, SequencesExt

CONSTANTS
    Commits,     \* all commits
    Base,        \* the commits that are in the repository from the start
    Parents,     \* Parents[c]: sequence of at most two parents
    Entries,     \* manifest entries (files)
    Manifest,    \* Manifest[c]: the entries the manifest of c refers to
    History,     \* History[e]: the file revisions that e was made from
    Pushes,      \* pushes to the server
    Bundle,      \* Bundle[p]: the commits push p uploads
    Sent,        \* Sent[p]: the entries push p uploads
    Rebases,     \* those pushes that save rewritten commits as bonsai only
    Drafts,      \* those that are not published: no filenodes are stored
    Together,    \* sets of pushes that may come at the same time
    MaxFaults    \* bound on failures and crashes

ASSUME UploadAssumption ==
    /\ Base \subseteq Commits
    /\ Parents \in [Commits -> Seq(Commits)]
    /\ \A c \in Commits : Len(Parents[c]) <= 2
    /\ \A c \in Base : ToSet(Parents[c]) \subseteq Base
    /\ Manifest \in [Commits -> SUBSET Entries]
    /\ History \in [Entries -> SUBSET Entries]
    /\ Bundle \in [Pushes -> SUBSET (Commits \ Base)]
    /\ Sent \in [Pushes -> SUBSET Entries]
    /\ Rebases \subseteq Pushes /\ Drafts \subseteq Pushes
    /\ Together \subseteq SUBSET Pushes
    /\ MaxFaults \in Nat

VARIABLES
    blobs,      \* what is in the blobstore
    filenodes,  \* entries in the filenodes table
    mapping,    \* commits in bonsai_hg_mapping
    rows,       \* commits in the changesets table
    push,       \* push[p]: "none", "new", "running", "done" or "failed"
    upl,        \* upl[p]: the entries push p has uploaded and processed
    phase,      \* phase[h]: progress of the handle h = <<push, commit>>
    work,       \* work[h]: blobs saved and checks passed after signalling
    signalled,  \* handles that have told their children who they are
    waited,     \* waited[h]: how many parents of h are known to be complete
    faults

tables == <<filenodes, mapping, rows>>
vars == <<blobs, filenodes, mapping, rows, push, upl, phase, work, signalled, waited, faults>>

Handles == {h \in Pushes \X Commits : h[2] \in Bundle[h[1]]}
Blobs == ({"entry"} \X Entries) \cup ({"hg", "bonsai"} \X Commits)
Jobs == {"hg", "bonsai", "required", "filenodes"}

\* Everything a complete commit has in the blobstore.
Needs(c) == {<<"hg", c>>, <<"bonsai", c>>} \cup {<<"entry", e>> : e \in Manifest[c]}

ParentSet(c) == ToSet(Parents[c])
Inherited(c) == UNION {Manifest[q] : q \in ParentSet(c)}
NewEntries(c) == Manifest[c] \ Inherited(c)

Init ==
    /\ blobs = UNION {Needs(c) : c \in Base}
    /\ filenodes = UNION {Manifest[c] : c \in Base}
    /\ mapping = Base
    /\ rows = Base
    /\ \E S \in Together : push = [p \in Pushes |-> IF p \in S THEN "new" ELSE "none"]
    /\ upl = [p \in Pushes |-> {}]
    /\ phase = [h \in Handles |-> "idle"]
    /\ work = [h \in Handles |-> {}]
    /\ signalled = {}
    /\ waited = [h \in Handles |-> 0]
    /\ faults = 0

\* The type invariant.
TypeOK ==
    /\ blobs \subseteq Blobs
    /\ filenodes \subseteq Entries
    /\ mapping \subseteq Commits /\ rows \subseteq Commits
    /\ push \in [Pushes -> {"none", "new", "running", "done", "failed"}]
    /\ upl \in [Pushes -> SUBSET Entries]
    /\ phase \in [Handles -> {"idle", "uploading", "ready", "mapped", "saved", "done", "error"}]
    /\ work \in [Handles -> SUBSET Jobs]
    /\ signalled \subseteq Handles
    /\ waited \in [Handles -> 0..2]
    /\ faults \in 0..MaxFaults
-----------------------------------------------------------------------------
(* A push. *)

Fault == faults < MaxFaults /\ faults' = faults + 1

\* The push of h is under way: CreateChangeset, or save_bonsai_changesets.
Creating(h) == push[h[1]] = "running" /\ h[1] \notin Rebases
Saving(h) == push[h[1]] = "running" /\ h[1] \in Rebases
InBundle(p) == {h \in Handles : h[1] = p}

\* upload_changesets makes a handle for every commit of the bundle.
Start(p) ==
    /\ push[p] \in {"new", "failed"}
    /\ push' = [push EXCEPT ![p] = "running"]
    /\ upl' = [upl EXCEPT ![p] = {}]
    /\ phase' = [h \in Handles |-> IF h[1] = p THEN "uploading" ELSE phase[h]]
    /\ work' = [h \in Handles |-> IF h[1] = p THEN {} ELSE work[h]]
    /\ waited' = [h \in Handles |-> IF h[1] = p THEN 0 ELSE waited[h]]
    /\ signalled' = signalled \ InBundle(p)
    /\ UNCHANGED <<blobs, tables, faults>>

\* An entry is written to the blobstore and recorded by process_one_entry.
UploadEntry(p, e) ==
    /\ push[p] = "running"
    /\ p \notin Rebases
    /\ e \in Sent[p] \ upl[p]
    /\ blobs' = blobs \cup {<<"entry", e>>}
    /\ upl' = [upl EXCEPT ![p] = @ \cup {e}]
    /\ UNCHANGED <<tables, push, phase, work, signalled, waited, faults>>

\* The entries of c that push p sends.
SentFor(p, c) == Sent[p] \cap NewEntries(c)

\* Is a parent's handle part of the same bundle, or made by ready_cs_handle?
Internal(p, c) == c \in Bundle[p]

\* ready_cs_handle finds a parent that is not in the bundle: its mapping,
\* its bonsai changeset and its Mercurial changeset.
Available(c) == c \in mapping /\ {<<"bonsai", c>>, <<"hg", c>>} \subseteq blobs

\* Mutant: waiting for the parents starts once the commit itself is ready.
ParentCompleteLate(h) ==
    LET p == h[1]  i == waited[h] + 1  q == Parents[h[2]][i] IN
    /\ Creating(h)
    /\ phase[h] = "ready"
    /\ waited[h] < Len(Parents[h[2]])
    /\ IF Internal(p, q) THEN phase[<<p, q>>] = "done" ELSE Available(q)
    /\ waited' = [waited EXCEPT ![h] = i]
    /\ UNCHANGED <<blobs, tables, push, upl, phase, work, signalled, faults>>

\* extract_parents_complete: the first parent, then the second one.  A
\* future runs only when it is polled: the handle of a parent that is not
\* in the bundle makes progress only here, and signals when it completes.
ParentComplete(h) ==
    LET p == h[1]  i == waited[h] + 1  q == Parents[h[2]][i] IN
    /\ Creating(h)
    /\ phase[h] \in {"uploading", "ready"}
    /\ waited[h] < Len(Parents[h[2]])
    /\ IF Internal(p, q) THEN phase[<<p, q>>] = "done" ELSE Available(q)
    /\ waited' = [waited EXCEPT ![h] = i]
    /\ UNCHANGED <<blobs, tables, push, upl, phase, work, signalled, faults>>

\* handle_parents: the i-th parent of h has told its id.
Known(h, i) ==
    LET q == Parents[h[2]][i] IN
    IF Internal(h[1], q) THEN <<h[1], q>> \in signalled ELSE waited[h] >= i

ParentsKnown(h) == \A i \in DOMAIN Parents[h[2]] : Known(h, i)

Fail(h) ==
    /\ phase' = [phase EXCEPT ![h] = "error"]
    /\ UNCHANGED <<push, upl, work, signalled, waited>>

\* Mutant: the parents are not looked up before a row is inserted.
HasParentsUnchecked(c) == TRUE

\* Changesets::add refuses a commit whose parents have no rows.
HasParents(c) == ParentSet(c) \subseteq rows

\* Inserting a row that is there already is fine.
AddRow(h) ==
    \/ /\ HasParents(h[2])
       /\ rows' = rows \cup {h[2]}
       /\ phase' = [phase EXCEPT ![h] = "done"]
       /\ UNCHANGED <<push, upl, work, signalled, waited>>
    \/ /\ ~HasParents(h[2])
       /\ Fail(h)
       /\ UNCHANGED rows

\* With the entries processed and the parents known, the changeset and its
\* bonsai counterpart are computed from the blobstore, and the children are
\* told.  The contents of all new files are read on the way.
Create(h) ==
    LET p == h[1]  c == h[2] IN
    /\ Creating(h)
    /\ phase[h] = "uploading"
    /\ SentFor(p, c) \subseteq upl[p]
    /\ ParentsKnown(h)
    /\ \/ /\ {<<"entry", e>> : e \in NewEntries(c)} \subseteq blobs
          /\ phase' = [phase EXCEPT ![h] = "ready"]
          /\ signalled' = signalled \cup {h}
          /\ UNCHANGED <<push, upl, work, waited>>
       \/ /\ ~({<<"entry", e>> : e \in NewEntries(c)} \subseteq blobs)
          /\ Fail(h)
    /\ UNCHANGED <<blobs, tables, faults>>

\* The two changeset blobs are written while finalize runs.
Save(h, kind) ==
    /\ Creating(h)
    /\ phase[h] = "ready"
    /\ kind \notin work[h]
    /\ blobs' = blobs \cup {<<kind, h[2]>>}
    /\ work' = [work EXCEPT ![h] = @ \cup {kind}]
    /\ UNCHANGED <<tables, push, upl, phase, signalled, waited, faults>>

\* Mutant: finalize trusts the client to have left out the right entries.
FinalizeRequiredUnchecked(h) ==
    /\ Creating(h)
    /\ phase[h] = "ready"
    /\ "required" \notin work[h]
    /\ work' = [work EXCEPT ![h] = @ \cup {"required"}]
    /\ UNCHANGED <<push, upl, phase, signalled, waited, blobs, tables, faults>>

\* finalize: what the manifest requires and was not uploaded with this
\* commit has to be in the blobstore, and so have the revisions from which
\* the uploaded entries were made (find_parents).
FinalizeRequired(h) ==
    LET sent == SentFor(h[1], h[2])
        checked == (Manifest[h[2]] \ sent) \cup UNION {History[e] : e \in sent}
        missing == {e \in checked : <<"entry", e>> \notin blobs}
    IN
    /\ Creating(h)
    /\ phase[h] = "ready"
    /\ "required" \notin work[h]
    /\ \/ /\ missing = {}
          /\ work' = [work EXCEPT ![h] = @ \cup {"required"}]
          /\ UNCHANGED <<push, upl, phase, signalled, waited>>
       \/ missing # {} /\ Fail(h)
    /\ UNCHANGED <<blobs, tables, faults>>

\* finalize: filenodes of the uploaded entries, unless the push is a draft.
FinalizeFilenodes(h) ==
    /\ Creating(h)
    /\ phase[h] = "ready"
    /\ "filenodes" \notin work[h]
    /\ filenodes' = IF h[1] \in Drafts THEN filenodes
                    ELSE filenodes \cup SentFor(h[1], h[2])
    /\ work' = [work EXCEPT ![h] = @ \cup {"filenodes"}]
    /\ UNCHANGED <<blobs, mapping, rows, push, upl, phase, signalled, waited, faults>>

\* Mutant: the mapping is inserted without waiting for the blobs.
AddMappingEarly(h) ==
    /\ Creating(h)
    /\ phase[h] = "ready"
    /\ waited[h] = Len(Parents[h[2]])
    /\ mapping' = mapping \cup {h[2]}
    /\ phase' = [phase EXCEPT ![h] = "mapped"]
    /\ UNCHANGED <<blobs, filenodes, rows, push, upl, work, signalled, waited, faults>>

\* All of it done and the parents complete: the bonsai-hg mapping ...
AddMapping(h) ==
    /\ Creating(h)
    /\ phase[h] = "ready"
    /\ work[h] = Jobs
    /\ waited[h] = Len(Parents[h[2]])
    /\ mapping' = mapping \cup {h[2]}
    /\ phase' = [phase EXCEPT ![h] = "mapped"]
    /\ UNCHANGED <<blobs, filenodes, rows, push, upl, work, signalled, waited, faults>>

\* ... and then the row in the changesets table.
AddChangeset(h) ==
    /\ Creating(h)
    /\ phase[h] = "mapped"
    /\ AddRow(h)
    /\ UNCHANGED <<blobs, filenodes, mapping, faults>>

\* A step fails, although a write to the database may have taken effect.
StepFails(h) ==
    /\ Creating(h)
    /\ phase[h] \in {"uploading", "ready", "mapped"}
    /\ Fault
    /\ Fail(h)
    /\ \/ UNCHANGED <<mapping, rows>>
       \/ /\ phase[h] = "ready" /\ work[h] = Jobs /\ waited[h] = Len(Parents[h[2]])
          /\ mapping' = mapping \cup {h[2]}
          /\ UNCHANGED rows
       \/ /\ phase[h] = "mapped" /\ HasParents(h[2])
          /\ rows' = rows \cup {h[2]}
          /\ UNCHANGED mapping
    /\ UNCHANGED <<blobs, filenodes>>

\* A handle fails when the parent it waits for fails or cannot be found, or
\* when a parent whose id it needs has failed before telling it.
ParentFails(h) ==
    LET p == h[1]  ps == Parents[h[2]]
        Failed(i) == Internal(p, ps[i]) /\ phase[<<p, ps[i]>>] = "error"
        Absent(i) == ~Internal(p, ps[i]) /\ ~Available(ps[i])
    IN
    /\ Creating(h)
    /\ \/ /\ phase[h] \in {"uploading", "ready"}
          /\ \E i \in DOMAIN ps : i = waited[h] + 1 /\ (Failed(i) \/ Absent(i))
       \/ /\ phase[h] = "uploading"
          /\ \E i \in DOMAIN ps :
                /\ Failed(i) /\ <<p, ps[i]>> \notin signalled
                /\ \A j \in 1..(i - 1) : Known(h, j)
    /\ Fail(h)
    /\ UNCHANGED <<blobs, tables, faults>>

\* The push returns when every handle is done, or with the first error, or
\* the server dies; what is still under way is dropped.
Return(p) ==
    /\ push[p] = "running"
    /\ \/ /\ \A h \in InBundle(p) : phase[h] = "done"
          /\ push' = [push EXCEPT ![p] = "done"]
          /\ UNCHANGED faults
       \/ /\ \E h \in InBundle(p) : phase[h] = "error"
          /\ push' = [push EXCEPT ![p] = "failed"]
          /\ UNCHANGED faults
       \/ /\ Fault
          /\ push' = [push EXCEPT ![p] = "failed"]
    /\ UNCHANGED <<blobs, tables, upl, phase, work, signalled, waited>>
-----------------------------------------------------------------------------
(* save_bonsai_changesets and the derivation of Mercurial changesets. *)

\* The bonsai objects are written in any order.
SaveObject(h) ==
    /\ Saving(h)
    /\ phase[h] = "uploading"
    /\ blobs' = blobs \cup {<<"bonsai", h[2]>>}
    /\ phase' = [phase EXCEPT ![h] = "saved"]
    /\ UNCHANGED <<tables, push, upl, work, signalled, waited, faults>>

\* Once all are written, rows are inserted one by one, parents first.
Turn(h) ==
    \A g \in InBundle(h[1]) :
        /\ phase[g] \in {"saved", "done"}
        /\ g[2] \in ParentSet(h[2]) => phase[g] = "done"

\* h itself has to be written too, as Turn says.
InsertRow(h) ==
    /\ Saving(h)
    /\ phase[h] \in {"uploading", "saved"}
    /\ Turn(h)
    /\ AddRow(h)
    /\ UNCHANGED <<blobs, filenodes, mapping, faults>>

\* A write of save_bonsai_changesets fails, with or without effect.
SavingFails(h) ==
    /\ Saving(h)
    /\ phase[h] \in {"uploading", "saved"}
    /\ Fault
    /\ Fail(h)
    /\ \/ UNCHANGED <<blobs, rows>>
       \/ /\ phase[h] = "uploading"
          /\ blobs' = blobs \cup {<<"bonsai", h[2]>>}
          /\ UNCHANGED rows
       \/ /\ phase[h] = "saved" /\ Turn(h) /\ HasParents(h[2])
          /\ rows' = rows \cup {h[2]}
          /\ UNCHANGED blobs
    /\ UNCHANGED <<filenodes, mapping>>

\* get_hg_from_bonsai_changeset: whoever asks for the Mercurial changeset
\* of a commit without a mapping derives it, after those of its parents;
\* manifest, changeset and filenodes are stored before the mapping is.  A
\* derivation that fails leaves some of the writes before the mapping.
Derive(c) ==
    /\ c \in rows \ mapping
    /\ <<"bonsai", c>> \in blobs
    /\ ParentSet(c) \subseteq mapping
    /\ \/ /\ blobs' = blobs \cup Needs(c)
          /\ filenodes' = filenodes \cup NewEntries(c)
          /\ mapping' = mapping \cup {c}
          /\ UNCHANGED faults
       \/ /\ Fault
          /\ \E written \in SUBSET Needs(c) : blobs' = blobs \cup written
          /\ UNCHANGED <<filenodes, mapping>>
    /\ UNCHANGED <<rows, push, upl, phase, work, signalled, waited>>
-----------------------------------------------------------------------------
HandleStep(h) ==
    \/ ParentComplete(h) \/ Create(h) \/ FinalizeRequired(h) \/ FinalizeFilenodes(h)
    \/ \E kind \in {"hg", "bonsai"} : Save(h, kind)
    \/ AddMapping(h) \/ AddChangeset(h) \/ ParentFails(h)
    \/ SaveObject(h) \/ InsertRow(h)

Next ==
    \/ \E p \in Pushes : Start(p) \/ Return(p)
    \/ \E p \in Pushes, e \in Entries : UploadEntry(p, e)
    \/ \E h \in Handles : HandleStep(h) \/ StepFails(h) \/ SavingFails(h)
    \/ \E c \in Commits : Derive(c)

Spec == Init /\ [][Next]_vars

Progress(p) ==
    \/ \E e \in Entries : UploadEntry(p, e)
    \/ \E h \in InBundle(p) : HandleStep(h)
    \/ Return(p)

\* A push that is polled makes progress, clients push again, and the answer
\* to a pushrebase asks for the Mercurial changesets it made.
Fairness ==
    /\ \A p \in Pushes : WF_vars(Start(p)) /\ WF_vars(Progress(p))
    /\ \A c \in Commits : WF_vars(Derive(c))

FairSpec == Spec /\ Fairness
-----------------------------------------------------------------------------
(* Properties. *)

\* What a handle has established at each of its stages.
HandleInv(h) ==
    /\ phase[h] = "ready" => SentFor(h[1], h[2]) \subseteq upl[h[1]]
    /\ phase[h] = "saved" => <<"bonsai", h[2]>> \in blobs
    /\ phase[h] = "mapped" => h[2] \in mapping
    /\ phase[h] = "done" => h[2] \in rows
    /\ phase[h] \in {"mapped", "done"} /\ h[1] \notin Rebases => work[h] = Jobs
    /\ \A kind \in {"hg", "bonsai"} \cap work[h] : <<kind, h[2]>> \in blobs
    /\ "required" \in work[h] =>
          /\ \A e \in Manifest[h[2]] \ SentFor(h[1], h[2]) : <<"entry", e>> \in blobs
          /\ \A e \in SentFor(h[1], h[2]) : \A f \in History[e] : <<"entry", f>> \in blobs
    /\ "filenodes" \in work[h] /\ h[1] \notin Drafts => SentFor(h[1], h[2]) \subseteq filenodes

MappingComplete == \A c \in mapping : Needs(c) \subseteq blobs
UploadsWritten == \A p \in Pushes : \A e \in upl[p] : <<"entry", e>> \in blobs
DoneHandles == \A p \in Pushes : push[p] = "done" => \A h \in InBundle(p) : phase[h] = "done"

\* Every commit in the table can be read back as a bonsai changeset.
RowsReadable == \A c \in rows : <<"bonsai", c>> \in blobs

\* The inductive invariant.  What each stage of a handle has established
\* stays established, whoever else writes, and a mapping is there only for
\* complete data.
UploadInv ==
    /\ TypeOK
    /\ MappingComplete /\ UploadsWritten /\ DoneHandles /\ RowsReadable
    /\ \A h \in Handles : HandleInv(h)

\* The changesets table never has a commit without its ancestors, whatever
\* fails, crashes or is pushed twice at the same time.
RowsClosed == \A c \in rows : ParentSet(c) \subseteq rows

\* A commit that has both a row and a Mercurial counterpart is complete: a
\* client that is told of it can fetch every blob it refers to, also if its
\* push left out entries that the server was believed to have.
CompleteData == \A c \in rows \cap mapping : Needs(c) \subseteq blobs

\* A push that was told it succeeded has all of its commits in the table,
\* with filenodes for what it sent unless it is a draft, and with the
\* history of every file revision it sent, even if the client left out
\* revisions that the server does not have.
DoneIsStored ==
    \A p \in Pushes : push[p] = "done" =>
        /\ Bundle[p] \subseteq rows
        /\ p \notin Rebases => \A c \in Bundle[p] : \A e \in SentFor(p, c) :
              /\ p \notin Drafts => e \in filenodes
              /\ {<<"entry", f>> : f \in History[e]} \subseteq blobs

\* The client sends all that the server does not have.
Complete(p) ==
    \A c \in Bundle[p] :
        /\ ParentSet(c) \subseteq Base \cup Bundle[p]
        /\ Manifest[c] \cup UNION {History[e] : e \in Manifest[c]}
              \subseteq Sent[p] \cup UNION {Manifest[q] : q \in Base}

\* Commits of a bundle do not wait for each other for good: a client that
\* pushes again after failures gets its commits in, also past what an
\* earlier attempt left half done.
PushLands ==
    <>(\A p \in Pushes : Complete(p) \/ p \in Rebases => push[p] \in {"none", "done"})
=============================================================================
