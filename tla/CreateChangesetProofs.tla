----------------------- MODULE CreateChangesetProofs -----------------------
(***************************************************************************)
(* The changesets table is closed under parents, commits in it can be read *)
(* and are complete once they have a Mercurial counterpart, and a push     *)
(* that succeeded has stored what it promised: for every repository, every *)
(* number of pushes and every number of faults.                            *)
(***************************************************************************)
EXTENDS CreateChangeset, TLAPS

\* Nothing is ever deleted, so a handle that does not move keeps what it has
\* established.
LEMMA HandleKeeps ==
  ASSUME NEW h \in Handles, HandleInv(h),
         blobs \subseteq blobs', filenodes \subseteq filenodes',
         mapping \subseteq mapping', rows \subseteq rows',
         phase'[h] = phase[h], work'[h] = work[h], upl[h[1]] \subseteq upl'[h[1]]
  PROVE  HandleInv(h)'
  BY DEF HandleInv

\* A handle in no particular stage, whose jobs do not change, is fine.
LEMMA HandleLeaves ==
  ASSUME NEW h \in Handles, HandleInv(h),
         blobs \subseteq blobs', filenodes \subseteq filenodes',
         phase'[h] \notin {"ready", "saved", "mapped", "done"}, work'[h] = work[h]
  PROVE  HandleInv(h)'
  BY DEF HandleInv

\* The handles of a push that starts have established nothing yet.
LEMMA HandleStarts ==
  ASSUME NEW h \in Handles, phase'[h] = "uploading", work'[h] = {}
  PROVE  HandleInv(h)'
  BY DEF HandleInv

\* The data of a commit is complete when its jobs are done.
LEMMA JobsComplete ==
  ASSUME UploadInv, NEW h \in Handles, phase[h] = "ready", work[h] = Jobs
  PROVE  Needs(h[2]) \subseteq blobs
  <1>1. HandleInv(h) /\ UploadsWritten /\ h[1] \in Pushes /\ h[2] \in Commits
    BY DEF UploadInv, Handles
  <1>2. <<"hg", h[2]>> \in blobs /\ <<"bonsai", h[2]>> \in blobs
    BY <1>1 DEF HandleInv, Jobs
  <1>3. ASSUME NEW e \in Manifest[h[2]] PROVE <<"entry", e>> \in blobs
    <2>1. CASE e \in SentFor(h[1], h[2])
      BY <1>1, <2>1 DEF HandleInv, UploadsWritten
    <2>2. CASE e \notin SentFor(h[1], h[2])
      BY <1>1, <2>2 DEF HandleInv, Jobs
    <2> QED BY <2>1, <2>2
  <1> QED BY <1>2, <1>3 DEF Needs

\* The repository a server starts with satisfies UploadInv.
LEMMA InitInv == Init => UploadInv
  <1> SUFFICES ASSUME Init PROVE UploadInv
    OBVIOUS
  <1> USE UploadAssumption DEF Init
  <1>1. TypeOK
    <2>1. blobs \subseteq Blobs
      BY DEF Needs, Blobs
    <2>2. filenodes \subseteq Entries
      OBVIOUS
    <2>3. faults \in 0..MaxFaults
      OBVIOUS
    <2> QED BY <2>1, <2>2, <2>3 DEF TypeOK
  <1>2. MappingComplete
    BY DEF MappingComplete
  <1>3. RowsReadable
    BY DEF RowsReadable, Needs
  <1>4. UploadsWritten /\ DoneHandles
    BY DEF UploadsWritten, DoneHandles
  <1>5. \A h \in Handles : HandleInv(h)
    BY DEF HandleInv
  <1> QED BY <1>1, <1>2, <1>3, <1>4, <1>5 DEF UploadInv

\* What an action preserves when it moves at most the handle h, writes at
\* most blobs and filenodes besides, and leaves the tables of commits alone.
LEMMA QuietStep ==
  ASSUME UploadInv, TypeOK', NEW h \in Handles,
         blobs \subseteq blobs', filenodes \subseteq filenodes',
         UNCHANGED <<mapping, rows, push>>,
         \A p \in Pushes : upl[p] \subseteq upl'[p],
         \A g \in Handles \ {h} : phase'[g] = phase[g] /\ work'[g] = work[g],
         UploadsWritten', HandleInv(h)',
         push[h[1]] = "running"
  PROVE  UploadInv'
  <1>1. MappingComplete'
    <2> SUFFICES ASSUME NEW c \in mapping' PROVE Needs(c) \subseteq blobs'
      BY DEF MappingComplete, Needs
    <2> QED BY DEF UploadInv, MappingComplete
  <1>2. RowsReadable'
    BY DEF UploadInv, RowsReadable
  <1>3. DoneHandles'
    BY DEF UploadInv, DoneHandles, InBundle
  <1>4. ASSUME NEW g \in Handles PROVE HandleInv(g)'
    <2>1. CASE g = h
      BY <2>1
    <2>2. CASE g # h
      <3>1. g[1] \in Pushes
        BY DEF Handles
      <3>2. HandleInv(g)
        BY DEF UploadInv
      <3> QED BY <2>2, <3>1, <3>2, HandleKeeps
    <2> QED BY <2>1, <2>2
  <1> QED BY <1>1, <1>2, <1>3, <1>4 DEF UploadInv

\* Starting a push preserves UploadInv.
LEMMA StartStep ==
  ASSUME UploadInv, NEW p \in Pushes, Start(p)
  PROVE  UploadInv'
  <1> USE DEF Start, tables
  <1>1. TypeOK'
    BY DEF UploadInv, TypeOK, Jobs
  <1>2. MappingComplete' /\ RowsReadable'
    BY DEF UploadInv, MappingComplete, RowsReadable
  <1>3. UploadsWritten'
    BY DEF UploadInv, UploadsWritten, TypeOK
  <1>4. DoneHandles'
    BY DEF UploadInv, DoneHandles, InBundle, TypeOK
  <1>5. ASSUME NEW h \in Handles PROVE HandleInv(h)'
    <2>1. HandleInv(h) /\ h[1] \in Pushes
      BY DEF UploadInv, Handles
    <2>2. CASE h[1] = p
      BY <2>2, HandleStarts
    <2>3. CASE h[1] # p
      <3>1. phase'[h] = phase[h] /\ work'[h] = work[h] /\ upl'[h[1]] = upl[h[1]]
        BY <2>1, <2>3 DEF UploadInv, TypeOK
      <3> QED BY <2>1, <3>1, HandleKeeps
    <2> QED BY <2>2, <2>3
  <1> QED BY <1>1, <1>2, <1>3, <1>4, <1>5 DEF UploadInv

\* Writing an entry, and returning from a push, preserve UploadInv.
LEMMA PushStep ==
  ASSUME UploadInv, NEW p \in Pushes,
         Return(p) \/ \E e \in Entries : UploadEntry(p, e)
  PROVE  UploadInv'
  <1> USE DEF tables
  <1>0. /\ blobs \subseteq blobs'
        /\ UNCHANGED <<mapping, rows, filenodes, phase, work>>
        /\ \A q \in Pushes : upl[q] \subseteq upl'[q]
    BY DEF Return, UploadEntry, UploadInv, TypeOK
  <1>1. TypeOK'
    <2>1. CASE Return(p)
      <3>1. push' \in [Pushes -> {"none", "new", "running", "done", "failed"}]
        BY <2>1 DEF UploadInv, TypeOK, Return
      <3>2. faults' \in 0..MaxFaults
        BY <2>1, UploadAssumption DEF UploadInv, TypeOK, Return, Fault
      <3> QED BY <2>1, <3>1, <3>2 DEF UploadInv, TypeOK, Return
    <2>2. ASSUME NEW e \in Entries, UploadEntry(p, e) PROVE TypeOK'
      BY <2>2 DEF UploadInv, TypeOK, UploadEntry, Blobs
    <2> QED BY <2>1, <2>2
  <1>2. MappingComplete' /\ RowsReadable'
    <2>1. \A c \in mapping' : Needs(c) \subseteq blobs'
      BY <1>0 DEF UploadInv, MappingComplete
    <2> QED BY <1>0, <2>1 DEF UploadInv, MappingComplete, RowsReadable, Needs
  <1>3. UploadsWritten'
    <2>1. CASE Return(p)
      BY <2>1 DEF UploadInv, UploadsWritten, Return
    <2>2. ASSUME NEW e \in Entries, UploadEntry(p, e) PROVE UploadsWritten'
      BY <2>2 DEF UploadInv, UploadsWritten, UploadEntry, TypeOK
    <2> QED BY <2>1, <2>2
  <1>4. DoneHandles'
    BY DEF UploadInv, DoneHandles, InBundle, TypeOK, Return, UploadEntry
  <1>5. ASSUME NEW h \in Handles PROVE HandleInv(h)'
    <2>1. HandleInv(h) /\ h[1] \in Pushes
      BY DEF UploadInv, Handles
    <2> QED BY <1>0, <2>1, HandleKeeps
  <1> QED BY <1>1, <1>2, <1>3, <1>4, <1>5 DEF UploadInv

\* The steps of a handle before it reaches the database preserve UploadInv.
LEMMA UploadStep ==
  ASSUME UploadInv, NEW h \in Handles,
         \/ ParentComplete(h) \/ Create(h) \/ FinalizeRequired(h) \/ FinalizeFilenodes(h)
         \/ \E kind \in {"hg", "bonsai"} : Save(h, kind)
         \/ ParentFails(h) \/ SaveObject(h)
  PROVE  UploadInv'
  <1> USE DEF tables
  <1>0. TypeOK /\ HandleInv(h) /\ h[1] \in Pushes /\ h[2] \in Commits /\ UploadsWritten
    BY DEF UploadInv, Handles
  <1>a. ASSUME UNCHANGED <<blobs, upl>> PROVE UploadsWritten'
    BY <1>0, <1>a DEF UploadsWritten
  <1>1. CASE ParentComplete(h)
    <2>1. TypeOK'
      <3>1. waited[h] + 1 \in 0..2
        <4>1. Len(Parents[h[2]]) \in Nat /\ Len(Parents[h[2]]) <= 2 /\ waited[h] \in 0..2
          BY <1>0, UploadAssumption DEF TypeOK
        <4>2. waited[h] < Len(Parents[h[2]])
          BY <1>1 DEF ParentComplete
        <4> QED BY <4>1, <4>2
      <3>2. waited' \in [Handles -> 0..2]
        BY <1>0, <1>1, <3>1 DEF ParentComplete, TypeOK
      <3> QED BY <1>0, <1>1, <3>2 DEF ParentComplete, TypeOK
    <2>2. HandleInv(h)'
      BY <1>0, <1>1, HandleKeeps DEF ParentComplete
    <2> QED BY <1>0, <1>1, <1>a, <2>1, <2>2, QuietStep DEF ParentComplete, Creating
  <1>2. CASE Create(h)
    <2>1. TypeOK'
      BY <1>0, <1>2 DEF Create, Fail, TypeOK
    <2>2. HandleInv(h)'
      BY <1>0, <1>2 DEF Create, Fail, HandleInv, TypeOK
    <2>3. \A g \in Handles \ {h} : phase'[g] = phase[g] /\ work'[g] = work[g]
      BY <1>0, <1>2 DEF Create, Fail, TypeOK
    <2> QED BY <1>0, <1>2, <1>a, <2>1, <2>2, <2>3, QuietStep DEF Create, Fail, Creating
  <1>3. CASE FinalizeRequired(h)
    <2>1. TypeOK'
      BY <1>0, <1>3 DEF FinalizeRequired, Fail, TypeOK, Jobs
    <2>2. HandleInv(h)'
      BY <1>0, <1>3 DEF FinalizeRequired, Fail, HandleInv, TypeOK
    <2>3. \A g \in Handles \ {h} : phase'[g] = phase[g] /\ work'[g] = work[g]
      BY <1>0, <1>3 DEF FinalizeRequired, Fail, TypeOK
    <2> QED BY <1>0, <1>3, <1>a, <2>1, <2>2, <2>3, QuietStep DEF FinalizeRequired, Fail, Creating
  <1>4. CASE FinalizeFilenodes(h)
    <2>1. SentFor(h[1], h[2]) \subseteq Entries
      BY <1>0, UploadAssumption DEF SentFor
    <2>2. TypeOK'
      BY <1>0, <1>4, <2>1 DEF FinalizeFilenodes, TypeOK, Jobs
    <2>3. HandleInv(h)'
      BY <1>0, <1>4 DEF FinalizeFilenodes, HandleInv, TypeOK
    <2>4. \A g \in Handles \ {h} : phase'[g] = phase[g] /\ work'[g] = work[g]
      BY <1>0, <1>4 DEF FinalizeFilenodes, TypeOK
    <2> QED BY <1>0, <1>4, <1>a, <2>2, <2>3, <2>4, QuietStep DEF FinalizeFilenodes, Creating
  <1>5. ASSUME NEW kind \in {"hg", "bonsai"}, Save(h, kind) PROVE UploadInv'
    <2>1. TypeOK'
      BY <1>0, <1>5 DEF Save, TypeOK, Jobs, Blobs
    <2>2. HandleInv(h)'
      BY <1>0, <1>5 DEF Save, HandleInv, TypeOK
    <2>3. \A g \in Handles \ {h} : phase'[g] = phase[g] /\ work'[g] = work[g]
      BY <1>0, <1>5 DEF Save, TypeOK
    <2>4. UploadsWritten'
      BY <1>0, <1>5 DEF UploadsWritten, Save
    <2> QED BY <1>0, <1>5, <2>1, <2>2, <2>3, <2>4, QuietStep DEF Save, Creating
  <1>6. CASE ParentFails(h)
    <2>1. TypeOK'
      BY <1>0, <1>6 DEF ParentFails, Fail, TypeOK
    <2>2. HandleInv(h)'
      BY <1>0, <1>6, HandleLeaves DEF ParentFails, Fail, TypeOK
    <2>3. \A g \in Handles \ {h} : phase'[g] = phase[g] /\ work'[g] = work[g]
      BY <1>0, <1>6 DEF ParentFails, Fail, TypeOK
    <2> QED BY <1>0, <1>6, <1>a, <2>1, <2>2, <2>3, QuietStep DEF ParentFails, Fail, Creating
  <1>7. CASE SaveObject(h)
    <2>1. TypeOK'
      BY <1>0, <1>7 DEF SaveObject, TypeOK, Blobs
    <2>2. HandleInv(h)'
      BY <1>0, <1>7 DEF SaveObject, HandleInv, TypeOK
    <2>3. \A g \in Handles \ {h} : phase'[g] = phase[g] /\ work'[g] = work[g]
      BY <1>0, <1>7 DEF SaveObject, TypeOK
    <2>4. UploadsWritten'
      BY <1>0, <1>7 DEF UploadsWritten, SaveObject
    <2> QED BY <1>0, <1>7, <2>1, <2>2, <2>3, <2>4, QuietStep DEF SaveObject, Saving
  <1> QED BY <1>1, <1>2, <1>3, <1>4, <1>5, <1>6, <1>7

\* What an action preserves that moves the handle h and adds to the tables.
LEMMA TableStep ==
  ASSUME UploadInv, TypeOK', NEW h \in Handles,
         blobs \subseteq blobs', mapping \subseteq mapping', rows \subseteq rows',
         UNCHANGED <<filenodes, push, upl, work>>,
         \A g \in Handles \ {h} : phase'[g] = phase[g],
         MappingComplete', RowsReadable', HandleInv(h)',
         push[h[1]] = "running"
  PROVE  UploadInv'
  <1>1. UploadsWritten'
    BY DEF UploadInv, UploadsWritten
  <1>2. DoneHandles'
    BY DEF UploadInv, DoneHandles, InBundle
  <1>3. ASSUME NEW g \in Handles PROVE HandleInv(g)'
    <2>1. CASE g = h
      BY <2>1
    <2>2. CASE g # h
      BY <2>2, HandleKeeps DEF UploadInv
    <2> QED BY <2>1, <2>2
  <1> QED BY <1>1, <1>2, <1>3 DEF UploadInv

\* The mapping may grow by a commit whose data is complete.
LEMMA MappingGrows ==
  ASSUME MappingComplete, NEW c \in Commits, Needs(c) \subseteq blobs,
         blobs' = blobs, mapping' \in {mapping, mapping \cup {c}}
  PROVE  MappingComplete'
  <1> SUFFICES ASSUME NEW d \in mapping' PROVE Needs(d) \subseteq blobs'
    BY DEF MappingComplete, Needs
  <1> QED BY DEF MappingComplete

\* The steps of a handle at the database preserve UploadInv.
LEMMA DatabaseStep ==
  ASSUME UploadInv, NEW h \in Handles,
         AddMapping(h) \/ AddChangeset(h) \/ StepFails(h) \/ InsertRow(h) \/ SavingFails(h)
  PROVE  UploadInv'
  <1>0. /\ TypeOK /\ HandleInv(h) /\ MappingComplete /\ RowsReadable
        /\ h[1] \in Pushes /\ h[2] \in Commits
    BY DEF UploadInv, Handles
  <1>a. ASSUME UNCHANGED <<blobs, mapping>> PROVE MappingComplete'
    BY <1>0, <1>a DEF MappingComplete, Needs
  <1>b. ASSUME UNCHANGED <<blobs, rows>> PROVE RowsReadable'
    BY <1>0, <1>b DEF RowsReadable
  <1>c. ASSUME AddRow(h), UNCHANGED <<blobs, filenodes, mapping, faults>>,
               <<"bonsai", h[2]>> \in blobs, push[h[1]] = "running",
               h[1] \notin Rebases => work[h] = Jobs
        PROVE  UploadInv'
    <2>1. TypeOK'
      BY <1>0, <1>c DEF AddRow, Fail, TypeOK
    <2>2. HandleInv(h)'
      BY <1>0, <1>c DEF AddRow, Fail, HandleInv, TypeOK
    <2>3. \A g \in Handles \ {h} : phase'[g] = phase[g]
      BY <1>0, <1>c DEF AddRow, Fail, TypeOK
    <2>4. RowsReadable'
      BY <1>0, <1>c DEF AddRow, RowsReadable
    <2>5. MappingComplete'
      BY <1>a, <1>c
    <2>6. rows \subseteq rows' /\ UNCHANGED <<push, upl, work>>
      BY <1>c DEF AddRow, Fail
    <2> QED BY <1>c, <2>1, <2>2, <2>3, <2>4, <2>5, <2>6, TableStep
  <1>1. CASE AddMapping(h)
    <2>1. Needs(h[2]) \subseteq blobs
      BY <1>1, JobsComplete DEF AddMapping
    <2>2. TypeOK'
      BY <1>0, <1>1 DEF AddMapping, TypeOK
    <2>3. HandleInv(h)'
      BY <1>0, <1>1 DEF AddMapping, HandleInv, TypeOK
    <2>4. MappingComplete'
      BY <1>0, <1>1, <2>1, MappingGrows DEF AddMapping
    <2>5. \A g \in Handles \ {h} : phase'[g] = phase[g]
      BY <1>0, <1>1 DEF AddMapping, TypeOK
    <2> QED BY <1>1, <1>b, <2>2, <2>3, <2>4, <2>5, TableStep DEF AddMapping, Creating
  <1>2. CASE AddChangeset(h)
    <2>1. <<"bonsai", h[2]>> \in blobs /\ work[h] = Jobs
      BY <1>0, <1>2 DEF AddChangeset, Creating, HandleInv, MappingComplete, Needs
    <2> QED BY <1>2, <1>c, <2>1 DEF AddChangeset, Creating
  <1>3. CASE InsertRow(h)
    <2>1. h \in InBundle(h[1])
      BY DEF InBundle
    <2>2. phase[h] = "saved"
      BY <1>3, <2>1 DEF InsertRow, Turn
    <2>3. <<"bonsai", h[2]>> \in blobs
      BY <1>0, <2>2 DEF HandleInv
    <2> QED BY <1>3, <1>c, <2>3 DEF InsertRow, Saving
  <1>4. CASE StepFails(h)
    <2>1. TypeOK'
      <3>1. faults' \in 0..MaxFaults
        BY <1>0, <1>4, UploadAssumption DEF StepFails, Fault, TypeOK
      <3>2. mapping' \subseteq Commits /\ rows' \subseteq Commits
        BY <1>0, <1>4 DEF StepFails, TypeOK
      <3> QED BY <1>0, <1>4, <3>1, <3>2 DEF StepFails, Fail, TypeOK
    <2>2. HandleInv(h)'
      BY <1>0, <1>4, HandleLeaves DEF StepFails, Fail, TypeOK
    <2>3. \A g \in Handles \ {h} : phase'[g] = phase[g]
      BY <1>0, <1>4 DEF StepFails, Fail, TypeOK
    <2>4. MappingComplete'
      <3>1. CASE mapping' = mapping
        BY <1>4, <1>a, <3>1 DEF StepFails
      <3>2. CASE mapping' # mapping
        <4>1. phase[h] = "ready" /\ work[h] = Jobs /\ mapping' = mapping \cup {h[2]}
          BY <1>4, <3>2 DEF StepFails
        <4> QED BY <1>0, <1>4, <4>1, JobsComplete, MappingGrows DEF StepFails
      <3> QED BY <3>1, <3>2
    <2>5. RowsReadable'
      <3>1. CASE rows' = rows
        BY <1>4, <1>b, <3>1 DEF StepFails
      <3>2. CASE rows' # rows
        <4>1. phase[h] = "mapped" /\ rows' = rows \cup {h[2]}
          BY <1>4, <3>2 DEF StepFails
        <4> QED BY <1>0, <1>4, <4>1 DEF StepFails, HandleInv, MappingComplete, Needs, RowsReadable
      <3> QED BY <3>1, <3>2
    <2> QED BY <1>4, <2>1, <2>2, <2>3, <2>4, <2>5, TableStep DEF StepFails, Fail, Creating
  <1>5. CASE SavingFails(h)
    <2>1. TypeOK'
      <3>1. faults' \in 0..MaxFaults
        BY <1>0, <1>5, UploadAssumption DEF SavingFails, Fault, TypeOK
      <3>2. blobs' \subseteq Blobs /\ rows' \subseteq Commits
        BY <1>0, <1>5 DEF SavingFails, TypeOK, Blobs
      <3> QED BY <1>0, <1>5, <3>1, <3>2 DEF SavingFails, Fail, TypeOK
    <2>0. blobs \subseteq blobs' /\ rows \subseteq rows'
      BY <1>5 DEF SavingFails
    <2>2. HandleInv(h)'
      BY <1>0, <1>5, <2>0, HandleLeaves DEF SavingFails, Fail, TypeOK
    <2>3. \A g \in Handles \ {h} : phase'[g] = phase[g]
      BY <1>0, <1>5 DEF SavingFails, Fail, TypeOK
    <2>4. MappingComplete'
      <3> SUFFICES ASSUME NEW c \in mapping' PROVE Needs(c) \subseteq blobs'
        BY DEF MappingComplete, Needs
      <3> QED BY <1>0, <1>5, <2>0 DEF SavingFails, MappingComplete
    <2>5. RowsReadable'
      BY <1>0, <1>5 DEF SavingFails, HandleInv, RowsReadable
    <2> QED BY <1>5, <2>0, <2>1, <2>2, <2>3, <2>4, <2>5, TableStep DEF SavingFails, Fail, Saving
  <1> QED BY <1>1, <1>2, <1>3, <1>4, <1>5

\* Deriving a Mercurial changeset preserves UploadInv.
LEMMA DeriveStep ==
  ASSUME UploadInv, NEW c \in Commits, Derive(c)
  PROVE  UploadInv'
  <1>0. TypeOK /\ MappingComplete
    BY DEF UploadInv
  <1>1. /\ blobs \subseteq blobs' /\ filenodes \subseteq filenodes' /\ mapping \subseteq mapping'
        /\ UNCHANGED <<rows, push, upl, phase, work, signalled, waited>>
    BY DEF Derive
  <1>2. Needs(c) \subseteq Blobs /\ NewEntries(c) \subseteq Entries
    BY UploadAssumption DEF Needs, Blobs, NewEntries
  <1>3. TypeOK'
    <2>1. faults' \in 0..MaxFaults
      BY <1>0, UploadAssumption DEF Derive, Fault, TypeOK
    <2>2. blobs' \subseteq Blobs /\ filenodes' \subseteq Entries /\ mapping' \subseteq Commits
      BY <1>0, <1>2 DEF Derive, TypeOK
    <2> QED BY <1>0, <1>1, <2>1, <2>2 DEF TypeOK
  <1>4. MappingComplete'
    <2> SUFFICES ASSUME NEW d \in mapping' PROVE Needs(d) \subseteq blobs'
      BY DEF MappingComplete, Needs
    <2>1. CASE d \in mapping
      BY <1>0, <1>1, <2>1 DEF MappingComplete
    <2>2. CASE d \notin mapping
      BY <2>2 DEF Derive
    <2> QED BY <2>1, <2>2
  <1>5. RowsReadable' /\ UploadsWritten' /\ DoneHandles'
    BY <1>1 DEF UploadInv, RowsReadable, UploadsWritten, DoneHandles, InBundle
  <1>6. ASSUME NEW h \in Handles PROVE HandleInv(h)'
    BY <1>1, HandleKeeps DEF UploadInv
  <1> QED BY <1>3, <1>4, <1>5, <1>6 DEF UploadInv

\* UploadInv is inductive: whatever pushes, derivations and faults do in
\* whatever order, every stage of CreateChangeset::create can rely on what
\* the stages before it established.
THEOREM UploadInvariant == Spec => []UploadInv
  <1>1. UploadInv /\ [Next]_vars => UploadInv'
    <2> SUFFICES ASSUME UploadInv, [Next]_vars PROVE UploadInv'
      OBVIOUS
    <2>1. ASSUME NEW p \in Pushes, Start(p) PROVE UploadInv'
      BY <2>1, StartStep
    <2>2. ASSUME NEW p \in Pushes, Return(p) \/ \E e \in Entries : UploadEntry(p, e)
          PROVE  UploadInv'
      BY <2>2, PushStep
    <2>3. ASSUME NEW h \in Handles, HandleStep(h) PROVE UploadInv'
      BY <2>3, UploadStep, DatabaseStep DEF HandleStep
    <2>4. ASSUME NEW h \in Handles, StepFails(h) \/ SavingFails(h) PROVE UploadInv'
      BY <2>4, DatabaseStep
    <2>5. ASSUME NEW c \in Commits, Derive(c) PROVE UploadInv'
      BY <2>5, DeriveStep
    <2>6. CASE UNCHANGED vars
      <3>1. TypeOK' /\ UploadsWritten' /\ DoneHandles' /\ RowsReadable'
        BY <2>6 DEF vars, UploadInv, TypeOK, UploadsWritten, DoneHandles, RowsReadable, InBundle
      <3>2. MappingComplete'
        BY <2>6 DEF vars, UploadInv, MappingComplete, Needs
      <3>3. ASSUME NEW h \in Handles PROVE HandleInv(h)'
        BY <2>6, HandleKeeps DEF vars, UploadInv
      <3> QED BY <3>1, <3>2, <3>3 DEF UploadInv
    <2> QED BY <2>1, <2>2, <2>3, <2>4, <2>5, <2>6 DEF Next
  <1> QED BY <1>1, InitInv, PTL DEF Spec

\* A commit with a row and a mapping can be served: all of its blobs are
\* there, although they are written by different futures than the tables.
THEOREM CompleteDataHolds == Spec => []CompleteData
  <1>1. UploadInv => CompleteData
    BY DEF UploadInv, MappingComplete, CompleteData
  <1> QED BY <1>1, UploadInvariant, PTL

\* A push that reported success has stored all it promised.
THEOREM DoneIsStoredHolds == Spec => []DoneIsStored
  <1>1. UploadInv => DoneIsStored
    <2> SUFFICES ASSUME UploadInv, NEW p \in Pushes, push[p] = "done", NEW c \in Bundle[p]
                 PROVE  /\ c \in rows
                        /\ p \notin Rebases => \A e \in SentFor(p, c) :
                              /\ p \notin Drafts => e \in filenodes
                              /\ {<<"entry", f>> : f \in History[e]} \subseteq blobs
      BY DEF DoneIsStored
    <2>1. c \in Commits
      BY UploadAssumption
    <2> DEFINE h == <<p, c>>
    <2>2. h \in Handles /\ h \in InBundle(p) /\ h[1] = p /\ h[2] = c
      BY <2>1 DEF Handles, InBundle
    <2>3. phase[h] = "done" /\ HandleInv(h)
      BY <2>2 DEF UploadInv, DoneHandles
    <2> HIDE DEF h
    <2>4. c \in rows
      BY <2>2, <2>3 DEF HandleInv
    <2>5. ASSUME p \notin Rebases, NEW e \in SentFor(p, c)
          PROVE  /\ p \notin Drafts => e \in filenodes
                 /\ \A f \in History[e] : <<"entry", f>> \in blobs
      <3>1. work[h] = Jobs
        BY <2>2, <2>3, <2>5 DEF HandleInv
      <3> QED BY <2>2, <2>3, <2>5, <3>1 DEF HandleInv, Jobs
    <2> QED BY <2>4, <2>5
  <1> QED BY <1>1, UploadInvariant, PTL

\* The changesets table is closed under parents: SqlChangesets::add checks
\* the parents before it inserts, and rows are never deleted.
THEOREM RowsClosedHolds == Spec => []RowsClosed
  <1>1. Init => RowsClosed
    BY UploadAssumption DEF Init, RowsClosed, ParentSet
  <1>2. RowsClosed /\ [Next]_vars => RowsClosed'
    <2> SUFFICES ASSUME RowsClosed, [Next]_vars PROVE RowsClosed'
      OBVIOUS
    <2>1. rows' = rows \/ \E c \in Commits : HasParents(c) /\ rows' = rows \cup {c}
      <3>1. ASSUME NEW h \in Handles, HandleStep(h) \/ StepFails(h) \/ SavingFails(h)
            PROVE  rows' = rows \/ \E c \in Commits : HasParents(c) /\ rows' = rows \cup {c}
        <4>1. h[2] \in Commits
          BY DEF Handles
        <4>2. rows' = rows \/ (HasParents(h[2]) /\ rows' = rows \cup {h[2]})
          BY <3>1 DEF HandleStep, StepFails, SavingFails, ParentComplete, Create,
             FinalizeRequired, FinalizeFilenodes, Save, AddMapping, AddChangeset, AddRow,
             ParentFails, SaveObject, InsertRow, tables
        <4> QED BY <4>1, <4>2
      <3>2. ASSUME NEW p \in Pushes,
                   Start(p) \/ Return(p) \/ \E e \in Entries : UploadEntry(p, e)
            PROVE  rows' = rows
        BY <3>2 DEF Start, Return, UploadEntry, tables
      <3>3. ASSUME NEW c \in Commits, Derive(c) PROVE rows' = rows
        BY <3>3 DEF Derive
      <3> QED BY <3>1, <3>2, <3>3 DEF Next, vars
    <2> QED BY <2>1 DEF RowsClosed, HasParents
  <1> QED BY <1>1, <1>2, PTL DEF Spec
=============================================================================
