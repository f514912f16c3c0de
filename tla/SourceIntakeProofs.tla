------------------------- MODULE SourceIntakeProofs -------------------------
(***************************************************************************)
(* Proofs about SourceIntake for analyses made one after the other, in any *)
(* number, of a file with any versions, saved at any moment: what each     *)
(* stage has made certain of the files and rows before the next one uses   *)
(* them.  A second process that shares the stores can undo it at any time, *)
(* as the run source_intake_shared shows.                                  *)
(***************************************************************************)
EXTENDS SourceIntake, TLAPS

\* No other process shares the stores.
OneProcess == \A p, q \in Processes : p = q

Concluding == {"record", "check", "compute"}
Referenced == {"canonical"} \cup Concluding
Hashed == {"reference"} \cup Referenced
Filled == {"hash"} \cup Hashed
Targeted == {"write", "fill"} \cup Filled
Registered == {"verify", "read"} \cup Targeted

\* The dataset the rows of some bytes make.
Derived(v) == [source |-> v, rows |-> RowsOf(v)]

\* A row is either absent or says what the files it stands for hold.
StoreFits ==
  /\ \A c \in Canonicals : canonicals[c] \in {None, c.rows}
  /\ RegisteredSnapshotsIntact /\ ResultsComeFromTheirSource /\ LineageComplete

Explained(p) ==
  \/ snapshots[expected[p]] # expected[p]
  \/ target[p] # None /\ references[target[p].rows] \notin {None, target[p]}

\* What an analysis has made certain by the step it has reached.
ProcessFits(p) ==
  /\ ~At(p, "idle") => expected[p] \in Versions
  /\ pc[p] \in {"copy", "publish"} => snapshots[expected[p]] = None
  /\ At(p, "publish") => copied[p] \in Versions
  /\ At(p, "register") => snapshots[expected[p]] = expected[p]
  /\ pc[p] \in Registered => expected[p] \in datasets
  /\ pc[p] \in Targeted => target[p] = Derived(expected[p])
  /\ pc[p] \in Filled => parquet[target[p]] = target[p].rows
  /\ pc[p] \in Hashed => content[p] = target[p].rows
  /\ pc[p] \in Referenced => references[target[p].rows] = target[p]
  /\ pc[p] \in Concluding => canonicals[target[p]] = target[p].rows
  /\ At(p, "raised") => Explained(p)

IInv == TypeOK /\ StoreFits /\ \A p \in Processes : ProcessFits(p)

-----------------------------------------------------------------------------
(* Rows, paths and types *)

LEMMA RowFacts ==
  ASSUME NEW v \in Versions
  PROVE  /\ RowsOf(v) \in Versions /\ RowsOf(v) \in Rows /\ RowsOf(v) \in Parquets
         /\ RowsOf(v) # Torn /\ RowsOf(v) # None
         /\ Derived(v) \in Canonicals /\ Derived(v) # None
         /\ Derived(v).rows = RowsOf(v) /\ Derived(v).source = v
<1>1. RowsOf(v) \in Versions
  BY IntakeAssumption DEF RowsOf
<1>2. RowsOf(v) \in Rows
  BY DEF Rows
<1> QED BY <1>1, <1>2, IntakeAssumption DEF Derived, Canonicals, Parquets

LEMMA InitInv == Init => IInv
BY DEF Init, IInv, TypeOK, Labels, StoreFits, RegisteredSnapshotsIntact, ResultsComeFromTheirSource, LineageComplete,
       ProcessFits, At, Registered, Targeted, Filled, Hashed, Referenced, Concluding

\* What the present step of an analysis gives the next one, its types unfolded.
LEMMA Facts ==
  ASSUME IInv, NEW p \in Processes
  PROVE  /\ TypeOK /\ StoreFits /\ ProcessFits(p)
         /\ pc \in [Processes -> Labels] /\ pc[p] \in Labels
         /\ pc[p] \in Targeted => target[p] = Derived(expected[p]) /\ expected[p] \in Versions
BY DEF IInv, TypeOK, ProcessFits, At, Targeted, Filled, Hashed, Referenced, Concluding

\* A step of an analysis that only moves on, in what order it may.
LEMMA ProcessStep ==
  ASSUME IInv, OneProcess, NEW p \in Processes, NEW label \in Labels, Goto(p, label),
         TypeOK', StoreFits', pc'[p] = label => ProcessFits(p)'
  PROVE  IInv'
<1>1. pc'[p] = label
  BY DEF Goto, IInv, TypeOK
<1>2. \A q \in Processes : q = p
  BY DEF OneProcess
<1> QED BY <1>1, <1>2 DEF IInv

-----------------------------------------------------------------------------
(* Steps that change no file and no row *)

LEMMA StoreKept ==
  ASSUME StoreFits, UNCHANGED <<files, metadata, results>>
  PROVE  StoreFits'
BY DEF StoreFits, files, metadata, RegisteredSnapshotsIntact, ResultsComeFromTheirSource, LineageComplete

LEMMA EditStep ==
  ASSUME IInv, Edit
  PROVE  IInv'
<1>1. UNCHANGED <<files, metadata, results, work>> /\ source' \in Versions
  BY DEF Edit
<1>2. TypeOK' /\ StoreFits'
  BY <1>1, StoreKept DEF IInv, TypeOK, files, metadata, work
<1>3. \A p \in Processes : ProcessFits(p)'
  BY <1>1 DEF IInv, ProcessFits, At, Explained, files, metadata, work
<1> QED BY <1>2, <1>3 DEF IInv

LEMMA LeaveStep ==
  ASSUME IInv, OneProcess, NEW p \in Processes, Leave(p)
  PROVE  IInv'
<1>1. Goto(p, "idle") /\ UNCHANGED <<source, files, metadata, results>>
  BY DEF Leave
<1>2. TypeOK'
  BY <1>1 DEF IInv, TypeOK, Leave, Goto, files, metadata, Labels
<1>3. StoreFits'
  BY <1>1, StoreKept DEF IInv
<1>4. pc'[p] = "idle" => ProcessFits(p)'
  BY DEF ProcessFits, At, Registered, Targeted, Filled, Hashed, Referenced, Concluding
<1> QED BY <1>1, <1>2, <1>3, <1>4, ProcessStep DEF Labels

\* The steps of snapshot_source before it publishes.
LEMMA CopyingStep ==
  ASSUME IInv, OneProcess, NEW p \in Processes, Fingerprint(p) \/ LookUp(p) \/ CopySource(p)
  PROVE  IInv'
<1> USE DEF At, Registered, Targeted, Filled, Hashed, Referenced, Concluding, Labels
<1>1. UNCHANGED <<source, files, metadata, results, target, content>> /\ TypeOK /\ ProcessFits(p)
  BY Facts DEF Fingerprint, LookUp, CopySource
<1>2. StoreFits'
  BY <1>1, StoreKept DEF IInv
<1>3. CASE Fingerprint(p)
  <2>1. Goto(p, "lookup") /\ expected' = [expected EXCEPT ![p] = source] /\ copied' = copied
    BY <1>3 DEF Fingerprint
  <2>2. TypeOK' /\ expected'[p] \in Versions
    BY <1>1, <2>1 DEF TypeOK, Goto, files, metadata
  <2>3. pc'[p] = "lookup" => ProcessFits(p)'
    BY <2>2 DEF ProcessFits
  <2> QED BY <1>2, <2>1, <2>2, <2>3, ProcessStep
<1>4. CASE LookUp(p)
  <2>1. PICK label \in {"copy", "rehash", "raised"} :
          /\ Goto(p, label) /\ UNCHANGED <<expected, copied>>
          /\ label = "copy" => snapshots[expected[p]] = None
          /\ label = "raised" => snapshots[expected[p]] # expected[p]
    BY <1>4 DEF LookUp
  <2>2. TypeOK' /\ expected[p] \in Versions
    BY <1>1, <1>4, <2>1 DEF TypeOK, Goto, files, metadata, LookUp, ProcessFits
  <2>3. pc'[p] = label => ProcessFits(p)'
    BY <1>1, <2>1, <2>2 DEF ProcessFits, Explained, files
  <2> QED BY <1>2, <2>1, <2>2, <2>3, ProcessStep
<1>5. CASE CopySource(p)
  <2>1. Goto(p, "publish") /\ copied' = [copied EXCEPT ![p] = source] /\ expected' = expected /\ pc[p] = "copy"
    BY <1>5 DEF CopySource
  <2>2. TypeOK' /\ copied'[p] \in Versions
    BY <1>1, <2>1 DEF TypeOK, Goto, files, metadata
  <2>3. pc'[p] = "publish" => ProcessFits(p)'
    BY <1>1, <2>1, <2>2 DEF ProcessFits, files
  <2> QED BY <1>2, <2>1, <2>2, <2>3, ProcessStep
<1> QED BY <1>3, <1>4, <1>5

LEMMA PublishStep ==
  ASSUME IInv, OneProcess, NEW p \in Processes, PublishSnapshot(p)
  PROVE  IInv'
<1> USE DEF At, Registered, Targeted, Filled, Hashed, Referenced, Concluding, Labels
<1>1. TypeOK /\ StoreFits /\ ProcessFits(p)
  BY Facts
<1>2. /\ Goto(p, "rehash") /\ snapshots' = [snapshots EXCEPT ![expected[p]] = copied[p]]
      /\ UNCHANGED <<source, parquet, metadata, results, expected, copied, target, content>>
      /\ expected[p] \in Versions /\ copied[p] \in Versions /\ snapshots[expected[p]] = None
  BY <1>1 DEF PublishSnapshot, ProcessFits
<1>3. TypeOK'
  BY <1>1, <1>2 DEF TypeOK, Goto, metadata
<1>4. expected[p] \notin datasets
  BY <1>1, <1>2, IntakeAssumption DEF StoreFits, RegisteredSnapshotsIntact
<1>5. RegisteredSnapshotsIntact'
  BY <1>1, <1>2, <1>4 DEF StoreFits, RegisteredSnapshotsIntact, metadata, TypeOK
<1>6. StoreFits'
  BY <1>1, <1>2, <1>5 DEF StoreFits, metadata, ResultsComeFromTheirSource, LineageComplete
<1>7. pc'[p] = "rehash" => ProcessFits(p)'
  BY <1>1, <1>2 DEF ProcessFits
<1> QED BY <1>2, <1>3, <1>6, <1>7, ProcessStep

\* The checks and reads between the snapshot and the Parquet file.
LEMMA CheckingStep ==
  ASSUME IInv, OneProcess, NEW p \in Processes,
         RehashSnapshot(p) \/ VerifySnapshot(p) \/ ReadRows(p) \/ HashParquet(p) \/ CheckParquet(p)
  PROVE  IInv'
<1> USE DEF At, Registered, Targeted, Filled, Hashed, Referenced, Concluding, Labels
<1>1. /\ UNCHANGED <<source, files, metadata, results, expected, copied>>
      /\ TypeOK /\ StoreFits /\ ProcessFits(p) /\ expected[p] \in Versions
  BY Facts DEF RehashSnapshot, VerifySnapshot, ReadRows, HashParquet, CheckParquet, ProcessFits
<1>2. StoreFits'
  BY <1>1, StoreKept
<1>3. CASE RehashSnapshot(p)
  <2>1. PICK label \in {"register", "raised"} :
          /\ Goto(p, label) /\ UNCHANGED <<target, content>>
          /\ label = "register" <=> snapshots[expected[p]] = expected[p]
    BY <1>3 DEF RehashSnapshot
  <2>2. TypeOK'
    BY <1>1, <2>1 DEF TypeOK, Goto, files, metadata
  <2>3. pc'[p] = label => ProcessFits(p)'
    BY <1>1, <2>1 DEF ProcessFits, Explained, files
  <2> QED BY <1>2, <2>1, <2>2, <2>3, ProcessStep
<1>4. CASE VerifySnapshot(p)
  <2>1. snapshots[expected[p]] = expected[p] /\ expected[p] \in datasets
    BY <1>1, <1>4 DEF VerifySnapshot, ProcessFits, StoreFits, RegisteredSnapshotsIntact
  <2>2. Goto(p, "read") /\ UNCHANGED <<target, content>>
    BY <1>4, <2>1 DEF VerifySnapshot
  <2>3. TypeOK'
    BY <1>1, <2>2 DEF TypeOK, Goto, files, metadata
  <2>4. pc'[p] = "read" => ProcessFits(p)'
    BY <1>1, <2>1, <2>2 DEF ProcessFits, files, metadata
  <2> QED BY <1>2, <2>2, <2>3, <2>4, ProcessStep
<1>5. CASE ReadRows(p)
  <2>1. snapshots[expected[p]] = expected[p] /\ expected[p] \in datasets
    BY <1>1, <1>5 DEF ReadRows, ProcessFits, StoreFits, RegisteredSnapshotsIntact
  <2>2. PICK label \in {"write", "done"} :
          /\ Goto(p, label) /\ content' = content
          /\ label = "write" => target' = [target EXCEPT ![p] = Derived(expected[p])]
          /\ label = "done" => target' = target
    BY <1>5, <2>1 DEF ReadRows, Derived
  <2>3. TypeOK' /\ (label = "write" => target'[p] = Derived(expected[p]))
    BY <1>1, <2>2, RowFacts DEF TypeOK, Goto, files, metadata
  <2>4. pc'[p] = label => ProcessFits(p)'
    BY <1>1, <2>1, <2>2, <2>3 DEF ProcessFits, files, metadata, Derived
  <2> QED BY <1>2, <2>2, <2>3, <2>4, ProcessStep
<1>6. CASE HashParquet(p)
  <2>1. /\ Goto(p, "reference") /\ target' = target /\ content' = [content EXCEPT ![p] = target[p].rows]
        /\ target[p] = Derived(expected[p]) /\ expected[p] \in datasets /\ parquet[target[p]] = target[p].rows
    BY <1>1, <1>6 DEF HashParquet, ProcessFits
  <2>2. TypeOK' /\ content'[p] = target[p].rows
    BY <1>1, <2>1, RowFacts DEF TypeOK, Goto, files, metadata
  <2>3. pc'[p] = "reference" => ProcessFits(p)'
    BY <1>1, <2>1, <2>2 DEF ProcessFits, files, metadata, Derived
  <2> QED BY <1>2, <2>1, <2>2, <2>3, ProcessStep
<1>7. CASE CheckParquet(p)
  <2>1. /\ Goto(p, "compute") /\ UNCHANGED <<target, content>> /\ pc[p] = "check"
    BY <1>1, <1>7 DEF CheckParquet, ProcessFits
  <2>2. TypeOK'
    BY <1>1, <2>1 DEF TypeOK, Goto, files, metadata
  <2>3. pc'[p] = "compute" => ProcessFits(p)'
    BY <1>1, <2>1 DEF ProcessFits, files, metadata, Derived
  <2> QED BY <1>2, <2>1, <2>2, <2>3, ProcessStep
<1> QED BY <1>3, <1>4, <1>5, <1>6, <1>7

-----------------------------------------------------------------------------
(* Steps that write a file or a row *)

LEMMA RegisterStep ==
  ASSUME IInv, OneProcess, NEW p \in Processes, RegisterDataset(p)
  PROVE  IInv'
<1> USE DEF At, Registered, Targeted, Filled, Hashed, Referenced, Concluding, Labels
<1>1. TypeOK /\ StoreFits /\ ProcessFits(p)
  BY Facts
<1>2. /\ Goto(p, "verify") /\ datasets' = datasets \cup {expected[p]}
      /\ UNCHANGED <<source, files, references, canonicals, records, results, expected, copied, target, content>>
      /\ expected[p] \in Versions /\ snapshots[expected[p]] = expected[p]
  BY <1>1 DEF RegisterDataset, ProcessFits
<1>3. TypeOK'
  BY <1>1, <1>2 DEF TypeOK, Goto, files
<1>4. StoreFits'
  BY <1>1, <1>2 DEF StoreFits, RegisteredSnapshotsIntact, ResultsComeFromTheirSource, LineageComplete, files
<1>5. pc'[p] = "verify" => ProcessFits(p)'
  BY <1>2 DEF ProcessFits
<1> QED BY <1>2, <1>3, <1>4, <1>5, ProcessStep

LEMMA ParquetStep ==
  ASSUME IInv, OneProcess, NEW p \in Processes, BeginParquet(p) \/ FillParquet(p)
  PROVE  IInv'
<1> USE DEF At, Registered, Targeted, Filled, Hashed, Referenced, Concluding, Labels
<1>1. /\ UNCHANGED <<source, snapshots, metadata, results, expected, copied, target, content>>
      /\ TypeOK /\ StoreFits /\ ProcessFits(p)
  BY Facts DEF BeginParquet, FillParquet
<1>2. expected[p] \in datasets /\ expected[p] \in Versions /\ target[p] = Derived(expected[p]) /\ target[p] \in Canonicals
  BY <1>1, RowFacts DEF BeginParquet, FillParquet, ProcessFits
<1>3. StoreFits'
  BY <1>1 DEF StoreFits, metadata, RegisteredSnapshotsIntact, ResultsComeFromTheirSource, LineageComplete
<1>4. PICK label \in {"fill", "hash"} :
        /\ Goto(p, label)
        /\ \/ label = "fill" /\ parquet' = [parquet EXCEPT ![target[p]] = Torn]
           \/ label = "hash" /\ parquet' = [parquet EXCEPT ![target[p]] = target[p].rows]
  BY DEF BeginParquet, FillParquet
<1>5. TypeOK'
  <2>1. Torn \in Parquets /\ target[p].rows \in Parquets
    BY <1>2, RowFacts DEF Parquets
  <2> QED BY <1>1, <1>4, <2>1 DEF TypeOK, Goto, metadata
<1>6. label = "hash" => parquet'[target[p]] = target[p].rows
  BY <1>1, <1>2, <1>4 DEF TypeOK
<1>7. pc'[p] = label => ProcessFits(p)'
  BY <1>1, <1>2, <1>4, <1>6 DEF ProcessFits, metadata, Derived
<1> QED BY <1>3, <1>4, <1>5, <1>7, ProcessStep

LEMMA InsertStep ==
  ASSUME IInv, OneProcess, NEW p \in Processes, Record(p)
  PROVE  IInv'
<1> USE DEF At, Registered, Targeted, Filled, Hashed, Referenced, Concluding, Labels
<1>1. /\ UNCHANGED <<source, files, datasets, results, expected, copied, target, content>>
      /\ TypeOK /\ StoreFits /\ ProcessFits(p)
  BY Facts DEF Record, InsertReference, InsertCanonical, InsertRecord
<1> DEFINE t == target[p]
<1>2. /\ expected[p] \in datasets /\ expected[p] \in Versions /\ t = Derived(expected[p])
      /\ t \in Canonicals /\ t # None /\ t.rows \in Parquets /\ t.rows # None
      /\ t.rows = RowsOf(t.source) /\ t.source = expected[p]
      /\ content[p] = t.rows /\ parquet[t] = t.rows
  BY <1>1, RowFacts DEF Record, InsertReference, InsertCanonical, InsertRecord, ProcessFits
<1>3. /\ RegisteredSnapshotsIntact' /\ ResultsComeFromTheirSource'
      /\ \A c \in Canonicals : canonicals[c] \in {None, c.rows}
      /\ \A c \in records : /\ c \in Canonicals /\ canonicals[c] = c.rows /\ references[c.rows] = c
                            /\ c.source \in datasets /\ c.rows = RowsOf(c.source)
  BY <1>1 DEF StoreFits, files, RegisteredSnapshotsIntact, ResultsComeFromTheirSource, LineageComplete, TypeOK
<1>4. CASE InsertReference(p) /\ references[t.rows] \in {None, t}
  <2>1. Goto(p, "canonical") /\ references' = [references EXCEPT ![t.rows] = t] /\ UNCHANGED <<canonicals, records>>
    BY <1>2, <1>4 DEF InsertReference
  <2>2. TypeOK' /\ references'[t.rows] = t
    BY <1>1, <1>2, <2>1 DEF TypeOK, Goto, files
  <2>3. \A c \in records : references'[c.rows] = c
    <3> TAKE c \in records
    <3>1. references[c.rows] = c /\ c # None /\ c.rows \in Parquets
      BY <1>3, IntakeAssumption DEF Canonicals, Parquets
    <3>2. c.rows = t.rows => c = t
      BY <1>4, <3>1
    <3> QED BY <1>1, <2>1, <2>2, <3>1, <3>2 DEF TypeOK
  <2>4. StoreFits'
    BY <1>1, <1>3, <2>1, <2>3 DEF StoreFits, LineageComplete
  <2>5. pc'[p] = "canonical" => ProcessFits(p)'
    BY <1>1, <1>2, <2>1, <2>2 DEF ProcessFits, files
  <2> QED BY <2>1, <2>2, <2>4, <2>5, ProcessStep
<1>5. CASE InsertReference(p) /\ references[t.rows] \notin {None, t}
  <2>1. Goto(p, "raised") /\ UNCHANGED <<references, canonicals, records>>
    BY <1>2, <1>5 DEF InsertReference
  <2>2. TypeOK'
    BY <1>1, <2>1 DEF TypeOK, Goto, files
  <2>3. StoreFits'
    BY <1>1, <2>1, StoreKept DEF metadata
  <2>4. pc'[p] = "raised" => ProcessFits(p)'
    BY <1>1, <1>2, <1>5, <2>1 DEF ProcessFits, Explained, files
  <2> QED BY <2>1, <2>2, <2>3, <2>4, ProcessStep
<1>6. CASE InsertCanonical(p)
  <2>1. Goto(p, "record") /\ canonicals' = [canonicals EXCEPT ![t] = t.rows] /\ UNCHANGED <<references, records>>
        /\ references[t.rows] = t
    BY <1>1, <1>2, <1>3, <1>6 DEF InsertCanonical, ProcessFits
  <2>2. TypeOK' /\ canonicals'[t] = t.rows
    BY <1>1, <1>2, <2>1 DEF TypeOK, Goto, files
  <2>3. \A c \in Canonicals : canonicals'[c] \in {None, c.rows} /\ (canonicals[c] = c.rows => canonicals'[c] = c.rows)
    BY <1>1, <1>3, <2>1, <2>2 DEF TypeOK
  <2>4. StoreFits'
    BY <1>1, <1>3, <2>1, <2>3 DEF StoreFits, LineageComplete
  <2>5. pc'[p] = "record" => ProcessFits(p)'
    BY <1>1, <1>2, <2>1, <2>2 DEF ProcessFits, files
  <2> QED BY <2>1, <2>2, <2>4, <2>5, ProcessStep
<1>7. CASE InsertRecord(p)
  <2>1. Goto(p, "check") /\ records' = records \cup {t} /\ UNCHANGED <<references, canonicals>>
        /\ references[t.rows] = t /\ canonicals[t] = t.rows
    BY <1>1, <1>2, <1>7 DEF InsertRecord, ProcessFits
  <2>2. TypeOK'
    BY <1>1, <1>2, <2>1 DEF TypeOK, Goto, files
  <2>3. StoreFits'
    BY <1>1, <1>2, <1>3, <2>1 DEF StoreFits, LineageComplete
  <2>4. pc'[p] = "check" => ProcessFits(p)'
    BY <1>1, <1>2, <2>1 DEF ProcessFits, files
  <2> QED BY <2>1, <2>2, <2>3, <2>4, ProcessStep
<1> QED BY <1>4, <1>5, <1>6, <1>7 DEF Record

LEMMA ComputeStep ==
  ASSUME IInv, OneProcess, NEW p \in Processes, Compute(p)
  PROVE  IInv'
<1> USE DEF At, Registered, Targeted, Filled, Hashed, Referenced, Concluding, Labels
<1>1. TypeOK /\ StoreFits /\ ProcessFits(p)
  BY Facts
<1>2. expected[p] \in Versions /\ target[p] = Derived(expected[p]) /\ parquet[target[p]] = RowsOf(expected[p])
  BY <1>1, RowFacts DEF Compute, ProcessFits
<1>3. /\ Goto(p, "done") /\ results' = results \cup {Derived(expected[p])}
      /\ UNCHANGED <<source, files, metadata, expected, copied, target, content>>
  BY <1>2, RowFacts DEF Compute, Derived
<1>4. TypeOK'
  BY <1>1, <1>2, <1>3, RowFacts DEF TypeOK, Goto, files, metadata
<1>5. StoreFits'
  BY <1>1, <1>2, <1>3, RowFacts
     DEF StoreFits, files, metadata, RegisteredSnapshotsIntact, ResultsComeFromTheirSource, LineageComplete
<1>6. pc'[p] = "done" => ProcessFits(p)'
  BY <1>2, <1>3 DEF ProcessFits
<1> QED BY <1>3, <1>4, <1>5, <1>6, ProcessStep

\* Every step of a single process keeps the invariant.
LEMMA StepInv ==
  ASSUME OneProcess
  PROVE  IInv /\ [Next]_vars => IInv'
<1> SUFFICES ASSUME IInv, [Next]_vars PROVE IInv'
  OBVIOUS
<1>1. CASE UNCHANGED vars
  <2>1. UNCHANGED <<source, snapshots, parquet, datasets, references, canonicals, records, results,
                    pc, expected, copied, target, content>>
    BY <1>1 DEF vars, files, metadata, work
  <2> QED BY <2>1 DEF IInv, TypeOK, StoreFits, RegisteredSnapshotsIntact, ResultsComeFromTheirSource,
        LineageComplete, ProcessFits, At, Explained
<1>2. CASE Edit
  BY <1>2, EditStep
<1>3. ASSUME NEW p \in Processes, Register(p) \/ Canonicalize(p) \/ Record(p) \/ Execute(p) \/ Leave(p)
      PROVE  IInv'
  BY <1>3, CopyingStep, PublishStep, CheckingStep, RegisterStep, ParquetStep, InsertStep, ComputeStep, LeaveStep
     DEF Register, Canonicalize, Execute
<1> QED BY <1>1, <1>2, <1>3 DEF Next

-----------------------------------------------------------------------------
(* The theorems *)

\* What every stage has made certain, in every state one process at a time can reach.
THEOREM InvariantHolds ==
  ASSUME OneProcess
  PROVE  Spec => []IInv
BY InitInv, StepInv, PTL DEF Spec

\* register_source records a fingerprint only of bytes that are, and stay, at its
\* path, whatever the user saves in the meantime.
THEOREM RegisteredSnapshotsStayIntact ==
  ASSUME OneProcess
  PROVE  Spec => []RegisteredSnapshotsIntact
<1>1. IInv => RegisteredSnapshotsIntact
  BY DEF IInv, StoreFits
<1> QED BY <1>1, InvariantHolds, PTL

\* A metric is computed from the rows of the bytes it names as its source, though
\* the snapshot and the Parquet file are opened again after they were verified.
THEOREM ResultsNameTheirSource ==
  ASSUME OneProcess
  PROVE  Spec => []ResultsComeFromTheirSource
<1>1. IInv => ResultsComeFromTheirSource
  BY DEF IInv, StoreFits
<1> QED BY <1>1, InvariantHolds, PTL

\* The rows run_analysis inserts are complete whenever the last of them is there.
THEOREM RecordedLineageIsComplete ==
  ASSUME OneProcess
  PROVE  Spec => []LineageComplete
<1>1. IInv => LineageComplete
  BY DEF IInv, StoreFits
<1> QED BY <1>1, InvariantHolds, PTL

\* An analysis refuses to go on only over a snapshot that was spoilt or rows that
\* belong to another source: what a killed analysis left behind is taken up again.
THEOREM RefusalsAreExplained ==
  ASSUME OneProcess
  PROVE  Spec => []RefusalsExplained
<1>1. IInv => RefusalsExplained
  BY DEF IInv, ProcessFits, Explained, RefusalsExplained
<1> QED BY <1>1, InvariantHolds, PTL
=============================================================================
