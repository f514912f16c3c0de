------------------------ MODULE AuthorityRecordsProofs ------------------------
(***************************************************************************)
(* Proofs about AuthorityRecords, for every set of writers, records and    *)
(* payloads: the inductive invariant, the safety invariants it implies and *)
(* the refinement of WriteOnce.                                            *)
(***************************************************************************)
EXTENDS AuthorityRecords, TLAPS

USE NoneIsNoValue, RecordsAssumption

Inv == TypeOK /\ IInv

-----------------------------------------------------------------------------
(* Steps that move one writer and leave every store alone.                 *)

LEMMA OwnStepType ==
  ASSUME TypeOK, NEW w \in Writers, NEW label \in Labels, Goto(w, label)
  PROVE  pc' \in [Writers -> Labels]
BY DEF TypeOK, Goto

LEMMA StoresKept ==
  ASSUME StoresAgree, UNCHANGED <<json, index, row>>
  PROVE  StoresAgree'
BY DEF StoresAgree

LEMMA BeginInsertSafe ==
  ASSUME Inv, NEW w \in Writers, BeginInsert(w)
  PROVE  Inv'
<1> USE DEF Inv, IInv
<1>1. PICK r \in Candidates \cup Indexed, v \in Payloads :
        want' = [want EXCEPT ![w] = [path |-> r, content |-> [id |-> r, version |-> v]]]
  BY DEF BeginInsert
<1>2. [path |-> r, content |-> [id |-> r, version |-> v]] \in References
  BY DEF References, Contents, Payloads
<1>3. TypeOK'
  BY <1>1, <1>2, OwnStepType DEF BeginInsert, TypeOK, StoreTypeOK, Labels
<1>4. StoresAgree'
  BY StoresKept DEF BeginInsert
<1>5. /\ want'[w] # None /\ want'[w].content.id = want'[w].path
      /\ want'[w].path \notin Decisions /\ pc'[w] = "check"
  BY <1>1, <1>2 DEF TypeOK, StoreTypeOK, BeginInsert, Goto
<1>6. \A u \in Writers : u # w => pc'[u] = pc[u] /\ want'[u] = want[u]
  BY <1>1 DEF TypeOK, StoreTypeOK, BeginInsert, Goto
<1>7. WritersFit'
  BY <1>5, <1>6 DEF WritersFit, BeginInsert
<1>8. DecisionsFit'
  BY <1>5, <1>6 DEF DecisionsFit, BeginInsert
<1> QED BY <1>3, <1>4, <1>7, <1>8

LEMMA CheckRowSafe ==
  ASSUME Inv, NEW w \in Writers, CheckRow(w)
  PROVE  Inv'
<1> USE DEF Inv, IInv
<1>1. TypeOK'
  <2>1. \E label \in Labels : Goto(w, label)
    BY DEF CheckRow, Labels
  <2> QED BY <2>1, OwnStepType DEF CheckRow, TypeOK, StoreTypeOK
<1>2. StoresAgree'
  BY StoresKept DEF CheckRow
<1>3. /\ pc'[w] \in {"find", "load", "done", "raised"}
      /\ pc'[w] = "load" => row[want[w].path] = want[w].content
  BY DEF CheckRow, Goto, TypeOK
<1>4. \A u \in Writers : u # w => pc'[u] = pc[u]
  BY DEF CheckRow, Goto, TypeOK
<1>5. pc'[w] = "raised" => json[want[w].path] \notin {None, want[w].content}
  <2>1. want[w] \in References
    BY DEF CheckRow, WritersFit, TypeOK, StoreTypeOK
  <2>2. pc'[w] = "raised" => row[want[w].path] \notin {None, want[w].content}
    BY DEF CheckRow, Goto, TypeOK
  <2> QED BY <2>1, <2>2 DEF StoresAgree, References
<1>6. pc'[w] = "load" => json[want[w].path] = want[w].content
  <2>1. want[w] \in References
    BY DEF CheckRow, WritersFit, TypeOK, StoreTypeOK
  <2> QED BY <1>3, <2>1 DEF StoresAgree, References
<1>7. WritersFit'
  BY <1>3, <1>4, <1>5, <1>6 DEF WritersFit, CheckRow
<1>8. DecisionsFit'
  BY <1>3, <1>4 DEF DecisionsFit, CheckRow
<1> QED BY <1>1, <1>2, <1>7, <1>8

LEMMA EvaluateSafe ==
  ASSUME Inv, NEW w \in Writers, Evaluate(w)
  PROVE  Inv'
<1> USE DEF Inv, IInv
<1>1. PICK d \in Decisions, c \in Candidates, o \in Outcomes :
        /\ about[d] = None
        /\ about' = [about EXCEPT ![d] = c]
        /\ subject' = [subject EXCEPT ![w] = [id |-> d, version |-> o]]
  BY DEF Evaluate, Outcomes
<1>2. c # None
  OBVIOUS
<1>3. TypeOK'
  BY <1>1, OwnStepType DEF Evaluate, TypeOK, StoreTypeOK, Labels
<1>4. StoresAgree'
  BY StoresKept DEF Evaluate
<1>5. pc'[w] = "derive" /\ \A u \in Writers : u # w => pc'[u] = pc[u]
  BY DEF Evaluate, Goto, TypeOK
<1>6. WritersFit'
  BY <1>5 DEF WritersFit, Evaluate
<1>7. /\ about'[d] = c
      /\ \A e \in Decisions : e # d => about'[e] = about[e]
      /\ subject'[w] = [id |-> d, version |-> o]
      /\ \A u \in Writers : u # w => subject'[u] = subject[u]
  BY <1>1 DEF TypeOK
<1>8. json[d] = None /\ row[d] = None
  BY <1>1 DEF DecisionsFit
<1>9. \A u \in Writers : pc'[u] = "derive" =>
        subject'[u] # None /\ about'[subject'[u].id] # None
  <2> SUFFICES ASSUME NEW u \in Writers, pc'[u] = "derive"
               PROVE  subject'[u] # None /\ about'[subject'[u].id] # None
    OBVIOUS
  <2>1. CASE u = w
    <3>1. subject'[w] \in [id : Decisions, version : Outcomes]
      BY <1>7
    <3>2. None \notin [id : Decisions, version : Outcomes]
      BY DEF Contents
    <3> QED BY <2>1, <1>2, <1>7, <3>1, <3>2
  <2>2. CASE u # w
    BY <2>2, <1>2, <1>5, <1>7 DEF DecisionsFit, TypeOK
  <2> QED BY <2>1, <2>2
<1>10. DecisionsFit'
  BY <1>1, <1>2, <1>7, <1>8, <1>9 DEF DecisionsFit, Evaluate
<1> QED BY <1>3, <1>4, <1>6, <1>10

LEMMA DeriveFingerprintSafe ==
  ASSUME Inv, NEW w \in Writers, DeriveFingerprint(w)
  PROVE  Inv'
<1> USE DEF Inv, IInv
<1> DEFINE d == subject[w].id
           o == Binds(subject[w].version, row[about[d]])
<1>1. /\ subject[w] \in [id : Decisions, version : Outcomes]
      /\ about[d] \in Candidates
  BY DEF DeriveFingerprint, DecisionsFit, TypeOK
<1>2. /\ [path |-> d, content |-> [id |-> d, version |-> o]] \in References
      /\ o # "unbound" => row[about[d]] # None
  BY <1>1 DEF Binds, Outcomes, References, Contents
<1>3. /\ want' = [want EXCEPT ![w] = [path |-> d, content |-> [id |-> d, version |-> o]]]
      /\ pc'[w] = "find"
      /\ \A u \in Writers : u # w => /\ pc'[u] = pc[u]
                                     /\ subject'[u] = subject[u]
                                     /\ want'[u] = want[u]
  BY DEF DeriveFingerprint, Goto, TypeOK, StoreTypeOK
<1>4. TypeOK'
  BY <1>2, <1>3, OwnStepType DEF DeriveFingerprint, TypeOK, StoreTypeOK, Labels
<1>5. StoresAgree'
  BY StoresKept DEF DeriveFingerprint
<1>6. want'[w] = [path |-> d, content |-> [id |-> d, version |-> o]] /\ want'[w] # None
  BY <1>2, <1>3 DEF TypeOK, StoreTypeOK
<1> HIDE DEF d, o
<1>7. WritersFit'
  BY <1>3, <1>6 DEF WritersFit, DeriveFingerprint
<1>8. DecisionsFit'
  <2>1. about[d] # None
    BY <1>1
  <2> QED BY <1>1, <1>2, <1>3, <1>6, <2>1 DEF DecisionsFit, DeriveFingerprint
<1> QED BY <1>4, <1>5, <1>7, <1>8

-----------------------------------------------------------------------------
(* The steps of write_json_artifact and insert_artifact_reference.          *)

LEMMA FindDestinationSafe ==
  ASSUME Inv, NEW w \in Writers, FindDestination(w), UNCHANGED <<row, about, subject>>
  PROVE  Inv'
<1> USE DEF Inv, IInv
<1>1. TypeOK'
  <2>1. \E label \in Labels : Goto(w, label)
    BY DEF FindDestination, Labels
  <2> QED BY <2>1, OwnStepType DEF FindDestination, TypeOK, StoreTypeOK
<1>2. StoresAgree'
  BY StoresKept DEF FindDestination
<1>3. /\ pc'[w] \in {"link", "hash", "raised"}
      /\ pc'[w] = "hash" => json[want[w].path] = want[w].content
      /\ pc'[w] = "raised" => json[want[w].path] \notin {None, want[w].content}
      /\ \A u \in Writers : u # w => pc'[u] = pc[u]
  BY DEF FindDestination, Goto, TypeOK
<1>4. WritersFit'
  BY <1>3 DEF WritersFit, FindDestination
<1>5. DecisionsFit'
  BY <1>3 DEF DecisionsFit, FindDestination
<1> QED BY <1>1, <1>2, <1>4, <1>5

LEMMA LinkDestinationSafe ==
  ASSUME Inv, NEW w \in Writers, LinkDestination(w), UNCHANGED <<row, about, subject>>
  PROVE  Inv'
<1> USE DEF Inv, IInv
<1> DEFINE p == want[w].path
           c == want[w].content
<1>1. /\ want[w] # None /\ p \in Paths /\ c \in Contents /\ c.id = p /\ c # None
  BY DEF LinkDestination, WritersFit, TypeOK, StoreTypeOK, References
<1>2. \/ json[p] = None /\ json' = [json EXCEPT ![p] = c] /\ Goto(w, "hash")
      \/ json[p] = c /\ json' = json /\ Goto(w, "hash")
      \/ json[p] \notin {None, c} /\ json' = json /\ Goto(w, "raised")
  BY DEF LinkDestination
<1>3. \A q \in Paths : json[q] # None => json'[q] = json[q]
  BY <1>1, <1>2 DEF TypeOK, StoreTypeOK
<1>4. \A q \in Paths : json'[q] # None => json'[q] = json[q] \/ (q = p /\ json'[q] = c)
  BY <1>1, <1>2 DEF TypeOK, StoreTypeOK
<1>5. TypeOK'
  <2>1. json' \in [Paths -> Contents \cup {None}]
    BY <1>1, <1>2 DEF TypeOK, StoreTypeOK
  <2>2. \E label \in Labels : Goto(w, label)
    BY <1>2 DEF Labels
  <2> QED BY <2>1, <2>2, OwnStepType DEF LinkDestination, TypeOK, StoreTypeOK
<1>6. /\ pc'[w] \in {"hash", "raised"}
      /\ pc'[w] = "hash" => json'[p] = c
      /\ pc'[w] = "raised" => json'[p] \notin {None, c}
      /\ \A u \in Writers : u # w => pc'[u] = pc[u]
  BY <1>1, <1>2 DEF Goto, TypeOK, StoreTypeOK
<1>7. UNCHANGED <<index, want, ref, row, about, subject>>
  BY DEF LinkDestination
<1>8. StoresAgree'
  <2>1. \A q \in Paths : json'[q] # None => json'[q].id = q
    BY <1>1, <1>4 DEF StoresAgree
  <2>2. \A k \in Contents : index[k] # None => index[k] = k.id /\ json'[k.id] = k
    <3>1. \A k \in Contents : k.id \in Paths /\ k # None
      BY DEF Contents
    <3> QED BY <1>3, <3>1 DEF StoresAgree
  <2>3. \A q \in Paths : row[q] # None => json'[q] = row[q]
    BY <1>3 DEF StoresAgree
  <2> QED BY <1>7, <2>1, <2>2, <2>3 DEF StoresAgree
<1>9. \A u \in Writers : want[u] # None => want[u].path \in Paths /\ want[u].content # None
  BY DEF TypeOK, StoreTypeOK, References
<1>10. WritersFit'
  <2> SUFFICES ASSUME NEW u \in Writers
               PROVE  /\ pc'[u] \in {"check", "find", "link", "hash", "register", "insert", "load"} =>
                           want[u] # None /\ want[u].content.id = want[u].path
                      /\ pc'[u] \in {"hash", "register", "insert", "load"} =>
                           json'[want[u].path] = want[u].content
                      /\ pc'[u] \in {"register", "insert"} => ref[u] = want[u]
                      /\ pc'[u] = "insert" => index[want[u].content] = want[u].path
                      /\ pc'[u] = "load" => row[want[u].path] = want[u].content
                      /\ pc'[u] = "raised" =>
                           /\ want[u] # None
                           /\ \/ json'[want[u].path] \notin {None, want[u].content}
                              \/ row[want[u].path] = want[u].content
    BY <1>7 DEF WritersFit
  <2>1. CASE u = w
    BY <2>1, <1>1, <1>6
  <2>2. CASE u # w
    BY <2>2, <1>3, <1>6, <1>9 DEF WritersFit
  <2> QED BY <2>1, <2>2
<1>11. DecisionsFit'
  <2>1. \A e \in Decisions : row[e] # None \/ json'[e] # None => about[e] # None
    BY <1>1, <1>4 DEF DecisionsFit
  <2>2. \A e \in Decisions :
          json'[e] # None /\ json'[e].version # "unbound" => row[about[e]] # None
    BY <1>1, <1>4 DEF DecisionsFit
  <2> QED BY <2>1, <2>2, <1>6, <1>7 DEF DecisionsFit
<1> QED BY <1>5, <1>8, <1>10, <1>11

LEMMA HashDestinationSafe ==
  ASSUME Inv, NEW w \in Writers, HashDestination(w), UNCHANGED <<row, about, subject>>
  PROVE  Inv'
<1> USE DEF Inv, IInv
<1>1. /\ want[w] \in References
      /\ ref' = [ref EXCEPT ![w] = want[w]]
      /\ json[want[w].path] = want[w].content
  <2>1. want[w] \in References /\ json[want[w].path] = want[w].content
    BY DEF HashDestination, WritersFit, TypeOK, StoreTypeOK
  <2>2. [path |-> want[w].path, content |-> want[w].content] = want[w]
    BY <2>1 DEF References
  <2> QED BY <2>1, <2>2 DEF HashDestination
<1>2. /\ pc'[w] = "register" /\ ref'[w] = want[w]
      /\ \A u \in Writers : u # w => pc'[u] = pc[u] /\ ref'[u] = ref[u]
  BY <1>1 DEF HashDestination, Goto, TypeOK, StoreTypeOK
<1>3. TypeOK'
  BY <1>1, OwnStepType DEF HashDestination, TypeOK, StoreTypeOK, Labels
<1>4. StoresAgree'
  BY StoresKept DEF HashDestination
<1>5. WritersFit'
  BY <1>1, <1>2 DEF WritersFit, HashDestination
<1>6. DecisionsFit'
  BY <1>2 DEF DecisionsFit, HashDestination
<1> QED BY <1>3, <1>4, <1>5, <1>6

LEMMA RegisterReferenceSafe ==
  ASSUME Inv, NEW w \in Writers, RegisterReference(w), UNCHANGED <<row, about, subject>>
  PROVE  Inv'
<1> USE DEF Inv, IInv
<1> DEFINE p == want[w].path
           c == want[w].content
<1>1. /\ want[w] # None /\ p \in Paths /\ c \in Contents /\ c.id = p
      /\ ref[w] = want[w] /\ json[p] = c
  BY DEF RegisterReference, WritersFit, TypeOK, StoreTypeOK, References
\* A content carries its record's identity, so no other path can hold it.
<1>2. index[c] \in {None, p}
  BY <1>1 DEF StoresAgree
<1>3. index' = [index EXCEPT ![c] = p] /\ Goto(w, "insert")
  BY <1>1, <1>2 DEF RegisterReference
<1>4. /\ pc'[w] = "insert" /\ index'[c] = p
      /\ \A u \in Writers : u # w => pc'[u] = pc[u]
      /\ \A k \in Contents : k # c => index'[k] = index[k]
  BY <1>1, <1>3 DEF Goto, TypeOK, StoreTypeOK
<1>5. UNCHANGED <<json, want, ref, row, about, subject>>
  BY DEF RegisterReference
<1>6. TypeOK'
  BY <1>1, <1>3, <1>5, OwnStepType DEF TypeOK, StoreTypeOK, Labels
<1>7. \A k \in Contents : index[k] # None => index'[k] = index[k]
  BY <1>2, <1>4
<1>8. StoresAgree'
  <2>1. \A k \in Contents : index'[k] # None => index'[k] = k.id /\ json[k.id] = k
    BY <1>1, <1>4 DEF StoresAgree
  <2>2. \A q \in Paths : row[q] # None => json[q] = row[q] /\ index'[row[q]] = q
    <3> SUFFICES ASSUME NEW q \in Paths, row[q] # None
                 PROVE  json[q] = row[q] /\ index'[row[q]] = q
      OBVIOUS
    <3>1. row[q] \in Contents /\ json[q] = row[q] /\ index[row[q]] = q
      BY DEF StoresAgree, TypeOK
    <3>2. index[row[q]] # None
      BY <3>1
    <3> QED BY <1>7, <3>1, <3>2
  <2> QED BY <1>5, <2>1, <2>2 DEF StoresAgree
<1>9. \A u \in Writers : pc[u] = "insert" =>
        want[u].content \in Contents /\ index[want[u].content] # None
  BY DEF WritersFit, TypeOK, StoreTypeOK, References
<1>10. WritersFit'
  BY <1>1, <1>4, <1>5, <1>7, <1>9 DEF WritersFit
<1>11. DecisionsFit'
  BY <1>4, <1>5 DEF DecisionsFit
<1> QED BY <1>6, <1>8, <1>10, <1>11

-----------------------------------------------------------------------------
(* The row, the verified read, and the end of a call.                       *)

LEMMA InsertRowSafe ==
  ASSUME Inv, NEW w \in Writers, InsertRow(w)
  PROVE  Inv'
<1> USE DEF Inv, IInv
<1> DEFINE p == want[w].path
           c == want[w].content
<1>1. /\ want[w] # None /\ p \in Paths /\ c \in Contents /\ c.id = p /\ c # None
      /\ ref[w] = want[w] /\ json[p] = c /\ index[c] = p
  BY DEF InsertRow, WritersFit, TypeOK, StoreTypeOK, References
<1>2. \/ row[p] = None /\ row' = [row EXCEPT ![p] = c] /\ Goto(w, "load")
      \/ row[p] # None /\ row' = row /\ \E l \in {"load", "raised"} : Goto(w, l)
  BY <1>1 DEF InsertRow
<1>3. row[p] \in {None, c}
  BY <1>1 DEF StoresAgree
<1>4. /\ row'[p] = c /\ pc'[w] \in {"load", "raised"}
      /\ \A u \in Writers : u # w => pc'[u] = pc[u]
      /\ \A q \in Paths : q # p => row'[q] = row[q]
      /\ \A q \in Paths : row[q] # None => row'[q] = row[q]
  BY <1>1, <1>2, <1>3 DEF Goto, TypeOK
<1>5. UNCHANGED <<json, index, want, ref, about, subject>>
  BY DEF InsertRow
<1>6. TypeOK'
  <2>1. row' \in [Paths -> Contents \cup {None}]
    BY <1>1, <1>2 DEF TypeOK
  <2>2. \E label \in Labels : Goto(w, label)
    BY <1>2 DEF Labels
  <2> QED BY <1>5, <2>1, <2>2, OwnStepType DEF TypeOK, StoreTypeOK
<1>7. StoresAgree'
  BY <1>1, <1>4, <1>5 DEF StoresAgree
<1>8. \A u \in Writers : want[u] # None => want[u].path \in Paths /\ want[u].content # None
  BY DEF TypeOK, StoreTypeOK, References
<1>9. WritersFit'
  <2>1. \A u \in Writers : pc'[u] = "load" => row'[want[u].path] = want[u].content
    BY <1>4, <1>8 DEF WritersFit
  <2>2. \A u \in Writers : pc'[u] = "raised" =>
          /\ want[u] # None
          /\ \/ json[want[u].path] \notin {None, want[u].content}
             \/ row'[want[u].path] = want[u].content
    BY <1>1, <1>4, <1>8 DEF WritersFit
  <2>3. \A u \in Writers : pc'[u] \in {"load", "raised"} \/ pc'[u] = pc[u]
    BY <1>4
  <2>4. \A u \in Writers : pc'[u] # pc[u] => pc[u] = "insert"
    BY <1>4 DEF InsertRow
  <2> QED BY <1>5, <2>1, <2>2, <2>3, <2>4 DEF WritersFit
<1>10. DecisionsFit'
  <2>1. \A e \in Decisions : about[e] # None => about[e] \in Paths
    BY DEF TypeOK
  <2>2. \A u \in Writers : pc'[u] = "derive" => pc[u] = "derive"
    BY <1>4
  <2>3. p \in Decisions => about[p] # None
    BY <1>1 DEF DecisionsFit
  <2>4. \A e \in Decisions : row'[e] # None \/ json[e] # None => about[e] # None
    BY <1>4, <2>3 DEF DecisionsFit
  <2> QED BY <1>4, <1>5, <2>1, <2>2, <2>4 DEF DecisionsFit
<1> QED BY <1>6, <1>7, <1>9, <1>10

LEMMA LoadRowSafe ==
  ASSUME Inv, NEW w \in Writers, LoadRow(w)
  PROVE  Inv'
<1> USE DEF Inv, IInv
<1>1. TypeOK'
  <2>1. \E label \in Labels : Goto(w, label)
    BY DEF LoadRow, Labels
  <2> QED BY <2>1, OwnStepType DEF LoadRow, TypeOK, StoreTypeOK
<1>2. StoresAgree'
  BY StoresKept DEF LoadRow
<1>3. pc'[w] \in {"done", "raised"} /\ \A u \in Writers : u # w => pc'[u] = pc[u]
  BY DEF LoadRow, Goto, TypeOK
<1>4. want[w] # None /\ row[want[w].path] = want[w].content
  BY DEF LoadRow, WritersFit
<1>5. WritersFit'
  BY <1>3, <1>4 DEF WritersFit, LoadRow
<1>6. DecisionsFit'
  BY <1>3 DEF DecisionsFit, LoadRow
<1> QED BY <1>1, <1>2, <1>5, <1>6

LEMMA LeaveSafe ==
  ASSUME Inv, NEW w \in Writers, Leave(w)
  PROVE  Inv'
<1> USE DEF Inv, IInv
<1>1. TypeOK'
  BY OwnStepType DEF Leave, TypeOK, StoreTypeOK, Labels
<1>2. StoresAgree'
  BY StoresKept DEF Leave
<1>3. /\ pc'[w] = "idle" /\ want'[w] = None
      /\ \A u \in Writers : u # w => /\ pc'[u] = pc[u] /\ want'[u] = want[u]
                                     /\ ref'[u] = ref[u] /\ subject'[u] = subject[u]
  BY DEF Leave, Goto, TypeOK, StoreTypeOK
<1>4. WritersFit'
  BY <1>3 DEF WritersFit, Leave
<1>5. DecisionsFit'
  BY <1>3 DEF DecisionsFit, Leave
<1> QED BY <1>1, <1>2, <1>4, <1>5

-----------------------------------------------------------------------------
(* The theorems.                                                           *)

LEMMA InitInv == Init => Inv
<1>1. Init => TypeOK
  BY DEF Init, StoreInit, TypeOK, StoreTypeOK, Labels
<1>2. Init => IInv
  BY DEF Init, StoreInit, IInv, StoresAgree, WritersFit, DecisionsFit
<1> QED BY <1>1, <1>2 DEF Inv

LEMMA StepInv == Inv /\ [Next]_recordVars => Inv'
<1> SUFFICES ASSUME Inv, [Next]_recordVars PROVE Inv'
  OBVIOUS
<1>1. CASE UNCHANGED recordVars
  BY <1>1 DEF recordVars, storeVars, Inv, TypeOK, StoreTypeOK, IInv, StoresAgree,
       WritersFit, DecisionsFit
<1>2. CASE Next
  <2>1. PICK w \in Writers : BeginInsert(w) \/ Evaluate(w) \/ Persist(w) \/ Leave(w)
    BY <1>2 DEF Next
  <2>2. CASE BeginInsert(w)
    BY <2>2, BeginInsertSafe
  <2>3. CASE Evaluate(w)
    BY <2>3, EvaluateSafe
  <2>4. CASE Leave(w)
    BY <2>4, LeaveSafe
  <2>5. CASE Persist(w)
    BY <2>5, FindDestinationSafe, LinkDestinationSafe, HashDestinationSafe,
       RegisterReferenceSafe, CheckRowSafe, DeriveFingerprintSafe, InsertRowSafe,
       LoadRowSafe DEF Persist, WriteArtifact
  <2> QED BY <2>1, <2>2, <2>3, <2>4, <2>5
<1> QED BY <1>1, <1>2

LEMMA InvHolds == Spec => []Inv
BY InitInv, StepInv, PTL DEF Spec

(* Every value in the stores and in the writers' hands keeps its type.      *)
THEOREM TypeCorrect == Spec => []TypeOK
<1>1. Inv => TypeOK
  BY DEF Inv
<1> QED BY InvHolds, <1>1, PTL

(* Files, references, rows, writers and decisions stay in step.             *)
THEOREM InvariantHolds == Spec => []IInv
<1>1. Inv => IInv
  BY DEF Inv
<1> QED BY InvHolds, <1>1, PTL

(* A committed record passes its verified read, for any number of writers.  *)
THEOREM RowsAlwaysVerify == Spec => []RowsVerify
<1>1. Inv => RowsVerify
  BY DEF Inv, TypeOK, IInv, StoresAgree, DecisionsFit, RowsVerify, Verifies
<1> QED BY InvHolds, <1>1, PTL

(* An admissible decision always has its candidate.                         *)
THEOREM AdmissibleAlwaysBacked == Spec => []AdmissibleHasCandidate
<1>1. Inv => AdmissibleHasCandidate
  BY DEF Inv, IInv, StoresAgree, DecisionsFit, AdmissibleHasCandidate
<1> QED BY InvHolds, <1>1, PTL

(* A persist call only ever refuses a conflict or a record already there.   *)
THEOREM OnlyConflictsRefused == Spec => []RefusesOnlyConflicts
<1>1. Inv => RefusesOnlyConflicts
  BY DEF Inv, IInv, WritersFit, RefusesOnlyConflicts
<1> QED BY InvHolds, <1>1, PTL

(* The three-transaction protocol implements the write-once promise.        *)
THEOREM RefinesWriteOnce == Spec => ImplementsWriteOnce
<1>1. Init => Once!Init
  BY DEF Init, StoreInit, Once!Init
<1>2. Inv /\ [Next]_recordVars => [Once!Next]_Once!vars
  <2> SUFFICES ASSUME Inv, [Next]_recordVars PROVE [Once!Next]_Once!vars
    OBVIOUS
  <2> USE DEF Once!Next, Once!Publish, Once!Commit, Once!vars
  <2>1. CASE UNCHANGED <<json, row>>
    BY <2>1
  <2>2. ASSUME NEW w \in Writers, LinkDestination(w), UNCHANGED <<row, about, subject>>
        PROVE  [Once!Next]_Once!vars
    <3>1. /\ want[w].path \in Paths /\ want[w].content \in Contents
      BY <2>2 DEF LinkDestination, Inv, IInv, WritersFit, TypeOK, StoreTypeOK, References
    <3>2. \/ /\ json[want[w].path] = None
             /\ json' = [json EXCEPT ![want[w].path] = want[w].content]
          \/ json' = json
      BY <2>2 DEF LinkDestination
    <3> QED BY <2>2, <3>1, <3>2
  <2>3. ASSUME NEW w \in Writers, InsertRow(w)
        PROVE  [Once!Next]_Once!vars
    <3>1. /\ want[w].path \in Paths /\ ref[w].content = json[want[w].path]
          /\ json[want[w].path] # None
      BY <2>3 DEF InsertRow, Inv, IInv, WritersFit, TypeOK, StoreTypeOK, References
    <3>2. \/ /\ row[want[w].path] = None
             /\ row' = [row EXCEPT ![want[w].path] = json[want[w].path]]
          \/ row' = row
      BY <2>3, <3>1 DEF InsertRow
    <3>3. json' = json
      BY <2>3 DEF InsertRow
    <3> QED BY <3>1, <3>2, <3>3
  <2>4. ASSUME NEW w \in Writers,
               BeginInsert(w) \/ Evaluate(w) \/ CheckRow(w) \/ DeriveFingerprint(w)
               \/ LoadRow(w) \/ Leave(w)
        PROVE  UNCHANGED <<json, row>>
    BY <2>4 DEF BeginInsert, Evaluate, CheckRow, DeriveFingerprint, LoadRow, Leave
  <2>5. ASSUME NEW w \in Writers, UNCHANGED <<row, about, subject>>,
               FindDestination(w) \/ HashDestination(w) \/ RegisterReference(w)
        PROVE  UNCHANGED <<json, row>>
    BY <2>5 DEF FindDestination, HashDestination, RegisterReference
  <2>6. CASE UNCHANGED recordVars
    BY <2>1, <2>6 DEF recordVars, storeVars
  <2> QED BY <2>1, <2>2, <2>3, <2>4, <2>5, <2>6 DEF Next, Persist, WriteArtifact
<1> QED BY InvHolds, <1>1, <1>2, PTL DEF Spec, ImplementsWriteOnce, Once!Spec
=============================================================================
