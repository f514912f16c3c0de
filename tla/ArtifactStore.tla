---------------------------- MODULE ArtifactStore ----------------------------
(***************************************************************************)
(* JSON artifacts of one artifact root and the artifact_references table   *)
(* beside it (persistence/artifact_store.py, metadata_store.py), shared by *)
(* writers in different processes, as the analyses that are given the same *)
(* --artifact-store are.                                                   *)
(*                                                                         *)
(* A payload's canonical bytes are a member of Contents; its hash, and so  *)
(* its artifact_id, is collision free and stands for the bytes.            *)
(***************************************************************************)
CONSTANTS
  None,     \* no file, row or value
  Writers,  \* processes that persist artifacts
  Paths,    \* destinations below the artifact root
  Versions  \* payloads a destination may be given

\* A persisted record carries the identity its path is derived from.
Contents == [id : Paths, version : Versions]

References == [path : Paths, content : Contents]

ASSUME NoneIsNoValue ==
  None \notin Contents /\ None \notin References /\ None \notin Paths

VARIABLES
  json,   \* the published file at each destination, or None
  index,  \* artifact_references: the path registered for each content
  pc,     \* what each writer does next
  want,   \* the path and payload it was called with
  ref     \* the reference write_json_artifact returned to it

storeVars == <<json, index, pc, want, ref>>

StoreInit ==
  /\ json = [p \in Paths |-> None]
  /\ index = [c \in Contents |-> None]
  /\ pc = [w \in Writers |-> "idle"]
  /\ want = [w \in Writers |-> None]
  /\ ref = [w \in Writers |-> None]

Goto(w, label) == pc' = [pc EXCEPT ![w] = label]

-----------------------------------------------------------------------------
(* write_json_artifact.                                                    *)

\* Mutant: a destination that exists is refused, whatever it holds.
FindNothing(w) ==
  /\ pc[w] = "find"
  /\ Goto(w, IF json[want[w].path] = None THEN "link" ELSE "raised")
  /\ UNCHANGED <<json, index, want, ref>>

\* A destination that exists must hold the same bytes.
FindDestination(w) ==
  /\ pc[w] = "find"
  /\ LET found == json[want[w].path]
     IN  Goto(w, IF found = None THEN "link"
                 ELSE IF found = want[w].content THEN "hash" ELSE "raised")
  /\ UNCHANGED <<json, index, want, ref>>

\* Mutant: the temporary file is renamed over the destination.
ReplaceDestination(w) ==
  /\ pc[w] = "link"
  /\ json' = [json EXCEPT ![want[w].path] = want[w].content]
  /\ Goto(w, "hash")
  /\ UNCHANGED <<index, want, ref>>

\* _atomic_create_bytes: a hard link publishes the temporary file unless
\* another writer got there first, whose bytes must then be the same.
LinkDestination(w) ==
  /\ pc[w] = "link"
  /\ LET found == json[want[w].path]
     IN  IF found = None
         THEN /\ json' = [json EXCEPT ![want[w].path] = want[w].content]
              /\ Goto(w, "hash")
         ELSE /\ Goto(w, IF found = want[w].content THEN "hash" ELSE "raised")
              /\ UNCHANGED json
  /\ UNCHANGED <<index, want, ref>>

\* The reference is built from the bytes read back.
HashDestination(w) ==
  /\ pc[w] = "hash"
  /\ ref' = [ref EXCEPT ![w] = [path |-> want[w].path,
                                content |-> json[want[w].path]]]
  /\ Goto(w, "register")
  /\ UNCHANGED <<json, index, want>>

-----------------------------------------------------------------------------
(* insert_artifact_reference: INSERT OR IGNORE, then compare, in one       *)
(* transaction.                                                            *)

RegisterReference(w) ==
  /\ pc[w] = "register"
  /\ LET known == index[ref[w].content]
     IN  IF known \in {None, ref[w].path}
         THEN /\ index' = [index EXCEPT ![ref[w].content] = ref[w].path]
              /\ Goto(w, "insert")
         ELSE Goto(w, "raised") /\ UNCHANGED index
  /\ UNCHANGED <<json, want, ref>>

WriteArtifact(w) ==
  \/ FindDestination(w) \/ LinkDestination(w) \/ HashDestination(w)
  \/ RegisterReference(w)

StoreTypeOK ==
  /\ json \in [Paths -> Contents \cup {None}]
  /\ index \in [Contents -> Paths \cup {None}]
  /\ want \in [Writers -> References \cup {None}]
  /\ ref \in [Writers -> References \cup {None}]
=============================================================================
