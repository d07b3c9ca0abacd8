----------------------- MODULE DocumentaryCandidates -----------------------
(***************************************************************************)
(* Documentary candidates: assertions a language model finds in canonical  *)
(* chunks.  Their rows refer to nothing, so that they outlive the evidence *)
(* they quote; database triggers retract them in the very transaction that *)
(* changes or deletes it.  The model is asked outside any transaction.     *)
(*                                                                         *)
(* The model finds at most one assertion per chunk here, so a candidate is *)
(* identified by its chunk.                                                *)
(***************************************************************************)
EXTENDS KnowledgeProjection

VARIABLES
  extraction,   (* the open request: the source, documents and evidence    *)
  candidates    (* rows: chunk, revision quoted, active or not             *)

candidateVars == <<vars, extraction, candidates>>

NoExtraction == [source |-> None, documents |-> {}, evidence |-> {}]

CandidatesInit ==
  /\ Init
  /\ extraction = NoExtraction
  /\ candidates = {}

Quoted(c, documentsNow) == documentsNow[c.chunk.source][c.chunk.uri]

-----------------------------------------------------------------------------
(* The triggers, as part of whatever step fires them                       *)

(* The row is updated to another text, or deleted.                         *)
DocumentChanges(c) ==
  LET before == Quoted(c, documents)
      after == Quoted(c, documents')
  IN /\ before.row = c.chunk.row
     /\ after.row # before.row \/ after.content # before.content

(* Chunking deletes the chunks of a document it does not skip, also those  *)
(* it inserts again; a source or document takes its chunks along.          *)
ChunkRemoved(c) ==
  /\ c.chunk \in chunks
  /\ \/ c.chunk \notin chunks'
     \/ Quoted(c, documents').snapshot # Quoted(c, documents).snapshot

SourceDeleted(c) == Live(c.chunk.source) /\ source'[c.chunk.source].life # "live"

(* Refuted variant: deleting or replacing chunks is all that retracts.     *)
RetractWithChunks(rows) ==
  {[c EXCEPT !.active = @ /\ ~ChunkRemoved(c)] : c \in rows}

Retract(rows) ==
  {[c EXCEPT !.active = @ /\ ~DocumentChanges(c) /\ ~ChunkRemoved(c) /\ ~SourceDeleted(c)]
     : c \in rows}

-----------------------------------------------------------------------------
(* Extraction                                                              *)

(* What is read of the selected documents: their chunks with their texts.  *)
Snapshot(s, uris) ==
  {[chunk |-> c, content |-> documents[s][c.uri].content]
     : c \in {x \in ChunksOf(s) : x.uri \in uris}}

Extractable(s, uris) ==
  /\ Live(s)
  /\ source[s].status = "ready" /\ source[s].current
  /\ uris \subseteq DocumentUris(s)
  /\ Snapshot(s, uris) # {}

StartExtraction(s, uris) ==
  /\ extraction = NoExtraction
  /\ Extractable(s, uris)
  /\ extraction' = [source |-> s, documents |-> uris, evidence |-> Snapshot(s, uris)]
  /\ UNCHANGED <<vars, candidates>>

(* The model fails, or answers too late or with a quote the chunk has not. *)
ExtractionFails ==
  /\ extraction # NoExtraction
  /\ extraction' = NoExtraction
  /\ UNCHANGED <<vars, candidates>>

(* The earlier candidates of the documents make room, then what was found  *)
(* is inserted, or made active again.                                      *)
Replace(rows, found) ==
  LET documentsOf == {[source |-> e.chunk.source, uri |-> e.chunk.uri, row |-> e.chunk.row]
                        : e \in extraction.evidence}
      Recomputed(c) ==
        [source |-> c.chunk.source, uri |-> c.chunk.uri, row |-> c.chunk.row] \in documentsOf
  IN {[c EXCEPT !.active = @ /\ ~Recomputed(c)]
        : c \in {x \in rows : \A e \in found : e.chunk # x.chunk}}
     \cup {[chunk |-> e.chunk, content |-> e.content, active |-> TRUE] : e \in found}

(* Refuted variant: the transaction looks only whether the source exists.  *)
CommitUnseen(found) ==
  LET s == extraction.source
  IN /\ extraction # NoExtraction /\ Unlocked(s)
     /\ candidates' = IF Live(s) THEN Replace(candidates, found) ELSE candidates
     /\ extraction' = NoExtraction
     /\ UNCHANGED vars

(* Under the lock of the source the same must be read again; if not, the   *)
(* request is refused (evidence_changed).                                  *)
CommitExtraction(found) ==
  LET s == extraction.source
      same == /\ Extractable(s, extraction.documents)
              /\ Snapshot(s, extraction.documents) = extraction.evidence
  IN /\ extraction # NoExtraction /\ Unlocked(s)
     /\ candidates' = IF same THEN Replace(candidates, found) ELSE candidates
     /\ extraction' = NoExtraction
     /\ UNCHANGED vars

PurgeCandidate(c) ==
  /\ candidates' = candidates \ {c}
  /\ UNCHANGED <<vars, extraction>>

CandidatesNext ==
  \/ /\ Next
     /\ candidates' = Retract(candidates)
     /\ UNCHANGED extraction
  \/ \E s \in Sources, uris \in SUBSET Uris : StartExtraction(s, uris)
  \/ \E found \in SUBSET extraction.evidence : CommitExtraction(found)
  \/ ExtractionFails
  \/ \E c \in candidates : PurgeCandidate(c)

CandidatesSpec == CandidatesInit /\ [][CandidatesNext]_candidateVars

-----------------------------------------------------------------------------

(***************************************************************************)
(* A candidate that is offered quotes what is canonical now: its source    *)
(* exists, its chunk is a row, and the document still reads as it did when *)
(* the model was shown it, although documents were crawled, chunked and    *)
(* deleted while the model was thinking, and no key protects the row.      *)
(***************************************************************************)
ActiveCandidatesAreCurrent ==
  \A c \in {x \in candidates : x.active} :
    /\ Live(c.chunk.source)
    /\ c.chunk \in chunks
    /\ Quoted(c, documents).row = c.chunk.row
    /\ Quoted(c, documents).content = c.content
=============================================================================
