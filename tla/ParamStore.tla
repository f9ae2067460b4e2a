----------------------------- MODULE ParamStore -----------------------------
(***************************************************************************)
(* Groth parameter and verifying-key files shared by concurrent callers.   *)
(*                                                                         *)
(* The lookups of filcrypto name, for each proof type, the circuit, the    *)
(* CID and the local path of its parameter file and of its verifying key.  *)
(* Fetching a missing file is the caller's job and is neither locked nor   *)
(* deduplicated (spec 5), so worker threads that run their first proving   *)
(* call concurrently fetch the same path side by side.  Commit2 and PoSt   *)
(* generation read the parameter file, the verifiers read the verifying    *)
(* key; a missing file is a ReceiverError the caller retries after         *)
(* fetching (spec 6, 7).                                                   *)
(*                                                                         *)
(* A file is the set of its chunks that hold the fetched content.  A fetch *)
(* either writes the path in place (create and truncate, then write chunk  *)
(* by chunk at its own offset) or writes a private temporary file and      *)
(* renames it over the path, depending on FetchMode.                       *)
(***************************************************************************)
EXTENDS Naturals, FiniteSets

CONSTANTS Workers,         \* caller threads, one proving job each
          Job,             \* [Workers -> proof types]: the job of each thread
          SealProofs,      \* fil_RegisteredSealProof values of the jobs
          PoStProofs,      \* fil_RegisteredPoStProof values of the jobs
          CircuitOf(_),    \* the circuit identifier of a proof type
          ParamChunks,     \* chunks a fetch writes per file
          FetchMode,       \* "in_place" or "rename"
          MaxCrashes       \* bound on killed worker processes

VARIABLES file,      \* [Paths -> [exists: BOOLEAN, chunks: SUBSET Chunks]]
          pc,        \* [Workers -> step of the thread]
          fetch,     \* [Workers -> the chunks written by the thread's fetch]
          proof,     \* [Workers -> "none" or "valid"]: the proof the thread made
          result,    \* [Workers -> "none" or "accepted"]: the verifier's answer
          crashes    \* killed processes so far

vars == <<file, pc, fetch, proof, result, crashes>>

Chunks == 1..ParamChunks

-----------------------------------------------------------------------------
(* The lookups: a file is named by its kind and the circuit identifier *)

\* fil_get_post_circuit_identifier, fil_get_post_params_{cid,path} and
\* fil_get_post_verifying_key_{cid,path}.
PostFile(kind, pt) == <<"post", kind, CircuitOf(pt)>>

\* fil_get_seal_circuit_identifier, fil_get_seal_params_{cid,path} and
\* fil_get_seal_verifying_key_{cid,path}.
SealFile(kind, pt) == <<"seal", kind, CircuitOf(pt)>>

FileOf(kind, pt) == IF pt \in SealProofs THEN SealFile(kind, pt) ELSE PostFile(kind, pt)

Paths == {FileOf(k, Job[w]) : k \in {"params", "vk"}, w \in Workers}

\* The file a thread needs at its current step.
Need(w) == FileOf(IF pc[w] \in {"params", "fetch_params", "prove"} THEN "params" ELSE "vk",
                  Job[w])

Complete(f) == file[f].exists /\ file[f].chunks = Chunks

-----------------------------------------------------------------------------
(* The threads *)

Init ==
  /\ file = [f \in Paths |-> [exists |-> FALSE, chunks |-> {}]]
  /\ pc = [w \in Workers |-> "params"]
  /\ fetch = [w \in Workers |-> {}]
  /\ proof = [w \in Workers |-> "none"]
  /\ result = [w \in Workers |-> "none"]
  /\ crashes = 0

CallOf(step) == IF step = "params" THEN "prove" ELSE "verify"
FetchOf(step) == IF step = "params" THEN "fetch_params" ELSE "fetch_vk"

\* The caller looks the path up and uses the file if it exists; otherwise it
\* starts a fetch.
Check(w) ==
  LET f == Need(w)
  IN  /\ pc[w] \in {"params", "vk"}
      /\ IF file[f].exists
         THEN /\ pc' = [pc EXCEPT ![w] = CallOf(pc[w])]
              /\ UNCHANGED <<file, fetch>>
         ELSE /\ pc' = [pc EXCEPT ![w] = FetchOf(pc[w])]
              /\ fetch' = [fetch EXCEPT ![w] = {}]
              /\ UNCHANGED file
      /\ UNCHANGED <<proof, result, crashes>>

\* An in-place fetch opens the path with O_CREAT | O_TRUNC at its first
\* write, dropping what any other fetch wrote there.
Kept(w, f) == IF fetch[w] = {} THEN {} ELSE file[f].chunks

FetchChunkNoRename(w) ==
  LET f == Need(w)
      c == Cardinality(fetch[w]) + 1
      done == fetch[w] \cup {c}
  IN  /\ pc[w] \in {"fetch_params", "fetch_vk"}
      /\ fetch' = [fetch EXCEPT ![w] = done]
      /\ IF FetchMode = "in_place"
         THEN file' = [file EXCEPT ![f] = [exists |-> TRUE, chunks |-> Kept(w, f) \cup {c}]]
         ELSE file' = file
      /\ pc' = IF done = Chunks
               THEN [pc EXCEPT ![w] = IF pc[w] = "fetch_params" THEN "prove" ELSE "verify"]
               ELSE pc
      /\ UNCHANGED <<proof, result, crashes>>

\* Mutant: the download loop runs one chunk past the end of the file.
FetchChunkPastEnd(w) ==
  LET f == Need(w)
      c == Cardinality(fetch[w]) + 1
      done == fetch[w] \cup {c}
  IN  /\ pc[w] \in {"fetch_params", "fetch_vk"}
      /\ fetch' = [fetch EXCEPT ![w] = done]
      /\ IF FetchMode = "in_place"
         THEN file' = [file EXCEPT ![f] = [exists |-> TRUE, chunks |-> Kept(w, f) \cup {c}]]
         ELSE file' = IF done = Chunks
                      THEN [file EXCEPT ![f] = [exists |-> TRUE, chunks |-> done]]
                      ELSE file
      /\ pc' = IF c > ParamChunks
               THEN [pc EXCEPT ![w] = IF pc[w] = "fetch_params" THEN "prove" ELSE "verify"]
               ELSE pc
      /\ UNCHANGED <<proof, result, crashes>>

\* The fetch writes its next chunk, at its own offset, in order.  In place
\* it lands in the shared path;
\* otherwise in the thread's temporary file, renamed over the path once the
\* download is whole.  Then the thread makes the call that needed the file.
FetchChunk(w) ==
  LET f == Need(w)
      c == Cardinality(fetch[w]) + 1
      done == fetch[w] \cup {c}
  IN  /\ pc[w] \in {"fetch_params", "fetch_vk"}
      /\ fetch' = [fetch EXCEPT ![w] = done]
      /\ IF FetchMode = "in_place"
         THEN file' = [file EXCEPT ![f] = [exists |-> TRUE, chunks |-> Kept(w, f) \cup {c}]]
         ELSE file' = IF done = Chunks
                      THEN [file EXCEPT ![f] = [exists |-> TRUE, chunks |-> done]]
                      ELSE file
      /\ pc' = IF done = Chunks
               THEN [pc EXCEPT ![w] = IF pc[w] = "fetch_params" THEN "prove" ELSE "verify"]
               ELSE pc
      /\ UNCHANGED <<proof, result, crashes>>

\* How a call reading file f ends: a missing file, and a file with chunks
\* missing (a short read: the fetch writes chunks in order, so a partial
\* file is a prefix), are a ReceiverError (spec 6, 7).
Reads(f) == IF Complete(f) THEN "ok" ELSE "error"

\* fil_seal_commit_phase2 / fil_generate_*_post with the parameter file.
Prove(w) ==
  /\ pc[w] = "prove"
  /\ IF Reads(Need(w)) = "error"
     THEN /\ pc' = [pc EXCEPT ![w] = "params"]
          /\ UNCHANGED proof
     ELSE /\ proof' = [proof EXCEPT ![w] = "valid"]
          /\ pc' = [pc EXCEPT ![w] = "vk"]
  /\ UNCHANGED <<file, fetch, result, crashes>>

\* fil_verify_seal / fil_verify_*_post with the verifying key: a proof made
\* with the whole parameter file verifies under the whole key.
Verify(w) ==
  /\ pc[w] = "verify"
  /\ IF Reads(Need(w)) = "error"
     THEN /\ pc' = [pc EXCEPT ![w] = "vk"]
          /\ UNCHANGED result
     ELSE /\ result' = [result EXCEPT ![w] = "accepted"]
          /\ pc' = [pc EXCEPT ![w] = "done"]
  /\ UNCHANGED <<file, fetch, proof, crashes>>

\* The worker process is killed during a fetch and started again: what it
\* wrote stays where it was written, and it looks the file up again.
Crash(w) ==
  /\ pc[w] \in {"fetch_params", "fetch_vk"}
  /\ crashes < MaxCrashes
  /\ crashes' = crashes + 1
  /\ pc' = [pc EXCEPT ![w] = IF pc[w] = "fetch_params" THEN "params" ELSE "vk"]
  /\ fetch' = [fetch EXCEPT ![w] = {}]
  /\ UNCHANGED <<file, proof, result>>

Step(w) == Check(w) \/ FetchChunk(w) \/ Prove(w) \/ Verify(w)

Next == \E w \in Workers : Step(w) \/ Crash(w)

\* Every thread is scheduled while it can run; crashes are not forced.
Spec == Init /\ [][Next]_vars /\ \A w \in Workers : WF_vars(Step(w))

-----------------------------------------------------------------------------
(* Properties *)

Steps == {"params", "fetch_params", "prove", "vk", "fetch_vk", "verify", "done"}

TypeOK ==
  /\ file \in [Paths -> [exists : BOOLEAN, chunks : SUBSET Chunks]]
  /\ pc \in [Workers -> Steps]
  /\ fetch \in [Workers -> SUBSET Chunks]
  /\ proof \in [Workers -> {"none", "valid"}]
  /\ result \in [Workers -> {"none", "accepted"}]
  /\ crashes \in 0..MaxCrashes

\* Spec 5 and 7: threads that fetch the same files concurrently risk
\* duplicate downloads, not correctness issues, and a ReceiverError may be
\* retried after remediation.  Fetching what is missing and retrying after
\* a ReceiverError gets every thread through: each eventually holds a proof
\* the verifier accepts, whatever the order of the threads, whichever of
\* them finds a file another is still writing, and whichever fetch is
\* killed.
EveryJobVerified == <>(\A w \in Workers : result[w] = "accepted")

=============================================================================
