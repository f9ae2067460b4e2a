-------------------------------- MODULE PoSt --------------------------------
(***************************************************************************)
(* The PoSt engine and its verifier: winning PoSt sector challenge, winning *)
(* and window PoSt generation over private replica infos, and their         *)
(* verification over public replica infos.  A sealed sector's replica and   *)
(* p_aux hold the CommR it was sealed with; a replica can become unreadable *)
(* at any time.  A proof is the record of its public inputs, so it verifies *)
(* exactly for the inputs it was generated for, the proof type included.   *)
(* The proof type travels as the integer of a fil_RegisteredPoStProof       *)
(* enumerator; the v1 and v2 headers give the same integers to the V1 and  *)
(* V2 variants, so the version is the one of the surface that is called.   *)
(***************************************************************************)
EXTENDS Naturals, Sequences, SequencesExt

CONSTANTS Sectors,              \* sector ids of sealed sectors
          CommRs,               \* CommR values a caller may put into a replica info
          Randomness,           \* PoSt randomness values
          ProvingSet,           \* the caller's sector list, a sequence of distinct ids
          WinningSectorCount,   \* sectors challenged per winning PoSt
          ChallengeHash(_, _),  \* the hash of (randomness, n) challenge n reduces
          MaxReplicas,          \* bound on the replicas of one window PoSt call
          Surfaces,             \* API surfaces called: "v1" (filcrypto-v1.h), "v2"
          PoStProofEnums,       \* enumerator values a caller passes, within 0..9
          SectorSize            \* size index (0 = 2KiB .. 4 = 64GiB) of the sectors

ASSUME /\ Surfaces \subseteq {"v1", "v2"}
       /\ PoStProofEnums \subseteq 0..9
       /\ SectorSize \in 0..4

VARIABLES SealedCommR,    \* [Sectors -> CommR] as held by each sector's files
          readable,       \* [Sectors -> BOOLEAN]: replica and cache are readable
          lastChallenge,  \* the caller's last fil_GenerateWinningPoStSectorChallenge
          lastWinning,    \* the caller's last fil_GenerateWinningPoStResponse
          window,         \* the generate_window_post call in progress, or NONE
          lastWindow      \* the caller's last fil_GenerateWindowPoStResponse

vars == <<SealedCommR, readable, lastChallenge, lastWinning, window, lastWindow>>

NONE == [status |-> "none"]

-----------------------------------------------------------------------------
(* Proof types *)

\* Enumerators 0..4 are the Winning variants and 5..9 the Window variants of
\* the sizes 2KiB, 8MiB, 512MiB, 32GiB and 64GiB, in that order.
PoStKind(n) == IF n < 5 THEN "winning" ELSE "window"

\* fil_RegisteredPoStProof of filcrypto-v1.h: the V1 variants.
RegisteredPoStProofV1(n) == [kind |-> PoStKind(n), size |-> n % 5, version |-> "V1"]

\* fil_RegisteredPoStProof of filcrypto-v2.h: the same integers name the V2
\* variants.
RegisteredPoStProofV2(n) == [kind |-> PoStKind(n), size |-> n % 5, version |-> "V2"]

\* The proof type a call on surface v reads from the integer n.
PoStProofType(v, n) ==
  IF v = "v1" THEN RegisteredPoStProofV1(n) ELSE RegisteredPoStProofV2(n)

\* A call of the given kind accepts a replica's proof type only if it is of
\* that kind and of the sectors' size; anything else is a caller error.
TypeFits(v, n, kind) ==
  PoStProofType(v, n).kind = kind /\ PoStProofType(v, n).size = SectorSize

-----------------------------------------------------------------------------
(* Replica infos and proofs *)

\* fil_PrivateReplicaInfo: the paths are those of sector_id; comm_r and
\* registered_proof are the caller's.
PrivateInfos == [registered_proof : PoStProofEnums, sector_id : Sectors, comm_r : CommRs]

\* fil_PublicReplicaInfo: the private info without its paths.
Public(info) == [registered_proof |-> info.registered_proof,
                 sector_id |-> info.sector_id, comm_r |-> info.comm_r]

Publics(infos) == [i \in DOMAIN infos |-> Public(infos[i])]

\* A sector can be proven when its files are readable and the openings it
\* reads are under the comm_r the caller passed.
Provable(info) ==
  readable[info.sector_id] /\ SealedCommR[info.sector_id] = info.comm_r

\* fil_PoStProof: registered_proof is the integer the call was given; the
\* proof bytes are for the circuit of the proof type the call read from it.
WindowProof(v, r, pub) ==
  [registered_proof |-> pub.registered_proof,
   circuit |-> PoStProofType(v, pub.registered_proof), randomness |-> r,
   sector_id |-> pub.sector_id, comm_r |-> pub.comm_r]

WinningProof(v, r, pubs) ==
  [registered_proof |-> pubs[1].registered_proof,
   circuit |-> PoStProofType(v, pubs[1].registered_proof), randomness |-> r,
   replicas |-> pubs]

-----------------------------------------------------------------------------
(* Challenge derivation and verification *)

SectorChallengeOffByOne(v, pt, r, len) ==
  IF len = 0 \/ ~TypeFits(v, pt, "winning") THEN [status |-> "error"]
  ELSE [status |-> "ok", randomness |-> r, len |-> len,
        ids |-> [n \in 1..WinningSectorCount |-> ChallengeHash(r, n - 1) % (len + 1)]]

\* fil_generate_winning_post_sector_challenge: challenge n is the hash of
\* (randomness, n) reduced modulo sector_set_len; a set of length 0 or a
\* proof type that is not a winning one of the sectors' size is an error.
SectorChallenge(v, pt, r, len) ==
  IF len = 0 \/ ~TypeFits(v, pt, "winning") THEN [status |-> "error"]
  ELSE [status |-> "ok", randomness |-> r, len |-> len,
        ids |-> [n \in 1..WinningSectorCount |-> ChallengeHash(r, n - 1) % len]]

\* fil_verify_window_post: proofs and public replicas pair up by position;
\* each proof is checked with the circuit of the window proof type the
\* surface reads from the public info's registered_proof.
VerifyWindowPoSt(v, r, pubs, proofs) ==
  /\ Len(pubs) = Len(proofs)
  /\ \A i \in DOMAIN pubs :
       /\ TypeFits(v, pubs[i].registered_proof, "window")
       /\ proofs[i] = WindowProof(v, r, pubs[i])

\* fil_verify_winning_post: one proof over the challenged replicas.
VerifyWinningPoSt(v, r, pubs, proofs) ==
  /\ Len(pubs) = WinningSectorCount
  /\ Len(proofs) = 1
  /\ TypeFits(v, pubs[1].registered_proof, "winning")
  /\ proofs[1] = WinningProof(v, r, pubs)

-----------------------------------------------------------------------------
(* Generation *)

\* The positions of the call's replicas that were proven (b = TRUE) or
\* reported faulty (b = FALSE), in input order.
Tried(call, b) ==
  SelectSeq([i \in DOMAIN call.replicas |-> i], LAMBDA i : call.proven[i] = b)

\* Mutant: the k-th proof is for the k-th input replica, not the k-th
\* proven one.
WindowResponseByInputIndex(call) ==
  [status |-> "ok", surface |-> call.surface, randomness |-> call.randomness,
   replicas |-> call.replicas, lost |-> call.lost,
   proofs |-> [k \in DOMAIN Tried(call, TRUE) |->
                WindowProof(call.surface, call.randomness, Public(call.replicas[k]))],
   faulty_sectors |-> [k \in DOMAIN Tried(call, FALSE) |->
                        call.replicas[Tried(call, FALSE)[k]].sector_id]]

\* fil_GenerateWindowPoStResponse of a call whose replicas have all been
\* tried: a proof per proven replica and the ids of the others in
\* faulty_sectors, both in input order.  `lost` records the sectors that
\* were unreadable when the call started.
WindowResponse(call) ==
  [status |-> "ok", surface |-> call.surface, randomness |-> call.randomness,
   replicas |-> call.replicas, lost |-> call.lost,
   proofs |-> [k \in DOMAIN Tried(call, TRUE) |->
                WindowProof(call.surface, call.randomness,
                            Public(call.replicas[Tried(call, TRUE)[k]]))],
   faulty_sectors |-> [k \in DOMAIN Tried(call, FALSE) |->
                        call.replicas[Tried(call, FALSE)[k]].sector_id]]

\* The types are checked before any sector is read: a caller error unless
\* every replica's proof type is a window type of the sectors' size.
WindowTypesFit(v, infos) ==
  \A i \in DOMAIN infos : TypeFits(v, infos[i].registered_proof, "window")

\* fil_generate_window_post when no replica changes while it runs (the
\* response of StartWindowPoSt, ProveWindowSector for every replica and
\* FinishWindowPoSt run back to back).
WindowResult(v, r, infos) ==
  IF ~WindowTypesFit(v, infos) THEN [status |-> "error", replicas |-> infos]
  ELSE WindowResponse([surface |-> v, randomness |-> r, replicas |-> infos,
                       lost |-> {s \in Sectors : ~readable[s]},
                       proven |-> [i \in DOMAIN infos |-> Provable(infos[i])]])

\* fil_generate_winning_post: fails as a whole unless the replicas are the
\* challenged sector count, share one winning proof type of the sectors'
\* size, and are all provable.
WinningResult(v, r, infos) ==
  IF /\ Len(infos) = WinningSectorCount
     /\ \A i \in DOMAIN infos :
          /\ infos[i].registered_proof = infos[1].registered_proof
          /\ TypeFits(v, infos[i].registered_proof, "winning")
          /\ Provable(infos[i])
  THEN [status |-> "ok", surface |-> v, randomness |-> r, replicas |-> infos,
        proofs |-> <<WinningProof(v, r, Publics(infos))>>]
  ELSE [status |-> "error"]

-----------------------------------------------------------------------------
(* Actions *)

Init ==
  /\ SealedCommR \in [Sectors -> CommRs]
  /\ readable = [s \in Sectors |-> TRUE]
  /\ lastChallenge = NONE
  /\ lastWinning = NONE
  /\ window = NONE
  /\ lastWindow = NONE

\* A sector's replica or cache is deleted or becomes unreadable.
LoseReplica(s) ==
  /\ readable[s]
  /\ readable' = [readable EXCEPT ![s] = FALSE]
  /\ UNCHANGED <<SealedCommR, lastChallenge, lastWinning, window, lastWindow>>

\* The caller asks which of the first `len` sectors of its list are challenged.
GenerateWinningPoStSectorChallenge(v, pt, r, len) ==
  /\ lastChallenge' = SectorChallenge(v, pt, r, len)
  /\ UNCHANGED <<SealedCommR, readable, lastWinning, window, lastWindow>>

GenerateWinningPoSt(v, r, infos) ==
  /\ lastWinning' = WinningResult(v, r, infos)
  /\ UNCHANGED <<SealedCommR, readable, lastChallenge, window, lastWindow>>

\* fil_generate_window_post starts: after the type check it holds, per
\* replica, whether that sector has been proven (TRUE), reported faulty
\* (FALSE) or not yet tried (absent).
StartWindowPoSt(v, r, infos) ==
  /\ window = NONE
  /\ IF WindowTypesFit(v, infos)
     THEN /\ window' = [status |-> "running", surface |-> v, randomness |-> r,
                        replicas |-> infos, lost |-> {s \in Sectors : ~readable[s]},
                        proven |-> <<>>]
          /\ UNCHANGED lastWindow
     ELSE /\ lastWindow' = [status |-> "error", replicas |-> infos]
          /\ UNCHANGED window
  /\ UNCHANGED <<SealedCommR, readable, lastChallenge, lastWinning>>

\* One replica of the running call is read and proven, or, if its files
\* cannot be read or do not open to its comm_r, recorded as faulty.  The
\* replicas are proven independently (spec 5), in any order.
ProveWindowSector(i) ==
  /\ window /= NONE
  /\ i \in DOMAIN window.replicas \ DOMAIN window.proven
  /\ window' = [window EXCEPT !.proven =
                   (i :> Provable(window.replicas[i])) @@ @]
  /\ UNCHANGED <<SealedCommR, readable, lastChallenge, lastWinning, lastWindow>>

\* Every replica has been tried: the call returns its response.
FinishWindowPoSt ==
  /\ window /= NONE
  /\ DOMAIN window.proven = DOMAIN window.replicas
  /\ lastWindow' = WindowResponse(window)
  /\ window' = NONE
  /\ UNCHANGED <<SealedCommR, readable, lastChallenge, lastWinning>>

\* Replica lists with distinct sector ids, as the caller builds them.
WindowInputs ==
  {f \in UNION {[1..n -> PrivateInfos] : n \in 1..MaxReplicas} :
     \A i, j \in DOMAIN f : i # j => f[i].sector_id # f[j].sector_id}

\* Each call is on one surface, with the enumerator values the caller holds.
Next ==
  \/ \E s \in Sectors : LoseReplica(s)
  \/ \E v \in Surfaces, pt \in PoStProofEnums, r \in Randomness,
        len \in 0..Len(ProvingSet) :
       GenerateWinningPoStSectorChallenge(v, pt, r, len)
  \/ \E v \in Surfaces, r \in Randomness,
        infos \in [1..WinningSectorCount -> PrivateInfos] :
       GenerateWinningPoSt(v, r, infos)
  \/ \E v \in Surfaces, r \in Randomness, infos \in WindowInputs :
       StartWindowPoSt(v, r, infos)
  \/ \E i \in 1..MaxReplicas : ProveWindowSector(i)
  \/ FinishWindowPoSt

Spec == Init /\ [][Next]_vars

---------------------------------------------------------------------------
(* Properties *)

PublicInfos == [registered_proof : PoStProofEnums, sector_id : Sectors, comm_r : CommRs]

PublicSeqs == UNION {[1..n -> PublicInfos] : n \in 1..MaxReplicas}

ResponseOK(x) == x.status = "ok"

TypeOK ==
  /\ SealedCommR \in [Sectors -> CommRs]
  /\ readable \in [Sectors -> BOOLEAN]
  /\ lastChallenge.status \in {"none", "ok", "error"}
  /\ ResponseOK(lastChallenge) =>
       \A n \in DOMAIN lastChallenge.ids : lastChallenge.ids[n] \in 0..(lastChallenge.len - 1)
  /\ window /= NONE =>
       /\ window.replicas \in WindowInputs
       /\ window.proven \in UNION {[D -> BOOLEAN] : D \in SUBSET DOMAIN window.replicas}
  /\ ResponseOK(lastWindow) =>
       /\ lastWindow.replicas \in WindowInputs
       /\ Len(lastWindow.proofs) + Len(lastWindow.faulty_sectors) = Len(lastWindow.replicas)
  /\ ResponseOK(lastWinning) => Len(lastWinning.proofs) = 1

\* Window PoSt degrades per sector (spec 4.5, 8): after a generate_window_post,
\* whatever replicas were lost before it started or while its sectors were
\* being proven, the public infos of the input replicas whose ids are not in
\* faulty_sectors, in input order, verify against the returned proofs, and
\* every sector whose replica was gone before the call started is in
\* faulty_sectors.  A sector that cannot be proven neither aborts the call
\* nor disturbs the proofs of the others.
WindowPoStComplete ==
  ResponseOK(lastWindow) =>
    LET kept == SelectSeq(lastWindow.replicas,
                  LAMBDA x : x.sector_id \notin ToSet(lastWindow.faulty_sectors))
    IN  /\ VerifyWindowPoSt(lastWindow.surface, lastWindow.randomness, Publics(kept),
                            lastWindow.proofs)
        /\ \A i \in DOMAIN lastWindow.replicas :
             lastWindow.replicas[i].sector_id \in lastWindow.lost =>
               lastWindow.replicas[i].sector_id \in ToSet(lastWindow.faulty_sectors)

\* Spec 4.5: winning PoSt verification recomputes the sector selection, so a
\* winning proof verifies only for the sectors the challenge for the same
\* randomness selected from the caller's list.
ChallengedSectors(c) == [n \in DOMAIN c.ids |-> ProvingSet[c.ids[n] + 1]]

WinningVerifiesOnlyChallengedSectors ==
  (/\ ResponseOK(lastWinning) /\ ResponseOK(lastChallenge)
   /\ lastChallenge.len = Len(ProvingSet)
   /\ lastChallenge.randomness = lastWinning.randomness
   /\ VerifyWinningPoSt(lastWinning.surface, lastWinning.randomness,
                        Publics(lastWinning.replicas), lastWinning.proofs))
    => [n \in DOMAIN lastWinning.replicas |-> lastWinning.replicas[n].sector_id]
         = ChallengedSectors(lastChallenge)

=============================================================================
