---------------------------- MODULE SealPipeline ----------------------------
(***************************************************************************)
(* The sealing pipeline of filcrypto (src/filcrypto-v1.h): PreCommit1,     *)
(* PreCommit2, Commit1 and Commit2 over the files of one or more sectors,  *)
(* with clear_cache, fauxrep and fauxrep2 acting on the same cache         *)
(* directories.  Each sector owns a staged file, a sealed file and a cache *)
(* directory; the caller holds the outputs each call returned and may pass *)
(* any of them, stale ones included, to a later call.                      *)
(*                                                                         *)
(* Cryptographic values are symbolic: a commitment is a tuple naming what  *)
(* it was computed from, so two commitments are equal exactly when their   *)
(* inputs are (collision resistance), and a proof is the record of the     *)
(* public inputs it was produced for (the succinct proof is unforgeable).  *)
(***************************************************************************)
EXTENDS Naturals, FiniteSets

CONSTANTS
    Sectors,    \* sector ids, each with its own staged file, sealed file and cache dir
    Tickets,    \* pre-commitment randomness values the caller may pass
    Seeds,      \* post-commitment randomness values the caller may pass
    Data,       \* contents a staged sector may hold (its pieces)
    NONE        \* no file / no value

VARIABLES
    staged,     \* staged[s]: the pieces in the staged sector file of s
    sealed,     \* sealed[s]: the contents of the sealed sector file of s
    labels,     \* labels[s]: the layer labels PreCommit1 left in the cache dir
    treeC,      \* treeC[s]: the column tree PreCommit2 left in the cache dir
    pAux,       \* pAux[s]: the replica commitment recorded in p_aux
    running,    \* running[s]: the PreCommit2 call in progress on s, or NONE
    written,    \* written[s]: the running PreCommit2 has written p_aux
    pc1Outs,    \* PreCommit1 outputs returned to the caller
    returned,   \* returned[s]: the last PreCommit2 response for s, or NONE
    commRs,     \* CommRs returned to the caller (PreCommit2, fauxrep, fauxrep2)
    c1Outs,     \* Commit1 outputs returned to the caller
    proofs      \* proofs returned by Commit2

diskVars   == <<staged, sealed, labels, treeC, pAux>>
callerVars == <<pc1Outs, returned, commRs, c1Outs, proofs>>
vars == <<diskVars, running, written, callerVars>>

-----------------------------------------------------------------------------
(* Symbolic cryptography.                                                  *)

\* The data commitment of the pieces: a Merkle root over their padded bytes.
CommD(d) == <<"commD", d>>

\* Layer labels are derived from the replica id, a hash of the sector id,
\* the ticket and CommD; the last layer is the encoding key.
Labels(s, t, d) == <<"labels", s, t, CommD(d)>>

\* The column tree over all layers of labels (tree_c).
TreeC(l) == <<"treeC", l>>

\* Sealed file contents: the copied unsealed pieces, a replica encoded under
\* a key, bytes encoded more than once or half-written, or a faux replica.
Raw(d)       == <<"raw", d>>
Enc(l, d)    == <<"enc", l, d>>
Garbage      == <<"garbage">>
FauxData(s)  == <<"faux", s>>

\* Encoding in place adds the key to every node of what the file holds:
\* only the unsealed copy decodes back to pieces afterwards.
Encode(l, c) == IF c[1] = "raw" THEN Enc(l, c[2]) ELSE Garbage

\* CommR = H(comm_c, comm_r_last): the roots of tree_c and of the replica.
CommROf(tc, c) == <<"commR", tc, c>>

\* The replica commitment of an uninterrupted PreCommit1 -> PreCommit2 run.
HonestCommR(s, t, d) ==
    CommROf(TreeC(Labels(s, t, d)), Enc(Labels(s, t, d), d))

\* The commitments fauxrep and fauxrep2 write: a random comm_c over the faux
\* replica, and a cheap transform of an existing p_aux.
FauxCommR(s)  == CommROf(<<"fauxC", s>>, FauxData(s))
\* Transforms of transforms are not told apart.
Faux2CommR(a) == IF a[1] = "faux2" THEN a ELSE <<"faux2", a>>

-----------------------------------------------------------------------------
(* Responses (the payloads of the *Response structs).                      *)

\* fil_SealPreCommitPhase1Response: the opaque phase-1 output; it names the
\* inputs PreCommit1 was called with and CommD.
PC1Output(s, t, d) == [sector |-> s, ticket |-> t, data |-> d, commD |-> CommD(d)]

\* fil_SealPreCommitPhase2Response: CommD (copied from the phase-1 output)
\* and CommR, kept with the phase-1 output the call was given.
PC2Output(o, r) == [pc1 |-> o, comm_d |-> o.commD, comm_r |-> r]

C1Output(s, r, t, e, d) ==
    [sector |-> s, comm_r |-> r, comm_d |-> CommD(d), ticket |-> t, seed |-> e]

\* fil_VerifySealResponse.is_valid: a proof verifies exactly for the public
\* inputs it was produced for.
VerifySeal(r, cd, t, e, s, p) ==
    /\ p \in proofs
    /\ p = [sector |-> s, comm_r |-> r, comm_d |-> cd, ticket |-> t, seed |-> e]

\* The key unseal_range regenerates: the replica id of the sector id, the
\* ticket and the CommD it is given (the same tuple Labels builds).
UnsealKey(s, t, cd) == <<"labels", s, t, cd>>

\* Mutant: a replica id that leaves out the sector id when unsealing.
UnsealRangeNoSector(s, t, cd) ==
    IF sealed[s] = NONE \/ pAux[s] = NONE THEN "error"
    ELSE IF sealed[s][1] = "enc" /\ sealed[s][2] = <<"labels", t, cd>> THEN sealed[s][3]
    ELSE Garbage

\* fil_unseal_range: what it writes to the output file.  It reads the aux
\* files PreCommit2 wrote with p_aux into the cache dir (kept by
\* clear_cache), regenerates the key from its arguments and decodes the
\* sealed file.  It is given no CommR, so a wrong ticket or CommD decodes
\* to garbage rather than failing; "error" when the sealed file or the aux
\* files are missing.
UnsealRange(s, t, cd) ==
    IF sealed[s] = NONE \/ pAux[s] = NONE THEN "error"
    ELSE IF sealed[s][1] = "enc" /\ sealed[s][2] = UnsealKey(s, t, cd) THEN sealed[s][3]
    ELSE Garbage

Idle(s) == running[s] = NONE

-----------------------------------------------------------------------------
Init ==
    /\ staged \in [Sectors -> Data]
    /\ sealed = [s \in Sectors |-> NONE]
    /\ labels = [s \in Sectors |-> NONE]
    /\ treeC  = [s \in Sectors |-> NONE]
    /\ pAux   = [s \in Sectors |-> NONE]
    /\ running = [s \in Sectors |-> NONE]
    /\ written = [s \in Sectors |-> FALSE]
    /\ returned = [s \in Sectors |-> NONE]
    /\ pc1Outs = {} /\ commRs = {} /\ c1Outs = {} /\ proofs = {}

-----------------------------------------------------------------------------
(* Operations.  A call on a sector's files runs only while no PreCommit2   *)
(* is in progress on that sector: the caller serializes calls per sector.  *)
(* A call that fails its checks returns an error status and changes no     *)
(* file; such returns are stuttering steps and are not written out.        *)

PartialLabels == <<"partial">>

\* Mutant: PreCommit1 keeps a sealed file that is already there.
PreCommit1KeepSealed(s, t, d) ==
    /\ Idle(s)
    /\ d = staged[s]
    /\ sealed' = [sealed EXCEPT ![s] = IF sealed[s] = NONE THEN Raw(d) ELSE sealed[s]]
    /\ labels' = [labels EXCEPT ![s] = Labels(s, t, d)]
    /\ pc1Outs' = pc1Outs \cup {PC1Output(s, t, d)}
    /\ UNCHANGED <<staged, treeC, pAux, running, written, returned, commRs, c1Outs, proofs>>

\* fil_seal_pre_commit_phase1: the pieces must be those of the staged file
\* (else CallerError); it copies the staged file to the sealed path and
\* writes the layer labels into the cache dir.
PreCommit1(s, t, d) ==
    /\ Idle(s)
    /\ d = staged[s]
    /\ sealed' = [sealed EXCEPT ![s] = Raw(d)]
    /\ labels' = [labels EXCEPT ![s] = Labels(s, t, d)]
    /\ pc1Outs' = pc1Outs \cup {PC1Output(s, t, d)}
    /\ UNCHANGED <<staged, treeC, pAux, running, written, returned, commRs, c1Outs, proofs>>

\* PreCommit1 ends in a receiver or unclassified error (disk full, killed):
\* the copy may have been made, some layers may have been written.
PreCommit1Fail(s) ==
    /\ Idle(s)
    /\ sealed' \in {[sealed EXCEPT ![s] = v] : v \in {sealed[s], Raw(staged[s])}}
    /\ labels' \in {[labels EXCEPT ![s] = v] : v \in {labels[s], PartialLabels}}
    /\ UNCHANGED <<staged, treeC, pAux, running, written, callerVars>>

\* Mutant: PreCommit2 without the check that the cache dir holds labels.
PreCommit2EncodeUnchecked(s, o) ==
    /\ Idle(s)
    /\ sealed[s] /= NONE
    /\ running' = [running EXCEPT ![s] = o]
    /\ treeC' = [treeC EXCEPT ![s] = TreeC(labels[s])]
    /\ sealed' = [sealed EXCEPT ![s] = Encode(labels[s], sealed[s])]
    /\ UNCHANGED <<staged, labels, pAux, written, callerVars>>

\* fil_seal_pre_commit_phase2 up to the end of encoding.  Its inputs are the
\* phase-1 output, the cache dir and the sealed path: it builds tree_c from
\* the labels found in the cache dir and encodes the sealed file in place
\* with the last layer.  Missing labels or sealed file is an error.
PreCommit2Encode(s, o) ==
    /\ Idle(s)
    /\ labels[s] \notin {NONE, PartialLabels}
    /\ sealed[s] /= NONE
    /\ running' = [running EXCEPT ![s] = o]
    /\ treeC' = [treeC EXCEPT ![s] = TreeC(labels[s])]
    /\ sealed' = [sealed EXCEPT ![s] = Encode(labels[s], sealed[s])]
    /\ UNCHANGED <<staged, labels, pAux, written, callerVars>>

\* PreCommit2 builds tree_r_last over the replica and persists p_aux
\* (comm_c, comm_r_last) in the cache dir before it returns.
PreCommit2PersistPAux(s) ==
    /\ running[s] /= NONE
    /\ ~written[s]
    /\ pAux' = [pAux EXCEPT ![s] = CommROf(treeC[s], sealed[s])]
    /\ written' = [written EXCEPT ![s] = TRUE]
    /\ UNCHANGED <<staged, sealed, labels, treeC, running, callerVars>>

\* PreCommit2 returns CommD (copied from the phase-1 output) and the CommR
\* of the p_aux it wrote.
PreCommit2Finish(s) ==
    /\ running[s] /= NONE
    /\ written[s]
    /\ LET r == pAux[s]
       IN /\ returned' = [returned EXCEPT ![s] = PC2Output(running[s], r)]
          /\ commRs' = commRs \cup {r}
    /\ running' = [running EXCEPT ![s] = NONE]
    /\ written' = [written EXCEPT ![s] = FALSE]
    /\ UNCHANGED <<diskVars, pc1Outs, c1Outs, proofs>>

\* PreCommit2 ends without a response: a receiver error, or the process is
\* killed by the caller's own timeout.  Killed while encoding, the sealed
\* file is left partly encoded; after p_aux is written, the files stay as
\* they are.
PreCommit2Abort(s) ==
    /\ running[s] /= NONE
    /\ running' = [running EXCEPT ![s] = NONE]
    /\ written' = [written EXCEPT ![s] = FALSE]
    /\ sealed' \in IF written[s] THEN {sealed}
                   ELSE {[sealed EXCEPT ![s] = v] : v \in {sealed[s], Garbage}}
    /\ UNCHANGED <<staged, labels, treeC, pAux, callerVars>>

\* fil_seal_commit_phase1: derives the challenges and opens the labels,
\* columns and replica nodes; the vanilla proofs are checked before they are
\* returned, so every opening must agree with the arguments.
Commit1(s, r, t, e, d) ==
    /\ Idle(s)
    /\ labels[s] = Labels(s, t, d)
    /\ treeC[s] = TreeC(labels[s])
    /\ pAux[s] = r
    /\ CommROf(treeC[s], sealed[s]) = r
    /\ sealed[s] = Enc(labels[s], d)
    /\ c1Outs' = c1Outs \cup {C1Output(s, r, t, e, d)}
    /\ UNCHANGED <<diskVars, running, written, pc1Outs, returned, commRs, proofs>>

\* fil_seal_commit_phase2: runs the circuit prover on a phase-1 output; the
\* sector id is a separate argument and the proof is verified against it
\* before it is returned.
Commit2(c, s) ==
    /\ c.sector = s
    /\ proofs' = proofs \cup {c}
    /\ UNCHANGED <<diskVars, running, written, pc1Outs, returned, commRs, c1Outs>>

\* Mutant: clear_cache empties the whole cache dir, p_aux included.
ClearCacheAll(s) ==
    /\ Idle(s)
    /\ labels' = [labels EXCEPT ![s] = NONE]
    /\ treeC' = [treeC EXCEPT ![s] = NONE]
    /\ pAux' = [pAux EXCEPT ![s] = NONE]
    /\ UNCHANGED <<staged, sealed, running, written, callerVars>>

\* fil_clear_cache: removes the layers and the trees Commit1 needs, keeps
\* p_aux, t_aux and tree_r_last (what PoSt reads) and the sealed file.
ClearCache(s) ==
    /\ Idle(s)
    /\ labels' = [labels EXCEPT ![s] = NONE]
    /\ treeC' = [treeC EXCEPT ![s] = NONE]
    /\ UNCHANGED <<staged, sealed, pAux, running, written, callerVars>>

\* fil_fauxrep: writes a random replica to the sealed path and a p_aux with
\* a random comm_c, and returns the resulting commitment.
FauxRep(s) ==
    /\ Idle(s)
    /\ sealed' = [sealed EXCEPT ![s] = FauxData(s)]
    /\ pAux' = [pAux EXCEPT ![s] = FauxCommR(s)]
    /\ commRs' = commRs \cup {FauxCommR(s)}
    /\ UNCHANGED <<staged, labels, treeC, running, written, pc1Outs, returned, c1Outs, proofs>>

\* fil_fauxrep2: reads an existing p_aux (here the one of sector src) and
\* writes a p_aux derived from it into the cache dir; it is given no sealed
\* path.
FauxRep2(s, src) ==
    /\ Idle(s)
    /\ pAux[src] /= NONE
    /\ pAux' = [pAux EXCEPT ![s] = Faux2CommR(pAux[src])]
    /\ commRs' = commRs \cup {Faux2CommR(pAux[src])}
    /\ UNCHANGED <<staged, sealed, labels, treeC, running, written, pc1Outs, returned, c1Outs, proofs>>

Next ==
    \/ \E s \in Sectors, t \in Tickets, d \in Data : PreCommit1(s, t, d)
    \/ \E s \in Sectors : PreCommit1Fail(s)
    \/ \E s \in Sectors, o \in pc1Outs : PreCommit2Encode(s, o)
    \/ \E s \in Sectors : PreCommit2PersistPAux(s)
    \/ \E s \in Sectors : PreCommit2Finish(s)
    \/ \E s \in Sectors : PreCommit2Abort(s)
    \/ \E s \in Sectors, r \in commRs, t \in Tickets, e \in Seeds, d \in Data :
          Commit1(s, r, t, e, d)
    \/ \E c \in c1Outs, s \in Sectors : Commit2(c, s)
    \/ \E s \in Sectors : ClearCache(s)
    \/ \E s \in Sectors : FauxRep(s)
    \/ \E s, src \in Sectors : FauxRep2(s, src)

Spec == Init /\ [][Next]_vars
-----------------------------------------------------------------------------
(* Properties.                                                             *)

\* Commitments and contents the model can produce, for the type invariant.
LabelVals   == {Labels(s, t, d) : s \in Sectors, t \in Tickets, d \in Data}
ContentVals == {Raw(d) : d \in Data} \cup {Enc(l, d) : l \in LabelVals, d \in Data}
                 \cup {Garbage} \cup {FauxData(s) : s \in Sectors}
TreeCVals   == {TreeC(l) : l \in LabelVals}
RealCommRs  == {CommROf(tc, c) : tc \in TreeCVals, c \in ContentVals}
                 \cup {FauxCommR(s) : s \in Sectors}
CommRVals   == RealCommRs \cup {Faux2CommR(r) : r \in RealCommRs}
PC1Vals     == {PC1Output(s, t, d) : s \in Sectors, t \in Tickets, d \in Data}

TypeOK ==
    /\ staged \in [Sectors -> Data]
    /\ sealed \in [Sectors -> ContentVals \cup {NONE}]
    /\ labels \in [Sectors -> LabelVals \cup {NONE, PartialLabels}]
    /\ treeC  \in [Sectors -> TreeCVals \cup {NONE}]
    /\ pAux   \in [Sectors -> CommRVals \cup {NONE}]
    /\ running \in [Sectors -> PC1Vals \cup {NONE}]
    /\ written \in [Sectors -> BOOLEAN]
    /\ commRs \subseteq CommRVals
    /\ pc1Outs \subseteq PC1Vals
    /\ returned \in [Sectors -> {PC2Output(o, r) : o \in PC1Vals, r \in RealCommRs} \cup {NONE}]
    /\ \A c \in c1Outs \cup proofs :
          c \in [sector : Sectors, comm_r : CommRVals, comm_d : {CommD(d) : d \in Data},
                 ticket : Tickets, seed : Seeds]

\* A failed PreCommit2 leaves no CommR that Commit1 could trust (spec 7):
\* given any CommR the caller holds, Commit1 succeeds for a sector only
\* with the CommR the last successful PreCommit2 on that sector returned,
\* whatever PreCommit2 calls were killed after writing p_aux, reruns of
\* PreCommit1 and fauxrep calls came after it.
Commit1TrustsOnlyReturnedCommR ==
    [][\A c \in c1Outs' \ c1Outs :
          returned[c.sector] /= NONE /\ c.comm_r = returned[c.sector].comm_r]_vars

\* PreCommit2 is deterministic and may be retried with identical inputs
\* (spec 4.3, 8): a PreCommit2 on a sector given the same phase-1 output as
\* the last successful one returns the same CommR.
PC2RetryReturnsSameCommR ==
    [][\A s \in Sectors :
         PreCommit2Finish(s) /\ returned[s] /= NONE /\ returned[s].pc1 = running[s] =>
            returned'[s].comm_r = returned[s].comm_r]_vars
====
