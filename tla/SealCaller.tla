----------------------------- MODULE SealCaller -----------------------------
(***************************************************************************)
(* A caller that seals each of its sectors through the pipeline of         *)
(* SealPipeline and then keeps it proven with window PoSt, following the   *)
(* recovery protocol of spec 4.3: a failed phase is retried with the same  *)
(* inputs, and a Commit1 that fails sends the sector back, after           *)
(* clear_cache, to PreCommit1.  (Sending it back to PreCommit2 alone does  *)
(* not recover: PreCommit2 re-encodes the sealed file in place, see        *)
(* PC2RetryReturnsSameCommR.)  After Commit2 the caller runs clear_cache,  *)
(* which must keep what PoSt reads.                                        *)
(*                                                                         *)
(* The pipeline's own actions are used unchanged; each caller step is one  *)
(* of them together with the caller's bookkeeping.  Window PoSt is the     *)
(* PoSt module's, over the replica the sector's files hold.                *)
(***************************************************************************)
EXTENDS SealPipeline

CONSTANTS MaxFailures    \* bound on failed PreCommit1 and PreCommit2 calls

VARIABLES phase,     \* [Sectors -> the caller's step for the sector]
          ticket,    \* [Sectors -> the ticket the caller seals the sector with]
          held,      \* [Sectors -> the phase output the caller holds, or NONE]
          post,      \* [Sectors -> the last window PoSt response, or NONE]
          unsealed,  \* [Sectors -> what the last unseal_range wrote, or NONE]
          failures   \* failed calls so far

callerState == <<phase, ticket, held, post, unsealed, failures>>
allVars == <<vars, callerState>>

-----------------------------------------------------------------------------
(* Window PoSt over the sector files *)

\* PoSt opens tree_r_last over the replica in the sealed file and proves
\* comm_r = H(comm_c, comm_r_last) from p_aux: it proves p_aux's CommR when
\* tree_r_last, built by the call that wrote p_aux, is over the replica the
\* file holds now.
ReplicaCommR(s) ==
  IF pAux[s] /= NONE /\ pAux[s][1] = "commR" /\ pAux[s][3] = sealed[s]
  THEN pAux[s] ELSE NONE

\* The proof type of the caller's window PoSt replica infos:
\* fil_RegisteredPoStProof_StackedDrgWindow2KiBV1 of the v1 header.
WindowPoStProof == 5

\* Only the window PoSt operators of the PoSt module are used; its other
\* parameters are given neutral values.
P == INSTANCE PoSt WITH SealedCommR <- [s \in Sectors |-> ReplicaCommR(s)],
                        readable <- [s \in Sectors |-> TRUE],
                        CommRs <- {}, Randomness <- {"r"}, ProvingSet <- <<>>,
                        WinningSectorCount <- 1, ChallengeHash <- LAMBDA r, n : n,
                        MaxReplicas <- 1, Surfaces <- {"v1"},
                        PoStProofEnums <- {WindowPoStProof}, SectorSize <- 0,
                        lastChallenge <- [status |-> "none"],
                        lastWinning <- [status |-> "none"],
                        window <- [status |-> "none"],
                        lastWindow <- [status |-> "none"]

\* The replica info the caller proves a committed sector with, through the
\* v1 header.
Info(s) == [registered_proof |-> WindowPoStProof, sector_id |-> s,
            comm_r |-> held[s].comm_r]

-----------------------------------------------------------------------------
(* The caller *)

CallerInit ==
  /\ Init
  /\ phase = [s \in Sectors |-> "staged"]
  /\ ticket \in [Sectors -> Tickets]
  /\ held = [s \in Sectors |-> NONE]
  /\ post = [s \in Sectors |-> NONE]
  /\ unsealed = [s \in Sectors |-> NONE]
  /\ failures = 0

Step(s, from, to) ==
  /\ phase[s] = from
  /\ phase' = [phase EXCEPT ![s] = to]

CallPreCommit1(s) ==
  /\ Step(s, "staged", "precommitted1")
  /\ PreCommit1(s, ticket[s], staged[s])
  /\ held' = [held EXCEPT ![s] = PC1Output(s, ticket[s], staged[s])]
  /\ UNCHANGED <<ticket, post, unsealed, failures>>

\* PreCommit1 returns an error; the caller will call it again.
PreCommit1Fails(s) ==
  /\ phase[s] = "staged"
  /\ failures < MaxFailures
  /\ PreCommit1Fail(s)
  /\ failures' = failures + 1
  /\ UNCHANGED <<phase, ticket, held, post, unsealed>>

CallPreCommit2(s) ==
  /\ Step(s, "precommitted1", "precommit2")
  /\ PreCommit2Encode(s, held[s])
  /\ UNCHANGED <<ticket, held, post, unsealed, failures>>

PreCommit2Persists(s) ==
  /\ phase[s] = "precommit2"
  /\ PreCommit2PersistPAux(s)
  /\ UNCHANGED <<callerState>>

PreCommit2Returns(s) ==
  /\ Step(s, "precommit2", "precommitted2")
  /\ PreCommit2Finish(s)
  /\ UNCHANGED <<ticket, held, post, unsealed, failures>>

\* PreCommit2 returns an error before it starts encoding (a parameter file
\* missing, a receiver error): no file has changed and the caller retries.
PreCommit2ErrorsEarly(s) ==
  /\ phase[s] = "precommitted1"
  /\ failures < MaxFailures
  /\ failures' = failures + 1
  /\ UNCHANGED <<vars, phase, ticket, held, post, unsealed>>

\* PreCommit2 ends without a response, while encoding or after writing
\* p_aux; the caller retries it with the same phase-1 output.
PreCommit2Fails(s) ==
  /\ Step(s, "precommit2", "precommitted1")
  /\ failures < MaxFailures
  /\ PreCommit2Abort(s)
  /\ failures' = failures + 1
  /\ UNCHANGED <<ticket, held, post, unsealed>>

\* Commit1 with the CommR PreCommit2 returned and the caller's seed.
CallCommit1(s, e) ==
  /\ Step(s, "precommitted2", "committed1")
  /\ Commit1(s, returned[s].comm_r, ticket[s], e, staged[s])
  /\ held' = [held EXCEPT ![s] = C1Output(s, returned[s].comm_r, ticket[s], e, staged[s])]
  /\ UNCHANGED <<ticket, post, unsealed, failures>>

\* Commit1 returns an error for every seed: the files do not open to the
\* CommR the caller holds.  The caller clears the cache and starts again,
\* with a ticket it may have drawn anew for the new PreCommit1.
Commit1Fails(s) ==
  /\ Step(s, "precommitted2", "staged")
  /\ ~\E e \in Seeds : ENABLED Commit1(s, returned[s].comm_r, ticket[s], e, staged[s])
  /\ held' = [held EXCEPT ![s] = NONE]
  /\ ClearCache(s)
  /\ \E tk \in Tickets : ticket' = [ticket EXCEPT ![s] = tk]
  /\ UNCHANGED <<post, unsealed, failures>>

CallCommit2(s) ==
  /\ Step(s, "committed1", "committed")
  /\ Commit2(held[s], s)
  /\ UNCHANGED <<ticket, held, post, unsealed, failures>>

\* The sealed sector's intermediate files are removed.
Finalize(s) ==
  /\ Step(s, "committed", "proving")
  /\ ClearCache(s)
  /\ UNCHANGED <<ticket, held, post, unsealed, failures>>

\* fil_generate_window_post over the committed sector.
ProveSector(s) ==
  /\ phase[s] = "proving"
  /\ post' = [post EXCEPT ![s] = P!WindowResult("v1", "r", <<Info(s)>>)]
  /\ UNCHANGED <<vars, phase, ticket, held, unsealed, failures>>

\* fil_unseal_range over the committed sector, with the ticket and CommD its
\* proof was made for.
CallUnseal(s) ==
  /\ phase[s] = "proving"
  /\ unsealed' = [unsealed EXCEPT ![s] = UnsealRange(s, held[s].ticket, held[s].comm_d)]
  /\ UNCHANGED <<vars, phase, ticket, held, post, failures>>

CallerStep(s) ==
  \/ CallPreCommit1(s) \/ CallPreCommit2(s) \/ PreCommit2Persists(s)
  \/ PreCommit2Returns(s)
  \/ \E e \in Seeds : CallCommit1(s, e)
  \/ Commit1Fails(s) \/ CallCommit2(s) \/ Finalize(s) \/ ProveSector(s)
  \/ CallUnseal(s)

CallerNext ==
  \E s \in Sectors : \/ CallerStep(s)
                    \/ PreCommit1Fails(s) \/ PreCommit2ErrorsEarly(s)
                    \/ PreCommit2Fails(s)

\* Every step of the caller, and the return of a running PreCommit2, is
\* taken while it can be; failures are not forced.
CallerSpec == CallerInit /\ [][CallerNext]_allVars /\ \A s \in Sectors : WF_allVars(CallerStep(s))

-----------------------------------------------------------------------------
(* Properties *)

Phases == {"staged", "precommitted1", "precommit2", "precommitted2",
           "committed1", "committed", "proving"}

CommittedSectorsProvable ==
  \A s \in Sectors :
    /\ phase[s] = "proving" => P!Provable(Info(s))
    /\ post[s] /= NONE =>
         /\ post[s].faulty_sectors = <<>>
         /\ P!VerifyWindowPoSt("v1", "r", <<P!Public(Info(s))>>, post[s].proofs)

\* Spec 2 (the cache dir holds what later unsealing needs) and 4.3: a
\* sector the caller has committed and cleared decodes, with the ticket and
\* CommD its proof is for, back to its staged pieces, and every unseal_range
\* the caller runs on it writes them.  A ticket drawn anew at a restart,
\* PreCommit1 reruns over the sealed file and the clear_cache calls all
\* come before this point.
CommittedSectorsUnsealable ==
  \A s \in Sectors :
    /\ phase[s] = "proving" => UnsealRange(s, held[s].ticket, held[s].comm_d) = staged[s]
    /\ unsealed[s] /= NONE => unsealed[s] = staged[s]

\* Spec 4.3: retrying failed calls with identical inputs, and restarting
\* from Staged after clear_cache when Commit1 fails, gets every sector
\* sealed and proven once the (finitely many) failures are over.
EverySectorProven == \A s \in Sectors : <>(post[s] /= NONE)

=============================================================================
