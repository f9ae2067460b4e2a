--------------------------- MODULE MCSealPipeline ---------------------------
(* Model-checking instances of SealPipeline.                                *)
(*  - MCSealPipeline.cfg: one sector, two tickets: PreCommit1 rerun under  *)
(*    another ticket, stale phase-1 outputs, aborted and retried           *)
(*    PreCommit2, clear_cache, fauxrep and fauxrep2.                        *)
(*  - MCSealPipelineRetry.cfg: one sector, one ticket, two contents: a     *)
(*    PreCommit2 retried with the phase-1 output of a successful one.      *)
(*  - MCSealPipelineTrust.cfg: one sector, one ticket, one content: a      *)
(*    PreCommit2 killed after it persisted p_aux.                          *)
EXTENDS SealPipeline, TLC

CONSTANTS s1, s2, t1, t2, e1, d1, d2

OneSector    == {s1}
TwoSectors   == {s1, s2}
OneTicket    == {t1}
TwoTickets   == {t1, t2}
OneSeed      == {e1}
OneContent   == {d1}
TwoContents  == {d1, d2}

\* Sector ids, tickets and contents are only compared for equality.
MCSymmetry == Permutations(TwoSectors) \cup Permutations(TwoTickets)
                \cup Permutations(TwoContents)
====
