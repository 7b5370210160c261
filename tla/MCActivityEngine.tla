-------------------------- MODULE MCActivityEngine --------------------------
(***************************************************************************)
(* Small instances of ActivityEngine.                                      *)
(***************************************************************************)
EXTENDS ActivityEngine, TLC

CONSTANTS f1, f2

MCFiles   == {f1, f2}
MCTargets == {[file |-> f, leaf |-> "main"] : f \in MCFiles}
Symmetry  == Permutations(MCFiles)

\* lastFlush only paces checkpoints and out only reports the last step: neither
\* is read by an invariant of the run that uses this view.
Attribution == <<now, state, stopped, settings, open, lastFile, blurred, idleGap,
                 degraded, pending, recent, credited, decided>>

Chosen(on, threshold, limit) ==
  [trackingEnabled |-> on, manuallyPaused |-> FALSE,
   idleThreshold |-> threshold, recoveryLimit |-> limit]

TwoSettings  == {Chosen(TRUE, 1, 1), Chosen(FALSE, 2, 2)}
=============================================================================
