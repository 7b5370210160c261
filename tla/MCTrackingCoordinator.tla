----------------------- MODULE MCTrackingCoordinator -----------------------
(***************************************************************************)
(* Small instances of TrackingCoordinator.                                 *)
(***************************************************************************)
EXTENDS TrackingCoordinator, TLC

CONSTANTS f1, f2

MCFiles   == {f1, f2}
MCTargets == {[file |-> f, leaf |-> "main"] : f \in MCFiles}
Symmetry  == Permutations(MCFiles)

Chosen(on, threshold, limit) ==
  [trackingEnabled |-> on, manuallyPaused |-> FALSE,
   idleThreshold |-> threshold, recoveryLimit |-> limit]

ShortIdle   == {Chosen(TRUE, 1, 2)}

\* What happened before the present is read through the log, and counted.
Durability == <<now, state, stopped, settings, open, lastFile, blurred, idleGap,
                degraded, lastFlush, pending, recent, Len(credited), Len(decided),
                hostVars, queue, resolving, durableVars>>
=============================================================================
