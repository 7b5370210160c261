-------------------------- MODULE AttributionLedger --------------------------
(***************************************************************************)
(* What the tracking runtime promises about time, with no event, timer or  *)
(* setting in sight: at most one file holds the present, a hold that ends  *)
(* is written to the ledger up to some instant that has already passed,    *)
(* and nothing in the ledger is ever changed.  ActivityEngine implements   *)
(* it (the comment at src/tracking/activity-engine.ts:8-15).               *)
(***************************************************************************)
EXTENDS Integers, Sequences

CONSTANTS Files, Reasons, None

VARIABLES clock,    \* present instant
          holder,   \* the file that holds the present and since when, or None
          ledger    \* the written holds, oldest first

ledgerVars == <<clock, holder, ledger>>

LedgerInit == clock = 0 /\ holder = None /\ ledger = <<>>

Pass ==
  /\ clock' = clock + 1
  /\ UNCHANGED <<holder, ledger>>

\* Nobody held the present; a file takes it from now on.
Take ==
  /\ holder = None
  /\ \E f \in Files : holder' = [file |-> f, from |-> clock]
  /\ UNCHANGED <<clock, ledger>>

\* The hold ends now; it is written up to an instant already past, and the
\* part after that instant is given up (all of it, when nothing is written).
\* Another file may take over at once.
Release ==
  /\ holder # None
  /\ \/ \E to \in holder.from .. clock, count \in 0 .. 1, why \in Reasons :
          ledger' = Append(ledger, [file |-> holder.file, from |-> holder.from,
                                    to |-> to, openCount |-> count, reason |-> why])
     \/ ledger' = ledger
  /\ \/ holder' = None
     \/ \E f \in Files : f # holder.file /\ holder' = [file |-> f, from |-> clock]
  /\ UNCHANGED clock

LedgerNext == Pass \/ Take \/ Release

LedgerSpec == LedgerInit /\ [][LedgerNext]_ledgerVars
=============================================================================
