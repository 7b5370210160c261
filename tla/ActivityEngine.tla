--------------------------- MODULE ActivityEngine ---------------------------
(***************************************************************************)
(* The pure tracking state machine of src/tracking/activity-engine.ts with *)
(* its recovery queue (src/tracking/recovery-queue.ts).                    *)
(*                                                                         *)
(* The engine turns clock-sampled inputs into closed session segments and  *)
(* recovery decisions.  Every handler takes the sample the caller gives it *)
(* (`s`), so that the coordinator, which may hold a sample across an await,*)
(* uses the very same actions.  Here, in Spec, every input carries the     *)
(* sample taken when it happens: s = now.                                  *)
(*                                                                         *)
(* Wall and monotonic time are one clock (no clock adjustment); windows,   *)
(* paths, editing bursts, stateReason and published wording are abstracted.*)
(***************************************************************************)
EXTENDS Integers, Sequences, Functions

CONSTANTS
  Files,            \* stable file identities
  Targets,          \* what can be in the foreground: a file shown in a leaf
  SettingsChoices,  \* the settings the repository can hand to the engine
  UndoWindow,       \* AUTO_EXCLUSION_UNDO_MS
  MaxRecent,        \* MAX_RECENT_DECISIONS
  FlushFloor,       \* the 5 s lower bound of the live checkpoint interval
  FlushCeiling,     \* MAX_LIVE_CHECKPOINT_INTERVAL_MS
  HeartbeatGap,     \* the heartbeat interval the host schedules
  Horizon,          \* bound: the clock stops here
  MaxSegments,      \* bound: emitted segments
  MaxDecisions,     \* bound: emitted decisions
  None              \* null

(***************************************************************************)
(* Values                                                                  *)
(***************************************************************************)
States  == {"stopped", "untrackable", "active", "idle", "paused", "degraded"}
Reasons == {"file-switch", "blur", "idle", "sleep", "pause", "shutdown",
            "untrackable", "degraded"}
Session == [target: Targets, started: Nat, lastTrusted: Nat, openCount: 0 .. 1]
Segment == [file: Files, from: Nat, to: Nat, openCount: 0 .. 1, reason: Reasons]

\* A candidate is named after its file and the last trusted instant.
CandidateId == [file: Files, from: Nat]
Entry       == [to: Nat, undoUntil: Nat \cup {None}, resolved: BOOLEAN]
Decision    == [id: CandidateId, kind: {"include", "exclude"}, delta: Nat,
                automatic: BOOLEAN]

Settings == [trackingEnabled: BOOLEAN, manuallyPaused: BOOLEAN,
             idleThreshold: Nat, recoveryLimit: Nat]

ASSUME ConstantsAssumption ==
  /\ Targets # {}
  /\ \A t \in Targets : t.file \in Files
  /\ SettingsChoices # {} /\ SettingsChoices \subseteq Settings
  /\ UndoWindow \in Nat /\ FlushFloor \in Nat /\ FlushCeiling \in Nat
  /\ HeartbeatGap \in Nat /\ Horizon \in Nat
  /\ MaxRecent \in Nat \ {0} /\ MaxSegments \in Nat /\ MaxDecisions \in Nat

\* pause() never reaches the repository: what it hands back is not paused.
ASSUME PauseIsNotPersisted == \A chosen \in SettingsChoices : ~chosen.manuallyPaused

ASSUME NoneAssumption ==
  /\ None \notin Files /\ None \notin Nat
  /\ None \notin Session /\ None \notin Segment
  /\ None \notin CandidateId /\ None \notin Decision

VARIABLES
  now,          \* the injected clock
  state,        \* RuntimeStateName
  stopped,
  settings,
  open,         \* the open session, or None
  lastFile,     \* file of lastTarget, or None
  blurred,
  idleGap,      \* the closed session's file and last trusted sample, or None
  degraded,     \* degradedReason # null
  lastFlush,    \* lastCheckpointMonotonicMs
  pending,      \* RecoveryQueue.pending: candidate id -> entry
  recent,       \* RecoveryQueue.recentDecisions
  credited,     \* every segment handed to onEmit, in order
  decided,      \* every decision handed to onEmit, in order
  out           \* the callbacks of the last step

engineVars == <<state, stopped, settings, open, lastFile, blurred, idleGap,
                degraded, lastFlush, pending, recent, credited, decided, out>>
vars == <<now, engineVars>>

Silent == [segment |-> None, decision |-> None, flush |-> FALSE]

(***************************************************************************)
(* Reading the state                                                       *)
(***************************************************************************)
CanTrack == settings.trackingEnabled /\ ~settings.manuallyPaused

\* Interval between two live checkpoints of a session that stays open.
FlushInterval ==
  LET half  == settings.idleThreshold \div 2
      least == IF half < FlushFloor THEN FlushFloor ELSE half
  IN  IF least > FlushCeiling THEN FlushCeiling ELSE least

PendingCandidates ==
  {id \in DOMAIN pending : ~pending[id].resolved /\ pending[id].undoUntil = None}

\* Mutant: any focus after a blur continues the visit, whatever the file.
OpenCountAfterAnyBlur(t) == IF blurred THEN 0 ELSE 1

\* A same-file focus after a blur continues the visit and is not a new opening.
OpenCountFor(t) == IF blurred /\ lastFile = t.file THEN 0 ELSE 1

\* The segment a close at s emits; a zero-length session that carries no
\* opening is dropped.
ClosedAt(s, reason) ==
  IF s <= open.started /\ open.openCount = 0
  THEN None
  ELSE [file |-> open.target.file, from |-> open.started, to |-> s,
        openCount |-> open.openCount, reason |-> reason]

\* The part of the open session nobody vouched for starts at the last trusted
\* instant.
TrailingGapFromStart == [file |-> open.target.file, from |-> open.started]  \* Mutant
TrailingGap == [file |-> open.target.file, from |-> open.lastTrusted]

With(seq, x) == IF x = None THEN seq ELSE Append(seq, x)

Put(f, k, v) == [x \in DOMAIN f \cup {k} |-> IF x = k THEN v ELSE f[x]]

\* pushDecision: keep the latest MaxRecent decisions.
Remember(d) ==
  LET all == Append(recent, d)
  IN  IF Len(all) > MaxRecent
      THEN SubSeq(all, Len(all) - MaxRecent + 1, Len(all)) ELSE all

UserDecided(id) ==
  \E i \in DOMAIN recent : recent[i].id = id /\ ~recent[i].automatic

\* What a decision adds to the file's time.
DeltaToDecision(id, kind) == IF kind = "include" THEN now - id.from ELSE 0     \* Mutant
Delta(id, kind) == IF kind = "include" THEN pending[id].to - id.from ELSE 0

(***************************************************************************)
(* Session lifecycle                                                       *)
(***************************************************************************)

\* enterState: a new top-level state always flushes a checkpoint.
EnterState(st, s) == state' = st /\ lastFlush' = s

\* The callbacks of the step: at most one segment, then one decision, then a
\* checkpoint of the state the step ends in.
Emit(segment, decision, flush) ==
  /\ credited' = With(credited, segment)
  /\ decided' = With(decided, decision)
  /\ out' = [segment |-> segment, decision |-> decision, flush |-> flush]

OpenSession(s, t, count) ==
  /\ open' = [target |-> t, started |-> s, lastTrusted |-> s, openCount |-> count]
  /\ lastFile' = t.file
  /\ EnterState("active", s)

RefreshActivity(s) ==
  /\ s >= open.lastTrusted
  /\ open' = [open EXCEPT !.lastTrusted = s]
  /\ LET due == lastFlush = None \/ s - lastFlush >= FlushInterval
     IN  /\ lastFlush' = IF due THEN s ELSE lastFlush
         /\ Emit(None, None, due)

\* Mutant: emits the segment and forgets to clear the session.
CloseOpenKept(s, reason) ==
  /\ UNCHANGED open
  /\ Emit(IF open = None THEN None ELSE ClosedAt(s, reason), None, TRUE)

\* Close the open session, if there is one, at s.
CloseOpen(s, reason) ==
  /\ open' = None
  /\ Emit(IF open = None THEN None ELSE ClosedAt(s, reason), None, TRUE)

RecoveryUnchanged == UNCHANGED <<pending, recent>>

AutomaticExclusion(id) ==
  [id |-> id, kind |-> "exclude", delta |-> 0, automatic |-> TRUE]

\* recordAutomaticExclusion of the gap id.from .. s
ExcludeGap(id, s) ==
  /\ pending' = Put(pending, id,
                    [to |-> s, undoUntil |-> s + UndoWindow, resolved |-> TRUE])
  /\ recent' = Remember(AutomaticExclusion(id))

(***************************************************************************)
(* Input handlers.  An early return that changes nothing is a stutter.     *)
(***************************************************************************)
HandleStart(s) ==
  /\ ~stopped
  /\ EnterState(IF CanTrack THEN "untrackable" ELSE "paused", s)
  /\ Emit(None, None, TRUE)
  /\ RecoveryUnchanged
  /\ UNCHANGED <<stopped, settings, open, lastFile, blurred, idleGap, degraded>>

HandleStop(s) ==
  /\ stopped' = TRUE
  /\ CloseOpen(s, "shutdown")
  /\ EnterState("stopped", s)
  /\ RecoveryUnchanged
  /\ UNCHANGED <<settings, lastFile, blurred, idleGap, degraded>>

\* The uncertain gap a resume out of idle has to classify.
ResumesGap(s) == state = "idle" /\ idleGap # None /\ s > idleGap.from

\* Open from nothing: no earlier idle gap to classify.
OpenPlainly(s, t) ==
  /\ ~ResumesGap(s)
  /\ Emit(None, None, TRUE)
  /\ RecoveryUnchanged

\* Open after an ordinary gap the user may still recover.
OpenAfterShortGap(s, t) ==
  /\ ResumesGap(s) /\ s - idleGap.from <= settings.recoveryLimit
  /\ pending' = Put(pending, idleGap, [to |-> s, undoUntil |-> None, resolved |-> FALSE])
  /\ Emit(None, None, TRUE)
  /\ UNCHANGED recent

\* Open after a gap beyond the recovery limit, excluded on the spot.
OpenAfterLongGap(s, t) ==
  /\ ResumesGap(s) /\ s - idleGap.from > settings.recoveryLimit
  /\ ExcludeGap(idleGap, s)
  /\ Emit(None, AutomaticExclusion(idleGap), TRUE)

\* Mutant: opens over the session that is running.
OpenOverSession(s, t) ==
  /\ OpenPlainly(s, t) \/ OpenAfterShortGap(s, t) \/ OpenAfterLongGap(s, t)
  /\ OpenSession(s, t, OpenCountFor(t))
  /\ idleGap' = IF state = "idle" THEN None ELSE idleGap
  /\ blurred' = FALSE

OpenFromNothing(s, t) ==
  /\ open = None
  /\ OpenPlainly(s, t) \/ OpenAfterShortGap(s, t) \/ OpenAfterLongGap(s, t)
  /\ OpenSession(s, t, OpenCountFor(t))
  /\ idleGap' = IF state = "idle" THEN None ELSE idleGap
  /\ blurred' = FALSE

RefreshSameFile(s, t) ==
  /\ open # None /\ open.target.file = t.file
  /\ RefreshActivity(s)
  /\ blurred' = FALSE
  /\ RecoveryUnchanged
  /\ UNCHANGED <<state, lastFile, idleGap>>

SwitchFile(s, t) ==
  /\ open # None /\ open.target.file # t.file
  /\ s >= open.lastTrusted
  /\ OpenSession(s, t, 1)
  /\ Emit(ClosedAt(s, "file-switch"), None, TRUE)
  /\ RecoveryUnchanged
  /\ UNCHANGED <<blurred, idleGap>>

HandleFocusTarget(s, t) ==
  /\ ~stopped /\ CanTrack
  /\ OpenFromNothing(s, t) \/ RefreshSameFile(s, t) \/ SwitchFile(s, t)
  /\ UNCHANGED <<stopped, settings, degraded>>

HandleBlur(s) ==
  /\ ~stopped /\ open # None
  /\ CloseOpen(s, "blur")
  /\ blurred' = TRUE
  /\ EnterState("untrackable", s)
  /\ RecoveryUnchanged
  /\ UNCHANGED <<stopped, settings, lastFile, idleGap, degraded>>

HandleUntrackable(s) ==
  /\ ~stopped
  /\ CloseOpen(s, "untrackable")
  /\ idleGap' = None
  /\ EnterState("untrackable", s)
  /\ RecoveryUnchanged
  /\ UNCHANGED <<stopped, settings, lastFile, blurred, degraded>>

HandleActivity(s) ==
  /\ ~stopped /\ CanTrack /\ open # None
  /\ RefreshActivity(s)
  /\ RecoveryUnchanged
  /\ UNCHANGED <<state, stopped, settings, lastFile, blurred, idleGap, degraded>>

\* Unlike activity, an edit refreshes the session even when tracking was
\* switched off under it.
HandleEdit(s) ==
  /\ ~stopped /\ open # None
  /\ RefreshActivity(s)
  /\ RecoveryUnchanged
  /\ UNCHANGED <<state, stopped, settings, lastFile, blurred, idleGap, degraded>>

\* Mutant: the idle timer is ignored while tracking is switched off.
IdleConfirmIfTracking(s) ==
  /\ ~stopped /\ CanTrack /\ open # None
  /\ CloseOpen(open.lastTrusted, "idle")
  /\ idleGap' = TrailingGap
  /\ EnterState("idle", open.lastTrusted)
  /\ RecoveryUnchanged
  /\ UNCHANGED <<stopped, settings, lastFile, blurred, degraded>>

HandleIdleConfirm(s) ==
  /\ ~stopped /\ open # None
  /\ CloseOpen(open.lastTrusted, "idle")
  /\ idleGap' = TrailingGap
  /\ EnterState("idle", open.lastTrusted)
  /\ RecoveryUnchanged
  /\ UNCHANGED <<stopped, settings, lastFile, blurred, degraded>>

\* A delay far beyond the schedule closes the session as slept; the gap is
\* recorded as excluded only when it is over the recovery limit.
HandleHeartbeat(s, expectedGap) ==
  /\ ~stopped /\ open # None
  /\ LET gap == s - open.lastTrusted
     IN  /\ gap > 2 * expectedGap /\ gap > settings.idleThreshold
         /\ open' = None
         /\ \/ /\ gap > settings.recoveryLimit
               /\ ExcludeGap(TrailingGap, s)
               /\ Emit(ClosedAt(open.lastTrusted, "sleep"),
                       AutomaticExclusion(TrailingGap), TRUE)
            \/ /\ gap <= settings.recoveryLimit
               /\ RecoveryUnchanged
               /\ Emit(ClosedAt(open.lastTrusted, "sleep"), None, TRUE)
         /\ EnterState("idle", open.lastTrusted)
  /\ idleGap' = None
  /\ UNCHANGED <<stopped, settings, lastFile, blurred, degraded>>

HandlePause(s) ==
  /\ ~stopped
  /\ CloseOpen(s, "pause")
  /\ idleGap' = None
  /\ settings' = [settings EXCEPT !.manuallyPaused = TRUE]
  /\ EnterState("paused", s)
  /\ RecoveryUnchanged
  /\ UNCHANGED <<stopped, lastFile, blurred, degraded>>

\* Resume leaves an open session, and an idle gap, where they are.
HandleResume(s) ==
  /\ ~stopped
  /\ settings' = [settings EXCEPT !.manuallyPaused = FALSE]
  /\ EnterState("untrackable", s)
  /\ Emit(None, None, TRUE)
  /\ RecoveryUnchanged
  /\ UNCHANGED <<stopped, open, lastFile, blurred, idleGap, degraded>>

\* The whole settings object is replaced, manuallyPaused included.
HandleSettings(new) ==
  /\ settings' = new
  /\ Emit(None, None, FALSE)
  /\ RecoveryUnchanged
  /\ UNCHANGED <<state, stopped, open, lastFile, blurred, idleGap, degraded, lastFlush>>

\* enterDegraded is called by the coordinator, even after stop.
EnterDegraded(s) ==
  /\ CloseOpen(s, "degraded")
  /\ degraded' = TRUE
  /\ EnterState("degraded", s)
  /\ RecoveryUnchanged
  /\ UNCHANGED <<stopped, settings, lastFile, blurred, idleGap>>

\* resolveRecovery: a candidate the user already decided is left alone; an
\* automatic exclusion may be decided like a pending one.
ResolveRecovery(id, kind, s) ==
  /\ id \in DOMAIN pending
  /\ ~UserDecided(id)
  /\ LET d == [id |-> id, kind |-> kind, automatic |-> FALSE,
               delta |-> Delta(id, kind)]
     IN  recent' = Remember(d) /\ Emit(None, d, TRUE)
  /\ pending' = Put(pending, id,
                    [to |-> pending[id].to, undoUntil |-> None, resolved |-> TRUE])
  /\ lastFlush' = s
  /\ UNCHANGED <<state, stopped, settings, open, lastFile, blurred, idleGap, degraded>>

UndoAutomaticExclusion(id, s) ==
  /\ id \in DOMAIN pending
  /\ pending[id].undoUntil # None /\ s <= pending[id].undoUntil
  /\ pending' = Put(pending, id,
                    [to |-> pending[id].to, undoUntil |-> None, resolved |-> FALSE])
  /\ lastFlush' = s
  /\ Emit(None, None, TRUE)
  /\ UNCHANGED <<state, stopped, settings, open, lastFile, blurred, idleGap,
                 degraded, recent>>

(***************************************************************************)
(* The engine driven by its host, one fresh sample per callback            *)
(***************************************************************************)
Init ==
  /\ now = 0
  /\ state = "stopped" /\ stopped = FALSE
  /\ settings \in SettingsChoices
  /\ open = None /\ lastFile = None /\ blurred = FALSE /\ idleGap = None
  /\ degraded = FALSE /\ lastFlush = None
  /\ pending = <<>> /\ recent = <<>>
  /\ credited = <<>> /\ decided = <<>>
  /\ out = Silent

Tick ==
  /\ now < Horizon
  /\ now' = now + 1
  /\ UNCHANGED engineVars

\* The host registers its listeners and timers in start() only.
Running == state # "stopped"

RoomForRecords == Len(credited) < MaxSegments /\ Len(decided) < MaxDecisions

Start         == state = "stopped" /\ HandleStart(now) /\ UNCHANGED now
Stop          == Running /\ HandleStop(now) /\ UNCHANGED now
FocusTarget   == Running /\ RoomForRecords /\ UNCHANGED now
                 /\ \E t \in Targets : HandleFocusTarget(now, t)
Blur          == Running /\ HandleBlur(now) /\ UNCHANGED now
Untrackable   == Running /\ HandleUntrackable(now) /\ UNCHANGED now
Activity      == Running /\ HandleActivity(now) /\ UNCHANGED now
Edit          == Running /\ HandleEdit(now) /\ UNCHANGED now
Heartbeat     == Running /\ HandleHeartbeat(now, HeartbeatGap) /\ UNCHANGED now
Pause         == Running /\ HandlePause(now) /\ UNCHANGED now
Resume        == Running /\ HandleResume(now) /\ UNCHANGED now
ChangeSettings == Running /\ UNCHANGED now
                  /\ \E new \in SettingsChoices : HandleSettings(new)
Degrade       == Running /\ EnterDegraded(now) /\ UNCHANGED now
Resolve       == Running /\ RoomForRecords /\ UNCHANGED now
                 /\ \E id \in DOMAIN pending, kind \in {"include", "exclude"} :
                       ResolveRecovery(id, kind, now)
Undo          == Running /\ UNCHANGED now
                 /\ \E id \in DOMAIN pending : UndoAutomaticExclusion(id, now)

\* onIdleTimer confirms only an elapsed idle threshold.
IdleTimer ==
  /\ Running /\ open # None
  /\ now - open.lastTrusted >= settings.idleThreshold
  /\ HandleIdleConfirm(now)
  /\ UNCHANGED now

Next ==
  \/ Tick \/ Start \/ Stop \/ FocusTarget \/ Blur \/ Untrackable \/ Activity
  \/ Edit \/ IdleTimer \/ Heartbeat \/ Pause \/ Resume \/ ChangeSettings
  \/ Degrade \/ Resolve \/ Undo

Spec == Init /\ [][Next]_vars

(***************************************************************************)
(* Properties                                                              *)
(***************************************************************************)

\* Every variable has its type.
TypeOK ==
  /\ now \in Nat
  /\ state \in States
  /\ stopped \in BOOLEAN /\ blurred \in BOOLEAN /\ degraded \in BOOLEAN
  /\ settings \in Settings
  /\ open \in Session \cup {None}
  /\ lastFile \in Files \cup {None}
  /\ idleGap \in CandidateId \cup {None}
  /\ lastFlush \in Nat \cup {None}
  /\ DOMAIN pending \subseteq CandidateId
  /\ \A id \in DOMAIN pending : pending[id] \in Entry
  /\ recent \in Seq(Decision)
  /\ credited \in Seq(Segment)
  /\ decided \in Seq(Decision)
  /\ out \in [segment: Segment \cup {None}, decision: Decision \cup {None},
              flush: BOOLEAN]

\* At most one target receives activeMs at any instant (activity-engine.ts:9):
\* emitted segments never overlap, never reach into the future, and the open
\* session starts after everything already credited.
NoOverlap ==
  /\ \A i \in DOMAIN credited :
        /\ credited[i].from <= credited[i].to /\ credited[i].to <= now
        /\ \A j \in DOMAIN credited : i < j => credited[i].to <= credited[j].from
  /\ open # None =>
        /\ open.started <= open.lastTrusted /\ open.lastTrusted <= now
        /\ \A i \in DOMAIN credited : credited[i].to <= open.started

\* A recoverable gap is time nobody was credited with: including a candidate
\* can never count an instant twice, and two candidates never share one
\* (recovery-queue.ts:8-15; every path that closes, opens and excludes).
GapsOutsideCredit ==
  \A id \in DOMAIN pending :
    /\ id.from < pending[id].to /\ pending[id].to <= now
    /\ open # None => pending[id].to <= open.started
    /\ \A i \in DOMAIN credited :
          credited[i].to <= id.from \/ pending[id].to <= credited[i].from
    /\ \A other \in DOMAIN pending \ {id} :
          pending[other].to <= id.from \/ pending[id].to <= other.from

\* A session without an opening of its own continues the visit that a window
\* blur interrupted: the segment before it is of the same file and ended in
\* that blur (activity-engine.ts:13-14).
RefocusContinuesVisit ==
  \A i \in DOMAIN credited :
    credited[i].openCount = 0 =>
      /\ i > 1
      /\ credited[i - 1].file = credited[i].file
      /\ credited[i - 1].reason = "blur"

\* A pause, however it was reached, leaves no session running under it, and
\* neither does idle, degraded or stopped (ARCHITECTURE.md:222-227).
PausedHoldsNoSession ==
  /\ settings.manuallyPaused => open = None
  /\ state \in {"paused", "idle", "degraded", "stopped"} => open = None
  /\ state = "active" => open # None

\* The time that segments hand out, that decisions add back, and that is
\* recoverable, whether decided or not.
EarnedTime ==
  SumFunction([i \in DOMAIN credited |-> credited[i].to - credited[i].from])
IncludedTime ==
  SumFunction([i \in DOMAIN decided |-> decided[i].delta])
RecoverableTime ==
  SumFunction([id \in DOMAIN pending |-> pending[id].to - id.from])

\* Credited time plus time the user added back, plus what the open session has
\* earned so far, never exceeds what elapsed: no include counts a gap twice
\* (recovery-queue.ts:219-252).  As long as no decision left `recent`.
AttributedWithinElapsed ==
  LET running == IF open = None THEN 0 ELSE open.lastTrusted - open.started
  IN  EarnedTime + IncludedTime + running <= now

\* What the properties above rest on: an idle gap starts after all credit and
\* after every recoverable gap; a blur leaves the visit it interrupted last in
\* the record, until the next session starts.
IdleGapFollowsCredit ==
  state = "idle" /\ idleGap # None =>
    /\ idleGap.from <= now
    /\ \A i \in DOMAIN credited : credited[i].to <= idleGap.from
    /\ \A id \in DOMAIN pending : pending[id].to <= idleGap.from

BlurredVisitIsLast ==
  /\ open # None => ~blurred /\ lastFile = open.target.file
  /\ blurred \/ (open # None /\ open.openCount = 0) =>
        /\ Len(credited) > 0
        /\ credited[Len(credited)].file = lastFile
        /\ credited[Len(credited)].reason = "blur"

\* The inductive invariant of the engine.
EngineInv ==
  /\ TypeOK /\ NoOverlap /\ GapsOutsideCredit /\ RefocusContinuesVisit
  /\ PausedHoldsNoSession /\ IdleGapFollowsCredit /\ BlurredVisitIsLast

\* A session whose file falls silent for the idle threshold is closed or
\* touched again: the idle timer never leaves it running.
SilenceEnds ==
  (open # None /\ now - open.lastTrusted >= settings.idleThreshold)
    ~> (open = None \/ now - open.lastTrusted < settings.idleThreshold)

\* setInterval keeps calling the idle timer for as long as the plugin runs.
FairSpec == Spec /\ WF_vars(IdleTimer)

(***************************************************************************)
(* Refinement: the file that holds the present is the open session's.      *)
(***************************************************************************)
Holder == IF open = None THEN None
          ELSE [file |-> open.target.file, from |-> open.started]

Ledger == INSTANCE AttributionLedger
            WITH clock <- now, holder <- Holder, ledger <- credited

\* The engine implements the ledger: one holder at a time, written once.
ImplementsLedger == Ledger!LedgerSpec
=============================================================================
