--------------------------- MODULE TrackingProofs ---------------------------
(***************************************************************************)
(* The first part says what the activity engine guarantees for every       *)
(* number of files, every settings range and every history of inputs; the  *)
(* second what the coordinator guarantees about checkpoint.json and the    *)
(* record log, for all targets, settings, queue lengths and histories.     *)
(*                                                                         *)
(* There the queue is read as a chain of checkpoints, from the one on disk *)
(* to the last one waiting: the last describes the engine, and whatever    *)
(* session one of them names and a later one does not has its record in    *)
(* the log or in the queue ahead of the later one; the same of the         *)
(* candidates they hold and the decisions on them.  The operators take     *)
(* the queue, the log and the file as arguments, so that a step can be     *)
(* taken apart: first the head leaves, then the engine's callbacks join.   *)
(***************************************************************************)
EXTENDS TrackingCoordinator, SumTheorems, SequenceTheorems, TLAPS

-----------------------------------------------------------------------------
(*                              The engine                                 *)


-----------------------------------------------------------------------------
(* Lemmas about the helpers.                                               *)

\* With keeps a typed sequence typed.
LEMMA WithType ==
  ASSUME NEW S, NEW seq \in Seq(S), NEW x \in S \cup {None}
  PROVE  With(seq, x) \in Seq(S)
  BY DEF With

\* What With appends, and that it appends nothing else.
LEMMA WithElements ==
  ASSUME NEW S, NEW seq \in Seq(S), NEW x \in S, x # None
  PROVE  /\ Len(With(seq, x)) = Len(seq) + 1
         /\ \A i \in 1 .. Len(seq) : With(seq, x)[i] = seq[i]
         /\ With(seq, x)[Len(seq) + 1] = x
  BY DEF With

\* Put keeps a table of entries a table of entries.
LEMMA PutType ==
  ASSUME NEW f, DOMAIN f \subseteq CandidateId, \A k \in DOMAIN f : f[k] \in Entry,
         NEW id \in CandidateId, NEW e \in Entry
  PROVE  /\ DOMAIN Put(f, id, e) \subseteq CandidateId
         /\ \A k \in DOMAIN Put(f, id, e) : Put(f, id, e)[k] \in Entry
  BY DEF Put

\* The recent decisions stay decisions when one is remembered.
LEMMA RememberType ==
  ASSUME recent \in Seq(Decision), NEW d \in Decision
  PROVE  Remember(d) \in Seq(Decision)
<1> DEFINE all == Append(recent, d)
<1>1. all \in Seq(Decision)
  OBVIOUS
<1>2. CASE Len(all) > MaxRecent
  <2>1. Len(all) - MaxRecent + 1 \in 1 .. Len(all) + 1
    BY <1>1, <1>2, ConstantsAssumption
  <2>2. SubSeq(all, Len(all) - MaxRecent + 1, Len(all)) \in Seq(Decision)
    BY <1>1, <2>1, SubSeqProperties
  <2> QED
    BY <1>2, <2>2 DEF Remember
<1>3. CASE ~(Len(all) > MaxRecent)
  BY <1>1, <1>3 DEF Remember
<1> QED
  BY <1>2, <1>3

\* A close at or after the session's start emits a segment of the right type.
LEMMA ClosedAtType ==
  ASSUME open \in Session, NEW s \in Nat, NEW reason \in Reasons
  PROVE  ClosedAt(s, reason) \in Segment \cup {None}
  BY ConstantsAssumption DEF ClosedAt, Session, Segment

\* An automatic exclusion of a named gap is a decision.
LEMMA AutomaticExclusionType ==
  ASSUME NEW id \in CandidateId
  PROVE  AutomaticExclusion(id) \in Decision
  BY DEF AutomaticExclusion, Decision

\* One step's callbacks keep the emitted evidence typed.
LEMMA EmitType ==
  ASSUME TypeOK, NEW seg \in Segment \cup {None}, NEW d \in Decision \cup {None},
         NEW fl \in BOOLEAN, Emit(seg, d, fl)
  PROVE  /\ credited' \in Seq(Segment) /\ decided' \in Seq(Decision)
         /\ out' \in [segment: Segment \cup {None}, decision: Decision \cup {None},
                      flush: BOOLEAN]
<1>1. credited' = With(credited, seg) /\ decided' = With(decided, d)
      /\ out' = [segment |-> seg, decision |-> d, flush |-> fl]
  BY DEF Emit
<1>2. credited \in Seq(Segment) /\ decided \in Seq(Decision)
  BY DEF TypeOK
<1> QED
  BY <1>1, <1>2, WithType

-----------------------------------------------------------------------------
(* Type correctness.                                                       *)

\* The parts of TypeOK a session close disturbs.
LEMMA CloseOpenType ==
  ASSUME TypeOK, NEW s \in Nat, NEW reason \in Reasons, CloseOpen(s, reason)
  PROVE  /\ open' = None
         /\ credited' \in Seq(Segment) /\ decided' \in Seq(Decision)
         /\ out' \in [segment: Segment \cup {None}, decision: Decision \cup {None},
                      flush: BOOLEAN]
<1> DEFINE seg == IF open = None THEN None ELSE ClosedAt(s, reason)
<1>1. seg \in Segment \cup {None}
  BY ClosedAtType DEF TypeOK
<1>2. open' = None /\ Emit(seg, None, TRUE)
  BY DEF CloseOpen
<1> QED
  BY <1>1, <1>2, EmitType

\* A refresh at a later sample keeps the session and the flush time typed.
LEMMA RefreshType ==
  ASSUME TypeOK, open # None, NEW s \in Nat, RefreshActivity(s)
  PROVE  /\ open' \in Session \cup {None} /\ lastFlush' \in Nat \cup {None}
         /\ credited' \in Seq(Segment) /\ decided' \in Seq(Decision)
         /\ out' \in [segment: Segment \cup {None}, decision: Decision \cup {None},
                      flush: BOOLEAN]
<1> DEFINE due == lastFlush = None \/ s - lastFlush >= FlushInterval
<1>1. Emit(None, None, due)
  BY DEF RefreshActivity
<1>2. due \in BOOLEAN
  OBVIOUS
<1>3. open' \in Session \cup {None} /\ lastFlush' \in Nat \cup {None}
  BY DEF RefreshActivity, TypeOK, Session
<1> QED
  BY <1>1, <1>2, <1>3, EmitType

\* Recording an excluded gap keeps the recovery queue typed.
LEMMA ExcludeGapType ==
  ASSUME TypeOK, NEW id \in CandidateId, NEW s \in Nat, ExcludeGap(id, s)
  PROVE  /\ DOMAIN pending' \subseteq CandidateId
         /\ \A k \in DOMAIN pending' : pending'[k] \in Entry
         /\ recent' \in Seq(Decision)
<1>1. [to |-> s, undoUntil |-> s + UndoWindow, resolved |-> TRUE] \in Entry
  BY ConstantsAssumption DEF Entry
<1>2. recent' \in Seq(Decision)
  BY RememberType, AutomaticExclusionType DEF ExcludeGap, TypeOK
<1> QED
  BY <1>1, <1>2, PutType DEF ExcludeGap, TypeOK

\* Opening a session, with or without an earlier gap, keeps the types.
LEMMA OpenFromNothingType ==
  ASSUME TypeOK, NEW s \in Nat, NEW t \in Targets, OpenFromNothing(s, t)
  PROVE  /\ DOMAIN pending' \subseteq CandidateId
         /\ \A k \in DOMAIN pending' : pending'[k] \in Entry
         /\ recent' \in Seq(Decision)
         /\ credited' \in Seq(Segment) /\ decided' \in Seq(Decision)
         /\ out' \in [segment: Segment \cup {None}, decision: Decision \cup {None},
                      flush: BOOLEAN]
<1>1. CASE OpenPlainly(s, t)
  BY <1>1, EmitType DEF OpenPlainly, RecoveryUnchanged, TypeOK
<1>2. CASE OpenAfterShortGap(s, t)
  <2>1. idleGap \in CandidateId
    BY <1>2 DEF OpenAfterShortGap, ResumesGap, TypeOK
  <2>2. [to |-> s, undoUntil |-> None, resolved |-> FALSE] \in Entry
    BY DEF Entry
  <2> QED
    BY <1>2, <2>1, <2>2, PutType, EmitType DEF OpenAfterShortGap, TypeOK
<1>3. CASE OpenAfterLongGap(s, t)
  <2>1. idleGap \in CandidateId
    BY <1>3 DEF OpenAfterLongGap, ResumesGap, TypeOK
  <2> QED
    BY <1>3, <2>1, ExcludeGapType, EmitType, AutomaticExclusionType DEF OpenAfterLongGap
<1> QED
  BY <1>1, <1>2, <1>3 DEF OpenFromNothing

\* A session opened at a sample is a session.
LEMMA OpenSessionType ==
  ASSUME TypeOK, NEW s \in Nat, NEW t \in Targets, NEW count \in 0 .. 1,
         OpenSession(s, t, count)
  PROVE  /\ open' \in Session /\ lastFile' \in Files
         /\ state' = "active" /\ lastFlush' = s
  BY ConstantsAssumption DEF OpenSession, EnterState, Session

\* Whatever a focus target leads to (open, refresh, switch) keeps the types.
LEMMA HandleFocusTargetType ==
  ASSUME TypeOK, UNCHANGED now, NEW t \in Targets, HandleFocusTarget(now, t)
  PROVE  TypeOK'
<1> USE DEF HandleFocusTarget
<1>1. CASE OpenFromNothing(now, t)
  <2>1. OpenCountFor(t) \in 0 .. 1
    BY DEF OpenCountFor
  <2>2. /\ open' \in Session /\ lastFile' \in Files
        /\ state' = "active" /\ lastFlush' = now
    BY <1>1, <2>1, OpenSessionType DEF OpenFromNothing, TypeOK
  <2> QED
    BY <1>1, <2>2, OpenFromNothingType DEF OpenFromNothing, TypeOK, States
<1>2. CASE RefreshSameFile(now, t)
  BY <1>2, RefreshType DEF RefreshSameFile, RecoveryUnchanged, TypeOK
<1>3. CASE SwitchFile(now, t)
  <2>1. ClosedAt(now, "file-switch") \in Segment \cup {None}
    BY <1>3, ClosedAtType DEF SwitchFile, TypeOK, Reasons
  <2>2. /\ open' \in Session /\ lastFile' \in Files
        /\ state' = "active" /\ lastFlush' = now
    BY <1>3, OpenSessionType DEF SwitchFile, TypeOK
  <2> QED
    BY <1>3, <2>1, <2>2, EmitType DEF SwitchFile, RecoveryUnchanged, TypeOK, States
<1> QED
  BY <1>1, <1>2, <1>3

\* A heartbeat that finds the machine slept keeps the types.
LEMMA HandleHeartbeatType ==
  ASSUME TypeOK, UNCHANGED now, HandleHeartbeat(now, HeartbeatGap)
  PROVE  TypeOK'
<1> DEFINE id == TrailingGap
           seg == ClosedAt(open.lastTrusted, "sleep")
<1>1. open \in Session /\ open.lastTrusted \in Nat
  BY DEF HandleHeartbeat, TypeOK, Session
<1>2. id \in CandidateId
  BY <1>1, ConstantsAssumption DEF TrailingGap, CandidateId, Session
<1>3. seg \in Segment \cup {None}
  BY <1>1, ClosedAtType DEF Reasons
<1>4. /\ DOMAIN pending' \subseteq CandidateId
      /\ \A k \in DOMAIN pending' : pending'[k] \in Entry
      /\ recent' \in Seq(Decision)
      /\ credited' \in Seq(Segment) /\ decided' \in Seq(Decision)
      /\ out' \in [segment: Segment \cup {None}, decision: Decision \cup {None},
                   flush: BOOLEAN]
  <2>1. CASE ExcludeGap(id, now) /\ Emit(seg, AutomaticExclusion(id), TRUE)
    <3>1. now \in Nat
      BY DEF TypeOK
    <3>2. /\ DOMAIN pending' \subseteq CandidateId
          /\ \A k \in DOMAIN pending' : pending'[k] \in Entry
          /\ recent' \in Seq(Decision)
      BY <2>1, <3>1, <1>2, ExcludeGapType
    <3>3. AutomaticExclusion(id) \in Decision
      BY <1>2, AutomaticExclusionType
    <3> HIDE DEF id, seg
    <3> QED
      BY <2>1, <3>2, <3>3, <1>3, EmitType
  <2>2. CASE RecoveryUnchanged /\ Emit(seg, None, TRUE)
    <3> HIDE DEF seg
    <3> QED
      BY <2>2, <1>3, EmitType DEF RecoveryUnchanged, TypeOK
  <2> QED
    BY <2>1, <2>2 DEF HandleHeartbeat
<1> QED
  BY <1>1, <1>4 DEF HandleHeartbeat, EnterState, TypeOK, States

\* A recoverable gap has a positive length.
GapsForward == \A id \in DOMAIN pending : id.from < pending[id].to

\* Every input, in every state of the right type, leads to one.  An included
\* gap needs a length that is not negative.
LEMMA TypeStep == TypeOK /\ GapsForward /\ [Next]_vars => TypeOK'
<1> SUFFICES ASSUME TypeOK, GapsForward, [Next]_vars PROVE TypeOK'
  OBVIOUS
<1>0. now \in Nat
  BY DEF TypeOK
<1>1. CASE Tick
  BY <1>1 DEF Tick, engineVars, TypeOK
<1>2. CASE Start
  BY <1>2, EmitType DEF Start, HandleStart, EnterState, RecoveryUnchanged, TypeOK, States
<1>3. CASE Stop
  BY <1>3, CloseOpenType
     DEF Stop, HandleStop, EnterState, RecoveryUnchanged, TypeOK, States, Reasons
<1>4. CASE FocusTarget
  BY <1>4, HandleFocusTargetType DEF FocusTarget
<1>5. CASE Blur
  BY <1>5, CloseOpenType
     DEF Blur, HandleBlur, EnterState, RecoveryUnchanged, TypeOK, States, Reasons
<1>6. CASE Untrackable
  BY <1>6, CloseOpenType
     DEF Untrackable, HandleUntrackable, EnterState, RecoveryUnchanged, TypeOK, States,
         Reasons
<1>7. CASE Activity
  BY <1>7, RefreshType DEF Activity, HandleActivity, RecoveryUnchanged, TypeOK
<1>8. CASE Edit
  BY <1>8, RefreshType DEF Edit, HandleEdit, RecoveryUnchanged, TypeOK
<1>9. CASE IdleTimer
  <2>1. open.lastTrusted \in Nat /\ open.target.file \in Files
    BY <1>9, ConstantsAssumption DEF IdleTimer, TypeOK, Session
  <2> QED
    BY <1>9, <2>1, CloseOpenType
       DEF IdleTimer, HandleIdleConfirm, EnterState, RecoveryUnchanged, TypeOK, States,
           Reasons, CandidateId, TrailingGap
<1>10. CASE Heartbeat
  BY <1>10, HandleHeartbeatType DEF Heartbeat
<1>11. CASE Pause
  BY <1>11, CloseOpenType
     DEF Pause, HandlePause, EnterState, RecoveryUnchanged, TypeOK, States, Reasons,
         Settings
<1>12. CASE Resume
  BY <1>12, EmitType
     DEF Resume, HandleResume, EnterState, RecoveryUnchanged, TypeOK, States, Settings
<1>13. CASE ChangeSettings
  BY <1>13, EmitType, ConstantsAssumption
     DEF ChangeSettings, HandleSettings, RecoveryUnchanged, TypeOK
<1>14. CASE Degrade
  BY <1>14, CloseOpenType
     DEF Degrade, EnterDegraded, EnterState, RecoveryUnchanged, TypeOK, States, Reasons
<1>15. CASE Resolve
  <2>1. PICK id \in DOMAIN pending, kind \in {"include", "exclude"} :
          ResolveRecovery(id, kind, now)
    BY <1>15 DEF Resolve
  <2> DEFINE delta == Delta(id, kind)
             d == [id |-> id, kind |-> kind, automatic |-> FALSE, delta |-> delta]
  <2>2. id \in CandidateId /\ pending[id] \in Entry
    BY DEF TypeOK
  <2>3. delta \in Nat
    BY <2>2 DEF Delta, CandidateId, Entry, GapsForward
  <2>4. d \in Decision
    BY <2>2, <2>3 DEF Decision
  <2>5. [to |-> pending[id].to, undoUntil |-> None, resolved |-> TRUE] \in Entry
    BY <2>2 DEF Entry
  <2>6. recent' \in Seq(Decision)
    BY <2>1, <2>4, RememberType DEF ResolveRecovery, TypeOK
  <2>7. /\ credited' \in Seq(Segment) /\ decided' \in Seq(Decision)
        /\ out' \in [segment: Segment \cup {None}, decision: Decision \cup {None},
                     flush: BOOLEAN]
    BY <2>1, <2>4, EmitType DEF ResolveRecovery
  <2>8. /\ DOMAIN pending' \subseteq CandidateId
        /\ \A k \in DOMAIN pending' : pending'[k] \in Entry
    BY <2>1, <2>2, <2>5, PutType DEF ResolveRecovery, TypeOK
  <2> QED
    BY <1>15, <2>1, <2>6, <2>7, <2>8 DEF Resolve, ResolveRecovery, TypeOK
<1>16. CASE Undo
  <2>1. PICK id \in DOMAIN pending : UndoAutomaticExclusion(id, now)
    BY <1>16 DEF Undo
  <2>2. [to |-> pending[id].to, undoUntil |-> None, resolved |-> FALSE] \in Entry
    BY DEF TypeOK, Entry
  <2> QED
    BY <1>16, <2>1, <2>2, PutType, EmitType
       DEF Undo, UndoAutomaticExclusion, TypeOK
<1>17. CASE UNCHANGED vars
  BY <1>17 DEF vars, engineVars, TypeOK
<1> QED
  BY <1>1, <1>2, <1>3, <1>4, <1>5, <1>6, <1>7, <1>8, <1>9, <1>10, <1>11, <1>12,
     <1>13, <1>14, <1>15, <1>16, <1>17 DEF Next

-----------------------------------------------------------------------------
(* The shape of a step, as far as time is concerned.                       *)

\* Nothing is credited and the session, if any, is left alone.
Kept == /\ open' = open /\ credited' = credited /\ UNCHANGED <<lastFile, blurred>>
        /\ now \in Nat /\ now' \in {now, now + 1}

\* The open session is trusted up to now.
Touched == /\ open # None /\ now' = now /\ credited' = credited
           /\ open' = [open EXCEPT !.lastTrusted = now]
           /\ lastFile' = lastFile /\ (blurred' => blurred)

\* A session that starts now.
Fresh(t, count) ==
  [target |-> t, started |-> now, lastTrusted |-> now, openCount |-> count]

Opened(t) == /\ open = None /\ now' = now /\ credited' = credited
             /\ open' = Fresh(t, OpenCountFor(t)) /\ lastFile' = t.file /\ ~blurred'

\* The open session is credited up to s; another one may start now.
Closed(s, reason) ==
  /\ open # None /\ now' = now
  /\ credited' = With(credited, ClosedAt(s, reason))
  /\ \/ open' = None /\ lastFile' = lastFile
     \/ \E t \in Targets : /\ t.file # open.target.file
                           /\ open' = Fresh(t, 1) /\ lastFile' = t.file
  /\ blurred' => blurred \/ (reason = "blur" /\ open' = None)

\* A step that emits neither segment nor decision leaves the record alone.
LEMMA NothingEmitted ==
  ASSUME NEW d, NEW fl, Emit(None, d, fl)
  PROVE  credited' = credited
  BY DEF Emit, With

\* A close ends the session and adds at most its own segment.
LEMMA CloseOpenShape ==
  ASSUME NEW s, NEW reason, CloseOpen(s, reason), UNCHANGED <<now, lastFile>>, TypeOK,
         blurred' => blurred \/ (reason = "blur" /\ open # None),
         open = None => UNCHANGED blurred
  PROVE  IF open = None THEN Kept ELSE Closed(s, reason)
  BY NothingEmitted DEF CloseOpen, Emit, Kept, Closed, TypeOK

\* A refresh only moves the last trusted instant of the session forward.
LEMMA RefreshShape ==
  ASSUME RefreshActivity(now), UNCHANGED <<now, lastFile>>, open # None,
         blurred' => blurred
  PROVE  Touched
  BY NothingEmitted DEF RefreshActivity, Touched

\* Every step either leaves the session, extends it, closes it or opens one now.
LEMMA StepShape ==
  ASSUME TypeOK, [Next]_vars
  PROVE  \/ Kept \/ Touched
         \/ \E t \in Targets : Opened(t)
         \/ \E reason \in Reasons : \E s \in {now, open.lastTrusted} : Closed(s, reason)
<1>1. CASE Tick
  BY <1>1 DEF Tick, engineVars, Kept, TypeOK
<1>2. CASE Start
  BY <1>2, NothingEmitted DEF Start, HandleStart, Kept, TypeOK
<1>3. CASE Stop
  BY <1>3, CloseOpenShape DEF Stop, HandleStop, Reasons
<1>4. CASE FocusTarget
  <2>1. PICK t \in Targets : HandleFocusTarget(now, t)
    BY <1>4 DEF FocusTarget
  <2>2. now' = now
    BY <1>4 DEF FocusTarget
  <2>3. CASE OpenFromNothing(now, t)
    BY <2>2, <2>3, NothingEmitted
       DEF OpenFromNothing, OpenPlainly, OpenAfterShortGap, OpenAfterLongGap, OpenSession,
           Opened, Fresh, Emit, With
  <2>4. CASE RefreshSameFile(now, t)
    BY <2>2, <2>4, RefreshShape DEF RefreshSameFile
  <2>5. CASE SwitchFile(now, t)
    BY <2>2, <2>5 DEF SwitchFile, OpenSession, Emit, Closed, Fresh, Reasons
  <2> QED
    BY <2>1, <2>3, <2>4, <2>5 DEF HandleFocusTarget
<1>5. CASE Blur
  BY <1>5, CloseOpenShape DEF Blur, HandleBlur, Reasons
<1>6. CASE Untrackable
  BY <1>6, CloseOpenShape DEF Untrackable, HandleUntrackable, Reasons
<1>7. CASE Activity
  BY <1>7, RefreshShape DEF Activity, HandleActivity
<1>8. CASE Edit
  BY <1>8, RefreshShape DEF Edit, HandleEdit
<1>9. CASE IdleTimer
  BY <1>9, CloseOpenShape DEF IdleTimer, HandleIdleConfirm, Reasons
<1>10. CASE Heartbeat
  <2>1. Closed(open.lastTrusted, "sleep")
    BY <1>10 DEF Heartbeat, HandleHeartbeat, Emit, Closed
  <2> QED
    BY <2>1 DEF Reasons
<1>11. CASE Pause
  BY <1>11, CloseOpenShape DEF Pause, HandlePause, Reasons
<1>12. CASE Resume
  BY <1>12, NothingEmitted DEF Resume, HandleResume, Kept, TypeOK
<1>13. CASE ChangeSettings
  BY <1>13, NothingEmitted DEF ChangeSettings, HandleSettings, Kept, TypeOK
<1>14. CASE Degrade
  BY <1>14, CloseOpenShape DEF Degrade, EnterDegraded, Reasons
<1>15. CASE Resolve
  BY <1>15, NothingEmitted DEF Resolve, ResolveRecovery, Emit, With, Kept, TypeOK
<1>16. CASE Undo
  BY <1>16, NothingEmitted DEF Undo, UndoAutomaticExclusion, Kept, TypeOK
<1>17. CASE UNCHANGED vars
  BY <1>17 DEF vars, engineVars, Kept, TypeOK
<1> QED
  BY <1>1, <1>2, <1>3, <1>4, <1>5, <1>6, <1>7, <1>8, <1>9, <1>10, <1>11, <1>12,
     <1>13, <1>14, <1>15, <1>16, <1>17 DEF Next

-----------------------------------------------------------------------------
(* No instant is credited twice.                                           *)

\* A close emits at most one segment, which fits between the start of the
\* session and the present.
LEMMA ClosedCredit ==
  ASSUME TypeOK, NoOverlap, NEW reason \in Reasons, NEW s \in {now, open.lastTrusted},
         Closed(s, reason)
  PROVE  /\ open \in Session /\ s \in Nat /\ open.started <= s /\ s <= now
         /\ \/ credited' = credited
            \/ /\ credited' = Append(credited, ClosedAt(s, reason))
               /\ ClosedAt(s, reason) =
                    [file |-> open.target.file, from |-> open.started, to |-> s,
                     openCount |-> open.openCount, reason |-> reason]
<1>1. open \in Session /\ now \in Nat
  BY DEF Closed, TypeOK
<1>2. s \in Nat /\ open.started <= s /\ s <= now
  BY <1>1 DEF Closed, NoOverlap, Session
<1> QED
  BY <1>1, <1>2 DEF Closed, With, ClosedAt

\* The instants a credited segment carries.
LEMMA CreditTimes ==
  ASSUME credited \in Seq(Segment)
  PROVE  \A i \in DOMAIN credited : credited[i].from \in Nat /\ credited[i].to \in Nat
<1> TAKE i \in DOMAIN credited
<1>1. credited[i] \in Segment
  OBVIOUS
<1> QED
  BY <1>1 DEF Segment

\* No step credits an instant twice.
LEMMA NoOverlapStep ==
  ASSUME TypeOK, NoOverlap, [Next]_vars
  PROVE  NoOverlap'
<1>0. /\ credited \in Seq(Segment) /\ now \in Nat /\ open \in Session \cup {None}
      /\ \A i \in DOMAIN credited : credited[i].from \in Nat /\ credited[i].to \in Nat
  BY CreditTimes DEF TypeOK
<1>1. CASE Kept
  BY <1>0, <1>1 DEF Kept, NoOverlap, Session
<1>2. CASE Touched
  BY <1>0, <1>2 DEF Touched, NoOverlap, Session
<1>3. ASSUME NEW t \in Targets, Opened(t) PROVE NoOverlap'
  BY <1>0, <1>3 DEF Opened, Fresh, NoOverlap
<1>4. ASSUME NEW reason \in Reasons, NEW s \in {now, open.lastTrusted}, Closed(s, reason)
      PROVE  NoOverlap'
  <2> DEFINE seg == ClosedAt(s, reason)
             Cleared == open' # None => (open').started = now /\ (open').lastTrusted = now
  <2>1. /\ open \in Session /\ s \in Nat /\ open.started <= s /\ s <= now
        /\ \/ credited' = credited
           \/ /\ credited' = Append(credited, seg)
              /\ seg = [file |-> open.target.file, from |-> open.started, to |-> s,
                        openCount |-> open.openCount, reason |-> reason]
    BY <1>4, ClosedCredit
  <2>2. now' = now /\ open # None /\ Cleared
    BY <1>4 DEF Closed, Fresh
  <2>3. CASE credited' = credited
    BY <1>0, <2>2, <2>3 DEF NoOverlap
  <2>4. CASE credited' = Append(credited, seg)
    <3>1. seg.from = open.started /\ seg.to = s /\ open.started \in Nat
      BY <2>1, <2>4, <1>0 DEF Session
    <3>2. /\ DOMAIN credited' = 1 .. Len(credited) + 1
          /\ DOMAIN credited = 1 .. Len(credited) /\ Len(credited) \in Nat
          /\ \A i \in 1 .. Len(credited) : credited'[i] = credited[i]
          /\ credited'[Len(credited) + 1] = seg
      BY <1>0, <2>4
    <3>3. \A i \in 1 .. Len(credited) : credited[i].to <= open.started
      BY <3>2, <2>2 DEF NoOverlap
    <3> HIDE DEF seg
    <3>4. /\ \A i \in 1 .. Len(credited) :
                credited'[i].from <= credited'[i].to /\ credited'[i].to <= now
          /\ \A i, j \in 1 .. Len(credited) :
                i < j => credited'[i].to <= credited'[j].from
      BY <1>0, <3>2 DEF NoOverlap
    <3>5. \A i \in 1 .. Len(credited) : credited'[i].to <= seg.from
      BY <3>1, <3>2, <3>3
    <3>6. seg.from <= seg.to /\ seg.to <= now
      BY <2>1, <3>1
    <3>7. \A i \in DOMAIN credited' :
            credited'[i].from <= credited'[i].to /\ credited'[i].to <= now
      BY <3>2, <3>4, <3>6
    <3>8. \A i, j \in DOMAIN credited' : i < j => credited'[i].to <= credited'[j].from
      <4> SUFFICES ASSUME NEW i \in DOMAIN credited', NEW j \in DOMAIN credited', i < j
                   PROVE  credited'[i].to <= credited'[j].from
        OBVIOUS
      <4>1. i \in 1 .. Len(credited)
        BY <3>2
      <4>2. CASE j \in 1 .. Len(credited)
        BY <3>4, <4>1, <4>2
      <4>3. CASE j = Len(credited) + 1
        BY <3>2, <3>5, <4>1, <4>3
      <4> QED
        BY <3>2, <4>2, <4>3
    <3> QED
      BY <1>0, <2>1, <2>2, <3>7, <3>8 DEF NoOverlap
  <2> QED
    BY <2>1, <2>3, <2>4
<1> QED
  BY <1>1, <1>2, <1>3, <1>4, StepShape

-----------------------------------------------------------------------------
(* A blurred visit, and the opening that continues it.                     *)

\* Both facts about visits together: the second needs the first when the
\* continued session is closed in turn.
LEMMA VisitStep ==
  ASSUME TypeOK, BlurredVisitIsLast, RefocusContinuesVisit, [Next]_vars
  PROVE  BlurredVisitIsLast' /\ RefocusContinuesVisit'
<1>0. /\ credited \in Seq(Segment) /\ blurred \in BOOLEAN /\ lastFile \in Files \cup {None}
      /\ open \in Session \cup {None}
  BY DEF TypeOK
<1>1. CASE Kept
  BY <1>0, <1>1 DEF Kept, BlurredVisitIsLast, RefocusContinuesVisit
<1>2. CASE Touched
  <2>1. /\ open # None /\ (open').openCount = open.openCount
        /\ (open').target = open.target
    BY <1>0, <1>2 DEF Touched, Session
  <2>2. ~blurred /\ ~blurred' /\ lastFile' = lastFile /\ credited' = credited
    BY <1>2, <2>1 DEF Touched, BlurredVisitIsLast
  <2> QED
    BY <2>1, <2>2 DEF BlurredVisitIsLast, RefocusContinuesVisit
<1>3. ASSUME NEW t \in Targets, Opened(t)
      PROVE  BlurredVisitIsLast' /\ RefocusContinuesVisit'
  <2>1. /\ open' = Fresh(t, OpenCountFor(t)) /\ lastFile' = t.file /\ ~blurred'
        /\ credited' = credited
    BY <1>3 DEF Opened
  <2>2. (open').openCount = 0 => blurred /\ lastFile = t.file
    BY <2>1 DEF Fresh, OpenCountFor
  <2>3. (open').target.file = t.file
    BY <2>1 DEF Fresh
  <2> QED
    BY <2>1, <2>2, <2>3 DEF BlurredVisitIsLast, RefocusContinuesVisit
<1>4. ASSUME NEW reason \in Reasons, NEW s \in {now, open.lastTrusted}, Closed(s, reason)
      PROVE  BlurredVisitIsLast' /\ RefocusContinuesVisit'
  <2> DEFINE seg == ClosedAt(s, reason)
  <2>1. open # None /\ open \in Session /\ ~blurred /\ lastFile = open.target.file
    BY <1>0, <1>4 DEF Closed, BlurredVisitIsLast
  <2>2. /\ open' # None => (open').openCount = 1 /\ lastFile' = (open').target.file
        /\ open' = None => lastFile' = lastFile
        /\ blurred' => reason = "blur" /\ open' = None
    <3>1. CASE open' = None /\ lastFile' = lastFile
      BY <1>4, <2>1, <3>1 DEF Closed
    <3>2. ASSUME NEW t \in Targets, open' = Fresh(t, 1), lastFile' = t.file
          PROVE  /\ (open').openCount = 1 /\ lastFile' = (open').target.file
                 /\ open' # None
      <4>1. open' \in Session
        BY <3>2 DEF Fresh, Session, TypeOK
      <4> QED
        BY <3>2, <4>1, NoneAssumption DEF Fresh
    <3> QED
      BY <1>4, <2>1, <3>1, <3>2 DEF Closed
  <2>3. CASE seg = None
    <3>1. credited' = credited
      BY <1>4, <2>3 DEF Closed, With
    <3>2. open.openCount = 0
      <4>1. SUFFICES ASSUME open.openCount # 0 PROVE FALSE
        OBVIOUS
      <4>2. seg = [file |-> open.target.file, from |-> open.started, to |-> s,
                   openCount |-> open.openCount, reason |-> reason]
        BY <4>1 DEF ClosedAt
      <4>3. s \in Nat
        BY <2>1 DEF Session, TypeOK
      <4>4. seg \in Segment
        BY <2>1, <4>2, <4>3, ConstantsAssumption DEF Session, Segment
      <4> QED
        BY <2>3, <4>4, NoneAssumption
    <3> QED
      BY <2>1, <2>2, <3>1, <3>2 DEF BlurredVisitIsLast, RefocusContinuesVisit
  <2>4. CASE seg # None
    <3>1. /\ seg.file = open.target.file /\ seg.openCount = open.openCount
          /\ seg.reason = reason
      BY <2>4 DEF ClosedAt
    <3>2. credited' = Append(credited, seg)
      BY <1>4, <2>4 DEF Closed, With
    <3>3. /\ DOMAIN credited' = 1 .. Len(credited) + 1 /\ Len(credited') = Len(credited) + 1
          /\ DOMAIN credited = 1 .. Len(credited) /\ Len(credited) \in Nat
          /\ \A i \in 1 .. Len(credited) : credited'[i] = credited[i]
          /\ credited'[Len(credited) + 1] = seg
      <4> HIDE DEF seg
      <4> QED
        BY <1>0, <3>2
    <3> HIDE DEF seg
    <3>4. BlurredVisitIsLast'
      BY <2>1, <2>2, <3>1, <3>3 DEF BlurredVisitIsLast
    <3>5. open.openCount = 0 =>
            /\ Len(credited) > 0 /\ credited[Len(credited)].file = open.target.file
            /\ credited[Len(credited)].reason = "blur"
      BY <2>1 DEF BlurredVisitIsLast
    <3>6. RefocusContinuesVisit'
      <4> SUFFICES ASSUME NEW i \in 1 .. Len(credited) + 1, credited'[i].openCount = 0
                   PROVE  /\ i > 1 /\ credited'[i - 1].file = credited'[i].file
                          /\ credited'[i - 1].reason = "blur"
        BY <3>3 DEF RefocusContinuesVisit
      <4>1. CASE i \in 1 .. Len(credited)
        <5>1. i > 1 /\ credited[i - 1].file = credited[i].file /\ credited[i - 1].reason = "blur"
          BY <3>3, <4>1 DEF RefocusContinuesVisit
        <5> QED
          BY <3>3, <4>1, <5>1
      <4>2. CASE i = Len(credited) + 1
        <5>1. i - 1 = Len(credited) /\ credited'[i] = seg
          BY <3>3, <4>2
        <5>2. credited'[i - 1] = credited[Len(credited)] /\ Len(credited) > 0
          BY <3>1, <3>3, <3>5, <5>1
        <5> QED
          BY <3>1, <3>3, <3>5, <5>1, <5>2
      <4> QED
        BY <3>3, <4>1, <4>2
    <3> QED
      BY <3>4, <3>6
  <2> QED
    BY <2>3, <2>4
<1> QED
  BY <1>1, <1>2, <1>3, <1>4, StepShape

-----------------------------------------------------------------------------
(* Only the active states hold a session.                                  *)

\* No step leaves a session running in a state that holds none.
LEMMA PausedStep ==
  ASSUME TypeOK, PausedHoldsNoSession, [Next]_vars
  PROVE  PausedHoldsNoSession'
<1> USE DEF PausedHoldsNoSession, EnterState
<1>1. CASE Tick
  BY <1>1 DEF Tick, engineVars
<1>2. CASE Start
  BY <1>2 DEF Start, HandleStart
<1>3. CASE Stop \/ Blur \/ Untrackable \/ Pause \/ IdleTimer \/ Degrade
  BY <1>3 DEF Stop, Blur, Untrackable, Pause, IdleTimer, Degrade, HandleStop, HandleBlur,
              HandleUntrackable, HandlePause, HandleIdleConfirm, EnterDegraded, CloseOpen
<1>4. CASE FocusTarget
  <2>1. PICK t \in Targets : HandleFocusTarget(now, t)
    BY <1>4 DEF FocusTarget
  <2>2. ~(settings').manuallyPaused
    BY <2>1 DEF HandleFocusTarget, CanTrack
  <2>3. CASE OpenFromNothing(now, t) \/ SwitchFile(now, t)
    <3>1. state' = "active" /\ \E n \in 0 .. 1 : open' = Fresh(t, n)
      <4>1. PICK n \in 0 .. 1 : OpenSession(now, t, n)
        <5>1. OpenFromNothing(now, t) => OpenSession(now, t, OpenCountFor(t))
          BY DEF OpenFromNothing
        <5>2. SwitchFile(now, t) => OpenSession(now, t, 1)
          BY DEF SwitchFile
        <5>3. OpenCountFor(t) \in 0 .. 1 /\ 1 \in 0 .. 1
          BY DEF OpenCountFor
        <5> QED
          BY <2>3, <5>1, <5>2, <5>3
      <4> QED
        BY <4>1 DEF OpenSession, Fresh
    <3>2. open' \in Session
      BY <1>4, <3>1 DEF Fresh, Session, TypeOK
    <3>3. open' # None
      BY <3>2, NoneAssumption
    <3> QED
      BY <2>2, <3>1, <3>3
  <2>4. CASE RefreshSameFile(now, t)
    <3>1. open # None /\ open' \in Session /\ state' = state
      BY <1>4, <2>4 DEF RefreshSameFile, RefreshActivity, TypeOK, Session
    <3>2. open' # None
      BY <3>1, NoneAssumption
    <3> QED
      BY <2>2, <3>1, <3>2
  <2> QED
    BY <2>1, <2>3, <2>4 DEF HandleFocusTarget
<1>5. CASE Activity \/ Edit
  <2>1. open # None /\ open' \in Session /\ state' = state /\ settings' = settings
    BY <1>5 DEF Activity, Edit, HandleActivity, HandleEdit, RefreshActivity, TypeOK, Session
  <2>2. open' # None
    BY <2>1, NoneAssumption
  <2> QED
    BY <2>1, <2>2
<1>6. CASE Heartbeat
  BY <1>6 DEF Heartbeat, HandleHeartbeat
<1>7. CASE Resume
  BY <1>7 DEF Resume, HandleResume, TypeOK, Settings
<1>8. CASE ChangeSettings
  BY <1>8, PauseIsNotPersisted DEF ChangeSettings, HandleSettings
<1>9. CASE Resolve \/ Undo
  BY <1>9 DEF Resolve, Undo, ResolveRecovery, UndoAutomaticExclusion
<1>10. CASE UNCHANGED vars
  BY <1>10 DEF vars, engineVars
<1> QED
  BY <1>1, <1>2, <1>3, <1>4, <1>5, <1>6, <1>7, <1>8, <1>9, <1>10 DEF Next

-----------------------------------------------------------------------------
(* RecoverableTime gaps lie outside credited time.                             *)

GapsKept ==
  /\ DOMAIN pending' = DOMAIN pending
  /\ \A k \in DOMAIN pending : pending'[k].to = pending[k].to

\* The gap from id.from to the present is recoverable from now on.
GapAdded(id) ==
  /\ id \in CandidateId /\ id.from < now
  /\ DOMAIN pending' = DOMAIN pending \cup {id}
  /\ pending'[id].to = now
  /\ \A k \in DOMAIN pending \ {id} : pending'[k].to = pending[k].to

GapAfterIdle ==
  /\ state = "idle" /\ idleGap # None /\ GapAdded(idleGap)
  /\ \E t \in Targets : Opened(t)

GapAfterSleep ==
  /\ GapAdded(TrailingGap)
  /\ Closed(open.lastTrusted, "sleep") /\ open' = None

\* Putting a gap that ends now under its name adds that gap and no other.
LEMMA PutAddsGap ==
  ASSUME NEW id \in CandidateId, id.from < now, NEW e, e.to = now,
         pending' = Put(pending, id, e)
  PROVE  GapAdded(id)
  BY DEF Put, GapAdded

\* Putting a known gap again with the end it had leaves the gaps as they were.
LEMMA PutKeepsGap ==
  ASSUME NEW id \in DOMAIN pending, NEW e, e.to = pending[id].to,
         pending' = Put(pending, id, e)
  PROVE  GapsKept
  BY DEF Put, GapsKept

\* Nothing but an opening out of idle and a sleep close adds a gap.
LEMMA GapShape ==
  ASSUME TypeOK, [Next]_vars
  PROVE  GapsKept \/ GapAfterIdle \/ GapAfterSleep
<1>1. CASE UNCHANGED pending
  BY <1>1 DEF GapsKept
<1>2. CASE FocusTarget
  <2>1. PICK t \in Targets : HandleFocusTarget(now, t)
    BY <1>2 DEF FocusTarget
  <2>2. CASE RefreshSameFile(now, t) \/ SwitchFile(now, t)
    BY <2>2, <1>1 DEF RefreshSameFile, SwitchFile, RecoveryUnchanged
  <2>3. CASE OpenFromNothing(now, t)
    <3>1. ASSUME ResumesGap(now), NEW e, e.to = now, pending' = Put(pending, idleGap, e)
          PROVE  state = "idle" /\ idleGap # None /\ GapAdded(idleGap)
      BY <3>1, PutAddsGap DEF ResumesGap, TypeOK
    <3>2. Opened(t)
      BY <1>2, <2>3, NothingEmitted
         DEF FocusTarget, OpenFromNothing, OpenPlainly, OpenAfterShortGap,
             OpenAfterLongGap, OpenSession, Opened, Fresh, Emit, With
    <3>3. CASE OpenPlainly(now, t)
      BY <3>3, <1>1 DEF OpenPlainly, RecoveryUnchanged
    <3>4. CASE OpenAfterShortGap(now, t)
      <4> DEFINE e == [to |-> now, undoUntil |-> None, resolved |-> FALSE]
      <4>1. ResumesGap(now) /\ e.to = now /\ pending' = Put(pending, idleGap, e)
        BY <3>4 DEF OpenAfterShortGap
      <4> HIDE DEF e
      <4> QED
        BY <4>1, <3>1, <3>2 DEF GapAfterIdle
    <3>5. CASE OpenAfterLongGap(now, t)
      <4> DEFINE e == [to |-> now, undoUntil |-> now + UndoWindow, resolved |-> TRUE]
      <4>1. ResumesGap(now) /\ e.to = now /\ pending' = Put(pending, idleGap, e)
        BY <3>5 DEF OpenAfterLongGap, ExcludeGap
      <4> HIDE DEF e
      <4> QED
        BY <4>1, <3>1, <3>2 DEF GapAfterIdle
    <3> QED
      BY <2>3, <3>3, <3>4, <3>5 DEF OpenFromNothing
  <2> QED
    BY <2>1, <2>2, <2>3 DEF HandleFocusTarget
<1>3. CASE Heartbeat
  <2> DEFINE id == TrailingGap
             e  == [to |-> now, undoUntil |-> now + UndoWindow, resolved |-> TRUE]
  <2>1. Closed(open.lastTrusted, "sleep") /\ open' = None
    BY <1>3 DEF Heartbeat, HandleHeartbeat, Emit, Closed
  <2>2. CASE RecoveryUnchanged
    BY <2>2, <1>1 DEF RecoveryUnchanged
  <2>3. CASE ExcludeGap(id, now)
    <3>1. open \in Session /\ now \in Nat
      BY <1>3 DEF Heartbeat, HandleHeartbeat, TypeOK
    <3>2. now - open.lastTrusted > 2 * HeartbeatGap
      BY <1>3 DEF Heartbeat, HandleHeartbeat
    <3>3. id \in CandidateId /\ id.from < now
      BY <3>1, <3>2, ConstantsAssumption DEF Session, CandidateId, TrailingGap
    <3>4. pending' = Put(pending, id, e) /\ e.to = now
      BY <2>3 DEF ExcludeGap
    <3> HIDE DEF id, e
    <3>5. GapAdded(id)
      BY <3>3, <3>4, PutAddsGap
    <3> USE DEF id
    <3> QED
      BY <2>1, <3>5 DEF GapAfterSleep
  <2> QED
    BY <1>3, <2>2, <2>3 DEF Heartbeat, HandleHeartbeat
<1>4. CASE Resolve
  <2>1. PICK id \in DOMAIN pending, kind \in {"include", "exclude"} :
          ResolveRecovery(id, kind, now)
    BY <1>4 DEF Resolve
  <2>2. pending' = Put(pending, id,
                    [to |-> pending[id].to, undoUntil |-> None, resolved |-> TRUE])
    BY <2>1 DEF ResolveRecovery
  <2> QED
    BY <2>2, PutKeepsGap
<1>5. CASE Undo
  <2>1. PICK id \in DOMAIN pending : UndoAutomaticExclusion(id, now)
    BY <1>5 DEF Undo
  <2>2. pending' = Put(pending, id,
                    [to |-> pending[id].to, undoUntil |-> None, resolved |-> FALSE])
    BY <2>1 DEF UndoAutomaticExclusion
  <2> QED
    BY <2>2, PutKeepsGap
<1>6. CASE \/ Tick \/ Start \/ Stop \/ Blur \/ Untrackable \/ Activity \/ Edit
           \/ IdleTimer \/ Pause \/ Resume \/ ChangeSettings \/ Degrade \/ UNCHANGED vars
  <2>1. UNCHANGED pending
    BY <1>6 DEF Tick, Start, Stop, Blur, Untrackable, Activity, Edit, IdleTimer, Pause,
         Resume, ChangeSettings, Degrade, HandleStart, HandleStop, HandleBlur,
         HandleUntrackable, HandleActivity, HandleEdit, HandleIdleConfirm, HandlePause,
         HandleResume, HandleSettings, EnterDegraded, RecoveryUnchanged, vars, engineVars
  <2> QED
    BY <2>1, <1>1
<1> QED
  BY <1>2, <1>3, <1>4, <1>5, <1>6 DEF Next

\* What has been credited or left recoverable stays before every instant that
\* may be credited next.
LEMMA CreditStep ==
  ASSUME TypeOK, NoOverlap, [Next]_vars
  PROVE  /\ credited' \in Seq(Segment) /\ now \in Nat /\ now' \in Nat /\ now <= now'
         /\ open' # None => (open').started \in {now, open.started}
         /\ open' # None /\ open = None => (open').started = now
         /\ \A i \in DOMAIN credited' :
               \/ i \in DOMAIN credited /\ credited'[i] = credited[i]
               \/ open # None /\ credited'[i].from = open.started
<1>0. credited \in Seq(Segment) /\ now \in Nat /\ open \in Session \cup {None}
  BY DEF TypeOK
<1>1. CASE Kept
  BY <1>0, <1>1 DEF Kept
<1>2. CASE Touched
  BY <1>0, <1>2 DEF Touched, Session
<1>3. ASSUME NEW t \in Targets, Opened(t)
      PROVE  now' = now /\ credited' = credited /\ (open').started = now
  BY <1>3 DEF Opened, Fresh
<1>4. ASSUME NEW reason \in Reasons, NEW s \in {now, open.lastTrusted}, Closed(s, reason)
      PROVE  /\ now' = now /\ open # None /\ (open' # None => (open').started = now)
             /\ credited' \in Seq(Segment)
             /\ \A i \in DOMAIN credited' :
                  \/ i \in DOMAIN credited /\ credited'[i] = credited[i]
                  \/ credited'[i].from = open.started
  <2> DEFINE seg == ClosedAt(s, reason)
  <2>1. now' = now /\ open # None /\ (open' # None => (open').started = now)
    BY <1>4 DEF Closed, Fresh
  <2>2. open \in Session /\ s \in Nat
    BY <1>0, <2>1 DEF Session
  <2>3. CASE credited' = credited
    BY <1>0, <2>1, <2>3
  <2>4. CASE credited' = Append(credited, seg) /\ seg.from = open.started /\ seg \in Segment
    <3> HIDE DEF seg
    <3>1. /\ credited' \in Seq(Segment) /\ DOMAIN credited' = 1 .. Len(credited) + 1
          /\ DOMAIN credited = 1 .. Len(credited) /\ Len(credited) \in Nat
          /\ \A i \in 1 .. Len(credited) : credited'[i] = credited[i]
          /\ credited'[Len(credited) + 1] = seg
      BY <1>0, <2>4
    <3> QED
      BY <2>1, <2>4, <3>1
  <2>5. \/ credited' = credited
        \/ credited' = Append(credited, seg) /\ seg.from = open.started /\ seg \in Segment
    <3>1. seg \in Segment \cup {None}
      BY <2>2, ClosedAtType
    <3>2. credited' = With(credited, seg)
      BY <1>4 DEF Closed
    <3>3. seg # None => seg.from = open.started
      BY DEF ClosedAt
    <3> HIDE DEF seg
    <3> QED
      BY <3>1, <3>2, <3>3 DEF With
  <2> QED
    BY <2>1, <2>3, <2>4, <2>5
<1> QED
  BY <1>0, <1>1, <1>2, <1>3, <1>4, StepShape

\* The gaps of the old state are still outside everything credited.
LEMMA OldGapsStep ==
  ASSUME TypeOK, NoOverlap, GapsOutsideCredit, [Next]_vars, NEW k \in DOMAIN pending
  PROVE  /\ k.from \in Nat /\ pending[k].to \in Nat
         /\ k.from < pending[k].to /\ pending[k].to <= now'
         /\ open' # None => pending[k].to <= (open').started
         /\ \A i \in DOMAIN credited' :
               credited'[i].to <= k.from \/ pending[k].to <= credited'[i].from
<1>1. k \in CandidateId /\ pending[k] \in Entry
  BY DEF TypeOK
<1>2. k.from \in Nat /\ pending[k].to \in Nat
  BY <1>1 DEF CandidateId, Entry
<1>3. /\ k.from < pending[k].to /\ pending[k].to <= now
      /\ open # None => pending[k].to <= open.started
      /\ \A i \in DOMAIN credited :
            credited[i].to <= k.from \/ pending[k].to <= credited[i].from
  BY DEF GapsOutsideCredit
<1>4. /\ now \in Nat /\ now' \in Nat /\ now <= now'
      /\ open' # None => (open').started \in {now, open.started}
      /\ open' # None /\ open = None => (open').started = now
      /\ \A i \in DOMAIN credited' :
            \/ i \in DOMAIN credited /\ credited'[i] = credited[i]
            \/ open # None /\ credited'[i].from = open.started
  BY CreditStep
<1>5. pending[k].to <= now'
  BY <1>2, <1>3, <1>4
<1>6. open' # None => pending[k].to <= (open').started
  BY <1>3, <1>4
<1>7. ASSUME NEW i \in DOMAIN credited'
      PROVE  credited'[i].to <= k.from \/ pending[k].to <= credited'[i].from
  BY <1>3, <1>4
<1> QED
  BY <1>2, <1>3, <1>5, <1>6, <1>7

\* A gap added after all credit and after every other gap is outside them.
LEMMA AddedGapStep ==
  ASSUME TypeOK, NoOverlap, GapsOutsideCredit, [Next]_vars,
         NEW id, GapAdded(id), now' = now,
         \A i \in DOMAIN credited' : credited'[i].to <= id.from,
         \A k \in DOMAIN pending : pending[k].to <= id.from,
         open' # None => (open').started = now
  PROVE  GapsOutsideCredit'
<1>1. /\ id \in CandidateId /\ id.from < now /\ pending'[id].to = now
      /\ DOMAIN pending' = DOMAIN pending \cup {id}
      /\ \A k \in DOMAIN pending \ {id} : pending'[k].to = pending[k].to
  BY DEF GapAdded
<1>2. now \in Nat /\ id.from \in Nat
  BY <1>1 DEF TypeOK, CandidateId
<1>3. ASSUME NEW k \in DOMAIN pending \ {id}
      PROVE  /\ k.from < pending'[k].to /\ pending'[k].to <= now'
             /\ open' # None => pending'[k].to <= (open').started
             /\ \A i \in DOMAIN credited' :
                   credited'[i].to <= k.from \/ pending'[k].to <= credited'[i].from
             /\ pending'[k].to <= id.from
             /\ \A other \in DOMAIN pending \ {k, id} :
                   pending'[other].to <= k.from \/ pending'[k].to <= other.from
  BY <1>1, <1>3, OldGapsStep DEF GapsOutsideCredit
<1> QED
  BY <1>1, <1>2, <1>3 DEF GapsOutsideCredit

\* No step puts a recoverable gap over credited time or over another gap.
LEMMA GapsStep ==
  ASSUME TypeOK, NoOverlap, GapsOutsideCredit, IdleGapFollowsCredit, [Next]_vars
  PROVE  GapsOutsideCredit'
<1>1. CASE GapsKept
  BY <1>1, OldGapsStep DEF GapsKept, GapsOutsideCredit
<1>2. CASE GapAfterIdle
  <2>1. /\ GapAdded(idleGap) /\ now' = now /\ credited' = credited
        /\ (open').started = now
    BY <1>2 DEF GapAfterIdle, Opened, Fresh
  <2>2. /\ \A i \in DOMAIN credited : credited[i].to <= idleGap.from
        /\ \A k \in DOMAIN pending : pending[k].to <= idleGap.from
    BY <1>2 DEF GapAfterIdle, IdleGapFollowsCredit
  <2> QED
    BY <2>1, <2>2, AddedGapStep
<1>3. CASE GapAfterSleep
  <2> DEFINE id == TrailingGap
  <2>1. GapAdded(id) /\ id.from = open.lastTrusted /\ open' = None /\ open # None
        /\ Closed(open.lastTrusted, "sleep") /\ now' = now
    BY <1>3 DEF GapAfterSleep, Closed, TrailingGap
  <2>2. /\ open \in Session /\ open.lastTrusted \in Nat /\ open.started <= open.lastTrusted
        /\ \/ credited' = credited
           \/ /\ credited' = Append(credited, ClosedAt(open.lastTrusted, "sleep"))
              /\ ClosedAt(open.lastTrusted, "sleep").to = open.lastTrusted
    BY <2>1, ClosedCredit DEF Reasons
  <2>3. \A i \in DOMAIN credited : credited[i].to \in Nat /\ credited[i].to <= open.started
    BY <2>1, CreditTimes DEF NoOverlap, TypeOK
  <2>4. \A k \in DOMAIN pending : pending[k].to \in Nat /\ pending[k].to <= open.started
    BY <2>1, OldGapsStep DEF GapsOutsideCredit
  <2>5. open.started \in Nat
    BY <2>2 DEF Session
  <2>6. credited \in Seq(Segment)
    BY DEF TypeOK
  <2>7. ASSUME NEW i \in DOMAIN credited' PROVE credited'[i].to <= open.lastTrusted
    <3>1. CASE credited' = credited
      BY <2>2, <2>3, <2>5, <3>1
    <3>2. CASE /\ credited' = Append(credited, ClosedAt(open.lastTrusted, "sleep"))
               /\ ClosedAt(open.lastTrusted, "sleep").to = open.lastTrusted
      <4>1. \/ i \in DOMAIN credited /\ credited'[i] = credited[i]
            \/ credited'[i] = ClosedAt(open.lastTrusted, "sleep")
        BY <2>6, <3>2
      <4> QED
        BY <2>2, <2>3, <2>5, <3>2, <4>1
    <3> QED
      BY <2>2, <3>1, <3>2
  <2>8. \A k \in DOMAIN pending : pending[k].to <= open.lastTrusted
    BY <2>2, <2>4, <2>5
  <2> HIDE DEF id
  <2> QED
    BY <2>1, <2>7, <2>8, AddedGapStep
<1> QED
  BY <1>1, <1>2, <1>3, GapShape

\* An idle gap is either the one there was, or starts where the session ends.
LEMMA IdleGapShape ==
  ASSUME TypeOK, PausedHoldsNoSession, [Next]_vars, state' = "idle", idleGap' # None
  PROVE  \/ state = "idle" /\ open = None /\ open' = None /\ UNCHANGED <<idleGap, credited>>
         \/ /\ Closed(open.lastTrusted, "idle") /\ open' = None /\ UNCHANGED pending
            /\ idleGap' = TrailingGap
<1>1. CASE IdleTimer
  <2>1. open # None /\ CloseOpen(open.lastTrusted, "idle") /\ UNCHANGED <<now, lastFile, blurred>>
    BY <1>1 DEF IdleTimer, HandleIdleConfirm
  <2>2. Closed(open.lastTrusted, "idle")
    BY <2>1, CloseOpenShape
  <2> QED
    BY <1>1, <2>1, <2>2 DEF IdleTimer, HandleIdleConfirm, CloseOpen, RecoveryUnchanged
<1>2. CASE FocusTarget \/ Activity \/ Edit
  <2>1. PICK t \in Targets : HandleFocusTarget(now, t) \/ Activity \/ Edit
    BY <1>2, ConstantsAssumption DEF FocusTarget
  <2>2. CASE OpenFromNothing(now, t) \/ SwitchFile(now, t)
    BY <2>2 DEF OpenFromNothing, SwitchFile, OpenSession, EnterState
  <2>3. CASE RefreshSameFile(now, t) \/ Activity \/ Edit
    BY <2>3 DEF RefreshSameFile, Activity, Edit, HandleActivity, HandleEdit,
                PausedHoldsNoSession
  <2> QED
    BY <2>1, <2>2, <2>3 DEF HandleFocusTarget
<1>3. CASE Tick \/ ChangeSettings \/ Resolve \/ Undo \/ UNCHANGED vars
  <2>1. UNCHANGED <<state, open, idleGap>>
    BY <1>3 DEF Tick, ChangeSettings, Resolve, Undo, HandleSettings, ResolveRecovery,
                UndoAutomaticExclusion, vars, engineVars
  <2>2. state = "idle" /\ open = None
    BY <2>1 DEF PausedHoldsNoSession
  <2>3. UNCHANGED credited
    BY <1>3, NothingEmitted
       DEF Tick, ChangeSettings, Resolve, Undo, HandleSettings, ResolveRecovery,
           UndoAutomaticExclusion, Emit, With, vars, engineVars
  <2> QED
    BY <2>1, <2>2, <2>3
<1>4. CASE Start \/ Stop \/ Blur \/ Untrackable \/ Pause \/ Resume \/ Degrade
  BY <1>4 DEF Start, Stop, Blur, Untrackable, Pause, Resume, Degrade, HandleStart,
              HandleStop, HandleBlur, HandleUntrackable, HandlePause, HandleResume,
              EnterDegraded, EnterState
<1>5. CASE Heartbeat
  BY <1>5 DEF Heartbeat, HandleHeartbeat
<1> QED
  BY <1>1, <1>2, <1>3, <1>4, <1>5 DEF Next

\* The idle gap stays after all credit and after every recoverable gap.
LEMMA IdleGapStep ==
  ASSUME TypeOK, NoOverlap, GapsOutsideCredit, PausedHoldsNoSession, IdleGapFollowsCredit,
         [Next]_vars
  PROVE  IdleGapFollowsCredit'
<1> SUFFICES ASSUME state' = "idle", idleGap' # None
             PROVE  /\ (idleGap').from <= now'
                    /\ \A i \in DOMAIN credited' : credited'[i].to <= (idleGap').from
                    /\ \A id \in DOMAIN pending' : pending'[id].to <= (idleGap').from
  BY DEF IdleGapFollowsCredit
<1>1. now \in Nat /\ now' \in Nat /\ now <= now'
  BY CreditStep
<1>2. CASE state = "idle" /\ open = None /\ open' = None /\ UNCHANGED <<idleGap, credited>>
  <2>1. idleGap \in CandidateId
    BY <1>2 DEF TypeOK
  <2>2. /\ idleGap.from \in Nat /\ idleGap.from <= now
        /\ \A i \in DOMAIN credited : credited[i].to <= idleGap.from
        /\ \A id \in DOMAIN pending : pending[id].to <= idleGap.from
    BY <1>2, <2>1 DEF IdleGapFollowsCredit, CandidateId
  <2>3. GapsKept
    <3>1. ~GapAfterSleep
      BY <1>2 DEF GapAfterSleep, Closed
    <3>2. ~GapAfterIdle
      <4> SUFFICES ASSUME NEW t \in Targets, Opened(t) PROVE FALSE
        BY DEF GapAfterIdle
      <4>1. open' \in Session
        BY <1>1 DEF Opened, Fresh, Session, OpenCountFor
      <4> QED
        BY <1>2, <4>1, NoneAssumption
    <3> QED
      BY <3>1, <3>2, GapShape
  <2> QED
    BY <1>1, <1>2, <2>2, <2>3 DEF GapsKept
<1>3. CASE /\ Closed(open.lastTrusted, "idle") /\ open' = None /\ UNCHANGED pending
           /\ idleGap' = TrailingGap
  <2>1. /\ open \in Session /\ open.lastTrusted \in Nat /\ open.started <= open.lastTrusted
        /\ open.lastTrusted <= now
        /\ \/ credited' = credited
           \/ /\ credited' = Append(credited, ClosedAt(open.lastTrusted, "idle"))
              /\ ClosedAt(open.lastTrusted, "idle").to = open.lastTrusted
    BY <1>3, ClosedCredit DEF Reasons
  <2>2. open # None /\ open.started \in Nat /\ credited \in Seq(Segment)
    BY <1>3, <2>1 DEF Closed, Session, TypeOK
  <2>3. \A i \in DOMAIN credited : credited[i].to \in Nat /\ credited[i].to <= open.started
    BY <2>2, CreditTimes DEF NoOverlap
  <2>4. \A k \in DOMAIN pending : pending[k].to \in Nat /\ pending[k].to <= open.started
    BY <2>2, OldGapsStep DEF GapsOutsideCredit
  <2>5. ASSUME NEW i \in DOMAIN credited' PROVE credited'[i].to <= open.lastTrusted
    <3>1. CASE credited' = credited
      BY <2>1, <2>2, <2>3, <3>1
    <3>2. CASE /\ credited' = Append(credited, ClosedAt(open.lastTrusted, "idle"))
               /\ ClosedAt(open.lastTrusted, "idle").to = open.lastTrusted
      <4>1. \/ i \in DOMAIN credited /\ credited'[i] = credited[i]
            \/ credited'[i] = ClosedAt(open.lastTrusted, "idle")
        BY <2>2, <3>2
      <4> QED
        BY <2>1, <2>2, <2>3, <3>2, <4>1
    <3> QED
      BY <2>1, <3>1, <3>2
  <2>6. (idleGap').from = open.lastTrusted /\ open.lastTrusted <= now'
    BY <1>1, <1>3, <2>1 DEF TrailingGap
  <2>7. \A k \in DOMAIN pending : pending[k].to <= open.lastTrusted
    BY <2>1, <2>2, <2>4
  <2> QED
    BY <1>3, <2>5, <2>6, <2>7
<1> QED
  BY <1>2, <1>3, IdleGapShape

-----------------------------------------------------------------------------
(* The invariant and what it gives.                                        *)

\* The initial state satisfies the inductive invariant.
LEMMA EngineInit == Init => EngineInv
<1> SUFFICES ASSUME Init PROVE EngineInv
  OBVIOUS
<1>1. settings \in Settings /\ ~settings.manuallyPaused
  BY ConstantsAssumption, PauseIsNotPersisted DEF Init
<1>2. /\ credited = <<>> /\ decided = <<>> /\ recent = <<>> /\ DOMAIN pending = {}
      /\ DOMAIN credited = {} /\ open = None /\ idleGap = None /\ ~blurred
  BY DEF Init
<1>3. TypeOK
  <2>1. recent \in Seq(Decision) /\ credited \in Seq(Segment) /\ decided \in Seq(Decision)
    BY <1>2
  <2>2. out \in [segment: Segment \cup {None}, decision: Decision \cup {None},
                 flush: BOOLEAN]
    BY DEF Init, Silent
  <2>3. now \in Nat /\ state \in States
    BY DEF Init, States
  <2>4. /\ stopped \in BOOLEAN /\ blurred \in BOOLEAN /\ degraded \in BOOLEAN
        /\ lastFile = None /\ lastFlush = None
    BY DEF Init
  <2> QED
    BY <1>1, <1>2, <2>1, <2>2, <2>3, <2>4 DEF TypeOK
<1> QED
  BY <1>1, <1>2, <1>3
     DEF Init, EngineInv, NoOverlap, GapsOutsideCredit, RefocusContinuesVisit,
         PausedHoldsNoSession, IdleGapFollowsCredit, BlurredVisitIsLast

\* Every step preserves the inductive invariant: the parts proved above, together.
LEMMA EngineStep == EngineInv /\ [Next]_vars => EngineInv'
<1> SUFFICES ASSUME EngineInv, [Next]_vars PROVE EngineInv'
  OBVIOUS
<1> USE DEF EngineInv
<1>1. GapsForward
  BY DEF GapsOutsideCredit, GapsForward
<1> QED
  BY <1>1, TypeStep, NoOverlapStep, GapsStep, VisitStep, PausedStep, IdleGapStep

\* Every reachable state satisfies the inductive invariant.
THEOREM EngineInvariant == Spec => []EngineInv
  BY EngineInit, EngineStep, PTL DEF Spec

\* Every variable keeps its type under every input of the engine.
THEOREM TypeCorrect == Spec => []TypeOK
<1>1. EngineInv => TypeOK
  BY DEF EngineInv
<1> QED
  BY <1>1, EngineInvariant, PTL

\* Emitted segments never overlap and the open session starts after them
\* (activity-engine.ts:8-15).
THEOREM CreditedOnce == Spec => []NoOverlap
<1>1. EngineInv => NoOverlap
  BY DEF EngineInv
<1> QED
  BY <1>1, EngineInvariant, PTL

\* RecoverableTime gaps are disjoint from credited time and from each other.
THEOREM GapsAreUncredited == Spec => []GapsOutsideCredit
<1>1. EngineInv => GapsOutsideCredit
  BY DEF EngineInv
<1> QED
  BY <1>1, EngineInvariant, PTL

\* A segment that counts no opening continues the visit a blur interrupted.
THEOREM OpeningsAreCounted == Spec => []RefocusContinuesVisit
<1>1. EngineInv => RefocusContinuesVisit
  BY DEF EngineInv
<1> QED
  BY <1>1, EngineInvariant, PTL

\* A paused, idle, degraded or stopped engine holds no session.
THEOREM PauseHolds == Spec => []PausedHoldsNoSession
<1>1. EngineInv => PausedHoldsNoSession
  BY DEF EngineInv
<1> QED
  BY <1>1, EngineInvariant, PTL

-----------------------------------------------------------------------------
(* Nothing is handed out twice: credit, and the gaps that may still be     *)
(* added to it, together fit into the time that elapsed.                   *)

Length(id) == pending[id].to - id.from

\* Credit and gaps lie before the present, before the open session, and before
\* the gap of a session that went idle.
SpentWithinElapsed ==
  /\ IsFiniteSet(DOMAIN pending)
  /\ EarnedTime + RecoverableTime <= now
  /\ open # None => EarnedTime + RecoverableTime <= open.started
  /\ state = "idle" /\ idleGap # None => EarnedTime + RecoverableTime <= idleGap.from

\* The gaps the user may still decide.
Undecided ==
  SumFunction([id \in {id \in DOMAIN pending : ~UserDecided(id)} |-> Length(id)])

\* While no decision was evicted, every inclusion is of a gap of its own.
IncludedOnce ==
  Len(decided) <= MaxRecent =>
    /\ recent = decided
    /\ \A i \in DOMAIN decided : decided[i].id \in DOMAIN pending
    /\ IncludedTime + Undecided <= RecoverableTime

\* The totals are numbers.
LEMMA TotalsType ==
  ASSUME TypeOK, IsFiniteSet(DOMAIN pending)
  PROVE  /\ EarnedTime \in Int /\ IncludedTime \in Int /\ RecoverableTime \in Int
         /\ \A id \in DOMAIN pending : Length(id) \in Int
<1>1. \A id \in DOMAIN pending : Length(id) \in Int
  BY DEF TypeOK, CandidateId, Entry, Length
<1>2. RecoverableTime \in Int
  <2>1. IntOn([id \in DOMAIN pending |-> pending[id].to - id.from], DOMAIN pending)
    BY <1>1 DEF IntOn, Length
  <2> QED
    BY <2>1, SumType DEF RecoverableTime, SumFunction
<1>3. EarnedTime \in Int
  <2>1. IntOn([i \in DOMAIN credited |-> credited[i].to - credited[i].from], DOMAIN credited)
    BY CreditTimes DEF IntOn, TypeOK
  <2>2. IsFiniteSet(DOMAIN credited)
    BY FS_Interval DEF TypeOK
  <2> QED
    BY <2>1, <2>2, SumType DEF EarnedTime, SumFunction
<1>4. IncludedTime \in Int
  <2>1. IntOn([i \in DOMAIN decided |-> decided[i].delta], DOMAIN decided)
    <3>1. \A i \in DOMAIN decided : decided[i] \in Decision
      BY DEF TypeOK
    <3> QED
      BY <3>1 DEF IntOn, Decision
  <2>2. IsFiniteSet(DOMAIN decided)
    BY FS_Interval DEF TypeOK
  <2> QED
    BY <2>1, <2>2, SumType DEF IncludedTime, SumFunction
<1> QED
  BY <1>1, <1>2, <1>3, <1>4

\* A close earns at most what passed since the session started.
LEMMA EarnedByClose ==
  ASSUME TypeOK, TypeOK', NoOverlap, NEW reason \in Reasons,
         NEW s \in {now, open.lastTrusted}, Closed(s, reason), EarnedTime \in Int
  PROVE  EarnedTime' \in Int /\ EarnedTime' <= EarnedTime + (s - open.started)
<1>0. open \in Session /\ s \in Nat /\ open.started <= s
  BY ClosedCredit
<1>1. /\ open.started \in Nat
      /\ \/ credited' = credited
         \/ /\ credited' = Append(credited, ClosedAt(s, reason))
            /\ ClosedAt(s, reason).from = open.started /\ ClosedAt(s, reason).to = s
  <2>1. /\ open.started \in Nat
        /\ \/ credited' = credited
           \/ /\ credited' = Append(credited, ClosedAt(s, reason))
              /\ ClosedAt(s, reason) =
                   [file |-> open.target.file, from |-> open.started, to |-> s,
                    openCount |-> open.openCount, reason |-> reason]
    BY <1>0, ClosedCredit DEF Session
  <2> QED
    BY <2>1
<1>2. CASE credited' = credited
  BY <1>0, <1>1, <1>2 DEF EarnedTime
<1>3. CASE /\ credited' = Append(credited, ClosedAt(s, reason))
           /\ ClosedAt(s, reason).from = open.started /\ ClosedAt(s, reason).to = s
  <2> DEFINE f == [i \in DOMAIN credited |-> credited[i].to - credited[i].from]
             g == [i \in DOMAIN credited' |-> credited'[i].to - credited'[i].from]
             n == Len(credited)
  <2>1. credited \in Seq(Segment) /\ credited' \in Seq(Segment)
    BY DEF TypeOK
  <2>2. /\ n \in Nat /\ DOMAIN f = 1 .. n /\ DOMAIN g = 1 .. n + 1
        /\ \A i \in 1 .. n : g[i] = f[i]
        /\ g[n + 1] = s - open.started
    BY <1>3, <2>1
  <2>3. IntOn(g, 1 .. n + 1)
    <3>1. \A i \in DOMAIN credited' : credited'[i] \in Segment
      BY <2>1
    <3> QED
      BY <2>2, <3>1 DEF Segment, IntOn
  <2>4. SumFunction(g) = SumFunction(f) + g[n + 1]
    <3> HIDE DEF f, g, n
    <3> QED
      BY <2>2, <2>3, SumAppended
  <2>5. EarnedTime = SumFunction(f) /\ EarnedTime' = SumFunction(g)
    BY DEF EarnedTime
  <2> QED
    BY <1>0, <1>1, <2>2, <2>4, <2>5
<1> QED
  BY <1>1, <1>2, <1>3

\* Gaps that keep their ends keep their total.
LEMMA RecoverableKept ==
  ASSUME TypeOK, IsFiniteSet(DOMAIN pending), GapsKept
  PROVE  RecoverableTime' = RecoverableTime /\ IsFiniteSet(DOMAIN pending')
<1> DEFINE f == [id \in DOMAIN pending |-> pending[id].to - id.from]
           g == [id \in DOMAIN pending' |-> pending'[id].to - id.from]
<1>1. DOMAIN f = DOMAIN pending /\ DOMAIN g = DOMAIN pending /\ \A id \in DOMAIN pending : f[id] = g[id]
  BY DEF GapsKept
<1>2. f = g
  BY <1>1
<1> QED
  BY <1>2 DEF GapsKept, RecoverableTime

\* A new gap adds its length.
LEMMA RecoverableGrows ==
  ASSUME TypeOK, TypeOK', IsFiniteSet(DOMAIN pending), NEW id, id \notin DOMAIN pending, GapAdded(id)
  PROVE  RecoverableTime' = RecoverableTime + (now - id.from) /\ IsFiniteSet(DOMAIN pending')
<1> DEFINE f == [k \in DOMAIN pending |-> pending[k].to - k.from]
           g == [k \in DOMAIN pending' |-> pending'[k].to - k.from]
<1>1. /\ DOMAIN pending' = DOMAIN pending \cup {id}
      /\ pending'[id].to = now
      /\ \A k \in DOMAIN pending : pending'[k].to = pending[k].to
  BY DEF GapAdded
<1>2. /\ DOMAIN f = DOMAIN pending /\ DOMAIN g = DOMAIN f \cup {id}
      /\ \A k \in DOMAIN f : g[k] = f[k]
      /\ g[id] = now - id.from
  BY <1>1
<1>3. IsFiniteSet(DOMAIN pending')
  BY <1>1, FS_AddElement
<1>4. IntOn(g, DOMAIN g)
  <2>1. \A k \in DOMAIN pending' : pending'[k].to - k.from \in Int
    BY DEF TypeOK, CandidateId, Entry
  <2> QED
    BY <2>1 DEF IntOn
<1>5. SumFunction(g) = SumFunction(f) + g[id]
  <2> HIDE DEF f, g
  <2> QED
    BY <1>2, <1>4, TableGrows
<1> QED
  BY <1>2, <1>3, <1>5 DEF RecoverableTime

\* A gap that a step adds was not there before.
LEMMA NewGap ==
  ASSUME EngineInv
  PROVE  /\ GapAfterIdle => idleGap \notin DOMAIN pending
         /\ GapAfterSleep => TrailingGap \notin DOMAIN pending
<1>0. \A id \in DOMAIN pending : id.from \in Nat /\ pending[id].to \in Nat
  BY DEF EngineInv, TypeOK, CandidateId, Entry
<1>1. ASSUME GapAfterIdle, idleGap \in DOMAIN pending PROVE FALSE
  BY <1>0, <1>1 DEF GapAfterIdle, EngineInv, IdleGapFollowsCredit, GapsOutsideCredit
<1>2. ASSUME GapAfterSleep, TrailingGap \in DOMAIN pending PROVE FALSE
  <2>1. open # None /\ open \in Session /\ TrailingGap.from = open.lastTrusted
    BY <1>2 DEF GapAfterSleep, Closed, EngineInv, TypeOK, TrailingGap
  <2>2. open.started <= open.lastTrusted /\ open.started \in Nat /\ open.lastTrusted \in Nat
    BY <2>1 DEF EngineInv, NoOverlap, Session
  <2>3. TrailingGap.from < pending[TrailingGap].to /\ pending[TrailingGap].to <= open.started
    BY <1>2, <2>1 DEF EngineInv, GapsOutsideCredit
  <2> QED
    BY <1>0, <1>2, <2>1, <2>2, <2>3
<1> QED
  BY <1>1, <1>2

\* A new gap ends the time without a session it covers; a kept one changes nothing.
LEMMA SpentStep ==
  ASSUME EngineInv, EngineInv', SpentWithinElapsed, [Next]_vars
  PROVE  SpentWithinElapsed'
<1> DEFINE spent == EarnedTime + RecoverableTime
<1> USE DEF EngineInv
<1>0. /\ IsFiniteSet(DOMAIN pending) /\ now \in Nat /\ now' \in Nat /\ now <= now'
      /\ EarnedTime \in Int /\ RecoverableTime \in Int /\ spent <= now
  BY TotalsType, CreditStep DEF SpentWithinElapsed
<1>1. open # None => /\ open.started \in Nat /\ open.lastTrusted \in Nat
                     /\ open.started <= open.lastTrusted /\ open.lastTrusted <= now
                     /\ spent <= open.started
  BY DEF TypeOK, Session, NoOverlap, SpentWithinElapsed
<1>2. GapAfterIdle => /\ idleGap.from \in Nat /\ spent <= idleGap.from /\ now' = now
                      /\ EarnedTime' = EarnedTime /\ RecoverableTime' = RecoverableTime + (now - idleGap.from)
                      /\ IsFiniteSet(DOMAIN pending') /\ (open').started = now /\ open' # None
  <2> SUFFICES ASSUME GapAfterIdle
               PROVE  /\ idleGap.from \in Nat /\ spent <= idleGap.from /\ now' = now
                      /\ EarnedTime' = EarnedTime /\ RecoverableTime' = RecoverableTime + (now - idleGap.from)
                      /\ IsFiniteSet(DOMAIN pending') /\ (open').started = now /\ open' # None
    OBVIOUS
  <2>1. PICK t \in Targets : Opened(t)
    BY DEF GapAfterIdle
  <2>2. credited' = credited /\ now' = now /\ (open').started = now /\ open' # None
    <3>1. credited' = credited /\ now' = now /\ open' = Fresh(t, OpenCountFor(t))
      BY <2>1 DEF Opened
    <3>2. Fresh(t, OpenCountFor(t)) \in Session
      BY <1>0 DEF Fresh, OpenCountFor, Session
    <3> QED
      BY <3>1, <3>2, NoneAssumption DEF Fresh
  <2>3. idleGap \notin DOMAIN pending /\ GapAdded(idleGap)
    BY NewGap DEF GapAfterIdle
  <2>4. RecoverableTime' = RecoverableTime + (now - idleGap.from) /\ IsFiniteSet(DOMAIN pending')
    BY <1>0, <2>3, RecoverableGrows
  <2>5. idleGap.from \in Nat /\ spent <= idleGap.from
    BY DEF GapAfterIdle, GapAdded, CandidateId, SpentWithinElapsed
  <2> QED
    BY <2>2, <2>4, <2>5 DEF EarnedTime
<1>3. GapAfterSleep => /\ RecoverableTime' = RecoverableTime + (now - open.lastTrusted)
                       /\ Closed(open.lastTrusted, "sleep") /\ open' = None
                       /\ IsFiniteSet(DOMAIN pending')
  BY <1>0, NewGap, RecoverableGrows DEF GapAfterSleep, TrailingGap
<1>4. GapsKept => RecoverableTime' = RecoverableTime /\ IsFiniteSet(DOMAIN pending')
  BY <1>0, RecoverableKept
<1>5. \A reason \in Reasons, s \in {now, open.lastTrusted} : Closed(s, reason) =>
         /\ open # None /\ EarnedTime' \in Int /\ EarnedTime' <= EarnedTime + (s - open.started)
         /\ now' = now /\ (open' # None => (open').started = now)
  BY <1>0, EarnedByClose DEF Closed, Fresh
<1>6. /\ IsFiniteSet(DOMAIN pending')
      /\ EarnedTime' + RecoverableTime' <= now'
      /\ open' # None => EarnedTime' + RecoverableTime' <= (open').started
  <2>1. CASE GapAfterIdle
    BY <1>0, <1>2, <2>1
  <2>2. CASE GapAfterSleep
    BY <1>0, <1>1, <1>3, <1>5, <2>2 DEF Reasons
  <2>3. CASE GapsKept
    <3>1. CASE Kept
      BY <1>0, <1>1, <1>4, <2>3, <3>1 DEF Kept, EarnedTime
    <3>2. CASE Touched
      <4>1. EarnedTime' = EarnedTime /\ (open').started = open.started /\ open # None /\ now' = now
        BY <1>0, <3>2 DEF Touched, EarnedTime, TypeOK, Session
      <4> QED
        BY <1>0, <1>1, <1>4, <2>3, <4>1
    <3>3. ASSUME NEW t \in Targets, Opened(t)
          PROVE  EarnedTime' = EarnedTime /\ (open').started = now /\ now' = now
      BY <3>3 DEF Opened, Fresh, EarnedTime
    <3>4. ASSUME NEW reason \in Reasons, NEW s \in {now, open.lastTrusted}, Closed(s, reason)
          PROVE  EarnedTime' + RecoverableTime' <= now' /\ (open' # None => (open').started = now')
      <4> HIDE DEF EngineInv
      <4>1. /\ open # None /\ EarnedTime' \in Int /\ EarnedTime' <= EarnedTime + (s - open.started)
            /\ now' = now /\ (open' # None => (open').started = now)
        BY <1>5, <3>4
      <4>2. s \in Nat /\ s <= now
        BY <1>0, <1>1, <4>1
      <4> QED
        BY <1>0, <1>1, <1>4, <2>3, <4>1, <4>2
    <3> QED
      BY <1>0, <1>4, <2>3, <3>1, <3>2, <3>3, <3>4, StepShape
  <2> QED
    BY <2>1, <2>2, <2>3, GapShape
<1>7. ASSUME state' = "idle", idleGap' # None PROVE EarnedTime' + RecoverableTime' <= (idleGap').from
  <2>1. CASE state = "idle" /\ open = None /\ open' = None /\ UNCHANGED <<idleGap, credited>>
    <3>1. GapsKept
      BY <1>2, <2>1, GapShape DEF GapAfterSleep, Closed
    <3> QED
      BY <1>4, <1>7, <2>1, <3>1 DEF EarnedTime, SpentWithinElapsed
  <2>2. CASE /\ Closed(open.lastTrusted, "idle") /\ open' = None /\ UNCHANGED pending
             /\ idleGap' = TrailingGap
    <3>1. RecoverableTime' = RecoverableTime /\ (idleGap').from = open.lastTrusted
      BY <2>2 DEF RecoverableTime, TrailingGap
    <3> QED
      BY <1>0, <1>1, <1>5, <2>2, <3>1 DEF Reasons
  <2> QED
    BY <1>7, <2>1, <2>2, IdleGapShape
<1> QED
  BY <1>6, <1>7 DEF SpentWithinElapsed

\* A decision is emitted and remembered in one step: an exclusion of the gap the
\* step adds, or what the user says of a gap that is still theirs to decide.
NothingDecided == UNCHANGED <<decided, recent>>

ExcludedNow(id) ==
  /\ GapAdded(id)
  /\ decided' = Append(decided, AutomaticExclusion(id))
  /\ recent' = Remember(AutomaticExclusion(id))

DecidedBy(id, kind, d) ==
  /\ d = [id |-> id, kind |-> kind, automatic |-> FALSE, delta |-> Delta(id, kind)]
  /\ ~UserDecided(id) /\ GapsKept
  /\ decided' = Append(decided, d) /\ recent' = Remember(d)

LEMMA DecisionShape ==
  ASSUME TypeOK, GapsForward, [Next]_vars
  PROVE  \/ NothingDecided
         \/ ExcludedNow(idleGap) /\ GapAfterIdle
         \/ ExcludedNow(TrailingGap) /\ GapAfterSleep
         \/ \E id \in DOMAIN pending, kind \in {"include", "exclude"} : \E d : DecidedBy(id, kind, d)
<1> USE DEF Emit, With
<1>1. CASE FocusTarget
  <2>1. PICK t \in Targets : HandleFocusTarget(now, t)
    BY <1>1 DEF FocusTarget
  <2>2. CASE RefreshSameFile(now, t) \/ SwitchFile(now, t)
    BY <2>2 DEF RefreshSameFile, SwitchFile, RefreshActivity, RecoveryUnchanged, NothingDecided
  <2>3. CASE OpenFromNothing(now, t) /\ ~OpenAfterLongGap(now, t)
    BY <2>3 DEF OpenFromNothing, OpenPlainly, OpenAfterShortGap, RecoveryUnchanged, NothingDecided
  <2>4. CASE OpenFromNothing(now, t) /\ OpenAfterLongGap(now, t)
    <3>1. ResumesGap(now) /\ ExcludeGap(idleGap, now) /\ idleGap \in CandidateId
      BY <2>4 DEF OpenAfterLongGap, ResumesGap, TypeOK
    <3>2. GapAdded(idleGap)
      <4> DEFINE e == [to |-> now, undoUntil |-> now + UndoWindow, resolved |-> TRUE]
      <4>1. e.to = now /\ pending' = Put(pending, idleGap, e) /\ idleGap.from < now
        BY <3>1 DEF ExcludeGap, ResumesGap, CandidateId, TypeOK
      <4> HIDE DEF e
      <4> QED
        BY <3>1, <4>1, PutAddsGap
    <3>3. Opened(t)
      BY <1>1, <2>4
         DEF FocusTarget, OpenFromNothing, OpenAfterLongGap, OpenSession, Opened, Fresh
    <3>4. decided' = Append(decided, AutomaticExclusion(idleGap))
      BY <2>4, <3>1, AutomaticExclusionType, NoneAssumption DEF OpenAfterLongGap
    <3> QED
      BY <3>1, <3>2, <3>3, <3>4 DEF ExcludedNow, ExcludeGap, GapAfterIdle, ResumesGap
  <2> QED
    BY <2>1, <2>2, <2>3, <2>4 DEF HandleFocusTarget
<1>2. CASE Heartbeat
  <2> DEFINE id == TrailingGap
  <2>1. CASE ExcludeGap(id, now) /\ Emit(ClosedAt(open.lastTrusted, "sleep"),
                                        AutomaticExclusion(id), TRUE)
    <3>1. open \in Session /\ now \in Nat /\ now - open.lastTrusted > 2 * HeartbeatGap
      BY <1>2 DEF Heartbeat, HandleHeartbeat, TypeOK
    <3>2. id \in CandidateId /\ id.from < now
      BY <3>1, ConstantsAssumption DEF Session, CandidateId, TrailingGap
    <3>3. GapAdded(id)
      <4> DEFINE e == [to |-> now, undoUntil |-> now + UndoWindow, resolved |-> TRUE]
      <4>1. e.to = now /\ pending' = Put(pending, id, e)
        BY <2>1 DEF ExcludeGap
      <4> HIDE DEF e, id
      <4> QED
        BY <3>2, <4>1, PutAddsGap
    <3>4. decided' = Append(decided, AutomaticExclusion(id))
      BY <2>1, <3>2, AutomaticExclusionType, NoneAssumption
    <3>5. Closed(open.lastTrusted, "sleep") /\ open' = None
      BY <1>2 DEF Heartbeat, HandleHeartbeat, Closed
    <3> QED
      BY <2>1, <3>3, <3>4, <3>5 DEF ExcludedNow, ExcludeGap, GapAfterSleep
  <2>2. CASE RecoveryUnchanged /\ Emit(ClosedAt(open.lastTrusted, "sleep"), None, TRUE)
    BY <2>2 DEF RecoveryUnchanged, NothingDecided
  <2> QED
    BY <1>2, <2>1, <2>2 DEF Heartbeat, HandleHeartbeat
<1>3. CASE Resolve
  <2>1. PICK id \in DOMAIN pending, kind \in {"include", "exclude"} :
          ResolveRecovery(id, kind, now)
    BY <1>3 DEF Resolve
  <2> DEFINE d == [id |-> id, kind |-> kind, automatic |-> FALSE, delta |-> Delta(id, kind)]
             e == [to |-> pending[id].to, undoUntil |-> None, resolved |-> TRUE]
  <2>2. ~UserDecided(id) /\ recent' = Remember(d) /\ Emit(None, d, TRUE)
        /\ pending' = Put(pending, id, e) /\ e.to = pending[id].to
    BY <2>1 DEF ResolveRecovery
  <2>3. GapsKept
    <3> HIDE DEF e
    <3> QED
      BY <2>2, PutKeepsGap
  <2>4. d # None
    <3>1. id \in CandidateId /\ pending[id] \in Entry
      BY DEF TypeOK
    <3>2. Delta(id, kind) \in Nat
      BY <3>1 DEF Delta, CandidateId, Entry, GapsForward
    <3>3. d \in Decision
      BY <3>1, <3>2 DEF Decision
    <3> QED
      BY <3>3, NoneAssumption
  <2>5. decided' = Append(decided, d)
    BY <2>2, <2>4
  <2> QED
    BY <2>2, <2>3, <2>5 DEF DecidedBy
<1>4. CASE \/ Tick \/ Start \/ Stop \/ Blur \/ Untrackable \/ Activity \/ Edit \/ IdleTimer
           \/ Pause \/ Resume \/ ChangeSettings \/ Degrade \/ Undo \/ UNCHANGED vars
  BY <1>4
     DEF Tick, Start, Stop, Blur, Untrackable, Activity, Edit, IdleTimer, Pause, Resume,
         ChangeSettings, Degrade, Undo, HandleStart, HandleStop, HandleBlur,
         HandleUntrackable, HandleActivity, HandleEdit, HandleIdleConfirm, HandlePause,
         HandleResume, HandleSettings, EnterDegraded, UndoAutomaticExclusion, CloseOpen,
         RefreshActivity, RecoveryUnchanged, NothingDecided, vars, engineVars
<1> QED
  BY <1>1, <1>2, <1>3, <1>4 DEF Next

\* What one more decision changes, while none is evicted.
LEMMA DecisionAppended ==
  ASSUME TypeOK, TypeOK', recent = decided, NEW d \in Decision, decided' = Append(decided, d),
         recent' = Remember(d), Len(decided') <= MaxRecent
  PROVE  /\ recent' = decided'
         /\ IncludedTime' = IncludedTime + d.delta
         /\ DOMAIN decided' = DOMAIN decided \cup {Len(decided) + 1}
         /\ decided'[Len(decided) + 1] = d
         /\ \A i \in DOMAIN decided : decided'[i] = decided[i]
         /\ \A k : UserDecided(k)' <=> UserDecided(k) \/ (d.id = k /\ ~d.automatic)
<1> DEFINE n == Len(decided)
<1>1. decided \in Seq(Decision) /\ decided' \in Seq(Decision)
  BY DEF TypeOK
<1>2. /\ n \in Nat /\ DOMAIN decided = 1 .. n /\ DOMAIN decided' = 1 .. n + 1
      /\ decided'[n + 1] = d
      /\ \A i \in 1 .. n : decided'[i] = decided[i]
  BY <1>1
<1>3. recent' = decided'
  <2>1. Len(Append(recent, d)) = n + 1 /\ Len(decided') = n + 1
    BY <1>1, <1>2
  <2>2. ~(Len(Append(recent, d)) > MaxRecent)
    BY <1>2, <2>1, ConstantsAssumption
  <2> QED
    BY <2>2 DEF Remember
<1>4. IncludedTime' = IncludedTime + d.delta
  <2> DEFINE f == [i \in DOMAIN decided |-> decided[i].delta]
             g == [i \in DOMAIN decided' |-> decided'[i].delta]
  <2>1. /\ DOMAIN f = 1 .. n /\ DOMAIN g = 1 .. n + 1 /\ \A i \in 1 .. n : g[i] = f[i]
        /\ g[n + 1] = d.delta
    BY <1>2
  <2>2. IntOn(g, 1 .. n + 1)
    <3>1. \A i \in DOMAIN decided' : decided'[i] \in Decision
      BY <1>1
    <3> QED
      BY <1>2, <3>1 DEF Decision, IntOn
  <2>3. SumFunction(g) = SumFunction(f) + g[n + 1]
    <3> HIDE DEF f, g, n
    <3> QED
      BY <1>2, <2>1, <2>2, SumAppended
  <2> QED
    BY <2>1, <2>3 DEF IncludedTime
<1>5. ASSUME NEW k PROVE UserDecided(k)' <=> UserDecided(k) \/ (d.id = k /\ ~d.automatic)
  <2>1. UserDecided(k) <=> \E i \in 1 .. n : decided[i].id = k /\ ~decided[i].automatic
    BY <1>2 DEF UserDecided
  <2>2. UserDecided(k)' <=> \E i \in 1 .. n + 1 : decided'[i].id = k /\ ~decided'[i].automatic
    BY <1>2, <1>3 DEF UserDecided
  <2>3. \A i : i \in 1 .. n + 1 <=> i \in 1 .. n \/ i = n + 1
    BY <1>2
  <2> QED
    BY <1>2, <2>1, <2>2, <2>3
<1> QED
  BY <1>2, <1>3, <1>4, <1>5

\* What stays to be decided when neither the gaps nor the decisions change.
LEMMA UndecidedKept ==
  ASSUME GapsKept, \A k : UserDecided(k)' <=> UserDecided(k)
  PROVE  Undecided' = Undecided
<1> DEFINE f == [k \in {k \in DOMAIN pending : ~UserDecided(k)} |-> pending[k].to - k.from]
           g == [k \in {k \in DOMAIN pending' : ~UserDecided(k)'} |-> pending'[k].to - k.from]
<1>1. f = g
  BY DEF GapsKept
<1> QED
  BY <1>1 DEF Undecided, Length

\* A new gap is one more to decide.
LEMMA UndecidedGrows ==
  ASSUME TypeOK, TypeOK', IsFiniteSet(DOMAIN pending), NEW id, id \notin DOMAIN pending,
         GapAdded(id), ~UserDecided(id), \A k \in DOMAIN pending' : UserDecided(k)' <=> UserDecided(k)
  PROVE  Undecided' = Undecided + (now - id.from)
<1> DEFINE D == {k \in DOMAIN pending : ~UserDecided(k)}
           E == {k \in DOMAIN pending' : ~UserDecided(k)'}
           f == [k \in D |-> pending[k].to - k.from]
           g == [k \in E |-> pending'[k].to - k.from]
<1>1. /\ DOMAIN pending' = DOMAIN pending \cup {id}
      /\ pending'[id].to = now
      /\ \A k \in DOMAIN pending : pending'[k].to = pending[k].to
  BY DEF GapAdded
<1>2. E = D \cup {id} /\ id \notin D /\ IsFiniteSet(D)
  BY <1>1, FS_Subset
<1>3. /\ DOMAIN f = D /\ DOMAIN g = DOMAIN f \cup {id} /\ id \notin DOMAIN f
      /\ \A k \in DOMAIN f : g[k] = f[k]
      /\ g[id] = now - id.from
  BY <1>1, <1>2
<1>4. IntOn(g, DOMAIN g)
  <2>1. \A k \in DOMAIN pending' : pending'[k].to - k.from \in Int
    BY DEF TypeOK, CandidateId, Entry
  <2> QED
    BY <2>1 DEF IntOn
<1>5. SumFunction(g) = SumFunction(f) + g[id]
  <2> HIDE DEF f, g, D, E
  <2> QED
    BY <1>2, <1>3, <1>4, TableGrows
<1> QED
  BY <1>3, <1>5 DEF Undecided, Length

\* A gap the user decides is one less.
LEMMA UndecidedShrinks ==
  ASSUME TypeOK, IsFiniteSet(DOMAIN pending), NEW id \in DOMAIN pending, ~UserDecided(id), GapsKept,
         \A k \in DOMAIN pending : UserDecided(k)' <=> UserDecided(k) \/ k = id
  PROVE  Undecided = Undecided' + Length(id) /\ Undecided' \in Int
<1> DEFINE D == {k \in DOMAIN pending : ~UserDecided(k)}
           E == {k \in DOMAIN pending' : ~UserDecided(k)'}
           f == [k \in D |-> pending[k].to - k.from]
           g == [k \in E |-> pending'[k].to - k.from]
<1>1. DOMAIN pending' = DOMAIN pending /\ \A k \in DOMAIN pending : pending'[k].to = pending[k].to
  BY DEF GapsKept
<1>2. D = E \cup {id} /\ id \notin E /\ IsFiniteSet(E)
  BY <1>1, FS_Subset
<1>3. /\ DOMAIN g = E /\ DOMAIN f = DOMAIN g \cup {id} /\ id \notin DOMAIN g
      /\ \A k \in DOMAIN g : f[k] = g[k]
      /\ f[id] = Length(id)
  BY <1>1, <1>2 DEF Length
<1>4. IntOn(f, DOMAIN f) /\ IntOn(g, DOMAIN g)
  <2>1. \A k \in DOMAIN pending : pending[k].to - k.from \in Int
    BY DEF TypeOK, CandidateId, Entry
  <2>2. IntOn(f, DOMAIN f)
    BY <2>1 DEF IntOn
  <2> QED
    BY <1>3, <2>2 DEF IntOn
<1>5. SumFunction(f) = SumFunction(g) + f[id] /\ SumFunction(g) \in Int
  <2> HIDE DEF f, g, D, E
  <2> QED
    BY <1>2, <1>3, <1>4, TableGrows, SumType DEF SumFunction
<1> QED
  BY <1>3, <1>5 DEF Undecided, Length

\* What was included is at most what is no longer to be decided.
LEMMA IncludedStep ==
  ASSUME EngineInv, EngineInv', SpentWithinElapsed, IncludedOnce, [Next]_vars
  PROVE  IncludedOnce'
<1> SUFFICES ASSUME Len(decided') <= MaxRecent
             PROVE  /\ recent' = decided'
                    /\ \A i \in DOMAIN decided' : decided'[i].id \in DOMAIN pending'
                    /\ IncludedTime' + Undecided' <= RecoverableTime'
  BY DEF IncludedOnce
<1>0. /\ TypeOK /\ TypeOK' /\ GapsForward /\ IsFiniteSet(DOMAIN pending)
      /\ IncludedTime \in Int /\ RecoverableTime \in Int
      /\ \A id \in DOMAIN pending : Length(id) \in Nat
  <2>1. TypeOK /\ TypeOK' /\ GapsForward /\ IsFiniteSet(DOMAIN pending)
    BY DEF EngineInv, SpentWithinElapsed, GapsOutsideCredit, GapsForward
  <2>2. \A id \in DOMAIN pending : Length(id) \in Nat
    BY <2>1 DEF TypeOK, CandidateId, Entry, GapsForward, Length
  <2> QED
    BY <2>1, <2>2, TotalsType
<1>1. Undecided \in Int
  <2> DEFINE f == [id \in {id \in DOMAIN pending : ~UserDecided(id)} |-> Length(id)]
  <2>1. IsFiniteSet(DOMAIN f) /\ IntOn(f, DOMAIN f)
    BY <1>0, FS_Subset DEF IntOn
  <2> QED
    BY <2>1, SumType DEF Undecided, SumFunction
<1>2. \/ NothingDecided
      \/ \E id \in {idleGap, TrailingGap} : ExcludedNow(id) /\ id \notin DOMAIN pending
      \/ \E id \in DOMAIN pending, kind \in {"include", "exclude"} : \E d : DecidedBy(id, kind, d)
  BY <1>0, DecisionShape, NewGap
<1>3. Len(decided) <= MaxRecent
  <2>1. decided \in Seq(Decision) /\ decided' \in Seq(Decision)
    BY <1>0 DEF TypeOK
  <2>2. decided' = decided \/ \E d : decided' = Append(decided, d)
    BY <1>2 DEF NothingDecided, ExcludedNow, DecidedBy
  <2>3. Len(decided) <= Len(decided')
    BY <2>1, <2>2
  <2> QED
    BY <2>1, <2>3, ConstantsAssumption
<1>4. /\ recent = decided /\ IncludedTime + Undecided <= RecoverableTime
      /\ \A i \in DOMAIN decided : decided[i].id \in DOMAIN pending
  BY <1>3 DEF IncludedOnce
<1>5. \A id : UserDecided(id) => id \in DOMAIN pending
  BY <1>4 DEF UserDecided
<1>6. DOMAIN pending \subseteq DOMAIN pending'
  BY GapShape, <1>0 DEF GapsKept, GapAfterIdle, GapAfterSleep, GapAdded
<1>7. CASE NothingDecided
  <2>1. recent' = decided' /\ IncludedTime' = IncludedTime /\ \A k : UserDecided(k)' <=> UserDecided(k)
    BY <1>4, <1>7 DEF NothingDecided, IncludedTime, UserDecided
  <2>2. \A i \in DOMAIN decided' : decided'[i].id \in DOMAIN pending'
    BY <1>4, <1>6, <1>7 DEF NothingDecided
  <2>3. CASE GapsKept
    <3>1. Undecided' = Undecided
      BY <2>1, <2>3, UndecidedKept
    <3> QED
      BY <1>0, <1>4, <2>1, <2>2, <2>3, <3>1, RecoverableKept
  <2>4. ASSUME NEW id, GapAdded(id), id \notin DOMAIN pending
        PROVE  IncludedTime' + Undecided' <= RecoverableTime'
    <3>1. now \in Nat /\ id.from \in Nat
      BY <1>0, <2>4 DEF TypeOK, GapAdded, CandidateId
    <3>2. Undecided' = Undecided + (now - id.from)
      BY <1>0, <1>5, <2>1, <2>4, UndecidedGrows
    <3>3. RecoverableTime' = RecoverableTime + (now - id.from)
      BY <1>0, <2>4, RecoverableGrows
    <3> QED
      BY <1>0, <1>1, <1>4, <2>1, <3>1, <3>2, <3>3
  <2> QED
    BY <1>0, <2>1, <2>2, <2>3, <2>4, GapShape, NewGap DEF GapAfterIdle, GapAfterSleep
<1>8. ASSUME NEW id \in {idleGap, TrailingGap}, ExcludedNow(id), id \notin DOMAIN pending
      PROVE  /\ recent' = decided'
             /\ \A i \in DOMAIN decided' : decided'[i].id \in DOMAIN pending'
             /\ IncludedTime' + Undecided' <= RecoverableTime'
  <2> DEFINE d == AutomaticExclusion(id)
  <2>1. /\ GapAdded(id) /\ d \in Decision /\ decided' = Append(decided, d) /\ recent' = Remember(d)
        /\ id \in DOMAIN pending'
    BY <1>8, AutomaticExclusionType DEF ExcludedNow, GapAdded
  <2>2. d.id = id /\ d.delta = 0 /\ d.automatic
    BY DEF AutomaticExclusion
  <2> HIDE DEF d
  <2>3. /\ recent' = decided' /\ IncludedTime' = IncludedTime + d.delta
        /\ DOMAIN decided' = DOMAIN decided \cup {Len(decided) + 1}
        /\ decided'[Len(decided) + 1] = d
        /\ \A i \in DOMAIN decided : decided'[i] = decided[i]
        /\ \A k : UserDecided(k)' <=> UserDecided(k) \/ (d.id = k /\ ~d.automatic)
    BY <1>0, <1>4, <2>1, DecisionAppended
  <2>4. \A i \in DOMAIN decided' : decided'[i].id \in DOMAIN pending'
    BY <1>4, <1>6, <2>1, <2>2, <2>3
  <2>5. \A k : UserDecided(k)' <=> UserDecided(k)
    BY <2>2, <2>3
  <2>6. now \in Nat /\ id.from \in Nat
    BY <1>0, <2>1 DEF TypeOK, GapAdded, CandidateId
  <2>7. Undecided' = Undecided + (now - id.from)
    BY <1>0, <1>5, <1>8, <2>1, <2>5, UndecidedGrows
  <2>8. RecoverableTime' = RecoverableTime + (now - id.from)
    BY <1>0, <1>8, <2>1, RecoverableGrows
  <2> QED
    BY <1>0, <1>1, <1>4, <2>2, <2>3, <2>4, <2>6, <2>7, <2>8
<1>9. ASSUME NEW id \in DOMAIN pending, NEW kind \in {"include", "exclude"}, NEW d, DecidedBy(id, kind, d)
      PROVE  /\ recent' = decided'
             /\ \A i \in DOMAIN decided' : decided'[i].id \in DOMAIN pending'
             /\ IncludedTime' + Undecided' <= RecoverableTime'
  <2>1. /\ GapsKept /\ ~UserDecided(id) /\ decided' = Append(decided, d) /\ recent' = Remember(d)
        /\ d.id = id /\ ~d.automatic /\ d.delta = Delta(id, kind)
    BY <1>9 DEF DecidedBy
  <2>2. d.delta \in Nat /\ d.delta <= Length(id) /\ Length(id) \in Nat
    BY <1>0, <2>1 DEF Delta, Length
  <2>3. d \in Decision
    BY <1>0, <1>9, <2>1, <2>2 DEF DecidedBy, Decision, TypeOK
  <2>4. /\ recent' = decided' /\ IncludedTime' = IncludedTime + d.delta
        /\ DOMAIN decided' = DOMAIN decided \cup {Len(decided) + 1}
        /\ decided'[Len(decided) + 1] = d
        /\ \A i \in DOMAIN decided : decided'[i] = decided[i]
        /\ \A k : UserDecided(k)' <=> UserDecided(k) \/ (d.id = k /\ ~d.automatic)
    BY <1>0, <1>4, <2>1, <2>3, DecisionAppended
  <2>5. \A i \in DOMAIN decided' : decided'[i].id \in DOMAIN pending'
    BY <1>4, <1>6, <2>1, <2>4
  <2>6. Undecided = Undecided' + Length(id) /\ Undecided' \in Int
    <3>1. \A k \in DOMAIN pending : UserDecided(k)' <=> UserDecided(k) \/ k = id
      BY <2>1, <2>4
    <3> QED
      BY <1>0, <2>1, <3>1, UndecidedShrinks
  <2>7. RecoverableTime' = RecoverableTime
    BY <1>0, <2>1, RecoverableKept
  <2> QED
    BY <1>0, <1>4, <2>2, <2>4, <2>5, <2>6, <2>7
<1> QED
  BY <1>2, <1>7, <1>8, <1>9

\* Nothing is spent before the engine starts.
LEMMA SharesInit == Init => SpentWithinElapsed /\ IncludedOnce
<1> SUFFICES ASSUME Init PROVE SpentWithinElapsed /\ IncludedOnce
  OBVIOUS
<1>1. DOMAIN credited = {} /\ DOMAIN decided = {} /\ DOMAIN pending = {} /\ recent = decided
  BY DEF Init
<1>2. EarnedTime = 0 /\ IncludedTime = 0 /\ RecoverableTime = 0 /\ Undecided = 0
  <2>1. \A f : DOMAIN f = {} => SumFunction(f) = 0
    BY SumEmpty DEF SumFunction
  <2> QED
    BY <1>1, <2>1 DEF EarnedTime, IncludedTime, RecoverableTime, Undecided
<1>3. IsFiniteSet(DOMAIN pending)
  BY <1>1, FS_EmptySet
<1> QED
  BY <1>1, <1>2, <1>3 DEF Init, SpentWithinElapsed, IncludedOnce

\* Credited time and the gaps that may be added to it never exceed what elapsed, however the
\* user decides, undoes or lets go of them (recovery-queue.ts, activity-engine.ts:8-15).
THEOREM SharesInvariant == Spec => [](EngineInv /\ SpentWithinElapsed /\ IncludedOnce)
<1>1. Init => EngineInv /\ SpentWithinElapsed /\ IncludedOnce
  BY EngineInit, SharesInit
<1>2. EngineInv /\ SpentWithinElapsed /\ IncludedOnce /\ [Next]_vars
        => (EngineInv /\ SpentWithinElapsed /\ IncludedOnce)'
  BY EngineStep, SpentStep, IncludedStep
<1> QED
  BY <1>1, <1>2, PTL DEF Spec

\* As long as the queue remembers every decision, all that is credited, included or running is
\* time that elapsed.  (It remembers the last MaxRecent: a candidate decided before them can be
\* included again, recovery-queue.ts:228-236.)
THEOREM NeverMoreThanElapsed ==
  Spec => [](Len(decided) <= MaxRecent => AttributedWithinElapsed)
<1>1. EngineInv /\ SpentWithinElapsed /\ IncludedOnce
        => (Len(decided) <= MaxRecent => AttributedWithinElapsed)
  <2> SUFFICES ASSUME EngineInv, SpentWithinElapsed, IncludedOnce, Len(decided) <= MaxRecent
               PROVE  AttributedWithinElapsed
    OBVIOUS
  <2>1. /\ TypeOK /\ NoOverlap /\ GapsForward /\ IsFiniteSet(DOMAIN pending)
        /\ EarnedTime + RecoverableTime <= now
        /\ open # None => EarnedTime + RecoverableTime <= open.started
    BY DEF EngineInv, SpentWithinElapsed, GapsOutsideCredit, GapsForward
  <2>2. EarnedTime \in Int /\ IncludedTime \in Int /\ RecoverableTime \in Int /\ now \in Nat
    BY <2>1, TotalsType DEF TypeOK
  <2>3. IncludedTime <= RecoverableTime
    <3> DEFINE f == [id \in {id \in DOMAIN pending : ~UserDecided(id)} |-> Length(id)]
    <3>1. IsFiniteSet(DOMAIN f) /\ \A id \in DOMAIN f : f[id] \in Nat
      BY <2>1, FS_Subset DEF TypeOK, CandidateId, Entry, GapsForward, Length
    <3>2. Undecided \in Nat
      BY <3>1, SumNotNegative DEF Undecided, SumFunction
    <3> QED
      BY <2>2, <3>2 DEF IncludedOnce
  <2>4. CASE open = None
    BY <2>1, <2>2, <2>3, <2>4 DEF AttributedWithinElapsed
  <2>5. CASE open # None
    <3>1. /\ open.started \in Nat /\ open.lastTrusted \in Nat
          /\ open.lastTrusted <= now
      BY <2>1, <2>5 DEF TypeOK, NoOverlap, Session
    <3> QED
      BY <2>1, <2>2, <2>3, <2>5, <3>1 DEF AttributedWithinElapsed
  <2> QED
    BY <2>4, <2>5
<1> QED
  BY <1>1, SharesInvariant, PTL

-----------------------------------------------------------------------------
(* The refinement: seen through its open session and its emitted segments  *)
(* only, the engine with all its states, timers and recovery rules is one  *)
(* holder at a time and an append-only record of past holds.               *)

\* The engine starts as the ledger starts.
LEMMA LedgerInitially == Init => Ledger!LedgerInit
  BY DEF Init, Ledger!LedgerInit, Holder

\* A session that starts now makes its file the holder from now on.
LEMMA FreshHolder ==
  ASSUME TypeOK, NEW t \in Targets, NEW n \in 0 .. 1, open' = Fresh(t, n)
  PROVE  Holder' = [file |-> t.file, from |-> now]
<1>1. open' \in Session
  BY DEF Fresh, Session, TypeOK
<1>2. open' # None
  BY <1>1, NoneAssumption
<1> QED
  BY <1>2 DEF Holder, Fresh

\* A session close is a release of the present.
LEMMA CloseReleases ==
  ASSUME EngineInv, NEW reason \in Reasons, NEW s \in {now, open.lastTrusted},
         Closed(s, reason)
  PROVE  Ledger!Release
<1>1. /\ open \in Session /\ s \in Nat /\ open.started <= s /\ s <= now
      /\ \/ credited' = credited
         \/ /\ credited' = Append(credited, ClosedAt(s, reason))
            /\ ClosedAt(s, reason) =
                 [file |-> open.target.file, from |-> open.started, to |-> s,
                  openCount |-> open.openCount, reason |-> reason]
  BY ClosedCredit DEF EngineInv
<1>2. open # None /\ now' = now
  BY DEF Closed
<1>3. Holder = [file |-> open.target.file, from |-> open.started]
  BY <1>2 DEF Holder
<1>4. Holder # None
  <2>1. Holder \in CandidateId
    BY <1>1, <1>3, ConstantsAssumption DEF CandidateId, Session
  <2> QED
    BY <2>1, NoneAssumption
<1>5. s \in Holder.from .. now /\ open.openCount \in 0 .. 1
  BY <1>1, <1>3 DEF Session, EngineInv, TypeOK
<1>6. \/ Holder' = None
      \/ \E f \in Files : f # Holder.file /\ Holder' = [file |-> f, from |-> now]
  <2>1. CASE open' = None
    BY <2>1 DEF Holder
  <2>2. ASSUME NEW t \in Targets, t.file # open.target.file, open' = Fresh(t, 1)
        PROVE  /\ t.file \in Files /\ t.file # Holder.file
               /\ Holder' = [file |-> t.file, from |-> now]
    BY <2>2, <1>3, FreshHolder, ConstantsAssumption DEF EngineInv
  <2> QED
    BY <2>1, <2>2 DEF Closed
<1>7. \/ \E to \in Holder.from .. now, count \in 0 .. 1, why \in Reasons :
           credited' = Append(credited, [file |-> Holder.file, from |-> Holder.from,
                                to |-> to, openCount |-> count, reason |-> why])
      \/ credited' = credited
  BY <1>1, <1>3, <1>5
<1> QED
  BY <1>2, <1>4, <1>6, <1>7 DEF Ledger!Release

\* Every step of the engine is a step of the ledger or leaves it alone.
LEMMA LedgerStep ==
  ASSUME EngineInv, [Next]_vars
  PROVE  [Ledger!LedgerNext]_(Ledger!ledgerVars)
<1> USE DEF Ledger!LedgerNext, Ledger!ledgerVars
<1>1. CASE Kept
  BY <1>1 DEF Kept, Holder, Ledger!Pass
<1>2. CASE Touched
  <2>1. open \in Session
    BY <1>2 DEF Touched, EngineInv, TypeOK
  <2>2. open' # None
    <3>1. open' \in Session
      BY <1>2, <2>1 DEF Touched, Session, EngineInv, TypeOK
    <3> QED
      BY <3>1, NoneAssumption
  <2> QED
    BY <1>2, <2>1, <2>2 DEF Touched, Holder, Session
<1>3. ASSUME NEW t \in Targets, Opened(t) PROVE Ledger!Take
  <2>1. OpenCountFor(t) \in 0 .. 1
    BY DEF OpenCountFor
  <2>2. Holder' = [file |-> t.file, from |-> now]
    BY <1>3, <2>1, FreshHolder DEF Opened, EngineInv
  <2> QED
    BY <1>3, <2>2, ConstantsAssumption DEF Opened, Holder, Ledger!Take
<1>4. ASSUME NEW reason \in Reasons, NEW s \in {now, open.lastTrusted}, Closed(s, reason)
      PROVE  Ledger!Release
  BY <1>4, CloseReleases
<1> QED
  BY <1>1, <1>2, <1>3, <1>4, StepShape DEF EngineInv

\* The engine implements the ledger (activity-engine.ts:8-15): one holder of
\* the present at a time, every hold written once and never rewritten.
THEOREM EngineImplementsLedger == Spec => ImplementsLedger
<1>1. Spec => Ledger!LedgerInit
  BY LedgerInitially DEF Spec
<1>2. EngineInv /\ [Next]_vars => [Ledger!LedgerNext]_(Ledger!ledgerVars)
  BY LedgerStep
<1> QED
  BY <1>1, <1>2, EngineInvariant, PTL DEF Spec, ImplementsLedger, Ledger!LedgerSpec

-----------------------------------------------------------------------------
(*                            The coordinator                              *)


\* The settings tab's stale button stays unused (it leaves a session running
\* outside the active state).
NoStaleResume == "stale-resume" \notin Inputs

\* Appends succeed.
SureAppends == "append" \notin Failures

\* A focus or activity event that asks to resume hands over the sample it was
\* taken with; by the time the refresh submits, that instant may lie behind what
\* the engine did meanwhile.  The two ways in which this does harm are the only
\* uses of an old sample the theorems below exclude.
CarriesSample == Head(queue).sample # None

\* No session is closed before the last instant it was trusted.
ClosesInTime ==
  RefreshUntrackable /\ CarriesSample /\ open # None
    => open.lastTrusted <= Head(queue).sample

SameSession(x, y) == x.target = y.target /\ x.started = y.started

\* No session is opened before the end of a record in the log or on its way.
Ended(q, log, at) ==
  /\ \A i \in DOMAIN log : log[i].to <= at
  /\ \A k \in DOMAIN q : q[k].kind = "session" => q[k].record.to <= at

OpensInTime ==
  IdentityResolved /\ CarriesSample /\ open' # None
    => \/ open # None /\ SameSession(open', open)
       \/ Ended(queue, stored, Head(queue).sample)

-----------------------------------------------------------------------------
(* The chain of checkpoints.                                               *)

IsSequence(q) == q \in Seq({q[i] : i \in DOMAIN q})
CheckpointsOf(q) == {k \in DOMAIN q : q[k].kind = "checkpoint"}
RecordsOf(q)     == {k \in DOMAIN q : q[k].kind = "session"}

\* What a checkpoint can describe of the engine.
Face == [session |-> open, state |-> state, candidates |-> PendingCandidates,
         recent |-> recent]

Describes(c, e) ==
  /\ c.state = e.state /\ DOMAIN c.pending = e.candidates /\ c.recent = e.recent
  /\ e.session # None => c.open # None /\ SameSession(c.open, e.session)
  /\ e.session = None => c.open = None

\* The last checkpoint of the chain describes the engine.
Latest(q, file, e) ==
  /\ CheckpointsOf(q) = {} /\ file # None => Describes(file, e)
  /\ \A k \in CheckpointsOf(q) :
        (\A j \in CheckpointsOf(q) : j <= k) => Describes(q[k].checkpoint, e)

\* The recoverable gaps run forward in time, in the engine and in a checkpoint.
Gap(id, to) == id \in CandidateId /\ to \in Nat /\ id.from <= to

RecoveryTyped ==
  /\ idleGap \in CandidateId \cup {None}
  /\ \A id \in DOMAIN pending : Gap(id, pending[id].to)
  /\ IsSequence(recent)

Recoverable(c) ==
  /\ \A id \in DOMAIN c.pending : Gap(id, c.pending[id])
  /\ IsSequence(c.recent)

WellFormed(c) ==
  /\ c.open \in StoredSession \cup {None}
  /\ c.open # None <=> c.state = "active"
  /\ Recoverable(c)

Formed(q, file) ==
  /\ file # None => WellFormed(file)
  /\ \A k \in CheckpointsOf(q) : WellFormed(q[k].checkpoint)

\* The instants the queued refreshes submit with are past, and the user chooses
\* to include or to exclude.
Samples(q) ==
  \A i \in DOMAIN q :
     /\ q[i].kind = "refresh" /\ q[i].sample # None
          => q[i].sample \in Nat /\ q[i].sample <= now
     /\ q[i].kind = "resolve" => q[i].choice \in {"include", "exclude"}

Places == leaf \in Targets \cup {None} /\ resolving \in Targets \cup {None}

\* The part of the invariant CheckpointCurrent rests on.
CurrentInv ==
  /\ now \in Nat /\ Places
  /\ open \in Session \cup {None}
  /\ RecoveryTyped
  /\ IsSequence(queue)
  /\ Samples(queue)
  /\ Formed(queue, saved)
  /\ life = "down" => queue = <<>>
  /\ life # "down" =>
        /\ open # None <=> state = "active"
        /\ Latest(queue, saved, Face)

\* A checkpoint that names a session with earned time, a task that stores the
\* record of a session, and a record stored or ahead of place k in the queue.
Earned(c) ==
  c # None /\ c.state = "active" /\ c.open # None /\ c.open.lastTrusted > c.open.started
Records(task, session) ==
  /\ task.kind = "session"
  /\ task.record.file = session.target.file /\ task.record.from = session.started
Ahead(q, log, k, session) ==
  Logs(log, session) \/ \E j \in DOMAIN q : j < k /\ Records(q[j], session)

\* The earlier checkpoint's session is in the later one, or its record ahead.
Hands(q, log, c, k) ==
  Earned(c) => \/ /\ q[k].checkpoint.open # None
                  /\ SameSession(q[k].checkpoint.open, c.open)
               \/ Ahead(q, log, k, c.open)

Chain(q, log, file) ==
  \A k \in CheckpointsOf(q) :
    /\ Hands(q, log, file, k)
    /\ \A i \in CheckpointsOf(q) : i < k => Hands(q, log, q[i].checkpoint, k)

\* The engine still runs the session and its close will emit it, or the record
\* is on its way.
Keeps(q, log, c, session) ==
  Earned(c) => \/ /\ session # None /\ SameSession(session, c.open)
                  /\ session.openCount = 1 \/ session.lastTrusted > session.started
               \/ Ahead(q, log, Len(q) + 1, c.open)

Covered(q, log, file, session) ==
  /\ Keeps(q, log, file, session)
  /\ \A k \in CheckpointsOf(q) : Keeps(q, log, q[k].checkpoint, session)

\* The part of the invariant EvidenceBeforeCheckpoint rests on.
EvidenceInv ==
  /\ open # None => open.openCount = 1 \/ open.lastTrusted <= now
  /\ IsSequence(stored)
  /\ Chain(queue, stored, saved)
  /\ life # "down" => Covered(queue, stored, saved, open)

-----------------------------------------------------------------------------
(* Answers before checkpoints.                                             *)

\* A decision is in the log, or in the queue ahead of place k.
Answered(q, log, k, id, automatic) ==
  \/ StoresDecision(log, id, automatic)
  \/ \E j \in DOMAIN q : /\ j < k /\ q[j].kind = "decision"
                         /\ q[j].record.id = id /\ q[j].record.automatic = automatic

\* What is listed as decided is; a candidate of the checkpoint c that is none
\* of `names` is decided.
Backed(q, log, k, decisions) ==
  \A i \in DOMAIN decisions :
     Answered(q, log, k, decisions[i].id, decisions[i].automatic)

Offered(q, log, c, k, names) ==
  c # None => \A id \in DOMAIN c.pending :
                 \/ id \in names
                 \/ \E automatic \in BOOLEAN : Answered(q, log, k, id, automatic)

\* The checkpoints hand the candidates on, and the last one does to the engine.
Settled(q, log, file) ==
  /\ file # None => \A i \in DOMAIN file.recent :
                       StoresDecision(log, file.recent[i].id, file.recent[i].automatic)
  /\ \A k \in CheckpointsOf(q) :
        /\ Backed(q, log, k, q[k].checkpoint.recent)
        /\ Offered(q, log, file, k, DOMAIN q[k].checkpoint.pending)
        /\ \A i \in CheckpointsOf(q) :
              i < k => Offered(q, log, q[i].checkpoint, k, DOMAIN q[k].checkpoint.pending)

Owed(q, log, file, names, decisions) ==
  /\ Backed(q, log, Len(q) + 1, decisions)
  /\ Offered(q, log, file, Len(q) + 1, names)
  /\ \A i \in CheckpointsOf(q) : Offered(q, log, q[i].checkpoint, Len(q) + 1, names)

\* The part of the invariant DecisionBeforeCheckpoint rests on.
DecisionInv ==
  /\ IsSequence(adjusted)
  /\ Settled(queue, adjusted, saved)
  /\ life # "down" => Owed(queue, adjusted, saved, PendingCandidates, recent)

-----------------------------------------------------------------------------
(* The order of the record log.                                            *)

\* Writes of the checkpoint succeed; or every close leaves a record that is
\* stored.
SureSaves   == "checkpoint" \notin Failures
SureRecords == "append" \notin Failures /\ "blur" \notin Inputs

\* A record of this file and start would keep the log in order, or be skipped.
Fits(log, file, from) ==
  \/ \E i \in DOMAIN log : log[i].file = file /\ log[i].from = from
  \/ \A i \in DOMAIN log : log[i].to <= from

\* Between place p, where a checkpoint names the session, and place k stands
\* what keeps a restart from running the session after the record at k.
Parted(q, log, p, k, session) ==
  IF SureSaves THEN \E m \in CheckpointsOf(q) : p < m /\ m < k
  ELSE Ahead(q, log, k, session)

OrderedLog(log, t) ==
  \A j \in DOMAIN log :
    /\ log[j].to \in Nat /\ log[j].to <= t
    /\ \A i \in DOMAIN log : i < j => log[i].to <= log[j].from

OrderedRecords(q, log, t) ==
  \A k \in RecordsOf(q) :
    /\ q[k].record.to \in Nat /\ q[k].record.to <= t /\ q[k].record.from \in Nat
    /\ Fits(log, q[k].record.file, q[k].record.from)
    /\ \A j \in RecordsOf(q) : j < k => q[j].record.to <= q[k].record.from

\* The session that runs starts after every record on its way.
Follows(q, log, session, t) ==
  session # None =>
    /\ session.started \in Nat /\ session.lastTrusted \in Nat /\ session.lastTrusted <= t
    /\ Fits(log, session.target.file, session.started)
    /\ \A k \in RecordsOf(q) : q[k].record.to <= session.started

\* A restart from checkpoint c at place p (0: the one on disk) would run a
\* session that fits the log of that moment.
Tied(q, log, c, p, session, t) ==
  c # None /\ c.open # None =>
    /\ c.open.lastTrusted <= t
    /\ Fits(log, c.open.target.file, c.open.started)
    /\ \A k \in RecordsOf(q) :
          /\ k < p => q[k].record.to <= c.open.started
          /\ p < k => Records(q[k], c.open) \/ Parted(q, log, p, k, c.open)
    /\ \/ session # None /\ SameSession(session, c.open)
       \/ Parted(q, log, p, Len(q) + 1, c.open)

Tidy(q, log, file, session, t) ==
  /\ OrderedLog(log, t) /\ OrderedRecords(q, log, t) /\ Follows(q, log, session, t)
  /\ Tied(q, log, file, 0, session, t)
  /\ \A p \in CheckpointsOf(q) : Tied(q, log, q[p].checkpoint, p, session, t)

\* The checkpoint's session, as a restart would run it.
Restored ==
  IF HadSession THEN [target |-> saved.open.target, started |-> saved.open.started,
                      lastTrusted |-> saved.open.lastTrusted, openCount |-> 1]
  ELSE None

\* The part of the invariant StoredNoOverlap rests on.
OrderInv ==
  /\ IsSequence(stored)
  /\ SureRecords => ~blurred /\ (life # "down" /\ open # None => open.openCount = 1)
  /\ Tidy(queue, stored, saved, IF life = "down" THEN Restored ELSE open, now)

-----------------------------------------------------------------------------
(* Sequences of anything.                                                  *)

\* A function on 1 .. n is a sequence of its own elements.
LEMMA SequenceIntro ==
  ASSUME NEW S, NEW q \in Seq(S)
  PROVE  IsSequence(q) /\ DOMAIN q = 1 .. Len(q) /\ Len(q) \in Nat
<1> DEFINE R == {q[i] : i \in DOMAIN q}
<1>1. Len(q) \in Nat /\ DOMAIN q = 1 .. Len(q) /\ q \in [1 .. Len(q) -> S]
  BY LenProperties
<1>2. q \in [1 .. Len(q) -> R]
  BY <1>1
<1>3. q \in Seq(R)
  <2> HIDE DEF R
  <2> QED
    BY <1>1, <1>2, SeqDef
<1> QED
  BY <1>1, <1>3 DEF IsSequence

LEMMA SequenceElim ==
  ASSUME NEW q, IsSequence(q)
  PROVE  DOMAIN q = 1 .. Len(q) /\ Len(q) \in Nat
  BY LenProperties DEF IsSequence

\* Appending one sequence to another.
LEMMA Joined ==
  ASSUME NEW p, NEW q, IsSequence(p), IsSequence(q)
  PROVE  /\ IsSequence(p \o q)
         /\ DOMAIN p = 1 .. Len(p) /\ Len(p) \in Nat
         /\ DOMAIN q = 1 .. Len(q) /\ Len(q) \in Nat
         /\ DOMAIN (p \o q) = 1 .. Len(p) + Len(q)
         /\ Len(p \o q) = Len(p) + Len(q)
         /\ \A i \in DOMAIN p : (p \o q)[i] = p[i]
         /\ \A i \in DOMAIN q : (p \o q)[Len(p) + i] = q[i]
         /\ \A k \in DOMAIN (p \o q) :
               k \in DOMAIN p \/ (k - Len(p) \in DOMAIN q /\ (p \o q)[k] = q[k - Len(p)])
<1> DEFINE S == {p[i] : i \in DOMAIN p} \cup {q[i] : i \in DOMAIN q}
<1>1. p \in Seq(S) /\ q \in Seq(S)
  <2>1. /\ p \in [1 .. Len(p) -> {p[i] : i \in DOMAIN p}] /\ Len(p) \in Nat
        /\ q \in [1 .. Len(q) -> {q[i] : i \in DOMAIN q}] /\ Len(q) \in Nat
    BY LenProperties DEF IsSequence
  <2>2. p \in [1 .. Len(p) -> S] /\ q \in [1 .. Len(q) -> S]
    BY <2>1
  <2> HIDE DEF S
  <2> QED
    BY <2>1, <2>2, SeqDef
<1> HIDE DEF S
<1>2. p \o q \in Seq(S)
  BY <1>1
<1>3. IsSequence(p \o q)
  BY <1>2, SequenceIntro
<1>4. /\ DOMAIN p = 1 .. Len(p) /\ Len(p) \in Nat
      /\ DOMAIN q = 1 .. Len(q) /\ Len(q) \in Nat
  BY SequenceElim
<1>5. /\ Len(p \o q) = Len(p) + Len(q)
      /\ \A i \in 1 .. Len(p) + Len(q) :
            (p \o q)[i] = IF i <= Len(p) THEN p[i] ELSE q[i - Len(p)]
  BY <1>1, ConcatProperties
<1>6. DOMAIN (p \o q) = 1 .. Len(p) + Len(q)
  BY <1>3, <1>5, SequenceElim
<1>7. \A i \in DOMAIN p : (p \o q)[i] = p[i]
  BY <1>4, <1>5
<1>8. \A i \in DOMAIN q : (p \o q)[Len(p) + i] = q[i]
  BY <1>4, <1>5
<1>9. \A k \in DOMAIN (p \o q) :
         k \in DOMAIN p \/ (k - Len(p) \in DOMAIN q /\ (p \o q)[k] = q[k - Len(p)])
  BY <1>4, <1>5, <1>6
<1> QED
  BY <1>3, <1>4, <1>5, <1>6, <1>7, <1>8, <1>9

\* The head leaves.
LEMMA Popped ==
  ASSUME NEW q, IsSequence(q), q # <<>>
  PROVE  /\ IsSequence(Tail(q))
         /\ Len(q) \in Nat \ {0} /\ DOMAIN q = 1 .. Len(q) /\ Head(q) = q[1]
         /\ Len(Tail(q)) = Len(q) - 1
         /\ DOMAIN Tail(q) = 1 .. Len(q) - 1
         /\ \A i \in DOMAIN Tail(q) : Tail(q)[i] = q[i + 1]
<1> DEFINE S == {q[i] : i \in DOMAIN q}
<1>1. q \in Seq(S)
  BY DEF IsSequence
<1> HIDE DEF S
<1>2. Tail(q) \in Seq(S) /\ Len(Tail(q)) = Len(q) - 1
      /\ \A i \in 1 .. Len(Tail(q)) : Tail(q)[i] = q[i + 1]
  BY <1>1, HeadTailProperties
<1>3. Len(q) \in Nat /\ Len(q) # 0 /\ DOMAIN q = 1 .. Len(q) /\ Head(q) = q[1]
  BY <1>1, EmptySeq, LenProperties
<1>4. IsSequence(Tail(q)) /\ DOMAIN Tail(q) = 1 .. Len(Tail(q))
  BY <1>2, SequenceIntro
<1> QED
  BY <1>2, <1>3, <1>4

LEMMA Single ==
  ASSUME NEW x
  PROVE  IsSequence(<<x>>) /\ DOMAIN <<x>> = {1} /\ <<x>>[1] = x /\ Len(<<x>>) = 1
<1>1. <<x>> \in Seq({x}) /\ Len(<<x>>) = 1
  OBVIOUS
<1>2. IsSequence(<<x>>) /\ DOMAIN <<x>> = 1 .. 1
  BY <1>1, SequenceIntro
<1> QED
  BY <1>1, <1>2

LEMMA EmptySequence == IsSequence(<<>>) /\ DOMAIN <<>> = {} /\ Len(<<>>) = 0
<1>1. <<>> \in Seq({1}) /\ Len(<<>>) = 0
  OBVIOUS
<1>2. IsSequence(<<>>) /\ DOMAIN <<>> = 1 .. 0
  BY <1>1, SequenceIntro
<1> QED
  BY <1>1, <1>2

\* Sequences of anything stay sequences of anything more.
LEMMA SequenceGrows ==
  ASSUME NEW q, IsSequence(q), NEW S, \A i \in DOMAIN q : q[i] \in S
  PROVE  q \in Seq(S)
<1> DEFINE R == {q[i] : i \in DOMAIN q}
<1>1. q \in [1 .. Len(q) -> R] /\ Len(q) \in Nat /\ DOMAIN q = 1 .. Len(q)
  BY LenProperties DEF IsSequence
<1>2. q \in [1 .. Len(q) -> S]
  BY <1>1
<1> HIDE DEF R
<1> QED
  BY <1>1, <1>2, SeqDef

-----------------------------------------------------------------------------
(* What one engine call at sample s does to the session and the callbacks. *)

\* The session goes on, touched at most.
GoesOn ==
  /\ open # None /\ open' # None /\ SameSession(open', open)
  /\ open'.openCount = open.openCount /\ open'.lastTrusted >= open.lastTrusted

\* The segment of this step is the session's record.
Emitted ==
  /\ out'.segment # None
  /\ out'.segment.file = open.target.file /\ out'.segment.from = open.started

\* The session may vanish without a record.
Unearned(s) ==
  open.openCount = 0 /\ (open.lastTrusted <= open.started \/ s < open.lastTrusted)

\* A candidate stays one, or the call decides it; what is remembered as decided
\* was remembered before, or the call decides it.
Settles ==
  /\ RecoveryTyped'
  /\ out'.decision # None => out'.decision.automatic \in BOOLEAN
  /\ \A id \in PendingCandidates :
        id \in PendingCandidates' \/ (out'.decision # None /\ out'.decision.id = id)
  /\ \A i \in DOMAIN recent' :
        \/ \E j \in DOMAIN recent : recent'[i] = recent[j]
        \/ out'.decision # None /\ recent'[i] = out'.decision

EngineCall(s) ==
  /\ Settles
  /\ open' \in Session \cup {None}
  /\ open' # None <=> state' = "active"
  /\ \/ out'.flush
     \/ /\ state' = state /\ PendingCandidates' = PendingCandidates /\ recent' = recent
        /\ GoesOn \/ open' = open
  /\ open # None => GoesOn \/ Emitted \/ Unearned(s)
  /\ open' # None => open'.lastTrusted = s \/ open' = open
  /\ open' # None => (GoesOn /\ out'.segment = None) \/ open'.started = s
  /\ out'.segment # None =>
        open # None /\ Emitted /\ out'.segment.to \in {s, open.lastTrusted}
  /\ open' # None /\ open'.openCount = 0 => GoesOn \/ blurred
  /\ blurred' \in {blurred, FALSE} \/ "blur" \in Inputs

\* What a call relies on.
Ready(s) ==
  /\ open \in Session \cup {None} /\ s \in Nat
  /\ open # None <=> state = "active"
  /\ RecoveryTyped

LEMMA EmitCallbacks ==
  ASSUME NEW seg, NEW d, NEW fl, Emit(seg, d, fl)
  PROVE  out'.segment = seg /\ out'.decision = d /\ out'.flush = fl
  BY DEF Emit

\* What a call does to the recovery queue: nothing.
LEMMA NothingSettled ==
  ASSUME RecoveryTyped, RecoveryUnchanged, idleGap' \in CandidateId \cup {None},
         out'.decision = None
  PROVE  Settles
<1>1. PendingCandidates' = PendingCandidates
  BY DEF RecoveryUnchanged, PendingCandidates
<1>2. RecoveryTyped'
  BY DEF RecoveryTyped, RecoveryUnchanged, Gap, IsSequence
<1> QED
  BY <1>1, <1>2 DEF Settles, RecoveryUnchanged

\* The recent decisions are older ones and the new one.
LEMMA Remembered ==
  ASSUME IsSequence(recent), NEW d
  PROVE  /\ IsSequence(Remember(d))
         /\ \A i \in DOMAIN Remember(d) :
               Remember(d)[i] = d \/ \E j \in DOMAIN recent : Remember(d)[i] = recent[j]
<1> DEFINE S == {recent[j] : j \in DOMAIN recent} \cup {d}
           all == Append(recent, d)
           new == Remember(d)
<1>1. all \in Seq(S) /\ d \in S
  <2>1. \A j \in DOMAIN recent : recent[j] \in S
    OBVIOUS
  <2>2. d \in S
    OBVIOUS
  <2> HIDE DEF S
  <2>3. recent \in Seq(S)
    BY <2>1, SequenceGrows
  <2> QED
    BY <2>2, <2>3
<1>2. new = all \/ (Len(all) > MaxRecent /\ new = SubSeq(all, Len(all) - MaxRecent + 1, Len(all)))
  BY DEF Remember
<1> HIDE DEF S, all, new
<1>3. Len(all) \in Nat
  BY <1>1, LenProperties
<1>4. new \in Seq(S)
  <2>1. Len(all) > MaxRecent => Len(all) - MaxRecent + 1 \in 1 .. Len(all) + 1
    BY <1>3, ConstantsAssumption
  <2>2. CASE new = all
    BY <1>1, <2>2
  <2>3. CASE Len(all) > MaxRecent /\ new = SubSeq(all, Len(all) - MaxRecent + 1, Len(all))
    <3>1. SubSeq(all, Len(all) - MaxRecent + 1, Len(all)) \in Seq(S)
      BY <1>1, <2>1, <2>3, SubSeqProperties
    <3> QED
      BY <2>3, <3>1
  <2> QED
    BY <1>2, <2>2, <2>3
<1>5. \A i \in DOMAIN new : new[i] \in S
  BY <1>4, LenProperties
<1>6. IsSequence(new)
  BY <1>4, SequenceIntro
<1> QED
  BY <1>5, <1>6 DEF S, new

\* A gap excluded on the spot.
LEMMA ExcludedSettles ==
  ASSUME RecoveryTyped, NEW id \in CandidateId, NEW s \in Nat, id.from <= s,
         ExcludeGap(id, s), out'.decision = AutomaticExclusion(id),
         idleGap' \in CandidateId \cup {None}
  PROVE  Settles
<1> DEFINE d == AutomaticExclusion(id)
<1>1. d # None /\ d.id = id /\ d.automatic \in BOOLEAN
  BY AutomaticExclusionType, NoneAssumption DEF AutomaticExclusion
<1>2. recent' = Remember(d) /\ IsSequence(recent)
  BY DEF ExcludeGap, RecoveryTyped
<1> HIDE DEF d
<1>3. /\ DOMAIN pending' = DOMAIN pending \cup {id} /\ pending'[id].to = s
      /\ \A other \in DOMAIN pending \ {id} : pending'[other] = pending[other]
  BY DEF ExcludeGap, Put
<1>4. \A other \in PendingCandidates : other = id \/ other \in PendingCandidates'
  BY <1>3 DEF PendingCandidates
<1>5. /\ IsSequence(recent')
      /\ \A i \in DOMAIN recent' : recent'[i] = d \/ \E j \in DOMAIN recent : recent'[i] = recent[j]
  BY <1>2, Remembered
<1>6. \A other \in DOMAIN pending' : Gap(other, pending'[other].to)
  BY <1>3 DEF RecoveryTyped, Gap
<1>7. RecoveryTyped'
  BY <1>5, <1>6 DEF RecoveryTyped, Gap, IsSequence
<1>8. out'.decision = d
  BY DEF d
<1> QED
  BY <1>1, <1>4, <1>5, <1>7, <1>8 DEF Settles

\* A gap offered to the user.
LEMMA OfferedSettles ==
  ASSUME RecoveryTyped, NEW id, NEW to, Gap(id, to),
         pending' = Put(pending, id, [to |-> to, undoUntil |-> None, resolved |-> FALSE]),
         recent' = recent, out'.decision = None, idleGap' \in CandidateId \cup {None}
  PROVE  Settles
<1>1. /\ DOMAIN pending' = DOMAIN pending \cup {id} /\ pending'[id].to = to
      /\ ~pending'[id].resolved /\ pending'[id].undoUntil = None
      /\ \A other \in DOMAIN pending \ {id} : pending'[other] = pending[other]
  BY DEF Put
<1>2. \A other \in PendingCandidates : other \in PendingCandidates'
  BY <1>1 DEF PendingCandidates
<1>3. \A other \in DOMAIN pending' : Gap(other, pending'[other].to)
  BY <1>1 DEF RecoveryTyped, Gap
<1>4. RecoveryTyped'
  BY <1>3 DEF RecoveryTyped, Gap, IsSequence
<1> QED
  BY <1>2, <1>4 DEF Settles

LEMMA OpenSettles ==
  ASSUME RecoveryTyped, NEW s \in Nat, NEW t, OpenFromNothing(s, t)
  PROVE  Settles
<1>1. idleGap' \in CandidateId \cup {None}
  BY DEF OpenFromNothing, RecoveryTyped
<1>2. ResumesGap(s) => idleGap \in CandidateId /\ idleGap.from <= s
  <2>1. ResumesGap(s) => idleGap \in CandidateId /\ idleGap.from \in Nat /\ s > idleGap.from
    BY DEF ResumesGap, RecoveryTyped, CandidateId
  <2> QED
    BY <2>1
<1>3. CASE OpenPlainly(s, t)
  BY <1>1, <1>3, NothingSettled, EmitCallbacks DEF OpenPlainly
<1>4. CASE OpenAfterShortGap(s, t)
  <2>1. Gap(idleGap, s)
    BY <1>2, <1>4 DEF Gap, OpenAfterShortGap
  <2>2. out'.decision = None
    BY <1>4, EmitCallbacks DEF OpenAfterShortGap
  <2> QED
    BY <1>1, <1>4, <2>1, <2>2, OfferedSettles DEF OpenAfterShortGap
<1>5. CASE OpenAfterLongGap(s, t)
  <2>1. out'.decision = AutomaticExclusion(idleGap)
    BY <1>5, EmitCallbacks DEF OpenAfterLongGap
  <2> QED
    BY <1>1, <1>2, <1>5, <2>1, ExcludedSettles DEF OpenAfterLongGap
<1> QED
  BY <1>3, <1>4, <1>5 DEF OpenFromNothing

LEMMA HeartbeatSettles ==
  ASSUME RecoveryTyped, open \in Session \cup {None}, NEW s \in Nat,
         HandleHeartbeat(s, HeartbeatGap)
  PROVE  Settles
<1> DEFINE id == TrailingGap
<1>1. open \in Session /\ open.lastTrusted \in Nat /\ open.target.file \in Files
  BY ConstantsAssumption DEF HandleHeartbeat, Session
<1>2. id \in CandidateId /\ id.from = open.lastTrusted
  BY <1>1 DEF TrailingGap, CandidateId
<1>3. s - open.lastTrusted > 2 * HeartbeatGap /\ idleGap' = None
  BY DEF HandleHeartbeat
<1>4. id.from <= s
  BY <1>1, <1>2, <1>3, ConstantsAssumption
<1>5. CASE RecoveryUnchanged /\ out'.decision = None
  BY <1>3, <1>5, NothingSettled
<1>6. CASE ExcludeGap(id, s) /\ out'.decision = AutomaticExclusion(id)
  <2> HIDE DEF id
  <2> QED
    BY <1>2, <1>3, <1>4, <1>6, ExcludedSettles
<1> QED
  BY <1>5, <1>6, EmitCallbacks DEF HandleHeartbeat

LEMMA UndoSettles ==
  ASSUME RecoveryTyped, NEW id \in DOMAIN pending, NEW s, UndoAutomaticExclusion(id, s)
  PROVE  Settles
<1>1. Gap(id, pending[id].to)
  BY DEF RecoveryTyped
<1>2. out'.decision = None /\ idleGap' \in CandidateId \cup {None}
  BY EmitCallbacks DEF UndoAutomaticExclusion, RecoveryTyped
<1> QED
  BY <1>1, <1>2, OfferedSettles DEF UndoAutomaticExclusion

\* The user's decision.
LEMMA ResolveSettles ==
  ASSUME RecoveryTyped, NEW id, NEW choice \in {"include", "exclude"}, NEW s,
         ResolveRecovery(id, choice, s)
  PROVE  Settles
<1> DEFINE d == [id |-> id, kind |-> choice, automatic |-> FALSE, delta |-> Delta(id, choice)]
<1>1. id \in DOMAIN pending /\ Gap(id, pending[id].to)
  BY DEF ResolveRecovery, RecoveryTyped
<1>2. Delta(id, choice) \in Nat
  BY <1>1 DEF Delta, Gap, CandidateId
<1>3. d \in Decision
  BY <1>1, <1>2 DEF Gap, Decision
<1>4. d # None /\ d.id = id /\ d.automatic \in BOOLEAN
  BY <1>3, NoneAssumption
<1>5. /\ Emit(None, d, TRUE) /\ recent' = Remember(d)
      /\ pending' = Put(pending, id,
                        [to |-> pending[id].to, undoUntil |-> None, resolved |-> TRUE])
      /\ idleGap' = idleGap
  BY DEF ResolveRecovery
<1> HIDE DEF d
<1>6. out'.decision = d
  BY <1>5, EmitCallbacks
<1>7. /\ DOMAIN pending' = DOMAIN pending /\ pending'[id].to = pending[id].to
      /\ \A other \in DOMAIN pending \ {id} : pending'[other] = pending[other]
  BY <1>1, <1>5 DEF Put
<1>8. \A other \in PendingCandidates : other = id \/ other \in PendingCandidates'
  BY <1>7 DEF PendingCandidates
<1>9. /\ IsSequence(recent')
      /\ \A i \in DOMAIN recent' : recent'[i] = d \/ \E j \in DOMAIN recent : recent'[i] = recent[j]
  BY <1>5, Remembered DEF RecoveryTyped
<1>10. \A other \in DOMAIN pending' : Gap(other, pending'[other].to)
  BY <1>7 DEF RecoveryTyped
<1>11. RecoveryTyped'
  BY <1>5, <1>9, <1>10 DEF RecoveryTyped, Gap, IsSequence
<1> QED
  BY <1>4, <1>6, <1>8, <1>9, <1>11 DEF Settles

\* A close at or after the session's start keeps what was earned.
LEMMA ClosedAtEmits ==
  ASSUME open \in Session, NEW s \in Nat, NEW reason \in Reasons,
         open.openCount # 0 \/ s > open.started
  PROVE  /\ ClosedAt(s, reason) # None
         /\ ClosedAt(s, reason).file = open.target.file
         /\ ClosedAt(s, reason).from = open.started
         /\ ClosedAt(s, reason).to = s
<1> DEFINE seg == [file |-> open.target.file, from |-> open.started, to |-> s,
                   openCount |-> open.openCount, reason |-> reason]
<1>1. /\ open.target \in Targets /\ open.started \in Nat /\ open.openCount \in 0 .. 1
  BY DEF Session
<1>2. ClosedAt(s, reason) = seg
  BY <1>1 DEF ClosedAt
<1>3. seg \in Segment
  BY <1>1, ConstantsAssumption DEF Segment
<1> QED
  BY <1>2, <1>3, NoneAssumption

\* What a close emits is the session's record, up to the instant of the close.
LEMMA ClosedAtRecords ==
  ASSUME NEW s, NEW reason, ClosedAt(s, reason) # None, out'.segment = ClosedAt(s, reason)
  PROVE  Emitted /\ out'.segment.to = s
  BY DEF ClosedAt, Emitted

\* Closing at s, or at the last trusted instant.
LEMMA CloseCall ==
  ASSUME NEW s \in Nat, Ready(s), NEW at \in Nat, NEW reason \in Reasons,
         CloseOpen(at, reason), at = s \/ (open # None /\ at = open.lastTrusted),
         state' # "active", blurred' \in {blurred, FALSE} \/ "blur" \in Inputs,
         RecoveryUnchanged, idleGap' \in CandidateId \cup {None}
  PROVE  EngineCall(s)
<1>1. /\ open' = None /\ out'.flush
      /\ out'.segment = (IF open = None THEN None ELSE ClosedAt(at, reason))
  BY EmitCallbacks DEF CloseOpen
<1>2. open # None => Emitted \/ Unearned(s)
  <2> SUFFICES ASSUME open # None, ~Unearned(s) PROVE Emitted
    OBVIOUS
  <2>1. open \in Session /\ open.started \in Nat /\ open.lastTrusted \in Nat
    BY DEF Ready, Session
  <2>2. open.openCount # 0 \/ at > open.started
    BY <2>1 DEF Unearned
  <2> QED
    BY <1>1, <2>1, <2>2, ClosedAtEmits DEF Emitted
<1>3. out'.segment # None =>
         open # None /\ Emitted /\ out'.segment.to \in {s, open.lastTrusted}
  BY <1>1, ClosedAtRecords
<1>4. Settles
  BY NothingSettled, EmitCallbacks DEF CloseOpen, Ready
<1> QED
  BY <1>1, <1>2, <1>3, <1>4 DEF EngineCall

\* A touch at s.
LEMMA RefreshCall ==
  ASSUME NEW s \in Nat, Ready(s), open # None, RefreshActivity(s),
         UNCHANGED <<state, pending, recent, idleGap>>, blurred' \in {blurred, FALSE}
  PROVE  EngineCall(s)
<1>1. open \in Session /\ open.lastTrusted \in Nat
  BY DEF Ready, Session
<1>2. open' = [open EXCEPT !.lastTrusted = s] /\ s >= open.lastTrusted
  BY DEF RefreshActivity
<1>3. open' \in Session
  BY <1>1, <1>2 DEF Session
<1>4. GoesOn /\ open'.lastTrusted = s
  BY <1>1, <1>2, <1>3, NoneAssumption DEF GoesOn, SameSession, Session
<1>5. PendingCandidates' = PendingCandidates
  BY DEF PendingCandidates
<1>6. out'.segment = None
  BY EmitCallbacks DEF RefreshActivity
<1>7. Settles
  BY NothingSettled, EmitCallbacks DEF RefreshActivity, RecoveryUnchanged, Ready, RecoveryTyped
<1> QED
  BY <1>3, <1>4, <1>5, <1>6, <1>7 DEF EngineCall, Ready, GoesOn

LEMMA QuietCall ==
  ASSUME NEW s, Ready(s), Quiet
  PROVE  EngineCall(s)
<1>1. /\ open' = open /\ state' = state /\ recent' = recent /\ blurred' = blurred
      /\ out'.segment = None
  BY DEF Quiet, Silent
<1>2. PendingCandidates' = PendingCandidates
  BY DEF Quiet, PendingCandidates
<1>3. open # None => GoesOn
  BY <1>1 DEF GoesOn, SameSession, Ready, Session
<1>4. Settles
  BY NothingSettled DEF Quiet, Silent, RecoveryUnchanged, Ready, RecoveryTyped
<1> QED
  BY <1>1, <1>2, <1>3, <1>4, NoneAssumption DEF EngineCall, Ready

LEMMA FocusTargetCall ==
  ASSUME NEW s \in Nat, Ready(s), NEW t \in Targets, HandleFocusTarget(s, t)
  PROVE  EngineCall(s)
<1>1. CASE OpenFromNothing(s, t)
  <2>1. out'.flush /\ out'.segment = None /\ blurred' = FALSE
    BY <1>1, EmitCallbacks
       DEF OpenFromNothing, OpenPlainly, OpenAfterShortGap, OpenAfterLongGap
  <2>2. OpenCountFor(t) \in 0 .. 1 /\ (OpenCountFor(t) = 0 => blurred)
    BY DEF OpenCountFor
  <2>3. /\ open' \in Session /\ state' = "active"
        /\ open'.lastTrusted = s /\ open'.started = s
        /\ open'.openCount = OpenCountFor(t)
    BY <1>1, <2>2 DEF OpenFromNothing, OpenSession, EnterState, Session
  <2>4. Settles
    BY <1>1, OpenSettles DEF Ready
  <2> QED
    BY <1>1, <2>1, <2>2, <2>3, <2>4, NoneAssumption DEF EngineCall, OpenFromNothing
<1>2. CASE RefreshSameFile(s, t)
  <2>1. /\ open # None /\ RefreshActivity(s) /\ UNCHANGED <<state, pending, recent, idleGap>>
        /\ blurred' = FALSE
    BY <1>2 DEF RefreshSameFile, RecoveryUnchanged
  <2> QED
    BY <2>1, RefreshCall
<1>3. CASE SwitchFile(s, t)
  <2>1. /\ open # None /\ out'.flush /\ out'.segment = ClosedAt(s, "file-switch")
        /\ blurred' = blurred
    BY <1>3, EmitCallbacks DEF SwitchFile
  <2>2. /\ open' \in Session /\ state' = "active"
        /\ open'.lastTrusted = s /\ open'.started = s /\ open'.openCount = 1
    BY <1>3 DEF SwitchFile, OpenSession, EnterState, Session
  <2>3. Emitted \/ Unearned(s)
    <3>1. open \in Session /\ open.started \in Nat /\ open.lastTrusted \in Nat
      BY <1>3 DEF SwitchFile, Ready, Session
    <3>2. SUFFICES ASSUME ~Unearned(s) PROVE Emitted
      OBVIOUS
    <3>3. open.openCount # 0 \/ s > open.started
      BY <3>1, <3>2 DEF Unearned
    <3> QED
      BY <2>1, <3>1, <3>3, ClosedAtEmits DEF Emitted, Reasons
  <2>4. out'.segment # None =>
           open # None /\ Emitted /\ out'.segment.to \in {s, open.lastTrusted}
    BY <2>1, ClosedAtRecords
  <2>5. Settles
    BY <1>3, NothingSettled, EmitCallbacks DEF SwitchFile, Ready, RecoveryTyped
  <2> QED
    BY <2>1, <2>2, <2>3, <2>4, <2>5, NoneAssumption DEF EngineCall
<1> QED
  BY <1>1, <1>2, <1>3 DEF HandleFocusTarget

LEMMA HeartbeatCall ==
  ASSUME NEW s \in Nat, Ready(s), HandleHeartbeat(s, HeartbeatGap)
  PROVE  EngineCall(s)
<1>1. /\ open # None /\ open' = None /\ state' = "idle"
      /\ out'.flush /\ out'.segment = ClosedAt(open.lastTrusted, "sleep")
      /\ blurred' = blurred
  BY EmitCallbacks DEF HandleHeartbeat, EnterState
<1>2. open \in Session /\ open.started \in Nat /\ open.lastTrusted \in Nat
  BY <1>1 DEF Ready, Session
<1>3. Emitted \/ Unearned(s)
  <2>1. SUFFICES ASSUME ~Unearned(s) PROVE Emitted
    OBVIOUS
  <2>2. open.openCount # 0 \/ open.lastTrusted > open.started
    BY <1>2, <2>1 DEF Unearned
  <2> QED
    BY <1>1, <1>2, <2>2, ClosedAtEmits DEF Emitted, Reasons
<1>4. out'.segment # None =>
         open # None /\ Emitted /\ out'.segment.to \in {s, open.lastTrusted}
  BY <1>1, ClosedAtRecords
<1>5. Settles
  BY HeartbeatSettles DEF Ready
<1> QED
  BY <1>1, <1>3, <1>4, <1>5 DEF EngineCall

-----------------------------------------------------------------------------
(* The callbacks of one engine call as tasks.                              *)

\* A decision stands before every checkpoint.
Answers(ext, decision) ==
  \E j \in DOMAIN ext : /\ ext[j].kind = "decision" /\ ext[j].record = decision
                        /\ \A k \in CheckpointsOf(ext) : j < k

\* `ext` carries the callbacks of a call: checkpoints of its outcome, and
\* before them the record of the session it closed and the decision it took.
Announces(ext, o, cp) ==
  /\ IsSequence(ext)
  /\ \A k \in CheckpointsOf(ext) : ext[k].checkpoint = cp
  /\ o.flush => CheckpointsOf(ext) # {}
  /\ o.segment # None => RecordsOf(ext) # {}
  /\ \A j \in RecordsOf(ext) :
        /\ o.segment # None /\ ext[j].record = o.segment
        /\ RecordsOf(ext) = {j}
        /\ \A k \in CheckpointsOf(ext) : j < k
  /\ o.decision # None => Answers(ext, o.decision)

\* Neither evidence nor checkpoints.
Plain(ext) ==
  IsSequence(ext) /\ \A i \in DOMAIN ext : ext[i].kind \notin {"session", "checkpoint"}

LEMMA TasksAnnounce ==
  ASSUME NEW o, NEW cp
  PROVE  /\ Announces(Tasks(o, cp), o, cp)
         /\ \A i \in DOMAIN Tasks(o, cp) : Tasks(o, cp)[i].kind \notin {"refresh", "resolve"}
<1> DEFINE a == IF o.segment = None THEN <<>>
                ELSE <<[kind |-> "session", record |-> o.segment]>>
           b == IF o.decision = None THEN <<>>
                ELSE <<[kind |-> "decision", record |-> o.decision]>>
           c == IF o.flush THEN <<[kind |-> "checkpoint", checkpoint |-> cp]>> ELSE <<>>
           ext == (a \o b) \o c
<1>1. /\ IsSequence(a)
      /\ \A i \in DOMAIN a : /\ i = 1 /\ o.segment # None
                            /\ a[i].kind = "session" /\ a[i].record = o.segment
      /\ o.segment # None => 1 \in DOMAIN a
  BY Single, EmptySequence
<1>2. /\ IsSequence(b) /\ \A i \in DOMAIN b : b[i].kind = "decision"
      /\ o.decision # None => 1 \in DOMAIN b /\ b[1].record = o.decision
  BY Single, EmptySequence
<1>3. /\ IsSequence(c)
      /\ \A i \in DOMAIN c : c[i].kind = "checkpoint" /\ c[i].checkpoint = cp
      /\ o.flush => 1 \in DOMAIN c
  BY Single, EmptySequence
<1>4. Tasks(o, cp) = ext
  BY DEF Tasks
<1> HIDE DEF a, b, c
<1>5. /\ IsSequence(a \o b)
      /\ DOMAIN a = 1 .. Len(a) /\ Len(a) \in Nat
      /\ DOMAIN (a \o b) = 1 .. Len(a \o b) /\ Len(a \o b) \in Nat
      /\ \A i \in DOMAIN a : i \in DOMAIN (a \o b) /\ (a \o b)[i] = a[i]
      /\ \A i \in DOMAIN (a \o b) :
            \/ i \in DOMAIN a /\ (a \o b)[i].kind = "session"
            \/ (a \o b)[i].kind = "decision"
      /\ \A i \in DOMAIN b : \E j \in DOMAIN (a \o b) : (a \o b)[j] = b[i]
  <2> DEFINE r == a \o b
  <2>1. /\ IsSequence(r) /\ Len(r) = Len(a) + Len(b)
        /\ DOMAIN a = 1 .. Len(a) /\ Len(a) \in Nat /\ Len(b) \in Nat
        /\ DOMAIN r = 1 .. Len(a) + Len(b)
        /\ \A i \in DOMAIN a : r[i] = a[i]
        /\ DOMAIN b = 1 .. Len(b) /\ \A i \in DOMAIN b : r[Len(a) + i] = b[i]
        /\ \A k \in DOMAIN r :
              k \in DOMAIN a \/ (k - Len(a) \in DOMAIN b /\ r[k] = b[k - Len(a)])
    <3>1. IsSequence(a) /\ IsSequence(b)
      BY <1>1, <1>2
    <3> QED
      BY <3>1, Joined
  <2> HIDE DEF r
  <2>2. \A i \in DOMAIN a : i \in DOMAIN r
    BY <2>1
  <2>3. \A i \in DOMAIN r : \/ i \in DOMAIN a /\ r[i].kind = "session"
                            \/ r[i].kind = "decision"
    BY <1>1, <1>2, <2>1
  <2>4. \A i \in DOMAIN b : Len(a) + i \in DOMAIN r
    BY <2>1
  <2> QED
    BY <2>1, <2>2, <2>3, <2>4 DEF r
<1> DEFINE ab == a \o b
<1> HIDE DEF ab
<1>6. /\ IsSequence(ab)
      /\ DOMAIN ab = 1 .. Len(ab) /\ Len(ab) \in Nat
      /\ \A i \in DOMAIN a : i \in DOMAIN ab /\ ab[i] = a[i]
      /\ \A i \in DOMAIN ab : \/ i \in DOMAIN a /\ ab[i].kind = "session"
                             \/ ab[i].kind = "decision"
      /\ \A i \in DOMAIN b : \E j \in DOMAIN ab : ab[j] = b[i]
  BY <1>5 DEF ab
<1>7. ext = ab \o c
  BY DEF ab
<1>8. /\ IsSequence(ext)
      /\ DOMAIN ext = 1 .. Len(ab) + Len(c) /\ Len(c) \in Nat /\ DOMAIN c = 1 .. Len(c)
      /\ \A i \in DOMAIN ab : ext[i] = ab[i]
      /\ \A i \in DOMAIN c : ext[Len(ab) + i] = c[i]
      /\ \A k \in DOMAIN ext :
            k \in DOMAIN ab \/ (k - Len(ab) \in DOMAIN c /\ ext[k] = c[k - Len(ab)])
  <2>1. IsSequence(ab) /\ IsSequence(c)
    BY <1>3, <1>6
  <2> HIDE DEF ext
  <2> QED
    BY <1>7, <2>1, Joined
<1> HIDE DEF ext
<1>9. \A k \in CheckpointsOf(ext) : k > Len(ab) /\ ext[k].checkpoint = cp
  BY <1>3, <1>6, <1>8 DEF CheckpointsOf
<1>10. o.flush => CheckpointsOf(ext) # {}
  BY <1>3, <1>6, <1>8 DEF CheckpointsOf
<1>11. \A j \in RecordsOf(ext) :
         /\ o.segment # None /\ ext[j].record = o.segment /\ j = 1
         /\ \A k \in CheckpointsOf(ext) : j < k
  <2>1. SUFFICES ASSUME NEW j \in RecordsOf(ext)
                 PROVE  /\ o.segment # None /\ ext[j].record = o.segment /\ j = 1
                        /\ \A k \in CheckpointsOf(ext) : j < k
    OBVIOUS
  <2>2. j \in DOMAIN ab /\ ext[j].kind = "session" /\ ext[j] = ab[j]
    BY <1>3, <1>8 DEF RecordsOf
  <2>3. j \in DOMAIN a /\ ext[j] = a[j]
    BY <1>6, <2>2
  <2>4. j = 1 /\ o.segment # None /\ ext[j].record = o.segment
    BY <1>1, <2>3
  <2>5. \A k \in CheckpointsOf(ext) : k \in Nat /\ j < k
    BY <1>6, <1>8, <1>9, <2>2 DEF CheckpointsOf
  <2> QED
    BY <2>4, <2>5
<1>13. o.segment # None => 1 \in RecordsOf(ext)
  <2>1. SUFFICES ASSUME o.segment # None PROVE 1 \in RecordsOf(ext)
    OBVIOUS
  <2>2. 1 \in DOMAIN a /\ 1 \in DOMAIN ab /\ ext[1] = a[1]
    BY <1>1, <1>6, <1>8, <2>1
  <2> QED
    BY <1>1, <1>6, <1>8, <2>2 DEF RecordsOf
<1>12. \A i \in DOMAIN ext : ext[i].kind \notin {"refresh", "resolve"}
  BY <1>3, <1>6, <1>8
<1>14. o.decision # None => Answers(ext, o.decision)
  <2>1. SUFFICES ASSUME o.decision # None PROVE Answers(ext, o.decision)
    OBVIOUS
  <2>2. PICK j \in DOMAIN ab : ab[j].kind = "decision" /\ ab[j].record = o.decision
    BY <1>2, <1>6, <2>1
  <2>3. j \in DOMAIN ext /\ ext[j] = ab[j] /\ j \in Nat /\ j <= Len(ab)
    BY <1>6, <1>8
  <2>4. \A k \in CheckpointsOf(ext) : k \in Nat /\ j < k
    BY <1>6, <1>8, <1>9, <2>3 DEF CheckpointsOf
  <2> QED
    BY <2>2, <2>3, <2>4 DEF Answers
<1> QED
  BY <1>4, <1>8, <1>9, <1>10, <1>11, <1>12, <1>13, <1>14 DEF Announces

\* A plain task before or behind the callbacks changes nothing they say.
LEMMA PlainAround ==
  ASSUME NEW p, NEW q, NEW o, NEW cp,
         (Plain(p) /\ Announces(q, o, cp)) \/ (Announces(p, o, cp) /\ Plain(q))
  PROVE  /\ Announces(p \o q, o, cp)
         /\ \A i \in DOMAIN (p \o q) :
               \/ i \in DOMAIN p /\ (p \o q)[i] = p[i]
               \/ \E j \in DOMAIN q : (p \o q)[i] = q[j]
<1> DEFINE r == p \o q
<1>1. /\ IsSequence(p) /\ IsSequence(q)
  BY DEF Plain, Announces
<1>2. /\ IsSequence(r)
      /\ DOMAIN p = 1 .. Len(p) /\ Len(p) \in Nat
      /\ DOMAIN q = 1 .. Len(q) /\ Len(q) \in Nat
      /\ DOMAIN r = 1 .. Len(p) + Len(q)
      /\ \A i \in DOMAIN p : r[i] = p[i]
      /\ \A i \in DOMAIN q : r[Len(p) + i] = q[i]
      /\ \A k \in DOMAIN r :
            k \in DOMAIN p \/ (k - Len(p) \in DOMAIN q /\ r[k] = q[k - Len(p)])
  BY <1>1, Joined
<1> HIDE DEF r
<1>3. \A i \in DOMAIN r :
         \/ i \in DOMAIN p /\ r[i] = p[i]
         \/ \E j \in DOMAIN q : r[i] = q[j]
  BY <1>2
<1>4. CASE Plain(p) /\ Announces(q, o, cp)
  <2>1. \A k \in CheckpointsOf(r) :
           k - Len(p) \in CheckpointsOf(q) /\ r[k] = q[k - Len(p)]
    BY <1>2, <1>4 DEF CheckpointsOf, Plain
  <2>2. \A k \in CheckpointsOf(q) : Len(p) + k \in CheckpointsOf(r)
    BY <1>2 DEF CheckpointsOf
  <2>3. /\ \A j \in RecordsOf(r) :
               j - Len(p) \in RecordsOf(q) /\ r[j] = q[j - Len(p)] /\ j \in Nat
        /\ \A j \in RecordsOf(q) : Len(p) + j \in RecordsOf(r) /\ j \in Nat
    BY <1>2, <1>4 DEF RecordsOf, Plain
  <2>7. o.segment # None => RecordsOf(r) # {}
    BY <1>4, <2>3 DEF Announces
  <2>8. ASSUME NEW j \in RecordsOf(r)
        PROVE  /\ o.segment # None /\ r[j].record = o.segment
               /\ RecordsOf(r) = {j}
               /\ \A k \in CheckpointsOf(r) : j < k
    <3>1. /\ o.segment # None /\ q[j - Len(p)].record = o.segment
          /\ RecordsOf(q) = {j - Len(p)}
          /\ \A k \in CheckpointsOf(q) : j - Len(p) < k
      BY <1>4, <2>3 DEF Announces
    <3>2. \A i \in RecordsOf(r) : i = j
      BY <1>2, <2>3, <3>1
    <3>3. \A k \in CheckpointsOf(r) : j < k
      BY <1>2, <2>1, <2>3, <3>1 DEF CheckpointsOf
    <3> QED
      BY <2>3, <3>1, <3>2, <3>3
  <2>4. \A k \in CheckpointsOf(r) : r[k].checkpoint = cp
    BY <1>4, <2>1 DEF Announces
  <2>5. o.flush => CheckpointsOf(r) # {}
    BY <1>4, <2>2 DEF Announces
  <2>9. o.decision # None => Answers(r, o.decision)
    <3>1. SUFFICES ASSUME o.decision # None PROVE Answers(r, o.decision)
      OBVIOUS
    <3>2. PICK j \in DOMAIN q : /\ q[j].kind = "decision" /\ q[j].record = o.decision
                               /\ \A k \in CheckpointsOf(q) : j < k
      BY <1>4, <3>1 DEF Announces, Answers
    <3>3. Len(p) + j \in DOMAIN r /\ r[Len(p) + j] = q[j] /\ j \in Nat
      BY <1>2
    <3>4. \A k \in CheckpointsOf(r) : Len(p) + j < k
      BY <1>2, <2>1, <3>2, <3>3 DEF CheckpointsOf
    <3> QED
      BY <3>2, <3>3, <3>4 DEF Answers
  <2>6. Announces(r, o, cp)
    BY <1>2, <2>4, <2>5, <2>7, <2>8, <2>9 DEF Announces
  <2> QED
    BY <1>3, <2>6 DEF r
<1>5. CASE Announces(p, o, cp) /\ Plain(q)
  <2>1. CheckpointsOf(r) = CheckpointsOf(p) /\ RecordsOf(r) = RecordsOf(p)
    BY <1>2, <1>5 DEF CheckpointsOf, RecordsOf, Plain
  <2>2. \A k \in DOMAIN p : k \in DOMAIN r /\ r[k] = p[k]
    BY <1>2
  <2>3. o.decision # None => Answers(r, o.decision)
    BY <1>5, <2>1, <2>2 DEF Announces, Answers
  <2> QED
    BY <1>2, <1>3, <1>5, <2>1, <2>2, <2>3 DEF Announces, CheckpointsOf, RecordsOf, r
<1> QED
  BY <1>4, <1>5

LEMMA PlainQuiet ==
  ASSUME NEW ext, Plain(ext), NEW cp
  PROVE  Announces(ext, Silent, cp)
  BY DEF Plain, Announces, CheckpointsOf, RecordsOf, Silent

LEMMA PlainSingle ==
  ASSUME NEW x, x.kind \notin {"session", "checkpoint"}
  PROVE  Plain(<<x>>)
  BY Single DEF Plain

LEMMA PlainNothing == Plain(<<>>)
  BY EmptySequence DEF Plain

-----------------------------------------------------------------------------
(* The head leaves the queue.                                              *)

\* What the head did: a record is in the log, a checkpoint on disk or lost.
Done(head, log, newLog, file, newFile) ==
  /\ \A session : Logs(log, session) => Logs(newLog, session)
  /\ \A session : Records(head, session) => Logs(newLog, session)
  /\ \/ newFile = file
     \/ head.kind = "checkpoint" /\ newFile = head.checkpoint

\* The places of the checkpoints move up by one.
LEMMA PoppedCheckpoints ==
  ASSUME NEW q, IsSequence(q), q # <<>>
  PROVE  /\ \A k \in CheckpointsOf(Tail(q)) :
               /\ k \in Nat /\ k + 1 \in CheckpointsOf(q) /\ Tail(q)[k] = q[k + 1]
         /\ \A k \in CheckpointsOf(q) : k \in Nat /\ (k # 1 => k - 1 \in CheckpointsOf(Tail(q)))
         /\ Head(q).kind = "checkpoint" <=> 1 \in CheckpointsOf(q)
  BY Popped DEF CheckpointsOf

LEMMA PopAhead ==
  ASSUME NEW q, IsSequence(q), q # <<>>, NEW log, NEW newLog, NEW file, NEW newFile,
         Done(Head(q), log, newLog, file, newFile),
         NEW k \in Nat, NEW session, Ahead(q, log, k + 1, session)
  PROVE  Ahead(Tail(q), newLog, k, session)
<1>1. CASE Logs(log, session)
  BY <1>1 DEF Done, Ahead
<1>2. CASE \E j \in DOMAIN q : j < k + 1 /\ Records(q[j], session)
  <2>1. PICK j \in DOMAIN q : j < k + 1 /\ Records(q[j], session)
    BY <1>2
  <2>2. CASE j = 1
    BY <2>1, <2>2, Popped DEF Done, Ahead
  <2>3. CASE j # 1
    <3>1. j - 1 \in DOMAIN Tail(q) /\ Tail(q)[j - 1] = q[j] /\ j - 1 < k
      BY <2>1, <2>3, Popped
    <3> QED
      BY <2>1, <3>1 DEF Ahead
  <2> QED
    BY <2>2, <2>3
<1> QED
  BY <1>1, <1>2 DEF Ahead

LEMMA PopChain ==
  ASSUME NEW q, IsSequence(q), q # <<>>, NEW log, NEW newLog, NEW file, NEW newFile,
         Done(Head(q), log, newLog, file, newFile), Chain(q, log, file)
  PROVE  Chain(Tail(q), newLog, newFile)
<1> SUFFICES ASSUME NEW k \in CheckpointsOf(Tail(q))
             PROVE  /\ Hands(Tail(q), newLog, newFile, k)
                    /\ \A i \in CheckpointsOf(Tail(q)) : i < k =>
                          Hands(Tail(q), newLog, Tail(q)[i].checkpoint, k)
  BY DEF Chain
<1>1. k \in Nat /\ k + 1 \in CheckpointsOf(q) /\ Tail(q)[k] = q[k + 1]
  BY PoppedCheckpoints
<1>2. ASSUME NEW c, Hands(q, log, c, k + 1)
      PROVE  Hands(Tail(q), newLog, c, k)
  BY <1>1, <1>2, PopAhead DEF Hands
<1>3. Hands(Tail(q), newLog, newFile, k)
  <2>1. CASE newFile = file
    BY <1>1, <1>2, <2>1 DEF Chain
  <2>2. CASE Head(q).kind = "checkpoint" /\ newFile = Head(q).checkpoint
    <3>1. 1 \in CheckpointsOf(q) /\ Head(q) = q[1] /\ 1 < k + 1
      BY <2>2, <1>1, Popped, PoppedCheckpoints DEF CheckpointsOf
    <3> QED
      BY <1>1, <1>2, <2>2, <3>1 DEF Chain
  <2> QED
    BY <2>1, <2>2 DEF Done
<1>4. ASSUME NEW i \in CheckpointsOf(Tail(q)), i < k
      PROVE  Hands(Tail(q), newLog, Tail(q)[i].checkpoint, k)
  <2>1. i \in Nat /\ i + 1 \in CheckpointsOf(q) /\ Tail(q)[i] = q[i + 1]
    BY PoppedCheckpoints
  <2>2. i + 1 < k + 1
    BY <1>1, <1>4, <2>1
  <2> QED
    BY <1>1, <1>2, <2>1, <2>2 DEF Chain
<1> QED
  BY <1>3, <1>4

LEMMA PopCovered ==
  ASSUME NEW q, IsSequence(q), q # <<>>, NEW log, NEW newLog, NEW file, NEW newFile,
         Done(Head(q), log, newLog, file, newFile), NEW session,
         Covered(q, log, file, session)
  PROVE  Covered(Tail(q), newLog, newFile, session)
<1>1. ASSUME NEW c, Keeps(q, log, c, session)
      PROVE  Keeps(Tail(q), newLog, c, session)
  <2>1. Len(q) \in Nat \ {0} /\ Len(Tail(q)) + 1 \in Nat
        /\ Len(q) + 1 = (Len(Tail(q)) + 1) + 1
    BY Popped
  <2> QED
    BY <1>1, <2>1, PopAhead DEF Keeps
<1>2. Keeps(Tail(q), newLog, newFile, session)
  <2>1. CASE newFile = file
    BY <1>1, <2>1 DEF Covered
  <2>2. CASE Head(q).kind = "checkpoint" /\ newFile = Head(q).checkpoint
    BY <1>1, <2>2, Popped, PoppedCheckpoints DEF Covered
  <2> QED
    BY <2>1, <2>2 DEF Done
<1>3. ASSUME NEW k \in CheckpointsOf(Tail(q))
      PROVE  Keeps(Tail(q), newLog, Tail(q)[k].checkpoint, session)
  BY <1>1, PoppedCheckpoints DEF Covered
<1> QED
  BY <1>2, <1>3 DEF Covered

\* A checkpoint that is written stays the last of the chain when none follows.
LEMMA PopLatest ==
  ASSUME NEW q, IsSequence(q), q # <<>>, NEW file, NEW newFile, NEW e,
         Latest(q, file, e),
         \/ Head(q).kind # "checkpoint" /\ newFile = file
         \/ Head(q).kind = "checkpoint" /\ newFile = Head(q).checkpoint
  PROVE  Latest(Tail(q), newFile, e)
<1>1. ASSUME CheckpointsOf(Tail(q)) = {}, newFile # None PROVE Describes(newFile, e)
  <2>1. CASE Head(q).kind # "checkpoint" /\ newFile = file
    <3>1. CheckpointsOf(q) = {}
      BY <1>1, <2>1, PoppedCheckpoints
    <3> QED
      BY <1>1, <2>1, <3>1 DEF Latest
  <2>2. CASE Head(q).kind = "checkpoint" /\ newFile = Head(q).checkpoint
    <3>1. CheckpointsOf(q) = {1} /\ Head(q) = q[1]
      BY <1>1, <2>2, PoppedCheckpoints, Popped
    <3>2. \A j \in CheckpointsOf(q) : j <= 1
      BY <3>1
    <3> QED
      BY <2>2, <3>1, <3>2 DEF Latest
  <2> QED
    BY <2>1, <2>2
<1>2. ASSUME NEW k \in CheckpointsOf(Tail(q)),
             \A j \in CheckpointsOf(Tail(q)) : j <= k
      PROVE  Describes(Tail(q)[k].checkpoint, e)
  <2>1. k \in Nat /\ k + 1 \in CheckpointsOf(q) /\ Tail(q)[k] = q[k + 1]
    BY PoppedCheckpoints
  <2>2. \A j \in CheckpointsOf(q) : j <= k + 1
    <3>1. TAKE j \in CheckpointsOf(q)
    <3>2. j \in Nat /\ (j # 1 => j - 1 \in CheckpointsOf(Tail(q)))
      BY PoppedCheckpoints
    <3> QED
      BY <1>2, <2>1, <3>2
  <2> QED
    BY <2>1, <2>2 DEF Latest
<1> QED
  BY <1>1, <1>2 DEF Latest

LEMMA PopFormed ==
  ASSUME NEW q, IsSequence(q), q # <<>>, NEW file, NEW newFile, Formed(q, file),
         newFile = file \/ (Head(q).kind = "checkpoint" /\ newFile = Head(q).checkpoint)
  PROVE  Formed(Tail(q), newFile)
<1>1. newFile # None => WellFormed(newFile)
  BY PoppedCheckpoints, Popped DEF Formed
<1>2. ASSUME NEW k \in CheckpointsOf(Tail(q)) PROVE WellFormed(Tail(q)[k].checkpoint)
  <2>1. k + 1 \in CheckpointsOf(q) /\ Tail(q)[k] = q[k + 1]
    BY PoppedCheckpoints
  <2> QED
    BY <2>1 DEF Formed
<1> QED
  BY <1>1, <1>2 DEF Formed

-----------------------------------------------------------------------------
(* The callbacks of a call join the queue.                                 *)

\* Where the tasks and the checkpoints of the longer queue r come from.
IsJoin(r, q, ext) ==
  /\ Len(q) \in Nat /\ Len(ext) \in Nat /\ Len(r) = Len(q) + Len(ext)
  /\ DOMAIN q = 1 .. Len(q) /\ DOMAIN ext = 1 .. Len(ext)
  /\ DOMAIN r = 1 .. Len(q) + Len(ext)
  /\ \A i \in DOMAIN q : i \in DOMAIN r /\ r[i] = q[i]
  /\ \A i \in DOMAIN ext : Len(q) + i \in DOMAIN r /\ r[Len(q) + i] = ext[i]
  /\ \A k \in CheckpointsOf(q) :
        k \in Nat /\ k <= Len(q) /\ k \in CheckpointsOf(r) /\ r[k] = q[k]
  /\ \A k \in CheckpointsOf(ext) :
        /\ k \in Nat \ {0} /\ k <= Len(ext)
        /\ Len(q) + k \in CheckpointsOf(r) /\ r[Len(q) + k] = ext[k]
  /\ \A k \in CheckpointsOf(r) :
        /\ k \in Nat /\ k <= Len(r)
        /\ \/ k \in CheckpointsOf(q)
           \/ /\ k > Len(q) /\ k - Len(q) \in CheckpointsOf(ext)
              /\ r[k] = ext[k - Len(q)]

LEMMA JoinedCheckpoints ==
  ASSUME NEW q, NEW ext, IsSequence(q), IsSequence(ext)
  PROVE  IsJoin(q \o ext, q, ext)
<1> DEFINE r == q \o ext
<1>1. /\ DOMAIN q = 1 .. Len(q) /\ Len(q) \in Nat
      /\ DOMAIN ext = 1 .. Len(ext) /\ Len(ext) \in Nat
      /\ Len(r) = Len(q) + Len(ext) /\ DOMAIN r = 1 .. Len(q) + Len(ext)
      /\ \A i \in DOMAIN q : r[i] = q[i]
      /\ \A i \in DOMAIN ext : r[Len(q) + i] = ext[i]
      /\ \A k \in DOMAIN r :
            k \in DOMAIN q \/ (k - Len(q) \in DOMAIN ext /\ r[k] = ext[k - Len(q)])
  BY Joined
<1> HIDE DEF r
<1>2. \A i \in DOMAIN q : i \in DOMAIN r
  BY <1>1
<1>3. \A i \in DOMAIN ext : Len(q) + i \in DOMAIN r
  BY <1>1
<1>4. \A k \in CheckpointsOf(q) :
         k \in Nat /\ k <= Len(q) /\ k \in CheckpointsOf(r) /\ r[k] = q[k]
  BY <1>1, <1>2 DEF CheckpointsOf
<1>5. \A k \in CheckpointsOf(ext) :
         /\ k \in Nat \ {0} /\ k <= Len(ext)
         /\ Len(q) + k \in CheckpointsOf(r) /\ r[Len(q) + k] = ext[k]
  BY <1>1 DEF CheckpointsOf
<1>6. \A k \in CheckpointsOf(r) :
         /\ k \in Nat /\ k <= Len(r)
         /\ \/ k \in CheckpointsOf(q)
            \/ /\ k > Len(q) /\ k - Len(q) \in CheckpointsOf(ext)
               /\ r[k] = ext[k - Len(q)]
  BY <1>1 DEF CheckpointsOf
<1>7. IsJoin(r, q, ext)
  BY <1>1, <1>2, <1>3, <1>4, <1>5, <1>6 DEF IsJoin
<1> QED
  BY <1>7 DEF r

\* The last checkpoint of the chain describes the engine after the call.
LEMMA JoinLatest ==
  ASSUME NEW q, NEW ext, IsSequence(q), IsSequence(ext), NEW file, NEW e, NEW cp,
         \A k \in CheckpointsOf(ext) : ext[k].checkpoint = cp,
         Describes(cp, e),
         CheckpointsOf(ext) # {} \/ Latest(q, file, e)
  PROVE  Latest(q \o ext, file, e)
<1> DEFINE r == q \o ext
<1>0. IsJoin(r, q, ext)
  BY JoinedCheckpoints
<1> HIDE DEF r
<1>1. /\ \A k \in CheckpointsOf(q) :
            k \in Nat /\ k <= Len(q) /\ k \in CheckpointsOf(r) /\ r[k] = q[k]
      /\ \A k \in CheckpointsOf(ext) :
            k \in Nat \ {0} /\ Len(q) + k \in CheckpointsOf(r) /\ r[Len(q) + k] = ext[k]
      /\ \A k \in CheckpointsOf(r) :
            /\ k \in Nat
            /\ \/ k \in CheckpointsOf(q)
               \/ /\ k - Len(q) \in CheckpointsOf(ext) /\ r[k] = ext[k - Len(q)]
      /\ Len(q) \in Nat
  BY <1>0 DEF IsJoin
<1>2. CASE CheckpointsOf(ext) # {}
  <2>1. PICK x \in CheckpointsOf(ext) : TRUE
    BY <1>2
  <2>2. \A k \in CheckpointsOf(r) :
           (\A j \in CheckpointsOf(r) : j <= k) => k - Len(q) \in CheckpointsOf(ext)
                                                  /\ r[k] = ext[k - Len(q)]
    BY <1>1, <2>1
  <2>3. CheckpointsOf(r) # {}
    BY <1>1, <2>1
  <2> QED
    BY <2>2, <2>3 DEF Latest, r
<1>3. CASE CheckpointsOf(ext) = {}
  <2>1. CheckpointsOf(r) = CheckpointsOf(q) /\ \A k \in CheckpointsOf(q) : r[k] = q[k]
    BY <1>1, <1>3
  <2> QED
    BY <1>3, <2>1 DEF Latest, r
<1> QED
  BY <1>2, <1>3

LEMMA JoinFormed ==
  ASSUME NEW q, NEW ext, IsSequence(q), IsSequence(ext), NEW file, NEW cp,
         \A k \in CheckpointsOf(ext) : ext[k].checkpoint = cp,
         WellFormed(cp), Formed(q, file)
  PROVE  Formed(q \o ext, file)
<1> DEFINE r == q \o ext
<1>0. IsJoin(r, q, ext)
  BY JoinedCheckpoints
<1> HIDE DEF r
<1>1. /\ \A k \in CheckpointsOf(q) : r[k] = q[k]
      /\ \A k \in CheckpointsOf(r) :
            \/ k \in CheckpointsOf(q)
            \/ /\ k - Len(q) \in CheckpointsOf(ext) /\ r[k] = ext[k - Len(q)]
  BY <1>0 DEF IsJoin
<1> QED
  BY <1>1 DEF Formed, r

\* What is ahead of a place stays ahead of it in the longer queue.
LEMMA JoinAhead ==
  ASSUME NEW q, NEW ext, IsSequence(q), IsSequence(ext), NEW log, NEW session,
         NEW k \in Nat, NEW m \in Nat, k <= m, Ahead(q, log, k, session)
  PROVE  Ahead(q \o ext, log, m, session)
<1>1. CASE Logs(log, session)
  BY <1>1 DEF Ahead
<1>2. CASE \E j \in DOMAIN q : j < k /\ Records(q[j], session)
  <2>1. PICK j \in DOMAIN q : j < k /\ Records(q[j], session)
    BY <1>2
  <2>2. j \in DOMAIN (q \o ext) /\ (q \o ext)[j] = q[j] /\ j < m
    BY <2>1, Joined
  <2> QED
    BY <2>1, <2>2 DEF Ahead
<1> QED
  BY <1>1, <1>2 DEF Ahead

\* How a call treats the session: it goes on with what it has earned, or had
\* earned nothing, or its record is among the callbacks, ahead of the checkpoints.
Passes(session, new, ext) ==
  session # None =>
    \/ /\ new # None /\ SameSession(new, session)
       /\ (session.openCount = 1 \/ session.lastTrusted > session.started)
             => (new.openCount = 1 \/ new.lastTrusted > new.started)
    \/ ~(session.openCount = 1 \/ session.lastTrusted > session.started)
    \/ \E j \in DOMAIN ext :
          /\ ext[j].kind = "session"
          /\ ext[j].record.file = session.target.file
          /\ ext[j].record.from = session.started
          /\ \A k \in CheckpointsOf(ext) : j < k

\* The checkpoint of the outcome names the session that runs then.
Names(cp, new) ==
  /\ new # None => cp.open # None /\ SameSession(cp.open, new)
  /\ Earned(cp) => new # None /\ new.lastTrusted > new.started

\* What the queue kept of a checkpoint's session reaches every new checkpoint.
LEMMA JoinKeeps ==
  ASSUME NEW q, NEW ext, IsSequence(q), IsSequence(ext), NEW log, NEW session, NEW new,
         NEW cp, \A k \in CheckpointsOf(ext) : ext[k].checkpoint = cp,
         Names(cp, new), Passes(session, new, ext),
         NEW c, Keeps(q, log, c, session)
  PROVE  /\ Keeps(q \o ext, log, c, new)
         /\ \A k \in CheckpointsOf(ext) : Hands(q \o ext, log, c, Len(q) + k)
<1> SUFFICES ASSUME Earned(c)
             PROVE  /\ Keeps(q \o ext, log, c, new)
                    /\ \A k \in CheckpointsOf(ext) : Hands(q \o ext, log, c, Len(q) + k)
  BY DEF Keeps, Hands
<1> DEFINE r == q \o ext
<1>0. IsJoin(r, q, ext)
  BY JoinedCheckpoints
<1> HIDE DEF r
<1>1. /\ Len(q) \in Nat /\ Len(ext) \in Nat /\ Len(r) = Len(q) + Len(ext)
      /\ DOMAIN ext = 1 .. Len(ext) /\ DOMAIN r = 1 .. Len(q) + Len(ext)
      /\ \A i \in DOMAIN ext : r[Len(q) + i] = ext[i]
      /\ \A k \in CheckpointsOf(ext) : k \in Nat \ {0} /\ r[Len(q) + k] = ext[k]
  BY <1>0 DEF IsJoin
<1>2. CASE Ahead(q, log, Len(q) + 1, c.open)
  <2>1. \A m \in Nat : Len(q) + 1 <= m => Ahead(r, log, m, c.open)
    BY <1>1, <1>2, JoinAhead DEF r
  <2>2. Len(r) + 1 \in Nat /\ Len(q) + 1 <= Len(r) + 1
    BY <1>1
  <2>3. \A k \in CheckpointsOf(ext) : Len(q) + k \in Nat /\ Len(q) + 1 <= Len(q) + k
    BY <1>1
  <2>4. Keeps(r, log, c, new) /\ \A k \in CheckpointsOf(ext) : Hands(r, log, c, Len(q) + k)
    BY <2>1, <2>2, <2>3 DEF Keeps, Hands
  <2> QED
    BY <2>4 DEF r
<1>3. CASE /\ session # None /\ SameSession(session, c.open)
           /\ session.openCount = 1 \/ session.lastTrusted > session.started
  <2>1. CASE /\ new # None /\ SameSession(new, session)
             /\ new.openCount = 1 \/ new.lastTrusted > new.started
    <3>1. Keeps(r, log, c, new)
      BY <1>3, <2>1 DEF Keeps, SameSession
    <3>2. cp.open # None /\ SameSession(cp.open, c.open)
      BY <1>3, <2>1 DEF Names, SameSession
    <3>3. \A k \in CheckpointsOf(ext) : r[Len(q) + k].checkpoint = cp
      BY <1>1
    <3>4. \A k \in CheckpointsOf(ext) : Hands(r, log, c, Len(q) + k)
      BY <3>2, <3>3 DEF Hands
    <3> QED
      BY <3>1, <3>4 DEF r
  <2>2. CASE \E j \in DOMAIN ext :
               /\ ext[j].kind = "session"
               /\ ext[j].record.file = session.target.file
               /\ ext[j].record.from = session.started
               /\ \A k \in CheckpointsOf(ext) : j < k
    <3>1. PICK j \in DOMAIN ext :
            /\ ext[j].kind = "session"
            /\ ext[j].record.file = session.target.file
            /\ ext[j].record.from = session.started
            /\ \A k \in CheckpointsOf(ext) : j < k
      BY <2>2
    <3>2. Records(r[Len(q) + j], c.open) /\ Len(q) + j \in DOMAIN r
      BY <1>1, <1>3, <3>1 DEF Records, SameSession
    <3>3. /\ Len(q) + j < Len(r) + 1
          /\ \A k \in CheckpointsOf(ext) : Len(q) + j < Len(q) + k
      BY <1>1, <3>1
    <3>4. /\ Ahead(r, log, Len(r) + 1, c.open)
          /\ \A k \in CheckpointsOf(ext) : Ahead(r, log, Len(q) + k, c.open)
      BY <3>2, <3>3 DEF Ahead
    <3>5. Keeps(r, log, c, new) /\ \A k \in CheckpointsOf(ext) : Hands(r, log, c, Len(q) + k)
      BY <3>4 DEF Keeps, Hands
    <3> QED
      BY <3>5 DEF r
  <2> QED
    BY <1>3, <2>1, <2>2 DEF Passes
<1> QED
  BY <1>2, <1>3 DEF Keeps

LEMMA JoinChain ==
  ASSUME NEW q, NEW ext, IsSequence(q), IsSequence(ext), NEW log, NEW file,
         NEW session, NEW new, NEW cp,
         \A k \in CheckpointsOf(ext) : ext[k].checkpoint = cp,
         Names(cp, new), Passes(session, new, ext),
         Chain(q, log, file), Covered(q, log, file, session)
  PROVE  Chain(q \o ext, log, file) /\ Covered(q \o ext, log, file, new)
<1> DEFINE r == q \o ext
<1>0. IsJoin(r, q, ext)
  BY JoinedCheckpoints
<1> HIDE DEF r
<1>1. /\ Len(q) \in Nat
      /\ \A k \in CheckpointsOf(q) :
            k \in Nat /\ k <= Len(q) /\ k \in CheckpointsOf(r) /\ r[k] = q[k]
      /\ \A k \in CheckpointsOf(ext) :
            k \in Nat \ {0} /\ r[Len(q) + k] = ext[k]
      /\ \A k \in CheckpointsOf(r) :
            /\ k \in Nat
            /\ \/ k \in CheckpointsOf(q)
               \/ /\ k > Len(q) /\ k - Len(q) \in CheckpointsOf(ext)
                  /\ r[k] = ext[k - Len(q)]
  BY <1>0 DEF IsJoin
<1>2. ASSUME NEW c, Keeps(q, log, c, session)
      PROVE  /\ Keeps(r, log, c, new)
             /\ \A k \in CheckpointsOf(ext) : Hands(r, log, c, Len(q) + k)
  BY <1>2, JoinKeeps DEF r
<1>3. ASSUME NEW c, NEW k \in CheckpointsOf(q), Hands(q, log, c, k)
      PROVE  Hands(r, log, c, k)
  <2>1. k \in Nat /\ r[k] = q[k]
    BY <1>1
  <2>2. Ahead(q, log, k, c.open) => Ahead(r, log, k, c.open)
    BY <2>1, JoinAhead DEF r
  <2> QED
    BY <1>3, <2>1, <2>2 DEF Hands
\* A checkpoint among the callbacks names what the engine runs.
<1>4. /\ Keeps(r, log, cp, new)
      /\ \A k \in CheckpointsOf(ext) : Hands(r, log, cp, Len(q) + k)
  <2>1. \A k \in CheckpointsOf(ext) : r[Len(q) + k].checkpoint = cp
    BY <1>1
  <2>2. Earned(cp) => cp.open # None
    BY DEF Earned
  <2>3. Keeps(r, log, cp, new)
    BY DEF Keeps, Names, SameSession
  <2> QED
    BY <2>1, <2>2, <2>3 DEF Hands, SameSession
<1>5. Covered(r, log, file, new)
  <2>1. Keeps(r, log, file, new)
    BY <1>2 DEF Covered
  <2>2. ASSUME NEW k \in CheckpointsOf(r) PROVE Keeps(r, log, r[k].checkpoint, new)
    <3>1. CASE k \in CheckpointsOf(q)
      BY <1>1, <1>2, <3>1 DEF Covered
    <3>2. CASE k - Len(q) \in CheckpointsOf(ext) /\ r[k] = ext[k - Len(q)]
      BY <1>4, <3>2
    <3> QED
      BY <1>1, <3>1, <3>2
  <2> QED
    BY <2>1, <2>2 DEF Covered
<1>6. Chain(r, log, file)
  <2> SUFFICES ASSUME NEW k \in CheckpointsOf(r)
               PROVE  /\ Hands(r, log, file, k)
                      /\ \A i \in CheckpointsOf(r) : i < k => Hands(r, log, r[i].checkpoint, k)
    BY DEF Chain
  <2>1. CASE k \in CheckpointsOf(q)
    <3>1. Hands(r, log, file, k)
      BY <1>3, <2>1 DEF Chain
    <3>2. ASSUME NEW i \in CheckpointsOf(r), i < k PROVE Hands(r, log, r[i].checkpoint, k)
      <4>1. i \in CheckpointsOf(q) /\ r[i] = q[i]
        BY <1>1, <2>1, <3>2
      <4> QED
        BY <1>3, <2>1, <3>2, <4>1 DEF Chain
    <3> QED
      BY <3>1, <3>2
  <2>2. CASE k > Len(q) /\ k - Len(q) \in CheckpointsOf(ext)
    <3>1. k = Len(q) + (k - Len(q))
      BY <1>1
    <3>2. Hands(r, log, file, k)
      BY <1>2, <2>2, <3>1 DEF Covered
    <3>3. ASSUME NEW i \in CheckpointsOf(r) PROVE Hands(r, log, r[i].checkpoint, k)
      <4>1. CASE i \in CheckpointsOf(q)
        BY <1>1, <1>2, <2>2, <3>1, <4>1 DEF Covered
      <4>2. CASE i - Len(q) \in CheckpointsOf(ext) /\ r[i] = ext[i - Len(q)]
        BY <1>4, <2>2, <3>1, <4>2
      <4> QED
        BY <1>1, <4>1, <4>2
    <3> QED
      BY <3>2, <3>3
  <2> QED
    BY <1>1, <2>1, <2>2
<1> QED
  BY <1>5, <1>6 DEF r

-----------------------------------------------------------------------------
(* One engine call and its tasks.                                          *)

\* The tasks of a call submitted at s join `base`.
Submits(base, s) ==
  /\ EngineCall(s)
  /\ \E ext : /\ queue' = base \o ext
              /\ Announces(ext, out', Checkpoint') /\ Samples(ext)

\* The checkpoint of a call describes the engine the call leaves.
LEMMA CheckpointNow ==
  ASSUME open' \in Session \cup {None}, open' # None <=> state' = "active", RecoveryTyped'
  PROVE  /\ Describes(Checkpoint', Face') /\ WellFormed(Checkpoint')
         /\ Names(Checkpoint', open')
<1> DEFINE kept == [target |-> open'.target, started |-> open'.started,
                    lastTrusted |-> open'.lastTrusted]
           cp == Checkpoint'
<1>1. open' # None => kept \in StoredSession
  BY DEF Session, StoredSession
<1>2. /\ cp.state = state' /\ cp.recent = recent'
      /\ cp.open = IF open' = None THEN None ELSE kept
      /\ DOMAIN cp.pending = PendingCandidates'
  BY DEF Checkpoint
<1>3. /\ Face'.session = open' /\ Face'.state = state'
      /\ Face'.candidates = PendingCandidates' /\ Face'.recent = recent'
  BY DEF Face
<1>4. open' # None => cp.open # None /\ SameSession(cp.open, open')
  BY <1>1, <1>2, CoordinatorAssumption DEF SameSession
<1>5. open' = None => cp.open = None
  BY <1>2
<1>6. Describes(cp, Face')
  BY <1>2, <1>3, <1>4, <1>5 DEF Describes
<1>9. Recoverable(cp)
  <2>1. \A id \in DOMAIN cp.pending : id \in DOMAIN pending' /\ cp.pending[id] = pending'[id].to
    BY DEF Checkpoint, PendingCandidates
  <2>2. /\ \A id \in DOMAIN pending' : Gap(id, pending'[id].to)
        /\ IsSequence(recent')
    BY DEF RecoveryTyped, IsSequence, Gap
  <2> QED
    BY <1>2, <2>1, <2>2 DEF Recoverable
<1>7. WellFormed(cp)
  <2> HIDE DEF cp
  <2> QED
    BY <1>1, <1>2, <1>4, <1>5, <1>9 DEF WellFormed
<1>8. Names(cp, open')
  BY <1>2, <1>4, <1>5 DEF Names, Earned
<1> QED
  BY <1>6, <1>7, <1>8

\* A call that queues no checkpoint changes nothing a checkpoint describes.
LEMMA LatestCall ==
  ASSUME NEW s, EngineCall(s), NEW q, NEW file, Latest(q, file, Face), ~out'.flush
  PROVE  Latest(q, file, Face')
<1>1. /\ state' = state /\ PendingCandidates' = PendingCandidates /\ recent' = recent
      /\ GoesOn \/ open' = open
  BY DEF EngineCall
<1>2. ASSUME NEW c, Describes(c, Face) PROVE Describes(c, Face')
  BY <1>1, <1>2 DEF Describes, Face, GoesOn, SameSession
<1> QED
  BY <1>2 DEF Latest

\* A call with a fresh sample loses nothing that was earned.
LEMMA PassesCall ==
  ASSUME NEW s \in Nat, EngineCall(s), open \in Session \cup {None},
         open # None => open.openCount = 1 \/ open.lastTrusted <= s,
         NEW ext, NEW cp, Announces(ext, out', cp)
  PROVE  Passes(open, open', ext)
<1> SUFFICES ASSUME open # None PROVE Passes(open, open', ext)
  BY DEF Passes
<1>1. open.lastTrusted \in Nat /\ open.started \in Nat /\ open.openCount \in 0 .. 1
  BY DEF Session
<1>2. CASE GoesOn
  <2>1. /\ open' # None /\ SameSession(open', open) /\ open'.openCount = open.openCount
        /\ open'.lastTrusted >= open.lastTrusted /\ open'.started = open.started
    BY <1>2 DEF GoesOn, SameSession
  <2>2. open'.lastTrusted \in Nat
    BY <2>1 DEF EngineCall, Session
  <2>3. open.lastTrusted > open.started => open'.lastTrusted > open'.started
    BY <1>1, <2>1, <2>2
  <2> QED
    BY <2>1, <2>3 DEF Passes
<1>3. CASE Emitted
  <2>1. PICK j \in RecordsOf(ext) : TRUE
    BY <1>3 DEF Emitted, Announces
  <2>2. ext[j].record = out'.segment /\ \A k \in CheckpointsOf(ext) : j < k
    BY <2>1 DEF Announces
  <2> QED
    BY <1>3, <2>1, <2>2 DEF Emitted, Passes, RecordsOf
<1>4. CASE Unearned(s)
  <2>1. open.openCount = 0 /\ open.lastTrusted <= open.started
    BY <1>1, <1>4 DEF Unearned
  <2>2. ~(open.openCount = 1 \/ open.lastTrusted > open.started)
    BY <1>1, <2>1
  <2> QED
    BY <2>2 DEF Passes
<1> QED
  BY <1>2, <1>3, <1>4 DEF EngineCall

\* The invariant after a call whose tasks join `base`, what the head left.
LEMMA CurrentCall ==
  ASSUME now \in Nat, now' = now, NEW s, NEW base, Submits(base, s),
         life' # "down", IsSequence(base), Samples(base), Formed(base, saved'),
         out'.flush \/ Latest(base, saved', Face), Places'
  PROVE  CurrentInv'
<1>1. PICK ext : /\ queue' = base \o ext
                 /\ Announces(ext, out', Checkpoint') /\ Samples(ext)
  BY DEF Submits
<1> DEFINE cp == Checkpoint'
<1>2. /\ Describes(cp, Face') /\ WellFormed(cp)
      /\ open' \in Session \cup {None} /\ (open' # None <=> state' = "active")
  BY CheckpointNow DEF Submits, EngineCall, Settles
<1>3. /\ IsSequence(ext) /\ \A k \in CheckpointsOf(ext) : ext[k].checkpoint = cp
      /\ out'.flush => CheckpointsOf(ext) # {}
  BY <1>1 DEF Announces
<1> HIDE DEF cp
<1>4. CheckpointsOf(ext) # {} \/ Latest(base, saved', Face')
  BY <1>3, LatestCall DEF Submits
<1>5. Latest(base \o ext, saved', Face')
  BY <1>2, <1>3, <1>4, JoinLatest
<1>6. Formed(base \o ext, saved')
  BY <1>2, <1>3, JoinFormed
<1>7. IsSequence(base \o ext) /\ Samples(base \o ext)
  <2>1. /\ IsSequence(base \o ext)
        /\ \A i \in DOMAIN base : (base \o ext)[i] = base[i]
        /\ \A k \in DOMAIN (base \o ext) :
              \/ k \in DOMAIN base
              \/ k - Len(base) \in DOMAIN ext /\ (base \o ext)[k] = ext[k - Len(base)]
    BY <1>3, Joined
  <2> QED
    BY <1>1, <2>1 DEF Samples
<1>8. IsSequence(queue') /\ Samples(queue') /\ Formed(queue', saved')
      /\ Latest(queue', saved', Face')
  BY <1>1, <1>5, <1>6, <1>7
<1>9. /\ IsSequence(queue)' /\ Formed(queue, saved)' /\ Latest(queue, saved, Face)'
      /\ Samples(queue)'
  BY <1>8 DEF IsSequence, Formed, Latest, Samples
<1> QED
  BY <1>2, <1>8, <1>9 DEF CurrentInv, Submits, EngineCall, Settles

LEMMA EvidenceCall ==
  ASSUME now \in Nat, now' = now, NEW s \in Nat, s <= now, NEW base, Submits(base, s),
         IsSequence(base), open \in Session \cup {None},
         open # None => open.openCount = 1 \/ open.lastTrusted <= now,
         open # None => open.openCount = 1 \/ open.lastTrusted <= s,
         IsSequence(stored'), Chain(base, stored', saved'),
         Covered(base, stored', saved', open)
  PROVE  EvidenceInv'
<1>1. PICK ext : /\ queue' = base \o ext /\ Announces(ext, out', Checkpoint')
  BY DEF Submits
<1> DEFINE cp == Checkpoint'
<1>2. /\ Names(cp, open')
      /\ IsSequence(ext) /\ \A k \in CheckpointsOf(ext) : ext[k].checkpoint = cp
  BY <1>1, CheckpointNow DEF Submits, EngineCall, Settles, Announces
<1>3. Passes(open, open', ext)
  BY <1>1, PassesCall DEF Submits
<1> HIDE DEF cp
<1>4. Chain(base \o ext, stored', saved') /\ Covered(base \o ext, stored', saved', open')
  BY <1>2, <1>3, JoinChain
<1>5. Chain(queue', stored', saved') /\ Covered(queue', stored', saved', open')
  BY <1>1, <1>4
<1>6. Chain(queue, stored, saved)' /\ Covered(queue, stored, saved, open)'
      /\ IsSequence(stored)'
  BY <1>5 DEF Chain, Covered, Keeps, Hands, Ahead, Logs, Records, CheckpointsOf, Earned,
              SameSession, IsSequence
<1>7. open' # None => open'.openCount = 1 \/ open'.lastTrusted <= now'
  BY DEF Submits, EngineCall
<1> QED
  BY <1>6, <1>7 DEF EvidenceInv

-----------------------------------------------------------------------------
(* The host inputs.                                                        *)

LEMMA AppendJoins ==
  ASSUME NEW q, IsSequence(q), NEW x
  PROVE  Append(q, x) = q \o <<x>>
<1> DEFINE S == {q[i] : i \in DOMAIN q} \cup {x}
<1>1. q \in Seq(S)
  <2>1. \A i \in DOMAIN q : q[i] \in S
    OBVIOUS
  <2> HIDE DEF S
  <2> QED
    BY <2>1, SequenceGrows
<1>2. x \in S
  OBVIOUS
<1> HIDE DEF S
<1> QED
  BY <1>1, <1>2, AppendIsConcat

LEMMA JoinsAssociate ==
  ASSUME NEW p, NEW q, NEW r, IsSequence(p), IsSequence(q), IsSequence(r)
  PROVE  (p \o q) \o r = p \o (q \o r)
<1> DEFINE S == {p[i] : i \in DOMAIN p} \cup {q[i] : i \in DOMAIN q}
                \cup {r[i] : i \in DOMAIN r}
<1>1. /\ \A i \in DOMAIN p : p[i] \in S
      /\ \A i \in DOMAIN q : q[i] \in S
      /\ \A i \in DOMAIN r : r[i] \in S
  OBVIOUS
<1> HIDE DEF S
<1>2. p \in Seq(S) /\ q \in Seq(S) /\ r \in Seq(S)
  BY <1>1, SequenceGrows
<1> QED
  BY <1>2, ConcatAssociative

\* The callbacks alone.
LEMMA NewTasksJoin ==
  /\ Announces(NewTasks, out', Checkpoint') /\ Samples(NewTasks) /\ IsSequence(NewTasks)
<1>1. /\ Announces(NewTasks, out', Checkpoint')
      /\ \A i \in DOMAIN NewTasks : NewTasks[i].kind \notin {"refresh", "resolve"}
  BY TasksAnnounce DEF NewTasks
<1> QED
  BY <1>1 DEF Samples, Announces

\* A refresh asked for now, or with a sample.
LEMMA RefreshJoins ==
  ASSUME NEW sample, sample # None => sample \in Nat /\ sample <= now, NEW allow
  PROVE  /\ Plain(<<RefreshTask(sample, allow)>>) /\ Samples(<<RefreshTask(sample, allow)>>)
         /\ Plain(Refresh(sample, allow)) /\ Samples(Refresh(sample, allow))
<1> DEFINE x == RefreshTask(sample, allow)
<1>1. x.kind = "refresh" /\ x.sample = sample
  BY DEF RefreshTask
<1> HIDE DEF x
<1>2. Plain(<<x>>) /\ Samples(<<x>>)
  BY <1>1, PlainSingle, Single DEF Samples
<1>3. Plain(<<>>) /\ Samples(<<>>)
  BY PlainNothing, EmptySequence DEF Samples
<1>4. Refresh(sample, allow) = <<>> \/ Refresh(sample, allow) = <<x>>
  BY DEF Refresh, x
<1> QED
  BY <1>2, <1>3, <1>4 DEF x

LEMMA SamplesAround ==
  ASSUME NEW p, NEW q, Samples(p), Samples(q),
         \A i \in DOMAIN (p \o q) :
            \/ i \in DOMAIN p /\ (p \o q)[i] = p[i]
            \/ \E j \in DOMAIN q : (p \o q)[i] = q[j]
  PROVE  Samples(p \o q)
  BY DEF Samples

\* What a host input leaves alone, and what it submits.
HostCall == /\ Submits(queue, now) /\ now' = now /\ life' # "down"
            /\ saved' = saved /\ stored' = stored /\ adjusted' = adjusted

LEMMA SubmitsNew ==
  ASSUME NEW base, NEW s, EngineCall(s), queue' = base \o NewTasks
  PROVE  Submits(base, s)
  BY NewTasksJoin DEF Submits

LEMMA SubmitsPlain ==
  ASSUME NEW base, NEW s, EngineCall(s), Quiet, NEW ext, Plain(ext), Samples(ext),
         queue' = base \o ext
  PROVE  Submits(base, s)
<1>1. out' = Silent
  BY DEF Quiet
<1>2. Announces(ext, out', Checkpoint')
  BY <1>1, PlainQuiet
<1> QED
  BY <1>2 DEF Submits

\* The calls that close, touch or leave the session.
LEMMA HandlerCalls ==
  ASSUME NEW s \in Nat, Ready(s)
  PROVE  /\ HandleStop(s) => EngineCall(s)
         /\ HandleBlur(s) /\ "blur" \in Inputs => EngineCall(s)
         /\ HandleUntrackable(s) => EngineCall(s)
         /\ HandlePause(s) => EngineCall(s)
         /\ EnterDegraded(s) => EngineCall(s)
         /\ HandleIdleConfirm(s) => EngineCall(s)
         /\ HandleActivity(s) => EngineCall(s)
         /\ HandleEdit(s) => EngineCall(s)
<1>1. HandleStop(s) => EngineCall(s)
  BY CloseCall DEF HandleStop, EnterState, Reasons, Ready, RecoveryTyped
<1>2. HandleBlur(s) /\ "blur" \in Inputs => EngineCall(s)
  BY CloseCall DEF HandleBlur, EnterState, Reasons, Ready, RecoveryTyped
<1>3. HandleUntrackable(s) => EngineCall(s)
  BY CloseCall DEF HandleUntrackable, EnterState, Reasons, Ready, RecoveryTyped
<1>4. HandlePause(s) => EngineCall(s)
  BY CloseCall DEF HandlePause, EnterState, Reasons, Ready, RecoveryTyped
<1>5. EnterDegraded(s) => EngineCall(s)
  BY CloseCall DEF EnterDegraded, EnterState, Reasons, Ready, RecoveryTyped
<1>6. HandleIdleConfirm(s) => EngineCall(s)
  <2>1. SUFFICES ASSUME HandleIdleConfirm(s) PROVE EngineCall(s)
    OBVIOUS
  <2>2. open # None /\ open.lastTrusted \in Nat
    BY <2>1 DEF HandleIdleConfirm, Ready, Session
  <2>3. CloseOpen(open.lastTrusted, "idle") /\ state' # "active" /\ blurred' = blurred
        /\ RecoveryUnchanged /\ idleGap' = TrailingGap
    BY <2>1 DEF HandleIdleConfirm, EnterState
  <2>4. TrailingGap \in CandidateId
    BY <2>2, ConstantsAssumption DEF TrailingGap, CandidateId, Ready, Session
  <2> QED
    BY <2>2, <2>3, <2>4, CloseCall DEF Reasons
<1>7. HandleActivity(s) => EngineCall(s)
  BY RefreshCall DEF HandleActivity, RecoveryUnchanged
<1>8. HandleEdit(s) => EngineCall(s)
  BY RefreshCall DEF HandleEdit, RecoveryUnchanged
<1> QED
  BY <1>1, <1>2, <1>3, <1>4, <1>5, <1>6, <1>7, <1>8

\* The calls that leave the session where it is.
LEMMA SettledCalls ==
  ASSUME NEW s \in Nat, Ready(s), UNCHANGED <<open, state, blurred>>, out'.segment = None,
         out'.flush \/ UNCHANGED <<pending, recent>>, Settles
  PROVE  EngineCall(s)
<1>1. open # None => GoesOn
  BY DEF GoesOn, SameSession, Ready, Session
<1>2. UNCHANGED pending => PendingCandidates' = PendingCandidates
  BY DEF PendingCandidates
<1> QED
  BY <1>1, <1>2, NoneAssumption DEF EngineCall, Ready

LEMMA HostCalls ==
  ASSUME CurrentInv, NoStaleResume, HostStep
  PROVE  HostCall
<1>1. /\ life = "up" /\ now' = now /\ life' # "down" /\ saved' = saved /\ stored' = stored
      /\ adjusted' = adjusted
  BY DEF HostStep, LeafChange, ActivityEvent, FocusEvent, WindowBlur, EditorChange,
         OnIdleTimer, OnHeartbeat, OnPause, OnResume, UpdateSettings, OnResolve, OnUndo,
         OnStop, Input, durableVars
<1>2. now \in Nat /\ Ready(now) /\ IsSequence(queue)
  BY <1>1 DEF CurrentInv, Ready
<1>3. queue \o <<>> = queue
  <2> DEFINE S == {queue[i] : i \in DOMAIN queue}
  <2>1. queue \in Seq(S)
    BY <1>2 DEF IsSequence
  <2> HIDE DEF S
  <2> QED
    BY <2>1
<1> SUFFICES Submits(queue, now)
  BY <1>1 DEF HostCall
<1>4. CASE LeafChange
  <2>1. Quiet /\ queue' = queue \o Refresh(None, FALSE)
    BY <1>4 DEF LeafChange
  <2> QED
    BY <1>2, <2>1, QuietCall, RefreshJoins, SubmitsPlain
<1>5. CASE ActivityEvent
  <2>1. now \in Nat /\ now <= now
    BY <1>2
  <2>2. CASE Quiet /\ queue' = queue \o Refresh(now, TRUE)
    BY <1>2, <2>1, <2>2, QuietCall, RefreshJoins, SubmitsPlain
  <2>3. CASE HandleActivity(now) /\ queue' = queue \o NewTasks
    BY <1>2, <2>3, HandlerCalls, SubmitsNew
  <2> QED
    BY <1>5, <2>2, <2>3 DEF ActivityEvent
<1>6. CASE FocusEvent
  <2>1. now \in Nat /\ now <= now
    BY <1>2
  <2>2. CASE Quiet /\ queue' = queue \o Refresh(now, TRUE)
    BY <1>2, <2>1, <2>2, QuietCall, RefreshJoins, SubmitsPlain
  <2>3. CASE HandleActivity(now) /\ queue' = (queue \o Refresh(now, TRUE)) \o NewTasks
    <3> DEFINE p == Refresh(now, TRUE)
               q == NewTasks
    <3>1. Plain(p) /\ Samples(p) /\ Announces(q, out', Checkpoint') /\ Samples(q)
          /\ IsSequence(p) /\ IsSequence(q)
      BY <1>2, <2>1, RefreshJoins, NewTasksJoin DEF Plain
    <3>2. queue' = (queue \o p) \o q
      BY <2>3
    <3> HIDE DEF p, q
    <3>3. queue' = queue \o (p \o q)
      <4>1. (queue \o p) \o q = queue \o (p \o q)
        <5>1. IsSequence(queue) /\ IsSequence(p) /\ IsSequence(q)
          BY <1>2, <3>1
        <5> QED
          BY <5>1, JoinsAssociate
      <4> QED
        BY <3>2, <4>1
    <3>4. Announces(p \o q, out', Checkpoint') /\ Samples(p \o q)
      BY <3>1, PlainAround, SamplesAround
    <3> QED
      BY <1>2, <2>3, <3>3, <3>4, HandlerCalls DEF Submits
  <2> QED
    BY <1>6, <2>2, <2>3 DEF FocusEvent
<1>7. CASE WindowBlur
  <2>1. CASE Quiet /\ queue' = queue
    BY <1>2, <1>3, <2>1, QuietCall, PlainNothing, EmptySequence, SubmitsPlain DEF Samples
  <2>2. CASE HandleBlur(now) /\ queue' = queue \o NewTasks
    BY <1>2, <1>7, <2>2, HandlerCalls, SubmitsNew DEF WindowBlur, Input
  <2> QED
    BY <1>7, <2>1, <2>2 DEF WindowBlur
<1>8. CASE EditorChange
  BY <1>2, <1>8, HandlerCalls, SubmitsNew DEF EditorChange
<1>9. CASE OnIdleTimer
  BY <1>2, <1>9, HandlerCalls, SubmitsNew DEF OnIdleTimer
<1>10. CASE OnHeartbeat
  BY <1>2, <1>10, HeartbeatCall, SubmitsNew DEF OnHeartbeat
<1>11. CASE OnPause
  BY <1>2, <1>11, HandlerCalls, SubmitsNew DEF OnPause
<1>12. CASE OnResume
  <2>1. state = "paused" /\ HandleResume(now)
        /\ queue' = (queue \o NewTasks) \o <<RefreshTask(None, FALSE)>>
    BY <1>12 DEF OnResume, Input, NoStaleResume
  <2>2. /\ open = None /\ open' = None /\ state' = "untrackable" /\ blurred' = blurred
        /\ out'.flush /\ out'.segment = None
    BY <1>2, <2>1, EmitCallbacks DEF HandleResume, EnterState, Ready
  <2>8. Settles
    BY <1>2, <2>1, NothingSettled, EmitCallbacks DEF HandleResume, Ready, RecoveryTyped
  <2>3. EngineCall(now)
    BY <2>2, <2>8 DEF EngineCall
  <2> DEFINE p == NewTasks
             q == <<RefreshTask(None, FALSE)>>
  <2>4. Plain(q) /\ Samples(q) /\ Announces(p, out', Checkpoint') /\ Samples(p)
        /\ IsSequence(p) /\ IsSequence(q)
    BY RefreshJoins, NewTasksJoin DEF Plain
  <2>5. queue' = (queue \o p) \o q
    BY <2>1
  <2> HIDE DEF p, q
  <2>6. queue' = queue \o (p \o q)
    <3>1. (queue \o p) \o q = queue \o (p \o q)
      <4>1. IsSequence(queue) /\ IsSequence(p) /\ IsSequence(q)
        BY <1>2, <2>4
      <4> QED
        BY <4>1, JoinsAssociate
    <3> QED
      BY <2>5, <3>1
  <2>7. Announces(p \o q, out', Checkpoint') /\ Samples(p \o q)
    BY <2>4, PlainAround, SamplesAround
  <2> QED
    BY <2>3, <2>6, <2>7 DEF Submits
<1>13. CASE UpdateSettings
  <2>1. /\ UNCHANGED <<open, state, blurred, pending, recent>> /\ queue' = queue
        /\ out'.segment = None /\ out'.flush = FALSE /\ out'.decision = None
        /\ idleGap' = idleGap
    BY <1>13, EmitCallbacks DEF UpdateSettings, HandleSettings, RecoveryUnchanged
  <2>4. Settles
    BY <1>2, <2>1, NothingSettled DEF RecoveryUnchanged, Ready, RecoveryTyped
  <2>2. EngineCall(now)
    BY <1>2, <2>1, <2>4, SettledCalls
  <2>3. Announces(<<>>, out', Checkpoint') /\ Samples(<<>>)
    BY <2>1, EmptySequence DEF Announces, Samples, CheckpointsOf, RecordsOf
  <2> QED
    BY <1>3, <2>1, <2>2, <2>3 DEF Submits
<1>14. CASE OnResolve
  <2>1. PICK id \in PendingCandidates, choice \in {"include", "exclude"} :
           Quiet /\ queue' = Append(queue, ResolveTask(id, choice))
    BY <1>14 DEF OnResolve
  <2> DEFINE x == ResolveTask(id, choice)
  <2>2. x.kind = "resolve" /\ x.choice \in {"include", "exclude"}
    BY DEF ResolveTask
  <2>3. queue' = Append(queue, x)
    BY <2>1
  <2> HIDE DEF x
  <2>4. Plain(<<x>>) /\ Samples(<<x>>)
    BY <2>2, PlainSingle, Single DEF Samples
  <2>5. queue' = queue \o <<x>>
    BY <1>2, <2>3, AppendJoins
  <2> QED
    BY <1>2, <2>1, <2>4, <2>5, QuietCall, SubmitsPlain
<1>15. CASE OnUndo
  <2>1. /\ UNCHANGED <<open, state, blurred>> /\ out'.flush /\ out'.segment = None
        /\ queue' = queue \o NewTasks
    BY <1>15, EmitCallbacks DEF OnUndo, UndoAutomaticExclusion
  <2>2. Settles
    BY <1>2, <1>15, UndoSettles DEF OnUndo, Ready
  <2> QED
    BY <1>2, <2>1, <2>2, SettledCalls, SubmitsNew
<1>16. CASE OnStop
  BY <1>2, <1>16, HandlerCalls, SubmitsNew DEF OnStop
<1> QED
  BY <1>4, <1>5, <1>6, <1>7, <1>8, <1>9, <1>10, <1>11, <1>12, <1>13, <1>14, <1>15,
     <1>16 DEF HostStep

-----------------------------------------------------------------------------
(* The running task.                                                       *)

LEMMA PlacesStep ==
  ASSUME CurrentInv, CoordNext
  PROVE  Places'
<1>1. CASE Pass
  BY <1>1 DEF Pass, hostVars, CurrentInv, Places
<1>2. CASE HostStep
  BY <1>2 DEF HostStep, LeafChange, ActivityEvent, FocusEvent, WindowBlur, EditorChange,
         OnIdleTimer, OnHeartbeat, OnPause, OnResume, UpdateSettings, OnResolve, OnUndo,
         OnStop, Input, CurrentInv, Places
<1>3. CASE QueueStep
  BY <1>3 DEF QueueStep, SkipRefresh, RefreshUntrackable, AwaitIdentity, IdentityResolved,
         IdentityFails, SessionStored, DecisionStored, AppendFails, CheckpointSaved,
         CheckpointFails, RecoveryResolved, hostVars, CurrentInv, Places
<1>4. CASE Exit
  BY <1>4 DEF Exit, Places
<1>5. CASE Boot
  BY <1>5 DEF Boot, BootClean, BootContinuing, BootIdle, BootElsewhere, BootIntoState,
         ClosesSession, CurrentInv, Places
<1> QED
  BY <1>1, <1>2, <1>3, <1>4, <1>5 DEF CoordNext

\* The instant a task calls the engine with: the present, or the sample that a
\* refresh carries, which closes a session or opens one after it.
Called(s) ==
  /\ s <= now
  /\ \/ s = now
     \/ /\ Head(queue).kind = "refresh" /\ CarriesSample /\ s = Head(queue).sample
        /\ \/ RefreshUntrackable /\ open' = None
           \/ IdentityResolved /\ (open # None => open.lastTrusted <= s)

\* The head's task is over: what it wrote, and what the engine called back.
TaskCall ==
  /\ queue # <<>> /\ now' = now /\ life' # "down"
  /\ \E s \in Nat : Submits(Tail(queue), s) /\ Called(s)
  /\ \/ out'.flush
     \/ Head(queue).kind # "checkpoint" /\ saved' = saved
     \/ Head(queue).kind = "checkpoint" /\ saved' = Head(queue).checkpoint
  /\ \/ saved' = saved
     \/ Head(queue).kind = "checkpoint" /\ saved' = Head(queue).checkpoint
  /\ "checkpoint" \notin Failures /\ Head(queue).kind = "checkpoint" =>
        saved' = Head(queue).checkpoint
  /\ Head(queue).kind = "session" /\ "append" \notin Failures =>
        stored' = StoreSession(stored, Head(queue).record)
  /\ \/ stored' = stored
     \/ /\ Head(queue).kind = "session"
        /\ stored' = StoreSession(stored, Head(queue).record)
  /\ Head(queue).kind = "decision" /\ "append" \notin Failures =>
        adjusted' = StoreDecision(adjusted, Head(queue).record)
  /\ Head(queue).kind # "decision" => adjusted' = adjusted

LEMMA TaskCalls ==
  ASSUME CurrentInv, QueueStep
  PROVE  TaskCall \/ HostCall
<1>1. /\ queue # <<>> /\ now' = now /\ life # "down" /\ life' = life
  BY DEF QueueStep, SkipRefresh, RefreshUntrackable, AwaitIdentity, IdentityResolved,
         IdentityFails, SessionStored, DecisionStored, AppendFails, CheckpointSaved,
         CheckpointFails, RecoveryResolved, Runs, Up, hostVars, StartsRefresh
<1>2. now \in Nat /\ Ready(now) /\ IsSequence(queue)
  BY <1>1 DEF CurrentInv, Ready
<1> DEFINE h == Head(queue)
<1>3. h.kind = "refresh" => /\ SampleOf(h) \in Nat
                            /\ SampleOf(h) <= now
  <2>1. h = queue[1] /\ 1 \in DOMAIN queue
    BY <1>1, <1>2, Popped
  <2> QED
    BY <1>2, <2>1 DEF CurrentInv, Samples, SampleOf
<1>4. ASSUME EngineCall(now), queue' = Tail(queue) \o NewTasks
      PROVE  \E s \in Nat : Submits(Tail(queue), s) /\ Called(s)
  <2>1. Called(now)
    BY <1>2 DEF Called
  <2>2. Submits(Tail(queue), now)
    BY <1>4, SubmitsNew
  <2> QED
    BY <1>2, <2>1, <2>2
<1>5. CASE SkipRefresh
  BY <1>1, <1>2, <1>4, <1>5, QuietCall DEF SkipRefresh, Finish, Runs, durableVars, TaskCall
<1>6. CASE AwaitIdentity
  <2>1. Quiet /\ queue' = queue /\ saved' = saved /\ stored' = stored /\ adjusted' = adjusted
    BY <1>6 DEF AwaitIdentity, durableVars
  <2>2. queue \o <<>> = queue
    <3> DEFINE S == {queue[i] : i \in DOMAIN queue}
    <3>1. queue \in Seq(S)
      BY <1>2 DEF IsSequence
    <3> HIDE DEF S
    <3> QED
      BY <3>1
  <2>3. Submits(queue, now)
    BY <1>2, <2>1, <2>2, QuietCall, PlainNothing, EmptySequence, SubmitsPlain DEF Samples
  <2> QED
    BY <1>1, <2>1, <2>3 DEF HostCall
<1>7. CASE IdentityFails
  BY <1>1, <1>2, <1>4, <1>7, HandlerCalls
     DEF IdentityFails, Finish, Runs, durableVars, TaskCall
<1>8. CASE SessionStored
  BY <1>1, <1>2, <1>4, <1>8, QuietCall DEF SessionStored, Finish, Runs, TaskCall
<1>9. CASE DecisionStored
  BY <1>1, <1>2, <1>4, <1>9, QuietCall DEF DecisionStored, Finish, Runs, TaskCall
<1>10. CASE AppendFails
  <2>1. EngineCall(now) /\ queue' = Tail(queue) \o NewTasks
    BY <1>2, <1>10, HandlerCalls DEF AppendFails, Finish
  <2>2. \E s \in Nat : Submits(Tail(queue), s) /\ Called(s)
    BY <1>4, <2>1
  <2>3. /\ "append" \in Failures
        /\ saved' = saved /\ Head(queue).kind \in {"session", "decision"}
    BY <1>10 DEF AppendFails, Runs
  <2>4. /\ \/ stored' = stored
           \/ /\ Head(queue).kind = "session"
              /\ stored' = StoreSession(stored, Head(queue).record)
        /\ Head(queue).kind # "decision" => adjusted' = adjusted
    BY <1>10 DEF AppendFails
  <2> HIDE DEF h
  <2> QED
    BY <1>1, <2>2, <2>3, <2>4 DEF TaskCall
<1>11. CASE CheckpointSaved
  BY <1>1, <1>2, <1>4, <1>11, QuietCall DEF CheckpointSaved, Finish, Runs, TaskCall
<1>12. CASE CheckpointFails
  <2>1. /\ EngineCall(now) /\ queue' = Tail(queue) \o NewTasks
        /\ saved' = saved /\ h.kind = "checkpoint" /\ stored' = stored
        /\ "checkpoint" \in Failures /\ adjusted' = adjusted
    BY <1>2, <1>12, HandlerCalls DEF CheckpointFails, Finish, Runs, durableVars
  <2>2. out'.flush
    BY <1>12, EmitCallbacks DEF CheckpointFails, EnterDegraded, CloseOpen
  <2> QED
    BY <1>1, <1>4, <2>1, <2>2 DEF TaskCall
<1>13. CASE RecoveryResolved
  <2>1. /\ queue' = Tail(queue) \o NewTasks /\ h.kind = "resolve"
        /\ saved' = saved /\ stored' = stored /\ adjusted' = adjusted
    BY <1>13 DEF RecoveryResolved, Finish, Runs, durableVars
  <2>2. CASE ResolveRecovery(h.id, h.choice, h.sample)
    <3>1. UNCHANGED <<open, state, blurred>> /\ out'.flush /\ out'.segment = None
      BY <2>2, EmitCallbacks DEF ResolveRecovery
    <3>2. h.choice \in {"include", "exclude"}
      <4>1. h = queue[1] /\ 1 \in DOMAIN queue
        BY <1>1, <1>2, Popped
      <4> QED
        BY <2>1, <4>1 DEF CurrentInv, Samples
    <3>3. Settles
      BY <1>2, <2>2, <3>2, ResolveSettles DEF Ready
    <3> QED
      BY <1>1, <1>2, <1>4, <2>1, <3>1, <3>3, SettledCalls DEF TaskCall
  <2>3. CASE Quiet
    BY <1>1, <1>2, <1>4, <2>1, <2>3, QuietCall DEF TaskCall
  <2> QED
    BY <1>13, <2>2, <2>3 DEF RecoveryResolved
<1>14. CASE RefreshUntrackable \/ IdentityResolved
  <2> DEFINE s == SampleOf(h)
  <2>1. /\ queue' = Tail(queue) \o NewTasks /\ h.kind = "refresh"
        /\ saved' = saved /\ stored' = stored /\ s \in Nat /\ s <= now
        /\ adjusted' = adjusted
    BY <1>3, <1>14
       DEF RefreshUntrackable, IdentityResolved, StartsRefresh, Finish, Runs, durableVars
  <2>2. Ready(s)
    BY <1>2, <2>1 DEF Ready
  <2>3. s = now \/ (CarriesSample /\ s = h.sample)
    BY DEF SampleOf, CarriesSample
  <2>4. \/ RefreshUntrackable /\ HandleUntrackable(s)
        \/ IdentityResolved /\ resolving \in Targets /\ HandleFocusTarget(s, resolving)
        \/ Quiet
    BY <1>14 DEF RefreshUntrackable, IdentityResolved, CurrentInv, Places
  <2>5. \E c \in Nat : Submits(Tail(queue), c) /\ Called(c)
    <3> HIDE DEF s, h
    <3>1. CASE RefreshUntrackable /\ HandleUntrackable(s)
      <4>1. Submits(Tail(queue), s)
        BY <2>1, <2>2, <3>1, HandlerCalls, SubmitsNew
      <4>2. open' = None
        BY <3>1 DEF HandleUntrackable, CloseOpen
      <4> QED
        BY <2>1, <2>3, <3>1, <4>1, <4>2 DEF Called, h
    <3>2. CASE IdentityResolved /\ resolving \in Targets /\ HandleFocusTarget(s, resolving)
      <4>1. Submits(Tail(queue), s)
        BY <2>1, <2>2, <3>2, FocusTargetCall, SubmitsNew
      <4>2. open # None => open.lastTrusted <= s
        BY <2>2, <3>2 DEF HandleFocusTarget, OpenFromNothing, RefreshSameFile, SwitchFile,
           RefreshActivity, Ready, Session
      <4> QED
        BY <2>1, <2>3, <3>2, <4>1, <4>2 DEF Called, h
    <3>3. CASE Quiet
      BY <1>2, <1>4, <2>1, <3>3, QuietCall
    <3> QED
      BY <2>4, <3>1, <3>2, <3>3
  <2> HIDE DEF s, h
  <2> QED
    BY <1>1, <2>1, <2>5 DEF TaskCall, h
<1> QED
  BY <1>5, <1>6, <1>7, <1>8, <1>9, <1>10, <1>11, <1>12, <1>13, <1>14 DEF QueueStep

-----------------------------------------------------------------------------
(* Restarts.                                                               *)

\* What every start leaves alone, and the session it leaves.
Reboot ==
  /\ now' = now /\ life' = "up" /\ saved' = saved /\ stored' = stored
  /\ adjusted' = adjusted /\ RecoveryTyped'
  /\ open' \in Session \cup {None} /\ (open' # None <=> state' = "active")
  /\ open' # None => open'.openCount = 1

LEMMA NothingBefore ==
  ASSUME NEW ext, IsSequence(ext)
  PROVE  /\ <<>> \o ext = ext /\ ext \o <<>> = ext
         /\ IsSequence(<<>>) /\ CheckpointsOf(<<>>) = {} /\ Samples(<<>>)
<1> DEFINE S == {ext[i] : i \in DOMAIN ext}
<1>1. ext \in Seq(S)
  BY DEF IsSequence
<1> HIDE DEF S
<1>2. <<>> \o ext = ext /\ ext \o <<>> = ext
  BY <1>1
<1> QED
  BY <1>2, EmptySequence DEF CheckpointsOf, Samples

\* Before its first task the queue holds nothing a checkpoint could lose.
LEMMA NothingQueued ==
  ASSUME CurrentInv
  PROVE  /\ Formed(<<>>, saved) /\ Chain(<<>>, stored, saved)
         /\ Covered(<<>>, stored, saved, Restored)
         /\ HadSession => Restored \in Session /\ Restored # None
<1>1. CheckpointsOf(<<>>) = {}
  BY EmptySequence DEF CheckpointsOf
<1>2. saved # None => WellFormed(saved)
  BY DEF CurrentInv, Formed
<1>3. HadSession => saved.open \in StoredSession
  BY <1>2 DEF HadSession, WellFormed
<1>4. HadSession => Restored \in Session /\ Restored # None
  BY <1>3, NoneAssumption DEF Restored, StoredSession, Session
<1>5. Earned(saved) => HadSession
  BY DEF Earned, HadSession
<1>6. Keeps(<<>>, stored, saved, Restored)
  BY <1>4, <1>5 DEF Keeps, Restored, SameSession
<1> QED
  BY <1>1, <1>2, <1>4, <1>6 DEF Formed, Chain, Covered

LEMMA BootCurrent ==
  ASSUME CurrentInv, Reboot, Places', NEW ext, queue' = ext,
         Announces(ext, out', Checkpoint'), Samples(ext),
         out'.flush \/ (saved # None => Describes(saved, Face'))
  PROVE  CurrentInv'
<1> DEFINE cp == Checkpoint'
<1>1. IsSequence(ext) /\ (\A k \in CheckpointsOf(ext) : ext[k].checkpoint = cp)
      /\ (out'.flush => CheckpointsOf(ext) # {})
  BY DEF Announces
<1>2. Describes(cp, Face') /\ WellFormed(cp)
  BY CheckpointNow DEF Reboot
<1> HIDE DEF cp
<1>3. /\ <<>> \o ext = ext /\ IsSequence(<<>>) /\ CheckpointsOf(<<>>) = {}
  BY <1>1, NothingBefore
<1>4. (saved # None => Describes(saved, Face')) => Latest(<<>>, saved, Face')
  BY <1>3 DEF Latest
<1>5. CheckpointsOf(ext) # {} \/ Latest(<<>>, saved, Face')
  BY <1>1, <1>4
<1>6. Latest(<<>> \o ext, saved, Face')
  BY <1>1, <1>2, <1>3, <1>5, JoinLatest
<1>7. Formed(<<>> \o ext, saved)
  BY <1>1, <1>2, <1>3, NothingQueued, JoinFormed
<1>8. /\ IsSequence(queue') /\ Samples(queue') /\ Formed(queue', saved')
      /\ Latest(queue', saved', Face')
  BY <1>1, <1>3, <1>6, <1>7 DEF Reboot
<1>9. IsSequence(queue)' /\ Samples(queue)' /\ Formed(queue, saved)'
      /\ Latest(queue, saved, Face)'
  BY <1>8 DEF IsSequence, Formed, Latest, Samples, Reboot
<1> QED
  BY <1>9 DEF Reboot, CurrentInv

LEMMA BootEvidence ==
  ASSUME CurrentInv, Reboot, IsSequence(stored), NEW ext, queue' = ext,
         Announces(ext, out', Checkpoint'), Passes(Restored, open', ext)
  PROVE  EvidenceInv'
<1> DEFINE cp == Checkpoint'
<1>1. IsSequence(ext) /\ \A k \in CheckpointsOf(ext) : ext[k].checkpoint = cp
  BY DEF Announces
<1>2. Names(cp, open')
  BY CheckpointNow DEF Reboot
<1> HIDE DEF cp
<1>3. <<>> \o ext = ext /\ IsSequence(<<>>)
  BY <1>1, NothingBefore
<1>4. Chain(<<>> \o ext, stored, saved) /\ Covered(<<>> \o ext, stored, saved, open')
  BY <1>1, <1>2, <1>3, NothingQueued, JoinChain
<1>5. Chain(queue', stored', saved') /\ Covered(queue', stored', saved', open')
  BY <1>3, <1>4 DEF Reboot
<1>6. Chain(queue, stored, saved)' /\ Covered(queue, stored, saved, open)'
      /\ IsSequence(stored)'
  BY <1>5 DEF Chain, Covered, Keeps, Hands, Ahead, Logs, Records, CheckpointsOf, Earned,
              SameSession, IsSequence, Reboot
<1> QED
  BY <1>6 DEF EvidenceInv, Reboot

\* What a start takes over, or begins with, is well typed.
LEMMA BootTyped ==
  ASSUME CurrentInv, Boot
  PROVE  RecoveryTyped'
<1>1. CASE BootClean
  <2>1. DOMAIN pending' = {} /\ idleGap' = None /\ IsSequence(recent')
    BY <1>1, EmptySequence DEF BootClean
  <2> QED
    BY <2>1 DEF RecoveryTyped, IsSequence
<1>2. CASE BootContinuing \/ BootIdle \/ BootElsewhere \/ BootIntoState
  <2>1. saved # None /\ RestoreRecovery /\ WellFormed(saved)
    BY <1>2 DEF BootContinuing, BootIdle, BootElsewhere, BootIntoState, ClosesSession,
       HadSession, CurrentInv, Formed
  <2>2. idleGap' \in CandidateId \cup {None}
    <3>1. CASE BootIdle
      <4>1. saved.open.lastTrusted \in Nat /\ saved.open.target \in Targets
        BY <3>1, <2>1 DEF BootIdle, ClosesSession, HadSession, WellFormed, StoredSession
      <4> QED
        BY <3>1, <4>1, ConstantsAssumption DEF BootIdle, CandidateId
    <3> QED
      BY <1>2, <3>1 DEF BootContinuing, BootElsewhere, BootIntoState
  <2>3. /\ \A id \in DOMAIN saved.pending : Gap(id, saved.pending[id])
        /\ IsSequence(saved.recent)
    BY <2>1 DEF WellFormed, Recoverable
  <2>4. /\ \A id \in DOMAIN pending' : Gap(id, pending'[id].to)
        /\ IsSequence(recent')
    BY <2>1, <2>3 DEF RestoreRecovery
  <2> QED
    BY <2>2, <2>4 DEF RecoveryTyped, Gap, IsSequence
<1> QED
  BY <1>1, <1>2 DEF Boot

\* A restored recovery queue holds what the checkpoint kept.
LEMMA RestoredCandidates ==
  ASSUME RestoreRecovery
  PROVE  PendingCandidates' = DOMAIN saved.pending /\ recent' = saved.recent
  BY DEF RestoreRecovery, PendingCandidates

\* The first tasks of a start that is described by one call.
BootTasks(ext) ==
  /\ queue' = ext /\ Announces(ext, out', Checkpoint') /\ Samples(ext)
  /\ Passes(Restored, open', ext)
  /\ out'.flush \/ (saved # None => Describes(saved, Face'))

LEMMA BootCleanTasks ==
  ASSUME CurrentInv, BootClean
  PROVE  Reboot /\ \E ext : BootTasks(ext)
<1>1. Reboot /\ out'.flush
  BY BootTyped DEF Boot, BootClean, Boots, durableVars, Reboot, Silent
<1> DEFINE p == NewTasks
           q == <<RefreshTask(None, FALSE)>>
<1>2. Plain(q) /\ Samples(q) /\ Announces(p, out', Checkpoint') /\ Samples(p)
  BY RefreshJoins, NewTasksJoin
<1>3. queue' = p \o q
  BY DEF BootClean
<1> HIDE DEF p, q
<1>4. Announces(p \o q, out', Checkpoint') /\ Samples(p \o q)
  BY <1>2, PlainAround, SamplesAround
<1>5. Passes(Restored, open', p \o q)
  BY DEF Passes, Restored, HadSession, BootClean
<1> QED
  BY <1>1, <1>3, <1>4, <1>5 DEF BootTasks

LEMMA BootContinuingTasks ==
  ASSUME CurrentInv, BootContinuing
  PROVE  Reboot /\ \E ext : BootTasks(ext)
<1>1. saved # None /\ HadSession /\ saved.open \in StoredSession
      /\ saved.state = "active" /\ now \in Nat
  BY DEF BootContinuing, CurrentInv, Formed, WellFormed, HadSession
<1>2. /\ open' \in Session /\ open'.target = saved.open.target
      /\ open'.started = saved.open.started /\ open'.openCount = 1
  BY <1>1 DEF BootContinuing, StoredSession, Session
<1>3. Reboot
  BY <1>2, BootTyped, NoneAssumption DEF Boot, BootContinuing, Boots, durableVars, Reboot
<1>4. Passes(Restored, open', NewTasks)
  BY <1>1, <1>2, NoneAssumption DEF Passes, Restored, SameSession
<1>5. Describes(saved, Face')
  <2>1. PendingCandidates' = DOMAIN saved.pending /\ recent' = saved.recent
        /\ state' = "active"
    BY RestoredCandidates DEF BootContinuing
  <2> QED
    BY <1>1, <1>2, <2>1, NoneAssumption DEF Describes, Face, SameSession, HadSession
<1> QED
  BY <1>3, <1>4, <1>5, NewTasksJoin DEF BootTasks, BootContinuing

\* What a start emits when it closes the checkpoint's session.
LEMMA ClosesRestored ==
  ASSUME CurrentInv, ClosesSession
  PROVE  /\ saved # None /\ saved.open \in StoredSession /\ HadSession
         /\ RestoredClose # None /\ open' = None /\ out'.segment = RestoredClose /\ out'.flush
         /\ RestoredClose.file = Restored.target.file
         /\ RestoredClose.from = Restored.started
<1>1. saved # None /\ saved.open \in StoredSession /\ HadSession
  BY DEF ClosesSession, CurrentInv, Formed, WellFormed, HadSession
<1>2. RestoredClose \in Segment
  BY <1>1, ConstantsAssumption DEF RestoredClose, StoredSession, Segment, Reasons
<1> QED
  BY <1>1, <1>2, NoneAssumption DEF ClosesSession, RestoredClose, Restored

\* A session whose record is among the callbacks is not lost.
LEMMA RecordPasses ==
  ASSUME NEW session, NEW new, NEW ext, NEW o, NEW cp, Announces(ext, o, cp),
         o.segment # None, o.segment.file = session.target.file,
         o.segment.from = session.started
  PROVE  Passes(session, new, ext)
<1>1. PICK j \in RecordsOf(ext) : TRUE
  BY DEF Announces
<1>2. ext[j].record = o.segment /\ \A k \in CheckpointsOf(ext) : j < k
  BY <1>1 DEF Announces
<1> QED
  BY <1>1, <1>2 DEF Passes, RecordsOf

LEMMA BootIdleTasks ==
  ASSUME CurrentInv, BootIdle
  PROVE  Reboot /\ \E ext : BootTasks(ext)
<1>1. ClosesSession /\ state' = "idle" /\ queue' = NewTasks
  BY DEF BootIdle
<1>2. Reboot /\ out'.flush
  BY <1>1, BootTyped, ClosesRestored DEF Boot, ClosesSession, Boots, durableVars, Reboot
<1>3. Announces(NewTasks, out', Checkpoint') /\ Samples(NewTasks)
  BY NewTasksJoin
<1>4. Passes(Restored, open', NewTasks)
  BY <1>1, <1>3, ClosesRestored, RecordPasses
<1> QED
  BY <1>1, <1>2, <1>3, <1>4 DEF BootTasks

LEMMA BootIntoTasks ==
  ASSUME CurrentInv, BootIntoState
  PROVE  Reboot /\ \E ext : BootTasks(ext)
<1>1. saved # None /\ WellFormed(saved) /\ ~HadSession /\ open' = None
      /\ state' = saved.state /\ queue' = <<>> /\ out' = Silent
  BY DEF BootIntoState, CurrentInv, Formed
<1>2. saved.open = None /\ state' # "active"
  BY <1>1 DEF WellFormed, HadSession
<1>3. Reboot
  BY <1>1, <1>2, BootTyped DEF Boot, BootIntoState, Boots, durableVars, Reboot
<1>4. Describes(saved, Face')
  BY <1>1, <1>2, RestoredCandidates DEF BootIntoState, Describes, Face
<1>5. Announces(<<>>, out', Checkpoint') /\ Samples(<<>>)
  BY <1>1, PlainNothing, PlainQuiet, EmptySequence DEF Samples
<1>6. Passes(Restored, open', <<>>)
  BY <1>1 DEF Passes, Restored
<1> QED
  BY <1>1, <1>3, <1>4, <1>5, <1>6 DEF BootTasks

\* A start that finds another file: two checkpoints follow the record.
LEMMA BootElsewhereInv ==
  ASSUME CurrentInv, BootElsewhere, Places'
  PROVE  CurrentInv' /\ (IsSequence(stored) => EvidenceInv')
<1> DEFINE c1 == [Checkpoint' EXCEPT !.state = "idle"]
           c2 == Checkpoint'
           p == Tasks(out', c1)
           task == [kind |-> "checkpoint", checkpoint |-> c2]
           q == <<task>>
<1>1. ClosesSession /\ state' = "untrackable" /\ queue' = p \o q
  BY DEF BootElsewhere
<1>2. Reboot
  BY <1>1, BootTyped, ClosesRestored DEF Boot, ClosesSession, Boots, durableVars, Reboot
<1>3. /\ Describes(c2, Face') /\ WellFormed(c2) /\ Names(c2, open') /\ open' = None
  BY <1>1, <1>2, ClosesRestored, CheckpointNow DEF Reboot
<1>4. /\ c1.open = None /\ c1.state = "idle"
      /\ c1.pending = c2.pending /\ c1.recent = c2.recent
  BY <1>1, ClosesRestored DEF Checkpoint
<1>5. Announces(p, out', c1) /\ Samples(p)
  BY TasksAnnounce DEF Samples
<1>6. task.kind = "checkpoint" /\ task.checkpoint = c2
  OBVIOUS
<1> HIDE DEF c1, c2, p, task
<1>7. /\ IsSequence(q) /\ CheckpointsOf(q) # {} /\ Samples(q)
      /\ \A k \in CheckpointsOf(q) : q[k].checkpoint = c2
  BY <1>6, Single DEF CheckpointsOf, Samples
<1> HIDE DEF q
<1>8. WellFormed(c1) /\ Names(c1, None)
  BY <1>3, <1>4 DEF WellFormed, Recoverable, Names, Earned
<1>9. Passes(Restored, None, p) /\ Passes(None, None, q)
  <2>1. Passes(Restored, None, p)
    BY <1>1, <1>5, ClosesRestored, RecordPasses
  <2> QED
    BY <2>1 DEF Passes
<1>10. /\ IsSequence(p) /\ \A k \in CheckpointsOf(p) : p[k].checkpoint = c1
       /\ <<>> \o p = p /\ IsSequence(<<>>)
  BY <1>5, NothingBefore DEF Announces
<1>11. Formed(p \o q, saved)
  <2>1. Formed(<<>> \o p, saved)
    BY <1>8, <1>10, NothingQueued, JoinFormed
  <2> QED
    BY <1>3, <1>7, <1>10, <2>1, JoinFormed
<1>12. Latest(p \o q, saved, Face')
  BY <1>3, <1>7, <1>10, JoinLatest
<1>13. IsSequence(p \o q) /\ Samples(p \o q)
  <2>1. /\ IsSequence(p \o q)
        /\ \A i \in DOMAIN p : (p \o q)[i] = p[i]
        /\ \A k \in DOMAIN (p \o q) :
              \/ k \in DOMAIN p
              \/ k - Len(p) \in DOMAIN q /\ (p \o q)[k] = q[k - Len(p)]
    BY <1>7, <1>10, Joined
  <2> QED
    BY <1>5, <1>7, <2>1 DEF Samples
<1>14. /\ IsSequence(queue') /\ Samples(queue') /\ Formed(queue', saved')
       /\ Latest(queue', saved', Face')
  BY <1>1, <1>2, <1>11, <1>12, <1>13 DEF Reboot
<1>15. IsSequence(queue)' /\ Samples(queue)' /\ Formed(queue, saved)'
       /\ Latest(queue, saved, Face)'
  BY <1>2, <1>14 DEF IsSequence, Formed, Latest, Samples, Reboot
<1>16. CurrentInv'
  BY <1>2, <1>15 DEF Reboot, CurrentInv
<1>17. ASSUME IsSequence(stored) PROVE EvidenceInv'
  <2>1. Chain(<<>> \o p, stored, saved) /\ Covered(<<>> \o p, stored, saved, None)
    BY <1>8, <1>9, <1>10, NothingQueued, JoinChain
  <2>2. Names(c2, None)
    BY <1>3
  <2>3. Chain(p, stored, saved) /\ Covered(p, stored, saved, None)
    BY <1>10, <2>1
  <2>4. Chain(p \o q, stored, saved) /\ Covered(p \o q, stored, saved, None)
    BY <1>7, <1>9, <1>10, <2>2, <2>3, JoinChain
  <2>5. Chain(queue', stored', saved') /\ Covered(queue', stored', saved', open')
    BY <1>1, <1>2, <1>3, <2>4 DEF Reboot
  <2>6. Chain(queue, stored, saved)' /\ Covered(queue, stored, saved, open)'
        /\ IsSequence(stored)'
    BY <1>2, <1>17, <2>5 DEF Chain, Covered, Keeps, Hands, Ahead, Logs, Records,
       CheckpointsOf, Earned, SameSession, IsSequence, Reboot
  <2> QED
    BY <1>3, <2>6 DEF EvidenceInv
<1> QED
  BY <1>16, <1>17

LEMMA BootInv ==
  ASSUME CurrentInv, Boot, Places'
  PROVE  CurrentInv' /\ (IsSequence(stored) => EvidenceInv')
<1>1. CASE BootElsewhere
  BY <1>1, BootElsewhereInv
<1>2. CASE BootClean \/ BootContinuing \/ BootIdle \/ BootIntoState
  <2>1. Reboot /\ \E ext : BootTasks(ext)
    BY <1>2, BootCleanTasks, BootContinuingTasks, BootIdleTasks, BootIntoTasks
  <2>2. PICK ext : BootTasks(ext)
    BY <2>1
  <2>3. CurrentInv'
    BY <2>1, <2>2, BootCurrent DEF BootTasks
  <2>4. IsSequence(stored) => EvidenceInv'
    BY <2>1, <2>2, BootEvidence DEF BootTasks
  <2> QED
    BY <2>3, <2>4
<1> QED
  BY <1>1, <1>2 DEF Boot

-----------------------------------------------------------------------------
(* The invariants.                                                         *)

\* The log keeps what it has and gains the record it is given.
LEMMA StoredAgain ==
  ASSUME NEW log, IsSequence(log), NEW record
  PROVE  LET newLog == StoreSession(log, record)
         IN  /\ IsSequence(newLog)
             /\ \A session : Logs(log, session) => Logs(newLog, session)
             /\ \A session : /\ record.file = session.target.file
                             /\ record.from = session.started
                             => Logs(newLog, session)
<1> DEFINE newLog == StoreSession(log, record)
<1>1. CASE \E i \in DOMAIN log : log[i].file = record.file /\ log[i].from = record.from
  BY <1>1 DEF StoreSession, Logs
<1>2. CASE ~\E i \in DOMAIN log : log[i].file = record.file /\ log[i].from = record.from
  <2>1. newLog = log \o <<record>>
    BY <1>2, AppendJoins DEF StoreSession
  <2>2. /\ IsSequence(<<record>>) /\ 1 \in DOMAIN <<record>> /\ <<record>>[1] = record
    BY Single
  <2>3. /\ IsSequence(newLog)
        /\ \A i \in DOMAIN log : i \in DOMAIN newLog /\ newLog[i] = log[i]
        /\ Len(log) + 1 \in DOMAIN newLog /\ newLog[Len(log) + 1] = record
    BY <2>1, <2>2, Joined
  <2> HIDE DEF newLog
  <2>4. /\ \A session : Logs(log, session) => Logs(newLog, session)
        /\ \A session : /\ record.file = session.target.file
                        /\ record.from = session.started
                        => Logs(newLog, session)
    BY <2>3 DEF Logs
  <2> QED
    BY <2>3, <2>4 DEF newLog
<1> QED
  BY <1>1, <1>2

LEMMA HostCurrent ==
  ASSUME CurrentInv, life # "down", Places', HostCall
  PROVE  CurrentInv'
  BY CurrentCall DEF CurrentInv, HostCall

LEMMA HostEvidence ==
  ASSUME CurrentInv, life # "down", HostCall, EvidenceInv
  PROVE  EvidenceInv'
  BY EvidenceCall DEF CurrentInv, EvidenceInv, HostCall

LEMMA TaskCurrent ==
  ASSUME CurrentInv, life # "down", Places', TaskCall
  PROVE  CurrentInv'
<1>1. PICK s \in Nat : Submits(Tail(queue), s)
  BY DEF TaskCall
<1>2. /\ IsSequence(queue) /\ queue # <<>> /\ Formed(queue, saved) /\ Samples(queue)
      /\ Latest(queue, saved, Face)
  BY DEF CurrentInv, TaskCall
<1>3. IsSequence(Tail(queue)) /\ Formed(Tail(queue), saved')
  BY <1>2, Popped, PopFormed DEF TaskCall
<1>4. Samples(Tail(queue))
  BY <1>2, Popped DEF Samples
<1>5. out'.flush \/ Latest(Tail(queue), saved', Face)
  BY <1>2, PopLatest DEF TaskCall
<1> QED
  BY <1>1, <1>3, <1>4, <1>5, CurrentCall DEF CurrentInv, TaskCall

LEMMA TaskEvidence ==
  ASSUME CurrentInv, life # "down", TaskCall, SureAppends, ClosesInTime, EvidenceInv
  PROVE  EvidenceInv'
<1>1. PICK s \in Nat : Submits(Tail(queue), s) /\ Called(s)
  BY DEF TaskCall
<1>7. open # None => open.openCount = 1 \/ open.lastTrusted <= s
  BY <1>1 DEF Called, EvidenceInv, ClosesInTime
<1>2. /\ IsSequence(queue) /\ queue # <<>> /\ IsSequence(stored)
      /\ Chain(queue, stored, saved) /\ Covered(queue, stored, saved, open)
  BY DEF CurrentInv, TaskCall, EvidenceInv
<1>3. /\ IsSequence(stored')
      /\ \A session : Logs(stored, session) => Logs(stored', session)
      /\ \A session : Records(Head(queue), session) => Logs(stored', session)
  <2>1. CASE Head(queue).kind = "session"
    <3>1. stored' = StoreSession(stored, Head(queue).record)
      BY <2>1 DEF TaskCall, SureAppends
    <3>2. /\ IsSequence(stored')
          /\ \A session : Logs(stored, session) => Logs(stored', session)
          /\ \A session : /\ Head(queue).record.file = session.target.file
                          /\ Head(queue).record.from = session.started
                          => Logs(stored', session)
      BY <1>2, <3>1, StoredAgain
    <3> QED
      BY <3>2 DEF Records
  <2>2. CASE Head(queue).kind # "session"
    BY <1>2, <2>2 DEF TaskCall, Records
  <2> QED
    BY <2>1, <2>2
<1>4. Done(Head(queue), stored, stored', saved, saved')
  BY <1>3 DEF Done, TaskCall
<1>5. /\ Chain(Tail(queue), stored', saved')
      /\ Covered(Tail(queue), stored', saved', open)
  BY <1>2, <1>4, PopChain, PopCovered
<1>6. IsSequence(Tail(queue))
  BY <1>2, Popped
<1> QED
  BY <1>1, <1>3, <1>5, <1>6, <1>7, EvidenceCall
     DEF CurrentInv, TaskCall, EvidenceInv, Called

\* Nothing but time moves.
LEMMA TimeAlone ==
  ASSUME CurrentInv, now' \in Nat, now' >= now,
         UNCHANGED <<engineVars, hostVars, queue, resolving, durableVars>>
  PROVE  CurrentInv' /\ (EvidenceInv => EvidenceInv')
<1> USE DEF engineVars, hostVars, durableVars
<1>5. RecoveryTyped' /\ Face' = Face
  BY DEF CurrentInv, RecoveryTyped, Gap, IsSequence, Face, PendingCandidates
<1>6. Samples(queue)' /\ Formed(queue, saved)'
  BY DEF CurrentInv, Samples, Formed
<1>7. (life # "down" => Latest(queue, saved, Face))'
  BY <1>5 DEF CurrentInv, Latest
<1>1. CurrentInv'
  BY <1>5, <1>6, <1>7 DEF CurrentInv, Places, IsSequence
<1>2. Chain(queue, stored, saved)' = Chain(queue, stored, saved)
      /\ Covered(queue, stored, saved, open)' = Covered(queue, stored, saved, open)
      /\ IsSequence(stored)' = IsSequence(stored)
  BY DEF Chain, Covered, Keeps, Hands, Ahead, Logs, Records, CheckpointsOf, Earned,
         SameSession, IsSequence
<1>3. open # None => open.lastTrusted \in Nat
  BY DEF CurrentInv, Session
<1>4. EvidenceInv => EvidenceInv'
  BY <1>2, <1>3 DEF EvidenceInv, CurrentInv
<1> QED
  BY <1>1, <1>4

\* The process is gone: the queue with it.
LEMMA ExitInv ==
  ASSUME CurrentInv, Exit, Places'
  PROVE  CurrentInv' /\ (EvidenceInv => EvidenceInv')
<1>1. /\ now' = now /\ open' = open /\ saved' = saved /\ stored' = stored
      /\ queue' = <<>> /\ life' = "down"
  BY DEF Exit, Quiet, durableVars
<1>2. IsSequence(<<>>) /\ CheckpointsOf(<<>>) = {} /\ Samples(<<>>)
  BY NothingBefore, EmptySequence
<1>3. IsSequence(queue)' /\ Samples(queue)' /\ Formed(queue, saved)'
      /\ Chain(queue, stored, saved)' /\ (IsSequence(stored) => IsSequence(stored)')
  BY <1>1, <1>2 DEF CurrentInv, IsSequence, Samples, Formed, Chain, CheckpointsOf,
     NoStaleResume, WellFormed
<1>4. RecoveryTyped'
  BY DEF Exit, Quiet, CurrentInv, RecoveryTyped, Gap, IsSequence
<1> QED
  BY <1>1, <1>3, <1>4 DEF CurrentInv, EvidenceInv

LEMMA CurrentStep ==
  ASSUME CurrentInv, NoStaleResume, [CoordNext]_coordVars
  PROVE  CurrentInv'
<1>1. CASE UNCHANGED coordVars
  BY <1>1, TimeAlone DEF coordVars, CurrentInv
<1>2. CASE Pass
  BY <1>2, TimeAlone DEF Pass, CurrentInv
<1>3. CASE HostStep
  <2>1. life # "down"
    BY <1>3 DEF HostStep, LeafChange, ActivityEvent, FocusEvent, WindowBlur, EditorChange,
       OnIdleTimer, OnHeartbeat, OnPause, OnResume, UpdateSettings, OnResolve, OnUndo,
       OnStop, Input
  <2> QED
    BY <1>3, <2>1, HostCalls, HostCurrent, PlacesStep DEF CoordNext
<1>4. CASE QueueStep
  <2>1. life # "down"
    BY <1>4 DEF QueueStep, SkipRefresh, RefreshUntrackable, AwaitIdentity,
       IdentityResolved, IdentityFails, SessionStored, DecisionStored, AppendFails,
       CheckpointSaved, CheckpointFails, RecoveryResolved, Runs, Up, StartsRefresh
  <2> QED
    BY <1>4, <2>1, TaskCalls, HostCurrent, TaskCurrent, PlacesStep DEF CoordNext
<1>5. CASE Exit
  BY <1>5, ExitInv, PlacesStep DEF CoordNext
<1>6. CASE Boot
  BY <1>6, BootInv, PlacesStep DEF CoordNext
<1> QED
  BY <1>1, <1>2, <1>3, <1>4, <1>5, <1>6 DEF CoordNext

LEMMA EvidenceStep ==
  ASSUME CurrentInv, EvidenceInv, NoStaleResume, SureAppends, [CoordNext]_coordVars,
         [ClosesInTime]_coordVars
  PROVE  EvidenceInv'
<1>1. CASE UNCHANGED coordVars
  BY <1>1, TimeAlone DEF coordVars, CurrentInv
<1>2. CASE Pass
  BY <1>2, TimeAlone DEF Pass, CurrentInv
<1>3. CASE HostStep
  <2>1. life # "down"
    BY <1>3 DEF HostStep, LeafChange, ActivityEvent, FocusEvent, WindowBlur, EditorChange,
       OnIdleTimer, OnHeartbeat, OnPause, OnResume, UpdateSettings, OnResolve, OnUndo,
       OnStop, Input
  <2> QED
    BY <1>3, <2>1, HostCalls, HostEvidence
<1>4. CASE QueueStep
  <2>1. life # "down"
    BY <1>4 DEF QueueStep, SkipRefresh, RefreshUntrackable, AwaitIdentity,
       IdentityResolved, IdentityFails, SessionStored, DecisionStored, AppendFails,
       CheckpointSaved, CheckpointFails, RecoveryResolved, Runs, Up, StartsRefresh
  <2> QED
    BY <1>1, <1>4, <2>1, TaskCalls, HostEvidence, TaskEvidence
<1>5. CASE Exit
  BY <1>5, ExitInv, PlacesStep DEF CoordNext
<1>6. CASE Boot
  BY <1>6, BootInv, PlacesStep DEF CoordNext, EvidenceInv
<1> QED
  BY <1>1, <1>2, <1>3, <1>4, <1>5, <1>6 DEF CoordNext

LEMMA InitiallyCurrent ==
  ASSUME CoordInit
  PROVE  CurrentInv /\ EvidenceInv
<1>1. /\ now \in Nat /\ open = None /\ queue = <<>> /\ saved = None /\ stored = <<>>
      /\ life = "down" /\ leaf \in Targets /\ resolving = None
  BY DEF CoordInit, Init
<1>2. IsSequence(<<>>) /\ CheckpointsOf(<<>>) = {} /\ Samples(<<>>)
  BY NothingBefore, EmptySequence
<1>3. RecoveryTyped
  BY EmptySequence DEF CoordInit, Init, RecoveryTyped
<1> QED
  BY <1>1, <1>2, <1>3 DEF CurrentInv, EvidenceInv, Places, Formed, Chain

-----------------------------------------------------------------------------
(* Answers before checkpoints: the head leaves.                            *)

\* What the head did: a decision is in the log, a checkpoint on disk or lost.
Filed(head, log, newLog, file, newFile) ==
  /\ \A id, automatic :
        StoresDecision(log, id, automatic) => StoresDecision(newLog, id, automatic)
  /\ head.kind = "decision" =>
        StoresDecision(newLog, head.record.id, head.record.automatic)
  /\ \/ newFile = file
     \/ head.kind = "checkpoint" /\ newFile = head.checkpoint

\* The log keeps what it has and holds the decision it is given.
LEMMA DecisionFiled ==
  ASSUME NEW log, IsSequence(log), NEW d
  PROVE  LET newLog == StoreDecision(log, d)
         IN  /\ IsSequence(newLog)
             /\ \A id, automatic : StoresDecision(log, id, automatic)
                                     => StoresDecision(newLog, id, automatic)
             /\ StoresDecision(newLog, d.id, d.automatic)
<1> DEFINE newLog == StoreDecision(log, d)
<1>1. CASE \E i \in DOMAIN log : log[i].id = d.id /\ log[i].automatic = d.automatic
  BY <1>1 DEF StoreDecision, StoresDecision
<1>2. CASE ~\E i \in DOMAIN log : log[i].id = d.id /\ log[i].automatic = d.automatic
  <2>1. newLog = log \o <<d>>
    BY <1>2, AppendJoins DEF StoreDecision
  <2>2. IsSequence(<<d>>) /\ 1 \in DOMAIN <<d>> /\ <<d>>[1] = d
    BY Single
  <2>3. /\ IsSequence(newLog)
        /\ \A i \in DOMAIN log : i \in DOMAIN newLog /\ newLog[i] = log[i]
        /\ Len(log) + 1 \in DOMAIN newLog /\ newLog[Len(log) + 1] = d
    BY <2>1, <2>2, Joined
  <2> HIDE DEF newLog
  <2>4. /\ \A id, automatic : StoresDecision(log, id, automatic)
                                => StoresDecision(newLog, id, automatic)
        /\ StoresDecision(newLog, d.id, d.automatic)
    BY <2>3 DEF StoresDecision
  <2> QED
    BY <2>3, <2>4 DEF newLog
<1> QED
  BY <1>1, <1>2

LEMMA PopAnswered ==
  ASSUME NEW q, IsSequence(q), q # <<>>, NEW log, NEW newLog, NEW file, NEW newFile,
         Filed(Head(q), log, newLog, file, newFile),
         NEW k \in Nat, NEW id, NEW automatic, Answered(q, log, k + 1, id, automatic)
  PROVE  Answered(Tail(q), newLog, k, id, automatic)
<1>1. CASE StoresDecision(log, id, automatic)
  BY <1>1 DEF Filed, Answered
<1>2. CASE \E j \in DOMAIN q : /\ j < k + 1 /\ q[j].kind = "decision"
                               /\ q[j].record.id = id /\ q[j].record.automatic = automatic
  <2>1. PICK j \in DOMAIN q : /\ j < k + 1 /\ q[j].kind = "decision"
                              /\ q[j].record.id = id /\ q[j].record.automatic = automatic
    BY <1>2
  <2>2. CASE j = 1
    BY <2>1, <2>2, Popped DEF Filed, Answered
  <2>3. CASE j # 1
    <3>1. j - 1 \in DOMAIN Tail(q) /\ Tail(q)[j - 1] = q[j] /\ j - 1 < k
      BY <2>1, <2>3, Popped
    <3> QED
      BY <2>1, <3>1 DEF Answered
  <2> QED
    BY <2>2, <2>3
<1> QED
  BY <1>1, <1>2 DEF Answered

LEMMA PopOffered ==
  ASSUME NEW q, IsSequence(q), q # <<>>, NEW log, NEW newLog, NEW file, NEW newFile,
         Filed(Head(q), log, newLog, file, newFile), NEW k \in Nat
  PROVE  /\ \A c, names : Offered(q, log, c, k + 1, names)
                            => Offered(Tail(q), newLog, c, k, names)
         /\ \A decisions : Backed(q, log, k + 1, decisions)
                            => Backed(Tail(q), newLog, k, decisions)
<1>1. \A id, automatic : Answered(q, log, k + 1, id, automatic)
                           => Answered(Tail(q), newLog, k, id, automatic)
  BY PopAnswered
<1> QED
  BY <1>1 DEF Offered, Backed

LEMMA PopSettled ==
  ASSUME NEW q, IsSequence(q), q # <<>>, NEW log, NEW newLog, NEW file, NEW newFile,
         Filed(Head(q), log, newLog, file, newFile), Settled(q, log, file)
  PROVE  Settled(Tail(q), newLog, newFile)
<1>1. ASSUME newFile # None, NEW i \in DOMAIN newFile.recent
      PROVE  StoresDecision(newLog, newFile.recent[i].id, newFile.recent[i].automatic)
  <2>1. CASE newFile = file
    BY <1>1, <2>1 DEF Settled, Filed
  <2>2. CASE Head(q).kind = "checkpoint" /\ newFile = Head(q).checkpoint
    <3>1. 1 \in CheckpointsOf(q) /\ Head(q) = q[1] /\ DOMAIN q = 1 .. Len(q)
      BY <2>2, Popped, PoppedCheckpoints
    <3>2. Answered(q, log, 1, newFile.recent[i].id, newFile.recent[i].automatic)
      BY <1>1, <2>2, <3>1 DEF Settled, Backed
    <3>3. StoresDecision(log, newFile.recent[i].id, newFile.recent[i].automatic)
      BY <3>1, <3>2, Popped DEF Answered
    <3> QED
      BY <3>3 DEF Filed
  <2> QED
    BY <2>1, <2>2 DEF Filed
<1> SUFFICES ASSUME NEW k \in CheckpointsOf(Tail(q))
             PROVE  LET names == DOMAIN Tail(q)[k].checkpoint.pending
                    IN  /\ Backed(Tail(q), newLog, k, Tail(q)[k].checkpoint.recent)
                        /\ Offered(Tail(q), newLog, newFile, k, names)
                        /\ \A i \in CheckpointsOf(Tail(q)) : i < k =>
                              Offered(Tail(q), newLog, Tail(q)[i].checkpoint, k, names)
  BY <1>1 DEF Settled
<1> DEFINE names == DOMAIN Tail(q)[k].checkpoint.pending
<1>2. k \in Nat /\ k + 1 \in CheckpointsOf(q) /\ Tail(q)[k] = q[k + 1]
  BY PoppedCheckpoints
<1>3. /\ \A c : Offered(q, log, c, k + 1, names) => Offered(Tail(q), newLog, c, k, names)
      /\ Backed(q, log, k + 1, Tail(q)[k].checkpoint.recent)
           => Backed(Tail(q), newLog, k, Tail(q)[k].checkpoint.recent)
  BY <1>2, PopOffered
<1>4. Backed(Tail(q), newLog, k, Tail(q)[k].checkpoint.recent)
  BY <1>2, <1>3 DEF Settled
<1>5. Offered(Tail(q), newLog, newFile, k, names)
  <2>1. CASE newFile = file
    BY <1>2, <1>3, <2>1 DEF Settled
  <2>2. CASE Head(q).kind = "checkpoint" /\ newFile = Head(q).checkpoint
    <3>1. 1 \in CheckpointsOf(q) /\ Head(q) = q[1] /\ 1 < k + 1
      BY <2>2, <1>2, Popped, PoppedCheckpoints DEF CheckpointsOf
    <3> QED
      BY <1>2, <1>3, <2>2, <3>1 DEF Settled
  <2> QED
    BY <2>1, <2>2 DEF Filed
<1>6. ASSUME NEW i \in CheckpointsOf(Tail(q)), i < k
      PROVE  Offered(Tail(q), newLog, Tail(q)[i].checkpoint, k, names)
  <2>1. i \in Nat /\ i + 1 \in CheckpointsOf(q) /\ Tail(q)[i] = q[i + 1]
    BY PoppedCheckpoints
  <2>2. i + 1 < k + 1
    BY <1>2, <1>6, <2>1
  <2> QED
    BY <1>2, <1>3, <2>1, <2>2 DEF Settled
<1> QED
  BY <1>4, <1>5, <1>6

LEMMA PopOwed ==
  ASSUME NEW q, IsSequence(q), q # <<>>, NEW log, NEW newLog, NEW file, NEW newFile,
         Filed(Head(q), log, newLog, file, newFile), NEW names, NEW decisions,
         Owed(q, log, file, names, decisions)
  PROVE  Owed(Tail(q), newLog, newFile, names, decisions)
<1> DEFINE k == Len(Tail(q)) + 1
<1>1. k \in Nat /\ Len(q) + 1 = k + 1
  BY Popped
<1> HIDE DEF k
<1>2. /\ \A c : Offered(q, log, c, k + 1, names) => Offered(Tail(q), newLog, c, k, names)
      /\ Backed(q, log, k + 1, decisions) => Backed(Tail(q), newLog, k, decisions)
  BY <1>1, PopOffered
<1>3. Backed(Tail(q), newLog, k, decisions)
  BY <1>1, <1>2 DEF Owed
<1>4. Offered(Tail(q), newLog, newFile, k, names)
  <2>1. CASE newFile = file
    BY <1>1, <1>2, <2>1 DEF Owed
  <2>2. CASE Head(q).kind = "checkpoint" /\ newFile = Head(q).checkpoint
    BY <1>1, <1>2, <2>2, Popped, PoppedCheckpoints DEF Owed
  <2> QED
    BY <2>1, <2>2 DEF Filed
<1>5. ASSUME NEW i \in CheckpointsOf(Tail(q))
      PROVE  Offered(Tail(q), newLog, Tail(q)[i].checkpoint, k, names)
  <2>1. i + 1 \in CheckpointsOf(q) /\ Tail(q)[i] = q[i + 1]
    BY PoppedCheckpoints
  <2>2. Offered(q, log, q[i + 1].checkpoint, k + 1, names)
    BY <1>1, <2>1 DEF Owed
  <2> QED
    BY <1>2, <2>1, <2>2
<1> QED
  BY <1>3, <1>4, <1>5 DEF Owed, k

-----------------------------------------------------------------------------
(* Answers before checkpoints: the callbacks of a call join the queue.     *)

\* A decision of the call stands before its checkpoints, which show the
\* recovery queue the call leaves.
Brought(ext, id, automatic) ==
  \E j \in DOMAIN ext : /\ ext[j].kind = "decision" /\ ext[j].record.id = id
                        /\ ext[j].record.automatic = automatic
                        /\ \A k \in CheckpointsOf(ext) : j < k

Shows(ext, names, decisions) ==
  /\ IsSequence(ext)
  /\ \A k \in CheckpointsOf(ext) : /\ DOMAIN ext[k].checkpoint.pending = names
                                   /\ ext[k].checkpoint.recent = decisions

\* Between two recovery queues only the decisions of the call are missing.
Takes(ext, names, new, decisions, newDecisions) ==
  /\ \A id \in names : id \in new \/ \E automatic \in BOOLEAN : Brought(ext, id, automatic)
  /\ \A i \in DOMAIN newDecisions :
        \/ \E j \in DOMAIN decisions : newDecisions[i] = decisions[j]
        \/ Brought(ext, newDecisions[i].id, newDecisions[i].automatic)

LEMMA JoinAnswered ==
  ASSUME NEW q, NEW ext, IsSequence(q), IsSequence(ext), NEW log, NEW k \in Nat,
         NEW m \in Nat, k <= m, NEW id, NEW automatic, Answered(q, log, k, id, automatic)
  PROVE  Answered(q \o ext, log, m, id, automatic)
<1>1. CASE StoresDecision(log, id, automatic)
  BY <1>1 DEF Answered
<1>2. CASE \E j \in DOMAIN q : /\ j < k /\ q[j].kind = "decision"
                               /\ q[j].record.id = id /\ q[j].record.automatic = automatic
  <2>1. PICK j \in DOMAIN q : /\ j < k /\ q[j].kind = "decision"
                              /\ q[j].record.id = id /\ q[j].record.automatic = automatic
    BY <1>2
  <2>2. j \in DOMAIN (q \o ext) /\ (q \o ext)[j] = q[j] /\ j < m
    BY <2>1, Joined
  <2> QED
    BY <2>1, <2>2 DEF Answered
<1> QED
  BY <1>1, <1>2 DEF Answered

\* The places a call adds: its checkpoints, and the end of the longer queue.
Added(q, ext) ==
  {Len(q) + k : k \in CheckpointsOf(ext)} \cup {Len(q \o ext) + 1}

LEMMA AddedLater ==
  ASSUME NEW q, NEW ext, IsSequence(q), IsSequence(ext), NEW log, NEW m \in Added(q, ext),
         NEW id, NEW automatic,
         Answered(q, log, Len(q) + 1, id, automatic) \/ Brought(ext, id, automatic)
  PROVE  Answered(q \o ext, log, m, id, automatic)
<1>1. IsJoin(q \o ext, q, ext)
  BY JoinedCheckpoints
<1>2. /\ Len(q) \in Nat /\ Len(ext) \in Nat /\ Len(q \o ext) = Len(q) + Len(ext)
      /\ DOMAIN ext = 1 .. Len(ext)
      /\ \A i \in DOMAIN ext :
            Len(q) + i \in DOMAIN (q \o ext) /\ (q \o ext)[Len(q) + i] = ext[i]
      /\ \A k \in CheckpointsOf(ext) : k \in Nat \ {0}
  BY <1>1 DEF IsJoin
<1>3. m \in Nat /\ Len(q) + 1 <= m
  BY <1>2 DEF Added
<1>4. CASE Answered(q, log, Len(q) + 1, id, automatic)
  BY <1>2, <1>3, <1>4, JoinAnswered
<1>5. CASE Brought(ext, id, automatic)
  <2>1. PICK j \in DOMAIN ext : /\ ext[j].kind = "decision" /\ ext[j].record.id = id
                                /\ ext[j].record.automatic = automatic
                                /\ \A k \in CheckpointsOf(ext) : j < k
    BY <1>5 DEF Brought
  <2>2. Len(q) + j < m
    BY <1>2, <2>1 DEF Added
  <2> QED
    BY <1>2, <2>1, <2>2 DEF Answered
<1> QED
  BY <1>4, <1>5

LEMMA AddedOffered ==
  ASSUME NEW q, NEW ext, IsSequence(q), IsSequence(ext), NEW log, NEW m \in Added(q, ext),
         NEW names, NEW new, NEW decisions, NEW newDecisions,
         Takes(ext, names, new, decisions, newDecisions)
  PROVE  /\ \A c : Offered(q, log, c, Len(q) + 1, names) => Offered(q \o ext, log, c, m, new)
         /\ Backed(q, log, Len(q) + 1, decisions) => Backed(q \o ext, log, m, newDecisions)
<1>1. \A id, automatic :
         Answered(q, log, Len(q) + 1, id, automatic) \/ Brought(ext, id, automatic)
           => Answered(q \o ext, log, m, id, automatic)
  BY AddedLater
<1>2. ASSUME NEW c, Offered(q, log, c, Len(q) + 1, names) PROVE Offered(q \o ext, log, c, m, new)
  BY <1>1, <1>2 DEF Offered, Takes
<1>3. ASSUME Backed(q, log, Len(q) + 1, decisions)
      PROVE  Backed(q \o ext, log, m, newDecisions)
  <2> SUFFICES ASSUME NEW i \in DOMAIN newDecisions
               PROVE  Answered(q \o ext, log, m, newDecisions[i].id, newDecisions[i].automatic)
    BY DEF Backed
  <2> QED
    BY <1>1, <1>3 DEF Backed, Takes
<1> QED
  BY <1>2, <1>3

LEMMA JoinSettled ==
  ASSUME NEW q, NEW ext, IsSequence(q), NEW log, NEW file, NEW names, NEW new,
         NEW decisions, NEW newDecisions, Shows(ext, new, newDecisions),
         Takes(ext, names, new, decisions, newDecisions),
         Settled(q, log, file), Owed(q, log, file, names, decisions)
  PROVE  Settled(q \o ext, log, file) /\ Owed(q \o ext, log, file, new, newDecisions)
<1> DEFINE r == q \o ext
           places == Added(q, ext)
<1>1. IsSequence(ext)
  BY DEF Shows
<1>2. IsJoin(r, q, ext) /\ Len(r) + 1 \in places
      /\ \A k \in CheckpointsOf(ext) : Len(q) + k \in places
  BY <1>1, JoinedCheckpoints DEF Added
<1>3. /\ \A m \in places : \A c :
            Offered(q, log, c, Len(q) + 1, names) => Offered(r, log, c, m, new)
      /\ \A m \in places : Backed(r, log, m, newDecisions)
  BY <1>1, AddedOffered DEF Owed
<1>4. \A k \in CheckpointsOf(q) : \A id, automatic :
         Answered(q, log, k, id, automatic) => Answered(r, log, k, id, automatic)
  BY <1>1, <1>2, JoinAnswered DEF IsJoin
<1> HIDE DEF r, places
<1>5. /\ Len(q) \in Nat
      /\ \A k \in CheckpointsOf(q) : k \in Nat /\ k <= Len(q) /\ r[k] = q[k]
      /\ \A k \in CheckpointsOf(r) :
            /\ k \in Nat
            /\ \/ k \in CheckpointsOf(q)
               \/ /\ k > Len(q) /\ k - Len(q) \in CheckpointsOf(ext)
                  /\ r[k] = ext[k - Len(q)] /\ k \in places
  BY <1>2 DEF IsJoin
\* A checkpoint of the call offers what the call leaves.
<1>6. ASSUME NEW k \in CheckpointsOf(ext), NEW m PROVE Offered(r, log, ext[k].checkpoint, m, new)
  BY DEF Shows, Offered
<1>7. ASSUME NEW i \in CheckpointsOf(r), NEW m \in places
      PROVE  Offered(r, log, r[i].checkpoint, m, new)
  <2>1. CASE i \in CheckpointsOf(q)
    BY <1>3, <1>5, <2>1 DEF Owed
  <2>2. CASE i - Len(q) \in CheckpointsOf(ext) /\ r[i] = ext[i - Len(q)]
    BY <1>6, <2>2
  <2> QED
    BY <1>5, <2>1, <2>2
<1>8. \A m \in places : Offered(r, log, file, m, new)
  BY <1>3 DEF Owed
<1>9. Owed(r, log, file, new, newDecisions)
  BY <1>2, <1>3, <1>7, <1>8 DEF Owed
<1>10. Settled(r, log, file)
  <2> SUFFICES ASSUME NEW k \in CheckpointsOf(r)
               PROVE  LET left == DOMAIN r[k].checkpoint.pending
                      IN  /\ Backed(r, log, k, r[k].checkpoint.recent)
                          /\ Offered(r, log, file, k, left)
                          /\ \A i \in CheckpointsOf(r) :
                                i < k => Offered(r, log, r[i].checkpoint, k, left)
    BY DEF Settled
  <2>1. CASE k \in CheckpointsOf(q)
    <3>0. \A id, automatic :
             Answered(q, log, k, id, automatic) => Answered(r, log, k, id, automatic)
      BY <1>4, <2>1
    <3>1. /\ \A list : Backed(q, log, k, list) => Backed(r, log, k, list)
          /\ \A c, left : Offered(q, log, c, k, left) => Offered(r, log, c, k, left)
      BY <3>0 DEF Backed, Offered
    <3>2. \A i \in CheckpointsOf(r) : i < k => i \in CheckpointsOf(q) /\ r[i] = q[i]
      BY <1>5, <2>1
    <3>3. r[k] = q[k]
      BY <1>5, <2>1
    <3>4. /\ Backed(q, log, k, q[k].checkpoint.recent)
          /\ Offered(q, log, file, k, DOMAIN q[k].checkpoint.pending)
          /\ \A i \in CheckpointsOf(q) : i < k =>
                Offered(q, log, q[i].checkpoint, k, DOMAIN q[k].checkpoint.pending)
      BY <2>1 DEF Settled
    <3> QED
      BY <3>1, <3>2, <3>3, <3>4
  <2>2. CASE k - Len(q) \in CheckpointsOf(ext) /\ r[k] = ext[k - Len(q)] /\ k \in places
    <3>1. DOMAIN r[k].checkpoint.pending = new /\ r[k].checkpoint.recent = newDecisions
      BY <2>2 DEF Shows
    <3> QED
      BY <1>3, <1>7, <1>8, <2>2, <3>1
  <2> QED
    BY <1>5, <2>1, <2>2
<1> QED
  BY <1>9, <1>10 DEF r

-----------------------------------------------------------------------------
(* Answers before checkpoints: the steps.                                  *)

\* The checkpoints of a call show what it leaves.
LEMMA ShowsNow ==
  ASSUME NEW ext, Announces(ext, out', Checkpoint')
  PROVE  Shows(ext, PendingCandidates', recent')
<1> DEFINE cp == Checkpoint'
<1>1. DOMAIN cp.pending = PendingCandidates' /\ cp.recent = recent'
  BY DEF Checkpoint
<1>2. IsSequence(ext) /\ \A k \in CheckpointsOf(ext) : ext[k].checkpoint = cp
  BY DEF Announces
<1> HIDE DEF cp
<1> QED
  BY <1>1, <1>2 DEF Shows

LEMMA TakesCall ==
  ASSUME NEW ext, Announces(ext, out', Checkpoint'), Settles
  PROVE  Takes(ext, PendingCandidates, PendingCandidates', recent, recent')
<1>1. out'.decision # None => /\ Brought(ext, out'.decision.id, out'.decision.automatic)
                              /\ out'.decision.automatic \in BOOLEAN
  BY DEF Announces, Answers, Brought, Settles
<1> QED
  BY <1>1 DEF Settles, Takes

LEMMA DecisionMeans ==
  ASSUME IsSequence(adjusted'), Settled(queue', adjusted', saved'),
         life' # "down" => Owed(queue', adjusted', saved', PendingCandidates', recent')
  PROVE  DecisionInv'
<1>1. /\ IsSequence(adjusted)' /\ Settled(queue, adjusted, saved)'
      /\ (life # "down" => Owed(queue, adjusted, saved, PendingCandidates, recent))'
  BY DEF IsSequence, Settled, Owed, Backed, Offered, Answered, StoresDecision, CheckpointsOf
<1> QED
  BY <1>1 DEF DecisionInv

LEMMA DecisionCall ==
  ASSUME NEW s, NEW base, Submits(base, s), IsSequence(base), IsSequence(adjusted'),
         Settled(base, adjusted', saved'),
         Owed(base, adjusted', saved', PendingCandidates, recent)
  PROVE  DecisionInv'
<1>1. PICK ext : queue' = base \o ext /\ Announces(ext, out', Checkpoint')
  BY DEF Submits
<1>2. /\ Shows(ext, PendingCandidates', recent')
      /\ Takes(ext, PendingCandidates, PendingCandidates', recent, recent')
  BY <1>1, ShowsNow, TakesCall DEF Submits, EngineCall
<1>3. /\ Settled(base \o ext, adjusted', saved')
      /\ Owed(base \o ext, adjusted', saved', PendingCandidates', recent')
  BY <1>2, JoinSettled
<1> QED
  BY <1>1, <1>3, DecisionMeans

LEMMA HostDecision ==
  ASSUME CurrentInv, life # "down", HostCall, DecisionInv
  PROVE  DecisionInv'
<1>1. IsSequence(adjusted') /\ Settled(queue, adjusted', saved')
      /\ Owed(queue, adjusted', saved', PendingCandidates, recent)
  BY DEF HostCall, DecisionInv
<1> QED
  BY <1>1, DecisionCall DEF HostCall, CurrentInv

LEMMA TaskDecision ==
  ASSUME CurrentInv, life # "down", TaskCall, SureAppends, DecisionInv
  PROVE  DecisionInv'
<1>1. PICK s \in Nat : Submits(Tail(queue), s)
  BY DEF TaskCall
<1>2. /\ IsSequence(queue) /\ queue # <<>> /\ IsSequence(adjusted)
      /\ Settled(queue, adjusted, saved)
      /\ Owed(queue, adjusted, saved, PendingCandidates, recent)
  BY DEF CurrentInv, TaskCall, DecisionInv
<1>3. IsSequence(adjusted') /\ Filed(Head(queue), adjusted, adjusted', saved, saved')
  <2>1. CASE Head(queue).kind = "decision"
    <3>1. adjusted' = StoreDecision(adjusted, Head(queue).record)
      BY <2>1 DEF TaskCall, SureAppends
    <3> QED
      BY <1>2, <3>1, DecisionFiled DEF Filed, TaskCall
  <2>2. CASE Head(queue).kind # "decision"
    BY <1>2, <2>2 DEF TaskCall, Filed
  <2> QED
    BY <2>1, <2>2
<1>4. /\ Settled(Tail(queue), adjusted', saved')
      /\ Owed(Tail(queue), adjusted', saved', PendingCandidates, recent)
  BY <1>2, <1>3, PopSettled, PopOwed
<1>5. IsSequence(Tail(queue))
  BY <1>2, Popped
<1> QED
  BY <1>1, <1>3, <1>4, <1>5, DecisionCall

\* A restart takes over the candidates and the decisions of the checkpoint.
LEMMA BootShows ==
  ASSUME CurrentInv, Boot
  PROVE  Shows(queue', PendingCandidates', recent')
<1>1. CASE BootElsewhere
  <2> DEFINE c1 == [Checkpoint' EXCEPT !.state = "idle"]
             c2 == Checkpoint'
             p == Tasks(out', c1)
             task == [kind |-> "checkpoint", checkpoint |-> c2]
             q == <<task>>
  <2>1. queue' = p \o q
    BY <1>1 DEF BootElsewhere
  <2>2. /\ DOMAIN c2.pending = PendingCandidates' /\ c2.recent = recent'
        /\ c1.pending = c2.pending /\ c1.recent = c2.recent
    BY DEF Checkpoint
  <2>3. IsSequence(p) /\ \A k \in CheckpointsOf(p) : p[k].checkpoint = c1
    BY TasksAnnounce DEF Announces
  <2>4. task.kind = "checkpoint" /\ task.checkpoint = c2
    OBVIOUS
  <2> HIDE DEF c1, c2, p, task
  <2>5. IsSequence(q) /\ \A k \in CheckpointsOf(q) : q[k].checkpoint = c2
    BY <2>4, Single DEF CheckpointsOf
  <2> HIDE DEF q
  <2>6. IsJoin(p \o q, p, q) /\ IsSequence(p \o q)
    BY <2>3, <2>5, JoinedCheckpoints, Joined
  <2>7. \A k \in CheckpointsOf(p \o q) :
           \/ k \in CheckpointsOf(p) /\ (p \o q)[k] = p[k]
           \/ k - Len(p) \in CheckpointsOf(q) /\ (p \o q)[k] = q[k - Len(p)]
    BY <2>6 DEF IsJoin
  <2> QED
    BY <2>1, <2>2, <2>3, <2>5, <2>6, <2>7 DEF Shows
<1>2. CASE BootClean \/ BootContinuing \/ BootIdle \/ BootIntoState
  <2>1. PICK ext : BootTasks(ext)
    BY <1>2, BootCleanTasks, BootContinuingTasks, BootIdleTasks, BootIntoTasks
  <2> QED
    BY <2>1, ShowsNow DEF BootTasks
<1> QED
  BY <1>1, <1>2 DEF Boot

LEMMA BootDecision ==
  ASSUME CurrentInv, Boot, DecisionInv
  PROVE  DecisionInv'
<1>1. saved' = saved /\ adjusted' = adjusted
  BY DEF Boot, BootClean, BootContinuing, BootIdle, BootElsewhere, BootIntoState,
     ClosesSession, durableVars
<1>2. queue = <<>> /\ IsSequence(adjusted) /\ Settled(<<>>, adjusted, saved)
  BY DEF CurrentInv, DecisionInv, Boot, BootClean, BootContinuing, BootIdle,
     BootElsewhere, BootIntoState, ClosesSession, Boots
<1> DEFINE names == IF saved = None THEN {} ELSE DOMAIN saved.pending
           decisions == IF saved = None THEN <<>> ELSE saved.recent
<1>3. PendingCandidates' = names /\ recent' = decisions
  <2>1. CASE BootClean
    BY <2>1, EmptySequence DEF BootClean, PendingCandidates
  <2>2. CASE BootContinuing \/ BootIdle \/ BootElsewhere \/ BootIntoState
    BY <2>2, RestoredCandidates
       DEF BootContinuing, BootIdle, BootElsewhere, BootIntoState, ClosesSession, HadSession
  <2> QED
    BY <2>1, <2>2 DEF Boot
<1>4. Owed(<<>>, adjusted, saved, names, decisions)
  <2>1. CheckpointsOf(<<>>) = {}
    BY EmptySequence DEF CheckpointsOf
  <2>2. \A i \in DOMAIN decisions : StoresDecision(adjusted, decisions[i].id, decisions[i].automatic)
    BY <1>2, EmptySequence DEF Settled
  <2>3. \A k : Backed(<<>>, adjusted, k, decisions)
    BY <2>2 DEF Backed, Answered
  <2>4. \A k : Offered(<<>>, adjusted, saved, k, names)
    BY DEF Offered
  <2> QED
    BY <2>1, <2>3, <2>4 DEF Owed
<1> HIDE DEF names, decisions
<1>5. Shows(queue', names, decisions)
  BY <1>3, BootShows
<1>6. Takes(queue', names, names, decisions, decisions)
  BY DEF Takes
<1>7. /\ Settled(<<>> \o queue', adjusted, saved)
      /\ Owed(<<>> \o queue', adjusted, saved, names, decisions)
  BY <1>2, <1>4, <1>5, <1>6, EmptySequence, JoinSettled
<1>8. <<>> \o queue' = queue'
  BY <1>5, NothingBefore DEF Shows
<1> QED
  BY <1>1, <1>2, <1>3, <1>7, <1>8, DecisionMeans

LEMMA ExitDecision ==
  ASSUME Exit, DecisionInv
  PROVE  DecisionInv'
<1>1. saved' = saved /\ adjusted' = adjusted /\ queue' = <<>> /\ life' = "down"
  BY DEF Exit, durableVars
<1>2. CheckpointsOf(<<>>) = {}
  BY EmptySequence DEF CheckpointsOf
<1>3. Settled(<<>>, adjusted, saved)
  BY <1>2 DEF DecisionInv, Settled
<1> QED
  BY <1>1, <1>3, DecisionMeans DEF DecisionInv

LEMMA DecisionStep ==
  ASSUME CurrentInv, DecisionInv, NoStaleResume, SureAppends, [CoordNext]_coordVars
  PROVE  DecisionInv'
<1>1. CASE UNCHANGED coordVars \/ Pass
  <2>1. UNCHANGED <<queue, adjusted, saved, life, pending, recent>>
    BY <1>1 DEF coordVars, Pass, engineVars, hostVars, durableVars, vars
  <2>2. PendingCandidates' = PendingCandidates
    BY <2>1 DEF PendingCandidates
  <2> QED
    BY <2>1, <2>2, DecisionMeans DEF DecisionInv
<1>2. CASE HostStep
  <2>1. life # "down"
    BY <1>2 DEF HostStep, LeafChange, ActivityEvent, FocusEvent, WindowBlur, EditorChange,
       OnIdleTimer, OnHeartbeat, OnPause, OnResume, UpdateSettings, OnResolve, OnUndo,
       OnStop, Input
  <2> QED
    BY <1>2, <2>1, HostCalls, HostDecision
<1>3. CASE QueueStep
  <2>1. life # "down"
    BY <1>3 DEF QueueStep, SkipRefresh, RefreshUntrackable, AwaitIdentity,
       IdentityResolved, IdentityFails, SessionStored, DecisionStored, AppendFails,
       CheckpointSaved, CheckpointFails, RecoveryResolved, Runs, Up, StartsRefresh
  <2> QED
    BY <1>3, <2>1, TaskCalls, HostDecision, TaskDecision
<1>4. CASE Exit
  BY <1>4, ExitDecision
<1>5. CASE Boot
  BY <1>5, BootDecision
<1> QED
  BY <1>1, <1>2, <1>3, <1>4, <1>5 DEF CoordNext

LEMMA InitiallyDecided ==
  ASSUME CoordInit
  PROVE  DecisionInv
<1>1. queue = <<>> /\ saved = None /\ adjusted = <<>> /\ life = "down"
  BY DEF CoordInit
<1>2. IsSequence(<<>>) /\ CheckpointsOf(<<>>) = {}
  BY EmptySequence DEF CheckpointsOf
<1> QED
  BY <1>1, <1>2 DEF DecisionInv, Settled

-----------------------------------------------------------------------------
(* The order of the log: the head leaves.                                  *)

\* What the head did, when a write may fail.
Wrote(head, log, newLog, file, newFile) ==
  /\ \/ newLog = log
     \/ head.kind = "session" /\ newLog = StoreSession(log, head.record)
  /\ head.kind = "session" /\ SureRecords => newLog = StoreSession(log, head.record)
  /\ newFile = file \/ (head.kind = "checkpoint" /\ newFile = head.checkpoint)
  /\ head.kind = "checkpoint" /\ SureSaves => newFile = head.checkpoint

\* The log holds a record of this file and start.
Holds(log, file, from) == \E i \in DOMAIN log : log[i].file = file /\ log[i].from = from

\* The log has the record now, and had no other of its file and start.
Gains(newLog, log, record) ==
  /\ ~Holds(log, record.file, record.from)
  /\ DOMAIN log = 1 .. Len(log) /\ Len(log) \in Nat
  /\ DOMAIN newLog = 1 .. Len(log) + 1
  /\ newLog[Len(log) + 1] = record
  /\ \A i \in DOMAIN log : i \in DOMAIN newLog /\ newLog[i] = log[i]

\* What StoreSession makes of a log.
LEMMA StoreCases ==
  ASSUME NEW log, IsSequence(log), NEW record, NEW newLog,
         newLog = StoreSession(log, record)
  PROVE  IsSequence(newLog) /\ (newLog = log \/ Gains(newLog, log, record))
<1>1. CASE Holds(log, record.file, record.from)
  BY <1>1 DEF StoreSession, Holds
<1>2. CASE ~Holds(log, record.file, record.from)
  <2>1. newLog = log \o <<record>>
    BY <1>2, AppendJoins DEF StoreSession, Holds
  <2>2. /\ IsSequence(<<record>>) /\ DOMAIN <<record>> = {1} /\ <<record>>[1] = record
        /\ Len(<<record>>) = 1
    BY Single
  <2>3. /\ IsSequence(newLog)
        /\ DOMAIN log = 1 .. Len(log) /\ Len(log) \in Nat
        /\ DOMAIN newLog = 1 .. Len(log) + 1
        /\ newLog[Len(log) + 1] = record
        /\ \A i \in DOMAIN log : i \in DOMAIN newLog /\ newLog[i] = log[i]
    BY <2>1, <2>2, Joined
  <2> QED
    BY <1>2, <2>3 DEF Gains
<1> QED
  BY <1>1, <1>2

LEMMA WroteCases ==
  ASSUME NEW head, NEW log, IsSequence(log), NEW newLog, NEW file, NEW newFile,
         Wrote(head, log, newLog, file, newFile), newLog # log
  PROVE  head.kind = "session" /\ IsSequence(newLog) /\ Gains(newLog, log, head.record)
  BY StoreCases DEF Wrote

\* A record that fitted the log still fits it when the head's record ends
\* before it starts, or is the same.
LEMMA WroteFits ==
  ASSUME NEW head, NEW log, IsSequence(log), NEW newLog, NEW file, NEW newFile,
         Wrote(head, log, newLog, file, newFile),
         NEW f, NEW from, Fits(log, f, from),
         \/ head.kind # "session"
         \/ head.record.file = f /\ head.record.from = from
         \/ head.record.to <= from
         \/ Holds(log, f, from)
  PROVE  Fits(newLog, f, from)
<1>1. CASE newLog = log
  BY <1>1
<1>2. CASE newLog # log
  <2>1. head.kind = "session" /\ Gains(newLog, log, head.record)
    BY <1>2, WroteCases
  <2>2. CASE head.record.file = f /\ head.record.from = from
    <3>1. Len(log) + 1 \in DOMAIN newLog /\ newLog[Len(log) + 1] = head.record
      BY <2>1 DEF Gains
    <3> QED
      BY <2>2, <3>1 DEF Fits
  <2>3. CASE Holds(log, f, from)
    BY <2>1, <2>3 DEF Gains, Fits, Holds
  <2>4. CASE head.record.to <= from /\ ~Holds(log, f, from)
    <3>1. \A i \in DOMAIN log : log[i].to <= from
      BY <2>4 DEF Fits, Holds
    <3>2. \A i \in DOMAIN newLog : newLog[i].to <= from
      BY <2>1, <2>4, <3>1 DEF Gains
    <3> QED
      BY <3>2 DEF Fits
  <2> QED
    BY <2>1, <2>2, <2>3, <2>4
<1> QED
  BY <1>1, <1>2

\* The log stays in order.
LEMMA WroteInOrder ==
  ASSUME NEW head, NEW log, IsSequence(log), NEW newLog, NEW file, NEW newFile,
         Wrote(head, log, newLog, file, newFile), NEW t, OrderedLog(log, t),
         head.kind = "session" => /\ head.record.to \in Nat /\ head.record.to <= t
                                  /\ Fits(log, head.record.file, head.record.from)
  PROVE  IsSequence(newLog) /\ OrderedLog(newLog, t)
<1>1. CASE newLog = log
  BY <1>1
<1>2. CASE newLog # log
  <2>1. head.kind = "session" /\ IsSequence(newLog) /\ Gains(newLog, log, head.record)
    BY <1>2, WroteCases
  <2>2. \A i \in DOMAIN log : log[i].to <= head.record.from
    BY <2>1 DEF Fits, Gains, Holds
  <2>3. SUFFICES ASSUME NEW j \in DOMAIN newLog
                 PROVE  /\ newLog[j].to \in Nat /\ newLog[j].to <= t
                        /\ \A i \in DOMAIN newLog : i < j => newLog[i].to <= newLog[j].from
    BY <2>1 DEF OrderedLog
  <2>4. j \in DOMAIN log \/ j = Len(log) + 1
    BY <2>1 DEF Gains
  <2>5. \A i \in DOMAIN newLog : i < j => i \in DOMAIN log /\ newLog[i] = log[i]
    BY <2>1, <2>4 DEF Gains
  <2>6. CASE j = Len(log) + 1
    <3>1. newLog[j] = head.record
      BY <2>1, <2>6 DEF Gains
    <3> QED
      BY <2>1, <2>2, <2>5, <3>1
  <2>7. CASE j \in DOMAIN log
    <3>1. newLog[j] = log[j]
      BY <2>1, <2>7 DEF Gains
    <3> QED
      BY <2>5, <2>7, <3>1 DEF OrderedLog
  <2> QED
    BY <2>4, <2>6, <2>7
<1> QED
  BY <1>1, <1>2

\* The places of the records move up by one.
LEMMA PoppedRecords ==
  ASSUME NEW q, IsSequence(q), q # <<>>
  PROVE  /\ \A k \in RecordsOf(Tail(q)) :
               k \in Nat \ {0} /\ k + 1 \in RecordsOf(q) /\ Tail(q)[k] = q[k + 1]
         /\ Head(q).kind = "session" <=> 1 \in RecordsOf(q)
         /\ Head(q) = q[1]
  BY Popped DEF RecordsOf

\* What stands between two places stands there when both move up.
LEMMA PopParted ==
  ASSUME NEW q, IsSequence(q), q # <<>>, NEW log, IsSequence(log), NEW newLog,
         NEW file, NEW newFile, Wrote(Head(q), log, newLog, file, newFile),
         SureSaves \/ SureRecords,
         NEW p \in Nat, NEW k \in Nat, NEW session,
         \/ Parted(q, log, p + 1, k + 1, session)
         \/ /\ p = 0 /\ Parted(q, log, 0, k + 1, session)
            /\ ~SureSaves \/ Head(q).kind # "checkpoint"
  PROVE  Parted(Tail(q), newLog, p, k, session)
<1>1. CASE SureSaves
  <2>1. PICK m \in CheckpointsOf(q) : m \in Nat /\ p + 1 < m /\ m < k + 1
    <3>1. CASE Parted(q, log, p + 1, k + 1, session)
      BY <1>1, <3>1, PoppedCheckpoints DEF Parted
    <3>2. CASE p = 0 /\ Parted(q, log, 0, k + 1, session) /\ Head(q).kind # "checkpoint"
      <4>1. PICK m \in CheckpointsOf(q) : m \in Nat /\ 0 < m /\ m < k + 1
        BY <1>1, <3>2, PoppedCheckpoints DEF Parted
      <4>2. m # 1
        BY <3>2, PoppedCheckpoints
      <4> QED
        BY <3>2, <4>1, <4>2
    <3> QED
      BY <1>1, <3>1, <3>2
  <2>2. m - 1 \in CheckpointsOf(Tail(q)) /\ p < m - 1 /\ m - 1 < k
    BY <2>1, PoppedCheckpoints
  <2> QED
    BY <1>1, <2>2 DEF Parted
<1>2. CASE ~SureSaves
  <2>1. Ahead(q, log, k + 1, session)
    BY <1>2 DEF Parted
  <2>2. Done(Head(q), log, newLog, file, newFile)
    <3>1. CASE Head(q).kind = "session"
      <4>1. newLog = StoreSession(log, Head(q).record)
        BY <1>2, <3>1 DEF Wrote
      <4>2. /\ \A other : Logs(log, other) => Logs(newLog, other)
            /\ \A other : Records(Head(q), other) => Logs(newLog, other)
        BY <4>1, StoredAgain DEF Records
      <4> QED
        BY <4>2 DEF Done, Wrote
    <3>2. CASE Head(q).kind # "session"
      BY <3>2 DEF Done, Wrote, Records
    <3> QED
      BY <3>1, <3>2
  <2>3. Ahead(Tail(q), newLog, k, session)
    BY <2>1, <2>2, PopAhead
  <2> QED
    BY <1>2, <2>3 DEF Parted
<1> QED
  BY <1>1, <1>2

\* What ties checkpoint c ties it after the head left: at the place before, or
\* on disk still.
LEMMA PopTied ==
  ASSUME NEW q, IsSequence(q), q # <<>>, NEW log, IsSequence(log), NEW newLog,
         NEW file, NEW newFile, Wrote(Head(q), log, newLog, file, newFile),
         SureSaves \/ SureRecords, NEW t \in Nat, OrderedRecords(q, log, t),
         NEW c, NEW p \in Nat, NEW session,
         \/ p + 1 \in CheckpointsOf(q) /\ Tied(q, log, c, p + 1, session, t)
         \/ /\ p = 0 /\ Tied(q, log, c, 0, session, t)
            /\ ~SureSaves \/ Head(q).kind # "checkpoint"
  PROVE  Tied(Tail(q), newLog, c, p, session, t)
<1> SUFFICES ASSUME c # None, c.open # None
             PROVE  Tied(Tail(q), newLog, c, p, session, t)
  BY DEF Tied
<1>1. PICK m \in {p, p + 1} :
        /\ Tied(q, log, c, m, session, t)
        /\ m = p => p = 0 /\ (~SureSaves \/ Head(q).kind # "checkpoint")
        /\ m = p + 1 => m \in CheckpointsOf(q)
  OBVIOUS
<1>2. ASSUME NEW k \in Nat, Parted(q, log, m, k + 1, c.open)
      PROVE  Parted(Tail(q), newLog, p, k, c.open)
  BY <1>1, <1>2, PopParted
<1>3. Fits(newLog, c.open.target.file, c.open.started)
  <2>1. Fits(log, c.open.target.file, c.open.started)
    BY <1>1 DEF Tied
  <2>2. CASE Head(q).kind # "session"
    BY <2>1, <2>2, WroteFits
  <2>3. CASE Head(q).kind = "session"
    <3>1. 1 \in RecordsOf(q) /\ Head(q) = q[1]
      BY <2>3, PoppedRecords
    <3>2. CASE 1 < m
      <4>1. Head(q).record.to <= c.open.started
        BY <1>1, <3>1, <3>2 DEF Tied
      <4> QED
        BY <2>1, <4>1, WroteFits
    <3>3. CASE m < 1
      <4>1. Records(Head(q), c.open) \/ Parted(q, log, m, 1, c.open)
        BY <1>1, <3>1, <3>3 DEF Tied
      <4>2. CASE Records(Head(q), c.open)
        BY <2>1, <4>2, WroteFits DEF Records
      <4>3. CASE Parted(q, log, m, 1, c.open)
        <5>1. Logs(log, c.open)
          <6>1. CASE SureSaves
            BY <1>1, <3>3, <4>3, <6>1, PoppedCheckpoints DEF Parted
          <6>2. CASE ~SureSaves
            BY <4>3, <6>2, Popped DEF Parted, Ahead
          <6> QED
            BY <6>1, <6>2
        <5> QED
          BY <2>1, <5>1, WroteFits DEF Logs, Holds
      <4> QED
        BY <4>1, <4>2, <4>3
    <3>4. m # 1
      BY <1>1, <3>1 DEF CheckpointsOf, RecordsOf
    <3> QED
      BY <1>1, <3>2, <3>3, <3>4
  <2> QED
    BY <2>2, <2>3
<1>4. ASSUME NEW k \in RecordsOf(Tail(q))
      PROVE  /\ k < p => Tail(q)[k].record.to <= c.open.started
             /\ p < k => Records(Tail(q)[k], c.open) \/ Parted(Tail(q), newLog, p, k, c.open)
  <2>1. k \in Nat \ {0} /\ k + 1 \in RecordsOf(q) /\ Tail(q)[k] = q[k + 1]
    BY PoppedRecords
  <2>2. k < p => k + 1 < m
    BY <1>1, <2>1
  <2>3. p < k => m < k + 1
    BY <1>1, <2>1
  <2> QED
    BY <1>1, <1>2, <2>1, <2>2, <2>3 DEF Tied
<1>5. \/ session # None /\ SameSession(session, c.open)
      \/ Parted(Tail(q), newLog, p, Len(Tail(q)) + 1, c.open)
  <2>1. Len(Tail(q)) + 1 \in Nat /\ Len(q) + 1 = (Len(Tail(q)) + 1) + 1
    BY Popped
  <2> QED
    BY <1>1, <1>2, <2>1 DEF Tied
<1> QED
  BY <1>1, <1>3, <1>4, <1>5 DEF Tied

LEMMA PopTidy ==
  ASSUME NEW q, IsSequence(q), q # <<>>, NEW log, IsSequence(log), NEW newLog,
         NEW file, NEW newFile, Wrote(Head(q), log, newLog, file, newFile),
         SureSaves \/ SureRecords, NEW t \in Nat, NEW session,
         Tidy(q, log, file, session, t)
  PROVE  IsSequence(newLog) /\ Tidy(Tail(q), newLog, newFile, session, t)
<1> DEFINE head == Head(q)
<1>1. OrderedLog(log, t) /\ OrderedRecords(q, log, t) /\ Follows(q, log, session, t)
  BY DEF Tidy
<1>2. head.kind = "session" =>
         /\ 1 \in RecordsOf(q) /\ head = q[1]
         /\ head.record.to \in Nat /\ head.record.to <= t
         /\ Fits(log, head.record.file, head.record.from)
  BY <1>1, PoppedRecords DEF OrderedRecords
<1>3. IsSequence(newLog) /\ OrderedLog(newLog, t)
  <2>1. Wrote(head, log, newLog, file, newFile)
    OBVIOUS
  <2> HIDE DEF head
  <2> QED
    BY <1>1, <1>2, <2>1, WroteInOrder
<1>4. ASSUME NEW f, NEW from, Fits(log, f, from),
             head.kind = "session" => head.record.to <= from
      PROVE  Fits(newLog, f, from)
  <2>1. Wrote(head, log, newLog, file, newFile)
    OBVIOUS
  <2> HIDE DEF head
  <2> QED
    BY <1>4, <2>1, WroteFits
<1> HIDE DEF head
<1>5. OrderedRecords(Tail(q), newLog, t)
  <2> SUFFICES ASSUME NEW k \in RecordsOf(Tail(q))
               PROVE  LET r == Tail(q)[k].record
                      IN  /\ r.to \in Nat /\ r.to <= t /\ r.from \in Nat
                          /\ Fits(newLog, r.file, r.from)
                          /\ \A j \in RecordsOf(Tail(q)) : j < k => Tail(q)[j].record.to <= r.from
    BY DEF OrderedRecords
  <2> DEFINE r == Tail(q)[k].record
  <2>1. k \in Nat \ {0} /\ k + 1 \in RecordsOf(q) /\ r = q[k + 1].record
    BY PoppedRecords
  <2>2. /\ r.to \in Nat /\ r.to <= t /\ r.from \in Nat /\ Fits(log, r.file, r.from)
        /\ \A j \in RecordsOf(q) : j < k + 1 => q[j].record.to <= r.from
    BY <1>1, <2>1 DEF OrderedRecords
  <2> HIDE DEF r
  <2>3. head.kind = "session" => head.record.to <= r.from
    BY <1>2, <2>1, <2>2
  <2>4. Fits(newLog, r.file, r.from)
    BY <1>4, <2>2, <2>3
  <2>5. ASSUME NEW j \in RecordsOf(Tail(q)), j < k PROVE Tail(q)[j].record.to <= r.from
    <3>1. j \in Nat /\ j + 1 \in RecordsOf(q) /\ Tail(q)[j] = q[j + 1]
      BY PoppedRecords
    <3>2. j + 1 < k + 1
      BY <2>1, <2>5, <3>1
    <3> QED
      BY <2>2, <3>1, <3>2
  <2> QED
    BY <2>2, <2>4, <2>5 DEF r
<1>6. Follows(Tail(q), newLog, session, t)
  <2> SUFFICES ASSUME session # None
               PROVE  /\ Fits(newLog, session.target.file, session.started)
                      /\ \A k \in RecordsOf(Tail(q)) : Tail(q)[k].record.to <= session.started
    BY <1>1 DEF Follows
  <2>1. /\ Fits(log, session.target.file, session.started)
        /\ \A k \in RecordsOf(q) : q[k].record.to <= session.started
    BY <1>1 DEF Follows
  <2> QED
    BY <1>2, <1>4, <2>1, PoppedRecords
<1>7. Tied(Tail(q), newLog, newFile, 0, session, t)
  <2>1. CASE newFile = file /\ (~SureSaves \/ head.kind # "checkpoint")
    BY <1>1, <2>1, PopTied DEF Tidy, head
  <2>2. CASE head.kind = "checkpoint" /\ newFile = head.checkpoint
    <3>1. 1 \in CheckpointsOf(q) /\ newFile = q[1].checkpoint
      BY <2>2, PoppedCheckpoints, Popped DEF head
    <3>2. 0 + 1 \in CheckpointsOf(q) /\ Tied(q, log, newFile, 0 + 1, session, t)
      BY <3>1 DEF Tidy
    <3> QED
      BY <1>1, <3>2, PopTied
  <2> QED
    BY <2>1, <2>2 DEF Wrote, head
<1>8. ASSUME NEW p \in CheckpointsOf(Tail(q))
      PROVE  Tied(Tail(q), newLog, Tail(q)[p].checkpoint, p, session, t)
  <2>1. p \in Nat /\ p + 1 \in CheckpointsOf(q) /\ Tail(q)[p] = q[p + 1]
    BY PoppedCheckpoints
  <2>2. Tied(q, log, Tail(q)[p].checkpoint, p + 1, session, t)
    BY <2>1 DEF Tidy
  <2> QED
    BY <1>1, <2>1, <2>2, PopTied
<1> QED
  BY <1>3, <1>5, <1>6, <1>7, <1>8 DEF Tidy

-----------------------------------------------------------------------------
(* The order of the log: the callbacks of a call join.                     *)

\* Where the records of the longer queue r come from.
Brings(r, q, ext) ==
  /\ Len(q) \in Nat /\ Len(ext) \in Nat
  /\ \A k \in RecordsOf(q) :
        k \in Nat /\ k <= Len(q) /\ k \in RecordsOf(r) /\ r[k] = q[k]
  /\ \A k \in RecordsOf(ext) :
        k \in Nat /\ Len(q) + k \in RecordsOf(r) /\ r[Len(q) + k] = ext[k]
  /\ \A k \in RecordsOf(r) :
        /\ k \in Nat
        /\ \/ k \in RecordsOf(q) /\ r[k] = q[k] /\ k <= Len(q)
           \/ k > Len(q) /\ k - Len(q) \in RecordsOf(ext) /\ r[k] = ext[k - Len(q)]

LEMMA JoinedRecords ==
  ASSUME NEW q, NEW ext, IsSequence(q), IsSequence(ext)
  PROVE  Brings(q \o ext, q, ext)
<1> DEFINE r == q \o ext
<1>1. /\ DOMAIN q = 1 .. Len(q) /\ Len(q) \in Nat
      /\ DOMAIN ext = 1 .. Len(ext) /\ Len(ext) \in Nat
      /\ DOMAIN r = 1 .. Len(q) + Len(ext)
      /\ \A i \in DOMAIN q : r[i] = q[i]
      /\ \A i \in DOMAIN ext : r[Len(q) + i] = ext[i]
      /\ \A k \in DOMAIN r :
            k \in DOMAIN q \/ (k - Len(q) \in DOMAIN ext /\ r[k] = ext[k - Len(q)])
  BY Joined
<1> HIDE DEF r
<1>2. Brings(r, q, ext)
  BY <1>1 DEF RecordsOf, Brings
<1> QED
  BY <1>2 DEF r

\* How a call at t treats the session and what it calls back.
Treats(q, log, session, new, ext, cp, t) ==
  /\ \A k \in CheckpointsOf(ext) : ext[k].checkpoint = cp
  /\ cp.open # None => /\ new # None /\ SameSession(cp.open, new)
                       /\ cp.open.lastTrusted <= t
  /\ \A j \in RecordsOf(ext) :
        /\ session # None /\ Records(ext[j], session)
        /\ ext[j].record.to \in Nat /\ ext[j].record.to <= t
        /\ RecordsOf(ext) = {j}
        /\ \A k \in CheckpointsOf(ext) : j < k
  /\ new # None =>
        /\ new.started \in Nat /\ new.lastTrusted \in Nat /\ new.lastTrusted <= t
        /\ \/ session # None /\ SameSession(new, session) /\ RecordsOf(ext) = {}
           \/ Ended(q, log, new.started) /\ Ended(ext, log, new.started)
  /\ session # None => \/ new # None /\ SameSession(new, session)
                       \/ IF SureSaves THEN CheckpointsOf(ext) # {} ELSE RecordsOf(ext) # {}

\* What stands between two places stands there in the longer queue.
LEMMA JoinParted ==
  ASSUME NEW q, NEW ext, IsSequence(q), IsSequence(ext), NEW log, NEW session, NEW p \in Nat,
         NEW k \in Nat, NEW m \in Nat, k <= m, Parted(q, log, p, k, session)
  PROVE  Parted(q \o ext, log, p, m, session)
<1>1. CASE SureSaves
  <2>1. PICK i \in CheckpointsOf(q) : p < i /\ i < k
    BY <1>1 DEF Parted
  <2>2. i \in Nat /\ i \in CheckpointsOf(q \o ext)
    BY JoinedCheckpoints DEF IsJoin
  <2> QED
    BY <1>1, <2>1, <2>2 DEF Parted
<1>2. CASE ~SureSaves
  BY <1>2, JoinAhead DEF Parted
<1> QED
  BY <1>1, <1>2

\* What is tied before the call is tied after it.
LEMMA JoinTied ==
  ASSUME NEW q, NEW ext, IsSequence(q), IsSequence(ext), NEW log, NEW session, NEW new,
         NEW cp, NEW t \in Nat, Treats(q, log, session, new, ext, cp, t),
         NEW c, NEW p \in Nat, p <= Len(q), Tied(q, log, c, p, session, t)
  PROVE  Tied(q \o ext, log, c, p, new, t)
<1> SUFFICES ASSUME c # None, c.open # None
             PROVE  Tied(q \o ext, log, c, p, new, t)
  BY DEF Tied
<1> DEFINE r == q \o ext
<1>0. Brings(r, q, ext)
  BY JoinedRecords
<1>9. IsJoin(r, q, ext)
  BY JoinedCheckpoints
<1>3. \A k \in Nat, m \in Nat :
         k <= m /\ Parted(q, log, p, k, c.open) => Parted(r, log, p, m, c.open)
  BY JoinParted
<1>8. \A k \in RecordsOf(ext) : k <= Len(ext)
  BY SequenceElim DEF RecordsOf
<1> HIDE DEF r
<1>1. /\ Len(q) \in Nat /\ Len(ext) \in Nat
      /\ \A k \in RecordsOf(ext) : k \in Nat /\ Len(q) + k \in RecordsOf(r)
                                   /\ r[Len(q) + k] = ext[k]
      /\ \A k \in RecordsOf(r) :
            /\ k \in Nat
            /\ \/ k \in RecordsOf(q) /\ r[k] = q[k] /\ k <= Len(q)
               \/ /\ k > Len(q) /\ k - Len(q) \in RecordsOf(ext)
                  /\ r[k] = ext[k - Len(q)]
  BY <1>0 DEF Brings
<1>2. /\ Len(r) = Len(q) + Len(ext)
      /\ \A k \in CheckpointsOf(ext) :
            k \in Nat \ {0} /\ k <= Len(ext) /\ Len(q) + k \in CheckpointsOf(r)
  BY <1>9 DEF IsJoin
<1>4. /\ c.open.lastTrusted <= t /\ Fits(log, c.open.target.file, c.open.started)
      /\ \A k \in RecordsOf(q) :
            /\ k < p => q[k].record.to <= c.open.started
            /\ p < k => Records(q[k], c.open) \/ Parted(q, log, p, k, c.open)
      /\ \/ session # None /\ SameSession(session, c.open)
         \/ Parted(q, log, p, Len(q) + 1, c.open)
  BY DEF Tied
<1>5. ASSUME NEW k \in RecordsOf(r)
      PROVE  /\ k < p => r[k].record.to <= c.open.started
             /\ p < k => Records(r[k], c.open) \/ Parted(r, log, p, k, c.open)
  <2>1. CASE k \in RecordsOf(q) /\ r[k] = q[k]
    BY <1>1, <1>3, <1>4, <2>1
  <2>2. CASE k > Len(q) /\ k - Len(q) \in RecordsOf(ext) /\ r[k] = ext[k - Len(q)]
    <3>1. k \in Nat /\ ~(k < p) /\ Len(q) + 1 <= k /\ Len(q) + 1 \in Nat
      BY <1>1, <2>2
    <3>2. Records(r[k], session)
      BY <2>2 DEF Treats
    <3>3. SameSession(session, c.open) => Records(r[k], c.open)
      BY <3>2 DEF Records, SameSession
    <3>4. Parted(q, log, p, Len(q) + 1, c.open) => Parted(r, log, p, k, c.open)
      BY <1>3, <3>1
    <3> QED
      BY <1>4, <3>1, <3>3, <3>4
  <2> QED
    BY <1>1, <2>1, <2>2
<1>6. \/ new # None /\ SameSession(new, c.open)
      \/ Parted(r, log, p, Len(r) + 1, c.open)
  <2>0. Len(q) + 1 \in Nat /\ Len(r) + 1 \in Nat /\ Len(q) + 1 <= Len(r) + 1
    BY <1>1, <1>2
  <2>1. CASE Parted(q, log, p, Len(q) + 1, c.open)
    BY <1>3, <2>0, <2>1
  <2>2. CASE session # None /\ SameSession(session, c.open)
    <3>1. CASE new # None /\ SameSession(new, session)
      BY <2>2, <3>1 DEF SameSession
    <3>2. CASE SureSaves /\ CheckpointsOf(ext) # {}
      <4>1. PICK k \in CheckpointsOf(ext) : TRUE
        BY <3>2
      <4>2. Len(q) + k \in CheckpointsOf(r) /\ p < Len(q) + k /\ Len(q) + k < Len(r) + 1
        BY <1>1, <1>2, <4>1
      <4> QED
        BY <3>2, <4>2 DEF Parted
    <3>3. CASE ~SureSaves /\ RecordsOf(ext) # {}
      <4>1. PICK k \in RecordsOf(ext) : TRUE
        BY <3>3
      <4>2. Records(ext[k], session)
        BY <4>1 DEF Treats
      <4>3. /\ Len(q) + k \in DOMAIN r /\ Records(r[Len(q) + k], c.open)
            /\ Len(q) + k < Len(r) + 1
        BY <1>1, <1>2, <1>8, <2>2, <4>1, <4>2 DEF Records, SameSession, RecordsOf
      <4> QED
        BY <3>3, <4>3 DEF Parted, Ahead
    <3> QED
      BY <2>2, <3>1, <3>2, <3>3 DEF Treats
  <2> QED
    BY <1>4, <2>1, <2>2
<1>7. Tied(r, log, c, p, new, t)
  BY <1>4, <1>5, <1>6 DEF Tied
<1> QED
  BY <1>7 DEF r

LEMMA JoinTidy ==
  ASSUME NEW q, NEW ext, IsSequence(q), IsSequence(ext), NEW log, NEW file,
         NEW session, NEW new, NEW cp, NEW t \in Nat,
         Treats(q, log, session, new, ext, cp, t), Tidy(q, log, file, session, t)
  PROVE  Tidy(q \o ext, log, file, new, t)
<1> DEFINE r == q \o ext
<1>0. Brings(r, q, ext) /\ IsJoin(r, q, ext)
  BY JoinedRecords, JoinedCheckpoints
<1>3. \A c : \A p \in Nat : p <= Len(q) /\ Tied(q, log, c, p, session, t)
                            => Tied(r, log, c, p, new, t)
  BY JoinTied
<1> HIDE DEF r
<1>1. /\ Len(q) \in Nat /\ Len(ext) \in Nat
      /\ \A k \in RecordsOf(r) :
            /\ k \in Nat
            /\ \/ k \in RecordsOf(q) /\ r[k] = q[k] /\ k <= Len(q)
               \/ /\ k > Len(q) /\ k - Len(q) \in RecordsOf(ext)
                  /\ r[k] = ext[k - Len(q)]
  BY <1>0 DEF Brings
<1>2. /\ Len(r) = Len(q) + Len(ext)
      /\ \A p \in CheckpointsOf(r) :
            /\ p \in Nat
            /\ \/ p \in CheckpointsOf(q) /\ r[p] = q[p] /\ p <= Len(q)
               \/ /\ p > Len(q) /\ p - Len(q) \in CheckpointsOf(ext)
                  /\ r[p] = ext[p - Len(q)]
  BY <1>0 DEF IsJoin
<1>4. /\ OrderedLog(log, t) /\ OrderedRecords(q, log, t) /\ Follows(q, log, session, t)
      /\ Tied(q, log, file, 0, session, t)
      /\ \A p \in CheckpointsOf(q) : Tied(q, log, q[p].checkpoint, p, session, t)
  BY DEF Tidy
<1>5. \A k \in RecordsOf(r) : r[k].record.to \in Nat /\ r[k].record.to <= t
  BY <1>1, <1>4 DEF OrderedRecords, Treats
<1>6. OrderedRecords(r, log, t)
  <2> SUFFICES ASSUME NEW k \in RecordsOf(r)
               PROVE  /\ r[k].record.from \in Nat
                      /\ Fits(log, r[k].record.file, r[k].record.from)
                      /\ \A j \in RecordsOf(r) : j < k => r[j].record.to <= r[k].record.from
    BY <1>5 DEF OrderedRecords
  <2>1. CASE k \in RecordsOf(q) /\ r[k] = q[k] /\ k <= Len(q)
    <3>1. \A j \in RecordsOf(r) : j < k => j \in RecordsOf(q) /\ r[j] = q[j]
      BY <1>1, <2>1
    <3> QED
      BY <1>4, <2>1, <3>1 DEF OrderedRecords
  <2>2. CASE k > Len(q) /\ k - Len(q) \in RecordsOf(ext) /\ r[k] = ext[k - Len(q)]
    <3>1. /\ session # None /\ r[k].record.file = session.target.file
          /\ r[k].record.from = session.started
      BY <2>2 DEF Treats, Records
    <3>2. /\ session.started \in Nat /\ Fits(log, session.target.file, session.started)
          /\ \A j \in RecordsOf(q) : q[j].record.to <= session.started
      BY <1>4, <3>1 DEF Follows
    <3>3. ASSUME NEW j \in RecordsOf(r), j < k PROVE j \in RecordsOf(q) /\ r[j] = q[j]
      <4>1. j - Len(q) \in RecordsOf(ext) => j - Len(q) = k - Len(q)
        BY <2>2 DEF Treats
      <4> QED
        BY <1>1, <3>3, <4>1
    <3> QED
      BY <3>1, <3>2, <3>3
  <2> QED
    BY <1>1, <2>1, <2>2
<1>7. Follows(r, log, new, t)
  <2> SUFFICES ASSUME new # None
               PROVE  /\ Fits(log, new.target.file, new.started)
                      /\ \A k \in RecordsOf(r) : r[k].record.to <= new.started
    BY DEF Follows, Treats
  <2>1. CASE session # None /\ SameSession(new, session) /\ RecordsOf(ext) = {}
    <3>1. \A k \in RecordsOf(r) : k \in RecordsOf(q) /\ r[k] = q[k]
      BY <1>1, <2>1
    <3> QED
      BY <1>4, <2>1, <3>1 DEF Follows, SameSession
  <2>2. CASE Ended(q, log, new.started) /\ Ended(ext, log, new.started)
    <3>1. \A i \in DOMAIN log : log[i].to <= new.started
      BY <2>2 DEF Ended
    <3>2. /\ \A k \in RecordsOf(q) : q[k].record.to <= new.started
          /\ \A k \in RecordsOf(ext) : ext[k].record.to <= new.started
      BY <2>2 DEF Ended, RecordsOf
    <3> QED
      BY <1>1, <3>1, <3>2 DEF Fits
  <2> QED
    BY <2>1, <2>2 DEF Treats
<1>8. Tied(r, log, file, 0, new, t)
  BY <1>1, <1>3, <1>4
<1>9. ASSUME NEW p \in CheckpointsOf(r) PROVE Tied(r, log, r[p].checkpoint, p, new, t)
  <2>1. CASE p \in CheckpointsOf(q) /\ r[p] = q[p] /\ p <= Len(q)
    BY <1>2, <1>3, <1>4, <2>1
  <2>2. CASE p > Len(q) /\ p - Len(q) \in CheckpointsOf(ext) /\ r[p] = ext[p - Len(q)]
    <3>1. r[p].checkpoint = cp
      BY <2>2 DEF Treats
    <3>2. SUFFICES ASSUME cp.open # None PROVE Tied(r, log, cp, p, new, t)
      BY <3>1 DEF Tied
    <3>3. /\ new # None /\ SameSession(cp.open, new) /\ cp.open.lastTrusted <= t
          /\ cp.open.target = new.target /\ cp.open.started = new.started
      BY <3>2 DEF Treats, SameSession
    <3>4. /\ Fits(log, cp.open.target.file, cp.open.started)
          /\ \A k \in RecordsOf(r) : r[k].record.to <= cp.open.started
      BY <1>7, <3>3 DEF Follows
    <3>5. ASSUME NEW k \in RecordsOf(r) PROVE ~(p < k)
      <4>1. CASE k <= Len(q)
        BY <1>1, <1>2, <2>2, <4>1
      <4>2. CASE k - Len(q) \in RecordsOf(ext)
        <5>1. k - Len(q) < p - Len(q)
          BY <2>2, <4>2 DEF Treats
        <5> QED
          BY <1>1, <1>2, <5>1
      <4> QED
        BY <1>1, <4>1, <4>2
    <3>6. SameSession(new, cp.open)
      BY <3>3 DEF SameSession
    <3> QED
      BY <3>3, <3>4, <3>5, <3>6 DEF Tied
  <2> QED
    BY <1>2, <2>1, <2>2
<1>10. Tidy(r, log, file, new, t)
  BY <1>4, <1>6, <1>7, <1>8, <1>9 DEF Tidy
<1> QED
  BY <1>10 DEF r

-----------------------------------------------------------------------------
(* The order of the log: steps of the coordinator.                         *)

\* What OrderInv asks of the engine besides the order.
Whole == /\ SureRecords => ~blurred /\ (open # None => open.openCount = 1)
         /\ open # None => open.lastTrusted <= now

\* A call at s that opens a session opens it after all records.
Opens(q, log, s) ==
  open' # None => \/ GoesOn /\ out'.segment = None
                  \/ Ended(q, log, s) /\ (open # None => open.lastTrusted <= s)

LEMMA TreatsCall ==
  ASSUME now \in Nat, NEW s \in Nat, s <= now, EngineCall(s),
         open \in Session \cup {None}, Whole, SureSaves \/ SureRecords,
         NEW q, NEW log, Opens(q, log, s), NEW ext, Announces(ext, out', Checkpoint')
  PROVE  Treats(q, log, open, open', ext, Checkpoint', now)
<1> DEFINE cp == Checkpoint'
<1>1. /\ \A k \in CheckpointsOf(ext) : ext[k].checkpoint = cp
      /\ out'.flush => CheckpointsOf(ext) # {}
      /\ out'.segment # None => RecordsOf(ext) # {}
      /\ \A j \in RecordsOf(ext) :
            /\ out'.segment # None /\ ext[j].record = out'.segment
            /\ RecordsOf(ext) = {j}
            /\ \A k \in CheckpointsOf(ext) : j < k
  BY DEF Announces
<1>2. open' # None =>
         /\ open' \in Session
         /\ open'.started \in Nat /\ open'.lastTrusted \in Nat /\ open'.lastTrusted <= now
  BY DEF EngineCall, Session, Whole
<1>3. cp.open # None => /\ open' # None /\ SameSession(cp.open, open')
                        /\ cp.open.lastTrusted <= now
  <2>1. SUFFICES ASSUME cp.open # None
                 PROVE  /\ open' # None /\ SameSession(cp.open, open')
                        /\ cp.open.lastTrusted <= now
    OBVIOUS
  <2>2. open' # None
    BY <2>1 DEF Checkpoint
  <2>3. cp.open = [target |-> open'.target, started |-> open'.started,
                   lastTrusted |-> open'.lastTrusted]
    BY <2>2 DEF Checkpoint
  <2> QED
    BY <1>2, <2>2, <2>3 DEF SameSession
<1> HIDE DEF cp
<1>4. ASSUME NEW j \in RecordsOf(ext)
      PROVE  /\ open # None /\ Records(ext[j], open)
             /\ ext[j].record.to \in Nat /\ ext[j].record.to <= now
  <2>1. out'.segment # None /\ ext[j].record = out'.segment
    BY <1>1
  <2>2. open # None /\ Emitted /\ out'.segment.to \in {s, open.lastTrusted}
    BY <2>1 DEF EngineCall
  <2>3. open.lastTrusted \in Nat /\ open.lastTrusted <= now
    BY <2>2 DEF Session, Whole
  <2> QED
    BY <2>1, <2>2, <2>3 DEF Records, Emitted, RecordsOf
<1>5. open' # None => \/ open # None /\ SameSession(open', open) /\ RecordsOf(ext) = {}
                      \/ Ended(q, log, open'.started) /\ Ended(ext, log, open'.started)
  <2>1. SUFFICES ASSUME open' # None, ~(GoesOn /\ out'.segment = None)
                 PROVE  Ended(q, log, open'.started) /\ Ended(ext, log, open'.started)
    BY <1>1 DEF GoesOn
  <2>2. open'.started = s /\ Ended(q, log, s) /\ (open # None => open.lastTrusted <= s)
    BY <2>1 DEF EngineCall, Opens
  <2>3. ASSUME NEW j \in RecordsOf(ext) PROVE ext[j].record.to <= s
    <3>1. ext[j].record = out'.segment /\ out'.segment # None
      BY <1>1
    <3>2. open # None /\ out'.segment.to \in {s, open.lastTrusted}
      BY <3>1 DEF EngineCall
    <3> QED
      BY <2>2, <3>1, <3>2
  <2> QED
    BY <2>2, <2>3 DEF Ended, RecordsOf
<1>6. open # None =>
        \/ open' # None /\ SameSession(open', open)
        \/ IF SureSaves THEN CheckpointsOf(ext) # {} ELSE RecordsOf(ext) # {}
  <2>1. SUFFICES ASSUME open # None, ~(open' # None /\ SameSession(open', open))
                 PROVE  IF SureSaves THEN CheckpointsOf(ext) # {} ELSE RecordsOf(ext) # {}
    OBVIOUS
  <2>2. ~GoesOn /\ open' # open
    BY <2>1 DEF GoesOn, SameSession
  <2>3. CheckpointsOf(ext) # {}
    BY <1>1, <2>2 DEF EngineCall
  <2>4. SureRecords => RecordsOf(ext) # {}
    <3>1. SureRecords => ~Unearned(s)
      BY <2>1 DEF Whole, Unearned
    <3> QED
      BY <1>1, <2>1, <2>2, <3>1 DEF EngineCall, Emitted
  <2> QED
    BY <2>3, <2>4
<1> QED
  BY <1>1, <1>2, <1>3, <1>4, <1>5, <1>6 DEF Treats, cp

\* The invariant after a call whose tasks join `base`, what the head left.
LEMMA OrderCall ==
  ASSUME now \in Nat, now' = now, NEW s \in Nat, s <= now, NEW base, Submits(base, s),
         IsSequence(base), Opens(base, stored', s),
         open \in Session \cup {None}, Whole, SureSaves \/ SureRecords,
         life' # "down", IsSequence(stored'), Tidy(base, stored', saved', open, now)
  PROVE  OrderInv'
<1>1. PICK ext : queue' = base \o ext /\ Announces(ext, out', Checkpoint')
  BY DEF Submits
<1>2. IsSequence(ext) /\ EngineCall(s)
  BY <1>1 DEF Announces, Submits
<1> DEFINE cp == Checkpoint'
<1>3. Treats(base, stored', open, open', ext, cp, now)
  BY <1>1, <1>2, TreatsCall
<1> HIDE DEF cp
<1>4. Tidy(queue', stored', saved', open', now')
  BY <1>1, <1>2, <1>3, JoinTidy
<1>5. SureRecords => ~blurred' /\ (open' # None => open'.openCount = 1)
  <2>1. SUFFICES ASSUME SureRecords
                 PROVE  ~blurred' /\ (open' # None => open'.openCount = 1)
    OBVIOUS
  <2>2. ~blurred'
    BY <1>2, <2>1 DEF Whole, SureRecords, EngineCall
  <2>3. open' # None => open'.openCount = 1
    <3>1. open' # None => open'.openCount \in 0 .. 1
      BY <1>2 DEF EngineCall, Session
    <3>2. GoesOn => open'.openCount = 1
      BY <2>1 DEF GoesOn, Whole
    <3> QED
      BY <1>2, <2>1, <3>1, <3>2 DEF EngineCall, Whole
  <2> QED
    BY <2>2, <2>3
<1>6. Tidy(queue, stored, saved, IF life = "down" THEN Restored ELSE open, now)'
  BY <1>4 DEF Tidy, OrderedLog, OrderedRecords, Follows, Tied, Fits, Parted, Ahead, Logs,
     Records, RecordsOf, CheckpointsOf, SameSession, SureSaves
<1>7. IsSequence(stored)' /\ (SureRecords <=> SureRecords')
  BY DEF IsSequence, SureRecords
<1> QED
  BY <1>5, <1>6, <1>7 DEF OrderInv

LEMMA OrderMeans ==
  ASSUME CurrentInv, OrderInv, life # "down"
  PROVE  /\ now \in Nat /\ open \in Session \cup {None} /\ Whole
         /\ IsSequence(stored) /\ IsSequence(queue)
         /\ Tidy(queue, stored, saved, open, now)
  BY DEF CurrentInv, OrderInv, Whole, Tidy, Follows

\* By the present every record has ended.
LEMMA EndedNow ==
  ASSUME NEW q, NEW log, NEW file, NEW session, NEW t, Tidy(q, log, file, session, t)
  PROVE  Ended(q, log, t)
BY DEF Tidy, OrderedLog, OrderedRecords, RecordsOf, Ended

LEMMA HostOrder ==
  ASSUME CurrentInv, life # "down", HostCall, SureSaves \/ SureRecords, OrderInv
  PROVE  OrderInv'
<1>1. /\ now \in Nat /\ open \in Session \cup {None} /\ Whole
      /\ IsSequence(stored) /\ IsSequence(queue)
      /\ Tidy(queue, stored, saved, open, now)
  BY OrderMeans
<1>2. Opens(queue, stored', now)
  BY <1>1, EndedNow DEF HostCall, Opens, Whole
<1> QED
  BY <1>1, <1>2, OrderCall DEF HostCall

\* A resume that finds its file's session running touches it and closes nothing.
LEMMA ResumeGoesOn ==
  ASSUME open \in Session \cup {None}, open # None, open' # None,
         SameSession(open', open), IdentityResolved
  PROVE  GoesOn /\ out'.segment = None
<1> DEFINE s == SampleOf(Head(queue))
<1>1. open.lastTrusted \in Nat /\ open \in Session
  BY DEF Session
<1>2. CASE Quiet
  BY <1>1, <1>2 DEF Quiet, Silent, GoesOn
<1>3. CASE RefreshSameFile(s, resolving)
  <2>1. open' = [open EXCEPT !.lastTrusted = s] /\ s >= open.lastTrusted /\ out'.segment = None
    BY <1>3, EmitCallbacks DEF RefreshSameFile, RefreshActivity
  <2> QED
    BY <1>1, <2>1 DEF GoesOn, Session
<1>4. ~SwitchFile(s, resolving) /\ ~OpenFromNothing(s, resolving)
  <2>1. SwitchFile(s, resolving) => open'.target = resolving /\ open.target.file # resolving.file
    BY DEF SwitchFile, OpenSession
  <2> QED
    BY <2>1 DEF SameSession, OpenFromNothing
<1> QED
  BY <1>2, <1>3, <1>4 DEF IdentityResolved, HandleFocusTarget

LEMMA TaskOrder ==
  ASSUME CurrentInv, life # "down", TaskCall, OpensInTime, SureSaves \/ SureRecords,
         OrderInv
  PROVE  OrderInv'
<1>1. /\ queue # <<>> /\ now' = now /\ life' # "down"
      /\ \E s \in Nat : Submits(Tail(queue), s) /\ Called(s)
  BY DEF TaskCall
<1>2. Wrote(Head(queue), stored, stored', saved, saved')
  BY DEF Wrote, TaskCall, SureSaves, SureRecords
<1>3. /\ now \in Nat /\ open \in Session \cup {None} /\ Whole
      /\ IsSequence(stored) /\ IsSequence(queue)
      /\ Tidy(queue, stored, saved, open, now)
  BY OrderMeans
<1>4. IsSequence(stored') /\ Tidy(Tail(queue), stored', saved', open, now)
  BY <1>1, <1>2, <1>3, PopTidy
<1>5. IsSequence(Tail(queue))
  BY <1>1, <1>3, Popped
<1>6. PICK s \in Nat : Submits(Tail(queue), s) /\ Called(s)
  BY <1>1
<1>7. s <= now
  BY <1>6 DEF Called
<1>8. Opens(Tail(queue), stored', s)
  <2>1. CASE s = now
    BY <1>3, <1>4, <2>1, EndedNow DEF Opens, Whole
  <2>2. CASE open' = None
    BY <2>2 DEF Opens
  <2>3. CASE /\ IdentityResolved /\ CarriesSample /\ s = Head(queue).sample /\ open' # None
             /\ open # None => open.lastTrusted <= s
    <3>1. CASE open # None /\ SameSession(open', open)
      BY <1>3, <1>6, <2>3, <3>1, ResumeGoesOn DEF Opens
    <3>2. CASE Ended(queue, stored, s)
      <4>1. stored' = stored
        BY <2>3 DEF IdentityResolved, durableVars
      <4>2. \A k \in DOMAIN Tail(queue) : k + 1 \in DOMAIN queue /\ Tail(queue)[k] = queue[k + 1]
        BY <1>1, <1>3, Popped
      <4> QED
        BY <2>3, <3>2, <4>1, <4>2 DEF Opens, Ended
    <3> QED
      BY <2>3, <3>1, <3>2 DEF OpensInTime
  <2> QED
    BY <1>6, <2>1, <2>2, <2>3 DEF Called
<1> QED
  BY <1>1, <1>3, <1>4, <1>5, <1>6, <1>7, <1>8, OrderCall

\* The order survives the passing of time.
LEMMA TidyLater ==
  ASSUME NEW q, NEW log, NEW file, NEW session, NEW t \in Nat, NEW u \in Nat, t <= u,
         Tidy(q, log, file, session, t),
         file # None /\ file.open # None => file.open.lastTrusted \in Nat,
         \A p \in CheckpointsOf(q) : q[p].checkpoint.open # None =>
                                        q[p].checkpoint.open.lastTrusted \in Nat
  PROVE  Tidy(q, log, file, session, u)
<1>1. OrderedLog(log, u)
  BY DEF Tidy, OrderedLog
<1>2. OrderedRecords(q, log, u)
  BY DEF Tidy, OrderedRecords
<1>3. Follows(q, log, session, u)
  BY DEF Tidy, Follows
<1>4. ASSUME NEW c, NEW p, Tied(q, log, c, p, session, t),
             c # None /\ c.open # None => c.open.lastTrusted \in Nat
      PROVE  Tied(q, log, c, p, session, u)
  <2>1. c # None /\ c.open # None => c.open.lastTrusted <= u
    BY <1>4 DEF Tied
  <2> QED
    BY <1>4, <2>1 DEF Tied
<1>5. Tied(q, log, file, 0, session, u)
  BY <1>4 DEF Tidy
<1>6. \A p \in CheckpointsOf(q) : Tied(q, log, q[p].checkpoint, p, session, u)
  BY <1>4 DEF Tidy
<1> QED
  BY <1>1, <1>2, <1>3, <1>5, <1>6 DEF Tidy

LEMMA TimeOrder ==
  ASSUME CurrentInv, OrderInv, now' \in Nat, now' >= now,
         UNCHANGED <<engineVars, hostVars, queue, resolving, durableVars>>
  PROVE  OrderInv'
<1> DEFINE session == IF life = "down" THEN Restored ELSE open
<1>0. now \in Nat /\ Formed(queue, saved)
  BY DEF CurrentInv
<1>1. /\ saved # None /\ saved.open # None => saved.open.lastTrusted \in Nat
      /\ \A p \in CheckpointsOf(queue) : queue[p].checkpoint.open # None =>
            queue[p].checkpoint.open.lastTrusted \in Nat
  BY <1>0 DEF Formed, WellFormed, StoredSession
<1>2. Tidy(queue, stored, saved, session, now)
  BY DEF OrderInv
<1>5. session' = session
  BY DEF Restored, HadSession, engineVars, hostVars, durableVars
<1> HIDE DEF session
<1>3. Tidy(queue, stored, saved, session, now')
  BY <1>0, <1>1, <1>2, TidyLater
<1> USE DEF engineVars, hostVars, durableVars
<1>4. Tidy(queue, stored, saved, session, now)'
  BY <1>3, <1>5 DEF Tidy, OrderedLog, OrderedRecords, Follows, Tied, Fits, Parted, Ahead, Logs,
     Records, RecordsOf, CheckpointsOf, SameSession, SureSaves
<1> QED
  BY <1>4 DEF OrderInv, IsSequence, SureRecords, session

\* What is left of the order when the process is gone.
LEMMA ExitOrder ==
  ASSUME CurrentInv, OrderInv, Exit
  PROVE  OrderInv'
<1>1. /\ life # "down" /\ life' = "down" /\ queue' = <<>> /\ now' = now
      /\ saved' = saved /\ stored' = stored /\ blurred' = blurred
  BY DEF Exit, Quiet, durableVars
<1>2. Tidy(queue, stored, saved, open, now) /\ IsSequence(stored) /\ now \in Nat
  BY <1>1, OrderMeans
<1>3. /\ saved # None => WellFormed(saved)
  BY DEF CurrentInv, Formed
<1>4. CheckpointsOf(<<>>) = {} /\ RecordsOf(<<>>) = {}
  BY EmptySequence DEF CheckpointsOf, RecordsOf
<1>5. saved # None /\ saved.open # None =>
         /\ HadSession /\ saved.open \in StoredSession
         /\ saved.open.lastTrusted <= now
         /\ Fits(stored, saved.open.target.file, saved.open.started)
  BY <1>2, <1>3 DEF WellFormed, HadSession, Tidy, Tied
<1>6. Restored # None =>
         /\ saved # None /\ saved.open # None
         /\ Restored.target = saved.open.target /\ Restored.started = saved.open.started
         /\ Restored.lastTrusted = saved.open.lastTrusted
  BY DEF Restored, HadSession
<1>7. saved # None /\ saved.open # None => Restored # None
  <2>1. HadSession /\ saved.open \in StoredSession => Restored \in Session
    BY DEF Restored, StoredSession, Session
  <2> QED
    BY <1>5, <2>1, NoneAssumption
<1>8. Follows(<<>>, stored, Restored, now)
  BY <1>4, <1>5, <1>6 DEF Follows, StoredSession
<1>9. Tied(<<>>, stored, saved, 0, Restored, now)
  BY <1>4, <1>5, <1>6, <1>7 DEF Tied, SameSession
<1>10. Tidy(<<>>, stored, saved, Restored, now)
  BY <1>2, <1>4, <1>8, <1>9 DEF Tidy, OrderedRecords
<1>11. Restored' = Restored
  BY <1>1 DEF Restored, HadSession
<1>12. Tidy(queue', stored', saved', Restored', now')
  BY <1>1, <1>10, <1>11
<1>13. Tidy(queue, stored, saved, Restored, now)'
  BY <1>12 DEF Tidy, OrderedLog, OrderedRecords, Follows, Tied, Fits, Parted, Ahead, Logs,
     Records, RecordsOf, CheckpointsOf, SameSession, SureSaves
<1> QED
  BY <1>1, <1>2, <1>13 DEF OrderInv, IsSequence, SureRecords

\* How a start goes on with the checkpoint's session.
Resumes ==
  /\ blurred' = FALSE
  /\ out'.segment # None => HadSession /\ open' = None /\ out'.segment = RestoredClose
  /\ open' # None => /\ HadSession /\ SameSession(open', Restored)
                     /\ open'.lastTrusted \in {now, saved.open.lastTrusted}
  /\ HadSession => open' # None \/ (out'.flush /\ out'.segment # None)

LEMMA BootResumes ==
  ASSUME CurrentInv, Boot
  PROVE  Resumes
<1>1. CASE BootClean
  BY <1>1 DEF BootClean, FreshEngine, Silent, HadSession, Resumes
<1>2. CASE BootContinuing
  <2>1. HadSession /\ saved.open \in StoredSession
    BY <1>2 DEF BootContinuing, CurrentInv, Formed, WellFormed, HadSession
  <2>2. blurred' = FALSE /\ out'.segment = None
    BY <1>2 DEF BootContinuing, FreshEngine, Silent
  <2>3. /\ open' \in Session
        /\ open'.target = saved.open.target /\ open'.started = saved.open.started
        /\ open'.lastTrusted \in {now, saved.open.lastTrusted}
    BY <1>2, <2>1 DEF BootContinuing, StoredSession, Session, CurrentInv
  <2>4. SameSession(open', Restored)
    BY <2>1, <2>3 DEF SameSession, Restored
  <2> QED
    BY <2>1, <2>2, <2>3, <2>4, NoneAssumption DEF Resumes
<1>3. CASE BootIdle \/ BootElsewhere
  <2>1. ClosesSession
    BY <1>3 DEF BootIdle, BootElsewhere
  <2>2. blurred' = FALSE
    BY <2>1 DEF ClosesSession, FreshEngine
  <2> QED
    BY <2>1, <2>2, ClosesRestored DEF Resumes
<1>4. CASE BootIntoState
  BY <1>4 DEF BootIntoState, FreshEngine, Silent, Resumes
<1> QED
  BY <1>1, <1>2, <1>3, <1>4 DEF Boot

LEMMA BootTreats ==
  ASSUME CurrentInv, OrderInv, life = "down", Reboot, Resumes, NEW ext, NEW cp,
         Announces(ext, out', cp),
         cp.open # None => /\ open' # None /\ SameSession(cp.open, open')
                           /\ cp.open.lastTrusted = open'.lastTrusted
  PROVE  Treats(<<>>, stored, Restored, open', ext, cp, now)
<1>0. now \in Nat
  BY DEF CurrentInv
<1>1. /\ \A k \in CheckpointsOf(ext) : ext[k].checkpoint = cp
      /\ out'.flush => CheckpointsOf(ext) # {}
      /\ out'.segment # None => RecordsOf(ext) # {}
      /\ \A j \in RecordsOf(ext) :
            /\ out'.segment # None /\ ext[j].record = out'.segment
            /\ RecordsOf(ext) = {j}
            /\ \A k \in CheckpointsOf(ext) : j < k
  BY DEF Announces
<1>2. HadSession => /\ Restored # None /\ saved # None /\ saved.open \in StoredSession
                    /\ Restored.target = saved.open.target
                    /\ Restored.started = saved.open.started
                    /\ Restored.lastTrusted = saved.open.lastTrusted
                    /\ saved.open.lastTrusted <= now
  <2>1. HadSession => saved.open \in StoredSession /\ saved # None
    BY DEF HadSession, CurrentInv, Formed, WellFormed
  <2>2. HadSession => Restored \in Session
    BY <2>1 DEF Restored, StoredSession, Session
  <2>3. HadSession => saved.open.lastTrusted <= now
    BY <2>1 DEF OrderInv, Tidy, Tied, HadSession
  <2> QED
    BY <2>1, <2>2, <2>3, NoneAssumption DEF Restored
<1>3. open' # None =>
         /\ open'.started \in Nat /\ open'.lastTrusted \in Nat /\ open'.lastTrusted <= now
         /\ Restored # None /\ SameSession(open', Restored) /\ RecordsOf(ext) = {}
  <2>1. SUFFICES ASSUME open' # None
                 PROVE  /\ open'.started \in Nat /\ open'.lastTrusted \in Nat
                        /\ open'.lastTrusted <= now
                        /\ Restored # None /\ SameSession(open', Restored)
                        /\ RecordsOf(ext) = {}
    OBVIOUS
  <2>2. open'.started \in Nat /\ open'.lastTrusted \in Nat
    BY <2>1 DEF Reboot, Session
  <2>3. out'.segment = None
    BY <2>1 DEF Resumes
  <2>4. RecordsOf(ext) = {}
    BY <1>1, <2>3
  <2> QED
    BY <1>0, <1>2, <2>1, <2>2, <2>4 DEF Resumes
<1>4. ASSUME NEW j \in RecordsOf(ext)
      PROVE  /\ Restored # None /\ Records(ext[j], Restored)
             /\ ext[j].record.to \in Nat /\ ext[j].record.to <= now
  <2>1. HadSession /\ ext[j].record = RestoredClose
    BY <1>1 DEF Resumes
  <2> QED
    BY <1>2, <2>1 DEF Records, RestoredClose, RecordsOf, StoredSession
<1>5. Restored # None =>
        \/ open' # None /\ SameSession(open', Restored)
        \/ IF SureSaves THEN CheckpointsOf(ext) # {} ELSE RecordsOf(ext) # {}
  BY <1>1, <1>3 DEF Resumes, Restored
<1>6. cp.open # None => cp.open.lastTrusted <= now
  BY <1>3
<1> QED
  BY <1>1, <1>3, <1>4, <1>5, <1>6 DEF Treats

LEMMA BootOrder ==
  ASSUME CurrentInv, OrderInv, Boot
  PROVE  OrderInv'
<1>1. life = "down" /\ queue = <<>>
  BY DEF Boot, BootClean, BootContinuing, BootIdle, BootElsewhere, BootIntoState, Boots,
     ClosesSession, CurrentInv
<1>2. Resumes /\ now \in Nat
  BY BootResumes DEF CurrentInv
<1>3. /\ Tidy(<<>>, stored, saved, Restored, now) /\ IsSequence(stored)
      /\ IsSequence(<<>>)
  BY <1>1, EmptySequence DEF OrderInv
<1> DEFINE cp == Checkpoint'
<1>4. cp.open # None => /\ open' # None /\ SameSession(cp.open, open')
                        /\ cp.open.lastTrusted = open'.lastTrusted
  <2>1. SUFFICES ASSUME cp.open # None
                 PROVE  /\ open' # None /\ SameSession(cp.open, open')
                        /\ cp.open.lastTrusted = open'.lastTrusted
    OBVIOUS
  <2>2. open' # None
    BY <2>1 DEF Checkpoint
  <2>3. cp.open = [target |-> open'.target, started |-> open'.started,
                   lastTrusted |-> open'.lastTrusted]
    BY <2>2 DEF Checkpoint
  <2> QED
    BY <2>2, <2>3 DEF SameSession
<1>5. Reboot /\ Tidy(queue', stored, saved, open', now)
  <2>1. CASE BootClean \/ BootContinuing \/ BootIdle \/ BootIntoState
    <3>1. Reboot /\ \E ext : BootTasks(ext)
      BY <2>1, BootCleanTasks, BootContinuingTasks, BootIdleTasks, BootIntoTasks
    <3>2. PICK ext : queue' = ext /\ Announces(ext, out', cp)
      BY <3>1 DEF BootTasks
    <3> HIDE DEF cp
    <3>3. IsSequence(ext)
      BY <3>2 DEF Announces
    <3>4. Treats(<<>>, stored, Restored, open', ext, cp, now)
      BY <1>1, <1>2, <1>4, <3>1, <3>2, BootTreats
    <3>5. Tidy(<<>> \o ext, stored, saved, open', now)
      BY <1>2, <1>3, <3>3, <3>4, JoinTidy
    <3>6. <<>> \o ext = ext
      BY <3>3, NothingBefore
    <3> QED
      BY <3>1, <3>2, <3>5, <3>6
  <2>2. CASE BootElsewhere
    <3> DEFINE c1 == [Checkpoint' EXCEPT !.state = "idle"]
               task == [kind |-> "checkpoint", checkpoint |-> cp]
               p == Tasks(out', c1)
               q == <<task>>
    <3>1. ClosesSession /\ state' = "untrackable" /\ queue' = p \o q
      BY <2>2 DEF BootElsewhere
    <3>2. Reboot /\ open' = None
      BY <3>1, BootTyped, ClosesRestored DEF ClosesSession, Boots, durableVars, Reboot
    <3>3. c1.open = None /\ cp.open = None
      BY <3>2 DEF Checkpoint
    <3>4. Announces(p, out', c1)
      BY TasksAnnounce
    <3>5. task.kind = "checkpoint" /\ task.checkpoint = cp
      OBVIOUS
    <3> HIDE DEF cp, c1, p, task
    <3>6. IsSequence(q) /\ RecordsOf(q) = {} /\ \A k \in CheckpointsOf(q) : q[k].checkpoint = cp
      BY <3>5, Single DEF RecordsOf, CheckpointsOf
    <3> HIDE DEF q
    <3>7. IsSequence(p)
      BY <3>4 DEF Announces
    <3>8. Treats(<<>>, stored, Restored, None, p, c1, now)
      BY <1>1, <1>2, <3>2, <3>3, <3>4, BootTreats
    <3>9. Tidy(<<>> \o p, stored, saved, None, now)
      BY <1>2, <1>3, <3>7, <3>8, JoinTidy
    <3>10. Tidy(p, stored, saved, None, now)
      BY <3>7, <3>9, NothingBefore
    <3>11. Treats(p, stored, None, None, q, cp, now)
      BY <3>3, <3>6 DEF Treats
    <3> QED
      BY <1>2, <3>1, <3>2, <3>6, <3>7, <3>10, <3>11, JoinTidy
  <2> QED
    BY <2>1, <2>2 DEF Boot
<1>6. Tidy(queue', stored', saved', open', now') /\ life' # "down" /\ stored' = stored
      /\ (open' # None => open'.openCount = 1)
  BY <1>5 DEF Reboot
<1>7. Tidy(queue, stored, saved, open, now)'
  BY <1>6 DEF Tidy, OrderedLog, OrderedRecords, Follows, Tied, Fits, Parted, Ahead, Logs,
     Records, RecordsOf, CheckpointsOf, SameSession, SureSaves
<1> QED
  BY <1>2, <1>3, <1>6, <1>7 DEF OrderInv, Resumes, IsSequence

LEMMA OrderStep ==
  ASSUME CurrentInv, OrderInv, NoStaleResume, SureSaves \/ SureRecords,
         [CoordNext]_coordVars, [OpensInTime]_coordVars
  PROVE  OrderInv'
<1>1. CASE UNCHANGED coordVars
  BY <1>1, TimeOrder DEF coordVars, CurrentInv
<1>2. CASE Pass
  BY <1>2, TimeOrder DEF Pass, CurrentInv
<1>3. CASE HostStep
  <2>1. life # "down"
    BY <1>3 DEF HostStep, LeafChange, ActivityEvent, FocusEvent, WindowBlur, EditorChange,
       OnIdleTimer, OnHeartbeat, OnPause, OnResume, UpdateSettings, OnResolve, OnUndo,
       OnStop, Input
  <2> QED
    BY <1>3, <2>1, HostCalls, HostOrder
<1>4. CASE QueueStep
  <2>1. life # "down"
    BY <1>4 DEF QueueStep, SkipRefresh, RefreshUntrackable, AwaitIdentity,
       IdentityResolved, IdentityFails, SessionStored, DecisionStored, AppendFails,
       CheckpointSaved, CheckpointFails, RecoveryResolved, Runs, Up, StartsRefresh
  <2> QED
    BY <1>1, <1>4, <2>1, TaskCalls, HostOrder, TaskOrder
<1>5. CASE Exit
  BY <1>5, ExitOrder
<1>6. CASE Boot
  BY <1>6, BootOrder
<1> QED
  BY <1>1, <1>2, <1>3, <1>4, <1>5, <1>6 DEF CoordNext

LEMMA InitiallyOrdered ==
  ASSUME CoordInit
  PROVE  OrderInv
<1>1. /\ now \in Nat /\ queue = <<>> /\ saved = None /\ stored = <<>>
      /\ life = "down" /\ blurred = FALSE
  BY DEF CoordInit, Init
<1>2. /\ IsSequence(<<>>) /\ DOMAIN <<>> = {}
      /\ CheckpointsOf(<<>>) = {} /\ RecordsOf(<<>>) = {}
  BY EmptySequence DEF CheckpointsOf, RecordsOf
<1>3. Restored = None
  BY <1>1 DEF Restored, HadSession
<1>4. Tidy(<<>>, <<>>, None, None, now)
  BY <1>2 DEF Tidy, OrderedLog, OrderedRecords, Follows, Tied
<1> QED
  BY <1>1, <1>2, <1>3, <1>4 DEF OrderInv

-----------------------------------------------------------------------------
(* The theorems.                                                           *)

\* The last checkpoint on its way, or the one on disk when none is, describes
\* the engine, whatever fails, restarts or interleaves (flushCheckpoint is
\* called by every handler that changes what it holds).  A resume from a stale
\* settings tab is excluded: it leaves a session running outside the active
\* state, which no restart takes over.
THEOREM CheckpointInvariant ==
  ASSUME NoStaleResume
  PROVE  CoordSpec => []CurrentInv
<1>1. CoordInit => CurrentInv
  BY InitiallyCurrent
<1>2. CurrentInv /\ [CoordNext]_coordVars => CurrentInv'
  BY CurrentStep
<1> QED
  BY <1>1, <1>2, PTL DEF CoordSpec

\* With no checkpoint write waiting, checkpoint.json describes the engine: what
\* a crash at that instant loses is nothing a restart needs.
THEOREM CheckpointDescribesEngine ==
  ASSUME NoStaleResume
  PROVE  CoordSpec => []CheckpointCurrent
<1>1. CurrentInv => CheckpointCurrent
  <2> SUFFICES ASSUME CurrentInv, life = "up", Saves = {}, saved # None
               PROVE  Describes(saved, Face)
    BY DEF CheckpointCurrent, Describes, Face, SameSession
  <2> QED
    BY DEF CurrentInv, Latest, Saves, CheckpointsOf
<1> QED
  BY <1>1, CheckpointInvariant, PTL

\* Along the chain of checkpoints no earned session is dropped before its
\* record: the ones on disk, in the queue and in the engine hand it on.  Two
\* hypotheses beyond the first theorem's: appends succeed (a failed one loses
\* the record and the next checkpoint forgets the session), and a sample held
\* across an await closes no session before its last trusted instant (a close
\* before the session's start emits nothing).
THEOREM EvidenceInvariant ==
  ASSUME NoStaleResume, SureAppends
  PROVE  CoordSpec /\ [][ClosesInTime]_coordVars => [](CurrentInv /\ EvidenceInv)
<1>1. CoordInit => CurrentInv /\ EvidenceInv
  BY InitiallyCurrent
<1>2. CurrentInv /\ EvidenceInv /\ [CoordNext]_coordVars /\ [ClosesInTime]_coordVars
        => (CurrentInv /\ EvidenceInv)'
  BY CurrentStep, EvidenceStep
<1> QED
  BY <1>1, <1>2, PTL DEF CoordSpec

\* A step that replaces a checkpoint with an earned session by one without it
\* finds the session's record in the log (ports.ts:18-22).
THEOREM EvidenceComesFirst ==
  ASSUME NoStaleResume, SureAppends
  PROVE  CoordSpec /\ [][ClosesInTime]_coordVars => EvidenceBeforeCheckpoint
<1> DEFINE HandedOn ==
      HadSession /\ saved.open.lastTrusted > saved.open.started
        => \/ /\ saved'.open # None
              /\ saved'.open.target = saved.open.target
              /\ saved'.open.started = saved.open.started
           \/ Logs(stored', saved.open)
<1>1. CurrentInv /\ EvidenceInv /\ [CoordNext]_coordVars => [HandedOn]_coordVars
  <2> SUFFICES ASSUME CurrentInv, EvidenceInv, [CoordNext]_coordVars, Earned(saved)
               PROVE  HandedOn
    BY DEF Earned, HadSession
  <2>1. CASE saved' = saved
    BY <2>1 DEF HandedOn, Earned
  <2>2. CASE saved' # saved
    <3>1. QueueStep
      BY <2>2 DEF CoordNext, coordVars, durableVars, Pass, HostStep, LeafChange,
         ActivityEvent, FocusEvent, WindowBlur, EditorChange, OnIdleTimer, OnHeartbeat,
         OnPause, OnResume, UpdateSettings, OnResolve, OnUndo, OnStop, Input, Exit, Boot,
         BootClean, BootContinuing, BootIdle, BootElsewhere, ClosesSession, BootIntoState
    <3>2. CheckpointSaved
      BY <2>2, <3>1 DEF QueueStep, SkipRefresh, RefreshUntrackable, AwaitIdentity,
         IdentityResolved, IdentityFails, SessionStored, DecisionStored, AppendFails,
         CheckpointFails, RecoveryResolved, durableVars
    <3>3. /\ queue # <<>> /\ IsSequence(queue) /\ Head(queue).kind = "checkpoint"
          /\ saved' = Head(queue).checkpoint /\ stored' = stored
          /\ Chain(queue, stored, saved)
      BY <3>2 DEF CheckpointSaved, Runs, CurrentInv, EvidenceInv
    <3>4. 1 \in CheckpointsOf(queue) /\ Head(queue) = queue[1] /\ DOMAIN queue = 1 .. Len(queue)
          /\ Len(queue) \in Nat
      BY <3>3, PoppedCheckpoints, Popped
    <3>5. \/ saved'.open # None /\ SameSession(saved'.open, saved.open)
          \/ Ahead(queue, stored, 1, saved.open)
      BY <3>3, <3>4 DEF Chain, Hands
    <3>6. Ahead(queue, stored, 1, saved.open) => Logs(stored', saved.open)
      BY <3>3, <3>4 DEF Ahead
    <3> QED
      BY <3>5, <3>6 DEF HandedOn, SameSession
  <2> QED
    BY <2>1, <2>2
<1>2. CoordSpec /\ [][ClosesInTime]_coordVars => [](CurrentInv /\ EvidenceInv)
  BY EvidenceInvariant
<1>3. EvidenceBeforeCheckpoint <=> [][HandedOn]_coordVars
  BY DEF EvidenceBeforeCheckpoint
<1> HIDE DEF HandedOn
<1> QED
  BY <1>1, <1>2, <1>3, PTL DEF CoordSpec

\* Along the chain of checkpoints no question is closed before its answer: a
\* candidate one of them holds is a candidate of the later ones and of the
\* engine, or its decision is in the log or ahead of them in the queue; what
\* they list as decided is.  Appends succeed: a failed one loses the decision,
\* and the next checkpoint closes the question all the same.
THEOREM DecisionInvariant ==
  ASSUME NoStaleResume, SureAppends
  PROVE  CoordSpec => [](CurrentInv /\ DecisionInv)
<1>1. CoordInit => CurrentInv /\ DecisionInv
  BY InitiallyCurrent, InitiallyDecided
<1>2. CurrentInv /\ DecisionInv /\ [CoordNext]_coordVars => (CurrentInv /\ DecisionInv)'
  BY CurrentStep, DecisionStep
<1> QED
  BY <1>1, <1>2, PTL DEF CoordSpec

\* A step that writes a checkpoint finds the decisions it relies on in the log:
\* those it lists, and one on each candidate it holds no more
\* (activity-engine.ts:511-518).
THEOREM DecisionsComeFirst ==
  ASSUME NoStaleResume, SureAppends
  PROVE  CoordSpec => DecisionBeforeCheckpoint
<1> DEFINE InLog ==
      /\ \A i \in DOMAIN saved'.recent :
            StoresDecision(adjusted', saved'.recent[i].id, saved'.recent[i].automatic)
      /\ saved # None =>
           \A id \in DOMAIN saved.pending \ DOMAIN saved'.pending :
              \E automatic \in BOOLEAN : StoresDecision(adjusted', id, automatic)
<1>1. CurrentInv /\ DecisionInv /\ [CoordNext]_coordVars
        => [saved' # saved => InLog]_coordVars
  <2> SUFFICES ASSUME CurrentInv, DecisionInv, [CoordNext]_coordVars, saved' # saved
               PROVE  InLog
    OBVIOUS
  <2>1. QueueStep
    BY DEF CoordNext, coordVars, durableVars, Pass, HostStep, LeafChange,
       ActivityEvent, FocusEvent, WindowBlur, EditorChange, OnIdleTimer, OnHeartbeat,
       OnPause, OnResume, UpdateSettings, OnResolve, OnUndo, OnStop, Input, Exit, Boot,
       BootClean, BootContinuing, BootIdle, BootElsewhere, ClosesSession, BootIntoState
  <2>2. CheckpointSaved
    BY <2>1 DEF QueueStep, SkipRefresh, RefreshUntrackable, AwaitIdentity,
       IdentityResolved, IdentityFails, SessionStored, DecisionStored, AppendFails,
       CheckpointFails, RecoveryResolved, durableVars
  <2>3. /\ queue # <<>> /\ IsSequence(queue) /\ Head(queue).kind = "checkpoint"
        /\ saved' = Head(queue).checkpoint /\ adjusted' = adjusted
        /\ Settled(queue, adjusted, saved)
    BY <2>2 DEF CheckpointSaved, Runs, CurrentInv, DecisionInv
  <2>4. 1 \in CheckpointsOf(queue) /\ Head(queue) = queue[1] /\ DOMAIN queue = 1 .. Len(queue)
        /\ Len(queue) \in Nat
    BY <2>3, PoppedCheckpoints, Popped
  <2>5. /\ Backed(queue, adjusted, 1, saved'.recent)
        /\ Offered(queue, adjusted, saved, 1, DOMAIN saved'.pending)
    BY <2>3, <2>4 DEF Settled
  <2>6. \A id, automatic : Answered(queue, adjusted, 1, id, automatic)
                             => StoresDecision(adjusted', id, automatic)
    BY <2>3, <2>4 DEF Answered
  <2> QED
    BY <2>5, <2>6 DEF InLog, Backed, Offered
<1>2. CoordSpec => [](CurrentInv /\ DecisionInv)
  BY DecisionInvariant
<1>3. DecisionBeforeCheckpoint <=> [][saved' # saved => InLog]_coordVars
  BY DEF DecisionBeforeCheckpoint
<1> HIDE DEF InLog
<1> QED
  BY <1>1, <1>2, <1>3, PTL DEF CoordSpec

\* The order of the log, across restarts: whatever a checkpoint on its way
\* could bring back starts after every record that would be in the log by then.
\* It needs that no sample held across an await opens a session before the end of
\* such a record, and that either every checkpoint write succeeds or
\* every close leaves a record: the checkpoint that follows a close is what
\* makes a restart forget the session, and without it the record must stand.
THEOREM OrderInvariant ==
  ASSUME NoStaleResume, SureSaves \/ SureRecords
  PROVE  CoordSpec /\ [][OpensInTime]_coordVars => [](CurrentInv /\ OrderInv)
<1>1. CoordInit => CurrentInv /\ OrderInv
  BY InitiallyCurrent, InitiallyOrdered
<1>2. CurrentInv /\ OrderInv /\ [CoordNext]_coordVars /\ [OpensInTime]_coordVars
        => (CurrentInv /\ OrderInv)'
  BY CurrentStep, OrderStep
<1> QED
  BY <1>1, <1>2, PTL DEF CoordSpec

\* At most one target receives activeMs at any instant, in the log as well and
\* across restarts (activity-engine.ts:9): no two stored records overlap, and
\* they stand in the order of their time.
THEOREM RecordsNeverOverlap ==
  ASSUME NoStaleResume, SureSaves \/ SureRecords
  PROVE  CoordSpec /\ [][OpensInTime]_coordVars => []StoredNoOverlap
<1>1. CurrentInv /\ OrderInv => StoredNoOverlap
  BY DEF OrderInv, Tidy, OrderedLog, StoredNoOverlap
<1> QED
  BY <1>1, OrderInvariant, PTL


=============================================================================
