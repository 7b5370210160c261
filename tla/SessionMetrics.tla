-------------------------- MODULE SessionMetrics --------------------------
(***************************************************************************)
(* What one session is worth: the editing bursts it accumulates            *)
(* (tracking/editing-burst.ts), their checkpoint and restore, and the      *)
(* close that turns them into per-date segments (activity-engine.ts,       *)
(* closeOpenAt and splitAndEmit).  Time is the monotonic clock; the wall   *)
(* clock runs ahead of it by `skew`, which the user or the host may step.  *)
(***************************************************************************)
EXTENDS LocalMidnight

CONSTANTS
  Silence,      \* editSilenceMs
  Idle,         \* idleThresholdMs
  Zones,        \* the time zones the host may be in
  Starts,       \* wall instants at which a session may start
  Steps,        \* by how much the wall clock may be stepped, once a session
  MaxEdits, Horizon,
  None

ASSUME MetricsAssumption ==
  /\ Silence \in Nat \ {0} /\ Idle \in Nat
  /\ MaxEdits \in Nat /\ Horizon \in Nat
  /\ Starts \subseteq Int /\ Steps \subseteq Int

VARIABLES
  now,          \* monotonic clock
  skew,         \* wall clock minus monotonic clock
  zone,
  session,      \* the open session, or None
  burst,        \* its EditingBurst
  saved,        \* the last checkpoint of both, or None
  edits,        \* wall instants of the edits of this session that count
  closed        \* what the close emitted, or None

vars == <<now, skew, zone, session, burst, saved, edits, closed>>

Wall == now + skew

Sample == [wall |-> Wall, mono |-> now]

-----------------------------------------------------------------------------
\* Editing bursts.

NoBurst == [intervals |-> <<>>, carried |-> 0, since |-> None, last |-> None]

MaxOf(a, b) == IF a > b THEN a ELSE b
MinOf(a, b) == IF a < b THEN a ELSE b

\* Length of the union: a sweep over the intervals in order of their starts.
UnionLength(intervals) ==
  LET valid  == SelectSeq(intervals, LAMBDA iv : iv.to >= iv.from)
      sorted == SortSeq(valid, LAMBDA a, b : a.from < b.from)
      Sweep(iv, acc) ==
        IF acc.cursor # None /\ iv.to <= acc.cursor THEN acc
        ELSE LET from == IF acc.cursor = None THEN iv.from ELSE MaxOf(iv.from, acc.cursor)
             IN  [total |-> acc.total + iv.to - from, cursor |-> iv.to]
  IN  FoldLeft(LAMBDA acc, iv : Sweep(iv, acc), [total |-> 0, cursor |-> None], sorted).total

NaturalEnd(b) == b.last + Silence

PushOpen(b, to) ==
  [b EXCEPT !.intervals = Append(@, [from |-> b.since, to |-> to]), !.since = None, !.last = None]

\* Mutant: the edit that comes late extends the old burst over the silence.
RecordEditMerged(b, at) == [b EXCEPT !.since = IF @ = None THEN at ELSE @, !.last = at]

\* An edit after the silence window starts a burst, an earlier one extends the open one.
RecordEdit(b, at) ==
  LET prior == IF b.since # None /\ at > NaturalEnd(b) THEN PushOpen(b, NaturalEnd(b)) ELSE b
  IN  [prior EXCEPT !.since = IF @ = None THEN at ELSE @, !.last = at]

CloseHard(b, at) ==
  IF b.since = None THEN b
  ELSE PushOpen(b, MaxOf(MinOf(NaturalEnd(b), at), b.since))

TotalMs(b, at) ==
  LET open == IF b.since = None THEN <<>>
              ELSE <<[from |-> b.since, to |-> MinOf(NaturalEnd(b), at)]>>
  IN  b.carried + UnionLength(b.intervals \o open)

CheckpointState(b) ==
  [completed |-> b.carried + UnionLength(b.intervals), since |-> b.since, last |-> b.last]

Restored(state) ==
  [intervals |-> <<>>, carried |-> MaxOf(0, state.completed),
   since |-> state.since, last |-> state.last]

-----------------------------------------------------------------------------
\* ui/live-today.ts: what the open session adds to today, before it is stored.  It ends at the
\* idle threshold after the last trusted interaction and begins no earlier than the day.

\* Mutant: what the session had before midnight is added to today.
LiveWhole(at) == MaxOf(0, MinOf(at, session.trusted.wall + Idle) - session.from)

LiveToday(at) ==
  LET end == MinOf(at, session.trusted.wall + Idle)
  IN  MaxOf(0, end - MaxOf(session.from, StartOfLocalDay(end, zone)))

-----------------------------------------------------------------------------
Init ==
  /\ now = 0
  /\ skew \in Starts
  /\ zone \in Zones
  /\ session = [from |-> skew, mono |-> 0, trusted |-> Sample]
  /\ burst = NoBurst
  /\ saved = None
  /\ edits = {}
  /\ closed = None

Pass ==
  /\ session # None /\ now < Horizon
  /\ now' = now + 1
  /\ UNCHANGED <<skew, zone, session, burst, saved, edits, closed>>

\* The host's wall clock is set; the monotonic clock does not notice.
StepWall ==
  /\ session # None /\ skew = session.from
  /\ \E d \in Steps : skew' = skew + d
  /\ UNCHANGED <<now, zone, session, burst, saved, edits, closed>>

\* handleEdit: a trusted interaction that also extends the editing burst.
HandleEdit ==
  /\ session # None
  /\ Cardinality(edits) < MaxEdits
  /\ session' = [session EXCEPT !.trusted = Sample]
  /\ burst' = RecordEdit(burst, Wall)
  /\ edits' = edits \union {Wall}
  /\ UNCHANGED <<now, skew, zone, saved, closed>>

\* flushCheckpoint: completed bursts collapse into one duration.
FlushCheckpoint ==
  /\ session # None
  /\ saved' = [from |-> session.from, trusted |-> session.trusted.wall,
               burst |-> CheckpointState(burst), edits |-> edits]
  /\ UNCHANGED <<now, skew, zone, session, burst, edits, closed>>

GapToNow(wall) == MaxOf(0, Wall - wall)

\* restore: a checkpoint holds wall instants only; the monotonic ones are computed from the
\* wall clock's gap.  Edits after the checkpoint are gone.
Restart ==
  /\ session # None /\ saved # None
  /\ LET trusted == now - GapToNow(saved.trusted)
     IN  session' = [from    |-> saved.from,
                     mono    |-> trusted - MaxOf(0, saved.trusted - saved.from),
                     trusted |-> [wall |-> saved.trusted, mono |-> trusted]]
  /\ burst' = IF saved.burst.last = None THEN NoBurst ELSE Restored(saved.burst)
  /\ edits' = saved.edits
  /\ UNCHANGED <<now, skew, zone, saved, closed>>

EditingOf(b, at, active) == MinOf(MaxOf(0, TotalMs(b, at)), active)

\* closeOpenAt: at the present, or at the last trusted interaction (idle rollback).
CloseOpenAt(sample) ==
  LET at      == sample.wall
      active  == MaxOf(0, sample.mono - session.mono)
      editing == EditingOf(CloseHard(burst, at), at, active)
  IN  /\ session # None
      /\ closed' = [from |-> session.from, to |-> at, active |-> active, editing |-> editing,
                    segments |-> SplitAtLocalMidnight(session.from, at, active, editing, zone)]
      /\ session' = None
      /\ burst' = NoBurst
      /\ UNCHANGED <<now, skew, zone, saved, edits>>

CloseNow     == CloseOpenAt(Sample)
RollBackIdle == session # None /\ CloseOpenAt(session.trusted)

Next == Pass \/ StepWall \/ HandleEdit \/ FlushCheckpoint \/ Restart \/ CloseNow \/ RollBackIdle

Spec == Init /\ [][Next]_vars

-----------------------------------------------------------------------------
\* Shape of the state; the accumulator keeps both or neither of its open fields.
TypeOK ==
  /\ now \in 0 .. Horizon /\ skew \in Int /\ zone \in Zones
  /\ (burst.since = None) <=> (burst.last = None)
  /\ session # None => session.mono <= session.trusted.mono /\ session.trusted.mono <= now

\* A close loses no time: the per-date segments add up to the session's active and editing time.
SegmentsKeepTime ==
  closed # None =>
    /\ SumOf(LAMBDA s : s.active, closed.segments) = closed.active
    /\ SumOf(LAMBDA s : s.editing, closed.segments) = closed.editing

\* The segments follow one another from the start to the end of the session, and no instant of
\* a segment has another local date than the one it is filed under.
SegmentsFollowCalendar ==
  closed # None /\ closed.from < closed.to =>
    LET segs == closed.segments
    IN  /\ segs[1].from = closed.from /\ segs[Len(segs)].to = closed.to
        /\ \A i \in 1 .. Len(segs) - 1 : segs[i].to = segs[i + 1].from
        /\ \A i \in DOMAIN segs : \A t \in segs[i].from .. segs[i].to - 1 :
             LocalDate(t, zone) = segs[i].date

\* Editing time is what it is defined to be: the instants of the session that lie within the
\* silence window of an edit, through any number of bursts, checkpoints and restarts (said only
\* of a session during which the wall clock was not stepped: it then still reads from + now).
EditingIsCoverage ==
  closed # None /\ skew = closed.from =>
    closed.editing = Cardinality({t \in closed.from .. closed.to - 1 :
                                    \E e \in edits : e <= t /\ t < e + Silence})

\* The day start the code computes is the first instant of the date at t.
DayBegins(t) ==
  LET start == StartOfLocalDay(t, zone)
  IN  /\ LocalDate(start, zone) = LocalDate(t, zone)
      /\ LocalDate(start - 1, zone) # LocalDate(t, zone)

\* The time shown of an open session is the time that closing it would file under today: a live
\* figure neither jumps nor counts yesterday twice when the session is stored.  On a day whose
\* clock was put back between its midnight and UTC's, the day start is late
\* (platform/clock.ts:88-90): a session that began before it shows too little, never too much.
LiveIsWhatCloseStores ==
  session # None /\ skew = session.from /\ session.from < Wall =>
    LET end      == MinOf(Wall, session.trusted.wall + Idle)
        segments == SplitAtLocalMidnight(session.from, end, end - session.from, 0, zone)
        ofToday  == SelectSeq(segments, LAMBDA s : s.date = LocalDate(end, zone))
        stored   == SumOf(LAMBDA s : s.active, ofToday)
    IN  end > session.from =>
          /\ LiveToday(Wall) <= stored
          /\ DayBegins(end) \/ StartOfLocalDay(end, zone) <= session.from
               => LiveToday(Wall) = stored

=============================================================================
