------------------------ MODULE TrackingCoordinator ------------------------
(***************************************************************************)
(* The runtime around the engine: src/tracking/tracking-coordinator.ts     *)
(* with its transition queue, the startup reconciliation of a checkpoint,  *)
(* and the durable side it writes to.                                      *)
(*                                                                         *)
(* Host callbacks reach the engine at once; everything asynchronous (leaf  *)
(* resolution, record appends, checkpoint writes, recovery decisions) goes *)
(* through one FIFO queue whose head is the only task running.  A leaf     *)
(* refresh reads the active leaf, awaits the file's identity and only then *)
(* submits, so anything synchronous may happen in between.  The process    *)
(* may stop at any point; what survives is the record log and the last     *)
(* checkpoint.                                                             *)
(*                                                                         *)
(* The record log keeps one record per key (NdjsonShardStore), a save of   *)
(* the checkpoint is atomic (module SafeJsonStore shows why).              *)
(***************************************************************************)
EXTENDS ActivityEngine

CONSTANTS
  Inputs,     \* which host inputs occur
  Failures,   \* which faults occur: "append", "checkpoint", "identity", "crash"
  MaxQueue    \* bound: tasks waiting when a host input enqueues another

AllInputs   == {"leaf", "focus", "activity", "edit", "blur", "idle", "heartbeat",
                "pause", "stale-resume", "settings", "recovery"}
AllFailures == {"append", "checkpoint", "identity", "crash"}

\* The open session as a checkpoint keeps it: openCount is not persisted.
StoredSession == [target: Targets, started: Nat, lastTrusted: Nat]

ASSUME CoordinatorAssumption ==
  /\ Inputs \subseteq AllInputs /\ Failures \subseteq AllFailures /\ MaxQueue \in Nat
  /\ None \notin StoredSession

VARIABLES
  life,       \* "down", "up" or "stopping" (TrackingCoordinator.stopped)
  leaf,       \* the active leaf's target, or None when it shows no file
  focused,    \* an Obsidian window has the system focus (known to no component)
  queue,      \* TransitionQueue: the tasks not finished yet, the head is running
  resolving,  \* the leaf whose identity the running refresh awaits, or None
  stored,     \* session records in the log, in order
  adjusted,   \* recovery decisions in the log, in order
  saved       \* checkpoint.json, or None

hostVars    == <<life, leaf, focused>>
durableVars == <<stored, adjusted, saved>>
coordVars   == <<now, engineVars, hostVars, queue, resolving, durableVars>>

(***************************************************************************)
(* Checkpoints and records                                                 *)
(***************************************************************************)

\* flushCheckpoint: unresolved candidates only, openCount is not kept.
Checkpoint ==
  [state |-> state,
   open |-> IF open = None THEN None
            ELSE [target |-> open.target, started |-> open.started,
                  lastTrusted |-> open.lastTrusted],
   pending |-> [id \in PendingCandidates |-> pending[id].to],
   recent |-> recent]

\* appendSerialized: a record whose key is in the log is skipped.  A session's
\* key is its file and start, a decision's its candidate and who decided.
StoreSessionAgain(log, seg) == Append(log, seg)                       \* Mutant
StoreSession(log, seg) ==
  IF \E i \in DOMAIN log : log[i].file = seg.file /\ log[i].from = seg.from
  THEN log ELSE Append(log, seg)

StoreDecision(log, d) ==
  IF \E i \in DOMAIN log : log[i].id = d.id /\ log[i].automatic = d.automatic
  THEN log ELSE Append(log, d)

RefreshTask(sample, allow) == [kind |-> "refresh", sample |-> sample, allow |-> allow]
ResolveTask(id, choice)    == [kind |-> "resolve", id |-> id, choice |-> choice,
                               sample |-> now]

\* Mutant: the checkpoint of a step is queued before its records.
TasksCheckpointFirst(o, checkpoint) ==
  (IF o.flush THEN <<[kind |-> "checkpoint", checkpoint |-> checkpoint]>> ELSE <<>>)
  \o (IF o.segment = None THEN <<>> ELSE <<[kind |-> "session", record |-> o.segment]>>)
  \o (IF o.decision = None THEN <<>> ELSE <<[kind |-> "decision", record |-> o.decision]>>)

\* onEmit and onCheckpoint enqueue one task each, in the order of the calls.
Tasks(o, checkpoint) ==
  (IF o.segment = None THEN <<>> ELSE <<[kind |-> "session", record |-> o.segment]>>)
  \o (IF o.decision = None THEN <<>> ELSE <<[kind |-> "decision", record |-> o.decision]>>)
  \o (IF o.flush THEN <<[kind |-> "checkpoint", checkpoint |-> checkpoint]>> ELSE <<>>)

\* The tasks of the engine call made in this step.
NewTasks == Tasks(out', Checkpoint')

\* An engine call that returns early, or no engine call at all.
Quiet ==
  /\ out' = Silent
  /\ UNCHANGED <<state, stopped, settings, open, lastFile, blurred, idleGap, degraded,
                 lastFlush, pending, recent, credited, decided>>

(***************************************************************************)
(* Host inputs                                                             *)
(***************************************************************************)
Up == life # "down"

\* A host input: synchronous, may append to the queue, touches nothing durable.
Input(kind) ==
  /\ life = "up" /\ kind \in Inputs
  /\ Len(queue) < MaxQueue /\ RoomForRecords
  /\ UNCHANGED <<now, life, resolving, durableVars>>

\* refreshTarget: nothing is queued while idle, unless the caller may resume.
Refresh(sample, allow) ==
  IF state = "idle" /\ ~allow THEN <<>> ELSE <<RefreshTask(sample, allow)>>

\* active-leaf-change and file-open, also for the leaf that is active already.
LeafChange ==
  /\ Input("leaf") /\ Quiet
  /\ leaf' \in Targets \cup {None}
  /\ queue' = queue \o Refresh(None, FALSE)
  /\ UNCHANGED focused

\* onTrustedActivity: while idle it asks to resume with the event's own sample.
ActivityEvent ==
  /\ Input("activity")
  /\ IF state = "idle"
     THEN Quiet /\ queue' = queue \o Refresh(now, TRUE)
     ELSE HandleActivity(now) /\ queue' = queue \o NewTasks
  /\ UNCHANGED <<leaf, focused>>

\* The window regains focus: refresh and activity with one sample.
FocusEvent ==
  /\ Input("focus")
  /\ focused' = TRUE
  /\ \/ /\ open = None \/ ~CanTrack
        /\ Quiet /\ queue' = queue \o Refresh(now, TRUE)
     \/ /\ HandleActivity(now)
        /\ queue' = (queue \o Refresh(now, TRUE)) \o NewTasks
  /\ UNCHANGED leaf

WindowBlur ==
  /\ Input("blur")
  /\ focused' = FALSE
  /\ \/ open = None /\ Quiet /\ UNCHANGED queue
     \/ HandleBlur(now) /\ queue' = queue \o NewTasks
  /\ UNCHANGED leaf

\* editor-change of the current target's path, leaf and window.
EditorChange ==
  /\ Input("edit") /\ HandleEdit(now)
  /\ queue' = queue \o NewTasks
  /\ UNCHANGED <<leaf, focused>>

OnIdleTimer ==
  /\ Input("idle") /\ open # None
  /\ now - open.lastTrusted >= settings.idleThreshold
  /\ HandleIdleConfirm(now)
  /\ queue' = queue \o NewTasks
  /\ UNCHANGED <<leaf, focused>>

OnHeartbeat ==
  /\ Input("heartbeat") /\ HandleHeartbeat(now, HeartbeatGap)
  /\ queue' = queue \o NewTasks
  /\ UNCHANGED <<leaf, focused>>

OnPause ==
  /\ Input("pause") /\ HandlePause(now)
  /\ queue' = queue \o NewTasks
  /\ UNCHANGED <<leaf, focused>>

\* The popover offers to resume only while paused; the settings tab may still
\* show the button of the state it was opened in.
OnResume ==
  /\ \/ Input("pause") /\ state = "paused"
     \/ Input("stale-resume")
  /\ HandleResume(now)
  /\ queue' = (queue \o NewTasks) \o <<RefreshTask(None, FALSE)>>
  /\ UNCHANGED <<leaf, focused>>

UpdateSettings ==
  /\ Input("settings")
  /\ \E new \in SettingsChoices : HandleSettings(new)
  /\ UNCHANGED <<queue, leaf, focused>>

\* The user decides a candidate the last snapshot shows.
OnResolve ==
  /\ Input("recovery") /\ Quiet
  /\ \E id \in PendingCandidates, choice \in {"include", "exclude"} :
        queue' = Append(queue, ResolveTask(id, choice))
  /\ UNCHANGED <<leaf, focused>>

OnUndo ==
  /\ Input("recovery")
  /\ \E id \in DOMAIN pending : UndoAutomaticExclusion(id, now)
  /\ queue' = queue \o NewTasks
  /\ UNCHANGED <<leaf, focused>>

OnStop ==
  /\ life = "up" /\ life' = "stopping"
  /\ HandleStop(now)
  /\ queue' = queue \o NewTasks
  /\ UNCHANGED <<now, leaf, focused, resolving, durableVars>>

(***************************************************************************)
(* The transition queue                                                    *)
(***************************************************************************)
Runs(kind) == Up /\ queue # <<>> /\ Head(queue).kind = kind

\* The running task ends; what the engine called back queues behind the rest.
FinishAtOnce == queue' = NewTasks \o Tail(queue)            \* Mutant: ahead of them
FinishUnlessDegraded ==                                     \* Mutant: errors poison
  queue' = IF degraded' THEN queue ELSE Tail(queue) \o NewTasks
Finish == queue' = Tail(queue) \o NewTasks

\* The task starts too late to matter.
SkipRefresh ==
  /\ Runs("refresh") /\ resolving = None
  /\ life = "stopping" \/ (state = "idle" /\ ~Head(queue).allow)
  /\ Quiet /\ Finish
  /\ UNCHANGED <<now, hostVars, resolving, durableVars>>

StartsRefresh ==
  /\ Runs("refresh") /\ resolving = None
  /\ life = "up" /\ (state = "idle" => Head(queue).allow)

\* The instant a refresh submits with: the caller's, or the present.
SampleOf(task) == IF task.sample = None THEN now ELSE task.sample

\* A leaf without a file resolves at once.
RefreshUntrackable ==
  /\ StartsRefresh /\ leaf = None
  /\ HandleUntrackable(SampleOf(Head(queue))) /\ Finish
  /\ UNCHANGED <<now, hostVars, resolving, durableVars>>

AwaitIdentity ==
  /\ StartsRefresh /\ leaf # None
  /\ resolving' = leaf
  /\ Quiet
  /\ UNCHANGED <<now, hostVars, queue, durableVars>>

\* The identity is known: submit for the leaf read before the await.
IdentityResolved ==
  /\ Runs("refresh") /\ resolving # None
  /\ LET s == SampleOf(Head(queue))
     IN  \/ HandleFocusTarget(s, resolving)
         \/ /\ stopped \/ ~CanTrack \/ (open # None /\ s < open.lastTrusted)
            /\ Quiet
  /\ resolving' = None
  /\ Finish
  /\ UNCHANGED <<now, hostVars, durableVars>>

\* A task that throws is caught at the queue boundary and degrades the engine.
IdentityFails ==
  /\ Runs("refresh") /\ resolving # None /\ "identity" \in Failures
  /\ EnterDegraded(now)
  /\ resolving' = None
  /\ Finish
  /\ UNCHANGED <<now, hostVars, durableVars>>

SessionStored ==
  /\ Runs("session")
  /\ stored' = StoreSession(stored, Head(queue).record)
  /\ Quiet /\ Finish
  /\ UNCHANGED <<now, hostVars, resolving, adjusted, saved>>

DecisionStored ==
  /\ Runs("decision")
  /\ adjusted' = StoreDecision(adjusted, Head(queue).record)
  /\ Quiet /\ Finish
  /\ UNCHANGED <<now, hostVars, resolving, stored, saved>>

\* The append, or what follows it (read-back, summary), fails: degraded, and
\* the record may or may not be in the log.
AppendFails ==
  /\ Runs("session") \/ Runs("decision")
  /\ "append" \in Failures
  /\ EnterDegraded(now) /\ Finish
  /\ \/ UNCHANGED <<stored, adjusted>>
     \/ /\ Head(queue).kind = "session"
        /\ stored' = StoreSession(stored, Head(queue).record)
        /\ UNCHANGED adjusted
     \/ /\ Head(queue).kind = "decision"
        /\ adjusted' = StoreDecision(adjusted, Head(queue).record)
        /\ UNCHANGED stored
  /\ UNCHANGED <<now, hostVars, resolving, saved>>

CheckpointSaved ==
  /\ Runs("checkpoint")
  /\ saved' = Head(queue).checkpoint
  /\ Quiet /\ Finish
  /\ UNCHANGED <<now, hostVars, resolving, stored, adjusted>>

CheckpointFails ==
  /\ Runs("checkpoint") /\ "checkpoint" \in Failures
  /\ EnterDegraded(now) /\ Finish
  /\ UNCHANGED <<now, hostVars, resolving, durableVars>>

RecoveryResolved ==
  /\ Runs("resolve")
  /\ LET task == Head(queue)
     IN  \/ ResolveRecovery(task.id, task.choice, task.sample)
         \/ /\ task.id \notin DOMAIN pending \/ UserDecided(task.id)
            /\ Quiet
  /\ Finish
  /\ UNCHANGED <<now, hostVars, resolving, durableVars>>

(***************************************************************************)
(* Process life                                                            *)
(***************************************************************************)

\* The process ends: a crash, or the application quits after stop() without
\* waiting for the queue.  What the next start finds in the active leaf is
\* chosen here.
Exit ==
  /\ \/ life = "up" /\ "crash" \in Failures
     \/ life = "stopping"
  /\ life' = "down" /\ queue' = <<>> /\ resolving' = None
  /\ Quiet
  /\ leaf' \in Targets \cup {None} /\ focused' = TRUE
  /\ UNCHANGED <<now, durableVars>>

Boots == life = "down" /\ life' = "up" /\ RoomForRecords

\* A new engine before any input.
FreshEngine ==
  /\ stopped' = FALSE /\ blurred' = FALSE /\ degraded' = FALSE
  /\ settings' = [settings EXCEPT !.manuallyPaused = FALSE]
  /\ UNCHANGED decided

\* onload without a checkpoint: start, then look at the active leaf.
BootClean ==
  /\ Boots /\ saved = None
  /\ FreshEngine
  /\ state' = IF CanTrack' THEN "untrackable" ELSE "paused"
  /\ open' = None /\ lastFile' = None /\ idleGap' = None
  /\ lastFlush' = now /\ pending' = <<>> /\ recent' = <<>>
  /\ out' = [Silent EXCEPT !.flush = TRUE]
  /\ UNCHANGED credited
  /\ queue' = NewTasks \o <<RefreshTask(None, FALSE)>>
  /\ UNCHANGED <<now, leaf, focused, resolving, durableVars>>

\* Mutant: the candidates of the checkpoint are not taken over.
RestoreRecent == pending' = <<>> /\ recent' = saved.recent

\* engine.restore: every candidate of the checkpoint comes back undecided.
RestoreRecovery ==
  /\ pending' = [id \in DOMAIN saved.pending |->
                   [to |-> saved.pending[id], undoUntil |-> None, resolved |-> FALSE]]
  /\ recent' = saved.recent

HadSession == saved # None /\ saved.state = "active" /\ saved.open # None

RestoredClose ==
  [file |-> saved.open.target.file, from |-> saved.open.started,
   to |-> saved.open.lastTrusted, openCount |-> 1, reason |-> "idle"]

\* onload with the checkpoint of a session that may continue: its file is still
\* in the active leaf and the gap is below the idle threshold.
BootContinuing ==
  /\ Boots /\ HadSession
  /\ leaf # None /\ leaf.file = saved.open.target.file
  /\ now - saved.open.lastTrusted < settings.idleThreshold
  /\ FreshEngine /\ RestoreRecovery
  /\ state' = "active" /\ lastFile' = leaf.file /\ idleGap' = None
  /\ IF CanTrack'
     THEN /\ open' = [target |-> saved.open.target, started |-> saved.open.started,
                      lastTrusted |-> now, openCount |-> 1]
          /\ lastFlush' = now
          /\ out' = [Silent EXCEPT !.flush = TRUE]
     ELSE /\ open' = [target |-> saved.open.target, started |-> saved.open.started,
                      lastTrusted |-> saved.open.lastTrusted, openCount |-> 1]
          /\ lastFlush' = None
          /\ out' = Silent
  /\ UNCHANGED credited
  /\ queue' = NewTasks
  /\ UNCHANGED <<now, leaf, focused, resolving, durableVars>>

\* What the two ways of closing the checkpoint's session share: idle-confirm at
\* its last trusted instant.
ClosesSession ==
  /\ Boots /\ HadSession
  /\ FreshEngine /\ RestoreRecovery
  /\ open' = None /\ lastFile' = saved.open.target.file
  /\ credited' = Append(credited, RestoredClose)
  /\ out' = [segment |-> RestoredClose, decision |-> None, flush |-> TRUE]
  /\ UNCHANGED <<now, leaf, focused, resolving, durableVars>>

\* Same file in the active leaf, but the gap reached the idle threshold.
BootIdle ==
  /\ ClosesSession
  /\ leaf # None /\ leaf.file = saved.open.target.file
  /\ now - saved.open.lastTrusted >= settings.idleThreshold
  /\ state' = "idle" /\ lastFlush' = saved.open.lastTrusted
  /\ idleGap' = [file |-> saved.open.target.file, from |-> saved.open.lastTrusted]
  /\ queue' = NewTasks

\* Another file, or none: idle-confirm is followed by untrackable, and each of
\* the two flushes a checkpoint.
BootElsewhere ==
  /\ ClosesSession
  /\ leaf # None => leaf.file # saved.open.target.file
  /\ state' = "untrackable" /\ lastFlush' = now /\ idleGap' = None
  /\ queue' = Tasks(out', [Checkpoint' EXCEPT !.state = "idle"])
              \o <<[kind |-> "checkpoint", checkpoint |-> Checkpoint']>>

\* onload with any other checkpoint: its state is taken over, no start input
\* follows and the active leaf is not looked at.
BootIntoState ==
  /\ Boots /\ saved # None /\ ~HadSession
  /\ FreshEngine /\ RestoreRecovery
  /\ state' = saved.state
  /\ open' = None /\ lastFile' = None /\ idleGap' = None /\ lastFlush' = None
  /\ out' = Silent
  /\ UNCHANGED credited
  /\ queue' = <<>>
  /\ UNCHANGED <<now, leaf, focused, resolving, durableVars>>

CoordInit ==
  /\ Init
  /\ life = "down" /\ leaf \in Targets /\ focused = TRUE
  /\ queue = <<>> /\ resolving = None
  /\ stored = <<>> /\ adjusted = <<>> /\ saved = None

Pass ==
  /\ now < Horizon /\ now' = now + 1
  /\ UNCHANGED <<engineVars, hostVars, queue, resolving, durableVars>>

HostStep ==
  \/ LeafChange \/ ActivityEvent \/ FocusEvent \/ WindowBlur \/ EditorChange
  \/ OnIdleTimer \/ OnHeartbeat \/ OnPause \/ OnResume \/ UpdateSettings
  \/ OnResolve \/ OnUndo \/ OnStop

QueueStep ==
  \/ SkipRefresh \/ RefreshUntrackable \/ AwaitIdentity \/ IdentityResolved
  \/ IdentityFails \/ SessionStored \/ DecisionStored \/ AppendFails
  \/ CheckpointSaved \/ CheckpointFails \/ RecoveryResolved

Boot == BootClean \/ BootContinuing \/ BootIdle \/ BootElsewhere \/ BootIntoState

CoordNext == Pass \/ HostStep \/ QueueStep \/ Exit \/ Boot

CoordSpec == CoordInit /\ [][CoordNext]_coordVars

\* The runtime keeps working on the head of the queue (the promise chain).
FairCoordSpec == CoordSpec /\ WF_coordVars(QueueStep)

(***************************************************************************)
(* Properties                                                              *)
(***************************************************************************)
Saves   == {i \in DOMAIN queue : queue[i].kind = "checkpoint"}
Logs(log, session) ==
  \E i \in DOMAIN log : log[i].file = session.target.file /\ log[i].from = session.started
StoresDecision(log, id, automatic) ==
  \E i \in DOMAIN log : log[i].id = id /\ log[i].automatic = automatic

\* The variables of the runtime around the engine have their types.
CoordTypeOK ==
  /\ TypeOK
  /\ life \in {"down", "up", "stopping"}
  /\ leaf \in Targets \cup {None} /\ focused \in BOOLEAN
  /\ \A i \in DOMAIN queue :
        \/ queue[i].kind = "refresh" /\ queue[i].sample \in Nat \cup {None}
        \/ queue[i].kind = "session" /\ queue[i].record \in Segment
        \/ queue[i].kind = "decision" /\ queue[i].record \in Decision
        \/ queue[i].kind = "checkpoint" /\ queue[i].checkpoint.state \in States
        \/ queue[i].kind = "resolve" /\ queue[i].id \in CandidateId
  /\ resolving \in Targets \cup {None}
  /\ resolving # None => queue # <<>> /\ Head(queue).kind = "refresh"
  /\ stored \in Seq(Segment) /\ adjusted \in Seq(Decision)

\* Evidence before checkpoint (ports.ts:18-22, tracking-coordinator.ts:427): a
\* checkpoint that names a session with earned time is replaced by one that does
\* not only when the record of that session is in the log, whatever crashes,
\* restarts and interleaved callbacks came between the two writes.
EvidenceBeforeCheckpoint ==
  [][HadSession /\ saved.open.lastTrusted > saved.open.started
       => \/ /\ saved'.open # None
             /\ saved'.open.target = saved.open.target
             /\ saved'.open.started = saved.open.started
          \/ Logs(stored', saved.open)]_coordVars

\* Once no checkpoint write is queued, the checkpoint on disk describes the
\* engine: its state, its session and what the user still has to decide.  Every
\* handler that changes one of them flushes, failed writes are followed by
\* another, and a restart takes them over.
CheckpointCurrent ==
  life = "up" /\ Saves = {} /\ saved # None =>
    /\ saved.state = state
    /\ DOMAIN saved.pending = PendingCandidates
    /\ saved.recent = recent
    /\ open # None =>
         /\ saved.open # None
         /\ saved.open.target = open.target /\ saved.open.started = open.started
    /\ open = None => saved.open = None

\* At most one target receives activeMs at any instant, in the log as well and
\* across restarts (activity-engine.ts:9): records never overlap.  It holds as
\* long as every input carries a fresh sample; a resume that holds its sample
\* across an await breaks it.
StoredNoOverlap ==
  \A i, j \in DOMAIN stored :
    i < j => stored[i].to <= stored[j].from

\* A question is closed in the checkpoint only by an answer in the log
\* (activity-engine.ts:511-518, event-envelope.ts:57-59): a gap the user may
\* still recover leaves the checkpoint when a decision on it is stored, and what
\* the checkpoint lists as decided is stored, whatever crashes, restarts and
\* interleaved callbacks came between the append and the checkpoint.
DecisionBeforeCheckpoint ==
  [][saved' # saved =>
       /\ \A i \in DOMAIN saved'.recent :
             StoresDecision(adjusted', saved'.recent[i].id, saved'.recent[i].automatic)
       /\ saved # None =>
            \A id \in DOMAIN saved.pending \ DOMAIN saved'.pending :
               \E automatic \in BOOLEAN : StoresDecision(adjusted', id, automatic)]_coordVars

\* A shutdown ends: what stop() left in the queue is written, or the process
\* is gone.
StopDrains == life = "stopping" ~> (queue = <<>> \/ life = "down")
=============================================================================
