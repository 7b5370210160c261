# Activity Map: a TLA+ development

Formal models of the Obsidian plugin *Activity Map* (`src/` of the repository,
TypeScript under `src/src/`). The plugin observes which file is in the
foreground, credits active time to it, stores closed sessions as NDJSON records
and draws a map of where the time went. What must be right is the accounting:
every instant is credited at most once, silence and pauses are not credited,
nothing that was credited disappears in a crash, nothing is counted twice when
it is replayed or recovered, and the map shows all of it under the right file.

Paths below are relative to `src/src/` unless they say otherwise.

## 1. Inventory

| Part | Files | State it keeps | Operations |
|---|---|---|---|
| Activity engine | `tracking/activity-engine.ts` | runtime state, open session, last target, blurred, idle gap, degraded reason, last checkpoint | start, stop, focus-target, blur, untrackable, activity, edit, heartbeat, idle-confirm, pause, resume, settings, degrade, restore, flush |
| Recovery queue | `tracking/recovery-queue.ts` | candidates, latest 50 decisions | record candidate, automatic exclusion, undo, resolve, restore |
| Editing bursts | `tracking/editing-burst.ts` | burst intervals | record edit, total, checkpoint, restore |
| Local midnight, live time | `platform/clock.ts`, `ui/live-today.ts` | none | next midnight, split, today's share of the open session |
| Tracking coordinator | `tracking/tracking-coordinator.ts`, `transition-queue.ts`, `target-resolver.ts`, `checkpoint-reconciler.ts` | the queue, window listeners, timers, stopped | host callbacks, refreshTarget, emission, checkpoint, restore, stop |
| Typed input | `tracking/typed-input.ts`, `platform/codemirror-typed-input.ts` | IME composition tracker, two frames | begin, end, observe, finalize, cancel |
| JSON store | `data/safe-json-store.ts`, `checkpoint-repository.ts` | a file with `.bak` and `.next` | load, save, removeAll |
| Record log | `data/ndjson-shard-store.ts`, `event-envelope.ts`, `schema.ts`, `data-services.ts` | one NDJSON shard per device and date, one queue per shard | append (idempotent by recordId), read, rewrite, remove |
| Summaries | `data/daily-summary-repository.ts`, `rebuild-service.ts` | one summary per device and date | rebuild, save, load |
| Maintenance | `data/retention-service.ts`, `deletion-service.ts`, `raw-export-service.ts` | none of their own | retention pass, scoped deletion, export |
| File registry | `data/file-registry.ts`, vault events of `main.ts` | path index, entries, corrupted | resolve, rename, delete, folder rename and delete, clear |
| Queries | `query/*.ts`, `ui/live-distribution.ts` | cache with versions (unused) | date range, merge, projection, grouping, ranking, 'Other', live overlay |
| Settings | `data/settings-repository.ts`, `domain/settings.ts` | current settings, write queue | load, update, normalise |
| Controller | `ui/activity-map-controller.ts`, `ui/view-model.ts` | view model, query generation, preference queue | dispatch of the intents, refresh, onSnapshot, stop |
| Header actions and popover | `ui/header-action-manager.ts`, `ui/summary-popover.ts`, `ui/header-mini-donut.ts`, `ui/locate-file.ts` | one entry per view, detached popovers, timers, armed slice, layout editor, poster export | sync, open, close, pin, hover and focus, Escape, edit a layout, export, stop |
| Action layout | `domain/header-popover-action-layout.ts`, `ui/components/header-popover-action-layout-editor.ts` | none; the editor's drag | normalise, move, disable, drop, keys |
| Range controls, chart, legend, breadcrumbs, settings tab | `ui/components/**`, `ui/settings-tab.ts` | view state | rendering and events |
| Poster export | `export/*.ts` | export session | stage, export, release |
| Lifecycle | `main.ts` | the wiring | onload, onunload |

How they interact. Host events (leaf change, focus, blur, pointer and key
activity, edits, timers) call the coordinator synchronously. It submits to the
engine at once, except for leaf refreshes, which wait in a FIFO queue and await
the file's identity from the registry. The engine answers by three callbacks in
the same call: a snapshot (to the controller), emissions (session segments and
recovery decisions), and checkpoints. The coordinator queues emissions and
checkpoints behind each other: the record log appends a record, rebuilds that
date's summary and refreshes the controller; the checkpoint repository replaces
`checkpoint.json`. On load the reconciler feeds the checkpoint back into a new
engine. On unload `stop()` is called and not waited for. Editors report
committed characters on their own path, which the coordinator credits to the
target it tracks at that moment. The controller answers the intents of every
view with queries over summaries and registry, and publishes one model; header
miniatures and popovers render what it publishes and store preferences and
layouts through it in the settings repository, which the tracker also reads.

What is hard here: callbacks that run while a refresh awaits the identity;
samples taken at one moment and submitted at another; a crash between the append
of a record and the checkpoint that forgets its session; failing appends and
checkpoint writes; throttled timers; a file that is replaced by non-atomic
writes while another reader loads it; maintenance beside appends; identity
lookups beside renames, resets and restarts; compositions that settle in one of
four ways; days of 23 and 25 hours; optimistic settings whose saves fail and roll
back beside queries of other generations; popovers that lose the action, the
view or the pointer that held them.

## 2. Modules

| Module | Models | Role |
|---|---|---|
| `AttributionLedger` | | what attribution promises: at most one file holds the present, a stretch that ends is written once, clipped to the time elapsed |
| `ActivityEngine` | engine and recovery queue | one action per input of the state machine |
| `TrackingCoordinator` | coordinator, queue, reconciler, log keys, checkpoint | host inputs, queue steps, process life, around the engine's handlers |
| `SumTheorems` | | induction over numbers and finite sets, and what follows for sums of functions |
| `TrackingProofs` | | the engine's invariants, its totals, the ledger; the queue as a chain of checkpoints |
| `LocalMidnight` | local dates and the split of a session | pure operators over an abstract calendar |
| `SessionMetrics` | editing bursts, their checkpoint, the close, today's live time | what a session is worth |
| `JsonCell` | | what a replaceable JSON file promises: one cell replaced as a whole |
| `SafeJsonStore`, `SafeJsonStoreProofs` | JSON store | `save` step by step, `load` in three reads; the store implements the cell |
| `DayFiles` | record log, summaries | the files of each local date: what reads, appends, rewrites, saves and loads of them may leave or return |
| `DailyData`, `DailyDataProofs` | sink, retention, rebuild, deletion | the writer and one service at a time, `await` by `await`, over those files |
| `FileRegistry` | registry and vault events | identities of files, in memory and on disk |
| `Distribution` | the query pipeline and the live overlay | pure operators: range, merge, projection, grouping, chart |
| `VaultQueries`, `FileRegistryProofs` | registry and queries together | time is recorded under an identity, the vault moves on, every query must account for it |
| `TypedInput`, `TypedInputProofs` | composition tracker, editor plugin, target check | what is counted, once, and to which file |
| `ActivityMapController`, `ActivityMapControllerProofs` | controller, settings repository, header miniature | queries, optimistic preferences, saves, rollback |
| `ActionLayout` | the layout of the popover's controls | pure operators: normalise, move, disable, drop, keys |
| `SummaryPopover`, `SummaryPopoverProofs` | header actions and popovers | entries, hover, focus, pinning, layout editing, saves, poster |
| `MC*` | | instances, views, symmetry |

`TrackingCoordinator` EXTENDS `ActivityEngine` and uses its handlers as they
are, with the sample the coordinator holds: the handlers take the instant `s`
they are given, and only the engine's own specification sets `s = now`.
`SessionMetrics` EXTENDS `LocalMidnight`, `SummaryPopover` EXTENDS
`ActionLayout`, and `VaultQueries` composes `FileRegistry` with `Distribution`.

### ActivityEngine

State. `state` is RuntimeStateName; `open` the OpenSession (target, start, last
trusted instant, openCount) or `None`; `lastFile`, `blurred`, `idleGap`,
`degraded`, `lastFlush` and `stopped` the fields of those names; `settings` the
four settings the engine reads. `pending` and `recent` are the recovery queue.
`credited` and `decided` are the history of what `onEmit` was given and `out`
the callbacks of the last step.

Actions. `HandleStart .. HandleSettings`, `EnterDegraded`, `ResolveRecovery` and
`UndoAutomaticExclusion` are the private handlers with their early returns as
guards; `HandleFocusTarget` is the disjunction of the paths through that
handler: same file, other file, nothing open (plainly, after a short gap, after
a long gap). `Next` offers each with `s = now`; an action is not offered again
after stop (`Running`), and `RoomForRecords` bounds the history.

Left out: windows and paths (a target is a file in a leaf), wall versus
monotonic time, editing bursts and the split at local midnight (both in
`SessionMetrics`), wording of snapshots. `clearDegraded` has no caller.

### TrackingCoordinator

`queue` holds the tasks not yet finished and its head is the one running;
`resolving` marks a refresh that is inside its await. Host inputs are
synchronous: they act on the engine and append to the queue. `stored`, `adjusted`
and `saved` are durable: session records and decisions in the log, with the
duplicate suppression by record key, and the checkpoint. `Exit` is a crash, or
the end of the process after `stop`; the five `Boot` actions are the outcomes of
reconciliation. `focused` and the active `leaf` belong to the host. `Inputs` and
`Failures` select which host inputs and which faults a run contains.

Left out: pop-out windows, quarantine of malformed checkpoints, the appends of
typed input. The identity lookup at start-up succeeds. A checkpoint write is
atomic, which `SafeJsonStore` justifies.

### LocalMidnight and SessionMetrics

`LocalMidnight` translates `nextLocalMidnightMs` (the start of the local day, one
probe a minute until the date changes) and `splitAtLocalMidnight` with its guard
against a midnight that does not advance, its shares by rounding and the
remainder on the first piece. `Minute` and `Day` scale the calendar down; a zone
changes its offset at most once.

`SessionMetrics` runs one session: `HandleEdit` extends or starts a burst,
`FlushCheckpoint` collapses completed bursts into `carried`, `Restart` comes back
from the checkpoint with monotonic instants computed from wall ones, `StepWall`
sets the host's clock, and `CloseNow` or `RollBackIdle` is `closeOpenAt` at the
present or at the last trusted interaction. `edits` is history.

### SafeJsonStore

`pc` is the place in `save`. The adapter's write truncates and then fills, so
each write is two steps with a torn file in between; `Interrupt` ends a save at
any of them (an exception or the process). `load` is one step per candidate and
is ordered with nothing. `removeAll` is left out: its only caller has no caller.

### DailyData

State. `shard[d]` is the NDJSON file of date d: whether it exists, the records a
read returns, whether a read yields diagnostics, and the last record if its line
has no newline. `summary[d]` is the daily summary: its load status and the
records it was aggregated from, which is its `sourceFingerprint`. `held` are the
dates whose shard queue runs a task. `due` are the records the tracker still
keeps in its checkpoint, `confirmed` those whose append resolved and which it
has forgotten; `erased` is history. `wAt` is the place of the sink in one batch,
`jAt` that of the running service; `wSaw`, `jSaw`, `jSummary` what they read
before the last `await`. `plan`, `outcome`, `touched`, `errors` are the
deletion's; `previewed` the confirmed records its preview counted.

Actions. `HandOver`, `BeginAppend`, `FinishAppend`/`AppendThrows`, `Aggregate`,
`SaveSummary` are a batch of the sink: per date, append under the shard's queue
and `onShardChanged`. `LoadVerified`, `Compare`, `RemoveExpired` are retention,
`LoadExisting`, `Recompute`, `Replace` rebuild, and `MakePlan` .. `ForgetSummary`
deletion with its recheck, its check per target, and its two branches. `Faults`
selects what may fail. A read returns what is there or, with "read", a diagnostic
and no records, as the code does.

Assumed, because the repository has no caller of the three services: they run
one at a time, and retention gets the dates of due records as protected (both
asked for in `retention-service.ts:4-9`); and that a rejected batch stays due, as
`tracking/ports.ts:19` asks (what the coordinator makes of that is under
section 6).

Left out: devices other than this one, the metrics' arithmetic (a summary is the
set of records it counts; `Silent` records add nothing to it), the time a preview
takes (planning is one step), an `exists` that throws, the scope 'all', the raw
export, and, in `fingerprintText`, collisions.

### FileRegistry, Distribution, VaultQueries

`at` is the vault, `entries` and `index` the registry in memory, `saved` the file
(`None` when damaged), `writing` the save that follows a resolve. `queue` holds
the mutations that wait for `clear()`: without one they run as microtasks before
the next event, so `CreateFile`, renames, deletions and folder events act at
once. `Restart` forgets what no resolve has saved. `owner` and `lost` are
history: the file an identity was created for, and that a restart forgot, or a
folder deletion missed, a move.

`Distribution` is `query/` as functions: `range` to dates, merged summaries to
projected files (present path, or under 'deleted' by what they were), grouping
below the selected path, the cut to a chart of the highest items with 'Other',
and the overlay of the open session onto a result. The code sorts by value, label,
path and id; the model keeps a set and takes some set of highest items that
depends on the items alone, which is all the properties can tell apart. `VaultQueries` records one unit of
time at a step under the identity last resolved, on any of `Dates`, and states
its properties of every query over every range in every state of the registry,
except the view 'local-files' grouped by file (section 6).

### TypedInput

`tracker[l]` is the ImeCommitTracker of the editor of leaf l (generation,
composing, pending, provisional); `frames[l]` the finalization two animation
frames away. CodeMirror, the input method and the browser are the environment:
`text` is the composition as far as it got, `trailing` the final change that may
come on either side of `compositionend`. `StartRefresh` and `FinishRefresh` are
the await between the active leaf and the tracking target, and a report is
credited to the target of that moment or to none (`currentTypedTarget`). `owed`
is what was committed and not reported, `past` what each leaf showed. Each
composing or trailing transaction is taken to insert the whole text of the
composition, as the repository's tests take it; the code counts what the
transaction inserts, which is less when an editor changes only the end of it.

### ActivityMapController

`model` is the published view model (folder, range, metric, grouping, load
status, result, generation). `queries` are runs that have not answered, each with
its generation and what it asks; `waiting` and `running` the preference changes
behind `popoverPreferenceQueue`; `saves`, `current` and `disk` the settings
repository with its write queue; `tracked` the setting the tracker runs with;
`header` the miniature with its own load. Each intent is an action (a refresh is a `SetPath` to the folder
the query has);
`BeginPreference`, `Answer`, `AnswerFails`, `SaveLands` and `SaveFails` are the
continuations, with normalisation, rollback and re-query as the code does them.
`Drained` orders microtasks before the next answer. The settings nobody relates
to another are one number, `rest`, which normalisation clamps. `writer`,
`reverted`, `crossed` and `missed` are history.

Recovery intents go straight to the engine and are actions there. The device id,
created once at load, is left out.

### ActionLayout and SummaryPopover

`ActionLayout` holds the pure moves. In `SummaryPopover` every view has at most
one entry (`entry`, `entryFile`), every popover a fresh number, and `pop[p]` its
flags: open, pinned, closing (the one timer), pending locate, armed slice, editor
(draft, drag, saving). `detached` are pinned popovers whose header went away.
Pointer, keyboard focus and long presses are the environment: `Held` says that
one of them is in the popover or on its trigger. A layout save is three steps
(begun, landed, answered) beside the settings tab's own.

Left out: DOM construction and geometry (a drop target is chosen from those a
layout offers), the native page preview, announcements, drawing. A render or the
removal of the editor's footer may delete the element that has the focus
(`summary-popover.ts:482`, `:725`); the model leaves the focus in the popover then.

## 3. Runs

| Run | Question |
|---|---|
| `engine_credit` | Does any order of inputs credit an instant twice, count an opening twice, overlap a recoverable gap with credited time, or attribute more than has passed? |
| `engine_ledger` | Does the engine implement the ledger, and does a silent session always end? |
| `coord_evidence` | With crashes, failing checkpoint writes and failing lookups between any two queue steps: is a session that a checkpoint named lost, an instant stored twice, a recovery question closed in the checkpoint before its answer is in the log, or the checkpoint on disk not the engine's? |
| `coord_stop` | Does the queue drain after stop, with every host input and failing tasks? |
| `json_cell` | Does one interrupted save leave the old or the new value loadable at every instant, and does a load beside one save find a value? |
| `daily_data` | With appends, summary saves, retention, rebuild and deletion interleaved, failing and crashing: is a confirmed record ever in neither file, does raw evidence leave otherwise than documented, does a deletion claim what it did not do, does a failure block a shard's queue? |
| `session_metrics` | With edits, restarts, clock steps and zone changes: does the split keep the session's time and follow the calendar, is editing time what the edits cover, is the live figure what a close stores? |
| `midnight_lost` | (violated) The same where the clock is put forward between local and UTC midnight: section 6 |
| `identity` | With openings, moves, deletions, resets, restarts and damage: does each path lead to one identity, does an identity stay with its file, and do the charts of every range, folder and view account for all recorded time? |
| `typed_input` | Is every committed character counted once and credited to a file its leaf has shown? |
| `controller` | Does the model show an answer to the query it displays, does loading end, do model, repository and disk agree at rest, does the miniature follow? |
| `popover` | Has every open popover an owner that will remove it, does leaving close what nobody holds, does an edited layout keep every control? |

### Bounds, and why they suffice

- Two files: every handler compares at most the open, the last and the new one.
- `Horizon` (2 to 5 instants in the tracking runs): idle threshold and recovery
  limit are 1 or 2, so below, at and above each of them, and a gap after an undo,
  all fit in the engine's 5; `coord_evidence` has 3, which a session, a crash and
  a restart beyond the idle threshold of 1 need.
- `MaxSegments` 2 (a third session may be open): the properties relate two
  records, or a record and the open session. `MaxDecisions` 1 or 2: one
  candidate decided automatically, undone and decided again.
- `MaxRecent` 50 is the code's constant and is not reached; section 6 says what
  happens when it is.
- `MaxQueue` 2 bounds the tasks *waiting when a host input arrives*; what the
  engine calls back is never cut off.
- `coord_evidence` has leaf changes, edits, the idle timer, recovery decisions
  and the heartbeat, with crashes and failing checkpoint writes and lookups.
  Events that carry an older sample (activity and focus while idle) would break
  `StoredNoOverlap`, failing appends `EvidenceBeforeCheckpoint` and
  `DecisionBeforeCheckpoint`, and section 6 says how. Blurs, pauses and settings are in the engine's runs and in
  `coord_stop`, which has all inputs and failing appends, lookups and crashes,
  one record and one decision; checkpoint writes do not fail there, because one
  that keeps failing keeps flushing (section 6). The theorems of
  `TrackingProofs` cover the other inputs and faults.
- `MaxFaults` 1 for the store, with three values: old, new, and a third that a
  later save writes.
- `daily_data`: two records of one date in two files, three dates, retention of
  one day. Two records are what one append may store half of, what a file
  deletion may separate, and what a summary may count one of; the date is old
  enough for retention at the end of the horizon, and records produced in time
  may still be due then. With two dates the services only interleave more: each
  handles its dates one after the other and apart. Faults "newline" and
  "rewrite" are in no run (section 6).
- `session_metrics`: a day is 6 minutes of 2 ms, sessions of up to 11 ms start
  before, on and after a midnight, so that none, one or two midnights and a
  change of offset fall into one; 3 edits and a silence of 3 give two bursts or a
  burst that goes on; the clock may be stepped by -3 or 2. Zones: offsets west
  and east, clocks put back after UTC midnight and between local and UTC midnight,
  clocks put forward away from UTC midnight. `SpringEast`, clocks put forward
  between local and UTC midnight, is in `midnight_lost` alone, without steps: there
  `SegmentsKeepTime` fails, and with it what the others say of the segments.
- `identity`: two files, three paths in two folders and the root, two
  identities (a third would only be a third file's), one mutation waiting for a
  reset, two units of time on two dates that a range may separate, charts of one
  slice, so that 'Other' occurs as soon as two files have time.
- `typed_input`: two leaves and two files, commits of up to 2 characters, 3
  compositions a leaf: the one settling, the next one, and one that starts before
  a stale finalization of the first.
- `controller`: 2 intents, 2 failures, 2 dates. Two intents are a query behind a
  query, a preference behind a preference, or either beside a settings update;
  a value outside the legal range makes normalisation visible.
- `popover`: one view that changes its file and closes, two popovers (an attached
  and a detached one), two generations, one layout move, one layout save and a
  reset, two controls in a damaged stored layout.
- `Attribution` and `Durability` are TLC views: they drop variables no invariant
  of their runs reads. Symmetry is of files and leaves only, in runs without
  temporal properties, except `identity`, whose one action property names neither
  file nor identity.
- Deadlock checking is off where a bound, the clock's horizon or `stop` really
  ends the behaviour; the store's run keeps it on.

### Fairness

- `WF(IdleTimer)`: `setInterval` in the coordinator calls the idle check for as
  long as the plugin runs (`tracking-coordinator.ts`, `start`).
- `WF(QueueStep)`: the promise chain of `TransitionQueue` always runs its next
  task. The lookup, append or write inside a task settles, in success or in
  failure.
- `WF(Settles)` in the controller: a query or a save answers or rejects, and its
  continuations run.
- Nothing is assumed about the user, the host or failures.

## 4. Properties

Engine: `NoOverlap` (credited segments and the open session never share an
instant), `GapsOutsideCredit` (a recoverable gap shares no instant with credited
time or another gap), `RefocusContinuesVisit` (a segment without an opening
continues the visit a blur interrupted, of the same file and with nothing in
between), `AttributedWithinElapsed` (credited plus restored plus running time
never exceeds what elapsed), `SilenceEnds`, `ImplementsLedger`.

Coordinator: `EvidenceBeforeCheckpoint` (a checkpoint that names a session with
earned time is replaced by one that does not only after the session's record is
in the log), `CheckpointCurrent` (with no checkpoint write queued, the file
describes the engine), `StoredNoOverlap`, `DecisionBeforeCheckpoint` (a checkpoint
is written only when what it lists as decided is in the log, and a candidate
leaves the checkpoint only with a decision on it in the log; an automatic exclusion
that was undone counts for the second part, and the user's later decision is then
covered by the first; that the log has the same choice is not claimed, section 6),
`StopDrains`.

Store: `ImplementsCell`, `LoadFindsSaved`.

Day files: `NothingLost` (a confirmed record is in its shard or in a readable
summary until a deletion erases it), `EvidenceLeaves` (a raw record leaves its
shard only by a deletion that selects it, or by retention when the summary counts
it), `CompletedMeansGone` (after a deletion that reports success none of the
confirmed records its preview counted is in a shard), `QueueFree` (a shard's
queue is busy exactly while an append or a rewrite of it runs).

Session metrics: `SegmentsKeepTime` (the pieces add up to the session's active
and editing time), `SegmentsFollowCalendar` (they follow each other, and no
instant is filed under another date than its own), `EditingIsCoverage` (editing
time is the measure of the instants within the silence window of an edit, a
definition that knows nothing of bursts), `LiveIsWhatCloseStores` (the live figure
never exceeds what a close would file under today, and is that figure unless the
session began before a day start that the code puts too late: the day's clock went
back between local and UTC midnight, section 6). The last two
are said of sessions during which the wall clock was not stepped.

Registry and map: `IndexConsistent`, `IdentityFollowsFile` (the file at an
identity's path is the one it was created for, unless a restart forgot a move no
resolve had saved or a folder deletion missed a queued identity),
`DamagedFileKept` (only a reset replaces a damaged registry file), `ChartsAddUp`
(slices partition every scope, their sum is the total, the root shows all time),
`DrillDownKeepsTime` (a folder opened from the map shows what its slice promised
and the history of files deleted there), `LiveIsLaterQuery` (the overlay of the
open session is what a later query over the time including it returns).

Typed input: `NoDoubleCount`, `AllCounted`, `CreditStaysInLeaf`.

Controller: `ShownAnswersQuery`, `LoadingEnds`, `SettledAgrees`,
`PreferencesKept` (no preference change puts back what an earlier one stored),
`HeaderKeepsUp`, `PreferencesBegin`.

Popover: `OpenIsOwned`, `LeavingCloses`, `SavingShowsDraft` (what is frozen on
the screen is the layout being saved), `ControlsKept`.

`TypeOK`, `CoordTypeOK`, `PausedHoldsNoSession`, `IdleGapFollowsCredit`,
`BlurredVisitIsLast` and `StoreInv` are checked by no run: they
document the state, or are parts of the invariants proved below.

## 5. Proofs

`TrackingProofs`, the engine: `EngineInv` is inductive for all files, targets,
settings, thresholds and bounds (`EngineInvariant`), hence `TypeCorrect`,
`CreditedOnce`, `GapsAreUncredited`, `OpeningsAreCounted` and `PauseHolds`. None
of the safety invariants is inductive alone. `NoOverlap` needs that
the last segment ends at or before the open session's start; `GapsOutsideCredit`
needs `IdleGapFollowsCredit`, because a candidate is made from an idle gap that
was remembered many steps earlier; `RefocusContinuesVisit` needs
`BlurredVisitIsLast`, because the refocus relies on two fields set by the blur.
The proof has one step per handler and a lemma for each effect handlers share
(opening, closing, refreshing, excluding a gap).

The same invariant carries `EngineImplementsLedger`: every step of the engine is
a step of the ledger or leaves it alone.

`NeverMoreThanElapsed` is about sums over the whole history. Its invariant
(`SharesInvariant`) has two parts. `SpentWithinElapsed`: what is credited and what
is recoverable, decided or not, is within the time elapsed, and before the start
of the session that runs. `IncludedOnce`: as long as `recent` is the whole list of
decisions, what they include and what is still undecided are within what is
recoverable, since a decision is refused once its candidate has one. The
hypothesis is the code's: `recent` keeps the last `MaxRecent` decisions, and a
candidate whose decision left it can be included again.

`TrackingProofs`, the coordinator: `CheckpointDescribesEngine`, `EvidenceComesFirst`,
`RecordsNeverOverlap` and `DecisionsComeFirst`, for all targets, settings, queue
lengths and histories, with crashes, failing checkpoint writes and failing
lookups. The queue is read as a chain of checkpoints, from the one on disk to
the last one waiting. `CurrentInv`: the last of the chain describes the engine.
`EvidenceInv`: whatever earned session a checkpoint of the chain names and a
later one does not has its record in the log or in the queue ahead of the later
one (`Chain`), and what the engine does not run any more has its record on the
way (`Covered`). A step is taken apart: the head leaves and what it wrote is
durable (`Done`, the `Pop` lemmas), then the callbacks of one engine call join
(`Announces`, the `Join` lemmas). All that matters of that call is in
`EngineCall`: a session goes on, or its record is emitted, or it had earned
nothing; and whoever changes what a checkpoint shows flushes. `OrderInv`: the
log is in the order of time, the records on their way keep it so (`Fits`), and
what the engine runs, or a restart from a checkpoint of the chain would run,
starts after every record that is stored by then. `DecisionInv` follows
candidates down the same chain: one that a checkpoint holds is held by the later
ones and by the engine (`Offered`), or its decision is in the log or in the queue
ahead of them; and what a checkpoint or the engine lists as decided is there too
(`Backed`). A restart from any checkpoint of the chain hence asks again or knows a
stored answer.

The hypotheses are those under which the code keeps the properties.
All four exclude the resume from a stale
settings tab (`NoStaleResume`): it leaves a session running outside the active
state, which `onload` does not take over. `EvidenceComesFirst` and
`RecordsNeverOverlap` allow every input, and say of the sample that a focus or
activity event hands over, and that is submitted only after the queue and the
await, the one thing each needs, as a property of the behaviour: it does not
close a session before the last instant that was trusted, which would emit
nothing (`ClosesInTime`); it does not open one before the end of a record that
is in the log or on its way (`OpensInTime`). Any other use of an old sample is
covered, and TLC finds each property broken without its condition.
`EvidenceComesFirst` and `DecisionsComeFirst` further exclude failing appends
(`SureAppends`), after which the checkpoint queued behind forgets the session, or
the candidate.
`RecordsNeverOverlap` asks instead that checkpoint writes succeed (`SureSaves`),
or that appends succeed and no blur comes (`SureRecords`): when both the
record of a session and the checkpoint that forgets it are missing, a restart
runs that session again after later ones were stored. TLC finds both ways this
happens (section 6).

`SafeJsonStoreProofs`: `StoreInvariant` and `StoreImplementsCell`, for every set
of values, under `OneFault` (at most one interrupted save since the file was
healthy). The assumption is needed: section 6 has the case of two.
`LoadsFindWhatWasSaved` needs no assumption, because the property itself speaks
of files no save of which was interrupted. `LoadInv`: beside at most one save, a
load after a first value was saved never comes to its third read, and to its
second only when that save is past writing the backup.

`DailyDataProofs`: `DataInv` is inductive for all records, dates, files,
retention periods, sets of services and of faults other than "rewrite" and
"newline" (`Sound`), hence `RetentionIsSafe`, `EvidenceIsKept`,
`QueueNeverPoisoned` and `DeletionIsComplete`. `NothingLost` is not inductive: a
record that is only in its summary must be safe from the next aggregation of its
shard. `SafeInFiles` therefore says why nobody aggregates that date any more
(`Settled`): its shard is gone, it is past, nothing of it is due, and the running
service does not have it on its list. That needs `BatchStored` (what the sink has
stored so far), `RetentionGuarded` (between comparing and removing nobody
changes the date, because retention only has dates nobody writes),
`RebuildGuarded`, `PlanSelects` and `DeletionGuarded`. `CompletedMeansGone` needs
`DeletionTracked`: what was previewed is confirmed, so no retry appends it again,
and is gone from every date the deletion has finished without an error. The proof
has a lemma for each part with one case per action, over lemmas for what reads,
appends, rewrites and removals leave.

`FileRegistryProofs`: `RegistryInvariant`, hence `NoIdentityAtTwoPaths` and
`DamageIsKept`, for all vaults, folder trees and identities. Consistency is
needed three times: in memory, in the registry on its way to the disk, and on
disk, because a restart takes the third; and a new identity is none any of the
three knows. A folder move keeps it because consistency gives an identity one
path, so that each identity of the folder moves once. `IdentityIsTheFiles`
speaks of the state after the waiting mutations: `FollowInv` keeps a history of
the vault with one entry per waiting mutation, which starts where the registry
still is, ends at the present, and in which each mutation leads from one entry to
the next, so that each, when its turn comes, finds the vault it was asked for.

The same module proves what `VaultQueries` states of the map: `ChartsStay`
(`ChartsAddUp`), `FoldersStay` (`DrillDownKeepsTime`) and `OverlaysStay`
(`LiveIsLaterQuery`), for any vault, any dates and records and any limit of a
chart. Their invariant is small (`QueryInv`: the registry's, and that time is
recorded under identities); the properties follow from it by what the pipeline
does with any time. The argument is that every query has one form: the items of a
query are the slices of the files it shows by their key, the file, the folder
below the path or 'deleted' (`DetailSliced`), so that they are apart and weigh
what the files do (`SlicedKeeps`), which is the total of the scope (`ScopeShown`)
and, at the root, everything. The cut keeps the weight (`ChartKeeps`), since what
has no time weighs nothing and 'Other' takes what the rest weighs; that there are
as many highest items as the chart asks for is an induction (`TopFound`). Summing
by file or by date is the same (`TotalByRows`), so a range that leaves no recorded
date out has all time (`MergedTotal`). A folder opened holds exactly the files of
its slice (`FolderHolds`). The overlay finds its item by the key a later query
would use (`OwnerIsKey`), and one slice that grows by the session is the slice of
a later query (`SlicedLater`).

`TypedInputProofs`: `TypedInvariant`, hence `CountedAtMostOnce`,
`CountedAtLeastOnce` and `CreditFollowsLeaf`, for all leaves, files and lengths.
`Owing` says at every step what a leaf owes: nothing while it composes, the final
change as long as that is to come, the fallback of the composition that is
settling otherwise. `Witnessed` says that a target is a file its leaf showed when
the refresh began.

`ActivityMapControllerProofs`: `ControllerInvariant`, hence `AnswersMatch`,
`LoadingHasEnd`, `MiniatureFollows`, `PreferencesSurvive` and `SettledAgrees`
(`SettingsAgree`), for all folders, dates, numbers of intents and failures
(`ControllerAssumption`). `ControllerInv` is two halves that share
`model.settings`. `ModelInv`: the newest run asks what the model asks under the
number the model shows. `SettingsInv`: a preference begins only when none is among
the saves and what changes under it is written by no preference
(`PreferenceAlone`); a save that is alone rolls back to what is stored
(`AloneRestoresStored`); a stale grouping has the newest behind it
(`NewestBehind`); only a grouping or a preference under way sets the model apart
from what is stored (`ApartOnlyUnderWay`).

`SummaryPopoverProofs`: `PopoverInvariant`, hence `OpenPopoversAreOwned`,
`UnheldPopoversClose` and `SavesShowTheDraft`, for all views, files and layouts
and any number of popovers, generations, moves and saves. `Owned`: an open
popover is held by the action of a live view, or is pinned and in the manager's
set of detached ones, and the plugin runs. `Leaving` adds to the property that
what is pinned or edited has no timer, and `Saving` that the draft being saved is
dragged by nobody and a save of it is on its way. They need to know where the
pointer and the focus can be: on a trigger only while it is in the document, and a
long press only under the pointer (`PlaceInv`).

`LayoutInvariant`, hence `ControlsStay` (`ControlsKept`), for every registry that
names a control once and every list of items a settings file can hold. `Laid`: a
layout is four sequences that no control is in twice, of which no two share one,
and which together have those of the set. Normalising makes such a layout
(`NormalizedLaid`): what is sorted is a set of entries, one for each control, in a
strict total order (`EntriesComparable`), so that the element with k before it is
exactly one, which is an induction over the size of the set (`Ranks`). That two
entries never compare equal needs that equal orders and source indices come from
defaults of one side, which count up. Taking a control out leaves one
without it, adding it to one list one with it (`WithoutKeeps`, `GainKeeps`), so each
move keeps all (`MoveLaid`), wherever a drop or a key leads. `LayoutInv` then has to
know that what is dragged or grabbed is a control (`Fit`).

Assumptions on constants are those the modules name: targets show known files,
bounds are naturals, `None` is no value of the types it stands beside, the
settings offered are never paused (`PauseIsNotPersisted`: `manuallyPaused` is set
by `pause()` in the engine's copy only), folders move paths to known paths, the
registry of controls names each once, a persisted layout is a list whose orders
are numbers (what is not one reads as -1). `VaultQueries` adds that identities and
dates are finitely many, dates are numbers, and `NamesAssumption`: no path is a
file's at one time and a folder's at another. The last is a limit: were a file
`d` whose deletion a restart forgot followed by a folder `d`, opening the folder
would also show the file's time, and `DrillDownKeepsTime` does not speak of that.

Model-checked only: the liveness properties `SilenceEnds`, `StopDrains` and
`PreferencesBegin`, which no prover here reaches, and the four properties of
`SessionMetrics`. What those compare is computed by recursion over instants (the
pieces of a session, each found by probing the minutes of a day) and by a sweep
over sorted intervals (the editing bursts): induction over data. `SegmentsKeepTime`
besides holds only in zones whose midnight search advances (section 6). Every other property of the runs
that hold is stated by a theorem.

## 6. Where code and documentation disagree

`midnight_lost` is a run that TLC must find violated: `startOfLocalDayMs`
subtracts the offset of the date's UTC midnight, so where clocks are put forward
between local midnight and that instant (east of UTC) the next midnight is not
after the cursor, the loop breaks with no segment, and the session's time is
dropped. `platform/clock.ts:194-196` says "nextLocalMidnightMs guarantees this in
practice; the guard converts any future edge case into a clean single-segment
result."

Other disagreements, each of which follows from its module by the steps given;
no run states them.

Tracking:

- Settings replace `manuallyPaused`, so any settings change while paused lets the
  next focus open a session (`activity-engine.ts:321`, against
  `src/specs/constitution/2026-07-21-activity-map-product-and-data.md:38`).
- After a failed append the checkpoint queued behind it is still written and
  forgets the session, or lists a decision the log does not have (`tracking-coordinator.ts:430`, against `:427` and
  `ports.ts:19-20`).
- A session restored after its record was appended keeps its key; its longer
  record is dropped as a duplicate (`event-envelope.ts:24`, against `:22`).
- A blur that closes a session with nothing earned leaves no record. When the
  checkpoint behind it fails to be written, a restart runs that session again; with a
  record stored meanwhile the log overlaps. A failed append beside a failed
  checkpoint write does the same (`tracking-coordinator.ts:427-430`).
- The first event after a throttled idle timer extends the session over the
  whole silence (`refreshActivity`; docs/PRD.md:361).
- When the heartbeat closes an idle session before the idle timer does, a gap
  within the recovery limit gets no candidate (`handleHeartbeat`;
  recovery-queue.ts:9).
- The idle timer fires while a refresh awaits the identity; the recheck is over
  and the refresh resumes tracking (tracking-coordinator.ts:407).
- `handleResume` does not look at the open session: a stale settings-tab button
  leaves a session running in the untrackable state, and a restart from its
  checkpoint drops it.
- After tracking is switched off, edits go on extending the open session until
  it falls idle (`handleEdit` reads no settings).
- `degraded` does not keep `handleFocusTarget` from opening a session, and a
  checkpoint write that keeps failing degrades, flushes and fails again.
- A decision evicted from the latest 50 can be taken again.
- A window blur with no session open leaves no trace; a refresh in the queue
  opens a session in the background afterwards.
- A resume that carried its sample across the queue may reopen at an instant
  that a session opened meanwhile was already credited for; when the leaf has lost
  its file by then, it closes a continued visit before its start, which leaves no
  record of what the visit had earned.
- A crash between append and checkpoint makes the restart offer, as recoverable,
  time the log holds.
- A crash between the append of a decision and its checkpoint makes the restart
  offer the candidate again. If the user now chooses otherwise, the log skips the
  second decision by its key and keeps the first, while the engine remembers the
  second and reports the candidate as decided so (`event-envelope.ts:57-62`, against
  `activity-engine.ts:516-517`, which takes the key to close this window).
- On a day whose clock goes back between local and UTC midnight (Sydney in autumn),
  `startOfLocalDayMs` is an hour late (`platform/clock.ts:88-90`). The live figure
  (`live-today.ts:40`) shows nothing until one o'clock, and all day too little for a
  session that began before it, while a close files the time under today. On the day of
  `midnight_lost` it is too early, and the figure counts time of the evening before
  for a session that a close drops.
- A session of three or more pieces may have, by rounding, a first piece whose
  editing time exceeds its active time by 1 ms.

Files:

- A read of the shard that fails during `onShardChanged` yields no records but a
  diagnostic, so the good summary is replaced by an empty one
  (`daily-summary-repository.ts:111`, against `:79-81`).
- Deleting the only file of a date leaves an empty shard, which looks like a
  missing one; the summary is not replaced and goes on counting the file after
  'completed' (`deletion-service.ts:266`, against
  `src/specs/active/02-local-data-and-query-plan.md:244`).
- With the fault "rewrite", a file deletion whose rewrite in place stops half way
  loses records of other files (`NothingLost` fails; deletion-service.ts:8-12
  promises recoverable replacement).
- With the fault "newline", an append cut off before its last newline leaves a
  record that reads well, is confirmed by the retry, and is joined to the next
  line and lost (`NothingLost` fails after a rebuild).
- A torn line is a diagnostic for ever: every later append to that shard throws.
- A deletion that removed a shard but not its summary and then meets a drift
  reports 'aborted-drift'.
- A file deletion does not touch dates of which only the summary is left, and
  does not update the registry.
- A second interrupted save copies the torn primary over the only readable copy;
  and a load whose reads fall into two successive saves may find nothing.

Registry and map:

- Renames and deletions are saved only by the next resolve or reset: a restart
  before it forgets them, and the next file at the old path inherits the history.
- `corrupted` is never reset: after `clear()` identities are created again only
  from the next start on.
- A folder deletion behind a reset looks at the index when the event comes and
  misses identities of resolves still waiting (`main.ts`, the vault listeners).
- The live overlay uses the path the session began with: after a move it may
  credit the old folder until the session ends.
- The query view 'local-files' is never asked for. Grouped by file it would list
  the files of subfolders beside a total that leaves them out
  (`distribution-query.ts:184-185`).

Typed input:

- A key typed within two frames of a composition's end is taken for its final
  change; the composition's characters are not counted.
- A stray or second `compositionend` cancels the finalization of the one before.
- Characters typed into the new file of a leaf go to the file it showed before
  until the refresh ends; windows opened before the plugin loads are never
  registered.

Controller and settings:

- The header miniature keeps yesterday's result when the date ends beside another
  range (against the comment at `activity-map-controller.ts:105-109`), and a day
  range chosen before midnight and begun after it does not follow.
- A rollback does not publish its generation, and restores the query and the
  settings of its beginning, discarding navigation and settings changed since.
- Of two failing groupings the first, never stored, is what stays
  (`activity-map-controller.ts:254-255`).
- Two repository updates that read the same value lose one patch
  (`settings-repository.ts:78`); the tracker then runs with a setting that is not
  on disk.

Popover:

- Escape inside a popover focuses its trigger, whose focus listener opens the
  popover again (docs/PRD.md:249).
- Exporting a poster closes a pinned popover; its modal opens also when the
  popover was closed or the plugin unloaded meanwhile.
- A pending locate completes on a later navigation that has nothing to do with it
  (`summary-popover.ts:436-441`, against the comment at 445-449).
- The completion of an earlier layout save discards a draft begun since.
- A departure during a layout edit is swallowed, and the popover stays open.

## 7. Limits of the models

One clock in the tracking modules; device clock steps only in `SessionMetrics`.
One window. Records are their keys and intervals, or in `DailyData` their
identity, date and file, in `VaultQueries` their identity and date. Typed
characters are counts. These are abstractions of data; each handler keeps all of
its guards and effects.

Not modelled, and why:

- `query/query-cache.ts`, `tracking/heartbeat-monitor.ts`: nothing in the plugin
  constructs them at this commit.
- `export/*`, the poster modal and its editor: drawing and file output inside a
  modal over one frozen result; how the popover starts it is in `SummaryPopover`.
- Range controls, chart, legend, breadcrumbs, the settings form, DOM and
  geometry: rendering; the ranges, intents and drop targets they offer are inputs.
- `platform/window-registry.ts`, the Obsidian adapter, `schema.ts`, `paths.ts`,
  `exclusions.ts`: thin adapters, parsing and predicates on strings; what a failed
  validation does is in the modules that meet it.
- The raw export: it reads and writes nothing the models share.

## 8. Plan

1. `SegmentsKeepTime` for the zones whose midnight search advances: a session that
   ends after it began then has a first piece, and that piece takes the drift.
2. Several devices in `DailyData`: the services go over the shards of all of them,
   the sink writes those of one.
