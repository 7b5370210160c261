----------------------------- MODULE DailyData -----------------------------
(***************************************************************************)
(* The life of a day's records: the tracker's sink appends them and        *)
(* replaces the day's summary (src/data/data-services.ts, onShardChanged of*)
(* src/main.ts); retention removes the raw shard of an old day, rebuild    *)
(* recomputes summaries, deletion erases a file, a date or everything      *)
(* (src/data/retention-service.ts, rebuild-service.ts, deletion-service.ts)*)
(*                                                                         *)
(* The writer is one process, for the coordinator's queue hands over one   *)
(* batch at a time.  Maintenance is another: what starts the services is   *)
(* not in the repository, so their contract is assumed, one at a time and  *)
(* with the dates the checkpoint refers to protected from retention        *)
(* (retention-service.ts:4-9).  Every `await` ends a step.                 *)
(***************************************************************************)
EXTENDS DayFiles

CONSTANTS
  RetentionDays,  \* rawRetentionDays
  Jobs            \* the services that run: "retention", "rebuild", "deletion"

ASSUME RetentionAssumption == RetentionDays \in Nat \ {0}

VARIABLES
  today,      \* the local date
  due,        \* records or candidates the checkpoint still holds
  confirmed,  \* records whose append resolved: the tracker forgets them
  erased,     \* records a deletion removed
  wAt, batch, wLeft, wDay, wSaw,         \* the writer
  job, jAt, jLeft, jDay, jSaw, jSummary, \* the running service
  plan, outcome, touched, errors, previewed  \* deletion

tracker  == <<today, due, confirmed>>
writer   == <<wAt, batch, wLeft, wDay, wSaw>>
cursor   == <<job, jAt, jLeft, jDay, jSaw, jSummary>>
deletion == <<plan, outcome, touched, errors, previewed>>
service  == <<cursor, deletion, erased>>
vars     == <<files, tracker, writer, service>>

Nothing == [records |-> {}, damaged |-> FALSE]

(***************************************************************************)
(* The tracker                                                             *)
(***************************************************************************)
Tick ==
  /\ today < LastDay
  /\ today' = today + 1
  /\ UNCHANGED <<files, due, confirmed, writer, service>>

\* A session, a typed-input record, or a candidate whose adjustment belongs to
\* this date however late it is decided.
Produce(r) ==
  /\ DayOf[r] = today /\ r \notin due \cup confirmed
  /\ due' = due \cup {r}
  /\ UNCHANGED <<files, today, confirmed, writer, service>>

(***************************************************************************)
(* The sink: appendSessions, appendRecoveryDecision, appendTypedInputs     *)
(***************************************************************************)
HandOver(b) ==
  /\ wAt = "idle" /\ wAt' = "next"
  /\ b \subseteq due /\ b # {}
  /\ batch' = b /\ wLeft' = {DayOf[r] : r \in b}
  /\ UNCHANGED <<files, tracker, wDay, wSaw, service>>

\* An exception rejects the batch, and its records stay due: that is what the
\* sink asks of the tracker (src/tracking/ports.ts:19).
Reject ==
  /\ wAt' = "idle" /\ batch' = {} /\ wLeft' = {} /\ wDay' = 0 /\ wSaw' = Nothing
  /\ UNCHANGED <<tracker, service>>

New == OnDay(batch, wDay) \ wSaw.records

\* appendSerialized up to the append: read the present ids under the queue.
BeginAppend(d) ==
  /\ wAt = "next" /\ d \in wLeft /\ d \notin held
  /\ UNCHANGED <<shard, summary>>
  /\ \E got \in ReadsOf(d) :
       \/ got.damaged /\ Reject /\ UNCHANGED held
       \/ /\ ~got.damaged /\ OnDay(batch, d) \subseteq got.records
          /\ wAt' = "rebuild" /\ wDay' = d
          /\ UNCHANGED <<held, tracker, batch, wLeft, wSaw, service>>
       \/ /\ ~got.damaged /\ ~(OnDay(batch, d) \subseteq got.records)
          /\ Acquire(d)
          /\ wAt' = "append" /\ wDay' = d /\ wSaw' = got
          /\ UNCHANGED <<tracker, batch, wLeft, service>>

FinishAppend ==
  /\ wAt = "append" /\ shard[wDay].unended = {}
  /\ Release(wDay)
  /\ \E after \in Appended(wDay, New) : shard' = [shard EXCEPT ![wDay] = after]
  /\ wAt' = "rebuild" /\ wSaw' = Nothing
  /\ UNCHANGED <<summary, tracker, batch, wLeft, wDay, service>>

\* The adapter fails, or the read-back misses a record.
AppendThrows ==
  /\ wAt = "append"
  /\ Release(wDay)
  /\ \E after \in (IF "append" \in Faults THEN Interrupted(wDay, New) ELSE {})
             \cup (IF "newline" \in Faults THEN CutShort(wDay, New) ELSE {})
             \cup (IF "read" \in Faults \/ shard[wDay].unended # {}
                     THEN Appended(wDay, New) ELSE {}) :
       shard' = [shard EXCEPT ![wDay] = after]
  /\ Reject
  /\ UNCHANGED summary

\* The next date of the batch, or the batch is confirmed.
DayStored ==
  /\ wLeft' = wLeft \ {wDay}
  /\ wDay' = 0 /\ wSaw' = Nothing
  /\ IF wLeft' = {}
       THEN /\ wAt' = "idle" /\ batch' = {}
            /\ due' = due \ batch /\ confirmed' = confirmed \cup batch
       ELSE /\ wAt' = "next" /\ UNCHANGED <<batch, due, confirmed>>
  /\ UNCHANGED <<today, service>>

\* onShardChanged: aggregate the shard, then replace the summary.
Aggregate ==
  /\ wAt = "rebuild"
  /\ UNCHANGED files
  /\ \E got \in ReadsOf(wDay) :
       IF RawUnavailable(got)
         THEN DayStored
         ELSE /\ wAt' = "save" /\ wSaw' = got
              /\ UNCHANGED <<tracker, batch, wLeft, wDay, service>>

SaveSummary ==
  /\ wAt = "save"
  /\ \/ Save(wDay, wSaw.records) /\ DayStored
     \/ SaveThrows(wDay, wSaw.records) /\ Reject
  /\ UNCHANGED <<shard, held>>

(***************************************************************************)
(* Services: dates are processed one after the other                       *)
(***************************************************************************)
Start(kind, step, days) ==
  /\ job = "none" /\ kind \in Jobs /\ days # {}
  /\ job' = kind /\ jAt' = step /\ jLeft' = days
  /\ UNCHANGED <<jDay, jSaw, jSummary>>

\* The next date from `step` on, or the pass is over.
NextDate(step) ==
  /\ jLeft' = jLeft \ {jDay}
  /\ IF jLeft' = {} THEN job' = "none" /\ jAt' = "idle"
                    ELSE jAt' = step /\ UNCHANGED job
  /\ jDay' = 0 /\ jSaw' = Nothing /\ jSummary' = NoSummary

Present == {d \in Days : shard[d].exists}

(***************************************************************************)
(* RetentionService.run                                                    *)
(***************************************************************************)
Protected == {DayOf[r] : r \in due}

\* cutoffDate and the dates that are not kept at once.
Expired == {d \in Present : d + RetentionDays < today}

StartRetention ==
  /\ Start("retention", "load", Expired \ Protected)
  /\ UNCHANGED <<files, tracker, writer, deletion, erased>>

LoadVerified(d) ==
  /\ job = "retention" /\ jAt = "load" /\ d \in jLeft
  /\ jDay' = d /\ jSummary' \in LoadsOf(d) /\ jAt' = "compare"
  /\ UNCHANGED <<files, tracker, writer, job, jLeft, jSaw, deletion, erased>>

\* Mutant: any readable summary will do.
CoveredByAny(got) == jSummary.status = "loaded"

\* The summary was aggregated from exactly the records that are there.
Covered(got) ==
  jSummary.status = "loaded" /\ ~got.damaged /\ jSummary.counts = got.records

Compare ==
  /\ job = "retention" /\ jAt = "compare"
  /\ \E got \in ReadsOf(jDay) :
       IF Covered(got) THEN /\ jAt' = "remove"
                            /\ UNCHANGED <<job, jLeft, jDay, jSaw, jSummary>>
                       ELSE NextDate("load")
  /\ UNCHANGED <<files, tracker, writer, deletion, erased>>

RemoveShard(d) ==
  /\ d \notin held
  /\ shard' = [shard EXCEPT ![d] = NoShard]
  /\ UNCHANGED <<summary, held>>

RemoveExpired ==
  /\ job = "retention" /\ jAt = "remove"
  /\ RemoveShard(jDay) \/ ("remove" \in Faults /\ UNCHANGED files)
  /\ NextDate("load")
  /\ UNCHANGED <<tracker, writer, deletion, erased>>

(***************************************************************************)
(* RebuildService.rebuild over the inventory                               *)
(***************************************************************************)
StartRebuild ==
  /\ Start("rebuild", "existing", Present)
  /\ UNCHANGED <<files, tracker, writer, deletion, erased>>

LoadExisting(d) ==
  /\ job = "rebuild" /\ jAt = "existing" /\ d \in jLeft
  /\ jDay' = d /\ jSummary' \in LoadsOf(d) /\ jAt' = "aggregate"
  /\ UNCHANGED <<files, tracker, writer, job, jLeft, jSaw, deletion, erased>>

Unchanged(got) ==
  jSummary.status = "loaded" /\ Metrics(jSummary.counts) = Metrics(got.records)

Recompute ==
  /\ job = "rebuild" /\ jAt = "aggregate"
  /\ \E got \in ReadsOf(jDay) :
       IF RawUnavailable(got) \/ Unchanged(got)
         THEN NextDate("existing")
         ELSE jAt' = "store" /\ jSaw' = got /\ UNCHANGED <<job, jLeft, jDay, jSummary>>
  /\ UNCHANGED <<files, tracker, writer, deletion, erased>>

Replace ==
  /\ job = "rebuild" /\ jAt = "store"
  /\ Save(jDay, jSaw.records) \/ SaveThrows(jDay, jSaw.records)
  /\ NextDate("existing")
  /\ UNCHANGED <<shard, held, tracker, writer, deletion, erased>>

(***************************************************************************)
(* DeletionService: planDeletion and executeDeletion                       *)
(***************************************************************************)
\* A file or a date, as the records and the dates it selects.
Scope == [byFile : BOOLEAN, records : SUBSET Records, days : SUBSET Days]
FileScope(f) == [byFile |-> TRUE, records |-> {r \in Records : FileOf[r] = f}, days |-> Days]
DateScope(d) == [byFile |-> FALSE, records |-> OnDay(Records, d), days |-> {d}]
Scopes == {FileScope(FileOf[r]) : r \in Records} \cup {DateScope(d) : d \in Days}

\* blind: the shards that cannot be read while the plan is made, in which no
\* record of a file is found.
Blinds == IF "read" \in Faults THEN SUBSET Present ELSE {{}}

Affected(scope, blind) ==
  IF scope.byFile
    THEN {d \in Present \ blind : shard[d].records \cap scope.records # {}}
    ELSE {d \in scope.days : shard[d].exists \/ summary[d].status # "missing"}

\* The preview: the affected dates, with a fingerprint of both their files.
PlanFor(scope, blind) ==
  LET affected == Affected(scope, blind)
  IN  [scope |-> scope, days |-> affected,
       prints |-> [d \in Days |-> IF d \in affected THEN <<shard[d], summary[d]>> ELSE <<>>]]

NoPlan ==
  [scope |-> [byFile |-> FALSE, records |-> {}, days |-> {}], days |-> {},
   prints |-> [d \in Days |-> <<>>]]

MakePlan(scope) ==
  /\ job = "none" /\ "deletion" \in Jobs
  /\ \E blind \in Blinds : plan' = PlanFor(scope, blind)
  /\ outcome' = "planned"
  /\ previewed' = {r \in confirmed \cap scope.records :
                     DayOf[r] \in plan'.days /\ r \in shard[DayOf[r]].records}
  /\ touched' = FALSE /\ errors' = FALSE
  /\ UNCHANGED <<files, tracker, writer, cursor, erased>>

\* Whether or not it runs, the preview is used up.
Execute ==
  /\ outcome = "planned" /\ job = "none"
  /\ \E blind \in Blinds :
       \/ /\ plan # PlanFor(plan.scope, blind)
          /\ outcome' = "aborted-drift" /\ plan' = NoPlan /\ UNCHANGED cursor
       \/ /\ plan = PlanFor(plan.scope, blind) /\ plan.days = {}
          /\ outcome' = "completed" /\ plan' = NoPlan /\ UNCHANGED cursor
       \/ /\ plan = PlanFor(plan.scope, blind)
          /\ Start("deletion", "target", plan.days)
          /\ outcome' = "running" /\ UNCHANGED plan
  /\ UNCHANGED <<files, tracker, writer, touched, errors, previewed, erased>>

\* Mutant: errors are not looked at.
ResultRegardless(failed) == "completed"

Result(failed) == IF failed THEN "partial-failure" ELSE "completed"

\* After a target: the next one, or the result.
Settle(failed, mutated) ==
  /\ NextDate("target")
  /\ IF jLeft' # {}
       THEN errors' = failed /\ touched' = mutated /\ UNCHANGED <<outcome, plan>>
       ELSE /\ errors' = FALSE /\ touched' = FALSE
            /\ outcome' = Result(failed)
            /\ plan' = NoPlan
  /\ UNCHANGED previewed

Matches(d) == plan.prints[d] = <<shard[d], summary[d]>>

\* A pair that changed since the preview, or cannot be fingerprinted, ends the
\* deletion.
Drift ==
  /\ job' = "none" /\ jAt' = "idle" /\ jLeft' = {}
  /\ outcome' = IF touched THEN "partial-failure" ELSE "aborted-drift"
  /\ touched' = FALSE /\ errors' = FALSE /\ plan' = NoPlan
  /\ UNCHANGED jDay

Target(d) ==
  /\ job = "deletion" /\ jAt = "target"
  /\ d \in jLeft /\ \A e \in jLeft : d <= e
  /\ UNCHANGED <<files, tracker, writer, jSaw, jSummary, previewed, erased>>
  /\ \/ /\ Matches(d)
        /\ jDay' = d
        /\ jAt' = IF plan.scope.byFile THEN "rewrite"
                  ELSE IF shard[d].exists THEN "drop" ELSE "forget"
        /\ UNCHANGED <<job, jLeft, plan, outcome, touched, errors>>
     \/ (~Matches(d) \/ "read" \in Faults) /\ Drift

\* rewrite: read under the queue, refuse a damaged shard.
BeginRewrite ==
  /\ job = "deletion" /\ jAt = "rewrite" /\ jDay \notin held
  /\ \E got \in ReadsOf(jDay) :
       IF got.damaged
         THEN Settle(TRUE, touched) /\ UNCHANGED held
         ELSE /\ Acquire(jDay)
              /\ jAt' = "write" /\ jSaw' = got
              /\ UNCHANGED <<job, jLeft, jDay, jSummary, deletion>>
  /\ UNCHANGED <<shard, summary, tracker, writer, erased>>

\* Mutant: the predicate turned round.
KeptTurned == jSaw.records \cap plan.scope.records

Kept == jSaw.records \ plan.scope.records

\* That the shard became smaller is judged by a count taken before the queue,
\* which may be stale; the read-back may fail as any other read.
FinishRewrite ==
  /\ job = "deletion" /\ jAt = "write"
  /\ Release(jDay)
  /\ erased' = erased \cup (jSaw.records \cap plan.scope.records)
  /\ \E after \in Overwritten(Kept) :
       /\ shard' = [shard EXCEPT ![jDay] = after]
       /\ \/ /\ ~after.damaged
             /\ jAt' = "aggregate" /\ jSaw' = Nothing
             /\ touched' \in {TRUE, touched}
             /\ UNCHANGED <<job, jLeft, jDay, jSummary, plan, outcome, errors, previewed>>
          \/ (after.damaged \/ "read" \in Faults) /\ Settle(TRUE, touched)
  /\ UNCHANGED <<summary, tracker, writer>>

AggregateKept ==
  /\ job = "deletion" /\ jAt = "aggregate"
  /\ \E got \in ReadsOf(jDay) :
       IF RawUnavailable(got)
         THEN Settle(errors, touched)
         ELSE jAt' = "store" /\ jSaw' = got /\ UNCHANGED <<job, jLeft, jDay, jSummary, deletion>>
  /\ UNCHANGED <<files, tracker, writer, erased>>

ReplaceKept ==
  /\ job = "deletion" /\ jAt = "store"
  /\ \/ Save(jDay, jSaw.records) /\ Settle(errors, touched)
     \/ SaveThrows(jDay, jSaw.records) /\ Settle(TRUE, touched)
  /\ UNCHANGED <<shard, held, tracker, writer, erased>>

\* Date and full scope: the shard, then its summary.
DropShard ==
  /\ job = "deletion" /\ jAt = "drop"
  /\ \/ /\ RemoveShard(jDay)
        /\ erased' = erased \cup shard[jDay].records
        /\ jAt' = "forget"
        /\ UNCHANGED <<job, jLeft, jDay, jSaw, jSummary, deletion>>
     \/ "remove" \in Faults /\ Settle(TRUE, touched) /\ UNCHANGED <<files, erased>>
  /\ UNCHANGED <<tracker, writer>>

ForgetSummary ==
  /\ job = "deletion" /\ jAt = "forget"
  /\ \/ /\ summary' = [summary EXCEPT ![jDay] = NoSummary]
        /\ erased' = erased \cup (summary[jDay].counts \ shard[jDay].records)
        /\ Settle(errors, TRUE)
     \/ "remove" \in Faults /\ Settle(TRUE, touched) /\ UNCHANGED <<summary, erased>>
  /\ UNCHANGED <<shard, held, tracker, writer>>

(***************************************************************************)
(* A crash: what it interrupts has left the files as a failure does, and   *)
(* the records the checkpoint holds are due again                          *)
(***************************************************************************)
Crash ==
  /\ "crash" \in Faults
  /\ held' = {}
  /\ wAt' = "idle" /\ batch' = {} /\ wLeft' = {} /\ wDay' = 0 /\ wSaw' = Nothing
  /\ job' = "none" /\ jAt' = "idle" /\ jLeft' = {} /\ jDay' = 0
  /\ jSaw' = Nothing /\ jSummary' = NoSummary
  /\ plan' = NoPlan /\ outcome' = "none" /\ touched' = FALSE /\ errors' = FALSE
  /\ previewed' = {}
  /\ UNCHANGED <<shard, summary, tracker, erased>>

Init ==
  /\ FilesInit
  /\ today = 0 /\ due = {} /\ confirmed = {} /\ erased = {}
  /\ wAt = "idle" /\ batch = {} /\ wLeft = {} /\ wDay = 0 /\ wSaw = Nothing
  /\ job = "none" /\ jAt = "idle" /\ jLeft = {} /\ jDay = 0
  /\ jSaw = Nothing /\ jSummary = NoSummary
  /\ plan = NoPlan /\ outcome = "none"
  /\ touched = FALSE /\ errors = FALSE /\ previewed = {}

WriterStep ==
  \/ \E d \in Days : BeginAppend(d)
  \/ FinishAppend \/ AppendThrows \/ Aggregate \/ SaveSummary

RetentionStep == (\E d \in Days : LoadVerified(d)) \/ Compare \/ RemoveExpired

RebuildStep == (\E d \in Days : LoadExisting(d)) \/ Recompute \/ Replace

DeletionStep ==
  \/ \E d \in Days : Target(d)
  \/ BeginRewrite \/ FinishRewrite
  \/ AggregateKept \/ ReplaceKept \/ DropShard \/ ForgetSummary

JobStep == RetentionStep \/ RebuildStep \/ DeletionStep

Next ==
  \/ Tick
  \/ \E r \in Records : Produce(r)
  \/ \E b \in SUBSET Records : HandOver(b)
  \/ WriterStep
  \/ StartRetention \/ StartRebuild
  \/ \E scope \in Scopes : MakePlan(scope)
  \/ Execute
  \/ JobStep
  \/ Crash

Spec == Init /\ [][Next]_vars

(***************************************************************************)
(* Properties                                                              *)
(***************************************************************************)
FilesType ==
  shard \in [Days -> Shard] /\ summary \in [Days -> Summary] /\ held \subseteq Days

TrackerType ==
  /\ today \in Days /\ due \subseteq Records /\ confirmed \subseteq Records
  /\ erased \subseteq Records

WriterType ==
  /\ wAt \in {"idle", "next", "append", "rebuild", "save"}
  /\ batch \subseteq Records /\ wLeft \subseteq Days /\ wDay \in Days /\ wSaw \in Reading

CursorType ==
  /\ job \in {"none", "retention", "rebuild", "deletion"}
  /\ jAt \in {"idle", "load", "compare", "remove", "existing", "aggregate", "store",
              "target", "rewrite", "write", "drop", "forget"}
  /\ jLeft \subseteq Days /\ jDay \in Days /\ jSaw \in Reading /\ jSummary \in Summary

DeletionType ==
  /\ plan.scope \in Scope /\ plan.days \subseteq Days
  /\ outcome \in {"none", "planned", "running", "completed", "partial-failure",
                  "aborted-drift"}
  /\ touched \in BOOLEAN /\ errors \in BOOLEAN /\ previewed \subseteq Records

TypeOK == FilesType /\ TrackerType /\ WriterType /\ CursorType /\ DeletionType

InShard(r)   == r \in shard[DayOf[r]].records
InSummary(r) == summary[DayOf[r]].status = "loaded" /\ r \in summary[DayOf[r]].counts

\* "Retention can never destroy the only durable representation of a metric"
\* (retention-service.ts:7-9): a record the tracker has forgotten is in its raw
\* shard or in a readable summary until a deletion erases it.
NothingLost == \A r \in confirmed \ erased : InShard(r) \/ InSummary(r)

\* A shard is append-only (ndjson-shard-store.ts:11): a raw record leaves it
\* when a deletion selects it, or when retention removes a shard whose summary
\* counts it.
EvidenceLeaves ==
  [][\A r \in Records : InShard(r) /\ ~InShard(r)' =>
       \/ job = "deletion" /\ r \in plan.scope.records
       \/ job = "retention" /\ DayOf[r] \in jLeft /\ InSummary(r)]_vars

\* A deletion never reports success after a partial deletion
\* (deletion-service.ts:11-12): what its preview counted is in no shard, whatever
\* was appended, rebuilt or expired since.
CompletedMeansGone ==
  outcome = "completed" => \A r \in previewed : ~InShard(r)

\* A failed append or rewrite never poisons the queue of its shard
\* (`run.catch`, ndjson-shard-store.ts:58-61): a shard's queue is busy only while
\* an append or a rewrite of it runs, and never for both.
QueueFree ==
  /\ held = {d \in Days : (wAt = "append" /\ d = wDay) \/ (jAt = "write" /\ d = jDay)}
  /\ wAt = "append" /\ jAt = "write" => wDay # jDay

(***************************************************************************)
(* The inductive invariant behind NothingLost                              *)
(***************************************************************************)
\* A service is at a step only while it runs.
JobIdle == job = "none" => jAt = "idle"

\* Why nothing is lost.  A record that is not in its shard belongs to a date on
\* which nothing is due and no service at work writes the summary.
Settled(d) ==
  /\ ~shard[d].exists /\ d < today /\ d \notin Protected
  /\ job = "rebuild" => d \notin jLeft
  /\ job = "deletion" /\ plan.scope.byFile => d \notin jLeft

SafeInFiles == \A r \in confirmed \ erased :
  InShard(r) \/ (InSummary(r) /\ Settled(DayOf[r]))

\* A batch is in the shards of the dates it has finished.
BatchStored ==
  /\ batch \subseteq due /\ due \cap confirmed = {}
  /\ wLeft \subseteq {DayOf[r] : r \in batch}
  /\ wAt \in {"append", "rebuild", "save"} => wDay \in wLeft
  /\ \A r \in batch \ erased :
       (DayOf[r] \in wLeft => wAt \in {"rebuild", "save"} /\ DayOf[r] = wDay) => InShard(r)
  /\ wAt = "append" => wSaw.records = shard[wDay].records /\ ~wSaw.damaged

\* Retention works on old dates nobody writes, and removes what it compared.
RetentionGuarded == job = "retention" =>
  /\ \A d \in jLeft : d < today /\ d \notin Protected
  /\ jAt \in {"load", "compare", "remove"}
  /\ jAt # "load" => jDay \in jLeft
  /\ jAt # "load" /\ jSummary.status = "loaded" => jSummary = summary[jDay]
  /\ jAt = "remove" => /\ jSummary.status = "loaded"
                       /\ jSummary.counts = shard[jDay].records

RebuildGuarded == job = "rebuild" =>
  /\ jAt \in {"existing", "aggregate", "store"}
  /\ jAt # "existing" => jDay \in jLeft

\* A date-scoped plan selects whole dates, and a deletion keeps to its plan.
PlanSelects == ~plan.scope.byFile =>
  \A d \in plan.scope.days : OnDay(Records, d) \subseteq plan.scope.records

DeletionGuarded == job = "deletion" =>
  /\ jAt \in {"target", "rewrite", "write", "aggregate", "store", "drop", "forget"}
  /\ jAt # "target" => jDay \in jLeft
  /\ jAt \in {"rewrite", "write", "aggregate", "store"} => plan.scope.byFile
  /\ jAt \in {"drop", "forget"} => ~plan.scope.byFile
  /\ ~plan.scope.byFile => jLeft \subseteq plan.scope.days
  /\ jAt = "write" => jSaw.records = shard[jDay].records

\* What a deletion previewed stays confirmed, so nothing appends it again, and is
\* gone from the dates the deletion has finished without an error.
Finished(d) == d \notin jLeft \/ (d = jDay /\ jAt \in {"aggregate", "store", "forget"})

DeletionTracked ==
  /\ previewed \subseteq confirmed
  /\ (outcome = "running") = (job = "deletion")
  /\ outcome \in {"planned", "running"} => \A r \in previewed :
       r \in plan.scope.records /\ DayOf[r] \in plan.days
  /\ job = "deletion" /\ ~errors =>
       \A r \in previewed : Finished(DayOf[r]) => ~InShard(r)

LinesEnded == \A d \in Days :
  shard[d].unended = {} /\ (~shard[d].exists => shard[d].records = {})

DataInv ==
  /\ TypeOK /\ QueueFree /\ LinesEnded /\ JobIdle /\ SafeInFiles /\ BatchStored
  /\ RetentionGuarded /\ RebuildGuarded /\ PlanSelects /\ DeletionGuarded
  /\ DeletionTracked /\ CompletedMeansGone
=============================================================================
