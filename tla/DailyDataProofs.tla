-------------------------- MODULE DailyDataProofs --------------------------
(***************************************************************************)
(* No maintenance loses what the tracker has forgotten: for every set of   *)
(* records, dates and files, any retention period and any interleaving of  *)
(* the writer, the services, their failures and crashes.  The two writes   *)
(* that can damage stored records, a rewrite in place that stops half way  *)
(* and an append that loses its last newline, are excluded by hypothesis:  *)
(* with either of them the property is false.                              *)
(***************************************************************************)
EXTENDS DailyData, TLAPS

\* Neither of the two damaging faults.
Sound == "rewrite" \notin Faults /\ "newline" \notin Faults

-----------------------------------------------------------------------------
(* What reads return and what writes leave.                                *)

\* A read returns typed records; without diagnostics, exactly the shard's.
LEMMA ReadOutcome ==
  ASSUME shard \in [Days -> Shard], NEW d \in Days, NEW got \in ReadsOf(d)
  PROVE  /\ got \in Reading
         /\ ~got.damaged => got.records = shard[d].records
<1>1. shard[d] \in Shard
  OBVIOUS
<1>2. CASE got = [records |-> shard[d].records, damaged |-> shard[d].damaged]
  BY <1>1, <1>2 DEF Shard, Reading
<1>3. CASE got = Unreadable
  BY <1>3 DEF Unreadable, Reading
<1> QED
  BY <1>2, <1>3 DEF ReadsOf

\* A shard whose last line is complete only grows by an append, whole or not.
LEMMA AppendOutcome ==
  ASSUME shard \in [Days -> Shard], NEW d \in Days, NEW new \in SUBSET Records,
         shard[d].unended = {}, ~shard[d].exists => shard[d].records = {},
         NEW after \in Appended(d, new) \cup Interrupted(d, new)
  PROVE  /\ after \in Shard
         /\ shard[d].records \subseteq after.records
         /\ after.records \subseteq shard[d].records \cup new
         /\ after.unended = {}
         /\ ~after.exists => after.records = {}
         /\ after \in Appended(d, new) => new \subseteq after.records
<1>1. \A some \in SUBSET Records : \A s \in Appended(d, some) :
        /\ s \in Shard /\ s.exists /\ s.unended = {}
        /\ s.records = shard[d].records \cup some
  <2> SUFFICES ASSUME NEW some \in SUBSET Records, NEW s \in Appended(d, some)
               PROVE  /\ s \in Shard /\ s.exists /\ s.unended = {}
                      /\ s.records = shard[d].records \cup some
    OBVIOUS
  <2> DEFINE all == shard[d].records \cup some
             broken == shard[d].damaged \/ some \cap shard[d].records # {}
  <2>1. shard[d] \in Shard
    OBVIOUS
  <2>2. all \in SUBSET Records /\ broken \in BOOLEAN
    BY <2>1 DEF Shard
  <2>3. Appended(d, some) = {Lines(all, broken, {})}
    BY DEF Appended
  <2>4. s = [exists |-> TRUE, records |-> all, damaged |-> broken, unended |-> {}]
    BY <2>3 DEF Lines
  <2> HIDE DEF all, broken
  <2>5. s \in Shard /\ s.exists /\ s.unended = {} /\ s.records = all
    BY <2>2, <2>4 DEF Shard
  <2> QED
    BY <2>5 DEF all
<1>2. CASE after \in Appended(d, new)
  BY <1>1, <1>2
<1>3. CASE after \in Interrupted(d, new)
  <2> DEFINE part == UNION {Appended(d, some) : some \in SUBSET new \ {{}}}
  <2>1. \A s \in part : /\ s \in Shard /\ s.exists /\ s.unended = {}
                        /\ shard[d].records \subseteq s.records
                        /\ s.records \subseteq shard[d].records \cup new
    BY <1>1
  <2>2. CASE after = shard[d]
    BY <1>1, <2>2
  <2>3. CASE after = Lines(shard[d].records \ shard[d].unended, TRUE, {})
    BY <1>1, <2>3 DEF Lines, Shard
  <2>4. CASE after \in part
    BY <1>1, <2>1, <2>4
  <2>5. CASE \E s \in part : after = [s EXCEPT !.damaged = TRUE]
    <3>1. PICK s \in part : after = [s EXCEPT !.damaged = TRUE]
      BY <2>5
    <3>2. /\ s \in Shard /\ s.exists /\ s.unended = {} /\ shard[d].records \subseteq s.records
          /\ s.records \subseteq shard[d].records \cup new
      BY <2>1, <3>1
    <3> HIDE DEF part
    <3>3. /\ after \in Shard /\ after.exists /\ after.unended = {}
          /\ after.records = s.records
      BY <3>1, <3>2 DEF Shard
    <3> QED
      BY <1>1, <3>2, <3>3
  <2>6. after \in {shard[d], Lines(shard[d].records \ shard[d].unended, TRUE, {})}
                   \cup part \cup {[s EXCEPT !.damaged = TRUE] : s \in part}
    BY <1>3, Zenon DEF Interrupted
  <2> HIDE DEF part
  <2>7. \/ after = shard[d]
        \/ after = Lines(shard[d].records \ shard[d].unended, TRUE, {})
        \/ after \in part
        \/ \E s \in part : after = [s EXCEPT !.damaged = TRUE]
    BY <2>6, Zenon
  <2> QED
    BY <2>2, <2>3, <2>4, <2>5, <2>7, Zenon
<1> QED
  BY <1>2, <1>3

\* A save that succeeds or throws touches one summary and keeps it a summary.
LEMMA SaveOutcome ==
  ASSUME summary \in [Days -> Summary], NEW d \in Days, NEW S \in SUBSET Records,
         Save(d, S) \/ SaveThrows(d, S)
  PROVE  /\ summary' \in [Days -> Summary]
         /\ \A e \in Days \ {d} : summary'[e] = summary[e]
<1>1. PICK after \in {summary[d], Loaded(S), CorruptSummary} :
        summary' = [summary EXCEPT ![d] = after]
  BY DEF Save, SaveThrows
<1>2. Loaded(S) \in Summary /\ CorruptSummary \in Summary
  BY DEF Loaded, CorruptSummary, Summary
<1>3. after \in Summary
  BY <1>1, <1>2
<1> QED
  BY <1>1, <1>3

\* Every read of a reachable state.
LEMMA ReadTyped ==
  ASSUME DataInv
  PROVE  \A d \in Days : \A got \in ReadsOf(d) :
           /\ got \in Reading /\ got.records \subseteq Records
           /\ ~got.damaged => got.records = shard[d].records
<1>1. shard \in [Days -> Shard]
  BY DEF DataInv, TypeOK, FilesType
<1>2. \A got \in Reading : got.records \subseteq Records
  BY DEF Reading
<1> QED
  BY <1>1, <1>2, ReadOutcome

\* Where the records and the writer are.
LEMMA Places ==
  ASSUME DataInv
  PROVE  /\ \A r \in Records : DayOf[r] \in Days
         /\ Days \subseteq Nat /\ today \in Nat
         /\ confirmed \subseteq Records /\ due \subseteq Records /\ batch \subseteq Records
         /\ wAt \in {"append", "rebuild", "save"} =>
              wDay \in Days /\ wDay \in wLeft /\ wDay \in Protected
         /\ wLeft \subseteq Protected
<1>1. \A r \in Records : DayOf[r] \in Days
  BY DayFilesAssumption DEF Days
<1>2. Days \subseteq Nat
  BY DayFilesAssumption DEF Days
<1>3. /\ confirmed \subseteq Records /\ due \subseteq Records /\ batch \subseteq Records
      /\ today \in Days /\ wDay \in Days
  BY DEF DataInv, TypeOK, TrackerType, WriterType
<1>4. wLeft \subseteq Protected
  BY DEF DataInv, BatchStored, Protected
<1> QED
  BY <1>1, <1>2, <1>3, <1>4 DEF DataInv, BatchStored

\* What the append of a date leaves in the shards.
LEMMA AppendEffect ==
  ASSUME DataInv, Sound, FinishAppend \/ AppendThrows
  PROVE  /\ wAt = "append" /\ wDay \in Days /\ wDay \in wLeft
         /\ shard' \in [Days -> Shard]
         /\ \A d \in Days \ {wDay} : shard'[d] = shard[d]
         /\ \A d \in Days : /\ shard[d].records \subseteq shard'[d].records
                            /\ shard'[d].records \subseteq shard[d].records \cup batch
         /\ LinesEnded'
         /\ FinishAppend => New \subseteq shard'[wDay].records
<1>1. /\ wAt = "append" /\ wDay \in Days /\ wDay \in wLeft
      /\ shard \in [Days -> Shard] /\ LinesEnded
  BY DEF FinishAppend, AppendThrows, DataInv, TypeOK, FilesType, WriterType, BatchStored
<1>2. New \in SUBSET Records /\ New \subseteq batch
  BY DEF DataInv, TypeOK, WriterType, New, OnDay
<1>3. PICK after \in Appended(wDay, New) \cup Interrupted(wDay, New) :
        /\ shard' = [shard EXCEPT ![wDay] = after]
        /\ FinishAppend => after \in Appended(wDay, New)
  BY <1>1 DEF FinishAppend, AppendThrows, Sound
<1>4. /\ after \in Shard /\ shard[wDay].records \subseteq after.records
      /\ after.records \subseteq shard[wDay].records \cup New
      /\ after.unended = {} /\ (~after.exists => after.records = {})
      /\ after \in Appended(wDay, New) => New \subseteq after.records
  BY <1>1, <1>2, AppendOutcome DEF LinesEnded
<1>5. shard' \in [Days -> Shard]
  BY <1>1, <1>3, <1>4
<1>6. \A d \in Days : shard'[d] = IF d = wDay THEN after ELSE shard[d]
  BY <1>1, <1>3
<1> QED
  BY <1>1, <1>2, <1>3, <1>4, <1>5, <1>6 DEF LinesEnded

\* What a rewrite leaves in the shards.
LEMMA RewriteEffect ==
  ASSUME DataInv, Sound, FinishRewrite
  PROVE  /\ jDay \in Days /\ jDay \in jLeft /\ plan.scope.byFile
         /\ shard' \in [Days -> Shard]
         /\ \A d \in Days \ {jDay} : shard'[d] = shard[d]
         /\ shard'[jDay].records = shard[jDay].records \ plan.scope.records
         /\ LinesEnded'
<1>1. /\ job = "deletion" /\ jAt = "write" /\ jDay \in Days /\ jDay \in jLeft
      /\ shard \in [Days -> Shard] /\ LinesEnded /\ jSaw.records = shard[jDay].records
      /\ plan.scope.byFile
  BY DEF FinishRewrite, DataInv, TypeOK, FilesType, CursorType, DeletionGuarded
<1> DEFINE kept == shard[jDay].records \ plan.scope.records
           after == Lines(kept, FALSE, {})
<1>2. Overwritten(kept) = {after}
  BY DEF Overwritten, Sound
<1>3. shard' = [shard EXCEPT ![jDay] = after]
  BY <1>1, <1>2 DEF FinishRewrite, Kept
<1>4. kept \in SUBSET Records
  BY <1>1 DEF Shard
<1>5. /\ after \in Shard /\ after.records = kept /\ after.exists /\ after.unended = {}
  BY <1>4 DEF Lines, Shard
<1> HIDE DEF after
<1>6. shard' \in [Days -> Shard]
  BY <1>1, <1>3, <1>5
<1>7. \A d \in Days : shard'[d] = IF d = jDay THEN after ELSE shard[d]
  BY <1>1, <1>3
<1> QED
  BY <1>1, <1>5, <1>6, <1>7 DEF LinesEnded

\* The values a step resets to are typed.
LEMMA Resets ==
  /\ Nothing \in Reading /\ NoSummary \in Summary /\ NoShard \in Shard /\ 0 \in Days
  /\ NoPlan.scope \in Scope /\ NoPlan.days \subseteq Days
  BY DayFilesAssumption DEF Nothing, Reading, NoSummary, Summary, NoShard, Shard, Days,
       NoPlan, Scope

\* The tracker and the writer leave the services alone.
LEMMA TrackerFrame ==
  ASSUME \/ Tick \/ (\E r \in Records : Produce(r))
         \/ (\E b \in SUBSET Records : HandOver(b)) \/ WriterStep
  PROVE  UNCHANGED service
  BY DEF Tick, Produce, HandOver, WriterStep, BeginAppend, FinishAppend, AppendThrows,
       Aggregate, SaveSummary, Reject, DayStored, service

\* The services leave the tracker and the writer alone.
LEMMA ServiceFrame ==
  ASSUME \/ StartRetention \/ StartRebuild \/ (\E scope \in Scopes : MakePlan(scope))
         \/ Execute \/ JobStep
  PROVE  UNCHANGED <<tracker, writer>>
  BY DEF StartRetention, StartRebuild, MakePlan, Execute, JobStep, RetentionStep,
       RebuildStep, DeletionStep, LoadVerified, Compare, RemoveExpired, LoadExisting,
       Recompute, Replace, Target, BeginRewrite, FinishRewrite, AggregateKept,
       ReplaceKept, DropShard, ForgetSummary

\* A removal empties one shard or, when it fails, none.
LEMMA RemoveEffect ==
  ASSUME DataInv, RemoveExpired \/ DropShard
  PROVE  /\ jDay \in Days /\ jDay \in jLeft /\ summary' = summary
         /\ \A d \in Days \ {jDay} : shard'[d] = shard[d]
         /\ \/ shard' = shard
            \/ ~shard'[jDay].exists /\ shard'[jDay].records = {} /\ shard'[jDay].unended = {}
<1>1. /\ jDay \in Days /\ jDay \in jLeft /\ shard \in [Days -> Shard]
  BY DEF RemoveExpired, DropShard, DataInv, TypeOK, FilesType, CursorType,
     RetentionGuarded, DeletionGuarded
<1>2. /\ summary' = summary
      /\ shard' = shard \/ shard' = [shard EXCEPT ![jDay] = NoShard]
  BY DEF RemoveExpired, DropShard, RemoveShard, files
<1> QED
  BY <1>1, <1>2 DEF NoShard

\* A service at work goes on with fewer dates and the same plan, or ends.
LEMMA Onward ==
  ASSUME \/ Compare \/ RemoveExpired \/ Recompute \/ Replace
         \/ FinishRewrite \/ ReplaceKept \/ DropShard \/ ForgetSummary
  PROVE  /\ job' = "none" \/ (job' = job /\ jLeft' \subseteq jLeft)
         /\ job' = "deletion" => plan' = plan
         /\ UNCHANGED <<today, due, confirmed>>
  BY DEF Compare, RemoveExpired, Recompute, Replace, FinishRewrite, ReplaceKept, DropShard,
     ForgetSummary, Settle, NextDate, tracker, deletion

\* A date stays settled while its shard stays away and the service goes on.
LEMMA StaysSettled ==
  ASSUME job' = "none" \/ (job' = job /\ jLeft' \subseteq jLeft),
         job' = "deletion" => plan' = plan,
         UNCHANGED <<today, due>>,
         NEW d \in Days, Settled(d), ~shard'[d].exists
  PROVE  Settled(d)'
  BY DEF Settled, Protected

-----------------------------------------------------------------------------
(* One lemma for each part of the inductive invariant, by action.          *)

\* Shards stay shards, summaries stay summaries.
LEMMA KeepsFilesType ==
  ASSUME DataInv, Sound, Next
  PROVE  FilesType'
<1>1. CASE Tick
  BY <1>1, Resets, ReadTyped
     DEF Tick, files, tracker, writer, service, cursor, deletion, TypeOK,
      FilesType, DataInv
<1>2. ASSUME NEW r \in Records, Produce(r) PROVE FilesType'
  BY <1>2, Resets, ReadTyped
     DEF Produce, files, tracker, writer, service, cursor, deletion, TypeOK,
      FilesType, DataInv
<1>3. ASSUME NEW b \in SUBSET Records, HandOver(b) PROVE FilesType'
  BY <1>3, Resets, ReadTyped
     DEF HandOver, files, tracker, writer, service, cursor, deletion, TypeOK,
      FilesType, DataInv
<1>4. ASSUME NEW d \in Days, BeginAppend(d) PROVE FilesType'
  BY <1>4, Resets, ReadTyped
     DEF BeginAppend, Reject, Acquire, files, tracker, writer, service, cursor,
      deletion, TypeOK, FilesType, CursorType, DataInv
<1>5. CASE FinishAppend
  BY <1>5, Resets, ReadTyped, AppendEffect
     DEF FinishAppend, Release, files, tracker, writer, service, cursor, deletion,
      TypeOK, FilesType, DataInv
<1>6. CASE AppendThrows
  BY <1>6, Resets, ReadTyped, AppendEffect
     DEF AppendThrows, Release, Reject, files, tracker, writer, service, cursor,
      deletion, TypeOK, FilesType, DataInv
<1>7. CASE Aggregate
  BY <1>7, Resets, ReadTyped
     DEF Aggregate, DayStored, files, tracker, writer, service, cursor, deletion,
      TypeOK, FilesType, DataInv
<1>8. CASE SaveSummary
  BY <1>8, Resets, ReadTyped, SaveOutcome, wSaw.records \in SUBSET Records
     DEF SaveSummary, DayStored, Reject, files, tracker, writer, service, cursor,
      deletion, TypeOK, FilesType, WriterType, Reading, DataInv
<1>9. CASE StartRetention
  BY <1>9, Resets, ReadTyped
     DEF StartRetention, Start, Expired, Present, files, tracker, writer, service,
      cursor, deletion, TypeOK, FilesType, DataInv
<1>10. ASSUME NEW d \in Days, LoadVerified(d) PROVE FilesType'
  BY <1>10, Resets, ReadTyped
     DEF LoadVerified, files, tracker, writer, service, cursor, deletion, TypeOK,
      FilesType, DataInv
<1>11. CASE Compare
  BY <1>11, Resets, ReadTyped
     DEF Compare, NextDate, files, tracker, writer, service, cursor, deletion,
      TypeOK, FilesType, DataInv
<1>12. CASE RemoveExpired
  BY <1>12, Resets, ReadTyped
     DEF RemoveExpired, RemoveShard, NextDate, files, tracker, writer, service,
      cursor, deletion, TypeOK, FilesType, CursorType, DataInv
<1>13. CASE StartRebuild
  BY <1>13, Resets, ReadTyped
     DEF StartRebuild, Start, Present, files, tracker, writer, service, cursor,
      deletion, TypeOK, FilesType, DataInv
<1>14. ASSUME NEW d \in Days, LoadExisting(d) PROVE FilesType'
  BY <1>14, Resets, ReadTyped
     DEF LoadExisting, files, tracker, writer, service, cursor, deletion, TypeOK,
      FilesType, DataInv
<1>15. CASE Recompute
  BY <1>15, Resets, ReadTyped
     DEF Recompute, NextDate, files, tracker, writer, service, cursor, deletion,
      TypeOK, FilesType, DataInv
<1>16. CASE Replace
  BY <1>16, Resets, ReadTyped, SaveOutcome, jSaw.records \in SUBSET Records
     DEF Replace, NextDate, files, tracker, writer, service, cursor, deletion,
      TypeOK, FilesType, CursorType, Reading, DataInv
<1>17. ASSUME NEW scope \in Scopes, MakePlan(scope) PROVE FilesType'
  BY <1>17, Resets, ReadTyped
     DEF MakePlan, files, tracker, writer, service, cursor, deletion, TypeOK,
      FilesType, DataInv
<1>18. CASE Execute
  BY <1>18, Resets, ReadTyped
     DEF Execute, Start, files, tracker, writer, service, cursor, deletion,
      TypeOK, FilesType, DataInv
<1>19. ASSUME NEW d \in Days, Target(d) PROVE FilesType'
  BY <1>19, Resets, ReadTyped
     DEF Target, Drift, files, tracker, writer, service, cursor, deletion, TypeOK,
      FilesType, DataInv
<1>20. CASE BeginRewrite
  BY <1>20, Resets, ReadTyped
     DEF BeginRewrite, Settle, Result, NextDate, Acquire, files, tracker, writer,
      service, cursor, deletion, TypeOK, FilesType, CursorType, DataInv
<1>21. CASE FinishRewrite
  BY <1>21, Resets, ReadTyped, RewriteEffect
     DEF FinishRewrite, Settle, Result, NextDate, Release, files, tracker, writer,
      service, cursor, deletion, TypeOK, FilesType, DataInv
<1>22. CASE AggregateKept
  BY <1>22, Resets, ReadTyped
     DEF AggregateKept, Settle, Result, NextDate, files, tracker, writer, service,
      cursor, deletion, TypeOK, FilesType, DataInv
<1>23. CASE ReplaceKept
  BY <1>23, Resets, ReadTyped, SaveOutcome, jSaw.records \in SUBSET Records
     DEF ReplaceKept, Settle, Result, NextDate, files, tracker, writer, service,
      cursor, deletion, TypeOK, FilesType, CursorType, Reading, DataInv
<1>24. CASE DropShard
  BY <1>24, Resets, ReadTyped
     DEF DropShard, Settle, Result, NextDate, RemoveShard, files, tracker, writer,
      service, cursor, deletion, TypeOK, FilesType, CursorType, DataInv
<1>25. CASE ForgetSummary
  BY <1>25, Resets, ReadTyped
     DEF ForgetSummary, Settle, Result, NextDate, files, tracker, writer, service,
      cursor, deletion, TypeOK, FilesType, RemoveShard, CursorType, DataInv
<1>26. CASE Crash
  BY <1>26, Resets, ReadTyped
     DEF Crash, files, tracker, writer, service, cursor, deletion, TypeOK,
      FilesType, DataInv
<1> QED
  BY <1>1, <1>2, <1>3, <1>4, <1>5, <1>6, <1>7, <1>8, <1>9, <1>10, <1>11,
      <1>12, <1>13, <1>14, <1>15, <1>16, <1>17, <1>18, <1>19, <1>20, <1>21,
      <1>22, <1>23, <1>24, <1>25, <1>26
     DEF Next, WriterStep, JobStep, RetentionStep, RebuildStep, DeletionStep

\* The tracker's records stay records.
LEMMA KeepsTrackerType ==
  ASSUME DataInv, Sound, Next
  PROVE  TrackerType'
<1>1. CASE Tick
  BY <1>1, DayFilesAssumption
     DEF Tick, files, tracker, writer, service, cursor, deletion, TypeOK,
      TrackerType, Days, DataInv
<1>2. ASSUME NEW r \in Records, Produce(r) PROVE TrackerType'
  BY <1>2, Resets, ReadTyped
     DEF Produce, files, tracker, writer, service, cursor, deletion, TypeOK,
      TrackerType, DataInv
<1>3. ASSUME NEW b \in SUBSET Records, HandOver(b) PROVE TrackerType'
  BY <1>3, Resets, ReadTyped
     DEF HandOver, files, tracker, writer, service, cursor, deletion, TypeOK,
      TrackerType, DataInv
<1>4. ASSUME NEW d \in Days, BeginAppend(d) PROVE TrackerType'
  BY <1>4, Resets, ReadTyped
     DEF BeginAppend, Reject, Acquire, files, tracker, writer, service, cursor,
      deletion, TypeOK, TrackerType, DataInv
<1>5. CASE FinishAppend
  BY <1>5, Resets, ReadTyped
     DEF FinishAppend, Release, files, tracker, writer, service, cursor, deletion,
      TypeOK, TrackerType, DataInv
<1>6. CASE AppendThrows
  BY <1>6, Resets, ReadTyped
     DEF AppendThrows, Release, Reject, files, tracker, writer, service, cursor,
      deletion, TypeOK, TrackerType, DataInv
<1>7. CASE Aggregate
  BY <1>7 DEF Aggregate, DayStored, files, tracker, writer, service, cursor, deletion,
      TypeOK, TrackerType, WriterType, DataInv
<1>8. CASE SaveSummary
  BY <1>8 DEF SaveSummary, DayStored, Reject, files, tracker, writer, service, cursor,
      deletion, TypeOK, TrackerType, WriterType, DataInv
<1>9. CASE StartRetention
  BY <1>9, Resets, ReadTyped
     DEF StartRetention, Start, Expired, Present, files, tracker, writer, service,
      cursor, deletion, TypeOK, TrackerType, DataInv
<1>10. ASSUME NEW d \in Days, LoadVerified(d) PROVE TrackerType'
  BY <1>10, Resets, ReadTyped
     DEF LoadVerified, files, tracker, writer, service, cursor, deletion, TypeOK,
      TrackerType, DataInv
<1>11. CASE Compare
  BY <1>11, Resets, ReadTyped
     DEF Compare, NextDate, files, tracker, writer, service, cursor, deletion,
      TypeOK, TrackerType, DataInv
<1>12. CASE RemoveExpired
  BY <1>12, Resets, ReadTyped
     DEF RemoveExpired, RemoveShard, NextDate, files, tracker, writer, service,
      cursor, deletion, TypeOK, TrackerType, DataInv
<1>13. CASE StartRebuild
  BY <1>13, Resets, ReadTyped
     DEF StartRebuild, Start, Present, files, tracker, writer, service, cursor,
      deletion, TypeOK, TrackerType, DataInv
<1>14. ASSUME NEW d \in Days, LoadExisting(d) PROVE TrackerType'
  BY <1>14, Resets, ReadTyped
     DEF LoadExisting, files, tracker, writer, service, cursor, deletion, TypeOK,
      TrackerType, DataInv
<1>15. CASE Recompute
  BY <1>15, Resets, ReadTyped
     DEF Recompute, NextDate, files, tracker, writer, service, cursor, deletion,
      TypeOK, TrackerType, DataInv
<1>16. CASE Replace
  BY <1>16, Resets, ReadTyped
     DEF Replace, NextDate, files, tracker, writer, service, cursor, deletion,
      TypeOK, TrackerType, DataInv
<1>17. ASSUME NEW scope \in Scopes, MakePlan(scope) PROVE TrackerType'
  BY <1>17, Resets, ReadTyped
     DEF MakePlan, files, tracker, writer, service, cursor, deletion, TypeOK,
      TrackerType, DataInv
<1>18. CASE Execute
  BY <1>18, Resets, ReadTyped
     DEF Execute, Start, files, tracker, writer, service, cursor, deletion,
      TypeOK, TrackerType, DataInv
<1>19. ASSUME NEW d \in Days, Target(d) PROVE TrackerType'
  BY <1>19, Resets, ReadTyped
     DEF Target, Drift, files, tracker, writer, service, cursor, deletion, TypeOK,
      TrackerType, DataInv
<1>20. CASE BeginRewrite
  BY <1>20, Resets, ReadTyped
     DEF BeginRewrite, Settle, Result, NextDate, Acquire, files, tracker, writer,
      service, cursor, deletion, TypeOK, TrackerType, DataInv
<1>21. CASE FinishRewrite
  BY <1>21 DEF FinishRewrite, Settle, Result, NextDate, Release, files, tracker, writer,
      service, cursor, deletion, TypeOK, TrackerType, Kept, CursorType,
      Reading, DataInv
<1>22. CASE AggregateKept
  BY <1>22, Resets, ReadTyped
     DEF AggregateKept, Settle, Result, NextDate, files, tracker, writer, service,
      cursor, deletion, TypeOK, TrackerType, DataInv
<1>23. CASE ReplaceKept
  BY <1>23, Resets, ReadTyped
     DEF ReplaceKept, Settle, Result, NextDate, files, tracker, writer, service,
      cursor, deletion, TypeOK, TrackerType, DataInv
<1>24. CASE DropShard
  BY <1>24 DEF DropShard, Settle, Result, NextDate, RemoveShard, files, tracker, writer,
      service, cursor, deletion, TypeOK, TrackerType, FilesType, CursorType,
      Shard, DataInv
<1>25. CASE ForgetSummary
  BY <1>25 DEF ForgetSummary, Settle, Result, NextDate, files, tracker, writer, service,
      cursor, deletion, TypeOK, TrackerType, FilesType, CursorType, Summary,
      DataInv
<1>26. CASE Crash
  BY <1>26, Resets, ReadTyped
     DEF Crash, files, tracker, writer, service, cursor, deletion, TypeOK,
      TrackerType, DataInv
<1> QED
  BY <1>1, <1>2, <1>3, <1>4, <1>5, <1>6, <1>7, <1>8, <1>9, <1>10, <1>11,
      <1>12, <1>13, <1>14, <1>15, <1>16, <1>17, <1>18, <1>19, <1>20, <1>21,
      <1>22, <1>23, <1>24, <1>25, <1>26
     DEF Next, WriterStep, JobStep, RetentionStep, RebuildStep, DeletionStep

\* The writer's state keeps its type.
LEMMA KeepsWriterType ==
  ASSUME DataInv, Sound, Next
  PROVE  WriterType'
<1>1. CASE \/ StartRetention \/ StartRebuild \/ (\E scope \in Scopes : MakePlan(scope))
            \/ Execute \/ JobStep
  BY <1>1, ServiceFrame DEF tracker, writer, DataInv, TypeOK, WriterType
<1>2. CASE Tick
  BY <1>2, Resets, ReadTyped
     DEF Tick, files, tracker, writer, service, cursor, deletion, TypeOK,
      WriterType, DataInv
<1>3. ASSUME NEW r \in Records, Produce(r) PROVE WriterType'
  BY <1>3, Resets, ReadTyped
     DEF Produce, files, tracker, writer, service, cursor, deletion, TypeOK,
      WriterType, DataInv
<1>4. ASSUME NEW b \in SUBSET Records, HandOver(b) PROVE WriterType'
  BY <1>4, DayFilesAssumption
     DEF HandOver, files, tracker, writer, service, cursor, deletion, TypeOK,
      WriterType, TrackerType, Days, DataInv
<1>5. ASSUME NEW d \in Days, BeginAppend(d) PROVE WriterType'
  BY <1>5, Resets, ReadTyped
     DEF BeginAppend, Reject, Acquire, files, tracker, writer, service, cursor,
      deletion, TypeOK, WriterType, DataInv
<1>6. CASE FinishAppend
  BY <1>6, Resets, ReadTyped
     DEF FinishAppend, Release, files, tracker, writer, service, cursor, deletion,
      TypeOK, WriterType, DataInv
<1>7. CASE AppendThrows
  BY <1>7, Resets, ReadTyped
     DEF AppendThrows, Release, Reject, files, tracker, writer, service, cursor,
      deletion, TypeOK, WriterType, DataInv
<1>8. CASE Aggregate
  BY <1>8, Resets, ReadTyped
     DEF Aggregate, DayStored, files, tracker, writer, service, cursor, deletion,
      TypeOK, WriterType, DataInv
<1>9. CASE SaveSummary
  BY <1>9, Resets, ReadTyped
     DEF SaveSummary, DayStored, Reject, files, tracker, writer, service, cursor,
      deletion, TypeOK, WriterType, DataInv
<1>10. CASE Crash
  BY <1>10, Resets, ReadTyped
     DEF Crash, files, tracker, writer, service, cursor, deletion, TypeOK,
      WriterType, DataInv
<1> QED
  BY <1>1, <1>2, <1>3, <1>4, <1>5, <1>6, <1>7, <1>8, <1>9, <1>10
     DEF Next, WriterStep, JobStep, RetentionStep, RebuildStep, DeletionStep

\* The position of a service keeps its type.
LEMMA KeepsCursorType ==
  ASSUME DataInv, Sound, Next
  PROVE  CursorType'
<1>1. CASE \/ Tick \/ (\E r \in Records : Produce(r))
            \/ (\E b \in SUBSET Records : HandOver(b)) \/ WriterStep
  BY <1>1, TrackerFrame DEF service, cursor, deletion, DataInv, TypeOK, CursorType
<1>2. CASE StartRetention
  BY <1>2, Resets, ReadTyped
     DEF StartRetention, Start, Expired, Present, files, tracker, writer, service,
      cursor, deletion, TypeOK, CursorType, DataInv
<1>3. ASSUME NEW d \in Days, LoadVerified(d) PROVE CursorType'
  BY <1>3 DEF LoadVerified, files, tracker, writer, service, cursor, deletion, TypeOK,
      CursorType, FilesType, LoadsOf, CorruptSummary, Summary, DataInv
<1>4. CASE Compare
  BY <1>4, Resets, ReadTyped
     DEF Compare, NextDate, files, tracker, writer, service, cursor, deletion,
      TypeOK, CursorType, DataInv
<1>5. CASE RemoveExpired
  BY <1>5, Resets, ReadTyped
     DEF RemoveExpired, RemoveShard, NextDate, files, tracker, writer, service,
      cursor, deletion, TypeOK, CursorType, DataInv
<1>6. CASE StartRebuild
  BY <1>6, Resets, ReadTyped
     DEF StartRebuild, Start, Present, files, tracker, writer, service, cursor,
      deletion, TypeOK, CursorType, DataInv
<1>7. ASSUME NEW d \in Days, LoadExisting(d) PROVE CursorType'
  BY <1>7 DEF LoadExisting, files, tracker, writer, service, cursor, deletion, TypeOK,
      CursorType, FilesType, LoadsOf, CorruptSummary, Summary, DataInv
<1>8. CASE Recompute
  BY <1>8, Resets, ReadTyped
     DEF Recompute, NextDate, files, tracker, writer, service, cursor, deletion,
      TypeOK, CursorType, DataInv
<1>9. CASE Replace
  BY <1>9, Resets, ReadTyped
     DEF Replace, NextDate, files, tracker, writer, service, cursor, deletion,
      TypeOK, CursorType, DataInv
<1>10. ASSUME NEW scope \in Scopes, MakePlan(scope) PROVE CursorType'
  BY <1>10, Resets, ReadTyped
     DEF MakePlan, files, tracker, writer, service, cursor, deletion, TypeOK,
      CursorType, DataInv
<1>11. CASE Execute
  BY <1>11 DEF Execute, Start, files, tracker, writer, service, cursor, deletion,
      TypeOK, CursorType, DeletionType, DataInv
<1>12. ASSUME NEW d \in Days, Target(d) PROVE CursorType'
  BY <1>12, Resets, ReadTyped
     DEF Target, Drift, files, tracker, writer, service, cursor, deletion, TypeOK,
      CursorType, DataInv
<1>13. CASE BeginRewrite
  BY <1>13, Resets, ReadTyped
     DEF BeginRewrite, Settle, Result, NextDate, Acquire, files, tracker, writer,
      service, cursor, deletion, TypeOK, CursorType, DataInv
<1>14. CASE FinishRewrite
  BY <1>14, Resets, ReadTyped
     DEF FinishRewrite, Settle, Result, NextDate, Release, files, tracker, writer,
      service, cursor, deletion, TypeOK, CursorType, DataInv
<1>15. CASE AggregateKept
  BY <1>15, Resets, ReadTyped
     DEF AggregateKept, Settle, Result, NextDate, files, tracker, writer, service,
      cursor, deletion, TypeOK, CursorType, DataInv
<1>16. CASE ReplaceKept
  BY <1>16, Resets, ReadTyped
     DEF ReplaceKept, Settle, Result, NextDate, files, tracker, writer, service,
      cursor, deletion, TypeOK, CursorType, DataInv
<1>17. CASE DropShard
  BY <1>17, Resets, ReadTyped
     DEF DropShard, Settle, Result, NextDate, RemoveShard, files, tracker, writer,
      service, cursor, deletion, TypeOK, CursorType, DataInv
<1>18. CASE ForgetSummary
  BY <1>18, Resets, ReadTyped
     DEF ForgetSummary, Settle, Result, NextDate, files, tracker, writer, service,
      cursor, deletion, TypeOK, CursorType, DataInv
<1>19. CASE Crash
  BY <1>19, Resets, ReadTyped
     DEF Crash, files, tracker, writer, service, cursor, deletion, TypeOK,
      CursorType, DataInv
<1> QED
  BY <1>1, <1>2, <1>3, <1>4, <1>5, <1>6, <1>7, <1>8, <1>9, <1>10, <1>11,
      <1>12, <1>13, <1>14, <1>15, <1>16, <1>17, <1>18, <1>19
     DEF Next, WriterStep, JobStep, RetentionStep, RebuildStep, DeletionStep

\* The deletion's state keeps its type.
LEMMA KeepsDeletionType ==
  ASSUME DataInv, Sound, Next
  PROVE  DeletionType'
<1>1. CASE \/ Tick \/ (\E r \in Records : Produce(r))
            \/ (\E b \in SUBSET Records : HandOver(b)) \/ WriterStep
  BY <1>1, TrackerFrame DEF service, cursor, deletion, DataInv, TypeOK, DeletionType
<1>2. CASE StartRetention
  BY <1>2, Resets, ReadTyped
     DEF StartRetention, Start, Expired, Present, files, tracker, writer, service,
      cursor, deletion, TypeOK, DeletionType, DataInv
<1>3. ASSUME NEW d \in Days, LoadVerified(d) PROVE DeletionType'
  BY <1>3, Resets, ReadTyped
     DEF LoadVerified, files, tracker, writer, service, cursor, deletion, TypeOK,
      DeletionType, DataInv
<1>4. CASE Compare
  BY <1>4, Resets, ReadTyped
     DEF Compare, NextDate, files, tracker, writer, service, cursor, deletion,
      TypeOK, DeletionType, DataInv
<1>5. CASE RemoveExpired
  BY <1>5, Resets, ReadTyped
     DEF RemoveExpired, RemoveShard, NextDate, files, tracker, writer, service,
      cursor, deletion, TypeOK, DeletionType, DataInv
<1>6. CASE StartRebuild
  BY <1>6, Resets, ReadTyped
     DEF StartRebuild, Start, Present, files, tracker, writer, service, cursor,
      deletion, TypeOK, DeletionType, DataInv
<1>7. ASSUME NEW d \in Days, LoadExisting(d) PROVE DeletionType'
  BY <1>7, Resets, ReadTyped
     DEF LoadExisting, files, tracker, writer, service, cursor, deletion, TypeOK,
      DeletionType, DataInv
<1>8. CASE Recompute
  BY <1>8, Resets, ReadTyped
     DEF Recompute, NextDate, files, tracker, writer, service, cursor, deletion,
      TypeOK, DeletionType, DataInv
<1>9. CASE Replace
  BY <1>9, Resets, ReadTyped
     DEF Replace, NextDate, files, tracker, writer, service, cursor, deletion,
      TypeOK, DeletionType, DataInv
<1>10. ASSUME NEW scope \in Scopes, MakePlan(scope) PROVE DeletionType'
  <2>1. scope \in Scope
    <3>1. \A f : FileScope(f) \in Scope
      BY DEF FileScope, Scope
    <3>2. \A d \in Days : DateScope(d) \in Scope
      BY DEF DateScope, Scope, OnDay
    <3>3. Scopes \subseteq Scope
      BY <3>1, <3>2 DEF Scopes
    <3> QED
      BY <3>3
  <2>2. PICK blind \in Blinds : plan' = PlanFor(scope, blind)
    BY <1>10 DEF MakePlan
  <2>3. plan'.scope = scope /\ plan'.days \subseteq Days
    BY <2>1, <2>2 DEF PlanFor, Affected, Present, Scope
  <2>4. /\ outcome' = "planned" /\ touched' = FALSE /\ errors' = FALSE
        /\ previewed' \subseteq confirmed
    BY <1>10 DEF MakePlan
  <2> QED
    BY <2>1, <2>3, <2>4 DEF DeletionType, DataInv, TypeOK, TrackerType
<1>11. CASE Execute
  BY <1>11, Resets
     DEF Execute, Start, files, tracker, writer, service, cursor, deletion,
      TypeOK, DeletionType, DataInv
<1>12. ASSUME NEW d \in Days, Target(d) PROVE DeletionType'
  BY <1>12, Resets, ReadTyped
     DEF Target, Drift, files, tracker, writer, service, cursor, deletion, TypeOK,
      DeletionType, DataInv
<1>13. CASE BeginRewrite
  BY <1>13, Resets, ReadTyped
     DEF BeginRewrite, Settle, Result, NextDate, Acquire, files, tracker, writer,
      service, cursor, deletion, TypeOK, DeletionType, DataInv
<1>14. CASE FinishRewrite
  BY <1>14, Resets, ReadTyped
     DEF FinishRewrite, Settle, Result, NextDate, Release, files, tracker, writer,
      service, cursor, deletion, TypeOK, DeletionType, DataInv
<1>15. CASE AggregateKept
  BY <1>15, Resets, ReadTyped
     DEF AggregateKept, Settle, Result, NextDate, files, tracker, writer, service,
      cursor, deletion, TypeOK, DeletionType, DataInv
<1>16. CASE ReplaceKept
  BY <1>16, Resets, ReadTyped
     DEF ReplaceKept, Settle, Result, NextDate, files, tracker, writer, service,
      cursor, deletion, TypeOK, DeletionType, DataInv
<1>17. CASE DropShard
  BY <1>17, Resets, ReadTyped
     DEF DropShard, Settle, Result, NextDate, RemoveShard, files, tracker, writer,
      service, cursor, deletion, TypeOK, DeletionType, DataInv
<1>18. CASE ForgetSummary
  BY <1>18, Resets, ReadTyped
     DEF ForgetSummary, Settle, Result, NextDate, files, tracker, writer, service,
      cursor, deletion, TypeOK, DeletionType, DataInv
<1>19. CASE Crash
  BY <1>19, Resets, ReadTyped
     DEF Crash, files, tracker, writer, service, cursor, deletion, TypeOK,
      DeletionType, DataInv
<1> QED
  BY <1>1, <1>2, <1>3, <1>4, <1>5, <1>6, <1>7, <1>8, <1>9, <1>10, <1>11,
      <1>12, <1>13, <1>14, <1>15, <1>16, <1>17, <1>18, <1>19
     DEF Next, WriterStep, JobStep, RetentionStep, RebuildStep, DeletionStep

\* The queue of a shard is busy only while a task of it runs.
LEMMA KeepsQueue ==
  ASSUME DataInv, Sound, Next
  PROVE  QueueFree'
<1>1. CASE Tick
  BY <1>1 DEF Tick, files, tracker, writer, service, cursor, deletion, QueueFree,
      TypeOK, CursorType, FilesType, WriterType, JobIdle, BatchStored, DataInv
<1>2. ASSUME NEW r \in Records, Produce(r) PROVE QueueFree'
  BY <1>2 DEF Produce, files, tracker, writer, service, cursor, deletion, QueueFree,
      TypeOK, CursorType, FilesType, WriterType, JobIdle, BatchStored, DataInv
<1>3. ASSUME NEW b \in SUBSET Records, HandOver(b) PROVE QueueFree'
  BY <1>3 DEF HandOver, files, tracker, writer, service, cursor, deletion, QueueFree,
      TypeOK, CursorType, FilesType, WriterType, JobIdle, BatchStored, DataInv
<1>4. ASSUME NEW d \in Days, BeginAppend(d) PROVE QueueFree'
  BY <1>4 DEF BeginAppend, Reject, Acquire, files, tracker, writer, service, cursor,
      deletion, QueueFree, TypeOK, CursorType, FilesType, WriterType, JobIdle,
      BatchStored, DataInv
<1>5. CASE FinishAppend
  BY <1>5, AppendEffect
     DEF FinishAppend, Release, files, tracker, writer, service, cursor, deletion,
      QueueFree, TypeOK, CursorType, FilesType, WriterType, JobIdle,
      BatchStored, DataInv
<1>6. CASE AppendThrows
  BY <1>6, AppendEffect
     DEF AppendThrows, Release, Reject, files, tracker, writer, service, cursor,
      deletion, QueueFree, TypeOK, CursorType, FilesType, WriterType, JobIdle,
      BatchStored, DataInv
<1>7. CASE Aggregate
  BY <1>7 DEF Aggregate, DayStored, files, tracker, writer, service, cursor, deletion,
      QueueFree, TypeOK, CursorType, FilesType, WriterType, JobIdle,
      BatchStored, DataInv
<1>8. CASE SaveSummary
  BY <1>8 DEF SaveSummary, DayStored, Reject, files, tracker, writer, service, cursor,
      deletion, QueueFree, TypeOK, CursorType, FilesType, WriterType, JobIdle,
      BatchStored, DataInv
<1>9. CASE StartRetention
  BY <1>9 DEF StartRetention, Start, Expired, Present, files, tracker, writer, service,
      cursor, deletion, QueueFree, TypeOK, CursorType, FilesType, WriterType,
      JobIdle, BatchStored, DataInv
<1>10. ASSUME NEW d \in Days, LoadVerified(d) PROVE QueueFree'
  BY <1>10 DEF LoadVerified, files, tracker, writer, service, cursor, deletion,
      QueueFree, TypeOK, CursorType, FilesType, WriterType, JobIdle,
      BatchStored, DataInv
<1>11. CASE Compare
  BY <1>11 DEF Compare, NextDate, files, tracker, writer, service, cursor, deletion,
      QueueFree, TypeOK, CursorType, FilesType, WriterType, JobIdle,
      BatchStored, DataInv
<1>12. CASE RemoveExpired
  BY <1>12 DEF RemoveExpired, RemoveShard, NextDate, files, tracker, writer, service,
      cursor, deletion, QueueFree, TypeOK, CursorType, FilesType, WriterType,
      JobIdle, BatchStored, DataInv
<1>13. CASE StartRebuild
  BY <1>13 DEF StartRebuild, Start, Present, files, tracker, writer, service, cursor,
      deletion, QueueFree, TypeOK, CursorType, FilesType, WriterType, JobIdle,
      BatchStored, DataInv
<1>14. ASSUME NEW d \in Days, LoadExisting(d) PROVE QueueFree'
  BY <1>14 DEF LoadExisting, files, tracker, writer, service, cursor, deletion,
      QueueFree, TypeOK, CursorType, FilesType, WriterType, JobIdle,
      BatchStored, DataInv
<1>15. CASE Recompute
  BY <1>15 DEF Recompute, NextDate, files, tracker, writer, service, cursor, deletion,
      QueueFree, TypeOK, CursorType, FilesType, WriterType, JobIdle,
      BatchStored, DataInv
<1>16. CASE Replace
  BY <1>16 DEF Replace, NextDate, files, tracker, writer, service, cursor, deletion,
      QueueFree, TypeOK, CursorType, FilesType, WriterType, JobIdle,
      BatchStored, DataInv
<1>17. ASSUME NEW scope \in Scopes, MakePlan(scope) PROVE QueueFree'
  BY <1>17 DEF MakePlan, files, tracker, writer, service, cursor, deletion, QueueFree,
      TypeOK, CursorType, FilesType, WriterType, JobIdle, BatchStored, DataInv
<1>18. CASE Execute
  BY <1>18 DEF Execute, Start, files, tracker, writer, service, cursor, deletion,
      QueueFree, TypeOK, CursorType, FilesType, WriterType, JobIdle,
      BatchStored, DataInv
<1>19. ASSUME NEW d \in Days, Target(d) PROVE QueueFree'
  BY <1>19 DEF Target, Drift, files, tracker, writer, service, cursor, deletion,
      QueueFree, TypeOK, CursorType, FilesType, WriterType, JobIdle,
      BatchStored, DataInv
<1>20. CASE BeginRewrite
  BY <1>20 DEF BeginRewrite, Settle, Result, NextDate, Acquire, files, tracker, writer,
      service, cursor, deletion, QueueFree, TypeOK, CursorType, FilesType,
      WriterType, JobIdle, BatchStored, DataInv
<1>21. CASE FinishRewrite
  BY <1>21, RewriteEffect
     DEF FinishRewrite, Settle, Result, NextDate, Release, files, tracker, writer,
      service, cursor, deletion, QueueFree, TypeOK, CursorType, FilesType,
      WriterType, JobIdle, BatchStored, DataInv
<1>22. CASE AggregateKept
  BY <1>22 DEF AggregateKept, Settle, Result, NextDate, files, tracker, writer, service,
      cursor, deletion, QueueFree, TypeOK, CursorType, FilesType, WriterType,
      JobIdle, BatchStored, DataInv
<1>23. CASE ReplaceKept
  BY <1>23 DEF ReplaceKept, Settle, Result, NextDate, files, tracker, writer, service,
      cursor, deletion, QueueFree, TypeOK, CursorType, FilesType, WriterType,
      JobIdle, BatchStored, DataInv
<1>24. CASE DropShard
  BY <1>24 DEF DropShard, Settle, Result, NextDate, RemoveShard, files, tracker, writer,
      service, cursor, deletion, QueueFree, TypeOK, CursorType, FilesType,
      WriterType, JobIdle, BatchStored, DataInv
<1>25. CASE ForgetSummary
  BY <1>25 DEF ForgetSummary, Settle, Result, NextDate, files, tracker, writer, service,
      cursor, deletion, QueueFree, TypeOK, CursorType, FilesType, WriterType,
      JobIdle, BatchStored, DataInv
<1>26. CASE Crash
  BY <1>26 DEF Crash, files, tracker, writer, service, cursor, deletion, QueueFree,
      TypeOK, CursorType, FilesType, WriterType, JobIdle, BatchStored, DataInv
<1> QED
  BY <1>1, <1>2, <1>3, <1>4, <1>5, <1>6, <1>7, <1>8, <1>9, <1>10, <1>11,
      <1>12, <1>13, <1>14, <1>15, <1>16, <1>17, <1>18, <1>19, <1>20, <1>21,
      <1>22, <1>23, <1>24, <1>25, <1>26
     DEF Next, WriterStep, JobStep, RetentionStep, RebuildStep, DeletionStep

\* Lines stay complete.
LEMMA KeepsLines ==
  ASSUME DataInv, Sound, Next
  PROVE  LinesEnded'
<1>1. CASE Tick
  BY <1>1 DEF Tick, files, tracker, writer, service, cursor, deletion, LinesEnded,
      DataInv
<1>2. ASSUME NEW r \in Records, Produce(r) PROVE LinesEnded'
  BY <1>2 DEF Produce, files, tracker, writer, service, cursor, deletion, LinesEnded,
      DataInv
<1>3. ASSUME NEW b \in SUBSET Records, HandOver(b) PROVE LinesEnded'
  BY <1>3 DEF HandOver, files, tracker, writer, service, cursor, deletion, LinesEnded,
      DataInv
<1>4. ASSUME NEW d \in Days, BeginAppend(d) PROVE LinesEnded'
  BY <1>4 DEF BeginAppend, Reject, Acquire, files, tracker, writer, service, cursor,
      deletion, LinesEnded, DataInv
<1>5. CASE FinishAppend
  BY <1>5, AppendEffect
     DEF FinishAppend, Release, files, tracker, writer, service, cursor, deletion,
      LinesEnded, DataInv
<1>6. CASE AppendThrows
  BY <1>6, AppendEffect
     DEF AppendThrows, Release, Reject, files, tracker, writer, service, cursor,
      deletion, LinesEnded, DataInv
<1>7. CASE Aggregate
  BY <1>7 DEF Aggregate, DayStored, files, tracker, writer, service, cursor, deletion,
      LinesEnded, DataInv
<1>8. CASE SaveSummary
  BY <1>8 DEF SaveSummary, DayStored, Reject, files, tracker, writer, service, cursor,
      deletion, LinesEnded, DataInv
<1>9. CASE StartRetention
  BY <1>9 DEF StartRetention, Start, Expired, Present, files, tracker, writer, service,
      cursor, deletion, LinesEnded, DataInv
<1>10. ASSUME NEW d \in Days, LoadVerified(d) PROVE LinesEnded'
  BY <1>10 DEF LoadVerified, files, tracker, writer, service, cursor, deletion,
      LinesEnded, DataInv
<1>11. CASE Compare
  BY <1>11 DEF Compare, NextDate, files, tracker, writer, service, cursor, deletion,
      LinesEnded, DataInv
<1>12. CASE RemoveExpired
  <2>1. jDay \in Days /\ shard \in [Days -> Shard] /\ LinesEnded
    BY DEF DataInv, TypeOK, FilesType, CursorType
  <2>2. shard' = shard \/ shard' = [shard EXCEPT ![jDay] = NoShard]
    BY <1>12 DEF RemoveExpired, RemoveShard, files
  <2> QED
    BY <2>1, <2>2 DEF LinesEnded, NoShard
<1>13. CASE StartRebuild
  BY <1>13 DEF StartRebuild, Start, Present, files, tracker, writer, service, cursor,
      deletion, LinesEnded, DataInv
<1>14. ASSUME NEW d \in Days, LoadExisting(d) PROVE LinesEnded'
  BY <1>14 DEF LoadExisting, files, tracker, writer, service, cursor, deletion,
      LinesEnded, DataInv
<1>15. CASE Recompute
  BY <1>15 DEF Recompute, NextDate, files, tracker, writer, service, cursor, deletion,
      LinesEnded, DataInv
<1>16. CASE Replace
  BY <1>16 DEF Replace, NextDate, files, tracker, writer, service, cursor, deletion,
      LinesEnded, DataInv
<1>17. ASSUME NEW scope \in Scopes, MakePlan(scope) PROVE LinesEnded'
  BY <1>17 DEF MakePlan, files, tracker, writer, service, cursor, deletion, LinesEnded,
      DataInv
<1>18. CASE Execute
  BY <1>18 DEF Execute, Start, files, tracker, writer, service, cursor, deletion,
      LinesEnded, DataInv
<1>19. ASSUME NEW d \in Days, Target(d) PROVE LinesEnded'
  BY <1>19 DEF Target, Drift, files, tracker, writer, service, cursor, deletion,
      LinesEnded, DataInv
<1>20. CASE BeginRewrite
  BY <1>20 DEF BeginRewrite, Settle, Result, NextDate, Acquire, files, tracker, writer,
      service, cursor, deletion, LinesEnded, DataInv
<1>21. CASE FinishRewrite
  BY <1>21, RewriteEffect
     DEF FinishRewrite, Settle, Result, NextDate, Release, files, tracker, writer,
      service, cursor, deletion, LinesEnded, DataInv
<1>22. CASE AggregateKept
  BY <1>22 DEF AggregateKept, Settle, Result, NextDate, files, tracker, writer, service,
      cursor, deletion, LinesEnded, DataInv
<1>23. CASE ReplaceKept
  BY <1>23 DEF ReplaceKept, Settle, Result, NextDate, files, tracker, writer, service,
      cursor, deletion, LinesEnded, DataInv
<1>24. CASE DropShard
  <2>1. jDay \in Days /\ shard \in [Days -> Shard] /\ LinesEnded
    BY DEF DataInv, TypeOK, FilesType, CursorType
  <2>2. shard' = shard \/ shard' = [shard EXCEPT ![jDay] = NoShard]
    BY <1>24 DEF DropShard, RemoveShard, files
  <2> QED
    BY <2>1, <2>2 DEF LinesEnded, NoShard
<1>25. CASE ForgetSummary
  BY <1>25 DEF ForgetSummary, Settle, Result, NextDate, files, tracker, writer, service,
      cursor, deletion, LinesEnded, DataInv
<1>26. CASE Crash
  BY <1>26 DEF Crash, files, tracker, writer, service, cursor, deletion, LinesEnded,
      DataInv
<1> QED
  BY <1>1, <1>2, <1>3, <1>4, <1>5, <1>6, <1>7, <1>8, <1>9, <1>10, <1>11,
      <1>12, <1>13, <1>14, <1>15, <1>16, <1>17, <1>18, <1>19, <1>20, <1>21,
      <1>22, <1>23, <1>24, <1>25, <1>26
     DEF Next, WriterStep, JobStep, RetentionStep, RebuildStep, DeletionStep

\* No step without a service.
LEMMA KeepsIdle ==
  ASSUME DataInv, Sound, Next
  PROVE  JobIdle'
<1>1. CASE Tick
  BY <1>1 DEF Tick, files, tracker, writer, service, cursor, deletion, JobIdle,
      DataInv
<1>2. ASSUME NEW r \in Records, Produce(r) PROVE JobIdle'
  BY <1>2 DEF Produce, files, tracker, writer, service, cursor, deletion, JobIdle,
      DataInv
<1>3. ASSUME NEW b \in SUBSET Records, HandOver(b) PROVE JobIdle'
  BY <1>3 DEF HandOver, files, tracker, writer, service, cursor, deletion, JobIdle,
      DataInv
<1>4. ASSUME NEW d \in Days, BeginAppend(d) PROVE JobIdle'
  BY <1>4 DEF BeginAppend, Reject, Acquire, files, tracker, writer, service, cursor,
      deletion, JobIdle, DataInv
<1>5. CASE FinishAppend
  BY <1>5 DEF FinishAppend, Release, files, tracker, writer, service, cursor, deletion,
      JobIdle, DataInv
<1>6. CASE AppendThrows
  BY <1>6 DEF AppendThrows, Release, Reject, files, tracker, writer, service, cursor,
      deletion, JobIdle, DataInv
<1>7. CASE Aggregate
  BY <1>7 DEF Aggregate, DayStored, files, tracker, writer, service, cursor, deletion,
      JobIdle, DataInv
<1>8. CASE SaveSummary
  BY <1>8 DEF SaveSummary, DayStored, Reject, files, tracker, writer, service, cursor,
      deletion, JobIdle, DataInv
<1>9. CASE StartRetention
  BY <1>9 DEF StartRetention, Start, Expired, Present, files, tracker, writer, service,
      cursor, deletion, JobIdle, DataInv
<1>10. ASSUME NEW d \in Days, LoadVerified(d) PROVE JobIdle'
  BY <1>10 DEF LoadVerified, files, tracker, writer, service, cursor, deletion, JobIdle,
      DataInv
<1>11. CASE Compare
  BY <1>11 DEF Compare, NextDate, files, tracker, writer, service, cursor, deletion,
      JobIdle, DataInv
<1>12. CASE RemoveExpired
  BY <1>12 DEF RemoveExpired, RemoveShard, NextDate, files, tracker, writer, service,
      cursor, deletion, JobIdle, DataInv
<1>13. CASE StartRebuild
  BY <1>13 DEF StartRebuild, Start, Present, files, tracker, writer, service, cursor,
      deletion, JobIdle, DataInv
<1>14. ASSUME NEW d \in Days, LoadExisting(d) PROVE JobIdle'
  BY <1>14 DEF LoadExisting, files, tracker, writer, service, cursor, deletion, JobIdle,
      DataInv
<1>15. CASE Recompute
  BY <1>15 DEF Recompute, NextDate, files, tracker, writer, service, cursor, deletion,
      JobIdle, DataInv
<1>16. CASE Replace
  BY <1>16 DEF Replace, NextDate, files, tracker, writer, service, cursor, deletion,
      JobIdle, DataInv
<1>17. ASSUME NEW scope \in Scopes, MakePlan(scope) PROVE JobIdle'
  BY <1>17 DEF MakePlan, files, tracker, writer, service, cursor, deletion, JobIdle,
      DataInv
<1>18. CASE Execute
  BY <1>18 DEF Execute, Start, files, tracker, writer, service, cursor, deletion,
      JobIdle, DataInv
<1>19. ASSUME NEW d \in Days, Target(d) PROVE JobIdle'
  BY <1>19 DEF Target, Drift, files, tracker, writer, service, cursor, deletion,
      JobIdle, DataInv
<1>20. CASE BeginRewrite
  BY <1>20 DEF BeginRewrite, Settle, Result, NextDate, Acquire, files, tracker, writer,
      service, cursor, deletion, JobIdle, DataInv
<1>21. CASE FinishRewrite
  BY <1>21 DEF FinishRewrite, Settle, Result, NextDate, Release, files, tracker, writer,
      service, cursor, deletion, JobIdle, DataInv
<1>22. CASE AggregateKept
  BY <1>22 DEF AggregateKept, Settle, Result, NextDate, files, tracker, writer, service,
      cursor, deletion, JobIdle, DataInv
<1>23. CASE ReplaceKept
  BY <1>23 DEF ReplaceKept, Settle, Result, NextDate, files, tracker, writer, service,
      cursor, deletion, JobIdle, DataInv
<1>24. CASE DropShard
  BY <1>24 DEF DropShard, Settle, Result, NextDate, RemoveShard, files, tracker, writer,
      service, cursor, deletion, JobIdle, DataInv
<1>25. CASE ForgetSummary
  BY <1>25 DEF ForgetSummary, Settle, Result, NextDate, files, tracker, writer, service,
      cursor, deletion, JobIdle, DataInv
<1>26. CASE Crash
  BY <1>26 DEF Crash, files, tracker, writer, service, cursor, deletion, JobIdle,
      DataInv
<1> QED
  BY <1>1, <1>2, <1>3, <1>4, <1>5, <1>6, <1>7, <1>8, <1>9, <1>10, <1>11,
      <1>12, <1>13, <1>14, <1>15, <1>16, <1>17, <1>18, <1>19, <1>20, <1>21,
      <1>22, <1>23, <1>24, <1>25, <1>26
     DEF Next, WriterStep, JobStep, RetentionStep, RebuildStep, DeletionStep

\* A forgotten record stays in its shard or in a settled summary.
LEMMA KeepsSafe ==
  ASSUME DataInv, Sound, Next
  PROVE  SafeInFiles'
<1>1. CASE Tick
  BY <1>1, Places
     DEF Tick, files, tracker, writer, service, cursor, deletion, SafeInFiles,
      InShard, InSummary, Settled, Protected, DataInv
<1>2. ASSUME NEW r \in Records, Produce(r) PROVE SafeInFiles'
  BY <1>2, Places
     DEF Produce, files, tracker, writer, service, cursor, deletion, SafeInFiles,
      InShard, InSummary, Settled, Protected, DataInv
<1>3. ASSUME NEW b \in SUBSET Records, HandOver(b) PROVE SafeInFiles'
  BY <1>3 DEF HandOver, files, tracker, writer, service, cursor, deletion, SafeInFiles,
      InShard, InSummary, Settled, Protected, DataInv
<1>4. ASSUME NEW d \in Days, BeginAppend(d) PROVE SafeInFiles'
  BY <1>4 DEF BeginAppend, Reject, Acquire, files, tracker, writer, service, cursor,
      deletion, SafeInFiles, InShard, InSummary, Settled, Protected, DataInv
<1>5. CASE FinishAppend
  <2>1. /\ UNCHANGED <<summary, tracker, service>> /\ SafeInFiles
    BY <1>5 DEF FinishAppend, AppendThrows, Reject, DataInv
  <2>2. \A d \in Days : shard[d].records \subseteq shard'[d].records
    BY <1>5, AppendEffect
  <2>3. \A d \in Days : d \notin Protected => shard'[d] = shard[d]
    BY <1>5, AppendEffect, Places
  <2> QED
    BY <2>1, <2>2, <2>3, Places
       DEF SafeInFiles, InShard, InSummary, Settled, Protected, tracker, service, cursor,
       deletion
<1>6. CASE AppendThrows
  <2>1. /\ UNCHANGED <<summary, tracker, service>> /\ SafeInFiles
    BY <1>6 DEF FinishAppend, AppendThrows, Reject, DataInv
  <2>2. \A d \in Days : shard[d].records \subseteq shard'[d].records
    BY <1>6, AppendEffect
  <2>3. \A d \in Days : d \notin Protected => shard'[d] = shard[d]
    BY <1>6, AppendEffect, Places
  <2> QED
    BY <2>1, <2>2, <2>3, Places
       DEF SafeInFiles, InShard, InSummary, Settled, Protected, tracker, service, cursor,
       deletion
<1>7. CASE Aggregate
  <2>1. /\ UNCHANGED <<shard, today, service>> /\ due' \subseteq due /\ SafeInFiles
    BY <1>7 DEF Aggregate, SaveSummary, DayStored, Reject, DataInv, tracker, files
  <2>2. \A d \in Days : d \notin Protected => summary'[d] = summary[d]
    BY <1>7, SaveOutcome, Places
       DEF Aggregate, SaveSummary, files, DataInv, TypeOK, FilesType, WriterType, Reading
  <2>3. \A r \in (confirmed' \ confirmed) \ erased : InShard(r)
    BY <1>7, Places DEF Aggregate, SaveSummary, DayStored, Reject, tracker, DataInv,
       BatchStored
  <2>4. confirmed' \subseteq Records
    BY <1>7, KeepsTrackerType DEF TrackerType
  <2> QED
    BY <2>1, <2>2, <2>3, <2>4, Places
       DEF SafeInFiles, InShard, InSummary, Settled, Protected, service, cursor, deletion
<1>8. CASE SaveSummary
  <2>1. /\ UNCHANGED <<shard, today, service>> /\ due' \subseteq due /\ SafeInFiles
    BY <1>8 DEF Aggregate, SaveSummary, DayStored, Reject, DataInv, tracker, files
  <2>2. \A d \in Days : d \notin Protected => summary'[d] = summary[d]
    BY <1>8, SaveOutcome, Places
       DEF Aggregate, SaveSummary, files, DataInv, TypeOK, FilesType, WriterType, Reading
  <2>3. \A r \in (confirmed' \ confirmed) \ erased : InShard(r)
    BY <1>8, Places DEF Aggregate, SaveSummary, DayStored, Reject, tracker, DataInv,
       BatchStored
  <2>4. confirmed' \subseteq Records
    BY <1>8, KeepsTrackerType DEF TrackerType
  <2> QED
    BY <2>1, <2>2, <2>3, <2>4, Places
       DEF SafeInFiles, InShard, InSummary, Settled, Protected, service, cursor, deletion
<1>9. CASE StartRetention
  BY <1>9 DEF StartRetention, Start, Expired, Present, files, tracker, writer, service,
      cursor, deletion, SafeInFiles, InShard, InSummary, Settled, Protected,
      DataInv
<1>10. ASSUME NEW d \in Days, LoadVerified(d) PROVE SafeInFiles'
  BY <1>10 DEF LoadVerified, files, tracker, writer, service, cursor, deletion,
      SafeInFiles, InShard, InSummary, Settled, Protected, DataInv
<1>11. CASE Compare
  BY <1>11 DEF Compare, NextDate, files, tracker, writer, service, cursor, deletion,
      SafeInFiles, InShard, InSummary, Settled, Protected, DataInv
<1>12. CASE RemoveExpired
  <2>1. /\ jDay < today /\ jDay \notin Protected /\ job = "retention"
        /\ summary[jDay].status = "loaded" /\ summary[jDay].counts = shard[jDay].records
    BY <1>12, RemoveEffect DEF RemoveExpired, DataInv, RetentionGuarded
  <2>2. \A d \in Days : d = jDay /\ ~shard'[d].exists => Settled(d)'
    BY <1>12, <2>1, Onward DEF Settled, Protected
  <2>3. \A d \in Days : Settled(d) => Settled(d)'
    BY <1>12, RemoveEffect, Onward, StaysSettled DEF Settled
  <2>4. erased' = erased /\ confirmed' = confirmed /\ SafeInFiles
    BY <1>12, Onward DEF RemoveExpired, DataInv
  <2> QED
    BY <1>12, <2>1, <2>2, <2>3, <2>4, RemoveEffect, Places
       DEF SafeInFiles, InShard, InSummary
<1>13. CASE StartRebuild
  BY <1>13 DEF StartRebuild, Start, Present, files, tracker, writer, service, cursor,
      deletion, SafeInFiles, InShard, InSummary, Settled, Protected, DataInv
<1>14. ASSUME NEW d \in Days, LoadExisting(d) PROVE SafeInFiles'
  BY <1>14 DEF LoadExisting, files, tracker, writer, service, cursor, deletion,
      SafeInFiles, InShard, InSummary, Settled, Protected, DataInv
<1>15. CASE Recompute
  BY <1>15 DEF Recompute, NextDate, files, tracker, writer, service, cursor, deletion,
      SafeInFiles, InShard, InSummary, Settled, Protected, DataInv
<1>16. CASE Replace
  <2>1. /\ jDay \in Days /\ jSaw.records \in SUBSET Records
        /\ summary \in [Days -> Summary]
    BY DEF DataInv, TypeOK, FilesType, CursorType, Reading
  <2>2. \A d \in Days \ {jDay} : summary'[d] = summary[d]
    BY <1>16, <2>1, SaveOutcome DEF Replace
  <2>3. \A d \in Days : Settled(d) => d # jDay
    BY <1>16 DEF Replace, Settled, DataInv, RebuildGuarded
  <2>4. \A d \in Days : Settled(d) => Settled(d)'
    BY <1>16, Onward, StaysSettled DEF Settled, Replace
  <2>5. UNCHANGED <<shard, confirmed, erased>> /\ SafeInFiles
    BY <1>16, Onward DEF Replace, DataInv
  <2> QED
    BY <2>2, <2>3, <2>4, <2>5, Places DEF SafeInFiles, InShard, InSummary
<1>17. ASSUME NEW scope \in Scopes, MakePlan(scope) PROVE SafeInFiles'
  BY <1>17 DEF MakePlan, files, tracker, writer, service, cursor, deletion, SafeInFiles,
      InShard, InSummary, Settled, Protected, DataInv
<1>18. CASE Execute
  <2>1. UNCHANGED <<files, tracker, erased>> /\ SafeInFiles
    BY <1>18, ServiceFrame DEF Execute, DataInv
  <2>2. CASE job' = "none"
    BY <2>1, <2>2 DEF SafeInFiles, InShard, InSummary, Settled, Protected, files, tracker
  <2>3. CASE job' # "none"
    <3>1. PICK blind \in Blinds :
            /\ job' = "deletion" /\ jLeft' = plan.days
            /\ plan' = plan /\ plan = PlanFor(plan.scope, blind)
      BY <1>18, <2>3 DEF Execute, Start, cursor
    <3>2. plan.scope.byFile => plan.days \subseteq Present
      BY <3>1 DEF PlanFor, Affected
    <3> QED
      BY <2>1, <3>1, <3>2
         DEF SafeInFiles, InShard, InSummary, Settled, Protected, Present, files, tracker
  <2> QED
    BY <2>2, <2>3
<1>19. ASSUME NEW d \in Days, Target(d) PROVE SafeInFiles'
  BY <1>19 DEF Target, Drift, files, tracker, writer, service, cursor, deletion,
      SafeInFiles, InShard, InSummary, Settled, Protected, DataInv
<1>20. CASE BeginRewrite
  BY <1>20 DEF BeginRewrite, Settle, Result, NextDate, Acquire, files, tracker, writer,
      service, cursor, deletion, SafeInFiles, InShard, InSummary, Settled,
      Protected, DataInv
<1>21. CASE FinishRewrite
  <2>1. \A d \in Days : Settled(d) => d # jDay
    BY <1>21, RewriteEffect DEF FinishRewrite, Settled
  <2>2. \A d \in Days : Settled(d) => Settled(d)'
    BY <1>21, <2>1, RewriteEffect, Onward, StaysSettled DEF Settled
  <2>3. /\ confirmed' = confirmed /\ summary' = summary /\ SafeInFiles
        /\ erased \subseteq erased'
        /\ shard[jDay].records \cap plan.scope.records \subseteq erased'
    BY <1>21, Onward DEF FinishRewrite, DataInv, DeletionGuarded
  <2> QED
    BY <1>21, <2>1, <2>2, <2>3, RewriteEffect, Places DEF SafeInFiles, InShard, InSummary
<1>22. CASE AggregateKept
  BY <1>22 DEF AggregateKept, Settle, Result, NextDate, files, tracker, writer, service,
      cursor, deletion, SafeInFiles, InShard, InSummary, Settled, Protected,
      DataInv
<1>23. CASE ReplaceKept
  <2>1. /\ jDay \in Days /\ jSaw.records \in SUBSET Records
        /\ summary \in [Days -> Summary]
    BY DEF DataInv, TypeOK, FilesType, CursorType, Reading
  <2>2. \A d \in Days \ {jDay} : summary'[d] = summary[d]
    BY <1>23, <2>1, SaveOutcome DEF ReplaceKept
  <2>3. \A d \in Days : Settled(d) => d # jDay
    BY <1>23 DEF ReplaceKept, Settled, DataInv, DeletionGuarded
  <2>4. \A d \in Days : Settled(d) => Settled(d)'
    BY <1>23, Onward, StaysSettled DEF Settled, ReplaceKept
  <2>5. UNCHANGED <<shard, confirmed, erased>> /\ SafeInFiles
    BY <1>23, Onward DEF ReplaceKept, DataInv
  <2> QED
    BY <2>2, <2>3, <2>4, <2>5, Places DEF SafeInFiles, InShard, InSummary
<1>24. CASE DropShard
  <2>1. \A d \in Days : Settled(d) => Settled(d)'
    BY <1>24, RemoveEffect, Onward, StaysSettled DEF Settled
  <2>2. confirmed' = confirmed /\ SafeInFiles
    BY <1>24, Onward DEF DataInv
  <2>3. erased \subseteq erased' /\ (shard' = shard \/ shard[jDay].records \subseteq erased')
    BY <1>24 DEF DropShard, files
  <2> QED
    BY <1>24, <2>1, <2>2, <2>3, RemoveEffect, Places DEF SafeInFiles, InShard, InSummary
<1>25. CASE ForgetSummary
  <2>1. \A d \in Days : Settled(d) => Settled(d)'
    BY <1>25, Onward, StaysSettled DEF Settled, ForgetSummary
  <2>2. /\ UNCHANGED <<shard, confirmed>> /\ SafeInFiles /\ erased \subseteq erased'
        /\ jDay \in Days /\ summary \in [Days -> Summary]
    BY <1>25, Onward DEF ForgetSummary, DataInv, TypeOK, FilesType, CursorType
  <2>3. CASE summary' = summary
    BY <2>1, <2>2, <2>3, Places DEF SafeInFiles, InShard, InSummary
  <2>4. CASE summary' # summary
    <3>1. /\ \A d \in Days \ {jDay} : summary'[d] = summary[d]
          /\ summary[jDay].counts \ shard[jDay].records \subseteq erased'
      BY <1>25, <2>2, <2>4 DEF ForgetSummary
    <3>2. Settled(jDay) => shard[jDay].records = {}
      BY <2>2 DEF Settled, DataInv, LinesEnded
    <3> QED
      BY <2>1, <2>2, <3>1, <3>2, Places DEF SafeInFiles, InShard, InSummary
  <2> QED
    BY <2>3, <2>4
<1>26. CASE Crash
  BY <1>26 DEF Crash, files, tracker, writer, service, cursor, deletion, SafeInFiles,
      InShard, InSummary, Settled, Protected, DataInv
<1> QED
  BY <1>1, <1>2, <1>3, <1>4, <1>5, <1>6, <1>7, <1>8, <1>9, <1>10, <1>11,
      <1>12, <1>13, <1>14, <1>15, <1>16, <1>17, <1>18, <1>19, <1>20, <1>21,
      <1>22, <1>23, <1>24, <1>25, <1>26
     DEF Next, WriterStep, JobStep, RetentionStep, RebuildStep, DeletionStep

\* A batch stays stored where it was stored.
LEMMA KeepsBatch ==
  ASSUME DataInv, Sound, Next
  PROVE  BatchStored'
<1>1. CASE Tick
  BY <1>1 DEF Tick, files, tracker, writer, service, cursor, deletion, BatchStored,
      InShard, DataInv
<1>2. ASSUME NEW r \in Records, Produce(r) PROVE BatchStored'
  BY <1>2 DEF Produce, files, tracker, writer, service, cursor, deletion, BatchStored,
      InShard, DataInv
<1>3. ASSUME NEW b \in SUBSET Records, HandOver(b) PROVE BatchStored'
  BY <1>3 DEF HandOver, files, tracker, writer, service, cursor, deletion, BatchStored,
      InShard, DataInv
<1>4. ASSUME NEW d \in Days, BeginAppend(d) PROVE BatchStored'
  <2>1. UNCHANGED <<shard, tracker, service>> /\ BatchStored /\ d \in wLeft /\ wAt = "next"
    BY <1>4 DEF BeginAppend, Reject, DataInv
  <2>2. PICK got \in ReadsOf(d) :
          \/ wAt' = "idle" /\ batch' = {} /\ wLeft' = {}
          \/ /\ ~got.damaged /\ OnDay(batch, d) \subseteq got.records
             /\ wAt' = "rebuild" /\ wDay' = d /\ UNCHANGED <<batch, wLeft>>
          \/ /\ ~got.damaged /\ wAt' = "append" /\ wDay' = d /\ wSaw' = got
             /\ UNCHANGED <<batch, wLeft>>
    BY <1>4 DEF BeginAppend, Reject
  <2>3. ~got.damaged => got.records = shard[d].records
    BY ReadTyped
  <2>4. wAt' = "rebuild" => \A r \in batch : DayOf[r] = d => InShard(r)
    BY <2>1, <2>2, <2>3 DEF OnDay, InShard
  <2> QED
    BY <2>1, <2>2, <2>3, <2>4 DEF BatchStored, InShard, tracker, service
<1>5. CASE FinishAppend
  <2>1. UNCHANGED <<tracker, batch, wLeft, wDay, service>> /\ BatchStored /\ wAt' = "rebuild"
    BY <1>5 DEF FinishAppend, DataInv
  <2>2. \A r \in batch : InShard(r) => InShard(r)'
    BY <1>5, AppendEffect, Places DEF InShard
  <2>3. \A r \in batch : DayOf[r] = wDay => InShard(r)'
    BY <1>5, <2>1, AppendEffect, Places DEF New, OnDay, InShard, BatchStored
  <2> QED
    BY <1>5, <2>1, <2>2, <2>3, AppendEffect DEF BatchStored, tracker, service
<1>6. CASE AppendThrows
  BY <1>6, AppendEffect
     DEF AppendThrows, Release, Reject, files, tracker, writer, service, cursor,
      deletion, BatchStored, InShard, DataInv
<1>7. CASE Aggregate
  BY <1>7 DEF Aggregate, DayStored, files, tracker, writer, service, cursor, deletion,
      BatchStored, InShard, DataInv
<1>8. CASE SaveSummary
  BY <1>8 DEF SaveSummary, DayStored, Reject, files, tracker, writer, service, cursor,
      deletion, BatchStored, InShard, DataInv
<1>9. CASE StartRetention
  BY <1>9 DEF StartRetention, Start, Expired, Present, files, tracker, writer, service,
      cursor, deletion, BatchStored, InShard, DataInv
<1>10. ASSUME NEW d \in Days, LoadVerified(d) PROVE BatchStored'
  BY <1>10 DEF LoadVerified, files, tracker, writer, service, cursor, deletion,
      BatchStored, InShard, DataInv
<1>11. CASE Compare
  BY <1>11 DEF Compare, NextDate, files, tracker, writer, service, cursor, deletion,
      BatchStored, InShard, DataInv
<1>12. CASE RemoveExpired
  <2>1. jDay \notin Protected
    BY <1>12, RemoveEffect DEF RemoveExpired, DataInv, RetentionGuarded
  <2>2. UNCHANGED <<tracker, writer, erased>> /\ BatchStored
    BY <1>12 DEF RemoveExpired, DataInv
  <2>3. \A r \in batch : shard'[DayOf[r]] = shard[DayOf[r]]
    BY <1>12, <2>1, <2>2, RemoveEffect, Places DEF BatchStored, Protected
  <2>4. wAt = "append" => shard'[wDay] = shard[wDay]
    BY <1>12, <2>1, RemoveEffect, Places
  <2> QED
    BY <2>2, <2>3, <2>4 DEF BatchStored, InShard, tracker, writer
<1>13. CASE StartRebuild
  BY <1>13 DEF StartRebuild, Start, Present, files, tracker, writer, service, cursor,
      deletion, BatchStored, InShard, DataInv
<1>14. ASSUME NEW d \in Days, LoadExisting(d) PROVE BatchStored'
  BY <1>14 DEF LoadExisting, files, tracker, writer, service, cursor, deletion,
      BatchStored, InShard, DataInv
<1>15. CASE Recompute
  BY <1>15 DEF Recompute, NextDate, files, tracker, writer, service, cursor, deletion,
      BatchStored, InShard, DataInv
<1>16. CASE Replace
  BY <1>16 DEF Replace, NextDate, files, tracker, writer, service, cursor, deletion,
      BatchStored, InShard, DataInv
<1>17. ASSUME NEW scope \in Scopes, MakePlan(scope) PROVE BatchStored'
  BY <1>17 DEF MakePlan, files, tracker, writer, service, cursor, deletion, BatchStored,
      InShard, DataInv
<1>18. CASE Execute
  BY <1>18 DEF Execute, Start, files, tracker, writer, service, cursor, deletion,
      BatchStored, InShard, DataInv
<1>19. ASSUME NEW d \in Days, Target(d) PROVE BatchStored'
  BY <1>19 DEF Target, Drift, files, tracker, writer, service, cursor, deletion,
      BatchStored, InShard, DataInv
<1>20. CASE BeginRewrite
  BY <1>20 DEF BeginRewrite, Settle, Result, NextDate, Acquire, files, tracker, writer,
      service, cursor, deletion, BatchStored, InShard, DataInv
<1>21. CASE FinishRewrite
  <2>1. UNCHANGED <<tracker, writer>> /\ BatchStored /\ QueueFree
    BY <1>21 DEF FinishRewrite, DataInv
  <2>2. /\ erased \subseteq erased'
        /\ shard[jDay].records \cap plan.scope.records \subseteq erased'
    BY <1>21 DEF FinishRewrite, DataInv, DeletionGuarded
  <2>3. \A r \in batch \ erased' : InShard(r) => InShard(r)'
    BY <1>21, <2>2, RewriteEffect, Places DEF InShard
  <2>4. wAt = "append" => shard'[wDay] = shard[wDay]
    BY <1>21, <2>1, RewriteEffect, Places DEF QueueFree, FinishRewrite
  <2> QED
    BY <2>1, <2>2, <2>3, <2>4 DEF BatchStored, tracker, writer
<1>22. CASE AggregateKept
  BY <1>22 DEF AggregateKept, Settle, Result, NextDate, files, tracker, writer, service,
      cursor, deletion, BatchStored, InShard, DataInv
<1>23. CASE ReplaceKept
  BY <1>23 DEF ReplaceKept, Settle, Result, NextDate, files, tracker, writer, service,
      cursor, deletion, BatchStored, InShard, DataInv
<1>24. CASE DropShard
  <2>1. UNCHANGED <<tracker, writer>> /\ BatchStored /\ QueueFree /\ wLeft \subseteq Days
    BY <1>24 DEF DropShard, DataInv, TypeOK, WriterType
  <2>2. shard' = shard \/ (jDay \notin held /\ shard[jDay].records \subseteq erased')
    BY <1>24 DEF DropShard, RemoveShard, files
  <2>3. \A r \in batch \ erased' : InShard(r) => InShard(r)'
    BY <1>24, <2>1, <2>2, RemoveEffect, Places DEF InShard
  <2>4. wAt = "append" => shard'[wDay] = shard[wDay]
    BY <1>24, <2>1, <2>2, RemoveEffect, Places DEF QueueFree
  <2>5. erased \subseteq erased'
    BY <1>24 DEF DropShard
  <2> QED
    BY <2>1, <2>3, <2>4, <2>5 DEF BatchStored, tracker, writer
<1>25. CASE ForgetSummary
  BY <1>25 DEF ForgetSummary, Settle, Result, NextDate, files, tracker, writer, service,
      cursor, deletion, BatchStored, InShard, DataInv
<1>26. CASE Crash
  BY <1>26 DEF Crash, files, tracker, writer, service, cursor, deletion, BatchStored,
      InShard, DataInv
<1> QED
  BY <1>1, <1>2, <1>3, <1>4, <1>5, <1>6, <1>7, <1>8, <1>9, <1>10, <1>11,
      <1>12, <1>13, <1>14, <1>15, <1>16, <1>17, <1>18, <1>19, <1>20, <1>21,
      <1>22, <1>23, <1>24, <1>25, <1>26
     DEF Next, WriterStep, JobStep, RetentionStep, RebuildStep, DeletionStep

\* Retention keeps working on old dates only.
LEMMA KeepsRetention ==
  ASSUME DataInv, Sound, Next
  PROVE  RetentionGuarded'
<1>1. CASE Tick
  BY <1>1, Places
     DEF Tick, files, tracker, writer, service, cursor, deletion,
      RetentionGuarded, Protected, TypeOK, CursorType, DataInv
<1>2. ASSUME NEW r \in Records, Produce(r) PROVE RetentionGuarded'
  BY <1>2, Places
     DEF Produce, files, tracker, writer, service, cursor, deletion,
      RetentionGuarded, Protected, TypeOK, CursorType, DataInv
<1>3. ASSUME NEW b \in SUBSET Records, HandOver(b) PROVE RetentionGuarded'
  BY <1>3 DEF HandOver, files, tracker, writer, service, cursor, deletion,
      RetentionGuarded, Protected, DataInv
<1>4. ASSUME NEW d \in Days, BeginAppend(d) PROVE RetentionGuarded'
  BY <1>4 DEF BeginAppend, Reject, Acquire, files, tracker, writer, service, cursor,
      deletion, RetentionGuarded, Protected, DataInv
<1>5. CASE FinishAppend
  <2>1. UNCHANGED <<summary, tracker, service>> /\ RetentionGuarded /\ jDay \in Days
    BY <1>5 DEF FinishAppend, AppendThrows, Reject, DataInv, TypeOK, CursorType
  <2>2. jDay \notin Protected => shard'[jDay] = shard[jDay]
    BY <1>5, <2>1, AppendEffect, Places
  <2> QED
    BY <2>1, <2>2 DEF RetentionGuarded, Protected, tracker, service, cursor
<1>6. CASE AppendThrows
  <2>1. UNCHANGED <<summary, tracker, service>> /\ RetentionGuarded /\ jDay \in Days
    BY <1>6 DEF FinishAppend, AppendThrows, Reject, DataInv, TypeOK, CursorType
  <2>2. jDay \notin Protected => shard'[jDay] = shard[jDay]
    BY <1>6, <2>1, AppendEffect, Places
  <2> QED
    BY <2>1, <2>2 DEF RetentionGuarded, Protected, tracker, service, cursor
<1>7. CASE Aggregate
  BY <1>7 DEF Aggregate, DayStored, files, tracker, writer, service, cursor, deletion,
      RetentionGuarded, Protected, DataInv
<1>8. CASE SaveSummary
  <2>1. UNCHANGED <<shard, today, service>> /\ due' \subseteq due
        /\ RetentionGuarded /\ jDay \in Days /\ wAt = "save"
    BY <1>8 DEF SaveSummary, DayStored, Reject, tracker, DataInv, TypeOK, CursorType
  <2>2. jDay \notin Protected => summary'[jDay] = summary[jDay]
    BY <1>8, <2>1, SaveOutcome, Places
       DEF SaveSummary, DataInv, TypeOK, FilesType, WriterType, Reading
  <2> QED
    BY <2>1, <2>2 DEF RetentionGuarded, Protected, service, cursor
<1>9. CASE StartRetention
  BY <1>9, Places, RetentionAssumption
     DEF StartRetention, Start, Expired, Present, files, tracker, writer, service,
      cursor, deletion, RetentionGuarded, Protected, DataInv
<1>10. ASSUME NEW d \in Days, LoadVerified(d) PROVE RetentionGuarded'
  BY <1>10 DEF LoadVerified, files, tracker, writer, service, cursor, deletion,
      RetentionGuarded, Protected, LoadsOf, CorruptSummary, DataInv
<1>11. CASE Compare
  <2>1. PICK got \in ReadsOf(jDay) : IF Covered(got)
          THEN jAt' = "remove" /\ UNCHANGED <<job, jLeft, jDay, jSummary>>
          ELSE NextDate("load")
    BY <1>11 DEF Compare
  <2>2. /\ ~got.damaged => got.records = shard[jDay].records
        /\ UNCHANGED <<files, today, due>> /\ RetentionGuarded /\ job = "retention"
        /\ jAt = "compare"
    BY <1>11, ReadTyped DEF Compare, DataInv, TypeOK, CursorType, tracker
  <2>3. CASE Covered(got)
    BY <2>1, <2>2, <2>3 DEF Covered, RetentionGuarded, Protected, files
  <2>4. CASE ~Covered(got)
    BY <2>1, <2>2, <2>4 DEF NextDate, RetentionGuarded, Protected, files
  <2> QED
    BY <2>3, <2>4
<1>12. CASE RemoveExpired
  BY <1>12 DEF RemoveExpired, RemoveShard, NextDate, files, tracker, writer, service,
      cursor, deletion, RetentionGuarded, Protected, DataInv
<1>13. CASE StartRebuild
  BY <1>13 DEF StartRebuild, Start, Present, files, tracker, writer, service, cursor,
      deletion, RetentionGuarded, Protected, DataInv
<1>14. ASSUME NEW d \in Days, LoadExisting(d) PROVE RetentionGuarded'
  BY <1>14 DEF LoadExisting, files, tracker, writer, service, cursor, deletion,
      RetentionGuarded, Protected, DataInv
<1>15. CASE Recompute
  BY <1>15 DEF Recompute, NextDate, files, tracker, writer, service, cursor, deletion,
      RetentionGuarded, Protected, DataInv
<1>16. CASE Replace
  BY <1>16 DEF Replace, NextDate, files, tracker, writer, service, cursor, deletion,
      RetentionGuarded, Protected, DataInv
<1>17. ASSUME NEW scope \in Scopes, MakePlan(scope) PROVE RetentionGuarded'
  BY <1>17 DEF MakePlan, files, tracker, writer, service, cursor, deletion,
      RetentionGuarded, Protected, DataInv
<1>18. CASE Execute
  BY <1>18 DEF Execute, Start, files, tracker, writer, service, cursor, deletion,
      RetentionGuarded, Protected, DataInv
<1>19. ASSUME NEW d \in Days, Target(d) PROVE RetentionGuarded'
  BY <1>19 DEF Target, Drift, files, tracker, writer, service, cursor, deletion,
      RetentionGuarded, Protected, DataInv
<1>20. CASE BeginRewrite
  BY <1>20 DEF BeginRewrite, Settle, Result, NextDate, Acquire, files, tracker, writer,
      service, cursor, deletion, RetentionGuarded, Protected, DataInv
<1>21. CASE FinishRewrite
  BY <1>21, RewriteEffect
     DEF FinishRewrite, Settle, Result, NextDate, Release, files, tracker, writer,
      service, cursor, deletion, RetentionGuarded, Protected, DataInv
<1>22. CASE AggregateKept
  BY <1>22 DEF AggregateKept, Settle, Result, NextDate, files, tracker, writer, service,
      cursor, deletion, RetentionGuarded, Protected, DataInv
<1>23. CASE ReplaceKept
  BY <1>23 DEF ReplaceKept, Settle, Result, NextDate, files, tracker, writer, service,
      cursor, deletion, RetentionGuarded, Protected, DataInv
<1>24. CASE DropShard
  BY <1>24 DEF DropShard, Settle, Result, NextDate, RemoveShard, files, tracker, writer,
      service, cursor, deletion, RetentionGuarded, Protected, DataInv
<1>25. CASE ForgetSummary
  BY <1>25 DEF ForgetSummary, Settle, Result, NextDate, files, tracker, writer, service,
      cursor, deletion, RetentionGuarded, Protected, DataInv
<1>26. CASE Crash
  BY <1>26 DEF Crash, files, tracker, writer, service, cursor, deletion,
      RetentionGuarded, Protected, DataInv
<1> QED
  BY <1>1, <1>2, <1>3, <1>4, <1>5, <1>6, <1>7, <1>8, <1>9, <1>10, <1>11,
      <1>12, <1>13, <1>14, <1>15, <1>16, <1>17, <1>18, <1>19, <1>20, <1>21,
      <1>22, <1>23, <1>24, <1>25, <1>26
     DEF Next, WriterStep, JobStep, RetentionStep, RebuildStep, DeletionStep

\* A rebuild keeps to its dates.
LEMMA KeepsRebuild ==
  ASSUME DataInv, Sound, Next
  PROVE  RebuildGuarded'
<1>1. CASE \/ Tick \/ (\E r \in Records : Produce(r))
            \/ (\E b \in SUBSET Records : HandOver(b)) \/ WriterStep
  BY <1>1, TrackerFrame DEF service, cursor, deletion, DataInv, RebuildGuarded
<1>2. CASE StartRetention
  BY <1>2 DEF StartRetention, Start, Expired, Present, files, tracker, writer, service,
      cursor, deletion, RebuildGuarded, DataInv
<1>3. ASSUME NEW d \in Days, LoadVerified(d) PROVE RebuildGuarded'
  BY <1>3 DEF LoadVerified, files, tracker, writer, service, cursor, deletion,
      RebuildGuarded, DataInv
<1>4. CASE Compare
  BY <1>4 DEF Compare, NextDate, files, tracker, writer, service, cursor, deletion,
      RebuildGuarded, DataInv
<1>5. CASE RemoveExpired
  BY <1>5 DEF RemoveExpired, RemoveShard, NextDate, files, tracker, writer, service,
      cursor, deletion, RebuildGuarded, DataInv
<1>6. CASE StartRebuild
  BY <1>6 DEF StartRebuild, Start, Present, files, tracker, writer, service, cursor,
      deletion, RebuildGuarded, DataInv
<1>7. ASSUME NEW d \in Days, LoadExisting(d) PROVE RebuildGuarded'
  BY <1>7 DEF LoadExisting, files, tracker, writer, service, cursor, deletion,
      RebuildGuarded, DataInv
<1>8. CASE Recompute
  BY <1>8 DEF Recompute, NextDate, files, tracker, writer, service, cursor, deletion,
      RebuildGuarded, DataInv
<1>9. CASE Replace
  BY <1>9 DEF Replace, NextDate, files, tracker, writer, service, cursor, deletion,
      RebuildGuarded, DataInv
<1>10. ASSUME NEW scope \in Scopes, MakePlan(scope) PROVE RebuildGuarded'
  BY <1>10 DEF MakePlan, files, tracker, writer, service, cursor, deletion,
      RebuildGuarded, DataInv
<1>11. CASE Execute
  BY <1>11 DEF Execute, Start, files, tracker, writer, service, cursor, deletion,
      RebuildGuarded, DataInv
<1>12. ASSUME NEW d \in Days, Target(d) PROVE RebuildGuarded'
  BY <1>12 DEF Target, Drift, files, tracker, writer, service, cursor, deletion,
      RebuildGuarded, DataInv
<1>13. CASE BeginRewrite
  BY <1>13 DEF BeginRewrite, Settle, Result, NextDate, Acquire, files, tracker, writer,
      service, cursor, deletion, RebuildGuarded, DataInv
<1>14. CASE FinishRewrite
  BY <1>14 DEF FinishRewrite, Settle, Result, NextDate, Release, files, tracker, writer,
      service, cursor, deletion, RebuildGuarded, DataInv
<1>15. CASE AggregateKept
  BY <1>15 DEF AggregateKept, Settle, Result, NextDate, files, tracker, writer, service,
      cursor, deletion, RebuildGuarded, DataInv
<1>16. CASE ReplaceKept
  BY <1>16 DEF ReplaceKept, Settle, Result, NextDate, files, tracker, writer, service,
      cursor, deletion, RebuildGuarded, DataInv
<1>17. CASE DropShard
  BY <1>17 DEF DropShard, Settle, Result, NextDate, RemoveShard, files, tracker, writer,
      service, cursor, deletion, RebuildGuarded, DataInv
<1>18. CASE ForgetSummary
  BY <1>18 DEF ForgetSummary, Settle, Result, NextDate, files, tracker, writer, service,
      cursor, deletion, RebuildGuarded, DataInv
<1>19. CASE Crash
  BY <1>19 DEF Crash, files, tracker, writer, service, cursor, deletion, RebuildGuarded,
      DataInv
<1> QED
  BY <1>1, <1>2, <1>3, <1>4, <1>5, <1>6, <1>7, <1>8, <1>9, <1>10, <1>11,
      <1>12, <1>13, <1>14, <1>15, <1>16, <1>17, <1>18, <1>19
     DEF Next, WriterStep, JobStep, RetentionStep, RebuildStep, DeletionStep

\* A deletion keeps to its dates and its kind of scope.
LEMMA KeepsDeletion ==
  ASSUME DataInv, Sound, Next
  PROVE  DeletionGuarded'
<1>1. CASE Tick
  BY <1>1 DEF Tick, files, tracker, writer, service, cursor, deletion, DeletionGuarded,
      DataInv
<1>2. ASSUME NEW r \in Records, Produce(r) PROVE DeletionGuarded'
  BY <1>2 DEF Produce, files, tracker, writer, service, cursor, deletion,
      DeletionGuarded, DataInv
<1>3. ASSUME NEW b \in SUBSET Records, HandOver(b) PROVE DeletionGuarded'
  BY <1>3 DEF HandOver, files, tracker, writer, service, cursor, deletion,
      DeletionGuarded, DataInv
<1>4. ASSUME NEW d \in Days, BeginAppend(d) PROVE DeletionGuarded'
  BY <1>4 DEF BeginAppend, Reject, Acquire, files, tracker, writer, service, cursor,
      deletion, DeletionGuarded, DataInv
<1>5. CASE FinishAppend
  <2>1. UNCHANGED service /\ DeletionGuarded /\ QueueFree /\ jDay \in Days
    BY <1>5 DEF FinishAppend, AppendThrows, Reject, DataInv, TypeOK, CursorType
  <2>2. jAt = "write" => shard'[jDay] = shard[jDay]
    BY <1>5, <2>1, AppendEffect DEF QueueFree
  <2> QED
    BY <2>1, <2>2 DEF DeletionGuarded, service, cursor, deletion
<1>6. CASE AppendThrows
  <2>1. UNCHANGED service /\ DeletionGuarded /\ QueueFree /\ jDay \in Days
    BY <1>6 DEF FinishAppend, AppendThrows, Reject, DataInv, TypeOK, CursorType
  <2>2. jAt = "write" => shard'[jDay] = shard[jDay]
    BY <1>6, <2>1, AppendEffect DEF QueueFree
  <2> QED
    BY <2>1, <2>2 DEF DeletionGuarded, service, cursor, deletion
<1>7. CASE Aggregate
  BY <1>7 DEF Aggregate, DayStored, files, tracker, writer, service, cursor, deletion,
      DeletionGuarded, DataInv
<1>8. CASE SaveSummary
  BY <1>8 DEF SaveSummary, DayStored, Reject, files, tracker, writer, service, cursor,
      deletion, DeletionGuarded, DataInv
<1>9. CASE StartRetention
  BY <1>9 DEF StartRetention, Start, Expired, Present, files, tracker, writer, service,
      cursor, deletion, DeletionGuarded, DataInv
<1>10. ASSUME NEW d \in Days, LoadVerified(d) PROVE DeletionGuarded'
  BY <1>10 DEF LoadVerified, files, tracker, writer, service, cursor, deletion,
      DeletionGuarded, DataInv
<1>11. CASE Compare
  BY <1>11 DEF Compare, NextDate, files, tracker, writer, service, cursor, deletion,
      DeletionGuarded, DataInv
<1>12. CASE RemoveExpired
  BY <1>12 DEF RemoveExpired, RemoveShard, NextDate, files, tracker, writer, service,
      cursor, deletion, DeletionGuarded, DataInv
<1>13. CASE StartRebuild
  BY <1>13 DEF StartRebuild, Start, Present, files, tracker, writer, service, cursor,
      deletion, DeletionGuarded, DataInv
<1>14. ASSUME NEW d \in Days, LoadExisting(d) PROVE DeletionGuarded'
  BY <1>14 DEF LoadExisting, files, tracker, writer, service, cursor, deletion,
      DeletionGuarded, DataInv
<1>15. CASE Recompute
  BY <1>15 DEF Recompute, NextDate, files, tracker, writer, service, cursor, deletion,
      DeletionGuarded, DataInv
<1>16. CASE Replace
  BY <1>16 DEF Replace, NextDate, files, tracker, writer, service, cursor, deletion,
      DeletionGuarded, DataInv
<1>17. ASSUME NEW scope \in Scopes, MakePlan(scope) PROVE DeletionGuarded'
  BY <1>17 DEF MakePlan, files, tracker, writer, service, cursor, deletion,
      DeletionGuarded, DataInv
<1>18. CASE Execute
  BY <1>18 DEF Execute, Start, files, tracker, writer, service, cursor, deletion,
      DeletionGuarded, PlanFor, Affected, DataInv
<1>19. ASSUME NEW d \in Days, Target(d) PROVE DeletionGuarded'
  BY <1>19 DEF Target, Drift, files, tracker, writer, service, cursor, deletion,
      DeletionGuarded, DataInv
<1>20. CASE BeginRewrite
  <2>1. PICK got \in ReadsOf(jDay) : IF got.damaged
          THEN Settle(TRUE, touched)
          ELSE /\ jAt' = "write" /\ jSaw' = got
               /\ UNCHANGED <<job, jLeft, jDay, jSummary, deletion>>
    BY <1>20 DEF BeginRewrite
  <2>2. /\ ~got.damaged => got.records = shard[jDay].records
        /\ UNCHANGED shard /\ DeletionGuarded /\ job = "deletion" /\ jAt = "rewrite"
    BY <1>20, ReadTyped DEF BeginRewrite, DataInv, TypeOK, CursorType
  <2>3. CASE got.damaged
    BY <2>1, <2>2, <2>3 DEF Settle, Result, NextDate, DeletionGuarded
  <2>4. CASE ~got.damaged
    BY <2>1, <2>2, <2>4 DEF DeletionGuarded, deletion
  <2> QED
    BY <2>3, <2>4
<1>21. CASE FinishRewrite
  BY <1>21, RewriteEffect
     DEF FinishRewrite, Settle, Result, NextDate, Release, files, tracker, writer,
      service, cursor, deletion, DeletionGuarded, DataInv
<1>22. CASE AggregateKept
  BY <1>22 DEF AggregateKept, Settle, Result, NextDate, files, tracker, writer, service,
      cursor, deletion, DeletionGuarded, DataInv
<1>23. CASE ReplaceKept
  BY <1>23 DEF ReplaceKept, Settle, Result, NextDate, files, tracker, writer, service,
      cursor, deletion, DeletionGuarded, DataInv
<1>24. CASE DropShard
  BY <1>24 DEF DropShard, Settle, Result, NextDate, RemoveShard, files, tracker, writer,
      service, cursor, deletion, DeletionGuarded, DataInv
<1>25. CASE ForgetSummary
  BY <1>25 DEF ForgetSummary, Settle, Result, NextDate, files, tracker, writer, service,
      cursor, deletion, DeletionGuarded, DataInv
<1>26. CASE Crash
  BY <1>26 DEF Crash, files, tracker, writer, service, cursor, deletion,
      DeletionGuarded, DataInv
<1> QED
  BY <1>1, <1>2, <1>3, <1>4, <1>5, <1>6, <1>7, <1>8, <1>9, <1>10, <1>11,
      <1>12, <1>13, <1>14, <1>15, <1>16, <1>17, <1>18, <1>19, <1>20, <1>21,
      <1>22, <1>23, <1>24, <1>25, <1>26
     DEF Next, WriterStep, JobStep, RetentionStep, RebuildStep, DeletionStep

\* A plan for dates selects whole dates.
LEMMA KeepsPlan ==
  ASSUME DataInv, Sound, Next
  PROVE  PlanSelects'
<1>1. CASE \/ Tick \/ (\E r \in Records : Produce(r))
            \/ (\E b \in SUBSET Records : HandOver(b)) \/ WriterStep
  BY <1>1, TrackerFrame DEF service, cursor, deletion, DataInv, PlanSelects
<1>2. CASE StartRetention
  BY <1>2 DEF StartRetention, Start, Expired, Present, files, tracker, writer, service,
      cursor, deletion, PlanSelects, DataInv
<1>3. ASSUME NEW d \in Days, LoadVerified(d) PROVE PlanSelects'
  BY <1>3 DEF LoadVerified, files, tracker, writer, service, cursor, deletion,
      PlanSelects, DataInv
<1>4. CASE Compare
  BY <1>4 DEF Compare, NextDate, files, tracker, writer, service, cursor, deletion,
      PlanSelects, DataInv
<1>5. CASE RemoveExpired
  BY <1>5 DEF RemoveExpired, RemoveShard, NextDate, files, tracker, writer, service,
      cursor, deletion, PlanSelects, DataInv
<1>6. CASE StartRebuild
  BY <1>6 DEF StartRebuild, Start, Present, files, tracker, writer, service, cursor,
      deletion, PlanSelects, DataInv
<1>7. ASSUME NEW d \in Days, LoadExisting(d) PROVE PlanSelects'
  BY <1>7 DEF LoadExisting, files, tracker, writer, service, cursor, deletion,
      PlanSelects, DataInv
<1>8. CASE Recompute
  BY <1>8 DEF Recompute, NextDate, files, tracker, writer, service, cursor, deletion,
      PlanSelects, DataInv
<1>9. CASE Replace
  BY <1>9 DEF Replace, NextDate, files, tracker, writer, service, cursor, deletion,
      PlanSelects, DataInv
<1>10. ASSUME NEW scope \in Scopes, MakePlan(scope) PROVE PlanSelects'
  <2>1. plan'.scope = scope
    BY <1>10 DEF MakePlan, PlanFor
  <2>2. ~scope.byFile => \E d \in Days : scope = DateScope(d)
    BY DEF Scopes, FileScope
  <2> QED
    BY <2>1, <2>2 DEF PlanSelects, DateScope
<1>11. CASE Execute
  <2>1. plan' = plan \/ plan' = NoPlan
    BY <1>11 DEF Execute, Start, deletion
  <2> QED
    BY <2>1 DEF PlanSelects, NoPlan, DataInv
<1>12. ASSUME NEW d \in Days, Target(d) PROVE PlanSelects'
  <2>1. plan' = plan \/ plan' = NoPlan
    BY <1>12 DEF Target, Drift, deletion
  <2> QED
    BY <2>1 DEF PlanSelects, NoPlan, DataInv
<1>13. CASE BeginRewrite
  <2>1. plan' = plan \/ plan' = NoPlan
    BY <1>13 DEF BeginRewrite, Settle, Result, NextDate, Acquire, deletion
  <2> QED
    BY <2>1 DEF PlanSelects, NoPlan, DataInv
<1>14. CASE FinishRewrite
  <2>1. plan' = plan \/ plan' = NoPlan
    BY <1>14 DEF FinishRewrite, Settle, Result, NextDate, Release, deletion
  <2> QED
    BY <2>1 DEF PlanSelects, NoPlan, DataInv
<1>15. CASE AggregateKept
  <2>1. plan' = plan \/ plan' = NoPlan
    BY <1>15 DEF AggregateKept, Settle, Result, NextDate, deletion
  <2> QED
    BY <2>1 DEF PlanSelects, NoPlan, DataInv
<1>16. CASE ReplaceKept
  <2>1. plan' = plan \/ plan' = NoPlan
    BY <1>16 DEF ReplaceKept, Settle, Result, NextDate, deletion
  <2> QED
    BY <2>1 DEF PlanSelects, NoPlan, DataInv
<1>17. CASE DropShard
  <2>1. plan' = plan \/ plan' = NoPlan
    BY <1>17 DEF DropShard, Settle, Result, NextDate, RemoveShard, deletion
  <2> QED
    BY <2>1 DEF PlanSelects, NoPlan, DataInv
<1>18. CASE ForgetSummary
  <2>1. plan' = plan \/ plan' = NoPlan
    BY <1>18 DEF ForgetSummary, Settle, Result, NextDate, deletion
  <2> QED
    BY <2>1 DEF PlanSelects, NoPlan, DataInv
<1>19. CASE Crash
  <2>1. plan' = plan \/ plan' = NoPlan
    BY <1>19 DEF Crash, deletion
  <2> QED
    BY <2>1 DEF PlanSelects, NoPlan, DataInv
<1> QED
  BY <1>1, <1>2, <1>3, <1>4, <1>5, <1>6, <1>7, <1>8, <1>9, <1>10, <1>11,
      <1>12, <1>13, <1>14, <1>15, <1>16, <1>17, <1>18, <1>19
     DEF Next, WriterStep, JobStep, RetentionStep, RebuildStep, DeletionStep

\* What a deletion previewed stays out of the dates it has finished.
LEMMA KeepsTracked ==
  ASSUME DataInv, Sound, Next
  PROVE  DeletionTracked'
<1>1. CASE Tick
  BY <1>1 DEF Tick, files, tracker, writer, service, cursor, deletion, DeletionTracked,
      Finished, InShard, DataInv
<1>2. ASSUME NEW r \in Records, Produce(r) PROVE DeletionTracked'
  BY <1>2 DEF Produce, files, tracker, writer, service, cursor, deletion,
      DeletionTracked, Finished, InShard, DataInv
<1>3. ASSUME NEW b \in SUBSET Records, HandOver(b) PROVE DeletionTracked'
  BY <1>3 DEF HandOver, files, tracker, writer, service, cursor, deletion,
      DeletionTracked, Finished, InShard, DataInv
<1>4. ASSUME NEW d \in Days, BeginAppend(d) PROVE DeletionTracked'
  BY <1>4 DEF BeginAppend, Reject, Acquire, files, tracker, writer, service, cursor,
      deletion, DeletionTracked, Finished, InShard, DataInv
<1>5. CASE FinishAppend
  BY <1>5, AppendEffect, Places
     DEF FinishAppend, Release, files, tracker, writer, service, cursor, deletion,
      DeletionTracked, Finished, InShard, BatchStored, DataInv
<1>6. CASE AppendThrows
  BY <1>6, AppendEffect, Places
     DEF AppendThrows, Release, Reject, files, tracker, writer, service, cursor,
      deletion, DeletionTracked, Finished, InShard, BatchStored, DataInv
<1>7. CASE Aggregate
  BY <1>7 DEF Aggregate, DayStored, files, tracker, writer, service, cursor, deletion,
      DeletionTracked, Finished, InShard, DataInv
<1>8. CASE SaveSummary
  BY <1>8 DEF SaveSummary, DayStored, Reject, files, tracker, writer, service, cursor,
      deletion, DeletionTracked, Finished, InShard, DataInv
<1>9. CASE StartRetention
  BY <1>9 DEF StartRetention, Start, Expired, Present, files, tracker, writer, service,
      cursor, deletion, DeletionTracked, Finished, InShard, DataInv
<1>10. ASSUME NEW d \in Days, LoadVerified(d) PROVE DeletionTracked'
  BY <1>10 DEF LoadVerified, files, tracker, writer, service, cursor, deletion,
      DeletionTracked, Finished, InShard, DataInv
<1>11. CASE Compare
  BY <1>11 DEF Compare, NextDate, files, tracker, writer, service, cursor, deletion,
      DeletionTracked, Finished, InShard, DataInv
<1>12. CASE RemoveExpired
  BY <1>12, RemoveEffect, Places
     DEF RemoveExpired, RemoveShard, NextDate, files, tracker, writer, service,
      cursor, deletion, DeletionTracked, Finished, InShard, DeletionGuarded,
      LinesEnded, JobIdle, DataInv
<1>13. CASE StartRebuild
  BY <1>13 DEF StartRebuild, Start, Present, files, tracker, writer, service, cursor,
      deletion, DeletionTracked, Finished, InShard, DataInv
<1>14. ASSUME NEW d \in Days, LoadExisting(d) PROVE DeletionTracked'
  BY <1>14 DEF LoadExisting, files, tracker, writer, service, cursor, deletion,
      DeletionTracked, Finished, InShard, DataInv
<1>15. CASE Recompute
  BY <1>15 DEF Recompute, NextDate, files, tracker, writer, service, cursor, deletion,
      DeletionTracked, Finished, InShard, DataInv
<1>16. CASE Replace
  BY <1>16 DEF Replace, NextDate, files, tracker, writer, service, cursor, deletion,
      DeletionTracked, Finished, InShard, DataInv
<1>17. ASSUME NEW scope \in Scopes, MakePlan(scope) PROVE DeletionTracked'
  <2>1. PICK blind \in Blinds : plan' = PlanFor(scope, blind)
    BY <1>17 DEF MakePlan
  <2>2. /\ job' = "none" /\ outcome' = "planned" /\ UNCHANGED confirmed
        /\ previewed' = {r \in confirmed \cap scope.records :
                         DayOf[r] \in plan'.days /\ r \in shard[DayOf[r]].records}
    BY <1>17 DEF MakePlan, tracker, cursor
  <2>3. plan'.scope = scope
    BY <2>1 DEF PlanFor
  <2> QED
    BY <2>2, <2>3 DEF DeletionTracked
<1>18. CASE Execute
  BY <1>18, Places
     DEF Execute, Start, files, tracker, writer, service, cursor, deletion,
      DeletionTracked, Finished, InShard, DeletionGuarded, JobIdle, PlanFor,
      Affected, LinesEnded, DataInv
<1>19. ASSUME NEW d \in Days, Target(d) PROVE DeletionTracked'
  BY <1>19, Places
     DEF Target, Drift, files, tracker, writer, service, cursor, deletion,
      DeletionTracked, Finished, InShard, DeletionGuarded, JobIdle, Start,
      PlanFor, Affected, LinesEnded, DataInv
<1>20. CASE BeginRewrite
  BY <1>20, Places
     DEF BeginRewrite, Settle, Result, NextDate, Acquire, files, tracker, writer,
      service, cursor, deletion, DeletionTracked, Finished, InShard,
      DeletionGuarded, JobIdle, Start, PlanFor, Affected, LinesEnded, DataInv
<1>21. CASE FinishRewrite
  <2>1. /\ \A r \in Records : InShard(r)' => InShard(r)
        /\ \A r \in Records :
             DayOf[r] = jDay /\ r \in plan.scope.records => ~InShard(r)'
    BY <1>21, RewriteEffect, Places DEF InShard
  <2>2. /\ job = "deletion" /\ jAt = "write" /\ DeletionTracked /\ jDay \in jLeft
        /\ UNCHANGED confirmed /\ previewed \subseteq Records
    BY <1>21, RewriteEffect, Places DEF FinishRewrite, DataInv, DeletionTracked, tracker
  <2>3. \/ /\ jAt' = "aggregate"
           /\ UNCHANGED <<job, jLeft, jDay, plan, outcome, errors, previewed>>
        \/ Settle(TRUE, touched)
    BY <1>21 DEF FinishRewrite
  <2>4. CASE /\ jAt' = "aggregate"
             /\ UNCHANGED <<job, jLeft, jDay, plan, outcome, errors, previewed>>
    BY <2>1, <2>2, <2>4 DEF DeletionTracked, Finished
  <2>5. CASE Settle(TRUE, touched)
    BY <2>2, <2>5 DEF Settle, Result, NextDate, DeletionTracked
  <2> QED
    BY <2>3, <2>4, <2>5
<1>22. CASE AggregateKept
  BY <1>22, Places
     DEF AggregateKept, Settle, Result, NextDate, files, tracker, writer, service,
      cursor, deletion, DeletionTracked, Finished, InShard, DeletionGuarded,
      JobIdle, Start, PlanFor, Affected, LinesEnded, DataInv
<1>23. CASE ReplaceKept
  BY <1>23, Places
     DEF ReplaceKept, Settle, Result, NextDate, files, tracker, writer, service,
      cursor, deletion, DeletionTracked, Finished, InShard, DeletionGuarded,
      JobIdle, Start, PlanFor, Affected, LinesEnded, DataInv
<1>24. CASE DropShard
  <2>1. /\ job = "deletion" /\ jAt = "drop" /\ DeletionTracked /\ jDay \in jLeft
        /\ UNCHANGED confirmed /\ previewed \subseteq Records
    BY <1>24, RemoveEffect, Places DEF DropShard, DataInv, DeletionTracked, tracker
  <2>2. CASE RemoveShard(jDay)
             /\ jAt' = "forget" /\ UNCHANGED <<job, jLeft, jDay, deletion>>
    <3>1. /\ \A r \in Records : InShard(r)' => InShard(r)
          /\ \A r \in Records : DayOf[r] = jDay => ~InShard(r)'
      <4>1. shard \in [Days -> Shard] /\ jDay \in Days
        BY <1>24, RemoveEffect DEF DataInv, TypeOK, FilesType
      <4>2. shard' = [shard EXCEPT ![jDay] = NoShard]
        BY <2>2 DEF RemoveShard
      <4> QED
        BY <4>1, <4>2, Places DEF InShard, NoShard
    <3> QED
      BY <2>1, <2>2, <3>1 DEF DeletionTracked, Finished, deletion
  <2>3. CASE Settle(TRUE, touched)
    BY <2>1, <2>3 DEF Settle, Result, NextDate, DeletionTracked
  <2> QED
    BY <1>24, <2>2, <2>3 DEF DropShard
<1>25. CASE ForgetSummary
  BY <1>25, Places
     DEF ForgetSummary, Settle, Result, NextDate, files, tracker, writer, service,
      cursor, deletion, DeletionTracked, Finished, InShard, DeletionGuarded,
      JobIdle, Start, PlanFor, Affected, LinesEnded, DataInv
<1>26. CASE Crash
  BY <1>26 DEF Crash, files, tracker, writer, service, cursor, deletion,
      DeletionTracked, Finished, InShard, DataInv
<1> QED
  BY <1>1, <1>2, <1>3, <1>4, <1>5, <1>6, <1>7, <1>8, <1>9, <1>10, <1>11,
      <1>12, <1>13, <1>14, <1>15, <1>16, <1>17, <1>18, <1>19, <1>20, <1>21,
      <1>22, <1>23, <1>24, <1>25, <1>26
     DEF Next, WriterStep, JobStep, RetentionStep, RebuildStep, DeletionStep

\* A deletion that reports success has removed what it previewed.
LEMMA KeepsComplete ==
  ASSUME DataInv, Sound, Next
  PROVE  CompletedMeansGone'
<1>1. CASE Tick
  BY <1>1 DEF Tick, files, tracker, writer, service, cursor, deletion,
      CompletedMeansGone, InShard, DataInv
<1>2. ASSUME NEW r \in Records, Produce(r) PROVE CompletedMeansGone'
  BY <1>2 DEF Produce, files, tracker, writer, service, cursor, deletion,
      CompletedMeansGone, InShard, DataInv
<1>3. ASSUME NEW b \in SUBSET Records, HandOver(b) PROVE CompletedMeansGone'
  BY <1>3 DEF HandOver, files, tracker, writer, service, cursor, deletion,
      CompletedMeansGone, InShard, DataInv
<1>4. ASSUME NEW d \in Days, BeginAppend(d) PROVE CompletedMeansGone'
  BY <1>4 DEF BeginAppend, Reject, Acquire, files, tracker, writer, service, cursor,
      deletion, CompletedMeansGone, InShard, DataInv
<1>5. CASE FinishAppend
  BY <1>5, AppendEffect, Places
     DEF FinishAppend, Release, files, tracker, writer, service, cursor, deletion,
      CompletedMeansGone, InShard, DeletionTracked, BatchStored, DataInv
<1>6. CASE AppendThrows
  BY <1>6, AppendEffect, Places
     DEF AppendThrows, Release, Reject, files, tracker, writer, service, cursor,
      deletion, CompletedMeansGone, InShard, DeletionTracked, BatchStored,
      DataInv
<1>7. CASE Aggregate
  BY <1>7 DEF Aggregate, DayStored, files, tracker, writer, service, cursor, deletion,
      CompletedMeansGone, InShard, DataInv
<1>8. CASE SaveSummary
  BY <1>8 DEF SaveSummary, DayStored, Reject, files, tracker, writer, service, cursor,
      deletion, CompletedMeansGone, InShard, DataInv
<1>9. CASE StartRetention
  BY <1>9 DEF StartRetention, Start, Expired, Present, files, tracker, writer, service,
      cursor, deletion, CompletedMeansGone, InShard, DataInv
<1>10. ASSUME NEW d \in Days, LoadVerified(d) PROVE CompletedMeansGone'
  BY <1>10 DEF LoadVerified, files, tracker, writer, service, cursor, deletion,
      CompletedMeansGone, InShard, DataInv
<1>11. CASE Compare
  BY <1>11 DEF Compare, NextDate, files, tracker, writer, service, cursor, deletion,
      CompletedMeansGone, InShard, DataInv
<1>12. CASE RemoveExpired
  BY <1>12, RemoveEffect, Places
     DEF RemoveExpired, RemoveShard, NextDate, files, tracker, writer, service,
      cursor, deletion, CompletedMeansGone, InShard, DeletionTracked,
      DeletionGuarded, Finished, LinesEnded, JobIdle, DataInv
<1>13. CASE StartRebuild
  BY <1>13 DEF StartRebuild, Start, Present, files, tracker, writer, service, cursor,
      deletion, CompletedMeansGone, InShard, DataInv
<1>14. ASSUME NEW d \in Days, LoadExisting(d) PROVE CompletedMeansGone'
  BY <1>14 DEF LoadExisting, files, tracker, writer, service, cursor, deletion,
      CompletedMeansGone, InShard, DataInv
<1>15. CASE Recompute
  BY <1>15 DEF Recompute, NextDate, files, tracker, writer, service, cursor, deletion,
      CompletedMeansGone, InShard, DataInv
<1>16. CASE Replace
  BY <1>16 DEF Replace, NextDate, files, tracker, writer, service, cursor, deletion,
      CompletedMeansGone, InShard, DataInv
<1>17. ASSUME NEW scope \in Scopes, MakePlan(scope) PROVE CompletedMeansGone'
  BY <1>17, Places
     DEF MakePlan, files, tracker, writer, service, cursor, deletion,
      CompletedMeansGone, InShard, DeletionTracked, DeletionGuarded, Finished,
      JobIdle, Start, PlanFor, Affected, LinesEnded, DataInv
<1>18. CASE Execute
  BY <1>18, Places
     DEF Execute, Start, files, tracker, writer, service, cursor, deletion,
      CompletedMeansGone, InShard, DeletionTracked, DeletionGuarded, Finished,
      JobIdle, PlanFor, Affected, LinesEnded, DataInv
<1>19. ASSUME NEW d \in Days, Target(d) PROVE CompletedMeansGone'
  BY <1>19, Places
     DEF Target, Drift, files, tracker, writer, service, cursor, deletion,
      CompletedMeansGone, InShard, DeletionTracked, DeletionGuarded, Finished,
      JobIdle, Start, PlanFor, Affected, LinesEnded, DataInv
<1>20. CASE BeginRewrite
  BY <1>20, Places
     DEF BeginRewrite, Settle, Result, NextDate, Acquire, files, tracker, writer,
      service, cursor, deletion, CompletedMeansGone, InShard, DeletionTracked,
      DeletionGuarded, Finished, JobIdle, Start, PlanFor, Affected, LinesEnded,
      DataInv
<1>21. CASE FinishRewrite
  BY <1>21, RewriteEffect, Places
     DEF FinishRewrite, Settle, Result, NextDate, Release, files, tracker, writer,
      service, cursor, deletion, CompletedMeansGone, InShard, DeletionTracked,
      DeletionGuarded, Finished, JobIdle, DataInv
<1>22. CASE AggregateKept
  BY <1>22, Places
     DEF AggregateKept, Settle, Result, NextDate, files, tracker, writer, service,
      cursor, deletion, CompletedMeansGone, InShard, DeletionTracked,
      DeletionGuarded, Finished, JobIdle, Start, PlanFor, Affected, LinesEnded,
      DataInv
<1>23. CASE ReplaceKept
  BY <1>23, Places
     DEF ReplaceKept, Settle, Result, NextDate, files, tracker, writer, service,
      cursor, deletion, CompletedMeansGone, InShard, DeletionTracked,
      DeletionGuarded, Finished, JobIdle, Start, PlanFor, Affected, LinesEnded,
      DataInv
<1>24. CASE DropShard
  BY <1>24, RemoveEffect, Places
     DEF DropShard, Settle, Result, NextDate, RemoveShard, files, tracker, writer,
      service, cursor, deletion, CompletedMeansGone, InShard, DeletionTracked,
      DeletionGuarded, Finished, LinesEnded, JobIdle, DataInv
<1>25. CASE ForgetSummary
  BY <1>25, Places
     DEF ForgetSummary, Settle, Result, NextDate, files, tracker, writer, service,
      cursor, deletion, CompletedMeansGone, InShard, DeletionTracked,
      DeletionGuarded, Finished, JobIdle, Start, PlanFor, Affected, LinesEnded,
      DataInv
<1>26. CASE Crash
  BY <1>26 DEF Crash, files, tracker, writer, service, cursor, deletion,
      CompletedMeansGone, InShard, DataInv
<1> QED
  BY <1>1, <1>2, <1>3, <1>4, <1>5, <1>6, <1>7, <1>8, <1>9, <1>10, <1>11,
      <1>12, <1>13, <1>14, <1>15, <1>16, <1>17, <1>18, <1>19, <1>20, <1>21,
      <1>22, <1>23, <1>24, <1>25, <1>26
     DEF Next, WriterStep, JobStep, RetentionStep, RebuildStep, DeletionStep

-----------------------------------------------------------------------------
(* The theorems.                                                           *)

\* Every state of every behaviour satisfies the inductive invariant.
THEOREM DataInvariant ==
  ASSUME Sound
  PROVE  Spec => []DataInv
<1>1. Init => DataInv
  <2> SUFFICES ASSUME Init PROVE DataInv
    OBVIOUS
  <2> USE DEF Init, FilesInit
  <2>1. shard \in [Days -> Shard] /\ summary \in [Days -> Summary]
    BY Resets
  <2>2. TypeOK
    BY <2>1, Resets DEF TypeOK, FilesType, TrackerType, WriterType, CursorType, DeletionType
  <2>3. LinesEnded
    BY DEF LinesEnded, NoShard
  <2>4. QueueFree
    BY DEF QueueFree
  <2>5. SafeInFiles /\ BatchStored
    BY DEF SafeInFiles, BatchStored
  <2>6. /\ JobIdle /\ RetentionGuarded /\ RebuildGuarded /\ PlanSelects
        /\ DeletionGuarded
    BY DEF JobIdle, RetentionGuarded, RebuildGuarded, PlanSelects, DeletionGuarded, NoPlan
  <2>7. DeletionTracked /\ CompletedMeansGone
    BY DEF DeletionTracked, CompletedMeansGone
  <2> QED
    BY <2>2, <2>3, <2>4, <2>5, <2>6, <2>7 DEF DataInv
<1>2. DataInv /\ [Next]_vars => DataInv'
  <2> SUFFICES ASSUME DataInv, [Next]_vars PROVE DataInv'
    OBVIOUS
  <2>1. CASE Next
    <3>1. TypeOK'
      BY <2>1, KeepsFilesType, KeepsTrackerType, KeepsWriterType, KeepsCursorType,
         KeepsDeletionType DEF TypeOK
    <3> QED
      BY <2>1, <3>1, KeepsQueue, KeepsLines, KeepsIdle, KeepsSafe, KeepsBatch,
         KeepsRetention, KeepsRebuild, KeepsPlan, KeepsDeletion,
         KeepsTracked, KeepsComplete DEF DataInv
  <2>2. CASE UNCHANGED vars
    <3> USE <2>2 DEF vars, files, tracker, writer, service, cursor, deletion, DataInv
    <3>1. TypeOK'
      BY DEF TypeOK, FilesType, TrackerType, WriterType, CursorType, DeletionType
    <3>2. QueueFree' /\ LinesEnded' /\ JobIdle'
      BY DEF QueueFree, LinesEnded, JobIdle
    <3>3. SafeInFiles'
      BY DEF SafeInFiles, InShard, InSummary, Settled, Protected
    <3>4. BatchStored'
      BY DEF BatchStored, InShard
    <3>5. RetentionGuarded'
      BY DEF RetentionGuarded, Protected
    <3>6. RebuildGuarded' /\ PlanSelects' /\ DeletionGuarded'
      BY DEF RebuildGuarded, PlanSelects, DeletionGuarded
    <3>7. DeletionTracked' /\ CompletedMeansGone'
      BY DEF DeletionTracked, CompletedMeansGone, Finished, InShard
    <3> QED
      BY <3>1, <3>2, <3>3, <3>4, <3>5, <3>6, <3>7
  <2> QED
    BY <2>1, <2>2
<1> QED
  BY <1>1, <1>2, PTL DEF Spec

\* No maintenance destroys the only durable representation of a record: what
\* the tracker has forgotten is in its shard or in its summary until a deletion
\* erases it (NothingLost).
THEOREM RetentionIsSafe ==
  ASSUME Sound
  PROVE  Spec => []NothingLost
<1>1. DataInv => NothingLost
  BY DEF DataInv, SafeInFiles, NothingLost
<1> QED
  BY <1>1, DataInvariant, PTL

\* A failed append or rewrite never keeps the queue of its shard (QueueFree).
THEOREM QueueNeverPoisoned ==
  ASSUME Sound
  PROVE  Spec => []QueueFree
<1>1. DataInv => QueueFree
  BY DEF DataInv
<1> QED
  BY <1>1, DataInvariant, PTL

\* Raw evidence leaves a shard only by a deletion that selects it, or by
\* retention once a readable summary counts it (EvidenceLeaves).
THEOREM EvidenceIsKept ==
  ASSUME Sound
  PROVE  Spec => EvidenceLeaves
<1> DEFINE A == \A r \in Records : InShard(r) /\ ~InShard(r)' =>
             \/ job = "deletion" /\ r \in plan.scope.records
             \/ job = "retention" /\ DayOf[r] \in jLeft /\ InSummary(r)
<1>1. DataInv /\ [Next]_vars => [A]_vars
  <2> SUFFICES ASSUME DataInv, Next PROVE A
    OBVIOUS
  <2> SUFFICES ASSUME NEW r \in Records, InShard(r), ~InShard(r)'
               PROVE  \/ job = "deletion" /\ r \in plan.scope.records
                      \/ job = "retention" /\ DayOf[r] \in jLeft /\ InSummary(r)
    OBVIOUS
  <2>1. DayOf[r] \in Days /\ shard' # shard
    BY Places DEF InShard
  <2>2. CASE FinishAppend \/ AppendThrows
    BY <2>1, <2>2, AppendEffect DEF InShard
  <2>3. CASE FinishRewrite
    BY <2>1, <2>3, RewriteEffect DEF InShard, FinishRewrite
  <2>4. CASE RemoveExpired
    <3>1. /\ jDay \in jLeft /\ jDay \in Days /\ DayOf[r] = jDay
      BY <2>1, <2>4, RemoveEffect DEF InShard
    <3> QED
      BY <2>4, <3>1 DEF RemoveExpired, InShard, InSummary, DataInv, RetentionGuarded
  <2>5. CASE DropShard
    <3>1. DayOf[r] = jDay /\ job = "deletion" /\ ~plan.scope.byFile
      BY <2>1, <2>5, RemoveEffect DEF InShard, DropShard, DataInv, DeletionGuarded
    <3>2. jDay \in plan.scope.days
      BY <2>5, <3>1, RemoveEffect DEF DataInv, DeletionGuarded
    <3> QED
      BY <3>1, <3>2 DEF DataInv, PlanSelects, OnDay
  <2>6. shard' = shard \/ FinishAppend \/ AppendThrows \/ FinishRewrite \/ RemoveExpired
          \/ DropShard
    BY DEF Next, WriterStep, JobStep, RetentionStep, RebuildStep, DeletionStep, Tick,
       Produce, HandOver, BeginAppend, Aggregate, SaveSummary, StartRetention,
       StartRebuild, MakePlan, Execute, LoadVerified, Compare, LoadExisting, Recompute,
       Replace, Target, BeginRewrite, AggregateKept, ReplaceKept, ForgetSummary, Crash,
       files
  <2> QED
    BY <2>1, <2>2, <2>3, <2>4, <2>5, <2>6
<1> QED
  BY <1>1, DataInvariant, PTL DEF Spec, EvidenceLeaves

\* A deletion that reports success has removed every confirmed record it
\* previewed, and nothing brings one back (CompletedMeansGone).
THEOREM DeletionIsComplete ==
  ASSUME Sound
  PROVE  Spec => []CompletedMeansGone
<1>1. DataInv => CompletedMeansGone
  BY DEF DataInv
<1> QED
  BY <1>1, DataInvariant, PTL
=============================================================================
