------------------------------ MODULE DayFiles ------------------------------
(***************************************************************************)
(* What one device keeps of each local date: the NDJSON shard with the raw *)
(* records (src/data/ndjson-shard-store.ts) and the daily summary derived  *)
(* from it (src/data/daily-summary-repository.ts).                         *)
(*                                                                         *)
(* A record is known by its recordId, a summary by the set of records it   *)
(* was aggregated from (its sourceFingerprint).  `held` is the set of dates*)
(* whose shard queue is running a task: append, rewrite and remove of one  *)
(* shard wait for each other, reads wait for nobody.  Saves of a summary   *)
(* are not ordered at all, for each builds a SafeJsonStore of its own.     *)
(***************************************************************************)
EXTENDS Naturals

CONSTANTS
  Records,   \* the records a device may produce
  LastDay,   \* bound: local dates are 0..LastDay
  DayOf,     \* the local date of a record
  FileOf,    \* the file of a record
  Silent,    \* records that add nothing to any metric (a delta of zero)
  Faults     \* the operations of the adapter that may fail

ASSUME DayFilesAssumption ==
  /\ LastDay \in Nat
  /\ DayOf \in [Records -> 0 .. LastDay]
  /\ Silent \subseteq Records

VARIABLES shard, summary, held

Days  == 0 .. LastDay
files == <<shard, summary, held>>

(***************************************************************************)
(* Shards                                                                  *)
(***************************************************************************)
\* damaged: reading it yields diagnostics.  unended: the last record, when
\* its line lacks the newline.
Shard   == [exists : BOOLEAN, records : SUBSET Records,
            damaged : BOOLEAN, unended : SUBSET Records]
NoShard == [exists |-> FALSE, records |-> {}, damaged |-> FALSE, unended |-> {}]
Lines(S, broken, cut) ==
  [exists |-> TRUE, records |-> S, damaged |-> broken, unended |-> cut]

OnDay(S, d) == {r \in S : DayOf[r] = d}

Reading    == [records : SUBSET Records, damaged : BOOLEAN]
Unreadable == [records |-> {}, damaged |-> TRUE]

\* read: what it may return.
ReadsOf(d) ==
  {[records |-> shard[d].records, damaged |-> shard[d].damaged]}
    \cup (IF "read" \in Faults THEN {Unreadable} ELSE {})

\* rebuild: no records and no diagnostics.
RawUnavailable(got) == got.records = {} /\ ~got.damaged

Acquire(d) == d \notin held /\ held' = held \cup {d}

\* Mutant: the queue waits for ever behind its last task.
ReleaseNever(d) == UNCHANGED held

Release(d) == held' = held \ {d}

\* append of the lines of `new`: a line behind one without its newline joins
\* it, and neither of the two records can be read again; a record that is
\* there already becomes a duplicate line, which is a diagnostic.
Appended(d, new) ==
  LET old == shard[d]
  IN  IF old.unended = {}
        THEN {Lines(old.records \cup new, old.damaged \/ new \cap old.records # {}, {})}
        ELSE {Lines((old.records \cup new) \ (old.unended \cup {joined}), TRUE, {}) :
                joined \in new}

\* append that fails: nothing, some of the lines, or a torn one.
Interrupted(d, new) ==
  LET old   == shard[d]
      part  == UNION {Appended(d, some) : some \in SUBSET new \ {{}}}
      torn  == Lines(old.records \ old.unended, TRUE, {})
  IN  {old, torn} \cup part \cup {[s EXCEPT !.damaged = TRUE] : s \in part}

\* append that fails one byte short: the last line lacks its newline.
CutShort(d, new) ==
  UNION {{[s EXCEPT !.unended = {last}] : last \in new \cap s.records} :
           s \in Appended(d, new)}

\* rewrite: the shard is overwritten in place, and a write that fails leaves a
\* part of it.
Overwritten(kept) ==
  {Lines(kept, FALSE, {})}
    \cup (IF "rewrite" \in Faults THEN {Lines(part, TRUE, {}) : part \in SUBSET kept} ELSE {})

(***************************************************************************)
(* Summaries                                                               *)
(***************************************************************************)
Summary        == [status : {"missing", "loaded", "corrupt"}, counts : SUBSET Records]
NoSummary      == [status |-> "missing", counts |-> {}]
CorruptSummary == [status |-> "corrupt", counts |-> {}]
Loaded(S)      == [status |-> "loaded", counts |-> S]

\* load: what it may return.
LoadsOf(d) == {summary[d]} \cup (IF "read" \in Faults THEN {CorruptSummary} ELSE {})

\* Two summaries with these equal have the same metricsByFileId.
Metrics(S) == <<S \ Silent, {FileOf[r] : r \in S}>>

\* save
Save(d, S) == summary' = [summary EXCEPT ![d] = Loaded(S)]

\* save that throws: the primary is the old one, the new one, or torn.
SaveThrows(d, S) ==
  /\ "save" \in Faults
  /\ \E after \in {summary[d], Loaded(S), CorruptSummary} :
       summary' = [summary EXCEPT ![d] = after]

FilesInit ==
  /\ shard = [d \in Days |-> NoShard]
  /\ summary = [d \in Days |-> NoSummary]
  /\ held = {}
=============================================================================
