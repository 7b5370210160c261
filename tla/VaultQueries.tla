---------------------------- MODULE VaultQueries ----------------------------
(***************************************************************************)
(* The registry and the map together: time is recorded under the identity  *)
(* a resolve answered, the vault moves on, and every query must still      *)
(* account for all of it (query-service.ts, ui/live-distribution.ts).      *)
(***************************************************************************)
EXTENDS FileRegistry, Integers, FiniteSets

CONSTANTS Dates, MaxRecords, MaxChart

ASSUME QueryAssumption ==
  /\ IsFiniteSet(Ids) /\ IsFiniteSet(Dates) /\ Dates \subseteq Int
  /\ MaxRecords \in Nat /\ MaxChart \in Nat

\* No path is a file's at one time and a folder's at another; no item is called None.
ASSUME NamesAssumption ==
  /\ \A p \in Paths : p \notin Folders \union {<<>>} /\ \A r \in Paths : ~IsUnder(r, p)
  /\ None \notin ({"file"} \X Ids) \union ({"dir"} \X Seq(STRING))

VARIABLE time    \* what the summaries hold, by date and identity

queryVars == <<vars, time>>

D == INSTANCE Distribution

Recorded == {d \in Dates : \E id \in Ids : time[d][id] > 0}

TotalRecords == D!SumOver(Dates \X Ids, [x \in Dates \X Ids |-> time[x[1]][x[2]]])

\* mergeSummaries: a file is in the sum when a summary of the range has it.
Merged(dates) ==
  LET ids == {id \in Ids : \E d \in dates \intersect Dates : time[d][id] > 0}
  IN  [id \in ids |-> D!SumOver(dates \intersect Dates, [d \in Dates |-> time[d][id]])]

RecordTime ==
  /\ Settled /\ target # None
  /\ TotalRecords < MaxRecords
  /\ \E d \in Dates : time' = [time EXCEPT ![d][target.id] = @ + 1]
  /\ UNCHANGED vars

QueryInit == Init /\ time = [d \in Dates |-> [id \in Ids |-> 0]]

QueryNext == RecordTime \/ (Next /\ UNCHANGED time)

QuerySpec == QueryInit /\ [][QueryNext]_queryVars

-----------------------------------------------------------------------------
\* Without 'local-files' grouped by file, which nothing asks for: its items leave the scope
\* (distribution-query.ts:184-185).
Views == {[view |-> "children", groupBy |-> "path"], [view |-> "children", groupBy |-> "file"],
          [view |-> "local-files", groupBy |-> "path"]}

Queries == {[path |-> p, view |-> v.view, groupBy |-> v.groupBy, most |-> MaxChart] :
              p \in Folders \union {<<>>}, v \in Views}

Ranges == {[mode |-> "day", day |-> d, days |-> None] : d \in Dates}
            \union {[mode |-> "all", day |-> 0, days |-> None]}
            \union {[mode |-> "average", day |-> d, days |-> n] : d \in Dates, n \in {2, None}}

\* Every stored result depends on these alone; other states repeat them.
Quiet == queue = <<>> /\ ~clearing /\ writing = None /\ ~corrupted

Value == Merged(Dates)

Selected(range) == Merged(D!ResolveRange(range, Recorded).dates)

\* The ranges that leave no recorded date out.
Complete(range) ==
  range.mode = "all" \/ (range.mode = "average" /\ range.days = None /\ \A d \in Recorded : d <= range.day)

ItemSum(items) == D!SumOver({i.id : i \in items}, [k \in {i.id : i \in items} |->
                    (CHOOSE i \in items : i.id = k).value])

\* The slices and the details add up to the total of the scope.
AddsUp(result) ==
  /\ ItemSum(result.chart) = result.scope /\ ItemSum(result.detail) = result.scope
  /\ \A i, j \in result.detail : i.id = j.id => i = j

\* No file is in two slices.
Disjoint(result) == \A i, j \in result.chart : i # j => i.members \intersect j.members = {}

\* Whatever was moved, deleted, forgotten or cleared, the chart of every scope and every range
\* partitions it, and the root shows all of it.  Over the whole history it is all recorded time.
ChartsAddUp ==
  Quiet =>
    /\ \A value \in {Selected(range) : range \in Ranges}, q \in Queries :
         LET r == D!RunQuery(q, value, entries)
         IN  /\ AddsUp(r) /\ Disjoint(r)
             /\ q.path = <<>> /\ q.view = "children" => r.scope = r.vault
    /\ \A range \in Ranges : Complete(range) =>
         D!SumOver(DOMAIN Selected(range), Selected(range)) = TotalRecords

DeletedIn(folder) ==
  {id \in DOMAIN Value :
     entries[id] # None /\ entries[id].current = None /\ D!Within(entries[id].lastKnown, folder)}

\* A folder opened from the map shows the time its slice promised, and the history of files
\* that were deleted there, nothing else.
DrillDownKeepsTime ==
  Quiet => \A q \in Queries : q.view = "children" /\ q.groupBy = "path" =>
    \A i \in D!RunQuery(q, Value, entries).detail : i.id[1] = "dir" =>
      D!ScopeTotal([q EXCEPT !.path = i.id[2]], Value, entries)
        = i.value + D!SumOver(DeletedIn(i.id[2]), Value)

\* The open session is counted once, also when its file moved since the session began.  As long
\* as it did not, it is counted where a later query will count it: the overlay of a result is
\* the result of a query over the time including the session.
LiveIsLaterQuery ==
  Quiet /\ target # None => \A q \in Queries :
    LET live  == D!WithLive(q, D!RunQuery(q, Value, entries), target.id, target.path, 1)
        later == [id \in DOMAIN Value \union {target.id} |->
                    (IF id \in DOMAIN Value THEN Value[id] ELSE 0) + IF id = target.id THEN 1 ELSE 0]
    IN  /\ AddsUp(live)
        /\ live.vault = TotalRecords + 1
        /\ entries[target.id] # None /\ entries[target.id].current = target.path =>
             live = D!RunQuery(q, later, entries)

-----------------------------------------------------------------------------
\* What the queries rely on: time is kept by date and identity, and recorded for an identity.
TimeOK == time \in [Dates -> [Ids -> Nat]]

TargetOK == target \in [id : Ids, path : Paths] \union {None}

QueryInv == RegistryInv /\ TimeOK /\ TargetOK

=============================================================================
