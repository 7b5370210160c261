---------------------------- MODULE Distribution ----------------------------
(***************************************************************************)
(* query/: how recorded time becomes the map.  A range selects dates, the  *)
(* summaries of those dates are merged per identity, identities are        *)
(* projected onto their present paths, grouped under the selected path,    *)
(* ranked and cut to a chart.  ui/live-distribution.ts adds the time of    *)
(* the session that is still open.                                         *)
(*                                                                         *)
(* A query is [path, view, groupBy, most]; an entry is [current, lastKnown] *)
(* or None; an item is [id, value, members], its id <<kind, path or id>>.  *)
(***************************************************************************)
EXTENDS Integers, Sequences, FiniteSets, FiniteSetsExt

CONSTANT None

Root == <<>>

\* path is folder, or lies under it; everything lies under the root.
Within(path, folder) == Len(folder) <= Len(path) /\ SubSeq(path, 1, Len(folder)) = folder

-----------------------------------------------------------------------------
\* Date ranges: [mode, day] of one day, of all days, or of the `days` before and on a day.

\* The window of an average starts no earlier than the first recorded date.
WindowStart(range, recorded) ==
  IF range.days = None THEN Min(recorded)
  ELSE Max({Min(recorded), range.day - range.days + 1})

ResolveRange(range, recorded) ==
  CASE range.mode = "day" -> [dates |-> {range.day}, denominator |-> None]
    [] range.mode = "all" -> [dates |-> recorded, denominator |-> None]
    [] range.mode = "average" ->
         LET dates == WindowStart(range, recorded) .. range.day
         IN  IF recorded = {} THEN [dates |-> {}, denominator |-> None]
             ELSE [dates |-> dates, denominator |-> Cardinality(dates)]

-----------------------------------------------------------------------------
\* Path projection.

SumOver(ids, of) == SumFunctionOnSet(of, ids)

Gone(id, entries) == entries[id] = None \/ entries[id].current = None

\* Mutant: unknown identities leak into every folder.
DeletedEverywhere(value, entries, path) ==
  {id \in DOMAIN value : Gone(id, entries) /\
     (entries[id] = None \/ Within(entries[id].lastKnown, path))}

\* Deleted history stays under its last known folder; an unknown identity is shown at the root.
DeletedUnder(value, entries, path) ==
  {id \in DOMAIN value : Gone(id, entries) /\
     (path = Root \/ (entries[id] # None /\ Within(entries[id].lastKnown, path)))}

PresentUnder(value, entries, path) ==
  {id \in DOMAIN value : ~Gone(id, entries) /\ Within(entries[id].current, path)}

\* The folder below path that leads to the file, or None for a file of the folder itself.
ChildFolder(file, path) ==
  IF Len(file) <= Len(path) + 1 THEN None ELSE SubSeq(file, 1, Len(path) + 1)

Groups(value, entries, path) ==
  LET present == PresentUnder(value, entries, path)
      folderOf(id) == ChildFolder(entries[id].current, path)
  IN  {[folder |-> f, files |-> {id \in present : folderOf(id) = f}] :
         f \in {folderOf(id) : id \in present}}

-----------------------------------------------------------------------------
\* The query.

FileItem(value, id) == [id |-> <<"file", id>>, value |-> value[id], members |-> {id}]

GroupItem(value, kind, files) == [id |-> kind, value |-> SumOver(files, value), members |-> files]

\* Groups the view shows.
Visible(groups, view) == {g \in groups : view = "local-files" => g.folder = None}

\* Mutant: deleted history is listed but missing in the total.
PresentTotal(q, value, entries) ==
  SumOver(UNION {g.files : g \in Visible(Groups(value, entries, q.path), q.view)}, value)

ScopeTotal(q, value, entries) ==
  LET shown == UNION {g.files : g \in Visible(Groups(value, entries, q.path), q.view)}
  IN  SumOver(shown, value)
        + (IF q.view = "children" THEN SumOver(DeletedUnder(value, entries, q.path), value) ELSE 0)

DetailItems(q, value, entries) ==
  LET groups == Groups(value, entries, q.path)
      deleted == DeletedUnder(value, entries, q.path)
      byFile  == {FileItem(value, id) : id \in UNION {g.files : g \in groups}}
      byPath  == UNION {IF g.folder = None THEN {FileItem(value, id) : id \in g.files}
                        ELSE {GroupItem(value, <<"dir", g.folder>>, g.files)}
                        : g \in Visible(groups, q.view)}
  IN  (IF q.groupBy = "file" THEN byFile ELSE byPath)
        \union IF q.view = "children" /\ deleted # {}
               THEN {GroupItem(value, <<"deleted">>, deleted)} ELSE {}

Positive(items) == {i \in items : i.value > 0}

\* The first `most` items by falling value; which of equal ones depends on the items alone.
Top(items, most) ==
  CHOOSE top \in SUBSET items :
    Cardinality(top) = most /\ \A i \in top, j \in items \ top : i.value >= j.value

Other(rest) ==
  [id |-> <<"other">>, value |-> SumOver(rest, [i \in rest |-> i.value]),
   members |-> UNION {i.members : i \in rest}]

\* The most valuable items, and one item for the rest.
ChartItems(items, most) ==
  LET shown == Positive(items)
      top == Top(shown, most)
  IN  IF Cardinality(shown) <= most THEN shown ELSE top \union {Other(shown \ top)}

RunQuery(q, value, entries) ==
  LET detail == DetailItems(q, value, entries)
  IN  [scope |-> ScopeTotal(q, value, entries),
       vault |-> SumOver(DOMAIN value, value),
       detail |-> detail,
       chart |-> ChartItems(detail, q.most)]

-----------------------------------------------------------------------------
\* The open session on top of a result: id and path of its file, and its time so far.

\* The item the path belongs to, or None when the query does not show it.
ScopeOwner(q, id, path) ==
  IF ~Within(path, q.path) \/ Len(path) = Len(q.path) THEN None
  ELSE IF q.groupBy = "file" THEN <<"file", id>>
  ELSE IF ChildFolder(path, q.path) = None THEN <<"file", id>>
  ELSE IF q.view = "local-files" THEN None
  ELSE <<"dir", ChildFolder(path, q.path)>>

Credited(item, id, live) == [item EXCEPT !.value = @ + live, !.members = @ \union {id}]

\* The first item that has the file as a member or is the owner; else a new item.
AddToOwner(items, owner, id, live) ==
  LET fits == {i \in items : id \in i.members \/ i.id = owner}
      first == CHOOSE i \in fits : \A j \in fits : j.value <= i.value
  IN  IF fits = {} THEN items \union {[id |-> owner, value |-> live, members |-> {id}]}
      ELSE (items \ {first}) \union {Credited(first, id, live)}

\* Mutant: the slices of the stored chart stay as they were.
LiveBesideChart(q, result, id, path, live) ==
  LET owner == ScopeOwner(q, id, path)
  IN  [result EXCEPT !.scope = @ + IF owner = None THEN 0 ELSE live, !.vault = @ + live,
                     !.detail = IF owner = None THEN @ ELSE AddToOwner(@, owner, id, live)]

\* The chart is cut anew, so that a live file obeys the same limit.
WithLive(q, result, id, path, live) ==
  LET owner  == ScopeOwner(q, id, path)
      detail == IF owner = None THEN result.detail
                ELSE AddToOwner(result.detail, owner, id, live)
  IN  IF live = 0 THEN result
      ELSE [scope |-> result.scope + IF owner = None THEN 0 ELSE live,
            vault |-> result.vault + live,
            detail |-> detail,
            chart |-> ChartItems(detail, q.most)]

=============================================================================
