----------------------- MODULE ActivityMapController -----------------------
(***************************************************************************)
(* The controller every Activity Map surface shares                        *)
(* (ui/activity-map-controller.ts): the view model, the generations that   *)
(* reject late query answers, the optimistic preference changes and their  *)
(* rollback; the settings repository behind it                             *)
(* (data/settings-repository.ts); and the header's miniature, which loads  *)
(* its own result after each generation (ui/header-action-manager.ts).     *)
(*                                                                         *)
(* Data abstracted: a result is the query it answers; a query keeps its    *)
(* grouping, metric, range and path; `rest` stands for every setting that  *)
(* only the settings tab changes, a number kept within its range.  A       *)
(* range is a day or an average window ending today ("all" is an average   *)
(* that no date changes).  "ready" stands for ready and empty.             *)
(***************************************************************************)
EXTENDS Integers, Sequences

CONSTANTS
    Paths,          \* folders a query can be scoped to, Root among them
    Root,
    Rests,          \* values the settings tab may submit
    RestMin, RestMax,  \* the documented range of that setting
    MaxIntents,     \* user intents in a behaviour
    MaxFailures,    \* saves and queries that fail in a behaviour
    MaxDay,         \* the local date runs from 1 to MaxDay
    None

Groupings == {"path", "file"}
Metrics == {"active", "typed"}
Modes == {"day", "average"}
Kinds == {"grouping", "preference", "settings"}
Fields == {"grouping", "metric", "range", "rest"}
Days == 1 .. MaxDay

Settings == [grouping : Groupings, metric : Metrics, range : Modes,
             rest : RestMin .. RestMax]
Ranges == [mode : Modes, day : Days]
Queries == [grouping : Groupings, metric : Metrics, range : Ranges, path : Paths]

\* A query run or a miniature's load, a preference change that waits or runs, a view model, a
\* miniature, and a save.
Runs == [gen : Nat, query : Queries]
Changes == [patch : [metric : Metrics], range : {None}] \cup [patch : [range : Modes], range : Ranges]
Changing == [gen : Nat, saved : BOOLEAN]
Models == [load : {"loading", "ready", "error"}, query : Queries, dist : Queries \cup {None},
           settings : Settings, gen : Nat]
Headers == [dist : Queries \cup {None}, gen : Int, loading : Runs \cup {None}]
Saves == [kind : Kinds, fields : SUBSET Fields, value : Settings, mark : Nat,
          query : Queries, settings : Settings, beside : BOOLEAN]

ASSUME ControllerAssumption ==
    /\ Root \in Paths
    /\ Rests \subseteq Int
    /\ RestMin \in Int /\ RestMax \in Int /\ RestMin <= RestMax
    /\ MaxIntents \in Nat /\ MaxFailures \in Nat
    /\ MaxDay \in Nat \ {0}
    /\ None \notin Queries \cup Runs \cup Changing \cup Ranges

VARIABLES
    model,       \* the published view model
    generation,  \* the newest query generation
    revision,    \* groupingRevision
    today,       \* the local date of the last snapshot
    stopped,
    queries,     \* query runs that have not answered
    waiting,     \* preference changes queued behind the running one
    running,     \* the running preference change, or None
    current,     \* the repository's effective settings
    disk,        \* what saveData last stored
    saves,       \* the repository's write queue
    tracked,     \* the setting the tracker runs with
    header,      \* the miniature's result, generation and load in flight
    intents,     \* how many intents were dispatched (bound)
    failures,    \* how many saves and queries failed (bound)
    writer,      \* ghost: the kind of update that last stored each setting
    reverted,    \* ghost: settings a save put back to an older value
    crossed,     \* ghost: a rollback ran beside another settings update
    missed       \* ghost: the default query changed without a generation

controllerVars == <<model, generation, revision, today, stopped, queries>>
settingsVars == <<waiting, running, current, disk, saves, tracked>>
ghosts == <<writer, reverted, crossed>>
vars == <<controllerVars, settingsVars, header, intents, failures, ghosts, missed>>

(***************************************************************************)
(* Settings: merge a patch into the repository's value and normalise it.   *)
(***************************************************************************)
Clamped(n) == IF n < RestMin THEN RestMin ELSE IF n > RestMax THEN RestMax ELSE n

\* The optimistic view: the patch as it was asked for.
Patched(s, patch) == [f \in Fields |-> IF f \in DOMAIN patch THEN patch[f] ELSE s[f]]

Merged(base, patch) == [Patched(base, patch) EXCEPT !.rest = Clamped(@)]

(***************************************************************************)
(* The fresh root query a popover opens with and the miniature shows.      *)
(***************************************************************************)
DefaultQuery(s, date) ==
    [grouping |-> s.grouping, metric |-> s.metric,
     range |-> [mode |-> s.range, day |-> date], path |-> Root]

InitialSettings ==
    [grouping |-> "path", metric |-> "active", range |-> "day", rest |-> RestMin]

InitialModel ==
    [load |-> "loading", query |-> DefaultQuery(InitialSettings, 1), dist |-> None,
     settings |-> InitialSettings, gen |-> 0]

(***************************************************************************)
(* The miniature.  Every publish asks for a result of the model's          *)
(* generation unless one is loading or already there.                      *)
(***************************************************************************)
Asked(h, m, date) ==
    IF h.loading # None \/ h.gen = m.gen THEN h
    ELSE [h EXCEPT !.loading = [gen |-> m.gen, query |-> DefaultQuery(m.settings, date)]]

\* Mutant: the settled load does not look at the generation again.
SettledOnce(h) == [h EXCEPT !.loading = None]
Settled(h) ==
    LET done == [h EXCEPT !.loading = None]
    IN  IF stopped THEN done ELSE Asked(done, model, today)

HeaderAnswers ==
    /\ header.loading # None
    /\ LET load == header.loading
       IN  header' = Settled(IF stopped THEN header
                             ELSE [header EXCEPT !.dist = load.query, !.gen = load.gen])
    /\ UNCHANGED <<controllerVars, settingsVars, intents, ghosts, missed>>
    /\ UNCHANGED failures

HeaderFails ==
    /\ header.loading # None
    /\ failures < MaxFailures /\ failures' = failures + 1
    /\ header' = Settled([header EXCEPT !.dist = None, !.gen = header.loading.gen])
    /\ UNCHANGED <<controllerVars, settingsVars, intents, ghosts, missed>>

\* publish: the header manager is a listener until the plugin stops.
Publish(m, date) ==
    /\ model' = m
    /\ header' = IF stopped THEN header ELSE Asked(header, m, date)

(***************************************************************************)
(* Queries.  `Refresh` publishes a loading model of a new generation and   *)
(* runs its query; an answer counts only while its generation is newest.   *)
(***************************************************************************)
Refresh(m, date) ==
    /\ generation' = generation + 1
    /\ queries' = queries \cup {[gen |-> generation + 1, query |-> m.query]}
    /\ Publish([m EXCEPT !.load = "loading", !.gen = generation + 1], date)
    /\ missed' = FALSE

\* Mutant: the answer of any generation is published.
FreshAlways(q) == ~stopped
Fresh(q) == ~stopped /\ q.gen = generation

Answer(q) ==
    /\ queries' = queries \ {q}
    /\ IF Fresh(q)
       THEN Publish([model EXCEPT !.load = "ready", !.dist = q.query, !.gen = q.gen], today)
       ELSE UNCHANGED <<model, header>>
    /\ UNCHANGED <<generation, revision, today, stopped, settingsVars, intents, ghosts, missed>>
    /\ UNCHANGED failures

AnswerFails(q) ==
    /\ failures < MaxFailures /\ failures' = failures + 1
    /\ queries' = queries \ {q}
    /\ IF Fresh(q)
       THEN Publish([model EXCEPT !.load = "error", !.gen = q.gen], today)
       ELSE UNCHANGED <<model, header>>
    /\ UNCHANGED <<generation, revision, today, stopped, settingsVars, intents, ghosts, missed>>

(***************************************************************************)
(* The repository.  An update merges into the value of the moment it is    *)
(* called and queues the save; the save lands or fails later, in order.    *)
(* `mark` is the grouping's revision or the preference's generation.       *)
(***************************************************************************)
Update(kind, patch, mark, before) ==
    saves' = Append([i \in DOMAIN saves |-> [saves[i] EXCEPT !.beside = TRUE]],
                    [kind |-> kind, fields |-> DOMAIN patch,
                     value |-> Merged(current, patch), mark |-> mark,
                     query |-> before.query, settings |-> before.settings,
                     beside |-> saves # <<>>])

\* Stored settings that this save puts back although it was not asked to.
Reverts(save) ==
    {[field |-> f, of |-> writer[f], by |-> save.kind] :
        f \in {g \in Fields \ save.fields : save.value[g] # current[g]}}

\* The queue goes on with the next preference change once the running one
\* is saved and its own query has answered, or once it has failed.
RunningIsDone ==
    running # None => running.saved /\ \A q \in queries : q.gen # running.gen

\* Continuations of promises run before the next event of the window.
Drained == waiting # <<>> => ~RunningIsDone

(***************************************************************************)
(* What follows a save.  A grouping counts only while it is the newest.    *)
(***************************************************************************)
Saved(save) ==
    \/ /\ save.kind = "preference"
       /\ Publish([model EXCEPT !.settings = save.value], today)
       /\ running' = [gen |-> save.mark, saved |-> TRUE]
       /\ missed' = (missed \/ save.value # model.settings)
       /\ UNCHANGED <<generation, queries, tracked>>
    \/ /\ save.kind = "grouping"
       /\ model' = IF save.mark = revision
                   THEN [model EXCEPT !.settings = save.value] ELSE model
       /\ missed' = (missed \/ model' # model)
       /\ UNCHANGED <<generation, queries, running, tracked, header>>
    \/ /\ save.kind = "settings"
       /\ tracked' = save.value.rest
       /\ Refresh([model EXCEPT !.settings = save.value], today)
       /\ UNCHANGED running

SaveLands ==
    /\ saves # <<>>
    /\ Drained
    /\ LET save == Head(saves)
       IN  /\ disk' = save.value
           /\ current' = save.value
           /\ reverted' = reverted \cup Reverts(save)
           /\ writer' = [f \in Fields |-> IF f \in save.fields \/ save.value[f] # current[f]
                                     THEN save.kind ELSE writer[f]]
           /\ Saved(save)
    /\ saves' = Tail(saves)
    /\ UNCHANGED <<revision, today, stopped, waiting, intents, crossed>>
    /\ UNCHANGED failures

\* Mutant: the rollback leaves the load state of the optimistic query.
RollbackSilently(save) ==
    /\ generation' = generation + 1
    /\ Publish([model EXCEPT !.query = save.query, !.settings = save.settings], today)
    /\ missed' = TRUE
\* Mutant: the rollback restores the query and forgets the settings.
RollbackQueryOnly(save) ==
    /\ generation' = generation + 1
    /\ Publish([model EXCEPT !.query = save.query, !.load = "error"], today)
    /\ missed' = TRUE
\* The published generation stays: only the private counter moves.
Rollback(save) ==
    /\ generation' = generation + 1
    /\ Publish([model EXCEPT !.query = save.query, !.settings = save.settings,
                             !.load = "error"], today)
    /\ missed' = TRUE

\* Mutant: a failed preference change breaks the chain behind it.
FailedChain(save) == running
FailedPreference(save) == IF save.kind = "preference" THEN None ELSE running

SaveFails ==
    /\ saves # <<>>
    /\ failures < MaxFailures /\ failures' = failures + 1
    /\ Drained
    /\ LET save == Head(saves)
           undo == \/ save.kind = "preference"
                   \/ save.kind = "grouping" /\ save.mark = revision
       IN  /\ running' = FailedPreference(save)
           /\ IF undo
              THEN Rollback(save) /\ crossed' = (crossed \/ save.beside)
              ELSE UNCHANGED <<generation, model, header, crossed, missed>>
    /\ saves' = Tail(saves)
    /\ UNCHANGED <<revision, today, stopped, queries, waiting, current, disk, tracked,
                   intents, writer, reverted>>

(***************************************************************************)
(* Intents.                                                                *)
(***************************************************************************)
Dispatch ==
    /\ ~stopped
    /\ Drained
    /\ UNCHANGED failures
    /\ intents < MaxIntents
    /\ intents' = intents + 1

\* With the path it has, the query runs again: the refresh intent.
SetPath(p) ==
    /\ Dispatch
    /\ Refresh([model EXCEPT !.query.path = p], today)
    /\ UNCHANGED <<revision, today, stopped, settingsVars, ghosts>>

\* Opening a popover asks for the default query.
SetQuery ==
    /\ Dispatch
    /\ Refresh([model EXCEPT !.query = DefaultQuery(model.settings, today)], today)
    /\ UNCHANGED <<revision, today, stopped, settingsVars, ghosts>>

\* The popover's button toggles the grouping it shows.
SetGrouping ==
    LET next == IF model.query.grouping = "path" THEN "file" ELSE "path"
    IN  /\ Dispatch
        /\ revision' = revision + 1
        /\ Refresh([model EXCEPT !.query.grouping = next, !.settings.grouping = next], today)
        /\ Update("grouping", [grouping |-> next], revision + 1, model)
        /\ UNCHANGED <<today, stopped, waiting, running, current, disk, tracked, ghosts>>

SetMetric(metric) ==
    /\ Dispatch
    /\ waiting' = Append(waiting, [patch |-> [metric |-> metric], range |-> None])
    /\ UNCHANGED <<controllerVars, running, current, disk, saves, tracked, header,
                   ghosts, missed>>

SetRange(range) ==
    /\ Dispatch
    /\ waiting' = Append(waiting, [patch |-> [range |-> range.mode], range |-> range])
    /\ UNCHANGED <<controllerVars, running, current, disk, saves, tracked, header,
                   ghosts, missed>>

\* The query the change asks for, on the query of the moment it begins.
Chosen(query, change) ==
    IF change.range # None THEN [query EXCEPT !.range = change.range]
    ELSE [query EXCEPT !.metric = change.patch.metric]

\* Mutant: changes are not serialised.
NextChangeAlways == waiting # <<>>
NextChange == waiting # <<>> /\ RunningIsDone

BeginPreference ==
    /\ NextChange
    /\ LET change == Head(waiting)
       IN  /\ UNCHANGED revision
           /\ Refresh([model EXCEPT !.query = Chosen(@, change),
                                    !.settings = Patched(@, change.patch)], today)
           /\ Update("preference", change.patch, generation + 1, model)
           /\ running' = [gen |-> generation + 1, saved |-> FALSE]
    /\ waiting' = Tail(waiting)
    /\ UNCHANGED <<today, stopped, current, disk, tracked, intents, ghosts>>
    /\ UNCHANGED failures

\* The settings tab: nothing changes before the save lands.
UpdateSettings(value) ==
    /\ Dispatch
    /\ UNCHANGED revision
    /\ Update("settings", [rest |-> value], 0, model)
    /\ UNCHANGED <<model, generation, today, stopped, queries, waiting, running,
                   current, disk, tracked, header, ghosts, missed>>

(***************************************************************************)
(* A snapshot of the next local date.  Only the day query that shows the   *)
(* date that ended moves on.                                               *)
(***************************************************************************)
NewDay ==
    /\ ~stopped
    /\ Drained
    /\ today < MaxDay
    /\ today' = today + 1
    /\ IF model.query.range = [mode |-> "day", day |-> today]
       THEN Refresh([model EXCEPT !.query.range.day = today + 1], today + 1)
       ELSE Publish(model, today + 1) /\ missed' = TRUE /\ UNCHANGED <<generation, queries>>
    /\ UNCHANGED <<revision, stopped, settingsVars, intents, ghosts>>
    /\ UNCHANGED failures

\* Unload: the header lets go of its subscription, then the controller stops.
Stop ==
    /\ ~stopped
    /\ Drained
    /\ stopped' = TRUE
    /\ generation' = generation + 1
    /\ UNCHANGED <<model, revision, today, queries, settingsVars, header, intents,
                   ghosts, missed>>
    /\ UNCHANGED failures

Init ==
    /\ model = InitialModel
    /\ generation = 0
    /\ revision = 0
    /\ today = 1
    /\ stopped = FALSE
    /\ queries = {}
    /\ waiting = <<>>
    /\ running = None
    /\ current = InitialSettings
    /\ disk = InitialSettings
    /\ saves = <<>>
    /\ tracked = InitialSettings.rest
    /\ header = Asked([dist |-> None, gen |-> -1, loading |-> None], InitialModel, 1)
    /\ intents = 0
    /\ failures = 0
    /\ writer = [f \in Fields |-> "settings"]
    /\ reverted = {}
    /\ crossed = FALSE
    /\ missed = FALSE

\* Every range the controls offer: any day so far, or the window to today.
Offered == {r \in Ranges : r.day = today \/ (r.mode = "day" /\ r.day < today)}

Next ==
    \/ \E p \in Paths : SetPath(p)
    \/ SetQuery
    \/ SetGrouping
    \/ \E metric \in Metrics : SetMetric(metric)
    \/ \E range \in Offered : SetRange(range)
    \/ BeginPreference
    \/ \E value \in Rests : UpdateSettings(value)
    \/ \E q \in queries : Drained /\ (Answer(q) \/ AnswerFails(q))
    \/ SaveLands
    \/ SaveFails
    \/ Drained /\ (HeaderAnswers \/ HeaderFails)
    \/ NewDay
    \/ Stop

\* Promises settle: a query answers or rejects, a save lands or rejects,
\* and continuations run.
Settles ==
    \/ BeginPreference
    \/ \E q \in queries : Drained /\ (Answer(q) \/ AnswerFails(q))
    \/ SaveLands
    \/ SaveFails
    \/ Drained /\ (HeaderAnswers \/ HeaderFails)

Spec == Init /\ [][Next]_vars
FairSpec == Spec /\ WF_vars(Settles)

-----------------------------------------------------------------------------
\* The shape of every variable.
ModelTypes ==
    /\ model \in Models /\ header \in Headers
    /\ generation \in Nat /\ today \in Days /\ queries \subseteq Runs
    /\ stopped \in BOOLEAN /\ missed \in BOOLEAN

SettingsTypes ==
    /\ revision \in Nat /\ intents \in Nat /\ failures \in Nat
    /\ waiting \in Seq(Changes) /\ running \in Changing \cup {None}
    /\ current \in Settings /\ disk \in Settings /\ tracked \in RestMin .. RestMax
    /\ saves \in Seq(Saves)
    /\ writer \in [Fields -> Kinds] /\ crossed \in BOOLEAN

TypeOK == ModelTypes /\ SettingsTypes

\* What is shown as an answer answers the question shown beside it, whatever
\* the order in which older and newer queries, rollbacks and dates arrive
\* (activity-map-controller.ts:218).
ShownAnswersQuery == model.load = "ready" => model.dist = model.query

\* A loading model has a query under way that will end it: no rollback, no
\* late answer and no new date leaves the spinner for ever.
LoadingEnds ==
    model.load = "loading" /\ model.gen > 0 /\ ~stopped =>
        \E q \in queries : q.gen = generation

\* With no update under way the model, the repository and the disk hold the
\* same settings, unless a rollback ran beside another update; and the tracker
\* runs with the stored setting unless another save put it back.
SettledAgrees ==
    saves = <<>> /\ waiting = <<>> =>
        /\ current = disk
        /\ (crossed \/ model.settings = current)
        /\ ((\E r \in reverted : r.field = "rest") \/ tracked = current.rest)

\* A quick pair of metric and range changes never undoes each other's saved
\* preference (activity-map-controller.ts:273-275).
PreferencesKept == \A r \in reverted : ~(r.of = "preference" /\ r.by = "preference")

\* The miniature that loads nothing shows the model's generation, also one that
\* arrived while an older load was in flight; and its result is the default
\* query of the date and settings, except after the three steps that change
\* those without a new generation: a date that ends beside another range, a
\* rollback, and a save that brings other settings than the optimistic ones.
HeaderKeepsUp ==
    header.loading = None /\ ~stopped =>
        /\ header.gen = model.gen
        /\ header.dist # None /\ ~missed => header.dist = DefaultQuery(model.settings, today)

\* Every preference change the user asked for is eventually begun, also behind
\* one whose save failed.
PreferencesBegin == waiting # <<>> ~> waiting = <<>>

-----------------------------------------------------------------------------
\* Why the properties hold.

\* No number in use is newer than the counter.
Numbered ==
    /\ model.gen <= generation /\ header.gen <= generation
    /\ header.loading # None => header.loading.gen <= generation
    /\ \A q \in queries : q.gen <= generation

\* The newest run asks what the model asks, under the number the model shows.
NewestAsksModel ==
    ~stopped => \A q \in queries :
        q.gen = generation => q.query = model.query /\ model.gen = generation

\* A miniature that loads nothing shows the model's generation.
HeaderCurrent == header.loading = None /\ ~stopped => header.gen = model.gen

\* A load of the model's generation asks for the default query.
LoadAsksDefault ==
    ~stopped /\ ~missed =>
        /\ header.loading # None /\ header.loading.gen = model.gen =>
               header.loading.query = DefaultQuery(model.settings, today)
        /\ header.gen = model.gen /\ header.dist # None =>
               header.dist = DefaultQuery(model.settings, today)

\* At most one preference is on its way, and what changes under it is no preference.
PreferenceAlone ==
    \A i \in DOMAIN saves : saves[i].kind = "preference" =>
        /\ \A j \in DOMAIN saves : saves[j].kind = "preference" => j = i
        /\ running # None /\ ~running.saved
        /\ \A f \in Fields \ saves[i].fields :
               saves[i].value[f] # current[f] => writer[f] # "preference"

\* A save that is alone rolls back to what is stored.
AloneRestoresStored ==
    \A i \in DOMAIN saves :
        saves[i].beside \/ (Len(saves) = 1 /\ (crossed \/ saves[i].settings = current))

\* A grouping that is no longer the newest has the newest behind it.
NewestBehind ==
    \A i \in DOMAIN saves : saves[i].kind = "grouping" /\ saves[i].mark # revision =>
        \E j \in DOMAIN saves : i < j /\ saves[j].kind = "grouping" /\ saves[j].mark = revision

\* Only a grouping or a preference under way sets the model apart from what is stored.
ApartOnlyUnderWay ==
    /\ current = disk
    /\ crossed \/ ((\A i \in DOMAIN saves : saves[i].kind = "settings") => model.settings = current)
    /\ \A i \in DOMAIN saves : "rest" \in saves[i].fields => saves[i].kind = "settings"
    /\ (\E r \in reverted : r.field = "rest") \/ tracked = current.rest

ModelInv ==
    /\ ModelTypes /\ Numbered
    /\ ShownAnswersQuery /\ LoadingEnds /\ NewestAsksModel
    /\ HeaderCurrent /\ LoadAsksDefault

SettingsInv ==
    /\ SettingsTypes
    /\ PreferencesKept /\ PreferenceAlone
    /\ AloneRestoresStored /\ NewestBehind /\ ApartOnlyUnderWay

ControllerInv == ModelInv /\ SettingsInv
=============================================================================
