-------------------- MODULE ActivityMapControllerProofs --------------------
(***************************************************************************)
(* The safety of the controller, for any folders, settings range, dates    *)
(* and numbers of intents and failures: ControllerInv is inductive.        *)
(*                                                                         *)
(* It has two halves that share model.settings: the model with its queries *)
(* and the miniature (ModelInv), and the settings with their saves         *)
(* (SettingsInv).  Each half has one lemma per effect the actions have on  *)
(* it.                                                                     *)
(***************************************************************************)
EXTENDS ActivityMapController, TLAPS

-----------------------------------------------------------------------------
\* Settings and queries.

Patches ==
  [grouping : Groupings] \cup [metric : Metrics] \cup [range : Modes] \cup [rest : Int]

\* A patch that is merged leaves valid settings, and the other settings as they were.
LEMMA MergedSettings ==
  ASSUME NEW base \in Settings, NEW patch \in Patches
  PROVE  /\ Merged(base, patch) \in Settings
         /\ DOMAIN patch \subseteq Fields
         /\ \A f \in Fields \ DOMAIN patch : Merged(base, patch)[f] = base[f]
<1>1. base.rest \in RestMin .. RestMax /\ Clamped(base.rest) = base.rest
  BY ControllerAssumption DEF Settings, Clamped
<1>2. \A n \in Int : Clamped(n) \in RestMin .. RestMax
  BY ControllerAssumption DEF Clamped
<1>3. CASE patch \in [grouping : Groupings]
  <2>1. DOMAIN patch = {"grouping"} /\ patch["grouping"] \in Groupings
    BY <1>3
  <2>2. Merged(base, patch) = [f \in Fields |-> IF f = "grouping" THEN patch["grouping"] ELSE base[f]]
    BY <1>1, <2>1 DEF Merged, Patched, Fields, Settings
  <2> QED  BY <2>1, <2>2 DEF Fields, Settings
<1>4. CASE patch \in [metric : Metrics]
  <2>1. DOMAIN patch = {"metric"} /\ patch["metric"] \in Metrics
    BY <1>4
  <2>2. Merged(base, patch) = [f \in Fields |-> IF f = "metric" THEN patch["metric"] ELSE base[f]]
    BY <1>1, <2>1 DEF Merged, Patched, Fields, Settings
  <2> QED  BY <2>1, <2>2 DEF Fields, Settings
<1>5. CASE patch \in [range : Modes]
  <2>1. DOMAIN patch = {"range"} /\ patch["range"] \in Modes
    BY <1>5
  <2>2. Merged(base, patch) = [f \in Fields |-> IF f = "range" THEN patch["range"] ELSE base[f]]
    BY <1>1, <2>1 DEF Merged, Patched, Fields, Settings
  <2> QED  BY <2>1, <2>2 DEF Fields, Settings
<1>6. CASE patch \in [rest : Int]
  <2>1. DOMAIN patch = {"rest"} /\ patch["rest"] \in Int
    BY <1>6
  <2>2. Merged(base, patch) = [f \in Fields |-> IF f = "rest" THEN Clamped(patch["rest"]) ELSE base[f]]
    BY <2>1 DEF Merged, Patched, Fields, Settings
  <2> QED  BY <1>2, <2>1, <2>2 DEF Fields, Settings
<1> QED  BY <1>3, <1>4, <1>5, <1>6 DEF Patches

LEMMA DefaultQueryType ==
  ASSUME NEW s \in Settings, NEW date \in Days PROVE DefaultQuery(s, date) \in Queries
BY ControllerAssumption DEF DefaultQuery, Settings, Queries, Ranges

LEMMA InitialTypes ==
  /\ InitialSettings \in Settings /\ 1 \in Days
  /\ InitialModel \in Models /\ InitialModel.gen = 0 /\ InitialModel.load = "loading"
  /\ InitialModel.settings = InitialSettings
<1>1. InitialSettings \in Settings
  BY ControllerAssumption DEF InitialSettings, Settings, Groupings, Metrics, Modes
<1>2. 1 \in Days
  BY ControllerAssumption DEF Days
<1> QED  BY <1>1, <1>2, DefaultQueryType DEF InitialModel, Models

-----------------------------------------------------------------------------
\* The model, its queries and the miniature.

\* A publish leaves the miniature's result and asks for another only if it has to.
LEMMA AskedHeader ==
  ASSUME NEW h \in Headers, NEW m \in Models, NEW date \in Days
  PROVE  LET a == Asked(h, m, date)
         IN  /\ a \in Headers /\ a.dist = h.dist /\ a.gen = h.gen
             /\ a.loading = None => h.gen = m.gen
             /\ a.loading # None => \/ a.loading = h.loading
                                    \/ a.loading.gen = m.gen /\ a.loading.query = DefaultQuery(m.settings, date)
<1>1. DefaultQuery(m.settings, date) \in Queries
  BY DefaultQueryType DEF Models
<1>2. [gen |-> m.gen, query |-> DefaultQuery(m.settings, date)] \in Runs
  BY <1>1 DEF Runs, Models
<1> QED  BY <1>2, ControllerAssumption DEF Asked, Headers

LEMMA RefreshKeeps ==
  ASSUME ModelInv, NEW m \in Models, NEW date \in Days, Refresh(m, date),
         today' = date, stopped' = stopped
  PROVE  ModelInv' /\ model'.settings = m.settings
<1> DEFINE n == [m EXCEPT !.load = "loading", !.gen = generation + 1]
<1>0. generation \in Nat
  BY DEF ModelInv, ModelTypes
<1>1. /\ n \in Models /\ n.load = "loading" /\ n.gen = generation + 1
      /\ n.query = m.query /\ n.settings = m.settings
  <2>1. n.load = "loading" /\ n.gen = generation + 1 /\ n.query = m.query
    BY DEF Models
  <2>2. n.settings = m.settings /\ n.dist = m.dist
    BY DEF Models
  <2>3. /\ n = [f \in DOMAIN m |-> n[f]]
        /\ DOMAIN m = {"load", "query", "dist", "settings", "gen"}
    BY DEF Models
  <2>4. /\ m.query \in Queries /\ m.dist \in Queries \cup {None} /\ m.settings \in Settings
        /\ generation + 1 \in Nat
    BY <1>0 DEF Models
  <2>5. n \in Models
    BY <2>1, <2>2, <2>3, <2>4 DEF Models
  <2> QED  BY <2>1, <2>2, <2>5
<1>2. /\ generation' = generation + 1 /\ model' = n
      /\ header' = IF stopped THEN header ELSE Asked(header, n, date)
      /\ queries' = queries \cup {[gen |-> generation + 1, query |-> m.query]}
      /\ missed' = FALSE
  BY DEF Refresh, Publish
<1> HIDE DEF n
<1>3. [gen |-> generation + 1, query |-> m.query] \in Runs
  BY DEF ModelInv, ModelTypes, Models, Runs
<1>4. ModelTypes'
  <2>1. header' \in Headers
    BY <1>1, <1>2, AskedHeader DEF ModelInv, ModelTypes
  <2>2. generation' \in Nat /\ queries' \subseteq Runs /\ model' \in Models
    BY <1>0, <1>1, <1>2, <1>3 DEF ModelInv, ModelTypes
  <2> QED  BY <1>2, <2>1, <2>2 DEF ModelInv, ModelTypes
<1>5. Numbered'
  <2>1. \A q \in queries' : q.gen <= generation'
    BY <1>2 DEF ModelInv, ModelTypes, Numbered, Runs
  <2>2. /\ header'.gen <= generation'
        /\ header'.loading # None => header'.loading.gen <= generation'
    <3>1. CASE stopped
      BY <1>2, <3>1 DEF ModelInv, ModelTypes, Numbered, Headers, Runs
    <3>2. CASE ~stopped
      <4>1. header \in Headers /\ header' = Asked(header, n, date)
        BY <1>2, <3>2 DEF ModelInv, ModelTypes
      <4>2. /\ header'.gen = header.gen
            /\ header'.loading # None => header'.loading = header.loading \/ header'.loading.gen = n.gen
        BY <1>1, <4>1, AskedHeader
      <4>3. /\ header.gen <= generation + 1
            /\ header.loading # None => header.loading.gen <= generation + 1
        BY <1>0, <4>1 DEF ModelInv, Numbered, Headers, Runs
      <4> QED  BY <1>0, <1>1, <1>2, <4>2, <4>3
    <3> QED  BY <3>1, <3>2
  <2> QED  BY <1>1, <1>2, <2>1, <2>2 DEF Numbered, ModelInv, ModelTypes
<1>6. ShownAnswersQuery' /\ LoadingEnds'
  <2>1. [gen |-> generation + 1, query |-> m.query] \in queries'
    BY <1>2
  <2>2. \E q \in queries' : q.gen = generation'
    BY <1>2, <2>1
  <2> QED  BY <1>1, <1>2, <2>2 DEF ShownAnswersQuery, LoadingEnds
<1>7. NewestAsksModel'
  BY <1>1, <1>2 DEF NewestAsksModel, ModelInv, ModelTypes, Numbered, Runs
<1>8. HeaderCurrent' /\ LoadAsksDefault'
  <2>1. CASE stopped
    BY <2>1 DEF HeaderCurrent, LoadAsksDefault
  <2>2. CASE ~stopped
    <3>1. header' = Asked(header, n, date) /\ header \in Headers
      BY <1>2, <2>2 DEF ModelInv, ModelTypes
    <3>2. header'.gen = header.gen /\ header.gen < n.gen
      BY <1>1, <3>1, AskedHeader DEF ModelInv, ModelTypes, Numbered, Headers
    <3>3. header'.loading # None /\ header'.loading.gen = n.gen =>
            header'.loading.query = DefaultQuery(n.settings, date)
      BY <1>1, <3>1, AskedHeader DEF ModelInv, ModelTypes, Numbered, Headers, Runs
    <3>4. header'.loading = None => header.gen = n.gen
      BY <1>1, <3>1, AskedHeader
    <3> QED  BY <1>1, <1>2, <3>2, <3>3, <3>4 DEF HeaderCurrent, LoadAsksDefault, ModelInv, ModelTypes, Headers
  <2> QED  BY <2>1, <2>2
<1> QED  BY <1>1, <1>2, <1>4, <1>5, <1>6, <1>7, <1>8 DEF ModelInv

\* Other settings under the same generation: the miniature may miss them, which is noted.
LEMMA SettingsShown ==
  ASSUME ModelInv, NEW s \in Settings, NEW date \in Days,
         model' = [model EXCEPT !.settings = s],
         header' = header \/ header' = IF stopped THEN header ELSE Asked(header, model', date),
         today' = date, UNCHANGED <<generation, queries, stopped>>,
         missed' \in BOOLEAN,
         missed' \/ (~missed /\ s = model.settings /\ date = today)
  PROVE  ModelInv'
<1>1. /\ model' \in Models /\ model'.settings = s
      /\ model'.load = model.load /\ model'.gen = model.gen
      /\ model'.query = model.query /\ model'.dist = model.dist
  BY DEF ModelInv, ModelTypes, Models
<1>2. /\ header' \in Headers /\ header'.gen = header.gen /\ header'.dist = header.dist
      /\ header'.loading = None /\ ~stopped => header.gen = model.gen
      /\ header'.loading # None =>
           \/ header'.loading = header.loading
           \/ header'.loading.gen = model.gen /\ header'.loading.query = DefaultQuery(s, date)
  <2>1. CASE header' = header
    BY <2>1 DEF ModelInv, ModelTypes, HeaderCurrent
  <2>2. CASE header' = IF stopped THEN header ELSE Asked(header, model', date)
    <3>1. CASE stopped
      BY <2>2, <3>1 DEF ModelInv, ModelTypes
    <3>2. CASE ~stopped
      <4>1. header' = Asked(header, model', date) /\ header \in Headers
        BY <2>2, <3>2 DEF ModelInv, ModelTypes
      <4>2. /\ header' \in Headers /\ header'.gen = header.gen /\ header'.dist = header.dist
            /\ header'.loading = None => header.gen = model'.gen
        BY <1>1, <4>1, AskedHeader
      <4>3. header'.loading # None =>
              \/ header'.loading = header.loading
              \/ /\ header'.loading.gen = model'.gen
                 /\ header'.loading.query = DefaultQuery(model'.settings, date)
        BY <1>1, <4>1, AskedHeader
      <4> QED  BY <1>1, <4>2, <4>3
    <3> QED  BY <3>1, <3>2 DEF ModelInv, ModelTypes
  <2> QED  BY <2>1, <2>2
<1>3. ModelTypes'
  BY <1>1, <1>2 DEF ModelInv, ModelTypes
<1>4. Numbered'
  BY <1>1, <1>2 DEF ModelInv, ModelTypes, Numbered, Models
<1>5. ShownAnswersQuery' /\ LoadingEnds' /\ NewestAsksModel'
  BY <1>1 DEF ModelInv, ShownAnswersQuery, LoadingEnds, NewestAsksModel
<1>6. HeaderCurrent'
  BY <1>1, <1>2 DEF HeaderCurrent
<1>7. LoadAsksDefault'
  BY <1>1, <1>2 DEF ModelInv, LoadAsksDefault
<1> QED  BY <1>3, <1>4, <1>5, <1>6, <1>7 DEF ModelInv

LEMMA RollbackKeeps ==
  ASSUME ModelInv, NEW save \in Saves, Rollback(save), UNCHANGED <<today, stopped, queries>>
  PROVE  ModelInv' /\ model'.settings = save.settings
<1> DEFINE n == [model EXCEPT !.query = save.query, !.settings = save.settings, !.load = "error"]
<1>1. /\ n \in Models /\ n.load = "error" /\ n.gen = model.gen /\ n.settings = save.settings
  BY DEF ModelInv, ModelTypes, Models, Saves
<1>2. /\ generation' = generation + 1 /\ model' = n /\ missed' = TRUE
      /\ header' = IF stopped THEN header ELSE Asked(header, n, today)
  BY DEF Rollback, Publish
<1> HIDE DEF n
<1>3. /\ header' \in Headers /\ header'.gen = header.gen
      /\ header'.loading = None /\ ~stopped => header.gen = model.gen
      /\ header'.loading # None => header'.loading = header.loading \/ header'.loading.gen = model.gen
  BY <1>1, <1>2, AskedHeader DEF ModelInv, ModelTypes
<1>4. ModelTypes'
  BY <1>1, <1>2, <1>3 DEF ModelInv, ModelTypes
<1>5. Numbered'
  BY <1>1, <1>2, <1>3 DEF ModelInv, ModelTypes, Numbered, Models, Headers, Runs
<1>6. ShownAnswersQuery' /\ LoadingEnds' /\ LoadAsksDefault'
  BY <1>1, <1>2 DEF ShownAnswersQuery, LoadingEnds, LoadAsksDefault
<1>7. NewestAsksModel'
  BY <1>2 DEF ModelInv, ModelTypes, Numbered, NewestAsksModel, Runs
<1>8. HeaderCurrent'
  BY <1>1, <1>2, <1>3 DEF HeaderCurrent
<1> QED  BY <1>1, <1>2, <1>4, <1>5, <1>6, <1>7, <1>8 DEF ModelInv

\* An answer is published by the newest run only, which then leaves.
LEMMA AnswerKeeps ==
  ASSUME ModelInv, NEW q \in queries, Answer(q) \/ AnswerFails(q)
  PROVE  ModelInv' /\ model'.settings = model.settings
<1>1. UNCHANGED <<generation, today, stopped, missed>> /\ queries' = queries \ {q}
  BY DEF Answer, AnswerFails
<1>2. CASE ~Fresh(q)
  <2>1. UNCHANGED <<model, header>>
    BY <1>2 DEF Answer, AnswerFails
  <2>2. LoadingEnds'
    BY <1>1, <1>2, <2>1 DEF ModelInv, LoadingEnds, Fresh
  <2> QED  BY <1>1, <2>1, <2>2
    DEF ModelInv, ModelTypes, Numbered, ShownAnswersQuery, NewestAsksModel, HeaderCurrent, LoadAsksDefault
<1>3. CASE Fresh(q)
  <2>1. /\ ~stopped /\ q.gen = generation /\ q.query = model.query /\ q \in Runs
        /\ model.gen = generation
    BY <1>3 DEF Fresh, ModelInv, ModelTypes, NewestAsksModel
  <2>2. /\ model' \in Models /\ model'.load # "loading" /\ model'.gen = generation
        /\ model'.load = "ready" => model'.dist = model'.query
        /\ model'.query = model.query /\ model'.settings = model.settings
    BY <1>3, <2>1 DEF Answer, AnswerFails, Publish, ModelInv, ModelTypes, Models, Runs
  <2>3. header' = Asked(header, model', today)
    BY <1>3, <2>1 DEF Answer, AnswerFails, Publish
  <2>4. /\ header' \in Headers /\ header'.gen = header.gen /\ header'.dist = header.dist
        /\ header'.loading = None => header.gen = model'.gen
        /\ header'.loading # None =>
             \/ header'.loading = header.loading
             \/ /\ header'.loading.gen = model'.gen
                /\ header'.loading.query = DefaultQuery(model.settings, today)
    BY <2>2, <2>3, AskedHeader DEF ModelInv, ModelTypes
  <2>5. ModelTypes'
    BY <1>1, <2>2, <2>4 DEF ModelInv, ModelTypes
  <2>6. Numbered'
    BY <1>1, <2>2, <2>4 DEF ModelInv, ModelTypes, Numbered, Models
  <2>7. ShownAnswersQuery' /\ LoadingEnds' /\ NewestAsksModel' /\ HeaderCurrent'
    BY <1>1, <2>2, <2>4 DEF ModelInv, ShownAnswersQuery, LoadingEnds, NewestAsksModel, HeaderCurrent
  <2>8. LoadAsksDefault'
    <3> SUFFICES ASSUME ~missed PROVE LoadAsksDefault'
      BY <1>1 DEF LoadAsksDefault
    <3>1. header.loading # None /\ header.loading.gen = model.gen =>
            header.loading.query = DefaultQuery(model.settings, today)
      BY <2>1 DEF ModelInv, LoadAsksDefault
    <3>2. header.gen = model.gen /\ header.dist # None => header.dist = DefaultQuery(model.settings, today)
      BY <2>1 DEF ModelInv, LoadAsksDefault
    <3> QED  BY <1>1, <2>1, <2>2, <2>4, <3>1, <3>2 DEF LoadAsksDefault
  <2> QED  BY <2>2, <2>5, <2>6, <2>7, <2>8 DEF ModelInv
<1> QED  BY <1>2, <1>3

\* A settled load leaves its result, and asks again for a generation that came meanwhile.
Loaded(h, d, g) == [h EXCEPT !.dist = d, !.gen = g]

LEMMA LoadedHeader ==
  ASSUME NEW h \in Headers, NEW d \in Queries \cup {None}, NEW g \in Int
  PROVE  Loaded(h, d, g) \in Headers /\ Loaded(h, d, g).dist = d /\ Loaded(h, d, g).gen = g
BY DEF Loaded, Headers

LEMMA HeaderKeeps ==
  ASSUME ModelInv, HeaderAnswers \/ HeaderFails
  PROVE  ModelInv' /\ UNCHANGED model
<1>1. /\ header.loading \in Runs /\ header.loading # None
      /\ header.loading.query \in Queries /\ header.loading.gen \in Nat
      /\ header \in Headers /\ model \in Models /\ today \in Days
  BY DEF HeaderAnswers, HeaderFails, ModelInv, ModelTypes, Headers, Runs
<1>2. UNCHANGED <<controllerVars, missed>>
  BY DEF HeaderAnswers, HeaderFails
<1>3. PICK h \in Headers :
        /\ header' = Settled(h)
        /\ \/ h.gen = header.gen /\ stopped
           \/ h.gen = header.loading.gen /\ h.dist \in {header.loading.query, None}
  <2>1. CASE HeaderAnswers
    <3>1. CASE stopped
      BY <1>1, <2>1, <3>1 DEF HeaderAnswers
    <3>2. CASE ~stopped
      <4>1. header.loading.gen \in Int
        BY <1>1
      <4> DEFINE h == Loaded(header, header.loading.query, header.loading.gen)
      <4>2. h \in Headers /\ h.dist = header.loading.query /\ h.gen = header.loading.gen
        BY <1>1, <4>1, LoadedHeader
      <4>3. header' = Settled(h)
        BY <2>1, <3>2 DEF HeaderAnswers, Loaded
      <4> QED  BY <4>2, <4>3
    <3> QED  BY <3>1, <3>2
  <2>2. CASE HeaderFails
    <3>1. header.loading.gen \in Int
      BY <1>1
    <3> DEFINE h == Loaded(header, None, header.loading.gen)
    <3>2. h \in Headers /\ h.dist = None /\ h.gen = header.loading.gen
      BY <1>1, <3>1, LoadedHeader
    <3>3. header' = Settled(h)
      BY <2>2 DEF HeaderFails, Loaded
    <3> QED  BY <3>2, <3>3
  <2> QED  BY <2>1, <2>2
<1> DEFINE done == [h EXCEPT !.loading = None]
<1>4. /\ done \in Headers /\ done.loading = None /\ done.gen = h.gen /\ done.dist = h.dist
      /\ h.gen <= generation
  BY <1>1, <1>3 DEF Headers, ModelInv, Numbered
<1>5. header' = IF stopped THEN done ELSE Asked(done, model, today)
  BY <1>3 DEF Settled
<1> HIDE DEF done
<1>6. /\ header' \in Headers /\ header'.gen = h.gen /\ header'.dist = h.dist
      /\ header'.loading = None /\ ~stopped => h.gen = model.gen
      /\ header'.loading # None =>
           /\ header'.loading.gen = model.gen
           /\ header'.loading.query = DefaultQuery(model.settings, today)
  <2>1. CASE stopped
    BY <1>4, <1>5, <2>1
  <2>2. CASE ~stopped
    <3>1. header' = Asked(done, model, today)
      BY <1>5, <2>2
    <3> QED  BY <1>1, <1>4, <3>1, AskedHeader
  <2> QED  BY <2>1, <2>2
<1>7. ModelTypes'
  BY <1>2, <1>6 DEF ModelInv, ModelTypes, controllerVars
<1>8. Numbered'
  BY <1>2, <1>4, <1>6 DEF ModelInv, Numbered, controllerVars
<1>9. ShownAnswersQuery' /\ LoadingEnds' /\ NewestAsksModel'
  BY <1>2 DEF ModelInv, ShownAnswersQuery, LoadingEnds, NewestAsksModel, controllerVars
<1>10. HeaderCurrent'
  BY <1>2, <1>6 DEF HeaderCurrent, controllerVars
<1>11. LoadAsksDefault'
  <2> SUFFICES ASSUME ~stopped, ~missed PROVE LoadAsksDefault'
    BY <1>2 DEF LoadAsksDefault, controllerVars
  <2>1. header.loading.gen = model.gen => header.loading.query = DefaultQuery(model.settings, today)
    BY <1>1 DEF ModelInv, LoadAsksDefault
  <2> QED  BY <1>2, <1>3, <1>6, <2>1 DEF LoadAsksDefault, controllerVars
<1> QED  BY <1>2, <1>7, <1>8, <1>9, <1>10, <1>11 DEF ModelInv, controllerVars

\* After the stop nothing is fresh and nothing listens.
LEMMA StopKeeps ==
  ASSUME ModelInv, Stop PROVE ModelInv' /\ UNCHANGED model
<1>1. /\ UNCHANGED <<model, today, queries, header, missed>>
      /\ stopped' = TRUE /\ generation' = generation + 1
  BY DEF Stop
<1>2. ModelTypes'
  BY <1>1 DEF ModelInv, ModelTypes
<1>3. Numbered'
  BY <1>1 DEF ModelInv, ModelTypes, Numbered, Models, Headers, Runs
<1>4. ShownAnswersQuery'
  BY <1>1 DEF ModelInv, ShownAnswersQuery
<1>5. LoadingEnds' /\ NewestAsksModel' /\ HeaderCurrent' /\ LoadAsksDefault'
  BY <1>1 DEF LoadingEnds, NewestAsksModel, HeaderCurrent, LoadAsksDefault
<1> QED  BY <1>1, <1>2, <1>3, <1>4, <1>5 DEF ModelInv

LEMMA ModelUntouched ==
  ASSUME ModelInv, UNCHANGED <<controllerVars, header, missed>> PROVE ModelInv'
BY DEF ModelInv, ModelTypes, Numbered, ShownAnswersQuery, LoadingEnds, NewestAsksModel,
       HeaderCurrent, LoadAsksDefault, controllerVars


-----------------------------------------------------------------------------
\* The settings and their saves.

\* An update is queued behind all others, which it marks; nothing else about them changes.
LEMMA Queued ==
  ASSUME NEW kind \in Kinds, NEW patch \in Patches, NEW mark \in Nat,
         saves \in Seq(Saves), current \in Settings, model \in Models,
         Update(kind, patch, mark, model)
  PROVE  /\ saves' \in Seq(Saves) /\ Len(saves') = Len(saves) + 1
         /\ \A i \in DOMAIN saves :
              /\ i \in DOMAIN saves' /\ saves'[i].kind = saves[i].kind
              /\ saves'[i].fields = saves[i].fields /\ saves'[i].value = saves[i].value
              /\ saves'[i].mark = saves[i].mark /\ saves'[i].beside
         /\ \A i \in DOMAIN saves' \ DOMAIN saves :
              /\ i = Len(saves) + 1 /\ saves'[i].kind = kind
              /\ saves'[i].fields = DOMAIN patch /\ saves'[i].value = Merged(current, patch)
              /\ saves'[i].mark = mark /\ saves'[i].settings = model.settings
              /\ saves'[i].beside = (saves # <<>>)
<1> DEFINE old == [i \in DOMAIN saves |-> [saves[i] EXCEPT !.beside = TRUE]]
           new == [kind |-> kind, fields |-> DOMAIN patch, value |-> Merged(current, patch),
                   mark |-> mark, query |-> model.query, settings |-> model.settings,
                   beside |-> saves # <<>>]
<1>1. saves' = Append(old, new)
  BY DEF Update
<1>2. new \in Saves
  <2>1. /\ Merged(current, patch) \in Settings /\ DOMAIN patch \in SUBSET Fields
        /\ model.query \in Queries /\ model.settings \in Settings
    BY MergedSettings DEF Models
  <2> QED  BY <2>1 DEF Saves
<1>3. /\ new.kind = kind /\ new.fields = DOMAIN patch /\ new.value = Merged(current, patch)
      /\ new.mark = mark /\ new.settings = model.settings /\ new.beside = (saves # <<>>)
  OBVIOUS
<1>4. \A i \in DOMAIN saves :
        /\ old[i] \in Saves /\ old[i].kind = saves[i].kind /\ old[i].fields = saves[i].fields
        /\ old[i].value = saves[i].value /\ old[i].mark = saves[i].mark /\ old[i].beside
  <2> TAKE i \in DOMAIN saves
  <2>1. saves[i] \in Saves
    OBVIOUS
  <2>2. [saves[i] EXCEPT !.beside = TRUE] \in Saves
    BY <2>1 DEF Saves
  <2> QED  BY <2>1, <2>2 DEF Saves
<1>5. old \in Seq(Saves) /\ Len(old) = Len(saves) /\ DOMAIN old = DOMAIN saves
  BY <1>4
<1> HIDE DEF old, new
<1>6. saves' \in Seq(Saves) /\ Len(saves') = Len(saves) + 1 /\ DOMAIN saves' = 1 .. Len(saves) + 1
  BY <1>1, <1>2, <1>5
<1>7. \A i \in DOMAIN saves : i \in DOMAIN saves' /\ saves'[i] = old[i]
  BY <1>1, <1>2, <1>5, <1>6
<1>8. \A i \in DOMAIN saves' \ DOMAIN saves : i = Len(saves) + 1 /\ saves'[i] = new
  BY <1>1, <1>2, <1>5, <1>6
<1> QED  BY <1>3, <1>4, <1>6, <1>7, <1>8

\* What a queued update leaves of the saves' invariants, whichever kind it is.
LEMMA QueuedKeeps ==
  ASSUME SettingsInv, model \in Models,
         NEW kind \in Kinds, NEW patch \in Patches, NEW mark \in Nat,
         Update(kind, patch, mark, model),
         "rest" \in DOMAIN patch => kind = "settings",
         UNCHANGED <<current, disk, tracked, writer, reverted, crossed>>
  PROVE  /\ saves' \in Seq(Saves) /\ PreferencesKept' /\ AloneRestoresStored'
         /\ (kind = "grouping" /\ mark = revision') \/ (kind # "grouping" /\ revision' = revision) =>
              NewestBehind'
         /\ kind # "settings" \/ UNCHANGED model => ApartOnlyUnderWay'
         /\ kind # "preference" /\ UNCHANGED running => PreferenceAlone'
<1>1. /\ saves \in Seq(Saves) /\ current \in Settings /\ writer \in [Fields -> Kinds]
      /\ crossed \in BOOLEAN /\ PreferencesKept /\ PreferenceAlone
      /\ AloneRestoresStored /\ NewestBehind /\ ApartOnlyUnderWay
  BY DEF SettingsInv, SettingsTypes
<1>2. /\ saves' \in Seq(Saves) /\ Len(saves') = Len(saves) + 1
      /\ \A i \in DOMAIN saves :
           /\ i \in DOMAIN saves' /\ saves'[i].kind = saves[i].kind
           /\ saves'[i].fields = saves[i].fields /\ saves'[i].value = saves[i].value
           /\ saves'[i].mark = saves[i].mark /\ saves'[i].beside
      /\ \A i \in DOMAIN saves' \ DOMAIN saves :
           /\ i = Len(saves) + 1 /\ saves'[i].kind = kind
           /\ saves'[i].fields = DOMAIN patch /\ saves'[i].value = Merged(current, patch)
           /\ saves'[i].mark = mark /\ saves'[i].settings = model.settings
           /\ saves'[i].beside = (saves # <<>>)
  BY <1>1, Queued
<1>3. Len(saves) + 1 \in DOMAIN saves' /\ Len(saves) + 1 \notin DOMAIN saves
  BY <1>1, <1>2
<1>4. PreferencesKept'
  BY <1>1 DEF PreferencesKept
<1>5. AloneRestoresStored'
  <2> SUFFICES ASSUME NEW i \in DOMAIN saves', ~saves'[i].beside
               PROVE  Len(saves') = 1 /\ (crossed \/ saves'[i].settings = current)
    BY DEF AloneRestoresStored
  <2>1. i \notin DOMAIN saves /\ saves = <<>> /\ saves'[i].settings = model.settings
    BY <1>2
  <2>2. crossed \/ model.settings = current
    BY <1>1, <2>1 DEF ApartOnlyUnderWay
  <2> QED  BY <1>2, <2>1, <2>2
<1>6. ASSUME (kind = "grouping" /\ mark = revision') \/ (kind # "grouping" /\ revision' = revision)
      PROVE  NewestBehind'
  <2> SUFFICES ASSUME NEW i \in DOMAIN saves', saves'[i].kind = "grouping", saves'[i].mark # revision'
               PROVE  \E j \in DOMAIN saves' :
                        i < j /\ saves'[j].kind = "grouping" /\ saves'[j].mark = revision'
    BY DEF NewestBehind
  <2>1. i \in DOMAIN saves /\ saves[i].kind = "grouping"
    BY <1>2, <1>6
  <2>2. CASE kind = "grouping" /\ mark = revision'
    BY <1>1, <1>2, <1>3, <2>1, <2>2
  <2>3. CASE kind # "grouping" /\ revision' = revision
    BY <1>1, <1>2, <2>1, <2>3 DEF NewestBehind
  <2> QED  BY <1>6, <2>2, <2>3
<1>7. ASSUME kind # "settings" \/ UNCHANGED model
      PROVE  ApartOnlyUnderWay'
  <2>1. \A i \in DOMAIN saves' : "rest" \in saves'[i].fields => saves'[i].kind = "settings"
    BY <1>1, <1>2 DEF ApartOnlyUnderWay
  <2>2. crossed' \/ ((\A i \in DOMAIN saves' : saves'[i].kind = "settings") => model'.settings = current')
    BY <1>1, <1>2, <1>3, <1>7 DEF ApartOnlyUnderWay
  <2> QED  BY <1>1, <2>1, <2>2 DEF ApartOnlyUnderWay
<1>8. ASSUME kind # "preference", UNCHANGED running
      PROVE  PreferenceAlone'
  <2> SUFFICES ASSUME NEW i \in DOMAIN saves', saves'[i].kind = "preference"
               PROVE  /\ \A j \in DOMAIN saves' : saves'[j].kind = "preference" => j = i
                      /\ running' # None /\ ~running'.saved
                      /\ \A f \in Fields \ saves'[i].fields :
                           saves'[i].value[f] # current'[f] => writer'[f] # "preference"
    BY DEF PreferenceAlone
  <2>1. \A j \in DOMAIN saves' : saves'[j].kind = "preference" => j \in DOMAIN saves /\ saves[j].kind = "preference"
    BY <1>2, <1>8
  <2> QED  BY <1>1, <1>2, <1>8, <2>1 DEF PreferenceAlone
<1> QED  BY <1>2, <1>4, <1>5, <1>6, <1>7, <1>8

\* The first save leaves the queue; the others keep what is known of them.
LEMMA TailKeeps ==
  ASSUME SettingsInv, saves # <<>>, saves' = Tail(saves), revision' = revision
  PROVE  /\ 1 \in DOMAIN saves /\ Head(saves) = saves[1] /\ saves[1] \in Saves
         /\ saves' \in Seq(Saves)
         /\ \A i \in DOMAIN saves' : i + 1 \in DOMAIN saves /\ saves'[i] = saves[i + 1]
         /\ \A i \in DOMAIN saves \ {1} : i - 1 \in DOMAIN saves' /\ saves'[i - 1] = saves[i]
         /\ AloneRestoresStored' /\ NewestBehind'
         /\ saves[1].kind = "grouping" /\ saves[1].mark # revision =>
              \E i \in DOMAIN saves' : saves'[i].kind = "grouping"
<1>1. /\ saves \in Seq(Saves) /\ Len(saves) \in Nat \ {0}
      /\ AloneRestoresStored /\ NewestBehind
  BY DEF SettingsInv, SettingsTypes
<1>2. /\ 1 \in DOMAIN saves /\ Head(saves) = saves[1] /\ saves[1] \in Saves
      /\ saves' \in Seq(Saves) /\ Len(saves') = Len(saves) - 1
  BY <1>1
<1>3. \A i \in DOMAIN saves' : i + 1 \in DOMAIN saves /\ saves'[i] = saves[i + 1]
  BY <1>1, <1>2
<1>4. \A i \in DOMAIN saves \ {1} : i - 1 \in DOMAIN saves' /\ saves'[i - 1] = saves[i]
  BY <1>1, <1>2
<1>5. AloneRestoresStored'
  <2> SUFFICES ASSUME NEW i \in DOMAIN saves' PROVE saves'[i].beside
    BY DEF AloneRestoresStored
  <2>1. Len(saves) # 1
    BY <1>1, <1>2
  <2> QED  BY <1>1, <1>3, <2>1 DEF AloneRestoresStored
<1>6. \A i \in DOMAIN saves : saves[i].kind = "grouping" /\ saves[i].mark # revision =>
        \E j \in DOMAIN saves' :
           i - 1 < j /\ saves'[j].kind = "grouping" /\ saves'[j].mark = revision
  <2> SUFFICES ASSUME NEW i \in DOMAIN saves, saves[i].kind = "grouping", saves[i].mark # revision
               PROVE  \E j \in DOMAIN saves' :
                        i - 1 < j /\ saves'[j].kind = "grouping" /\ saves'[j].mark = revision
    OBVIOUS
  <2>1. PICK k \in DOMAIN saves : i < k /\ saves[k].kind = "grouping" /\ saves[k].mark = revision
    BY <1>1 DEF NewestBehind
  <2>2. k - 1 \in DOMAIN saves' /\ saves'[k - 1] = saves[k] /\ i - 1 < k - 1
    BY <1>1, <1>4, <2>1
  <2> QED  BY <2>1, <2>2
<1>7. NewestBehind'
  <2> SUFFICES ASSUME NEW i \in DOMAIN saves', saves'[i].kind = "grouping", saves'[i].mark # revision
               PROVE  \E j \in DOMAIN saves' :
                        i < j /\ saves'[j].kind = "grouping" /\ saves'[j].mark = revision
    BY DEF NewestBehind
  <2>1. PICK j \in DOMAIN saves' :
           (i + 1) - 1 < j /\ saves'[j].kind = "grouping" /\ saves'[j].mark = revision
    BY <1>3, <1>6
  <2>2. i \in Nat /\ (i + 1) - 1 = i
    BY <1>2
  <2> QED  BY <2>1, <2>2
<1> QED  BY <1>2, <1>3, <1>4, <1>5, <1>6, <1>7

\* What follows a save, on the model and on who waits for it.
LEMMA SavedKeeps ==
  ASSUME ControllerInv, NEW save \in Saves, Saved(save),
         UNCHANGED <<revision, today, stopped>>
  PROVE  /\ ModelInv'
         /\ save.kind = "preference" => running' = [gen |-> save.mark, saved |-> TRUE]
         /\ save.kind # "preference" => running' = running
         /\ save.kind = "settings" => tracked' = save.value.rest
         /\ save.kind # "settings" => tracked' = tracked
         /\ \/ model'.settings = save.value
            \/ save.kind = "grouping" /\ save.mark # revision /\ model' = model
<1>1. /\ ModelInv /\ model \in Models /\ today \in Days /\ save.value \in Settings
      /\ missed \in BOOLEAN
  BY DEF ControllerInv, ModelInv, ModelTypes, Saves
<1>2. CASE save.kind = "preference"
  <2>1. /\ model' = [model EXCEPT !.settings = save.value]
        /\ header' = IF stopped THEN header ELSE Asked(header, model', today)
        /\ running' = [gen |-> save.mark, saved |-> TRUE]
        /\ missed' = (missed \/ save.value # model.settings)
        /\ UNCHANGED <<generation, queries, tracked>>
    BY <1>2 DEF Saved, Publish
  <2>2. model'.settings = save.value
    BY <1>1, <2>1 DEF Models
  <2>3. ModelInv'
    BY <1>1, <2>1, SettingsShown
  <2> QED  BY <1>2, <2>1, <2>2, <2>3
<1>3. CASE save.kind = "grouping"
  <2>1. /\ model' = IF save.mark = revision
                    THEN [model EXCEPT !.settings = save.value] ELSE model
        /\ missed' = (missed \/ model' # model)
        /\ UNCHANGED <<generation, queries, running, tracked, header>>
    BY <1>3 DEF Saved
  <2>2. CASE save.mark = revision
    <3>1. model' = [model EXCEPT !.settings = save.value] /\ model'.settings = save.value
      BY <1>1, <2>1, <2>2 DEF Models
    <3>2. save.value = model.settings \/ missed'
      BY <1>1, <2>1, <3>1
    <3>3. ModelInv'
      BY <1>1, <2>1, <3>1, <3>2, SettingsShown
    <3> QED  BY <1>3, <2>1, <3>1, <3>3
  <2>3. CASE save.mark # revision
    <3>1. UNCHANGED <<controllerVars, header, missed>>
      BY <1>1, <2>1, <2>3 DEF controllerVars
    <3> QED  BY <1>1, <1>3, <2>1, <2>3, <3>1, ModelUntouched
  <2> QED  BY <2>2, <2>3
<1>4. CASE save.kind = "settings"
  <2>1. /\ tracked' = save.value.rest /\ running' = running
        /\ Refresh([model EXCEPT !.settings = save.value], today)
    BY <1>4 DEF Saved
  <2>2. [model EXCEPT !.settings = save.value] \in Models
    BY <1>1 DEF Models
  <2>3. [model EXCEPT !.settings = save.value].settings = save.value
    BY <1>1 DEF Models
  <2>4. ModelInv' /\ model'.settings = save.value
    BY <1>1, <2>1, <2>2, <2>3, RefreshKeeps
  <2> QED  BY <1>4, <2>1, <2>4
<1> QED  BY <1>2, <1>3, <1>4 DEF Saves, Kinds

\* A save that lands is what everyone reads from then on.
LEMMA SaveLandsKeeps ==
  ASSUME ControllerInv, SaveLands PROVE ControllerInv'
<1> DEFINE save == saves[1]
<1>1. /\ saves # <<>> /\ saves' = Tail(saves)
      /\ UNCHANGED <<revision, today, stopped, waiting, intents, crossed, failures>>
  BY DEF SaveLands
<1>2. SettingsInv /\ SettingsTypes
  BY DEF ControllerInv, SettingsInv
<1>3. /\ 1 \in DOMAIN saves /\ Head(saves) = save /\ save \in Saves
      /\ saves' \in Seq(Saves)
      /\ \A i \in DOMAIN saves' : i + 1 \in DOMAIN saves /\ saves'[i] = saves[i + 1]
      /\ AloneRestoresStored' /\ NewestBehind'
      /\ save.kind = "grouping" /\ save.mark # revision =>
           \E i \in DOMAIN saves' : saves'[i].kind = "grouping"
  BY <1>1, <1>2, TailKeeps
<1>4. /\ disk' = save.value /\ current' = save.value
      /\ reverted' = reverted \cup Reverts(save)
      /\ writer' = [f \in Fields |-> IF f \in save.fields \/ save.value[f] # current[f]
                                     THEN save.kind ELSE writer[f]]
      /\ Saved(save)
  BY <1>3 DEF SaveLands
<1>5. /\ save.value \in Settings /\ save.kind \in Kinds /\ save.mark \in Nat /\ save.fields \subseteq Fields
  BY <1>3 DEF Saves
<1> HIDE DEF save
<1>6. /\ ModelInv'
      /\ save.kind = "preference" => running' = [gen |-> save.mark, saved |-> TRUE]
      /\ save.kind # "preference" => running' = running
      /\ save.kind = "settings" => tracked' = save.value.rest
      /\ save.kind # "settings" => tracked' = tracked
      /\ \/ model'.settings = save.value
         \/ save.kind = "grouping" /\ save.mark # revision /\ model' = model
  BY <1>1, <1>3, <1>4, SavedKeeps
<1>7. SettingsTypes'
  <2>1. running' \in Changing \cup {None}
    <3>1. [gen |-> save.mark, saved |-> TRUE] \in Changing
      BY <1>5 DEF Changing
    <3> QED  BY <1>2, <1>6, <3>1 DEF SettingsTypes
  <2>2. tracked' \in RestMin .. RestMax
    BY <1>2, <1>5, <1>6 DEF SettingsTypes, Settings
  <2>3. writer' \in [Fields -> Kinds]
    BY <1>2, <1>4, <1>5 DEF SettingsTypes
  <2> QED  BY <1>1, <1>2, <1>3, <1>4, <1>5, <2>1, <2>2, <2>3 DEF SettingsTypes
<1>8. \A i \in DOMAIN saves : saves[i].kind = "preference" =>
        /\ \A j \in DOMAIN saves : saves[j].kind = "preference" => j = i
        /\ running # None /\ ~running.saved
        /\ \A f \in Fields \ saves[i].fields :
               saves[i].value[f] # current[f] => writer[f] # "preference"
  BY <1>2 DEF SettingsInv, PreferenceAlone
<1>9. PreferencesKept'
  <2> SUFFICES ASSUME NEW r \in reverted' PROVE ~(r.of = "preference" /\ r.by = "preference")
    BY DEF PreferencesKept
  <2>1. CASE r \in reverted
    BY <1>2, <2>1 DEF SettingsInv, PreferencesKept
  <2>2. CASE r \in Reverts(save)
    <3>1. PICK f \in Fields \ save.fields :
            save.value[f] # current[f] /\ r = [field |-> f, of |-> writer[f], by |-> save.kind]
      BY <2>2 DEF Reverts
    <3>2. r.of = writer[f] /\ r.by = save.kind
      BY <3>1
    <3> QED  BY <1>3, <1>8, <3>1, <3>2 DEF save
  <2> QED  BY <1>4, <2>1, <2>2
<1>10. PreferenceAlone'
  <2> SUFFICES ASSUME NEW i \in DOMAIN saves', saves'[i].kind = "preference"
               PROVE  /\ \A j \in DOMAIN saves' : saves'[j].kind = "preference" => j = i
                      /\ running' # None /\ ~running'.saved
                      /\ \A f \in Fields \ saves'[i].fields :
                           saves'[i].value[f] # current'[f] => writer'[f] # "preference"
    BY DEF PreferenceAlone
  <2>0. i \in Nat \ {0} /\ \A j \in DOMAIN saves' : j \in Nat
    BY <1>3
  <2>1. i + 1 \in DOMAIN saves /\ saves'[i] = saves[i + 1] /\ i + 1 # 1
    BY <1>3, <2>0
  <2>2. \A j \in DOMAIN saves : saves[j].kind = "preference" => j = i + 1
    BY <1>8, <2>1
  <2>3. save.kind # "preference"
    BY <1>3, <2>1, <2>2 DEF save
  <2>4. ASSUME NEW j \in DOMAIN saves', saves'[j].kind = "preference" PROVE j = i
    <3>1. j + 1 = i + 1
      BY <1>3, <2>2, <2>4
    <3> QED  BY <2>0, <3>1
  <2>5. running # None /\ ~running.saved
    BY <1>8, <2>1
  <2>6. ASSUME NEW f \in Fields \ saves'[i].fields, saves'[i].value[f] # current'[f]
        PROVE  writer'[f] # "preference"
    <3>1. CASE f \in save.fields \/ save.value[f] # current[f]
      BY <1>4, <2>3, <3>1
    <3>2. CASE ~(f \in save.fields \/ save.value[f] # current[f])
      BY <1>4, <1>8, <2>1, <2>6, <3>2
    <3> QED  BY <3>1, <3>2
  <2> QED  BY <1>6, <2>3, <2>4, <2>5, <2>6
<1>11. ApartOnlyUnderWay'
  <2>1. /\ crossed \in BOOLEAN
        /\ \A i \in DOMAIN saves : "rest" \in saves[i].fields => saves[i].kind = "settings"
        /\ (\E r \in reverted : r.field = "rest") \/ tracked = current.rest
    BY <1>2 DEF SettingsInv, SettingsTypes, ApartOnlyUnderWay
  <2>2. \A i \in DOMAIN saves' : "rest" \in saves'[i].fields => saves'[i].kind = "settings"
    BY <1>3, <2>1
  <2>3. (\A i \in DOMAIN saves' : saves'[i].kind = "settings") => model'.settings = current'
    BY <1>3, <1>4, <1>6
  <2>4. (\E r \in reverted' : r.field = "rest") \/ tracked' = current'.rest
    <3>1. CASE save.kind = "settings"
      BY <1>4, <1>6, <3>1
    <3>2. CASE save.kind # "settings" /\ save.value.rest = current.rest
      BY <1>4, <1>6, <2>1, <3>2
    <3>3. CASE save.kind # "settings" /\ save.value.rest # current.rest
      <4> DEFINE r == [field |-> "rest", of |-> writer["rest"], by |-> save.kind]
      <4>1. "rest" \in Fields \ save.fields /\ save.value["rest"] # current["rest"]
        BY <1>2, <1>3, <1>5, <2>1, <3>3 DEF save, Fields, Settings, SettingsTypes
      <4>2. r \in Reverts(save) /\ r.field = "rest"
        BY <4>1 DEF Reverts
      <4> QED  BY <1>4, <4>2
    <3> QED  BY <3>1, <3>2, <3>3
  <2> QED  BY <1>4, <2>2, <2>3, <2>4 DEF ApartOnlyUnderWay
<1> QED  BY <1>3, <1>6, <1>7, <1>9, <1>10, <1>11 DEF ControllerInv, SettingsInv

\* A save that fails leaves what is stored; the newest change is rolled back.
LEMMA SaveFailsKeeps ==
  ASSUME ControllerInv, SaveFails PROVE ControllerInv'
<1> DEFINE save == saves[1]
           undo == save.kind = "preference" \/ (save.kind = "grouping" /\ save.mark = revision)
<1>1. /\ saves # <<>> /\ saves' = Tail(saves) /\ failures' = failures + 1
      /\ UNCHANGED <<revision, today, stopped, queries, waiting, current, disk, tracked,
                     intents, writer, reverted>>
  BY DEF SaveFails
<1>2. SettingsInv /\ SettingsTypes /\ ModelInv
  BY DEF ControllerInv, SettingsInv
<1>3. /\ 1 \in DOMAIN saves /\ Head(saves) = save /\ save \in Saves
      /\ saves' \in Seq(Saves)
      /\ \A i \in DOMAIN saves' : i + 1 \in DOMAIN saves /\ saves'[i] = saves[i + 1]
      /\ \A i \in DOMAIN saves \ {1} : i - 1 \in DOMAIN saves' /\ saves'[i - 1] = saves[i]
      /\ AloneRestoresStored' /\ NewestBehind'
      /\ save.kind = "grouping" /\ save.mark # revision =>
           \E i \in DOMAIN saves' : saves'[i].kind = "grouping"
  BY <1>1, <1>2, TailKeeps
<1>4. /\ running' = IF save.kind = "preference" THEN None ELSE running
      /\ undo => Rollback(save) /\ crossed' = (crossed \/ save.beside)
      /\ ~undo => UNCHANGED <<generation, model, header, crossed, missed>>
  BY <1>3 DEF SaveFails, FailedPreference
<1>5. ModelInv' /\ (undo => model'.settings = save.settings)
  <2>1. CASE undo
    BY <1>1, <1>2, <1>3, <1>4, <2>1, RollbackKeeps
  <2>2. CASE ~undo
    <3>1. UNCHANGED <<controllerVars, header, missed>>
      BY <1>1, <1>4, <2>2 DEF controllerVars
    <3> QED  BY <1>2, <2>2, <3>1, ModelUntouched
  <2> QED  BY <2>1, <2>2
<1>6. save.kind \in Kinds /\ save.beside \in BOOLEAN
  BY <1>3 DEF Saves
<1>7. crossed' \in BOOLEAN /\ (crossed => crossed')
  BY <1>2, <1>4, <1>6 DEF SettingsTypes
<1>8. SettingsTypes'
  BY <1>1, <1>2, <1>3, <1>4, <1>7 DEF SettingsTypes
<1>9. PreferencesKept'
  BY <1>1, <1>2 DEF SettingsInv, PreferencesKept
<1>10. PreferenceAlone'
  <2> SUFFICES ASSUME NEW i \in DOMAIN saves', saves'[i].kind = "preference"
               PROVE  /\ \A j \in DOMAIN saves' : saves'[j].kind = "preference" => j = i
                      /\ running' # None /\ ~running'.saved
                      /\ \A f \in Fields \ saves'[i].fields :
                           saves'[i].value[f] # current'[f] => writer'[f] # "preference"
    BY DEF PreferenceAlone
  <2>0. i \in Nat \ {0} /\ \A j \in DOMAIN saves' : j \in Nat
    BY <1>3
  <2>1. i + 1 \in DOMAIN saves /\ saves'[i] = saves[i + 1] /\ i + 1 # 1
    BY <1>3, <2>0
  <2>2. /\ \A j \in DOMAIN saves : saves[j].kind = "preference" => j = i + 1
        /\ running # None /\ ~running.saved
        /\ \A f \in Fields \ saves[i + 1].fields :
             saves[i + 1].value[f] # current[f] => writer[f] # "preference"
    BY <1>2, <2>1 DEF SettingsInv, PreferenceAlone
  <2>3. save.kind # "preference"
    BY <1>3, <2>1, <2>2
  <2>4. ASSUME NEW j \in DOMAIN saves', saves'[j].kind = "preference" PROVE j = i
    <3>1. j + 1 = i + 1
      BY <1>3, <2>2, <2>4
    <3> QED  BY <2>0, <3>1
  <2> HIDE DEF save, undo
  <2> QED  BY <1>1, <1>4, <2>1, <2>2, <2>3, <2>4
<1>11. ApartOnlyUnderWay'
  <2>1. /\ current = disk
        /\ \A i \in DOMAIN saves : "rest" \in saves[i].fields => saves[i].kind = "settings"
        /\ (\E r \in reverted : r.field = "rest") \/ tracked = current.rest
        /\ crossed \/ ((\A i \in DOMAIN saves : saves[i].kind = "settings") => model.settings = current)
    BY <1>2 DEF SettingsInv, ApartOnlyUnderWay
  <2>2. \A i \in DOMAIN saves' : "rest" \in saves'[i].fields => saves'[i].kind = "settings"
    BY <1>3, <2>1
  <2>3. ASSUME ~crossed', \A i \in DOMAIN saves' : saves'[i].kind = "settings"
        PROVE  model'.settings = current'
    <3>1. CASE undo
      <4>1. ~crossed /\ ~save.beside
        BY <1>2, <1>4, <1>6, <2>3, <3>1 DEF SettingsTypes
      <4>2. save.settings = current
        BY <1>2, <1>3, <4>1 DEF SettingsInv, AloneRestoresStored
      <4> QED  BY <1>1, <1>5, <3>1, <4>2
    <3>2. CASE ~undo
      <4>1. save.kind = "settings"
        BY <1>3, <1>6, <2>3, <3>2 DEF Kinds
      <4>2. \A i \in DOMAIN saves : saves[i].kind = "settings"
        BY <1>3, <2>3, <4>1
      <4> QED  BY <1>1, <1>4, <1>7, <2>1, <2>3, <3>2, <4>2
    <3> QED  BY <3>1, <3>2
  <2> QED  BY <1>1, <2>1, <2>2, <2>3 DEF ApartOnlyUnderWay
<1> QED  BY <1>3, <1>5, <1>8, <1>9, <1>10, <1>11 DEF ControllerInv, SettingsInv

-----------------------------------------------------------------------------
\* The intents.

LEMMA SettingsUntouched ==
  ASSUME SettingsInv, UNCHANGED <<current, disk, saves, tracked, running, revision, ghosts>>,
         model'.settings = model.settings,
         waiting' \in Seq(Changes), intents' \in Nat, failures' \in Nat
  PROVE  SettingsInv'
BY DEF SettingsInv, SettingsTypes, PreferencesKept, PreferenceAlone, AloneRestoresStored,
       NewestBehind, ApartOnlyUnderWay, ghosts

\* A model with another query and other settings.
Asking(m, q, s) == [m EXCEPT !.query = q, !.settings = s]

LEMMA AskingModel ==
  ASSUME NEW m \in Models, NEW q \in Queries, NEW s \in Settings
  PROVE  Asking(m, q, s) \in Models /\ Asking(m, q, s).settings = s
BY DEF Asking, Models

\* A query that differs from another in one part.
LEMMA QueryParts ==
  ASSUME NEW q \in Queries
  PROVE  /\ \A p \in Paths : [q EXCEPT !.path = p] \in Queries
         /\ \A g \in Groupings : [q EXCEPT !.grouping = g] \in Queries
         /\ \A metric \in Metrics : [q EXCEPT !.metric = metric] \in Queries
         /\ \A r \in Ranges : [q EXCEPT !.range = r] \in Queries
BY DEF Queries

\* A refresh that keeps the settings.
LEMMA NavigationKeeps ==
  ASSUME ControllerInv, NEW q \in Queries, NEW date \in Days,
         Refresh(Asking(model, q, model.settings), date), today' = date,
         UNCHANGED <<stopped, settingsVars, revision, ghosts>>,
         intents' \in Nat, failures' \in Nat
  PROVE  ControllerInv'
<1>1. /\ ModelInv /\ SettingsInv /\ model \in Models /\ model.settings \in Settings
      /\ waiting \in Seq(Changes)
  BY DEF ControllerInv, ModelInv, ModelTypes, Models, SettingsInv, SettingsTypes
<1>2. Asking(model, q, model.settings) \in Models /\ Asking(model, q, model.settings).settings = model.settings
  BY <1>1, AskingModel
<1>3. ModelInv' /\ model'.settings = model.settings
  BY <1>1, <1>2, RefreshKeeps
<1>4. SettingsInv'
  BY <1>1, <1>3, SettingsUntouched DEF settingsVars
<1> QED  BY <1>3, <1>4 DEF ControllerInv

LEMMA DispatchCounts ==
  ASSUME ControllerInv, Dispatch PROVE intents' \in Nat /\ failures' \in Nat
BY ControllerAssumption DEF ControllerInv, SettingsInv, SettingsTypes, Dispatch

LEMMA SetPathKeeps ==
  ASSUME ControllerInv, NEW p \in Paths, SetPath(p) PROVE ControllerInv'
<1>1. model \in Models /\ model.query \in Queries /\ today \in Days
  BY DEF ControllerInv, ModelInv, ModelTypes, Models
<1>2. [model.query EXCEPT !.path = p] \in Queries
  BY <1>1, QueryParts
<1>3. [model EXCEPT !.query.path = p] = Asking(model, [model.query EXCEPT !.path = p], model.settings)
  BY <1>1 DEF Asking, Models
<1>4. /\ Refresh(Asking(model, [model.query EXCEPT !.path = p], model.settings), today)
      /\ UNCHANGED <<revision, today, stopped, settingsVars, ghosts>>
      /\ intents' \in Nat /\ failures' \in Nat
  BY <1>3, DispatchCounts DEF SetPath
<1> QED  BY <1>1, <1>2, <1>4, NavigationKeeps

LEMMA SetQueryKeeps ==
  ASSUME ControllerInv, SetQuery PROVE ControllerInv'
<1>1. model \in Models /\ model.settings \in Settings /\ today \in Days
  BY DEF ControllerInv, ModelInv, ModelTypes, Models
<1> DEFINE q == DefaultQuery(model.settings, today)
<1>2. q \in Queries
  BY <1>1, DefaultQueryType
<1>3. [model EXCEPT !.query = q] = Asking(model, q, model.settings)
  BY <1>1 DEF Asking, Models
<1>4. /\ Refresh(Asking(model, q, model.settings), today)
      /\ UNCHANGED <<revision, today, stopped, settingsVars, ghosts>>
      /\ intents' \in Nat /\ failures' \in Nat
  BY <1>3, DispatchCounts DEF SetQuery
<1> QED  BY <1>1, <1>2, <1>4, NavigationKeeps

LEMMA NewDayKeeps ==
  ASSUME ControllerInv, NewDay PROVE ControllerInv'
<1>1. /\ model \in Models /\ model.settings \in Settings /\ model.query \in Queries
      /\ today \in Days /\ ModelInv /\ SettingsInv /\ waiting \in Seq(Changes)
      /\ intents \in Nat /\ failures \in Nat
  BY DEF ControllerInv, ModelInv, ModelTypes, Models, SettingsInv, SettingsTypes
<1>2. /\ today' = today + 1 /\ today + 1 \in Days
      /\ UNCHANGED <<revision, stopped, settingsVars, intents, ghosts, failures>>
  BY <1>1, ControllerAssumption DEF NewDay, Days
<1>3. CASE model.query.range = [mode |-> "day", day |-> today]
  <2> DEFINE r == [model.query.range EXCEPT !.day = today + 1]
             q == [model.query EXCEPT !.range = r]
  <2>1. r \in Ranges
    BY <1>1, <1>2 DEF Queries, Ranges
  <2>2. q \in Queries
    BY <1>1, <2>1, QueryParts
  <2>3. [model EXCEPT !.query.range.day = today + 1] = Asking(model, q, model.settings)
    BY <1>1 DEF Asking, Models, Queries
  <2>4. Refresh(Asking(model, q, model.settings), today + 1)
    BY <1>3, <2>3 DEF NewDay
  <2> HIDE DEF q, r
  <2> QED  BY <1>1, <1>2, <2>2, <2>4, NavigationKeeps
<1>4. CASE model.query.range # [mode |-> "day", day |-> today]
  <2>1. /\ model' = model /\ missed' = TRUE /\ UNCHANGED <<generation, queries>>
        /\ header' = IF stopped THEN header ELSE Asked(header, model', today + 1)
    BY <1>4 DEF NewDay, Publish
  <2>2. model' = [model EXCEPT !.settings = model.settings]
    BY <1>1, <2>1 DEF Models
  <2>3. ModelInv'
    BY <1>1, <1>2, <2>1, <2>2, SettingsShown
  <2>4. SettingsInv'
    BY <1>1, <1>2, <2>1, SettingsUntouched DEF settingsVars
  <2> QED  BY <2>3, <2>4 DEF ControllerInv
<1> QED  BY <1>3, <1>4

\* Settings with one part changed as it was asked for.
LEMMA PatchedSettings ==
  ASSUME NEW s \in Settings
  PROVE  /\ \A g \in Groupings : [s EXCEPT !.grouping = g] \in Settings
         /\ \A patch \in [metric : Metrics] \cup [range : Modes] : Patched(s, patch) \in Settings
<1>1. \A g \in Groupings : [s EXCEPT !.grouping = g] \in Settings
  BY DEF Settings
<1>2. ASSUME NEW patch \in [metric : Metrics] PROVE Patched(s, patch) \in Settings
  <2>1. DOMAIN patch = {"metric"} /\ patch["metric"] \in Metrics
    BY <1>2
  <2>2. Patched(s, patch) = [f \in Fields |-> IF f = "metric" THEN patch["metric"] ELSE s[f]]
    BY <2>1 DEF Patched
  <2> QED  BY <2>1, <2>2 DEF Fields, Settings
<1>3. ASSUME NEW patch \in [range : Modes] PROVE Patched(s, patch) \in Settings
  <2>1. DOMAIN patch = {"range"} /\ patch["range"] \in Modes
    BY <1>3
  <2>2. Patched(s, patch) = [f \in Fields |-> IF f = "range" THEN patch["range"] ELSE s[f]]
    BY <2>1 DEF Patched
  <2> QED  BY <2>1, <2>2 DEF Fields, Settings
<1> QED  BY <1>1, <1>2, <1>3

LEMMA SetGroupingKeeps ==
  ASSUME ControllerInv, SetGrouping PROVE ControllerInv'
<1>1. /\ model \in Models /\ model.settings \in Settings /\ model.query \in Queries
      /\ today \in Days /\ ModelInv /\ SettingsInv /\ SettingsTypes
  BY DEF ControllerInv, ModelInv, ModelTypes, Models, SettingsInv
<1> DEFINE next == IF model.query.grouping = "path" THEN "file" ELSE "path"
           q == [model.query EXCEPT !.grouping = next]
           s == [model.settings EXCEPT !.grouping = next]
<1>2. next \in Groupings /\ [grouping |-> next] \in Patches
  BY DEF Groupings, Patches
<1>3. q \in Queries /\ s \in Settings
  BY <1>1, <1>2, QueryParts, PatchedSettings
<1>4. [model EXCEPT !.query.grouping = next, !.settings.grouping = next] = Asking(model, q, s)
  BY <1>1 DEF Asking, Models
<1>5. /\ revision' = revision + 1
      /\ Refresh(Asking(model, q, s), today)
      /\ Update("grouping", [grouping |-> next], revision + 1, model)
      /\ UNCHANGED <<today, stopped, waiting, running, current, disk, tracked, ghosts>>
      /\ intents' \in Nat /\ failures' \in Nat
  BY <1>4, DispatchCounts DEF SetGrouping
<1> HIDE DEF q, s, next
<1>6. ModelInv'
  BY <1>1, <1>3, <1>5, AskingModel, RefreshKeeps
<1>7. "grouping" \in Kinds /\ revision + 1 \in Nat
  BY <1>1 DEF Kinds, SettingsTypes
<1>8. /\ saves' \in Seq(Saves) /\ PreferencesKept' /\ AloneRestoresStored'
      /\ NewestBehind' /\ ApartOnlyUnderWay' /\ PreferenceAlone'
  <2> DEFINE patch == [grouping |-> next]
  <2>1. patch \in Patches /\ "rest" \notin DOMAIN patch
    BY <1>2
  <2>2. /\ Update("grouping", patch, revision', model) /\ revision' \in Nat
        /\ UNCHANGED <<running, current, disk, tracked, writer, reverted, crossed>>
    BY <1>5, <1>7 DEF ghosts
  <2> HIDE DEF patch
  <2> QED  BY <1>1, <1>7, <2>1, <2>2, QueuedKeeps
<1>9. SettingsTypes'
  BY <1>1, <1>5, <1>7, <1>8 DEF SettingsTypes, ghosts
<1> QED  BY <1>6, <1>8, <1>9 DEF ControllerInv, SettingsInv

\* A change that waits is no more than that.
LEMMA SetPreferenceKeeps ==
  ASSUME ControllerInv,
         \/ \E metric \in Metrics : SetMetric(metric)
         \/ \E range \in Offered : SetRange(range)
  PROVE  ControllerInv'
<1>1. /\ ModelInv /\ SettingsInv /\ waiting \in Seq(Changes)
  BY DEF ControllerInv, SettingsInv, SettingsTypes
<1>2. \E change \in Changes : waiting' = Append(waiting, change)
  <2>1. ASSUME NEW metric \in Metrics, SetMetric(metric)
        PROVE  \E change \in Changes : waiting' = Append(waiting, change)
    <3>1. [metric |-> metric] \in [metric : Metrics]
      OBVIOUS
    <3>2. [patch |-> [metric |-> metric], range |-> None] \in Changes
      BY <3>1 DEF Changes
    <3> QED  BY <2>1, <3>2 DEF SetMetric
  <2>2. ASSUME NEW range \in Offered, SetRange(range)
        PROVE  \E change \in Changes : waiting' = Append(waiting, change)
    <3>1. range \in Ranges /\ [range |-> range.mode] \in [range : Modes]
      BY DEF Offered, Ranges
    <3>2. [patch |-> [range |-> range.mode], range |-> range] \in Changes
      BY <3>1 DEF Changes
    <3> QED  BY <2>2, <3>2 DEF SetRange
  <2> QED  BY <2>1, <2>2
<1>3. /\ UNCHANGED <<controllerVars, running, current, disk, saves, tracked, header, ghosts, missed>>
      /\ intents' \in Nat /\ failures' \in Nat
  BY DispatchCounts DEF SetMetric, SetRange
<1>4. waiting' \in Seq(Changes)
  BY <1>1, <1>2
<1>5. UNCHANGED <<controllerVars, header, missed>> /\ model' = model /\ revision' = revision
  BY <1>3 DEF controllerVars
<1>6. ModelInv'
  BY <1>1, <1>5, ModelUntouched
<1>7. SettingsInv'
  BY <1>1, <1>3, <1>4, <1>5, SettingsUntouched
<1> QED  BY <1>6, <1>7 DEF ControllerInv

LEMMA UpdateSettingsKeeps ==
  ASSUME ControllerInv, NEW value \in Rests, UpdateSettings(value) PROVE ControllerInv'
<1>1. /\ model \in Models /\ ModelInv /\ SettingsInv /\ SettingsTypes
  BY DEF ControllerInv, ModelInv, ModelTypes, SettingsInv
<1>2. [rest |-> value] \in Patches /\ "settings" \in Kinds /\ 0 \in Nat
  BY ControllerAssumption DEF Patches, Kinds
<1>3. /\ UNCHANGED <<controllerVars, header, missed>> /\ model' = model /\ running' = running
      /\ Update("settings", [rest |-> value], 0, model)
      /\ UNCHANGED <<revision, waiting, current, disk, tracked, ghosts>>
      /\ intents' \in Nat /\ failures' \in Nat
  BY DispatchCounts DEF UpdateSettings, controllerVars
<1>4. ModelInv'
  BY <1>1, <1>3, ModelUntouched
<1>5. /\ saves' \in Seq(Saves) /\ PreferencesKept' /\ AloneRestoresStored'
      /\ NewestBehind' /\ ApartOnlyUnderWay' /\ PreferenceAlone'
  BY <1>1, <1>2, <1>3, QueuedKeeps DEF ghosts
<1>6. SettingsTypes'
  BY <1>1, <1>3, <1>5 DEF SettingsTypes, ghosts
<1> QED  BY <1>4, <1>5, <1>6 DEF ControllerInv, SettingsInv

\* What a preference change asks for.
LEMMA ChangeTypes ==
  ASSUME NEW change \in Changes, NEW q \in Queries
  PROVE  /\ change.patch \in [metric : Metrics] \cup [range : Modes]
         /\ Chosen(q, change) \in Queries
<1>1. CASE change \in [patch : [metric : Metrics], range : {None}]
  <2>1. change.range = None /\ change.patch \in [metric : Metrics]
    BY <1>1
  <2>2. change.patch.metric \in Metrics
    BY <2>1
  <2> QED  BY <2>1, <2>2, QueryParts DEF Chosen
<1>2. CASE change \in [patch : [range : Modes], range : Ranges]
  <2>1. change.range \in Ranges /\ change.patch \in [range : Modes] /\ change.range # None
    BY <1>2, ControllerAssumption
  <2> QED  BY <2>1, QueryParts DEF Chosen
<1> QED  BY <1>1, <1>2 DEF Changes

\* A change begins when no other preference is on its way, so its save is the only one.
LEMMA BeginPreferenceKeeps ==
  ASSUME ControllerInv, BeginPreference PROVE ControllerInv'
<1>1. /\ model \in Models /\ model.settings \in Settings /\ model.query \in Queries
      /\ today \in Days /\ ModelInv /\ SettingsInv /\ SettingsTypes /\ generation \in Nat
      /\ waiting \in Seq(Changes) /\ waiting # <<>>
  BY DEF ControllerInv, ModelInv, ModelTypes, Models, SettingsInv, SettingsTypes,
         BeginPreference, NextChange
<1> DEFINE change == Head(waiting)
           q == Chosen(model.query, change)
           s == Patched(model.settings, change.patch)
<1>2. change \in Changes /\ waiting' = Tail(waiting) /\ Tail(waiting) \in Seq(Changes)
  BY <1>1 DEF BeginPreference
<1>3. /\ change.patch \in [metric : Metrics] \cup [range : Modes]
      /\ q \in Queries /\ s \in Settings
  BY <1>1, <1>2, ChangeTypes, PatchedSettings
<1>4. [model EXCEPT !.query = q, !.settings = s] = Asking(model, q, s)
  BY DEF Asking
<1>5. /\ Refresh(Asking(model, q, s), today)
      /\ Update("preference", change.patch, generation + 1, model)
      /\ running' = [gen |-> generation + 1, saved |-> FALSE]
      /\ UNCHANGED <<revision, today, stopped, current, disk, tracked, intents, ghosts, failures>>
  BY <1>4 DEF BeginPreference
<1>6. change.patch \in Patches /\ "rest" \notin DOMAIN change.patch
  BY <1>3 DEF Patches
<1> DEFINE patch == change.patch
<1> HIDE DEF change, q, s
<1>7. ModelInv'
  BY <1>1, <1>3, <1>5, AskingModel, RefreshKeeps
<1>8. "preference" \in Kinds /\ generation' \in Nat /\ generation' = generation + 1
  BY <1>1, <1>5 DEF Kinds, Refresh
<1>9. /\ Update("preference", patch, generation', model) /\ patch \in Patches
      /\ "rest" \notin DOMAIN patch /\ revision' = revision
      /\ UNCHANGED <<current, disk, tracked, writer, reverted, crossed>>
  BY <1>5, <1>6, <1>8 DEF ghosts
<1> HIDE DEF patch
<1>10. /\ saves' \in Seq(Saves) /\ PreferencesKept' /\ AloneRestoresStored'
       /\ NewestBehind' /\ ApartOnlyUnderWay'
  BY <1>1, <1>8, <1>9, QueuedKeeps
<1>11. running' \in Changing /\ running' # None /\ ~running'.saved
  <2>1. [gen |-> generation + 1, saved |-> FALSE] \in Changing
    BY <1>1 DEF Changing
  <2> QED  BY <1>5, <2>1, ControllerAssumption
<1>12. SettingsTypes'
  BY <1>1, <1>2, <1>5, <1>10, <1>11 DEF SettingsTypes, ghosts
<1>13. PreferenceAlone'
  <2>1. \A i \in DOMAIN saves : saves[i].kind # "preference"
    <3>1. running # None => running.saved
      BY DEF BeginPreference, NextChange, RunningIsDone
    <3> QED  BY <1>1, <3>1 DEF SettingsInv, PreferenceAlone
  <2>2. saves \in Seq(Saves) /\ current \in Settings
    BY <1>1 DEF SettingsTypes
  <2>3. /\ \A i \in DOMAIN saves : i \in DOMAIN saves' /\ saves'[i].kind = saves[i].kind
        /\ \A i \in DOMAIN saves' \ DOMAIN saves :
             i = Len(saves) + 1 /\ saves'[i].fields = DOMAIN patch /\ saves'[i].value = Merged(current, patch)
    BY <1>1, <1>8, <1>9, <2>2, Queued
  <2> SUFFICES ASSUME NEW i \in DOMAIN saves', saves'[i].kind = "preference"
               PROVE  /\ \A j \in DOMAIN saves' : saves'[j].kind = "preference" => j = i
                      /\ running' # None /\ ~running'.saved
                      /\ \A f \in Fields \ saves'[i].fields :
                           saves'[i].value[f] # current'[f] => writer'[f] # "preference"
    BY DEF PreferenceAlone
  <2>4. i = Len(saves) + 1 /\ saves'[i].fields = DOMAIN patch /\ saves'[i].value = Merged(current, patch)
    BY <2>1, <2>3
  <2>5. \A j \in DOMAIN saves' : saves'[j].kind = "preference" => j = i
    BY <2>1, <2>3, <2>4
  <2>6. \A f \in Fields \ DOMAIN patch : Merged(current, patch)[f] = current[f]
    BY <1>9, <2>2, MergedSettings
  <2> QED  BY <1>9, <1>11, <2>4, <2>5, <2>6
<1> QED  BY <1>7, <1>10, <1>12, <1>13 DEF ControllerInv, SettingsInv

-----------------------------------------------------------------------------
\* The specification.

LEMMA InitSatisfies ==
  ASSUME Init PROVE ControllerInv
<1>1. /\ InitialSettings \in Settings /\ 1 \in Days
      /\ InitialModel \in Models /\ InitialModel.gen = 0 /\ InitialModel.load = "loading"
      /\ InitialModel.settings = InitialSettings
  BY InitialTypes
<1> DEFINE h == [dist |-> None, gen |-> -1, loading |-> None]
<1>2. h \in Headers /\ h.gen = -1 /\ h.dist = None /\ h.loading = None
  BY DEF Headers
<1> HIDE DEF h
<1>3. /\ model = InitialModel /\ generation = 0 /\ today = 1 /\ stopped = FALSE /\ queries = {}
      /\ header = Asked(h, InitialModel, 1) /\ missed = FALSE
  BY DEF Init, h
<1>4. /\ header \in Headers /\ header.gen = -1 /\ header.dist = None
      /\ header.loading # None /\ header.loading.gen = 0
      /\ header.loading.query = DefaultQuery(InitialSettings, 1)
  BY <1>1, <1>2, <1>3, AskedHeader
<1>5. ModelTypes
  BY <1>1, <1>3, <1>4 DEF ModelTypes
<1>6. Numbered
  BY <1>1, <1>3, <1>4 DEF Numbered
<1>7. ShownAnswersQuery /\ LoadingEnds /\ NewestAsksModel /\ HeaderCurrent
  BY <1>1, <1>3, <1>4 DEF ShownAnswersQuery, LoadingEnds, NewestAsksModel, HeaderCurrent
<1>8. LoadAsksDefault
  BY <1>1, <1>3, <1>4 DEF LoadAsksDefault
<1>9. /\ revision = 0 /\ waiting = <<>> /\ running = None /\ saves = <<>> /\ reverted = {}
      /\ current = InitialSettings /\ disk = InitialSettings /\ tracked = InitialSettings.rest
      /\ intents = 0 /\ failures = 0 /\ crossed = FALSE
      /\ writer = [f \in Fields |-> "settings"]
  BY DEF Init
<1>10. SettingsTypes
  <2>1. InitialSettings.rest \in RestMin .. RestMax
    BY <1>1 DEF Settings
  <2>2. <<>> \in Seq(Changes) /\ <<>> \in Seq(Saves)
    OBVIOUS
  <2>3. writer \in [Fields -> Kinds]
    BY <1>9 DEF Kinds
  <2> QED  BY <1>1, <1>9, <2>1, <2>2, <2>3 DEF SettingsTypes
<1>11. /\ PreferencesKept /\ PreferenceAlone /\ AloneRestoresStored /\ NewestBehind
       /\ ApartOnlyUnderWay
  BY <1>1, <1>3, <1>9
     DEF PreferencesKept, PreferenceAlone, AloneRestoresStored, NewestBehind, ApartOnlyUnderWay
<1> QED  BY <1>5, <1>6, <1>7, <1>8, <1>10, <1>11 DEF ControllerInv, ModelInv, SettingsInv

LEMMA StepKeeps ==
  ASSUME ControllerInv, [Next]_vars PROVE ControllerInv'
<1>0. /\ ModelInv /\ SettingsInv /\ model = model /\ waiting \in Seq(Changes)
      /\ intents \in Nat /\ failures \in Nat
  BY DEF ControllerInv, SettingsInv, SettingsTypes
<1>1. ASSUME NEW p \in Paths, SetPath(p) PROVE ControllerInv'
  BY <1>1, SetPathKeeps
<1>2. CASE SetQuery
  BY <1>2, SetQueryKeeps
<1>3. CASE SetGrouping
  BY <1>3, SetGroupingKeeps
<1>4. CASE (\E metric \in Metrics : SetMetric(metric)) \/ (\E range \in Offered : SetRange(range))
  BY <1>4, SetPreferenceKeeps
<1>5. CASE BeginPreference
  BY <1>5, BeginPreferenceKeeps
<1>6. ASSUME NEW value \in Rests, UpdateSettings(value) PROVE ControllerInv'
  BY <1>6, UpdateSettingsKeeps
<1>7. ASSUME NEW q \in queries, Answer(q) \/ AnswerFails(q) PROVE ControllerInv'
  <2>1. ModelInv' /\ model'.settings = model.settings
    BY <1>0, <1>7, AnswerKeeps
  <2>2. /\ UNCHANGED <<revision, settingsVars, intents, ghosts>> /\ failures' \in Nat
    BY <1>0, <1>7 DEF Answer, AnswerFails
  <2>3. SettingsInv'
    BY <1>0, <2>1, <2>2, SettingsUntouched DEF settingsVars
  <2> QED  BY <2>1, <2>3 DEF ControllerInv
<1>8. CASE SaveLands
  BY <1>8, SaveLandsKeeps
<1>9. CASE SaveFails
  BY <1>9, SaveFailsKeeps
<1>10. CASE HeaderAnswers \/ HeaderFails
  <2>1. ModelInv' /\ UNCHANGED model
    BY <1>0, <1>10, HeaderKeeps
  <2>2. /\ UNCHANGED <<revision, settingsVars, intents, ghosts>> /\ failures' \in Nat
    BY <1>0, <1>10 DEF HeaderAnswers, HeaderFails, controllerVars
  <2>3. SettingsInv'
    BY <1>0, <2>1, <2>2, SettingsUntouched DEF settingsVars
  <2> QED  BY <2>1, <2>3 DEF ControllerInv
<1>11. CASE NewDay
  BY <1>11, NewDayKeeps
<1>12. CASE Stop
  <2>1. ModelInv' /\ UNCHANGED model
    BY <1>0, <1>12, StopKeeps
  <2>2. UNCHANGED <<revision, settingsVars, intents, ghosts, failures>>
    BY <1>12 DEF Stop
  <2>3. SettingsInv'
    BY <1>0, <2>1, <2>2, SettingsUntouched DEF settingsVars
  <2> QED  BY <2>1, <2>3 DEF ControllerInv
<1>13. CASE UNCHANGED vars
  <2>1. UNCHANGED <<controllerVars, header, missed>> /\ model' = model
    BY <1>13 DEF vars, controllerVars
  <2>2. UNCHANGED <<revision, settingsVars, intents, ghosts, failures>>
    BY <1>13 DEF vars, controllerVars
  <2>3. SettingsInv'
    BY <1>0, <2>1, <2>2, SettingsUntouched DEF settingsVars
  <2> QED  BY <1>0, <2>1, <2>3, ModelUntouched DEF ControllerInv
<1> QED  BY <1>1, <1>2, <1>3, <1>4, <1>5, <1>6, <1>7, <1>8, <1>9, <1>10, <1>11, <1>12, <1>13
         DEF Next

\* Every reachable state of the controller, its repository and the miniature satisfies the
\* invariant (activity-map-controller.ts, settings-repository.ts, header-action-manager.ts).
THEOREM ControllerInvariant == Spec => []ControllerInv
<1> QED  BY InitSatisfies, StepKeeps, PTL DEF Spec

\* What is shown as an answer always answers the question beside it
\* (activity-map-controller.ts:218).
THEOREM AnswersMatch == Spec => []ShownAnswersQuery
<1>1. ControllerInv => ShownAnswersQuery
  BY DEF ControllerInv, ModelInv
<1> QED  BY <1>1, ControllerInvariant, PTL

\* A loading model always has the query under way that will end it
\* (activity-map-controller.ts:213-240).
THEOREM LoadingHasEnd == Spec => []LoadingEnds
<1>1. ControllerInv => LoadingEnds
  BY DEF ControllerInv, ModelInv
<1> QED  BY <1>1, ControllerInvariant, PTL

\* The miniature follows the model's generation and its default query
\* (header-action-manager.ts:214).
THEOREM MiniatureFollows == Spec => []HeaderKeepsUp
<1>1. ControllerInv => HeaderKeepsUp
  BY DEF ControllerInv, ModelInv, HeaderCurrent, LoadAsksDefault, HeaderKeepsUp
<1> QED  BY <1>1, ControllerInvariant, PTL

\* No preference change puts back what an earlier preference change stored
\* (activity-map-controller.ts:273-275).
THEOREM PreferencesSurvive == Spec => []PreferencesKept
<1>1. ControllerInv => PreferencesKept
  BY DEF ControllerInv, SettingsInv
<1> QED  BY <1>1, ControllerInvariant, PTL

\* With no update under way, the model, the repository and the disk agree
\* (settings-repository.ts:78).
THEOREM SettingsAgree == Spec => []SettledAgrees
<1>1. ControllerInv => SettledAgrees
  BY DEF ControllerInv, SettingsInv, ApartOnlyUnderWay, SettledAgrees
<1> QED  BY <1>1, ControllerInvariant, PTL

=============================================================================
