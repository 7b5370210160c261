--------------------------- MODULE SummaryPopover ---------------------------
(***************************************************************************)
(* The header actions (ui/header-action-manager.ts) and the popovers they  *)
(* own (ui/summary-popover.ts): opening by hover and focus, the delayed    *)
(* close, pinning, popovers that outlive their header, re-rendering on     *)
(* every published model, locating the current file, arming a slice,       *)
(* editing the control layout in place and the poster export.              *)
(*                                                                         *)
(* The controller appears as the model it publishes: a generation, whether *)
(* it is loading, and the stored layout (ActivityMapController details     *)
(* it).  A chart is `mounted` or not; which slices it has is left out.     *)
(***************************************************************************)
EXTENDS ActionLayout

CONSTANTS
    Views,        \* file views of the workspace
    Files,
    MaxPopovers,  \* header actions created in a behaviour
    MaxGeneration,
    MaxMoves,     \* layout moves in a behaviour
    MaxSaves,     \* layout saves in a behaviour
    RawLayouts,   \* persisted layouts the plugin may start from
    None

ASSUME PopoverAssumption ==
    /\ MaxPopovers \in Nat \ {0}
    /\ MaxGeneration \in Nat /\ MaxMoves \in Nat /\ MaxSaves \in Nat
    /\ None \notin Views \cup Files \cup ActionSet
    /\ \A raw \in RawLayouts : Persisted(raw)

VARIABLES
    file,      \* file[v]: what view v shows, None when the view is gone
    entry,     \* entry[v]: the popover of v's action, 0 when it has none
    made,      \* how many popovers were created; each has a fresh number
    entryFile, \* the path an entry was created for
    pop,       \* the popovers
    detached,  \* pinned popovers whose header is gone
    pointer,   \* where the mouse is: nowhere, on a trigger or inside
    focus,     \* where the keyboard focus is
    press,     \* the popover a long press is under way in, or 0
    model,     \* [gen, load, layout]
    saves,     \* layout saves under way: [by, draft, stage, gen]
    poster,    \* the popovers whose poster export is being loaded
    stopped,
    moves, begun  \* layout moves and saves so far (bounds)

headerVars == <<file, entry, made, entryFile, detached, stopped>>
placeVars == <<pointer, focus, press>>
bounds == <<moves, begun>>
vars == <<headerVars, pop, placeVars, model, saves, poster, bounds>>

Popovers == 1 .. MaxPopovers
Nowhere == [on |-> "nothing", of |-> 0]
Trigger(p) == [on |-> "trigger", of |-> p]
Inside(p) == [on |-> "inside", of |-> p]

\* What close() leaves of a popover.
Closed == [open |-> FALSE, pinned |-> FALSE, closing |-> FALSE, mounted |-> FALSE,
           edit |-> None, pending |-> None, locating |-> FALSE, armed |-> FALSE,
           ignored |-> FALSE]

\* The header action is in the document: its entry was not replaced.
Connected(p) == \E v \in Views : entry[v] = p
Held(p) == pop[p].pinned \/ pointer.of = p \/ focus.of = p

(***************************************************************************)
(* Rendering.  A render drops the layout editor, the armed slice and the   *)
(* locate highlight; then a pending locate completes on a ready model of a *)
(* newer generation, with a highlight if the file is `found` there.  An    *)
(* empty result has a chart only when the open session is `live` in it.    *)
(***************************************************************************)
Results(m) ==
    CASE m.load = "ready" -> {"plain", "found"}
      [] m.load = "empty" -> {"plain", "live"}
      [] OTHER -> {"plain"}

Rendered(r, m, result) ==
    LET completes == r.pending # None /\ m.load = "ready" /\ m.gen > r.pending
    IN  [r EXCEPT !.edit = None, !.armed = FALSE,
                  !.mounted = (m.load = "ready" \/ result = "live"),
                  !.locating = (completes /\ result = "found"),
                  !.pending = IF completes THEN None ELSE @]

\* A layout stored elsewhere wins over a draft that is not being saved.
YieldsTo(r, m) ==
    IF r.edit # None /\ ~r.edit.saving /\ r.edit.committed # m.layout
    THEN [r EXCEPT !.edit = None] ELSE r

\* renderIfChanged: a loading model keeps a mounted chart.
Notified(r, m, result) ==
    IF ~r.open THEN r
    ELSE IF m.gen = model.gen /\ m.load = model.load THEN YieldsTo(r, m)
    ELSE IF m.load = "loading" /\ r.mounted THEN YieldsTo(r, m)
    ELSE Rendered(YieldsTo(r, m), m, result)

Publish(pops, m) ==
    \E result \in Results(m) :
        /\ pop' = [p \in Popovers |-> Notified(pops[p], m, result)]
        /\ model' = m

Loading(m) == [m EXCEPT !.gen = @ + 1, !.load = "loading"]
CanLoad == model.gen < MaxGeneration

(***************************************************************************)
(* Opening and closing.                                                    *)
(***************************************************************************)
CancelClose(r) == [r EXCEPT !.closing = FALSE, !.ignored = FALSE]

\* Mutant: a pinned popover starts the timer as well.
ScheduleAlways(r) == [r EXCEPT !.closing = TRUE]
\* `ignored` (ghost) notes a departure that the layout editor swallowed.
ScheduleClose(r) ==
    IF r.pinned THEN r
    ELSE IF r.edit # None THEN [r EXCEPT !.ignored = TRUE]
    ELSE [r EXCEPT !.closing = TRUE]

\* Nothing is over, focused in or pressed in what has left the document.
PlacesWithout(gone) ==
    /\ pointer' = IF pointer \in gone THEN Nowhere ELSE pointer
    /\ focus' = IF focus \in gone THEN Nowhere ELSE focus
    /\ press' = IF Inside(press) \in gone THEN 0 ELSE press

\* open(): a closed popover asks for the default query and renders loading.
Opened(p) ==
    IF pop[p].open
    THEN pop' = [pop EXCEPT ![p] = CancelClose(@)] /\ UNCHANGED model
    ELSE /\ CanLoad
         /\ Publish([pop EXCEPT ![p] = [Closed EXCEPT !.open = TRUE]], Loading(model))

EnterTrigger(p) ==
    /\ Connected(p) /\ pointer = Nowhere
    /\ pointer' = Trigger(p)
    /\ Opened(p)
    /\ UNCHANGED <<headerVars, focus, press, saves, poster, bounds>>

FocusTrigger(p) ==
    /\ Connected(p) /\ focus \in {Nowhere, Inside(p)}
    /\ focus' = Trigger(p)
    /\ Opened(p)
    /\ UNCHANGED <<headerVars, pointer, press, saves, poster, bounds>>

EnterPopover(p) ==
    /\ pop[p].open /\ pointer = Nowhere
    /\ pointer' = Inside(p)
    /\ pop' = [pop EXCEPT ![p] = CancelClose(@)]
    /\ UNCHANGED <<headerVars, focus, press, model, saves, poster, bounds>>

\* Coming from its own trigger, the trigger's blur and this focusin cancel out.
FocusInside(p) ==
    /\ pop[p].open /\ focus \in {Nowhere, Trigger(p)}
    /\ focus' = Inside(p)
    /\ pop' = [pop EXCEPT ![p] = CancelClose(@)]
    /\ UNCHANGED <<headerVars, pointer, press, model, saves, poster, bounds>>

\* The pointer leaves a trigger or a popover; moving off ends a long press.
PointerLeaves ==
    /\ pointer # Nowhere
    /\ pop' = [pop EXCEPT ![pointer.of] = ScheduleClose(@)]
    /\ pointer' = Nowhere
    /\ press' = 0
    /\ UNCHANGED <<headerVars, focus, model, saves, poster, bounds>>

FocusLeaves ==
    /\ focus # Nowhere
    /\ pop' = [pop EXCEPT ![focus.of] = ScheduleClose(@)]
    /\ focus' = Nowhere
    /\ UNCHANGED <<headerVars, pointer, press, model, saves, poster, bounds>>

CloseTimer(p) ==
    /\ pop[p].closing
    /\ IF Held(p)
       THEN pop' = [pop EXCEPT ![p].closing = FALSE] /\ UNCHANGED placeVars
       ELSE pop' = [pop EXCEPT ![p] = Closed] /\ PlacesWithout({Inside(p)})
    /\ UNCHANGED <<headerVars, model, saves, poster, bounds>>

Pin(r) == [CancelClose(r) EXCEPT !.pinned = TRUE]

\* A pointer press outside a popover, its trigger and its preview closes it.
PressOutside(pops, inside) ==
    [p \in Popovers |-> IF pops[p].open /\ p # inside THEN Closed ELSE pops[p]]

PressIn(p, r) ==
    /\ pop' = [PressOutside(pop, p) EXCEPT ![p] = r]
    /\ detached' = detached \cap {p}
    /\ focus' = IF focus.of \in {0, p} THEN focus ELSE Nowhere

\* The click on the header action: first the press, then togglePinned.
Toggle(p) ==
    /\ pointer = Trigger(p)
    /\ LET others == PressOutside(pop, p)
           r == pop[p]
       IN  IF ~r.open
           THEN /\ CanLoad
                /\ Publish([others EXCEPT ![p] = [Closed EXCEPT !.open = TRUE, !.pinned = TRUE]],
                           Loading(model))
           ELSE /\ pop' = [others EXCEPT ![p] = IF r.pinned
                                                THEN [CancelClose(r) EXCEPT !.pinned = FALSE]
                                                ELSE Pin(r)]
                /\ UNCHANGED model
    /\ detached' = {}
    /\ focus' = IF focus.of \in {0, p} THEN focus ELSE Nowhere
    /\ press' = 0
    /\ UNCHANGED <<file, entry, made, entryFile, stopped, pointer, saves, poster, bounds>>

PressElsewhere ==
    /\ pointer = Nowhere
    /\ pop' = PressOutside(pop, 0)
    /\ detached' = {}
    /\ PlacesWithout({Inside(p) : p \in Popovers})
    /\ UNCHANGED <<file, entry, made, entryFile, stopped, model, saves, poster, bounds>>

\* Escape inside a popover: it ends an edit; else it closes the popover and
\* focuses the trigger, whose focus listener opens the popover again.
Escape(p) ==
    /\ focus = Inside(p) /\ pop[p].open
    /\ IF pop[p].edit # None
       THEN pop' = [pop EXCEPT ![p].edit = None] /\ UNCHANGED <<placeVars, model, detached>>
       ELSE /\ IF Connected(p)
               THEN /\ CanLoad
                    /\ Publish([pop EXCEPT ![p] = [Closed EXCEPT !.open = TRUE]], Loading(model))
                    /\ focus' = Trigger(p)
               ELSE pop' = [pop EXCEPT ![p] = Closed] /\ focus' = Nowhere /\ UNCHANGED model
            /\ pointer' = IF pointer = Inside(p) THEN Nowhere ELSE pointer
            /\ press' = IF press = p THEN 0 ELSE press
            /\ detached' = detached \ {p}
    /\ UNCHANGED <<file, entry, made, entryFile, stopped, saves, poster, bounds>>

(***************************************************************************)
(* The header manager: one action per live file view.  An action whose     *)
(* view is gone or shows another file is removed; its popover closes, or   *)
(* is kept as detached when it is pinned.                                  *)
(***************************************************************************)
Stale(files) == {v \in Views : entry[v] # 0 /\ entryFile[v] # files[v]}
Missing(files) == {v \in Views : files[v] # None /\ (entry[v] = 0 \/ v \in Stale(files))}

Preserved(removed) == {p \in removed : pop[p].pinned}

Synchronize(files) ==
    LET removed == {entry[v] : v \in Stale(files)}
        kept == Preserved(removed)
        closed == removed \ kept
        fresh == SetToSeq(Missing(files))
        number(v) == made + CHOOSE i \in DOMAIN fresh : fresh[i] = v
    IN  /\ made + Len(fresh) <= MaxPopovers
        /\ file' = files
        /\ entry' = [v \in Views |-> IF v \in Missing(files) THEN number(v)
                                     ELSE IF v \in Stale(files) THEN 0 ELSE entry[v]]
        /\ entryFile' = files
        /\ made' = made + Len(fresh)
        /\ detached' = detached \cup kept
        /\ pop' = [p \in Popovers |-> IF p \in closed THEN Closed ELSE pop[p]]
        /\ PlacesWithout({Trigger(p) : p \in removed} \cup {Inside(p) : p \in closed})

\* A view opens a file or is closed; the workspace event synchronises.
ShowFile(v, f) ==
    /\ ~stopped
    /\ f # file[v]
    /\ Synchronize([file EXCEPT ![v] = f])
    /\ UNCHANGED <<model, saves, poster, stopped, bounds>>

\* Mutant: unload forgets the popovers that lost their header.
StopEntries == {entry[v] : v \in Views}
StopOwned == {entry[v] : v \in Views} \cup detached

Stop ==
    /\ ~stopped
    /\ stopped' = TRUE
    /\ pop' = [p \in Popovers |-> IF p \in StopOwned THEN Closed ELSE pop[p]]
    /\ entry' = [v \in Views |-> 0]
    /\ entryFile' = [v \in Views |-> None]
    /\ detached' = {}
    /\ PlacesWithout({Trigger(p) : p \in Popovers} \cup {Inside(p) : p \in Popovers})
    /\ UNCHANGED <<file, made, model, saves, poster, bounds>>

(***************************************************************************)
(* The controller's publications.                                          *)
(***************************************************************************)
Answer ==
    /\ model.load = "loading"
    /\ \E load \in {"ready", "empty", "error"} : Publish(pop, [model EXCEPT !.load = load])
    /\ UNCHANGED <<headerVars, placeVars, saves, poster, bounds>>

\* A range, a metric, a folder, the settings tab or a new date asks again.
Refresh ==
    /\ ~stopped /\ CanLoad
    /\ Publish([p \in Popovers |-> [pop[p] EXCEPT !.armed = FALSE]], Loading(model))
    /\ UNCHANGED <<headerVars, placeVars, saves, poster, bounds>>

\* The live projection changes which slices there are: a forced render.
Restructure(p) ==
    /\ pop[p].open /\ pop[p].mounted
    /\ \E result \in Results(model) : pop' = [pop EXCEPT ![p] = Rendered(@, model, result)]
    /\ UNCHANGED <<headerVars, placeVars, model, saves, poster, bounds>>

(***************************************************************************)
(* Slices and locate.                                                      *)
(***************************************************************************)
\* The first click on a file's slice arms it; the second pins the popover
\* and asks the workspace for the file.
ClickSlice(p) ==
    /\ pointer = Inside(p) /\ pop[p].mounted
    /\ PressIn(p, IF pop[p].armed THEN [Pin(pop[p]) EXCEPT !.armed = FALSE]
                  ELSE [pop[p] EXCEPT !.armed = TRUE])
    /\ UNCHANGED <<file, entry, made, entryFile, stopped, pointer, press, model, saves,
                   poster, bounds>>

\* The file is in the result: highlight it; or its folder is asked for first.
Locate(p) ==
    /\ pop[p].open /\ pop[p].edit = None /\ focus = Inside(p)
    /\ model.load = "ready" /\ pop[p].mounted
    /\ \/ /\ pop' = [pop EXCEPT ![p].locating = TRUE, ![p].armed = FALSE]
          /\ UNCHANGED model
       \/ /\ CanLoad
          /\ Publish([pop EXCEPT ![p].pending = model.gen, ![p].locating = FALSE,
                                 ![p].armed = FALSE], Loading(model))
    /\ UNCHANGED <<headerVars, placeVars, saves, poster, bounds>>

LocateTimer(p) ==
    /\ pop[p].locating
    /\ pop' = [pop EXCEPT ![p].locating = FALSE]
    /\ UNCHANGED <<headerVars, placeVars, model, saves, poster, bounds>>

(***************************************************************************)
(* Editing the layout in place.                                            *)
(***************************************************************************)
PressControl(p) ==
    /\ pointer = Inside(p) /\ pop[p].open /\ pop[p].edit = None
    /\ press = 0 /\ press' = p
    /\ PressIn(p, pop[p])
    /\ UNCHANGED <<file, entry, made, entryFile, stopped, pointer, model, saves, poster, bounds>>

ReleaseControl ==
    /\ press # 0 /\ press' = 0
    /\ UNCHANGED <<headerVars, pop, pointer, focus, model, saves, poster, bounds>>

\* The long press begins an edit that already drags the pressed control.
LongPress(p) ==
    /\ press = p /\ press' = 0
    /\ pop[p].open /\ pop[p].edit = None
    /\ \E a \in {x \in ActionSet : IsOn(model.layout, x)} :
           pop' = [pop EXCEPT ![p] = [CancelClose(@) EXCEPT
                      !.armed = FALSE,
                      !.edit = [draft |-> model.layout, committed |-> model.layout,
                                drag |-> a, grab |-> None, saving |-> FALSE]]]
    /\ UNCHANGED <<headerVars, pointer, focus, model, saves, poster, bounds>>

Editing(p) == pop[p].edit # None /\ ~pop[p].edit.saving

StartDrag(p, a) ==
    /\ Editing(p) /\ pointer = Inside(p) /\ pop[p].edit.drag = None
    /\ PressIn(p, [pop[p] EXCEPT !.edit.drag = a])
    /\ UNCHANGED <<file, entry, made, entryFile, stopped, pointer, press, model, saves,
                   poster, bounds>>

\* Pointer up outside every area, or a cancelled pointer: the control stays.
DropBack(p) ==
    /\ pop[p].edit # None /\ pop[p].edit.drag # None
    /\ pop' = [pop EXCEPT ![p].edit.drag = None]
    /\ UNCHANGED <<headerVars, placeVars, model, saves, poster, bounds>>

Moved(edit, a, dest) == [edit EXCEPT !.draft = Move(@, a, dest)]

DropAt(p) ==
    /\ pop[p].edit # None /\ pop[p].edit.drag # None /\ pointer = Inside(p)
    /\ moves < MaxMoves /\ moves' = moves + 1
    /\ \E dest \in Drops(pop[p].edit.draft) :
           pop' = [pop EXCEPT ![p].edit = [Moved(@, @.drag, dest) EXCEPT !.drag = None]]
    /\ UNCHANGED <<headerVars, placeVars, model, saves, poster, begun>>

Grab(p, a) ==
    /\ Editing(p) /\ focus = Inside(p)
    /\ pop' = [pop EXCEPT ![p].edit.grab = IF @ = a THEN None ELSE a]
    /\ UNCHANGED <<headerVars, placeVars, model, saves, poster, bounds>>

\* An arrow key moves the grabbed control and leaves a pointer drag under way.
Arrow(p, key) ==
    /\ Editing(p) /\ focus = Inside(p) /\ pop[p].edit.grab # None
    /\ moves < MaxMoves /\ moves' = moves + 1
    /\ \E dest \in KeyMoves(pop[p].edit.draft, pop[p].edit.grab, key) :
           pop' = [pop EXCEPT ![p].edit = Moved(@, @.grab, dest)]
    /\ UNCHANGED <<headerVars, placeVars, model, saves, poster, begun>>

\* Mutant: saving leaves a drag under way.
FrozenDragging(edit) == [edit EXCEPT !.saving = TRUE]
\* setDisabled(true): saving ends a drag and refuses new ones.
Frozen(edit) == [edit EXCEPT !.saving = TRUE, !.drag = None]

SaveLayout(p) ==
    /\ Editing(p) /\ begun < MaxSaves
    /\ begun' = begun + 1
    /\ saves' = Append(saves, [by |-> p, draft |-> pop[p].edit.draft,
                               stage |-> "saving", gen |-> 0])
    /\ pop' = [pop EXCEPT ![p].edit = Frozen(@)]
    /\ UNCHANGED <<headerVars, placeVars, model, poster, moves>>

CancelEdit(p) ==
    /\ Editing(p)
    /\ pop' = [pop EXCEPT ![p].edit = None]
    /\ UNCHANGED <<headerVars, placeVars, model, saves, poster, bounds>>

\* The settings tab stores a layout of its own, here the default one.
ResetLayout ==
    /\ ~stopped /\ begun < MaxSaves
    /\ begun' = begun + 1
    /\ saves' = Append(saves, [by |-> 0, draft |-> Normalized(<<>>),
                               stage |-> "saving", gen |-> 0])
    /\ UNCHANGED <<headerVars, pop, placeVars, model, poster, moves>>

\* The save is durable: publish the settings, then ask again.
SaveLands(i) ==
    /\ saves[i].stage = "saving" /\ \A j \in 1 .. i - 1 : saves[j].stage # "saving"
    /\ CanLoad
    /\ LET stored == [model EXCEPT !.layout = saves[i].draft]
           pops == [p \in Popovers |-> Notified(pop[p], stored, "plain")]
       IN  Publish(pops, Loading(stored))
    /\ saves' = [saves EXCEPT ![i].stage = "refreshing", ![i].gen = model.gen + 1]
    /\ UNCHANGED <<headerVars, placeVars, poster, bounds>>

Dropped(i) == SubSeq(saves, 1, i - 1) \o SubSeq(saves, i + 1, Len(saves))

\* The query behind the save has answered: whatever is edited now ends.
SaveReturns(i) ==
    /\ saves[i].stage = "refreshing"
    /\ saves[i].gen < model.gen \/ model.load # "loading"
    /\ pop' = IF saves[i].by = 0 THEN pop ELSE [pop EXCEPT ![saves[i].by].edit = None]
    /\ saves' = Dropped(i)
    /\ UNCHANGED <<headerVars, placeVars, model, poster, bounds>>

SaveFails(i) ==
    /\ saves[i].stage = "saving" /\ \A j \in 1 .. i - 1 : saves[j].stage # "saving"
    /\ pop' = IF saves[i].by = 0 \/ pop[saves[i].by].edit = None THEN pop
              ELSE [pop EXCEPT ![saves[i].by].edit.saving = FALSE,
                               ![saves[i].by].edit.drag = None]
    /\ saves' = Dropped(i)
    /\ UNCHANGED <<headerVars, placeVars, model, poster, bounds>>

(***************************************************************************)
(* The poster: one at a time for a popover; its module loads, the modal    *)
(* opens over the workspace with the clicked result and the popover        *)
(* closes.  What happens inside the modal is left out.                     *)
(***************************************************************************)
ExportPoster(p) ==
    /\ pop[p].open /\ pop[p].edit = None /\ focus = Inside(p)
    /\ model.load = "ready" /\ p \notin poster
    /\ poster' = poster \cup {p}
    /\ UNCHANGED <<headerVars, pop, placeVars, model, saves, bounds>>

PosterOpens(p) ==
    /\ p \in poster
    /\ poster' = poster \ {p}
    /\ pop' = [pop EXCEPT ![p] = Closed]
    /\ detached' = detached \ {p}
    /\ PlacesWithout({Inside(p)})
    /\ UNCHANGED <<file, entry, made, entryFile, stopped, model, saves, bounds>>

\* The module cannot be loaded: a warning.
PosterFails(p) ==
    /\ p \in poster
    /\ poster' = poster \ {p}
    /\ UNCHANGED <<headerVars, pop, placeVars, model, saves, bounds>>

Init ==
    /\ \E files \in [Views -> Files \cup {None}] :
           LET live == SetToSeq({v \in Views : files[v] # None})
               number(v) == CHOOSE i \in DOMAIN live : live[i] = v
           IN  /\ Len(live) <= MaxPopovers
               /\ file = files /\ entryFile = files /\ made = Len(live)
               /\ entry = [v \in Views |-> IF files[v] = None THEN 0 ELSE number(v)]
    /\ pop = [p \in Popovers |-> Closed]
    /\ detached = {}
    /\ pointer = Nowhere /\ focus = Nowhere /\ press = 0
    /\ \E raw \in RawLayouts :
           model = [gen |-> 0, load |-> "loading", layout |-> Normalized(raw)]
    /\ saves = <<>>
    /\ poster = {}
    /\ stopped = FALSE
    /\ moves = 0 /\ begun = 0

PointerSteps ==
    \/ \E p \in Popovers : EnterTrigger(p) \/ EnterPopover(p) \/ Toggle(p) \/ ClickSlice(p)
    \/ PointerLeaves
    \/ PressElsewhere

KeyboardSteps ==
    \/ \E p \in Popovers : FocusTrigger(p) \/ FocusInside(p) \/ Escape(p) \/ Locate(p)
    \/ FocusLeaves

EditSteps ==
    \/ \E p \in Popovers :
        \/ PressControl(p) \/ LongPress(p) \/ SaveLayout(p) \/ CancelEdit(p)
        \/ \E a \in ActionSet : StartDrag(p, a) \/ Grab(p, a)
        \/ DropBack(p) \/ DropAt(p)
        \/ \E key \in Keys : Arrow(p, key)
    \/ ReleaseControl
    \/ ResetLayout
    \/ \E i \in DOMAIN saves : SaveLands(i) \/ SaveReturns(i) \/ SaveFails(i)

HostSteps ==
    \/ \E v \in Views, f \in Files \cup {None} : ShowFile(v, f)
    \/ \E p \in Popovers : CloseTimer(p) \/ LocateTimer(p) \/ Restructure(p)
    \/ \E p \in Popovers : ExportPoster(p) \/ PosterOpens(p) \/ PosterFails(p)
    \/ Answer \/ Refresh
    \/ Stop

Next == PointerSteps \/ KeyboardSteps \/ EditSteps \/ HostSteps
Spec == Init /\ [][Next]_vars

-----------------------------------------------------------------------------
\* Every layout stored, drafted or on its way keeps each control exactly once,
\* whatever is dragged, moved by keys, disabled or loaded from damaged settings.
ControlsKept ==
    /\ Whole(model.layout)
    /\ \A p \in Popovers : pop[p].edit # None => Whole(pop[p].edit.draft)
    /\ \A i \in DOMAIN saves : Whole(saves[i].draft)

\* Every open popover has an owner that will close it: the action of a live
\* view, or the set of pinned popovers kept for unload; after unload none is
\* open (header-action-manager.ts:39-41, 66-77).
OpenIsOwned ==
    \A p \in Popovers : pop[p].open =>
        ~stopped /\ (Connected(p) \/ (p \in detached /\ pop[p].pinned))

\* A popover nobody holds is on its way out, and a pinned one has no timer that
\* would close it; the editor swallows a departure, and only that excuses one
\* from closing.
LeavingCloses ==
    \A p \in Popovers :
        /\ pop[p].open /\ ~Held(p) /\ pop[p].edit = None /\ ~pop[p].ignored => pop[p].closing
        /\ pop[p].pinned \/ pop[p].edit # None => ~pop[p].closing

\* While a layout is being saved the frozen draft on the screen is the layout
\* on its way to the settings: no drag that was under way changes it.
SavingShowsDraft ==
    \A p \in Popovers : pop[p].edit # None /\ pop[p].edit.saving =>
        \E i \in DOMAIN saves : saves[i].by = p /\ saves[i].draft = pop[p].edit.draft
=============================================================================
