---------------------------- MODULE ActionLayout ----------------------------
(***************************************************************************)
(* The layout of the header popover's controls                             *)
(* (domain/header-popover-action-layout.ts) and where a key or a drop of   *)
(* the editor sends a control                                              *)
(* (ui/components/header-popover-action-layout-editor.ts).                 *)
(*                                                                         *)
(* A normalised layout keeps, for each side, the visible controls in order *)
(* and then the disabled ones; the persisted list with its order numbers   *)
(* is only read by `Normalized`.                                           *)
(***************************************************************************)
EXTENDS Integers, Sequences, FiniteSets, SequencesExt

CONSTANTS
    Actions,     \* the registry, in its order: a sequence of controls
    LeftByDefault  \* the controls whose default side is the left

Sides == {"left", "right"}
ActionSet == {Actions[i] : i \in DOMAIN Actions}

\* The registry names each control once (HEADER_POPOVER_ACTION_REGISTRY).
ASSUME RegistryAssumption == Actions \in Seq(ActionSet) /\ IsInjective(Actions)

DefaultSide(a) == IF a \in LeftByDefault THEN "left" ELSE "right"
\* A control's default order counts the controls of its side before it.
DefaultOrder(a) ==
    LET at == CHOOSE i \in DOMAIN Actions : Actions[i] = a
    IN  Cardinality({i \in 1 .. at - 1 : DefaultSide(Actions[i]) = DefaultSide(a)})

(***************************************************************************)
(* Persisted data: a sequence of [id, side, order, on]; an invalid side or *)
(* order (here "none" and -1) takes the default, an unknown or repeated    *)
(* control is skipped, a missing one is added enabled.                     *)
(***************************************************************************)
Persisted(items) ==
    /\ Len(items) \in Nat /\ DOMAIN items = 1 .. Len(items)
    /\ \A i \in DOMAIN items : items[i].order \in Int /\ items[i].on \in BOOLEAN

Entry(items, a) ==
    LET found == {i \in DOMAIN items : items[i].id = a}
    IN  IF found = {}
        THEN [id |-> a, side |-> DefaultSide(a), order |-> DefaultOrder(a), on |-> TRUE,
              at |-> Len(items) + DefaultOrder(a)]
        ELSE LET i == CHOOSE j \in found : \A k \in found : j <= k
             IN  [id |-> a,
                  side |-> IF items[i].side \in Sides THEN items[i].side ELSE DefaultSide(a),
                  order |-> IF items[i].order >= 0 THEN items[i].order ELSE DefaultOrder(a),
                  on |-> items[i].on, at |-> i - 1]

Before(x, y) ==
    \/ x.order < y.order
    \/ x.order = y.order /\ x.at < y.at
    \/ x.order = y.order /\ x.at = y.at /\ DefaultOrder(x.id) < DefaultOrder(y.id)

\* The element of S with k - 1 others before it comes k-th.
InOrder(S, before(_, _)) ==
    [k \in 1 .. Cardinality(S) |->
        CHOOSE e \in S : Cardinality({f \in S : before(f, e)}) = k - 1]

Ids(entries) == [i \in DOMAIN entries |-> entries[i].id]

\* canonicalizeSide, the visible or the disabled part of it.
Canonical(items, side, on) ==
    Ids(InOrder({e \in {Entry(items, a) : a \in ActionSet} : e.side = side /\ e.on = on}, Before))

Normalized(items) ==
    [side \in Sides |-> [on |-> Canonical(items, side, TRUE), off |-> Canonical(items, side, FALSE)]]

(***************************************************************************)
(* Moves.  A destination is the disabled area or an index of a side.       *)
(***************************************************************************)
Off == [kind |-> "off", side |-> "left", index |-> 0]
At(side, index) == [kind |-> "side", side |-> side, index |-> index]

SideOf(layout, a) ==
    CHOOSE side \in Sides : Contains(layout[side].on \o layout[side].off, a)
IsOn(layout, a) == Contains(layout[SideOf(layout, a)].on, a)

\* The controls of a list but one.
Others(list, a) ==
    LET places == InOrder({i \in DOMAIN list : list[i] # a}, <)
    IN  [k \in DOMAIN places |-> list[places[k]]]

Without(layout, a) ==
    [side \in Sides |-> [on |-> Others(layout[side].on, a), off |-> Others(layout[side].off, a)]]

\* Mutant: the control stays where it was taken from.
PlacedCopy(layout, a, dest) ==
    LET len == Len(layout[dest.side].on)
        at == IF dest.index < len THEN dest.index ELSE len
    IN  [layout EXCEPT ![dest.side].on = InsertAt(@, at + 1, a)]
\* The index counts the side's visible controls without the moved one.
Placed(layout, a, dest) ==
    LET rest == Without(layout, a)
        len == Len(rest[dest.side].on)
        at == IF dest.index < len THEN dest.index ELSE len
    IN  [rest EXCEPT ![dest.side].on = InsertAt(@, at + 1, a)]

\* Disabling keeps the side; what is disabled already is rejected.
Disabled(layout, a) ==
    IF ~IsOn(layout, a) THEN layout
    ELSE [Without(layout, a) EXCEPT ![SideOf(layout, a)].off = Append(@, a)]

Move(layout, a, dest) ==
    IF dest.kind = "off" THEN Disabled(layout, a) ELSE Placed(layout, a, dest)

\* Every place a pointer can drop a control on.
Drops(layout) ==
    {Off} \cup [kind : {"side"}, side : Sides,
                index : 0 .. Len(layout["left"].on \o layout["right"].on)]

(***************************************************************************)
(* Arrow keys on a grabbed control: along its side, across the middle,     *)
(* down to the disabled area and back up.                                  *)
(***************************************************************************)
Keys == {"left", "right", "up", "down"}

KeyMoves(layout, a, key) ==
    LET side == SideOf(layout, a)
        end(s) == Len(layout[s].on)
        at == CHOOSE i \in 0 .. end(side) : IsOn(layout, a) => layout[side].on[i + 1] = a
    IN  CASE key = "down" -> IF IsOn(layout, a) THEN {Off} ELSE {}
          [] key = "up" -> IF IsOn(layout, a) THEN {} ELSE {At(side, end(side))}
          [] key \in Sides /\ ~IsOn(layout, a) -> {At(key, end(key))}
          [] key = "left" /\ IsOn(layout, a) ->
                {IF at > 0 THEN At(side, at - 1)
                 ELSE At("left", IF side = "right" THEN end("left") ELSE 0)}
          [] key = "right" /\ IsOn(layout, a) ->
                {IF side = "left" /\ at = end(side) - 1 THEN At("right", 0)
                 ELSE At(side, at + 1)}

\* The four lists of a layout keep each control of S exactly once, and no other.
Areas == Sides \X {"on", "off"}
Keeps(layout, S) ==
    /\ \A r \in Areas : IsInjective(layout[r[1]][r[2]])
    /\ \A r \in Areas, q \in Areas :
           r # q => Range(layout[r[1]][r[2]]) \cap Range(layout[q[1]][q[2]]) = {}
    /\ UNION {Range(layout[r[1]][r[2]]) : r \in Areas} = S

\* Every control is in the layout exactly once, on one side, shown or disabled.
Whole(layout) == Keeps(layout, ActionSet)
=============================================================================
