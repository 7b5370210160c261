-------------------------- MODULE MCSummaryPopover --------------------------
(***************************************************************************)
(* A small instance of SummaryPopover: two controls.                       *)
(***************************************************************************)
EXTENDS SummaryPopover

MCActions == <<"poster", "metric">>
MCLeft == {"poster"}

Item(id, side, order, on) == [id |-> id, side |-> side, order |-> order, on |-> on]

Swaps == Permutations(Files)

\* A damaged file: an unknown, a repeated and a mangled control, one disabled.
MCRaw == {<<Item("retired", "left", 0, TRUE), Item("metric", "none", 0, FALSE),
            Item("metric", "left", 3, TRUE), Item("poster", "right", -1, TRUE)>>}
=============================================================================
