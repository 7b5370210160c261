------------------------- MODULE MCSessionMetrics -------------------------
(***************************************************************************)
(* Small instances of SessionMetrics: a minute is 2 ms and a day 6 minutes. *)
(***************************************************************************)
EXTENDS SessionMetrics

Steady(offset)    == [at |-> 0, before |-> offset, after |-> offset]
West              == Steady(-4)
East              == Steady(4)
\* Clocks go back by two minutes on the modelled day: after UTC midnight, or between local
\* midnight and UTC midnight.  Or forward, far from UTC midnight.
Autumn            == [at |-> 2, before |-> 4, after |-> 2]
AutumnEast        == [at |-> -2, before |-> 6, after |-> 4]
SpringWest        == [at |-> 6, before |-> -4, after |-> -2]
\* Clocks go forward between local midnight and the UTC midnight of that date.
SpringEast        == [at |-> -2, before |-> 4, after |-> 6]

\* SpringEast stands alone: there a close loses the session that ends at midnight.
KeptZones   == {West, East, Autumn, AutumnEast, SpringWest}
SpringZones == {SpringEast}
MCStarts    == {-5, 3, 6}
MCSteps     == {-3, 2}
NoSteps     == {}
=============================================================================
