--------------------------- MODULE LocalMidnight ---------------------------
(***************************************************************************)
(* platform/clock.ts: local dates in a time zone, and the split of a       *)
(* closed session at every local midnight it crosses.  Instants are        *)
(* integers (epoch milliseconds); Minute and Day scale the calendar down   *)
(* and keep its structure: Day is a multiple of Minute, offsets change at  *)
(* most once in the modelled period.                                       *)
(***************************************************************************)
EXTENDS Integers, Sequences, FiniteSetsExt, SequencesExt

CONSTANTS Minute, Day, ProbeLimit

ASSUME CalendarAssumption ==
  /\ Minute \in Nat \ {0} /\ Day \in Nat \ {0} /\ Day % Minute = 0
  /\ ProbeLimit \in Nat /\ ProbeLimit > Day

\* The offset east of UTC that the host reports: one change, at zone.at.
Offset(zone, t) == IF t < zone.at THEN zone.before ELSE zone.after

LocalDate(t, zone) == (t + Offset(zone, t)) \div Day

StartOfLocalDay(t, zone) ==
  LET utcMidnight == LocalDate(t, zone) * Day
  IN  utcMidnight - Offset(zone, utcMidnight)

\* Mutant: every day has 24 hours.
NextMidnightNaive(t, zone) == StartOfLocalDay(t, zone) + Day

\* The first probe, one a minute, that shows another date, snapped down.
NextLocalMidnight(t, zone) ==
  LET earliest == StartOfLocalDay(t, zone) + 1
      probes   == {p \in earliest .. t + ProbeLimit : (p - earliest) % Minute = 0}
      changed  == {p \in probes : LocalDate(p, zone) # LocalDate(t, zone)}
  IN  IF changed = {} THEN t + Day ELSE (Min(changed) \div Minute) * Minute

Rounded(part, total) == (2 * part + total) \div (2 * total)

Share(amount, seg, total) == Rounded(amount * (seg.to - seg.from), total)

SumOf(of(_), segs) == FoldSeq(LAMBDA seg, acc : acc + of(seg), 0, segs)

\* The pieces between from and to; a midnight that does not advance ends the loop.
Pieces(from, to, zone) ==
  LET piece[c \in from .. to] ==
        LET end == Min({NextLocalMidnight(c, zone), to})
        IN  IF c = to \/ end <= c THEN <<>>
            ELSE <<[date |-> LocalDate(c, zone), from |-> c, to |-> end]>> \o piece[end]
  IN  piece[from]

Metered(seg, active, editing) ==
  [date |-> seg.date, from |-> seg.from, to |-> seg.to, active |-> active, editing |-> editing]

\* Every piece with its share of both metrics, rounded.
RoughSplit(from, to, active, editing, zone) ==
  LET pieces == Pieces(from, to, zone)
      total  == to - from
  IN  [i \in DOMAIN pieces |->
         Metered(pieces[i], Share(active, pieces[i], total), Share(editing, pieces[i], total))]

Whole(from, to, active, editing, zone) ==
  <<[date |-> LocalDate(from, zone), from |-> from, to |-> to,
     active |-> active, editing |-> editing]>>

\* Mutant: what rounding gains or loses is not corrected.
SplitWithDrift(from, to, active, editing, zone) ==
  IF to <= from THEN Whole(from, to, active, editing, zone)
  ELSE RoughSplit(from, to, active, editing, zone)

\* What rounding gains or loses goes to the first piece.
SplitAtLocalMidnight(from, to, active, editing, zone) ==
  LET rough   == RoughSplit(from, to, active, editing, zone)
      Drift(amount, of(_)) == amount - SumOf(of, rough)
  IN  IF to <= from THEN Whole(from, to, active, editing, zone)
      ELSE [i \in DOMAIN rough |->
              IF i # 1 THEN rough[i]
              ELSE Metered(rough[1],
                     rough[1].active + Drift(active, LAMBDA s : s.active),
                     rough[1].editing + Drift(editing, LAMBDA s : s.editing))]

=============================================================================
