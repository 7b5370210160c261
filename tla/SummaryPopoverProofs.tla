------------------------- MODULE SummaryPopoverProofs -------------------------
(***************************************************************************)
(* What the popovers guarantee for every workspace, every layout and every *)
(* order of pointer, keyboard, saves and publications: an open popover has *)
(* an owner, one that nobody holds is on its way out, what is being saved  *)
(* is what the screen shows, and every layout has every control once.      *)
(***************************************************************************)
EXTENDS SummaryPopover, FiniteSetTheorems, SequenceTheorems, WellFoundedInduction, TLAPS

(***************************************************************************)
(* The inductive invariant.                                                *)
(***************************************************************************)
\* The fields of a popover, of a layout under edit and of a save under way;
\* those no property speaks of hold what they hold.
Shaped(r) ==
    r \in [open: BOOLEAN, pinned: BOOLEAN, closing: BOOLEAN, mounted: {r.mounted},
           edit: {r.edit}, pending: {r.pending}, locating: {r.locating},
           armed: {r.armed}, ignored: BOOLEAN]
EditShaped(e) ==
    e \in [draft: {e.draft}, committed: {e.committed}, drag: {e.drag}, grab: {e.grab},
           saving: BOOLEAN]
SaveShaped(s) ==
    s \in [by: {0} \cup Popovers, draft: {s.draft}, stage: {s.stage}, gen: {s.gen}]
Good(r) == Shaped(r) /\ (r.edit # None => EditShaped(r.edit))

OnPopovers(f) == f = [p \in Popovers |-> f[p]]
PopShape == OnPopovers(pop) /\ \A p \in Popovers : Good(pop[p])
SavesShape ==
    /\ saves \in Seq({saves[i] : i \in DOMAIN saves})
    /\ \A i \in DOMAIN saves : SaveShaped(saves[i])

\* Where pointer and focus can be: a trigger they are on is in the document,
\* and a long press is under the pointer.
Spots == {Nowhere} \cup {Trigger(p) : p \in Popovers} \cup {Inside(p) : p \in Popovers}
Stands(spot) ==
    /\ spot \in Spots
    /\ \A p \in Popovers : spot = Trigger(p) => Connected(p)
PlaceInv ==
    /\ Stands(pointer) /\ Stands(focus)
    /\ press \in {0} \cup Popovers
    /\ press # 0 => pointer = Inside(press)

\* After unload no view has an action.
StoppedInv == stopped \in BOOLEAN /\ (stopped => \A v \in Views : entry[v] = 0)

\* OpenIsOwned, for one popover.
Owned(p) ==
    pop[p].open => ~stopped /\ (Connected(p) \/ (p \in detached /\ pop[p].pinned))

\* A popover nobody holds is closing, or its departure was swallowed; what is
\* pinned or edited has no timer.
Leaving(p) ==
    /\ pop[p].open /\ ~Held(p) => pop[p].closing \/ pop[p].ignored
    /\ pop[p].pinned \/ pop[p].edit # None => ~pop[p].closing

\* A draft being saved is dragged by nobody and on its way to the settings.
OnItsWay(p) == \E i \in DOMAIN saves : saves[i].by = p /\ saves[i].draft = pop[p].edit.draft
Saving(p) ==
    pop[p].edit # None /\ pop[p].edit.saving => pop[p].edit.drag = None /\ OnItsWay(p)

PopoverInv ==
    /\ PopShape /\ SavesShape /\ PlaceInv /\ StoppedInv
    /\ \A p \in Popovers : Owned(p) /\ Leaving(p) /\ Saving(p)

(***************************************************************************)
(* Lemmas about single popovers.                                           *)
(***************************************************************************)
\* What rendering, a timer or a click on a slice leaves of a popover r: its
\* flags are what they were, its edit goes on or is over.
Settles(r, q) ==
    /\ Good(q)
    /\ q.open = r.open /\ q.pinned = r.pinned
    /\ q.closing = r.closing /\ q.ignored = r.ignored
    /\ q.edit \in {None, r.edit}

\* A closed popover.
LEMMA ClosedFields ==
    /\ Good(Closed) /\ ~Closed.open /\ ~Closed.pinned /\ ~Closed.closing /\ Closed.edit = None
  BY DEF Closed, Good, Shaped

\* A popover opened afresh, by hover or by a click.
LEMMA OpenedFields ==
  LET r == [Closed EXCEPT !.open = TRUE]
  IN  Good(r) /\ r.open /\ ~r.pinned /\ ~r.closing /\ ~r.ignored /\ r.edit = None
  BY DEF Closed, Good, Shaped

LEMMA ClickedFields ==
  LET r == [Closed EXCEPT !.open = TRUE, !.pinned = TRUE]
  IN  Good(r) /\ r.open /\ r.pinned /\ ~r.closing /\ ~r.ignored /\ r.edit = None
  BY DEF Closed, Good, Shaped

LEMMA Cancelled ==
  ASSUME NEW r, Good(r)
  PROVE  LET q == CancelClose(r)
         IN  /\ Good(q) /\ q.open = r.open /\ q.pinned = r.pinned /\ q.edit = r.edit
             /\ ~q.closing /\ ~q.ignored
  BY DEF CancelClose, Good, Shaped

LEMMA Pinned ==
  ASSUME NEW r, Good(r), NEW b \in BOOLEAN
  PROVE  LET q == [CancelClose(r) EXCEPT !.pinned = b]
         IN  /\ Good(q) /\ q.open = r.open /\ q.pinned = b /\ q.edit = r.edit
             /\ ~q.closing /\ ~q.ignored
  BY DEF CancelClose, Good, Shaped

LEMMA Scheduled ==
  ASSUME NEW r, Good(r)
  PROVE  LET q == ScheduleClose(r)
         IN  /\ Good(q) /\ q.open = r.open /\ q.pinned = r.pinned /\ q.edit = r.edit
             /\ r.pinned \/ q.closing \/ q.ignored
             /\ q.closing => r.closing \/ (~r.pinned /\ r.edit = None)
  BY DEF ScheduleClose, Good, Shaped

LEMMA EditEnds ==
  ASSUME NEW r, Good(r)
  PROVE  Settles(r, [r EXCEPT !.edit = None])
  BY DEF Settles, Good, Shaped

LEMMA Yields ==
  ASSUME NEW r, Good(r), NEW m
  PROVE  Settles(r, YieldsTo(r, m))
<1>1. Settles(r, r)
  BY DEF Settles
<1> QED
  BY <1>1, EditEnds DEF YieldsTo

LEMMA Renders ==
  ASSUME NEW r, Good(r), NEW m, NEW result
  PROVE  Settles(r, Rendered(r, m, result))
<1> DEFINE completes == r.pending # None /\ m.load = "ready" /\ m.gen > r.pending
           mounted == m.load = "ready" \/ result = "live"
           locating == completes /\ result = "found"
           pending == IF completes THEN None ELSE r.pending
           q == [r EXCEPT !.edit = None, !.armed = FALSE, !.mounted = mounted,
                          !.locating = locating, !.pending = pending]
<1>1. Rendered(r, m, result) = q
  BY DEF Rendered, Good, Shaped
<1> HIDE DEF mounted, locating, pending
<1>2. Settles(r, q)
  BY DEF Settles, Good, Shaped
<1> QED
  BY <1>1, <1>2

LEMMA SettlesTwice ==
  ASSUME NEW r, NEW q, NEW s, Settles(r, q), Settles(q, s)
  PROVE  Settles(r, s)
  BY DEF Settles

LEMMA Notifies ==
  ASSUME NEW r, Good(r), NEW m, NEW result
  PROVE  Settles(r, Notified(r, m, result))
<1>1. Settles(r, r)
  BY DEF Settles
<1>2. Settles(r, YieldsTo(r, m)) /\ Good(YieldsTo(r, m))
  BY Yields DEF Settles
<1>3. Settles(r, Rendered(YieldsTo(r, m), m, result))
  BY <1>2, Renders, SettlesTwice
<1> QED
  BY <1>1, <1>2, <1>3 DEF Notified

(***************************************************************************)
(* Lemmas about all of them.                                               *)
(***************************************************************************)
\* One popover is replaced, the others are what they were.
LEMMA Replaced ==
  ASSUME PopShape, NEW p \in Popovers, NEW x, pop' = [pop EXCEPT ![p] = x]
  PROVE  OnPopovers(pop') /\ pop'[p] = x /\ \A q \in Popovers \ {p} : pop'[q] = pop[q]
  BY DEF PopShape, OnPopovers

\* A publication settles every popover.
LEMMA Publishes ==
  ASSUME NEW pops, NEW m, \A q \in Popovers : Good(pops[q]), Publish(pops, m)
  PROVE  PopShape' /\ \A q \in Popovers : Settles(pops[q], pop'[q])
<1>1. PICK result : pop' = [p \in Popovers |-> Notified(pops[p], m, result)]
  BY DEF Publish
<1>2. ASSUME NEW q \in Popovers
      PROVE  Settles(pops[q], pop'[q])
  BY <1>1, Notifies
<1> QED
  BY <1>1, <1>2 DEF PopShape, OnPopovers, Settles

(***************************************************************************)
(* Lemmas about the saves under way.                                       *)
(***************************************************************************)
\* A sequence is one over its own elements, and over whatever has them.
LEMMA Regrouped ==
  ASSUME NEW S, NEW s \in Seq(S)
  PROVE  s \in Seq({s[i] : i \in DOMAIN s})
<1>1. /\ Len(s) \in Nat /\ DOMAIN s = 1 .. Len(s)
      /\ s \in [1 .. Len(s) -> S]
  BY LenProperties
<1>2. s \in [1 .. Len(s) -> {s[i] : i \in DOMAIN s}]
  BY <1>1
<1> QED
  BY <1>1, <1>2, SeqDef

LEMMA FunctionIsSeq ==
  ASSUME NEW S, NEW n \in Nat, NEW f \in [1 .. n -> S]
  PROVE  f \in Seq(S)
  BY SeqDef

LEMMA Widened ==
  ASSUME NEW S, NEW T, S \subseteq T, NEW s \in Seq(S)
  PROVE  s \in Seq(T)
<1>1. Len(s) \in Nat /\ s \in [1 .. Len(s) -> S]
  BY LenProperties
<1>2. s \in [1 .. Len(s) -> T]
  BY <1>1
<1> QED
  BY <1>1, <1>2, SeqDef

\* What every later argument needs of the saves: an old one has a new one by
\* the same popover with the same draft.
Outlives(j) == \E k \in DOMAIN saves' :
                   saves'[k].by = saves[j].by /\ saves'[k].draft = saves[j].draft

LEMMA SavesRegrouped ==
  ASSUME NEW S, saves' \in Seq(S), \A j \in DOMAIN saves' : SaveShaped(saves'[j])
  PROVE  SavesShape'
<1>1. saves' \in Seq({saves'[k] : k \in DOMAIN saves'})
  BY Regrouped
<1> QED
  BY <1>1 DEF SavesShape

LEMMA SaveJoins ==
  ASSUME SavesShape, NEW x, SaveShaped(x), saves' = Append(saves, x)
  PROVE  /\ SavesShape'
         /\ \A j \in DOMAIN saves : Outlives(j)
         /\ \E k \in DOMAIN saves' : saves'[k] = x
<1> DEFINE S == {saves[i] : i \in DOMAIN saves}
<1>1. saves \in Seq(S) /\ saves \in Seq(S \cup {x})
  BY Widened DEF SavesShape
<1> HIDE DEF S
<1>2. /\ saves' \in Seq(S \cup {x})
      /\ DOMAIN saves' = 1 .. Len(saves) + 1
      /\ \A j \in 1 .. Len(saves) : saves'[j] = saves[j]
      /\ saves'[Len(saves) + 1] = x
      /\ DOMAIN saves = 1 .. Len(saves) /\ Len(saves) \in Nat
  BY <1>1, AppendProperties, LenProperties
<1>3. \A j \in DOMAIN saves' : SaveShaped(saves'[j])
  BY <1>2 DEF SavesShape
<1>4. \A j \in DOMAIN saves : Outlives(j)
  BY <1>2 DEF Outlives
<1>5. \E k \in DOMAIN saves' : saves'[k] = x
  BY <1>2
<1> QED
  BY <1>2, <1>3, <1>4, <1>5, SavesRegrouped, Zenon

LEMMA SaveAdvances ==
  ASSUME SavesShape, NEW i \in DOMAIN saves, NEW stage, NEW gen,
         saves' = [saves EXCEPT ![i].stage = stage, ![i].gen = gen]
  PROVE  SavesShape' /\ \A j \in DOMAIN saves : Outlives(j)
<1> DEFINE x == [saves[i] EXCEPT !.stage = stage, !.gen = gen]
           S == {saves[k] : k \in DOMAIN saves}
<1>1. saves \in Seq(S)
  BY DEF SavesShape
<1>2. saves' = [saves EXCEPT ![i] = x]
  BY DEF SavesShape
<1>3. SaveShaped(x) /\ x.by = saves[i].by /\ x.draft = saves[i].draft
  BY DEF SavesShape, SaveShaped
<1> HIDE DEF x, S
<1>4. Len(saves) \in Nat /\ DOMAIN saves = 1 .. Len(saves) /\ saves \in [1 .. Len(saves) -> S]
  BY <1>1, LenProperties
<1>5. saves' \in [1 .. Len(saves) -> S \cup {x}]
  BY <1>2, <1>4
<1>6. saves' \in Seq(S \cup {x})
  BY <1>4, <1>5, FunctionIsSeq
<1>7. DOMAIN saves' = DOMAIN saves /\ \A j \in DOMAIN saves :
          saves'[j] = IF j = i THEN x ELSE saves[j]
  BY <1>2, <1>4
<1>8. \A j \in DOMAIN saves' : SaveShaped(saves'[j])
  BY <1>3, <1>7 DEF SavesShape
<1>9. \A j \in DOMAIN saves : Outlives(j)
  BY <1>3, <1>7 DEF Outlives
<1> QED
  BY <1>6, <1>8, <1>9, SavesRegrouped, Zenon

\* A sequence without its i-th element: where the others are.
LEMMA Halves ==
  ASSUME NEW n \in Nat, NEW i \in 1 .. n, NEW s, NEW head, NEW tail, NEW t,
         NEW h, NEW l, h = i - 1, l = n - i,
         \A j \in 1 .. h : head[j] = s[j],
         \A j \in 1 .. l : tail[j] = s[i + j],
         \A j \in 1 .. h + l : t[j] = IF j <= h THEN head[j] ELSE tail[j - h]
  PROVE  /\ \A j \in 1 .. i - 1 : t[j] = s[j]
         /\ \A j \in i .. n - 1 : t[j] = s[j + 1]
<1>1. ASSUME NEW j \in 1 .. i - 1
      PROVE  t[j] = s[j]
  <2>1. j \in 1 .. h + l /\ j <= h /\ j \in 1 .. h
    OBVIOUS
  <2> QED
    BY <2>1
<1>2. ASSUME NEW j \in i .. n - 1
      PROVE  t[j] = s[j + 1]
  <2>1. j \in 1 .. h + l /\ ~(j <= h) /\ j - h \in 1 .. l /\ i + (j - h) = j + 1
    OBVIOUS
  <2>2. t[j] = tail[j - h]
    BY <2>1
  <2>3. tail[j - h] = s[i + (j - h)]
    BY <2>1
  <2> QED
    BY <2>1, <2>2, <2>3
<1> QED
  BY <1>1, <1>2

LEMMA OneRemoved ==
  ASSUME NEW S, NEW s \in Seq(S), NEW i \in 1 .. Len(s)
  PROVE  LET t == SubSeq(s, 1, i - 1) \o SubSeq(s, i + 1, Len(s))
         IN  /\ t \in Seq(S) /\ Len(t) = Len(s) - 1
             /\ \A j \in 1 .. i - 1 : t[j] = s[j]
             /\ \A j \in i .. Len(s) - 1 : t[j] = s[j + 1]
<1> DEFINE head == SubSeq(s, 1, i - 1)
           tail == SubSeq(s, i + 1, Len(s))
<1>1. Len(s) \in Nat /\ \A j \in 1 .. Len(s) : s[j] \in S
  BY LenProperties
<1>2. head \in Seq(S) /\ Len(head) = i - 1 /\ \A j \in 1 .. i - 1 : head[j] = s[j]
  <2>1. 1 \in Int /\ i - 1 \in Int /\ \A j \in 1 .. i - 1 : s[j] \in S
    BY <1>1
  <2>2. /\ head \in Seq(S) /\ Len(head) = IF 1 <= i - 1 THEN i - 1 - 1 + 1 ELSE 0
        /\ \A j \in 1 .. i - 1 - 1 + 1 : head[j] = s[1 + j - 1]
    BY <2>1, SubSeqProperties
  <2> HIDE DEF head
  <2> QED
    BY <1>1, <2>2
<1>3. /\ tail \in Seq(S) /\ Len(tail) = Len(s) - i
      /\ \A j \in 1 .. Len(s) - i : tail[j] = s[i + j]
  <2>1. i + 1 \in Int /\ Len(s) \in Int /\ \A j \in i + 1 .. Len(s) : s[j] \in S
    BY <1>1
  <2>2. /\ tail \in Seq(S)
        /\ Len(tail) = IF i + 1 <= Len(s) THEN Len(s) - (i + 1) + 1 ELSE 0
        /\ \A j \in 1 .. Len(s) - (i + 1) + 1 : tail[j] = s[i + 1 + j - 1]
    BY <2>1, SubSeqProperties
  <2> HIDE DEF tail
  <2> QED
    BY <1>1, <2>2
<1> HIDE DEF head, tail
<1> DEFINE t == head \o tail
<1>4. /\ t \in Seq(S) /\ Len(t) = Len(head) + Len(tail)
      /\ \A j \in 1 .. Len(head) + Len(tail) :
             t[j] = IF j <= Len(head) THEN head[j] ELSE tail[j - Len(head)]
  BY <1>2, <1>3, ConcatProperties
<1> HIDE DEF t
<1>5. Len(t) = Len(s) - 1
  BY <1>1, <1>2, <1>3, <1>4
<1>6. /\ \A j \in 1 .. i - 1 : t[j] = s[j]
      /\ \A j \in i .. Len(s) - 1 : t[j] = s[j + 1]
  <2> DEFINE n == Len(s)
             h == Len(head)
             l == Len(tail)
  <2>1. n \in Nat /\ i \in 1 .. n /\ h = i - 1 /\ l = n - i
    BY <1>1, <1>2, <1>3
  <2>2. /\ \A j \in 1 .. h : head[j] = s[j]
        /\ \A j \in 1 .. l : tail[j] = s[i + j]
        /\ \A j \in 1 .. h + l : t[j] = IF j <= h THEN head[j] ELSE tail[j - h]
    BY <1>2, <1>3, <1>4
  <2> HIDE DEF n, h, l
  <2>3. /\ \A j \in 1 .. i - 1 : t[j] = s[j]
        /\ \A j \in i .. n - 1 : t[j] = s[j + 1]
    BY <2>1, <2>2, Halves
  <2> QED
    BY <2>3 DEF n
<1> QED
  BY <1>4, <1>5, <1>6 DEF t, head, tail

LEMMA SaveDrops ==
  ASSUME SavesShape, NEW i \in DOMAIN saves, saves' = Dropped(i)
  PROVE  SavesShape' /\ \A j \in DOMAIN saves \ {i} : Outlives(j)
<1> DEFINE S == {saves[k] : k \in DOMAIN saves}
<1>1. saves \in Seq(S) /\ \A k \in DOMAIN saves : SaveShaped(saves[k])
  BY DEF SavesShape
<1> HIDE DEF S
<1>2. Len(saves) \in Nat /\ DOMAIN saves = 1 .. Len(saves) /\ i \in 1 .. Len(saves)
  BY <1>1, LenProperties
<1>3. /\ saves' \in Seq(S) /\ DOMAIN saves' = 1 .. Len(saves) - 1
      /\ \A j \in 1 .. i - 1 : saves'[j] = saves[j]
      /\ \A j \in i .. Len(saves) - 1 : saves'[j] = saves[j + 1]
  <2>1. /\ saves' \in Seq(S) /\ Len(saves') = Len(saves) - 1
        /\ \A j \in 1 .. i - 1 : saves'[j] = saves[j]
        /\ \A j \in i .. Len(saves) - 1 : saves'[j] = saves[j + 1]
    BY <1>1, <1>2, OneRemoved, Zenon DEF Dropped
  <2> QED
    BY <2>1, LenProperties
<1>4. ASSUME NEW j \in DOMAIN saves'
      PROVE  SaveShaped(saves'[j])
  <2>1. CASE j < i
    BY <1>1, <1>2, <1>3, <2>1
  <2>2. CASE j >= i
    <3>1. j + 1 \in DOMAIN saves /\ saves'[j] = saves[j + 1]
      BY <1>2, <1>3, <2>2
    <3> QED
      BY <1>1, <3>1
  <2> QED
    BY <1>2, <1>3, <2>1, <2>2
<1>5. ASSUME NEW j \in DOMAIN saves \ {i}
      PROVE  Outlives(j)
  <2>1. CASE j < i
    BY <1>2, <1>3, <2>1 DEF Outlives
  <2>2. CASE j > i
    <3>1. j - 1 \in i .. Len(saves) - 1 /\ j - 1 + 1 = j /\ j - 1 \in DOMAIN saves'
      BY <1>2, <1>3, <2>2
    <3>2. saves'[j - 1] = saves[j]
      BY <1>3, <3>1
    <3> QED
      BY <3>1, <3>2 DEF Outlives
  <2> QED
    BY <1>2, <2>1, <2>2
<1> QED
  BY <1>3, <1>4, <1>5, SavesRegrouped, Zenon

(***************************************************************************)
(* Lemmas about the parts of the invariant.                                *)
(***************************************************************************)
\* A save that stays under way keeps showing its draft.
LEMMA SavingStays ==
  ASSUME NEW q \in Popovers, Saving(q), pop'[q].edit \in {None, pop[q].edit},
         \A j \in DOMAIN saves : saves[j].by = q => Outlives(j)
  PROVE  Saving(q)'
  BY DEF Saving, OnItsWay, Outlives

LEMMA NotSaving ==
  ASSUME NEW q \in Popovers, pop'[q].edit # None => ~pop'[q].edit.saving
  PROVE  Saving(q)'
  BY DEF Saving

LEMMA SavesUntouched ==
  ASSUME SavesShape, saves' = saves
  PROVE  SavesShape' /\ \A j \in DOMAIN saves : Outlives(j)
  BY DEF SavesShape, Outlives

\* A closed popover owes nothing.
LEMMA Shut ==
  ASSUME NEW q \in Popovers, pop'[q] = Closed
  PROVE  Owned(q)' /\ Leaving(q)' /\ Saving(q)'
  BY ClosedFields DEF Owned, Leaving, Saving

\* A popover that somebody holds may have its timer cancelled.
LEMMA HeldStays ==
  ASSUME NEW q \in Popovers, ~pop'[q].closing, Held(q)'
  PROVE  Leaving(q)'
  BY DEF Leaving

\* The flags of a popover are what they were and no edit began.
Still(r, q) ==
    /\ q.open = r.open /\ q.pinned = r.pinned
    /\ q.closing = r.closing /\ q.ignored = r.ignored
    /\ q.edit # None => r.edit # None

LEMMA SettledIsStill ==
  ASSUME NEW r, NEW q, Settles(r, q)
  PROVE  Still(r, q) /\ Good(q)
  BY DEF Settles, Still

LEMMA StillLeaving ==
  ASSUME NEW q \in Popovers, Leaving(q), Still(pop[q], pop'[q]),
         pointer.of = q => pointer'.of = q, focus.of = q => focus'.of = q
  PROVE  Leaving(q)'
  BY DEF Leaving, Still, Held

LEMMA OwnerStays ==
  ASSUME NEW q \in Popovers, Owned(q), pop'[q].open = pop[q].open,
         pop[q].pinned => pop'[q].pinned,
         stopped' = stopped, entry' = entry, q \in detached => q \in detached'
  PROVE  Owned(q)'
  BY DEF Owned, Connected

\* A trigger that is in the document belongs to a manager that is loaded.
LEMMA ConnectedIsLoaded ==
  ASSUME StoppedInv, NEW p \in Popovers, Connected(p)
  PROVE  ~stopped
  BY PopoverAssumption DEF StoppedInv, Connected, Popovers

LEMMA ConnectedOwned ==
  ASSUME StoppedInv, NEW p \in Popovers, Connected(p), stopped' = stopped, entry' = entry
  PROVE  Owned(p)'
  BY ConnectedIsLoaded DEF Owned, Connected

\* Elements leave the document under the pointer and the focus.
LEMMA PlacesLeft ==
  ASSUME PlaceInv, NEW gone, PlacesWithout(gone),
         \A p \in Popovers : Connected(p) /\ Trigger(p) \notin gone => Connected(p)'
  PROVE  PlaceInv'
<1>1. ASSUME NEW spot, Stands(spot), NEW now, now = IF spot \in gone THEN Nowhere ELSE spot
      PROVE  now \in Spots /\ \A p \in Popovers : now = Trigger(p) => Connected(p)'
  BY <1>1 DEF Stands, Spots, Nowhere, Trigger
<1>2. Stands(pointer)' /\ Stands(focus)'
  BY <1>1 DEF PlaceInv, Stands, PlacesWithout
<1>3. press' \in {0} \cup Popovers /\ (press' # 0 => pointer' = Inside(press'))
  BY DEF PlaceInv, PlacesWithout
<1> QED
  BY <1>2, <1>3 DEF PlaceInv

LEMMA PlacesUntouched ==
  ASSUME PlaceInv, UNCHANGED <<entry, pointer, focus>>, press' \in {0, press}
  PROVE  PlaceInv'
  BY DEF PlaceInv, Stands, Connected

\* Header, pointer and focus are left alone and every popover keeps its flags.
LEMMA QuietStep ==
  ASSUME PopoverInv, UNCHANGED <<headerVars, pointer, focus>>, press' \in {0, press},
         PopShape', SavesShape',
         \A q \in Popovers : Still(pop[q], pop'[q]) /\ Saving(q)'
  PROVE  PopoverInv'
<1>1. UNCHANGED <<entry, stopped, detached>>
  BY DEF headerVars
<1>2. PlaceInv' /\ StoppedInv'
  BY <1>1, PlacesUntouched DEF PopoverInv, StoppedInv
<1>3. ASSUME NEW q \in Popovers
      PROVE  Owned(q)' /\ Leaving(q)'
  BY <1>1, OwnerStays, StillLeaving DEF PopoverInv, Still
<1> QED
  BY <1>2, <1>3 DEF PopoverInv

-----------------------------------------------------------------------------
(* Opening and closing.                                                    *)

\* open() opens a popover afresh or keeps it open; the others settle.
LEMMA Opens ==
  ASSUME PopShape, NEW p \in Popovers, Opened(p)
  PROVE  /\ PopShape'
         /\ pop'[p].open /\ ~pop'[p].closing /\ pop'[p].edit \in {None, pop[p].edit}
         /\ \A q \in Popovers \ {p} : Settles(pop[q], pop'[q])
<1>1. CASE pop[p].open
  <2>1. pop' = [pop EXCEPT ![p] = CancelClose(pop[p])]
    BY <1>1 DEF Opened
  <2>2. OnPopovers(pop') /\ pop'[p] = CancelClose(pop[p])
        /\ \A q \in Popovers \ {p} : pop'[q] = pop[q]
    BY <2>1, Replaced
  <2> QED
    BY <1>1, <2>2, Cancelled DEF PopShape, Settles
<1>2. CASE ~pop[p].open
  <2> DEFINE fresh == [Closed EXCEPT !.open = TRUE]
             pops == [pop EXCEPT ![p] = fresh]
  <2>1. Publish(pops, Loading(model))
    BY <1>2 DEF Opened
  <2>2. Good(fresh) /\ fresh.open /\ ~fresh.closing /\ fresh.edit = None
    BY OpenedFields
  <2> HIDE DEF fresh
  <2>3. pops[p] = fresh /\ \A q \in Popovers \ {p} : pops[q] = pop[q]
    BY DEF PopShape, OnPopovers
  <2> HIDE DEF pops
  <2>4. \A q \in Popovers : Good(pops[q])
    BY <2>2, <2>3 DEF PopShape
  <2>5. PopShape' /\ \A q \in Popovers : Settles(pops[q], pop'[q])
    BY <2>1, <2>4, Publishes
  <2> QED
    BY <2>2, <2>3, <2>5 DEF Settles
<1> QED
  BY <1>1, <1>2

LEMMA EnterTriggerStep ==
  ASSUME PopoverInv, NEW p \in Popovers, EnterTrigger(p)
  PROVE  PopoverInv'
<1> USE DEF EnterTrigger, headerVars
<1>1. /\ PopShape' /\ ~pop'[p].closing /\ pop'[p].edit \in {None, pop[p].edit}
      /\ \A q \in Popovers \ {p} : Settles(pop[q], pop'[q])
  BY Opens DEF PopoverInv
<1>2. SavesShape' /\ \A j \in DOMAIN saves : Outlives(j)
  BY SavesUntouched DEF PopoverInv
<1>3. PlaceInv' /\ StoppedInv'
  BY DEF PopoverInv, PlaceInv, Stands, StoppedInv, Spots, Connected, Nowhere, Inside, Trigger
<1>4. Owned(p)' /\ Leaving(p)' /\ Saving(p)'
  <2>1. Held(p)'
    BY DEF Held, Trigger
  <2> QED
    BY <1>1, <1>2, <2>1, ConnectedOwned, HeldStays, SavingStays DEF PopoverInv
<1>5. ASSUME NEW q \in Popovers \ {p}
      PROVE  Owned(q)' /\ Leaving(q)' /\ Saving(q)'
  <2>1. Still(pop[q], pop'[q]) /\ pop'[q].edit \in {None, pop[q].edit}
    BY <1>1, SettledIsStill DEF Settles
  <2>2. pointer.of # q
    BY DEF Nowhere, Popovers
  <2> QED
    BY <1>2, <2>1, <2>2, OwnerStays, StillLeaving, SavingStays DEF PopoverInv, Still
<1> QED
  BY <1>1, <1>2, <1>3, <1>4, <1>5 DEF PopoverInv

LEMMA FocusTriggerStep ==
  ASSUME PopoverInv, NEW p \in Popovers, FocusTrigger(p)
  PROVE  PopoverInv'
<1> USE DEF FocusTrigger, headerVars
<1>1. /\ PopShape' /\ ~pop'[p].closing /\ pop'[p].edit \in {None, pop[p].edit}
      /\ \A q \in Popovers \ {p} : Settles(pop[q], pop'[q])
  BY Opens DEF PopoverInv
<1>2. SavesShape' /\ \A j \in DOMAIN saves : Outlives(j)
  BY SavesUntouched DEF PopoverInv
<1>3. PlaceInv' /\ StoppedInv'
  BY DEF PopoverInv, PlaceInv, Stands, StoppedInv, Spots, Connected, Nowhere, Inside, Trigger
<1>4. Owned(p)' /\ Leaving(p)' /\ Saving(p)'
  <2>1. Held(p)'
    BY DEF Held, Trigger
  <2> QED
    BY <1>1, <1>2, <2>1, ConnectedOwned, HeldStays, SavingStays DEF PopoverInv
<1>5. ASSUME NEW q \in Popovers \ {p}
      PROVE  Owned(q)' /\ Leaving(q)' /\ Saving(q)'
  <2>1. Still(pop[q], pop'[q]) /\ pop'[q].edit \in {None, pop[q].edit}
    BY <1>1, SettledIsStill DEF Settles
  <2>2. focus.of # q
    BY DEF Nowhere, Inside, Popovers
  <2> QED
    BY <1>2, <2>1, <2>2, OwnerStays, StillLeaving, SavingStays DEF PopoverInv, Still
<1> QED
  BY <1>1, <1>2, <1>3, <1>4, <1>5 DEF PopoverInv

\* Coming in cancels the close of the popover, and of no other.
LEMMA ComesIn ==
  ASSUME PopoverInv, NEW p \in Popovers, pop' = [pop EXCEPT ![p] = CancelClose(@)],
         UNCHANGED <<headerVars, saves>>, PlaceInv', Held(p)',
         \A q \in Popovers \ {p} : /\ pointer.of = q => pointer'.of = q
                                   /\ focus.of = q => focus'.of = q
  PROVE  PopoverInv'
<1> USE DEF headerVars
<1>1. OnPopovers(pop') /\ pop'[p] = CancelClose(pop[p])
      /\ \A q \in Popovers \ {p} : pop'[q] = pop[q]
  BY Replaced DEF PopoverInv
<1>2. PopShape'
  BY <1>1, Cancelled DEF PopoverInv, PopShape
<1>3. SavesShape' /\ StoppedInv' /\ \A j \in DOMAIN saves : Outlives(j)
  BY SavesUntouched DEF PopoverInv, StoppedInv
<1>4. Owned(p)' /\ Leaving(p)' /\ Saving(p)'
  <2>1. /\ pop'[p].open = pop[p].open /\ pop'[p].pinned = pop[p].pinned
        /\ pop'[p].edit = pop[p].edit /\ ~pop'[p].closing
    BY <1>1, Cancelled DEF PopoverInv, PopShape
  <2> QED
    BY <1>3, <2>1, OwnerStays, HeldStays, SavingStays DEF PopoverInv
<1>5. ASSUME NEW q \in Popovers \ {p}
      PROVE  Owned(q)' /\ Leaving(q)' /\ Saving(q)'
  <2>1. Still(pop[q], pop'[q]) /\ pop'[q].edit = pop[q].edit
    BY <1>1 DEF Still
  <2> QED
    BY <1>3, <2>1, OwnerStays, StillLeaving, SavingStays DEF PopoverInv, Still
<1> QED
  BY <1>2, <1>3, <1>4, <1>5 DEF PopoverInv

LEMMA EnterPopoverStep ==
  ASSUME PopoverInv, NEW p \in Popovers, EnterPopover(p)
  PROVE  PopoverInv'
<1> USE DEF EnterPopover
<1>1. PlaceInv'
  BY DEF PopoverInv, PlaceInv, Stands, Spots, Connected, Nowhere, Inside, Trigger, headerVars
<1>2. Held(p)' /\ \A q \in Popovers : pointer.of # q
  BY DEF Held, Inside, Nowhere, Popovers
<1> QED
  BY <1>1, <1>2, ComesIn

LEMMA FocusInsideStep ==
  ASSUME PopoverInv, NEW p \in Popovers, FocusInside(p)
  PROVE  PopoverInv'
<1> USE DEF FocusInside
<1>1. PlaceInv'
  BY DEF PopoverInv, PlaceInv, Stands, Spots, Connected, Nowhere, Inside, Trigger, headerVars
<1>2. Held(p)' /\ \A q \in Popovers \ {p} : focus.of # q
  BY DEF Held, Inside, Trigger, Nowhere, Popovers
<1> QED
  BY <1>1, <1>2, ComesIn

\* Leaving starts the timer of the popover that is left, unless it is pinned
\* or edited; no other is left.
LEMMA GoesOut ==
  ASSUME PopoverInv, NEW p \in Popovers, pop' = [pop EXCEPT ![p] = ScheduleClose(@)],
         UNCHANGED <<headerVars, saves>>, PlaceInv',
         \A q \in Popovers \ {p} : /\ pointer.of = q => pointer'.of = q
                                   /\ focus.of = q => focus'.of = q
  PROVE  PopoverInv'
<1> USE DEF headerVars
<1>1. OnPopovers(pop') /\ pop'[p] = ScheduleClose(pop[p])
      /\ \A q \in Popovers \ {p} : pop'[q] = pop[q]
  BY Replaced DEF PopoverInv
<1>2. PopShape'
  BY <1>1, Scheduled DEF PopoverInv, PopShape
<1>3. SavesShape' /\ StoppedInv' /\ \A j \in DOMAIN saves : Outlives(j)
  BY SavesUntouched DEF PopoverInv, StoppedInv
<1>4. Owned(p)' /\ Leaving(p)' /\ Saving(p)'
  <2>1. /\ pop'[p].open = pop[p].open /\ pop'[p].pinned = pop[p].pinned
        /\ pop'[p].edit = pop[p].edit
        /\ pop[p].pinned \/ pop'[p].closing \/ pop'[p].ignored
        /\ pop'[p].closing => pop[p].closing \/ (~pop[p].pinned /\ pop[p].edit = None)
    BY <1>1, Scheduled DEF PopoverInv, PopShape
  <2>2. Leaving(p)'
    BY <2>1 DEF PopoverInv, Leaving, Held
  <2> QED
    BY <1>3, <2>1, <2>2, OwnerStays, SavingStays DEF PopoverInv
<1>5. ASSUME NEW q \in Popovers \ {p}
      PROVE  Owned(q)' /\ Leaving(q)' /\ Saving(q)'
  <2>1. Still(pop[q], pop'[q]) /\ pop'[q].edit = pop[q].edit
    BY <1>1 DEF Still
  <2> QED
    BY <1>3, <2>1, OwnerStays, StillLeaving, SavingStays DEF PopoverInv, Still
<1> QED
  BY <1>2, <1>3, <1>4, <1>5 DEF PopoverInv

\* A place that is not nowhere belongs to a popover.
LEMMA SpotOf ==
  ASSUME NEW spot \in Spots, spot # Nowhere
  PROVE  spot.of \in Popovers
  BY DEF Spots, Trigger, Inside

LEMMA PointerLeavesStep ==
  ASSUME PopoverInv, PointerLeaves
  PROVE  PopoverInv'
<1> USE DEF PointerLeaves
<1>1. pointer.of \in Popovers
  BY SpotOf DEF PopoverInv, PlaceInv, Stands
<1>2. PlaceInv'
  BY DEF PopoverInv, PlaceInv, Stands, Spots, Connected, Nowhere, Trigger, headerVars
<1> QED
  BY <1>1, <1>2, GoesOut

LEMMA FocusLeavesStep ==
  ASSUME PopoverInv, FocusLeaves
  PROVE  PopoverInv'
<1> USE DEF FocusLeaves
<1>1. focus.of \in Popovers
  BY SpotOf DEF PopoverInv, PlaceInv, Stands
<1>2. PlaceInv'
  BY DEF PopoverInv, PlaceInv, Stands, Spots, Connected, Nowhere, Trigger, headerVars
<1> QED
  BY <1>1, <1>2, GoesOut

\* One popover closes, what is inside it leaves the document.
LEMMA OneCloses ==
  ASSUME PopoverInv, NEW p \in Popovers, pop' = [pop EXCEPT ![p] = Closed],
         PlacesWithout({Inside(p)}), UNCHANGED <<entry, stopped, saves>>,
         detached' \in {detached, detached \ {p}}
  PROVE  PopoverInv'
<1>1. OnPopovers(pop') /\ pop'[p] = Closed /\ \A q \in Popovers \ {p} : pop'[q] = pop[q]
  BY Replaced DEF PopoverInv
<1>2. PopShape'
  BY <1>1, ClosedFields DEF PopoverInv, PopShape
<1>3. SavesShape' /\ StoppedInv' /\ \A j \in DOMAIN saves : Outlives(j)
  BY SavesUntouched DEF PopoverInv, StoppedInv
<1>4. PlaceInv'
  BY PlacesLeft DEF PopoverInv, Connected
<1>5. Owned(p)' /\ Leaving(p)' /\ Saving(p)'
  BY <1>1, Shut
<1>6. ASSUME NEW q \in Popovers \ {p}
      PROVE  Owned(q)' /\ Leaving(q)' /\ Saving(q)'
  <2>1. Still(pop[q], pop'[q]) /\ pop'[q].edit = pop[q].edit
    BY <1>1 DEF Still
  <2>2. (pointer.of = q => pointer'.of = q) /\ (focus.of = q => focus'.of = q)
    BY DEF PlacesWithout, Inside
  <2> QED
    BY <1>3, <2>1, <2>2, OwnerStays, StillLeaving, SavingStays DEF PopoverInv, Still
<1> QED
  BY <1>2, <1>3, <1>4, <1>5, <1>6 DEF PopoverInv

LEMMA CloseTimerStep ==
  ASSUME PopoverInv, NEW p \in Popovers, CloseTimer(p)
  PROVE  PopoverInv'
<1> USE DEF headerVars
<1>1. CASE Held(p)
  <2>1. pop' = [pop EXCEPT ![p] = [pop[p] EXCEPT !.closing = FALSE]] /\ UNCHANGED placeVars
        /\ UNCHANGED <<headerVars, saves>>
    BY <1>1 DEF CloseTimer
  <2>2. OnPopovers(pop') /\ pop'[p] = [pop[p] EXCEPT !.closing = FALSE]
        /\ \A q \in Popovers \ {p} : pop'[q] = pop[q]
    BY <2>1, Replaced DEF PopoverInv
  <2>3. /\ Good(pop'[p]) /\ pop'[p].open = pop[p].open /\ pop'[p].pinned = pop[p].pinned
        /\ pop'[p].edit = pop[p].edit /\ ~pop'[p].closing
    BY <2>2 DEF PopoverInv, PopShape, Good, Shaped
  <2>4. PopShape'
    BY <2>2, <2>3 DEF PopoverInv, PopShape
  <2>5. SavesShape' /\ StoppedInv' /\ PlaceInv' /\ \A j \in DOMAIN saves : Outlives(j)
    BY <2>1, SavesUntouched, PlacesUntouched DEF PopoverInv, StoppedInv, placeVars
  <2>6. Owned(p)' /\ Leaving(p)' /\ Saving(p)'
    <3>1. Held(p)'
      BY <1>1, <2>1, <2>3 DEF Held, placeVars
    <3> QED
      BY <2>1, <2>3, <2>5, <3>1, OwnerStays, HeldStays, SavingStays DEF PopoverInv
  <2>7. ASSUME NEW q \in Popovers \ {p}
        PROVE  Owned(q)' /\ Leaving(q)' /\ Saving(q)'
    <3>1. Still(pop[q], pop'[q]) /\ pop'[q].edit = pop[q].edit
      BY <2>2 DEF Still
    <3> QED
      BY <2>1, <2>5, <3>1, OwnerStays, StillLeaving, SavingStays
      DEF PopoverInv, Still, placeVars
  <2> QED
    BY <2>4, <2>5, <2>6, <2>7 DEF PopoverInv
<1>2. CASE ~Held(p)
  BY <1>2, OneCloses DEF CloseTimer
<1> QED
  BY <1>1, <1>2

LEMMA PosterOpensStep ==
  ASSUME PopoverInv, NEW p \in Popovers, PosterOpens(p)
  PROVE  PopoverInv'
  BY OneCloses DEF PosterOpens

-----------------------------------------------------------------------------
(* Presses.                                                                *)

\* A press outside leaves of a popover nothing or a popover that was closed.
LEMMA OutsideShuts ==
  ASSUME PopoverInv, NEW inside, NEW q \in Popovers, q # inside
  PROVE  LET r == PressOutside(pop, inside)[q]
         IN  Good(r) /\ (r = Closed \/ (r = pop[q] /\ ~pop[q].open))
  BY ClosedFields DEF PressOutside, PopoverInv, PopShape

\* Such a popover keeps the invariant whatever is published then.
LEMMA AwayFromPress ==
  ASSUME PopoverInv, NEW q \in Popovers, NEW r, r = Closed \/ (r = pop[q] /\ ~pop[q].open),
         Settles(r, pop'[q]), saves' = saves
  PROVE  Owned(q)' /\ Leaving(q)' /\ Saving(q)'
<1>1. ~pop'[q].open /\ pop'[q].edit \in {None, pop[q].edit}
  BY ClosedFields DEF Settles
<1>2. Leaving(q)'
  BY <1>1, ClosedFields DEF PopoverInv, Leaving, Settles
<1>3. Saving(q)'
  BY <1>1, SavingStays, SavesUntouched DEF PopoverInv
<1> QED
  BY <1>1, <1>2, <1>3 DEF Owned

\* A press in a popover under the pointer closes the others; what it makes of
\* the pressed one is r.
LEMMA PressInStep ==
  ASSUME PopoverInv, NEW p \in Popovers, NEW r, PressIn(p, r), pointer.of = p,
         Good(r), r.open = pop[p].open, pop[p].pinned => r.pinned,
         r.pinned \/ r.edit # None => ~r.closing,
         UNCHANGED <<entry, stopped, pointer, saves>>,
         press' = press \/ (press' = p /\ pointer = Inside(p)),
         Saving(p)'
  PROVE  PopoverInv'
<1> DEFINE others == PressOutside(pop, p)
<1>1. /\ OnPopovers(pop') /\ pop'[p] = r
      /\ \A q \in Popovers \ {p} : pop'[q] = others[q]
  <2>1. OnPopovers(others)
    BY DEF PressOutside, OnPopovers
  <2>2. pop' = [others EXCEPT ![p] = r]
    BY DEF PressIn
  <2> HIDE DEF others
  <2> QED
    BY <2>1, <2>2 DEF OnPopovers
<1>2. \A q \in Popovers \ {p} :
          Good(others[q]) /\ (others[q] = Closed \/ (others[q] = pop[q] /\ ~pop[q].open))
  BY OutsideShuts
<1> HIDE DEF others
<1>3. PopShape'
  BY <1>1, <1>2 DEF PopShape
<1>4. SavesShape' /\ StoppedInv'
  BY SavesUntouched DEF PopoverInv, StoppedInv
<1>5. PlaceInv'
  BY DEF PressIn, PopoverInv, PlaceInv, Stands, Spots, Connected, Nowhere, Trigger
<1>6. Owned(p)' /\ Leaving(p)'
  <2>1. p \in detached => p \in detached'
    BY DEF PressIn
  <2>2. Held(p)'
    BY DEF Held
  <2> QED
    BY <1>1, <2>1, <2>2, OwnerStays DEF PopoverInv, Leaving
<1>7. ASSUME NEW q \in Popovers \ {p}
      PROVE  Owned(q)' /\ Leaving(q)' /\ Saving(q)'
  <2>1. Settles(others[q], pop'[q])
    BY <1>1, <1>2 DEF Settles
  <2> QED
    BY <1>2, <2>1, AwayFromPress
<1> QED
  BY <1>3, <1>4, <1>5, <1>6, <1>7 DEF PopoverInv

\* A layout under edit takes another place in its popover.
LEMMA EditReplaced ==
  ASSUME NEW r, Good(r), NEW e, EditShaped(e)
  PROVE  LET q == [r EXCEPT !.edit = e]
         IN  /\ Good(q) /\ q.edit = e
             /\ q.open = r.open /\ q.pinned = r.pinned
             /\ q.closing = r.closing /\ q.ignored = r.ignored
  BY DEF Good, Shaped

LEMMA ArmedFields ==
  ASSUME NEW r, Good(r), NEW b \in BOOLEAN
  PROVE  Settles(r, [r EXCEPT !.armed = b])
  BY DEF Good, Shaped, Settles

LEMMA ClickSliceStep ==
  ASSUME PopoverInv, NEW p \in Popovers, ClickSlice(p)
  PROVE  PopoverInv'
<1> DEFINE r == IF pop[p].armed THEN [Pin(pop[p]) EXCEPT !.armed = FALSE]
                ELSE [pop[p] EXCEPT !.armed = TRUE]
<1>1. /\ Good(r) /\ r.open = pop[p].open /\ r.edit \in {None, pop[p].edit}
      /\ pop[p].pinned => r.pinned
      /\ r.pinned \/ r.edit # None => ~r.closing
  <2>1. Good(pop[p]) /\ Leaving(p)
    BY DEF PopoverInv, PopShape
  <2>2. LET q == Pin(pop[p])
        IN  Good(q) /\ q.open = pop[p].open /\ q.pinned /\ q.edit = pop[p].edit /\ ~q.closing
    BY <2>1, Pinned DEF Pin
  <2>3. Settles(Pin(pop[p]), [Pin(pop[p]) EXCEPT !.armed = FALSE])
    BY <2>2, ArmedFields
  <2>4. Settles(pop[p], [pop[p] EXCEPT !.armed = TRUE])
    BY <2>1, ArmedFields
  <2> QED
    BY <2>1, <2>2, <2>3, <2>4 DEF Settles, Leaving
<1>2. PressIn(p, r) /\ pointer = Inside(p) /\ UNCHANGED <<entry, stopped, pointer, press, saves>>
  BY DEF ClickSlice
<1>3. pop'[p] = r
  BY <1>2 DEF PressIn, PressOutside
<1> HIDE DEF r
<1>4. Saving(p)'
  BY <1>1, <1>2, <1>3, SavingStays, SavesUntouched DEF PopoverInv
<1>5. pointer.of = p
  BY <1>2 DEF Inside
<1> QED
  BY <1>1, <1>2, <1>4, <1>5, PressInStep

LEMMA PressControlStep ==
  ASSUME PopoverInv, NEW p \in Popovers, PressControl(p)
  PROVE  PopoverInv'
<1>1. /\ PressIn(p, pop[p]) /\ pointer = Inside(p) /\ press' = p
      /\ UNCHANGED <<entry, stopped, pointer, saves>>
  BY DEF PressControl
<1>2. pop'[p] = pop[p]
  BY <1>1 DEF PressIn, PressOutside
<1>3. Saving(p)'
  BY <1>1, <1>2, SavingStays, SavesUntouched DEF PopoverInv
<1>4. pointer.of = p
  BY <1>1 DEF Inside
<1>5. Good(pop[p]) /\ (pop[p].pinned \/ pop[p].edit # None => ~pop[p].closing)
  BY DEF PopoverInv, PopShape, Leaving
<1> QED
  BY <1>1, <1>3, <1>4, <1>5, PressInStep

LEMMA StartDragStep ==
  ASSUME PopoverInv, NEW p \in Popovers, NEW a \in ActionSet, StartDrag(p, a)
  PROVE  PopoverInv'
<1> DEFINE e == [pop[p].edit EXCEPT !.drag = a]
           r == [pop[p] EXCEPT !.edit = e]
<1>1. /\ Good(pop[p]) /\ pop[p].edit # None /\ ~pop[p].edit.saving /\ Leaving(p)
      /\ EditShaped(pop[p].edit)
  BY DEF StartDrag, Editing, PopoverInv, PopShape, Good
<1>2. PressIn(p, r) /\ pointer = Inside(p) /\ UNCHANGED <<entry, stopped, pointer, press, saves>>
  BY DEF StartDrag
<1>3. pop'[p] = r
  BY <1>2 DEF PressIn, PressOutside
<1>4. EditShaped(e) /\ ~e.saving
  BY <1>1 DEF EditShaped
<1> HIDE DEF e
<1>5. /\ Good(r) /\ r.edit = e /\ r.open = pop[p].open /\ r.pinned = pop[p].pinned
      /\ r.closing = pop[p].closing
  BY <1>1, <1>4, EditReplaced
<1> HIDE DEF r
<1>6. Saving(p)'
  BY <1>3, <1>4, <1>5, NotSaving
<1>7. pointer.of = p /\ (r.pinned \/ r.edit # None => ~r.closing)
  BY <1>1, <1>2, <1>5 DEF Inside, Leaving
<1> QED
  BY <1>2, <1>5, <1>6, <1>7, PressInStep

\* A press on the workspace closes every popover.
LEMMA PressElsewhereStep ==
  ASSUME PopoverInv, PressElsewhere
  PROVE  PopoverInv'
<1> DEFINE r == PressOutside(pop, 0)
<1>1. pop' = r /\ UNCHANGED <<entry, stopped, saves>>
      /\ PlacesWithout({Inside(p) : p \in Popovers})
  BY DEF PressElsewhere
<1>2. OnPopovers(r)
  BY DEF PressOutside, OnPopovers
<1>3. \A q \in Popovers : Good(r[q]) /\ (r[q] = Closed \/ (r[q] = pop[q] /\ ~pop[q].open))
  <2>1. \A q \in Popovers : q # 0
    BY DEF Popovers
  <2> QED
    BY <2>1, OutsideShuts
<1> HIDE DEF r
<1>4. PopShape'
  BY <1>1, <1>2, <1>3 DEF PopShape
<1>5. SavesShape' /\ StoppedInv' /\ PlaceInv'
  BY <1>1, SavesUntouched, PlacesLeft DEF PopoverInv, StoppedInv, Connected
<1>6. ASSUME NEW q \in Popovers
      PROVE  Owned(q)' /\ Leaving(q)' /\ Saving(q)'
  <2>1. Settles(r[q], pop'[q])
    BY <1>1, <1>3 DEF Settles
  <2> QED
    BY <1>1, <1>3, <2>1, AwayFromPress
<1> QED
  BY <1>4, <1>5, <1>6 DEF PopoverInv

\* The header action is clicked: it opens its popover pinned, pins an open one
\* or releases a pinned one, and every other closes.
LEMMA ToggleStep ==
  ASSUME PopoverInv, NEW p \in Popovers, Toggle(p)
  PROVE  PopoverInv'
<1> DEFINE others == PressOutside(pop, p)
           fresh == [Closed EXCEPT !.open = TRUE, !.pinned = TRUE]
           turned == IF pop[p].pinned THEN [CancelClose(pop[p]) EXCEPT !.pinned = FALSE]
                     ELSE Pin(pop[p])
           r == IF pop[p].open THEN turned ELSE fresh
           pops == [others EXCEPT ![p] = r]
<1>1. UNCHANGED <<entry, stopped, pointer, saves>> /\ pointer = Trigger(p) /\ press' = 0
  BY DEF Toggle
<1>2. Good(r) /\ ~r.closing /\ r.edit \in {None, pop[p].edit}
  <2>1. Good(fresh) /\ ~fresh.closing /\ fresh.edit = None
    BY ClickedFields
  <2>2. Good(turned) /\ ~turned.closing /\ turned.edit = pop[p].edit
    BY Pinned DEF PopoverInv, PopShape, Pin
  <2> HIDE DEF fresh, turned
  <2> QED
    BY <2>1, <2>2
<1>3. \A q \in Popovers \ {p} :
          Good(others[q]) /\ (others[q] = Closed \/ (others[q] = pop[q] /\ ~pop[q].open))
  BY OutsideShuts
<1>4. OnPopovers(pops) /\ pops[p] = r /\ \A q \in Popovers \ {p} : pops[q] = others[q]
  <2>1. OnPopovers(others)
    BY DEF PressOutside, OnPopovers
  <2> HIDE DEF others, r
  <2> QED
    BY <2>1 DEF OnPopovers
<1>5. pop' = pops \/ Publish(pops, Loading(model))
  BY DEF Toggle
<1> HIDE DEF pops, others, r
<1>6. \A q \in Popovers : Good(pops[q])
  BY <1>2, <1>3, <1>4
<1>7. PopShape' /\ \A q \in Popovers : Settles(pops[q], pop'[q])
  <2>1. CASE pop' = pops
    BY <1>4, <1>6, <2>1 DEF PopShape, Settles
  <2>2. CASE Publish(pops, Loading(model))
    BY <1>6, <2>2, Publishes
  <2> QED
    BY <1>5, <2>1, <2>2
<1>8. SavesShape' /\ StoppedInv' /\ \A j \in DOMAIN saves : Outlives(j)
  BY <1>1, SavesUntouched DEF PopoverInv, StoppedInv
<1>9. PlaceInv'
  BY <1>1 DEF Toggle, PopoverInv, PlaceInv, Stands, Spots, Connected, Nowhere, Trigger
<1>10. Owned(p)' /\ Leaving(p)' /\ Saving(p)'
  <2>1. Held(p)' /\ Connected(p)
    BY <1>1 DEF Held, Trigger, PopoverInv, PlaceInv, Stands
  <2>2. ~pop'[p].closing /\ pop'[p].edit \in {None, pop[p].edit}
    BY <1>2, <1>4, <1>7 DEF Settles
  <2> QED
    BY <1>1, <1>8, <2>1, <2>2, ConnectedOwned, HeldStays, SavingStays DEF PopoverInv
<1>11. ASSUME NEW q \in Popovers \ {p}
       PROVE  Owned(q)' /\ Leaving(q)' /\ Saving(q)'
  BY <1>1, <1>3, <1>4, <1>7, AwayFromPress
<1> QED
  BY <1>7, <1>8, <1>9, <1>10, <1>11 DEF PopoverInv

-----------------------------------------------------------------------------
(* The controller's publications and what the popovers do by themselves.   *)

\* Every popover settles and every save outlives the step.
LEMMA SettledStep ==
  ASSUME PopoverInv, UNCHANGED <<headerVars, pointer, focus>>, press' \in {0, press},
         PopShape', SavesShape',
         \A q \in Popovers : Settles(pop[q], pop'[q]),
         \A j \in DOMAIN saves : Outlives(j)
  PROVE  PopoverInv'
<1>1. ASSUME NEW q \in Popovers
      PROVE  Still(pop[q], pop'[q]) /\ Saving(q)'
  BY SettledIsStill, SavingStays DEF PopoverInv, Settles
<1> QED
  BY <1>1, QuietStep

\* One popover settles.
LEMMA OneSettles ==
  ASSUME PopoverInv, NEW p \in Popovers, NEW r, Settles(pop[p], r),
         pop' = [pop EXCEPT ![p] = r],
         UNCHANGED <<headerVars, placeVars, saves>>
  PROVE  PopoverInv'
<1>1. OnPopovers(pop') /\ pop'[p] = r /\ \A q \in Popovers \ {p} : pop'[q] = pop[q]
  BY Replaced DEF PopoverInv
<1>2. PopShape' /\ \A q \in Popovers : Settles(pop[q], pop'[q])
  BY <1>1 DEF PopoverInv, PopShape, Settles
<1>3. SavesShape' /\ \A j \in DOMAIN saves : Outlives(j)
  BY SavesUntouched DEF PopoverInv
<1> QED
  BY <1>2, <1>3, SettledStep DEF placeVars

\* Nothing the invariant speaks of changes, but a long press may end.
LEMMA NothingChanges ==
  ASSUME PopoverInv, UNCHANGED <<headerVars, pop, pointer, focus, saves>>,
         press' \in {0, press}
  PROVE  PopoverInv'
<1>1. PopShape' /\ \A q \in Popovers : Settles(pop[q], pop'[q])
  BY DEF PopoverInv, PopShape, Settles
<1> QED
  BY <1>1, SettledStep, SavesUntouched DEF PopoverInv

LEMMA AnswerStep ==
  ASSUME PopoverInv, Answer
  PROVE  PopoverInv'
<1>1. PopShape' /\ \A q \in Popovers : Settles(pop[q], pop'[q])
  BY Publishes DEF Answer, PopoverInv, PopShape
<1> QED
  BY <1>1, SettledStep, SavesUntouched DEF Answer, PopoverInv, placeVars

LEMMA RefreshStep ==
  ASSUME PopoverInv, Refresh
  PROVE  PopoverInv'
<1> DEFINE pops == [p \in Popovers |-> [pop[p] EXCEPT !.armed = FALSE]]
<1>1. \A q \in Popovers : Settles(pop[q], pops[q])
  BY ArmedFields DEF PopoverInv, PopShape
<1>2. Publish(pops, Loading(model))
  BY DEF Refresh
<1> HIDE DEF pops
<1>3. PopShape' /\ \A q \in Popovers : Settles(pops[q], pop'[q])
  BY <1>1, <1>2, Publishes DEF Settles
<1>4. \A q \in Popovers : Settles(pop[q], pop'[q])
  BY <1>1, <1>3, SettlesTwice
<1> QED
  BY <1>3, <1>4, SettledStep, SavesUntouched DEF Refresh, PopoverInv, placeVars

LEMMA RestructureStep ==
  ASSUME PopoverInv, NEW p \in Popovers, Restructure(p)
  PROVE  PopoverInv'
<1>1. PICK result : pop' = [pop EXCEPT ![p] = Rendered(pop[p], model, result)]
  BY DEF Restructure
<1>2. Settles(pop[p], Rendered(pop[p], model, result))
  BY Renders DEF PopoverInv, PopShape
<1> QED
  BY <1>1, <1>2, OneSettles DEF Restructure

\* The fields of the locate highlight and of the armed slice matter to none of
\* the parts.
LEMMA LocateFields ==
  ASSUME NEW r, Good(r), NEW l, NEW n, NEW a
  PROVE  /\ Settles(r, [r EXCEPT !.locating = l])
         /\ Settles(r, [r EXCEPT !.locating = l, !.armed = a])
         /\ Settles(r, [r EXCEPT !.pending = n, !.locating = l, !.armed = a])
  BY DEF Good, Shaped, Settles

LEMMA LocateTimerStep ==
  ASSUME PopoverInv, NEW p \in Popovers, LocateTimer(p)
  PROVE  PopoverInv'
<1>1. Settles(pop[p], [pop[p] EXCEPT !.locating = FALSE])
  BY LocateFields DEF PopoverInv, PopShape
<1> QED
  BY <1>1, OneSettles DEF LocateTimer

LEMMA LocateStep ==
  ASSUME PopoverInv, NEW p \in Popovers, Locate(p)
  PROVE  PopoverInv'
<1> DEFINE lit == [pop[p] EXCEPT !.locating = TRUE, !.armed = FALSE]
           asked == [pop[p] EXCEPT !.pending = model.gen, !.locating = FALSE, !.armed = FALSE]
           pops == [pop EXCEPT ![p] = asked]
<1>1. Settles(pop[p], lit) /\ Settles(pop[p], asked)
  BY LocateFields DEF PopoverInv, PopShape
<1>2. UNCHANGED <<headerVars, placeVars, saves>>
  BY DEF Locate
<1>3. pop' = [pop EXCEPT ![p] = lit] \/ Publish(pops, Loading(model))
  BY DEF Locate
<1> HIDE DEF lit, asked
<1>4. CASE pop' = [pop EXCEPT ![p] = lit]
  BY <1>1, <1>2, <1>4, OneSettles
<1>5. CASE Publish(pops, Loading(model))
  <2>1. \A q \in Popovers : Settles(pop[q], pops[q])
    BY <1>1 DEF PopoverInv, PopShape, OnPopovers, Settles
  <2> HIDE DEF pops
  <2>2. PopShape' /\ \A q \in Popovers : Settles(pops[q], pop'[q])
    BY <1>5, <2>1, Publishes DEF Settles
  <2>3. \A q \in Popovers : Settles(pop[q], pop'[q])
    BY <2>1, <2>2, SettlesTwice
  <2> QED
    BY <1>2, <2>2, <2>3, SettledStep, SavesUntouched DEF PopoverInv, placeVars
<1> QED
  BY <1>3, <1>4, <1>5

\* Escape ends an edit; or it closes the popover and returns to its trigger,
\* where the focus opens it again.
LEMMA EscapeStep ==
  ASSUME PopoverInv, NEW p \in Popovers, Escape(p)
  PROVE  PopoverInv'
<1> USE DEF headerVars
<1>1. CASE pop[p].edit # None
  <2>1. Settles(pop[p], [pop[p] EXCEPT !.edit = None])
    BY EditEnds DEF PopoverInv, PopShape
  <2>2. pop' = [pop EXCEPT ![p] = [pop[p] EXCEPT !.edit = None]]
        /\ UNCHANGED <<headerVars, placeVars, saves>>
    BY <1>1 DEF Escape
  <2> QED
    BY <2>1, <2>2, OneSettles
<1>2. CASE pop[p].edit = None /\ ~Connected(p)
  <2>1. /\ pop' = [pop EXCEPT ![p] = Closed] /\ detached' = detached \ {p}
        /\ UNCHANGED <<entry, stopped, saves>>
        /\ focus = Inside(p) /\ focus' = Nowhere
        /\ pointer' = IF pointer = Inside(p) THEN Nowhere ELSE pointer
        /\ press' = IF press = p THEN 0 ELSE press
    BY <1>2 DEF Escape
  <2>2. PlacesWithout({Inside(p)})
    BY <2>1 DEF PlacesWithout, Inside
  <2> QED
    BY <2>1, <2>2, OneCloses
<1>3. CASE pop[p].edit = None /\ Connected(p)
  <2> DEFINE fresh == [Closed EXCEPT !.open = TRUE]
             pops == [pop EXCEPT ![p] = fresh]
  <2>1. /\ Publish(pops, Loading(model)) /\ detached' = detached \ {p}
        /\ UNCHANGED <<entry, stopped, saves>>
        /\ focus = Inside(p) /\ focus' = Trigger(p)
        /\ pointer' = IF pointer = Inside(p) THEN Nowhere ELSE pointer
        /\ press' = IF press = p THEN 0 ELSE press
    BY <1>3 DEF Escape
  <2>2. Good(fresh) /\ ~fresh.closing /\ fresh.edit = None
    BY OpenedFields
  <2> HIDE DEF fresh
  <2>3. pops[p] = fresh /\ \A q \in Popovers \ {p} : pops[q] = pop[q]
    BY DEF PopoverInv, PopShape, OnPopovers
  <2> HIDE DEF pops
  <2>4. PopShape' /\ \A q \in Popovers : Settles(pops[q], pop'[q])
    BY <2>1, <2>2, <2>3, Publishes DEF PopoverInv, PopShape
  <2>5. SavesShape' /\ StoppedInv' /\ \A j \in DOMAIN saves : Outlives(j)
    BY <2>1, SavesUntouched DEF PopoverInv, StoppedInv
  <2>6. PlaceInv'
    BY <1>3, <2>1 DEF PopoverInv, PlaceInv, Stands, Spots, Connected, Nowhere, Inside, Trigger
  <2>7. Owned(p)' /\ Leaving(p)' /\ Saving(p)'
    <3>1. Held(p)'
      BY <2>1 DEF Held, Trigger
    <3>2. ~pop'[p].closing /\ pop'[p].edit = None
      BY <2>2, <2>3, <2>4 DEF Settles
    <3> QED
      BY <1>3, <2>1, <3>1, <3>2, ConnectedOwned, HeldStays, NotSaving DEF PopoverInv
  <2>8. ASSUME NEW q \in Popovers \ {p}
        PROVE  Owned(q)' /\ Leaving(q)' /\ Saving(q)'
    <3>1. Still(pop[q], pop'[q]) /\ pop'[q].edit \in {None, pop[q].edit}
      BY <2>3, <2>4, SettledIsStill DEF Settles
    <3>2. (pointer.of = q => pointer'.of = q) /\ focus.of # q
      BY <2>1 DEF Inside
    <3>3. q \in detached => q \in detached'
      BY <2>1
    <3> QED
      BY <2>1, <2>5, <3>1, <3>2, <3>3, OwnerStays, StillLeaving, SavingStays
      DEF PopoverInv, Still
  <2> QED
    BY <2>4, <2>5, <2>6, <2>7, <2>8 DEF PopoverInv
<1> QED
  BY <1>1, <1>2, <1>3

-----------------------------------------------------------------------------
(* Editing and saving the layout.                                          *)

\* A layout under edit is replaced by another.
LEMMA EditStep ==
  ASSUME PopoverInv, NEW p \in Popovers, NEW e, pop[p].edit # None, EditShaped(e),
         pop' = [pop EXCEPT ![p].edit = e],
         UNCHANGED <<headerVars, placeVars>>, SavesShape',
         \A j \in DOMAIN saves : saves[j].by # p => Outlives(j),
         e.saving => e.drag = None /\ \E k \in DOMAIN saves' :
                        saves'[k].by = p /\ saves'[k].draft = e.draft
  PROVE  PopoverInv'
<1> DEFINE r == [pop[p] EXCEPT !.edit = e]
<1>1. /\ Good(r) /\ r.edit = e
      /\ r.open = pop[p].open /\ r.pinned = pop[p].pinned
      /\ r.closing = pop[p].closing /\ r.ignored = pop[p].ignored
  BY EditReplaced DEF PopoverInv, PopShape
<1>2. pop' = [pop EXCEPT ![p] = r]
  OBVIOUS
<1> HIDE DEF r
<1>3. OnPopovers(pop') /\ pop'[p] = r /\ \A q \in Popovers \ {p} : pop'[q] = pop[q]
  BY <1>2, Replaced DEF PopoverInv
<1>4. PopShape' /\ \A q \in Popovers : Still(pop[q], pop'[q])
  BY <1>1, <1>3 DEF PopoverInv, PopShape, Still
<1>5. Saving(p)'
  BY <1>1, <1>3 DEF Saving, OnItsWay
<1>6. \A q \in Popovers \ {p} : Saving(q)'
  BY <1>3, SavingStays DEF PopoverInv
<1> QED
  BY <1>4, <1>5, <1>6, QuietStep DEF placeVars

\* What is under edit has the fields of an edit, and is dragged only before
\* it is saved.
LEMMA EditFields ==
  ASSUME PopoverInv, NEW p \in Popovers, pop[p].edit # None
  PROVE  LET e == pop[p].edit
         IN  EditShaped(e) /\ (e.drag # None => ~e.saving)
  BY DEF PopoverInv, PopShape, Good, Saving

LEMMA EditUpdates ==
  ASSUME NEW e, EditShaped(e), NEW x
  PROVE  /\ EditShaped([e EXCEPT !.drag = x]) /\ [e EXCEPT !.drag = x].saving = e.saving
         /\ EditShaped([e EXCEPT !.grab = x]) /\ [e EXCEPT !.grab = x].saving = e.saving
         /\ LET f == Frozen(e)
            IN  EditShaped(f) /\ f.saving /\ f.drag = None /\ f.draft = e.draft
         /\ LET t == [e EXCEPT !.saving = FALSE, !.drag = None]
            IN  EditShaped(t) /\ ~t.saving
  BY DEF EditShaped, Frozen

LEMMA DropBackStep ==
  ASSUME PopoverInv, NEW p \in Popovers, DropBack(p)
  PROVE  PopoverInv'
<1> DEFINE e == [pop[p].edit EXCEPT !.drag = None]
<1>1. pop[p].edit # None /\ UNCHANGED <<headerVars, placeVars, saves>>
      /\ pop' = [pop EXCEPT ![p].edit = e]
  BY DEF DropBack
<1>2. EditShaped(e) /\ ~e.saving
  BY EditFields, EditUpdates DEF DropBack
<1> HIDE DEF e
<1> QED
  BY <1>1, <1>2, EditStep, SavesUntouched DEF PopoverInv

LEMMA DropAtStep ==
  ASSUME PopoverInv, NEW p \in Popovers, DropAt(p)
  PROVE  PopoverInv'
<1>1. PICK d : pop' = [pop EXCEPT ![p].edit =
                         [[pop[p].edit EXCEPT !.draft = d] EXCEPT !.drag = None]]
  BY DEF DropAt, Moved
<1> DEFINE e == [[pop[p].edit EXCEPT !.draft = d] EXCEPT !.drag = None]
<1>2. pop[p].edit # None /\ UNCHANGED <<headerVars, placeVars, saves>>
      /\ pop' = [pop EXCEPT ![p].edit = e]
  BY <1>1 DEF DropAt
<1>3. EditShaped(e) /\ ~e.saving
  <2>1. EditShaped(pop[p].edit) /\ ~pop[p].edit.saving
    BY EditFields DEF DropAt
  <2> QED
    BY <2>1 DEF EditShaped
<1> HIDE DEF e
<1> QED
  BY <1>2, <1>3, EditStep, SavesUntouched DEF PopoverInv

LEMMA GrabStep ==
  ASSUME PopoverInv, NEW p \in Popovers, NEW a \in ActionSet, Grab(p, a)
  PROVE  PopoverInv'
<1>1. PICK g : pop' = [pop EXCEPT ![p].edit = [pop[p].edit EXCEPT !.grab = g]]
  BY DEF Grab
<1> DEFINE e == [pop[p].edit EXCEPT !.grab = g]
<1>2. pop[p].edit # None /\ ~pop[p].edit.saving /\ UNCHANGED <<headerVars, placeVars, saves>>
      /\ pop' = [pop EXCEPT ![p].edit = e]
  BY <1>1 DEF Grab, Editing
<1>3. EditShaped(e) /\ ~e.saving
  <2>1. EditShaped(pop[p].edit)
    BY <1>2, EditFields
  <2> QED
    BY <1>2, <2>1 DEF EditShaped
<1> HIDE DEF e
<1> QED
  BY <1>2, <1>3, EditStep, SavesUntouched DEF PopoverInv

LEMMA ArrowStep ==
  ASSUME PopoverInv, NEW p \in Popovers, NEW key \in Keys, Arrow(p, key)
  PROVE  PopoverInv'
<1>1. PICK d : pop' = [pop EXCEPT ![p].edit = [pop[p].edit EXCEPT !.draft = d]]
  BY DEF Arrow, Moved
<1> DEFINE e == [pop[p].edit EXCEPT !.draft = d]
<1>2. pop[p].edit # None /\ ~pop[p].edit.saving /\ UNCHANGED <<headerVars, placeVars, saves>>
      /\ pop' = [pop EXCEPT ![p].edit = e]
  BY <1>1 DEF Arrow, Editing
<1>3. EditShaped(e) /\ ~e.saving
  <2>1. EditShaped(pop[p].edit)
    BY <1>2, EditFields
  <2> QED
    BY <1>2, <2>1 DEF EditShaped
<1> HIDE DEF e
<1> QED
  BY <1>2, <1>3, EditStep, SavesUntouched DEF PopoverInv

LEMMA CancelEditStep ==
  ASSUME PopoverInv, NEW p \in Popovers, CancelEdit(p)
  PROVE  PopoverInv'
<1>1. Settles(pop[p], [pop[p] EXCEPT !.edit = None])
  BY EditEnds DEF PopoverInv, PopShape
<1> QED
  BY <1>1, OneSettles DEF CancelEdit

\* The long press is under the pointer, so that it may cancel a close.
LEMMA LongPressStep ==
  ASSUME PopoverInv, NEW p \in Popovers, LongPress(p)
  PROVE  PopoverInv'
<1>1. PICK a :
        pop' = [pop EXCEPT ![p] = [CancelClose(pop[p]) EXCEPT
                  !.armed = FALSE,
                  !.edit = [draft |-> model.layout, committed |-> model.layout,
                            drag |-> a, grab |-> None, saving |-> FALSE]]]
  BY DEF LongPress
<1> DEFINE e == [draft |-> model.layout, committed |-> model.layout,
                 drag |-> a, grab |-> None, saving |-> FALSE]
           c == CancelClose(pop[p])
           r == [c EXCEPT !.armed = FALSE, !.edit = e]
<1>2. EditShaped(e) /\ ~e.saving
  BY DEF EditShaped
<1> HIDE DEF e
<1>3. Good(c) /\ c.open = pop[p].open /\ c.pinned = pop[p].pinned /\ ~c.closing
  BY Cancelled DEF PopoverInv, PopShape
<1> HIDE DEF c
<1>4. Good(r) /\ r.open = c.open /\ r.pinned = c.pinned /\ ~r.closing /\ r.edit = e
  BY <1>2, <1>3 DEF Good, Shaped
<1>5. pop' = [pop EXCEPT ![p] = r]
  BY <1>1 DEF c, e
<1> HIDE DEF r
<1>6. OnPopovers(pop') /\ pop'[p] = r /\ \A q \in Popovers \ {p} : pop'[q] = pop[q]
  BY <1>5, Replaced DEF PopoverInv
<1>7. /\ UNCHANGED <<entry, stopped, detached, pointer, focus, saves>>
      /\ press = p /\ press' = 0 /\ pointer.of = p
  BY DEF LongPress, headerVars, PopoverInv, PlaceInv, Popovers, Inside
<1>8. PopShape'
  BY <1>4, <1>6 DEF PopoverInv, PopShape
<1>9. SavesShape' /\ StoppedInv' /\ PlaceInv' /\ \A j \in DOMAIN saves : Outlives(j)
  BY <1>7, SavesUntouched, PlacesUntouched DEF PopoverInv, StoppedInv
<1>10. Owned(p)' /\ Leaving(p)' /\ Saving(p)'
  <2>1. Held(p)'
    BY <1>7 DEF Held
  <2>2. Saving(p)'
    BY <1>2, <1>4, <1>6, NotSaving
  <2> QED
    BY <1>3, <1>4, <1>6, <1>7, <2>1, <2>2, OwnerStays, HeldStays DEF PopoverInv
<1>11. ASSUME NEW q \in Popovers \ {p}
       PROVE  Owned(q)' /\ Leaving(q)' /\ Saving(q)'
  <2>1. Still(pop[q], pop'[q]) /\ pop'[q].edit = pop[q].edit
    BY <1>6 DEF Still
  <2> QED
    BY <1>7, <1>9, <2>1, OwnerStays, StillLeaving, SavingStays DEF PopoverInv, Still
<1> QED
  BY <1>8, <1>9, <1>10, <1>11 DEF PopoverInv

LEMMA SaveLayoutStep ==
  ASSUME PopoverInv, NEW p \in Popovers, SaveLayout(p)
  PROVE  PopoverInv'
<1> DEFINE e == Frozen(pop[p].edit)
           x == [by |-> p, draft |-> pop[p].edit.draft, stage |-> "saving", gen |-> 0]
<1>1. pop[p].edit # None /\ UNCHANGED <<headerVars, placeVars>>
      /\ pop' = [pop EXCEPT ![p].edit = e] /\ saves' = Append(saves, x)
  BY DEF SaveLayout, Editing
<1>2. EditShaped(e) /\ e.drag = None /\ e.draft = pop[p].edit.draft
  BY <1>1, EditFields, EditUpdates
<1>3. SaveShaped(x) /\ x.by = p /\ x.draft = pop[p].edit.draft
  BY DEF SaveShaped
<1> HIDE DEF e, x
<1>4. SavesShape' /\ (\A j \in DOMAIN saves : Outlives(j))
      /\ \E k \in DOMAIN saves' : saves'[k] = x
  BY <1>1, <1>3, SaveJoins DEF PopoverInv
<1> QED
  BY <1>1, <1>2, <1>3, <1>4, EditStep

LEMMA ResetLayoutStep ==
  ASSUME PopoverInv, ResetLayout
  PROVE  PopoverInv'
<1> DEFINE x == [by |-> 0, draft |-> Normalized(<<>>), stage |-> "saving", gen |-> 0]
<1>1. saves' = Append(saves, x) /\ UNCHANGED <<headerVars, pop, placeVars>>
  BY DEF ResetLayout
<1>2. SaveShaped(x)
  BY DEF SaveShaped
<1> HIDE DEF x
<1>3. SavesShape' /\ \A j \in DOMAIN saves : Outlives(j)
  BY <1>1, <1>2, SaveJoins DEF PopoverInv
<1>4. PopShape' /\ \A q \in Popovers : Settles(pop[q], pop'[q])
  BY <1>1 DEF PopoverInv, PopShape, Settles
<1> QED
  BY <1>1, <1>3, <1>4, SettledStep DEF placeVars

LEMMA SaveLandsStep ==
  ASSUME PopoverInv, NEW i \in DOMAIN saves, SaveLands(i)
  PROVE  PopoverInv'
<1> DEFINE stored == [model EXCEPT !.layout = saves[i].draft]
           pops == [p \in Popovers |-> Notified(pop[p], stored, "plain")]
<1>1. UNCHANGED <<headerVars, placeVars>> /\ Publish(pops, Loading(stored))
      /\ saves' = [saves EXCEPT ![i].stage = "refreshing", ![i].gen = model.gen + 1]
  BY DEF SaveLands
<1>2. \A q \in Popovers : Settles(pop[q], pops[q])
  BY Notifies DEF PopoverInv, PopShape
<1> HIDE DEF pops
<1>3. PopShape' /\ \A q \in Popovers : Settles(pops[q], pop'[q])
  BY <1>1, <1>2, Publishes DEF Settles
<1>4. \A q \in Popovers : Settles(pop[q], pop'[q])
  BY <1>2, <1>3, SettlesTwice
<1>5. SavesShape' /\ \A j \in DOMAIN saves : Outlives(j)
  BY <1>1, SaveAdvances DEF PopoverInv
<1> QED
  BY <1>1, <1>3, <1>4, <1>5, SettledStep DEF placeVars

\* A save leaves the list with the edit it was for: the edits of the others
\* keep theirs.
LEMMA SaveReturnsStep ==
  ASSUME PopoverInv, NEW i \in DOMAIN saves, SaveReturns(i)
  PROVE  PopoverInv'
<1> DEFINE p == saves[i].by
           r == [pop[p] EXCEPT !.edit = None]
<1>1. UNCHANGED <<headerVars, placeVars>>
      /\ pop' = (IF p = 0 THEN pop ELSE [pop EXCEPT ![p].edit = None])
  BY DEF SaveReturns
<1>2. SavesShape' /\ \A j \in DOMAIN saves \ {i} : Outlives(j)
  BY SaveDrops DEF SaveReturns, PopoverInv
<1>3. p = 0 \/ p \in Popovers
  BY DEF PopoverInv, SavesShape, SaveShaped
<1>4. /\ PopShape' /\ \A q \in Popovers : Settles(pop[q], pop'[q])
      /\ \A q \in Popovers : q = p => pop'[q].edit = None
  <2>1. CASE p = 0
    <3>1. \A q \in Popovers : q # p
      BY <2>1 DEF Popovers
    <3> QED
      BY <1>1, <2>1, <3>1 DEF PopoverInv, PopShape, Settles
  <2>2. CASE p # 0
    <3>1. p \in Popovers /\ pop' = [pop EXCEPT ![p] = r]
      BY <1>1, <1>3, <2>2
    <3>2. Settles(pop[p], r) /\ r.edit = None
      BY <3>1, EditEnds DEF PopoverInv, PopShape, Good, Shaped
    <3> HIDE DEF r, p
    <3>3. OnPopovers(pop') /\ pop'[p] = r /\ \A q \in Popovers \ {p} : pop'[q] = pop[q]
      BY <3>1, Replaced DEF PopoverInv
    <3> QED
      BY <3>1, <3>2, <3>3 DEF PopoverInv, PopShape, Settles
  <2> QED
    BY <2>1, <2>2
<1>5. ASSUME NEW q \in Popovers
      PROVE  Saving(q)'
  <2>1. CASE q = p
    BY <1>4, <2>1, NotSaving
  <2>2. CASE q # p
    <3>1. \A j \in DOMAIN saves : saves[j].by = q => Outlives(j)
      BY <1>2, <2>2
    <3> QED
      BY <1>4, <3>1, SavingStays DEF PopoverInv, Settles
  <2> QED
    BY <2>1, <2>2
<1>6. \A q \in Popovers : Still(pop[q], pop'[q])
  BY <1>4, SettledIsStill
<1> QED
  BY <1>1, <1>2, <1>4, <1>5, <1>6, QuietStep DEF placeVars

LEMMA SaveFailsStep ==
  ASSUME PopoverInv, NEW i \in DOMAIN saves, SaveFails(i)
  PROVE  PopoverInv'
<1> DEFINE p == saves[i].by
           e == [pop[p].edit EXCEPT !.saving = FALSE, !.drag = None]
<1>1. UNCHANGED <<headerVars, placeVars>>
      /\ pop' = (IF p = 0 \/ pop[p].edit = None THEN pop
                 ELSE [pop EXCEPT ![p].edit.saving = FALSE, ![p].edit.drag = None])
  BY DEF SaveFails
<1>2. SavesShape' /\ \A j \in DOMAIN saves \ {i} : Outlives(j)
  BY SaveDrops DEF SaveFails, PopoverInv
<1>3. p = 0 \/ p \in Popovers
  BY DEF PopoverInv, SavesShape, SaveShaped
<1>4. CASE p = 0 \/ pop[p].edit = None
  <2>1. PopShape' /\ \A q \in Popovers : Still(pop[q], pop'[q])
    BY <1>1, <1>4 DEF PopoverInv, PopShape, Still
  <2>2. ASSUME NEW q \in Popovers
        PROVE  Saving(q)'
    <3>1. CASE q = p
      <4>1. pop'[q].edit = None
        BY <1>1, <1>4, <3>1 DEF Popovers
      <4> QED
        BY <4>1, NotSaving
    <3>2. CASE q # p
      <4>1. \A j \in DOMAIN saves : saves[j].by = q => Outlives(j)
        BY <1>2, <3>2
      <4>2. pop'[q].edit = pop[q].edit
        BY <1>1, <1>4
      <4> QED
        BY <4>1, <4>2, SavingStays DEF PopoverInv
    <3> QED
      BY <3>1, <3>2
  <2> QED
    BY <1>1, <1>2, <2>1, <2>2, QuietStep DEF placeVars
<1>5. CASE p # 0 /\ pop[p].edit # None
  <2>1. p \in Popovers
    BY <1>3, <1>5
  <2>2. EditShaped(e) /\ ~e.saving
    BY <1>5, <2>1, EditFields, EditUpdates
  <2>3. pop' = [pop EXCEPT ![p].edit = e]
    BY <1>1, <1>5, <2>1 DEF PopoverInv, PopShape, OnPopovers, Good, Shaped
  <2>4. \A j \in DOMAIN saves : saves[j].by # p => Outlives(j)
    BY <1>2
  <2> HIDE DEF e, p
  <2> QED
    BY <1>1, <1>2, <1>5, <2>1, <2>2, <2>3, <2>4, EditStep
<1> QED
  BY <1>4, <1>5

-----------------------------------------------------------------------------
(* The header manager.                                                     *)

\* Which elements are among those of some triggers and some popovers.
LEMMA AmongElements ==
  ASSUME NEW A, NEW B, NEW p
  PROVE  LET gone == {Trigger(x) : x \in A} \cup {Inside(x) : x \in B}
         IN  (Trigger(p) \in gone <=> p \in A) /\ (Inside(p) \in gone <=> p \in B)
  BY DEF Trigger, Inside

\* Headers that are removed take their popovers along, or hand the pinned ones
\* to the manager.
LEMMA HeadersGo ==
  ASSUME PopoverInv, NEW removed, NEW kept, NEW closed,
         \A p \in Popovers : /\ p \in kept <=> p \in removed /\ pop[p].pinned
                             /\ p \in closed <=> p \in removed /\ ~pop[p].pinned
                             /\ Connected(p) /\ p \notin removed => Connected(p)',
         ~stopped, stopped' = stopped, saves' = saves, detached' = detached \cup kept,
         pop' = [p \in Popovers |-> IF p \in closed THEN Closed ELSE pop[p]],
         PlacesWithout({Trigger(p) : p \in removed} \cup {Inside(p) : p \in closed})
  PROVE  PopoverInv'
<1> DEFINE gone == {Trigger(p) : p \in removed} \cup {Inside(p) : p \in closed}
<1>1. PlacesWithout(gone)
  OBVIOUS
<1>2. \A p \in Popovers : /\ Trigger(p) \in gone <=> p \in removed
                          /\ Inside(p) \in gone <=> p \in closed
  BY AmongElements
<1> HIDE DEF gone
<1>3. PopShape'
  BY ClosedFields DEF PopoverInv, PopShape, OnPopovers
<1>4. SavesShape' /\ StoppedInv' /\ \A j \in DOMAIN saves : Outlives(j)
  BY SavesUntouched DEF PopoverInv, StoppedInv
<1>5. PlaceInv'
  <2>1. \A p \in Popovers : Connected(p) /\ Trigger(p) \notin gone => Connected(p)'
    BY <1>2
  <2> QED
    BY <1>1, <2>1, PlacesLeft DEF PopoverInv
<1>6. ASSUME NEW q \in Popovers
      PROVE  Owned(q)' /\ Leaving(q)' /\ Saving(q)'
  <2>1. CASE q \in closed
    BY <2>1, Shut
  <2>2. CASE q \notin closed
    <3>1. pop'[q] = pop[q]
      BY <2>2
    <3>2. Owned(q)'
      BY <2>2, <3>1 DEF PopoverInv, Owned
    <3>3. Leaving(q)'
      <4>1. CASE pop[q].pinned
        BY <3>1, <4>1 DEF PopoverInv, Leaving, Held
      <4>2. CASE ~pop[q].pinned
        <5>1. Trigger(q) \notin gone /\ Inside(q) \notin gone
          BY <1>2, <2>2, <4>2
        <5>2. \A spot \in Spots : spot.of = q => spot \in {Trigger(q), Inside(q)}
          BY DEF Spots, Trigger, Inside, Nowhere, Popovers
        <5>3. (pointer.of = q => pointer'.of = q) /\ (focus.of = q => focus'.of = q)
          BY <1>1, <5>1, <5>2 DEF PlacesWithout, PopoverInv, PlaceInv, Stands
        <5> QED
          BY <3>1, <5>3, StillLeaving DEF PopoverInv, Still
      <4> QED
        BY <4>1, <4>2
    <3>4. Saving(q)'
      BY <1>4, <3>1, SavingStays DEF PopoverInv
    <3> QED
      BY <3>2, <3>3, <3>4
  <2> QED
    BY <2>1, <2>2
<1> QED
  BY <1>3, <1>4, <1>5, <1>6 DEF PopoverInv

LEMMA ShowFileStep ==
  ASSUME PopoverInv, NEW v \in Views, NEW f \in Files \cup {None}, ShowFile(v, f)
  PROVE  PopoverInv'
<1> DEFINE files == [file EXCEPT ![v] = f]
           stale == Stale(files)
           removed == {entry[w] : w \in stale}
           kept == Preserved(removed)
           closed == removed \ kept
<1>1. /\ ~stopped /\ stopped' = stopped /\ saves' = saves
      /\ detached' = detached \cup kept
      /\ pop' = [p \in Popovers |-> IF p \in closed THEN Closed ELSE pop[p]]
      /\ PlacesWithout({Trigger(p) : p \in removed} \cup {Inside(p) : p \in closed})
  BY DEF ShowFile, Synchronize
<1>2. \A w \in Views : entry[w] # 0 /\ w \notin stale => entry'[w] = entry[w]
  BY DEF ShowFile, Synchronize, Missing
<1> HIDE DEF stale
<1>3. \A w \in stale : entry[w] \in removed
  OBVIOUS
<1> HIDE DEF removed
<1>4. ASSUME NEW p \in Popovers
      PROVE  /\ p \in kept <=> p \in removed /\ pop[p].pinned
             /\ p \in closed <=> p \in removed /\ ~pop[p].pinned
             /\ Connected(p) /\ p \notin removed => Connected(p)'
  <2>1. p # 0
    BY DEF Popovers
  <2> QED
    BY <1>2, <1>3, <2>1 DEF Preserved, Connected
<1> HIDE DEF kept, closed
<1> QED
  BY <1>1, <1>4, HeadersGo

\* Unload closes whatever has an owner, which is whatever is open.
LEMMA StopStep ==
  ASSUME PopoverInv, Stop
  PROVE  PopoverInv'
<1> DEFINE gone == {Trigger(p) : p \in Popovers} \cup {Inside(p) : p \in Popovers}
<1>1. /\ stopped' = TRUE /\ saves' = saves /\ entry' = [v \in Views |-> 0]
      /\ pop' = [p \in Popovers |-> IF p \in StopOwned THEN Closed ELSE pop[p]]
      /\ PlacesWithout(gone)
  BY DEF Stop
<1>2. PopShape'
  BY <1>1, ClosedFields DEF PopoverInv, PopShape, OnPopovers
<1>3. SavesShape' /\ StoppedInv' /\ \A j \in DOMAIN saves : Outlives(j)
  BY <1>1, SavesUntouched DEF PopoverInv, StoppedInv
<1>4. PlaceInv'
  BY <1>1, PlacesLeft DEF PopoverInv
<1>5. ASSUME NEW q \in Popovers
      PROVE  Owned(q)' /\ Leaving(q)' /\ Saving(q)'
  <2>1. CASE q \in StopOwned
    BY <1>1, <2>1, Shut
  <2>2. CASE q \notin StopOwned
    <3>1. pop'[q] = pop[q] /\ ~Connected(q) /\ q \notin detached
      BY <1>1, <2>2 DEF StopOwned, Connected
    <3>2. ~pop[q].open
      BY <3>1 DEF PopoverInv, Owned
    <3> QED
      BY <1>3, <3>1, <3>2, SavingStays DEF PopoverInv, Owned, Leaving
  <2> QED
    BY <2>1, <2>2
<1> QED
  BY <1>2, <1>3, <1>4, <1>5 DEF PopoverInv

-----------------------------------------------------------------------------
(* The invariant and what it gives.                                        *)

LEMMA PopoverInit == Init => PopoverInv
<1> SUFFICES ASSUME Init PROVE PopoverInv
  OBVIOUS
<1>1. /\ pop = [p \in Popovers |-> Closed] /\ saves = <<>> /\ stopped = FALSE
      /\ pointer = Nowhere /\ focus = Nowhere /\ press = 0
  BY DEF Init
<1>2. PopShape
  BY <1>1, ClosedFields DEF PopShape, OnPopovers
<1>3. SavesShape
  BY <1>1 DEF SavesShape
<1>4. PlaceInv /\ StoppedInv
  BY <1>1 DEF PlaceInv, Stands, Spots, StoppedInv, Nowhere, Trigger
<1>5. \A q \in Popovers : Owned(q) /\ Leaving(q) /\ Saving(q)
  BY <1>1, ClosedFields DEF Owned, Leaving, Saving
<1> QED
  BY <1>2, <1>3, <1>4, <1>5 DEF PopoverInv

LEMMA PopoverNext == PopoverInv /\ [Next]_vars => PopoverInv'
<1> SUFFICES ASSUME PopoverInv, [Next]_vars PROVE PopoverInv'
  OBVIOUS
<1>1. ASSUME PointerSteps PROVE PopoverInv'
  BY <1>1, EnterTriggerStep, EnterPopoverStep, ToggleStep, ClickSliceStep,
     PointerLeavesStep, PressElsewhereStep DEF PointerSteps
<1>2. ASSUME KeyboardSteps PROVE PopoverInv'
  BY <1>2, FocusTriggerStep, FocusInsideStep, EscapeStep, LocateStep, FocusLeavesStep
  DEF KeyboardSteps
<1>3. ASSUME EditSteps PROVE PopoverInv'
  <2>1. ASSUME NEW p \in Popovers, LongPress(p) \/ PressControl(p) \/ SaveLayout(p) \/ CancelEdit(p)
        PROVE  PopoverInv'
    BY <2>1, LongPressStep, PressControlStep, SaveLayoutStep, CancelEditStep
  <2>2. ASSUME NEW p \in Popovers, NEW a \in ActionSet, StartDrag(p, a) \/ Grab(p, a)
        PROVE  PopoverInv'
    BY <2>2, StartDragStep, GrabStep
  <2>3. ASSUME NEW p \in Popovers, DropBack(p) \/ DropAt(p)
        PROVE  PopoverInv'
    BY <2>3, DropBackStep, DropAtStep
  <2>4. ASSUME NEW p \in Popovers, NEW key \in Keys, Arrow(p, key)
        PROVE  PopoverInv'
    BY <2>4, ArrowStep
  <2>5. ASSUME ReleaseControl PROVE PopoverInv'
    BY <2>5, NothingChanges DEF ReleaseControl
  <2>6. ASSUME NEW i \in DOMAIN saves, SaveLands(i) \/ SaveReturns(i) \/ SaveFails(i)
        PROVE  PopoverInv'
    BY <2>6, SaveLandsStep, SaveReturnsStep, SaveFailsStep
  <2> QED
    BY <1>3, <2>1, <2>2, <2>3, <2>4, <2>5, <2>6, ResetLayoutStep DEF EditSteps
<1>4. ASSUME HostSteps PROVE PopoverInv'
  <2>1. ASSUME NEW p \in Popovers, ExportPoster(p) \/ PosterFails(p)
        PROVE  PopoverInv'
    BY <2>1, NothingChanges DEF ExportPoster, PosterFails, placeVars
  <2> QED
    BY <1>4, <2>1, ShowFileStep, CloseTimerStep, LocateTimerStep, RestructureStep,
       PosterOpensStep, AnswerStep, RefreshStep, StopStep DEF HostSteps
<1>5. CASE UNCHANGED vars
  BY <1>5, NothingChanges DEF vars, placeVars
<1> QED
  BY <1>1, <1>2, <1>3, <1>4, <1>5 DEF Next

\* The invariant holds for every set of views and files, every layout and any
\* number of popovers, generations, moves and saves.
THEOREM PopoverInvariant == Spec => []PopoverInv
  BY PopoverInit, PopoverNext, PTL DEF Spec

\* Every open popover has an owner that will close it: a live header action or
\* the manager's pinned ones (header-action-manager.ts:39-41, 66-77).
THEOREM OpenPopoversAreOwned == Spec => []OpenIsOwned
<1>1. PopoverInv => OpenIsOwned
  BY DEF PopoverInv, Owned, OpenIsOwned
<1> QED
  BY <1>1, PopoverInvariant, PTL

\* A popover nobody holds is on its way out, unless the editor swallowed the
\* departure; a pinned or edited one has no timer.
THEOREM UnheldPopoversClose == Spec => []LeavingCloses
<1>1. PopoverInv => LeavingCloses
  BY DEF PopoverInv, Leaving, LeavingCloses
<1> QED
  BY <1>1, PopoverInvariant, PTL

\* What is shown while a layout is being saved is what is being saved.
THEOREM SavesShowTheDraft == Spec => []SavingShowsDraft
<1>1. PopoverInv => SavingShowsDraft
  BY DEF PopoverInv, Saving, OnItsWay, SavingShowsDraft
<1> QED
  BY <1>1, PopoverInvariant, PTL

-----------------------------------------------------------------------------
(* What is in the order of a strict total order.                           *)

\* The elements before x.
Earlier(S, R, x) == {f \in S : <<f, x>> \in R}

\* A finite set in a strict total order: an element for every rank, and one only.
LEMMA Ranks ==
  ASSUME NEW S, IsFiniteSet(S), NEW R,
         \A x \in S : <<x, x>> \notin R,
         \A x \in S, y \in S : x # y => <<x, y>> \in R \/ <<y, x>> \in R,
         \A x \in S, y \in S, z \in S : <<x, y>> \in R /\ <<y, z>> \in R => <<x, z>> \in R
  PROVE  /\ \A x \in S, y \in S :
                Cardinality(Earlier(S, R, x)) = Cardinality(Earlier(S, R, y)) => x = y
         /\ \A k \in 1 .. Cardinality(S) :
                \E e \in S : Cardinality(Earlier(S, R, e)) = k - 1
<1> DEFINE rank == [x \in S |-> Cardinality(Earlier(S, R, x))]
           n == Cardinality(S)
           images == {rank[x] : x \in S}
<1>1. n \in Nat
  BY FS_CardinalityType
<1>2. ASSUME NEW x \in S
      PROVE  /\ IsFiniteSet(Earlier(S, R, x))
             /\ rank[x] \in 0 .. n - 1
  <2>1. Earlier(S, R, x) \in SUBSET S /\ Earlier(S, R, x) # S
    BY DEF Earlier
  <2>2. /\ IsFiniteSet(Earlier(S, R, x))
        /\ Cardinality(Earlier(S, R, x)) <= Cardinality(S)
        /\ Cardinality(S) = Cardinality(Earlier(S, R, x)) => S = Earlier(S, R, x)
    BY <2>1, FS_Subset
  <2>3. Cardinality(Earlier(S, R, x)) \in Nat
    BY <2>2, FS_CardinalityType
  <2> QED
    BY <1>1, <2>1, <2>2, <2>3
<1>3. ASSUME NEW x \in S, NEW y \in S, <<x, y>> \in R
      PROVE  rank[x] < rank[y]
  <2>1. /\ Earlier(S, R, x) \subseteq Earlier(S, R, y)
        /\ Earlier(S, R, x) # Earlier(S, R, y)
    BY <1>3 DEF Earlier
  <2>2. IsFiniteSet(Earlier(S, R, y))
    BY <1>2
  <2>3. /\ Cardinality(Earlier(S, R, x)) <= Cardinality(Earlier(S, R, y))
        /\ Cardinality(Earlier(S, R, y)) = Cardinality(Earlier(S, R, x))
             => Earlier(S, R, y) = Earlier(S, R, x)
    BY <2>1, <2>2, FS_Subset
  <2> QED
    BY <1>2, <2>1, <2>3
<1> HIDE DEF n
<1>4. \A x \in S, y \in S : rank[x] = rank[y] => x = y
  <2> SUFFICES ASSUME NEW x \in S, NEW y \in S, rank[x] = rank[y], x # y PROVE FALSE
    OBVIOUS
  <2> HIDE DEF rank
  <2>1. rank[x] \in Nat /\ rank[y] \in Nat
    BY <1>1, <1>2
  <2>2. ~(rank[x] < rank[y]) /\ ~(rank[y] < rank[x])
    BY <2>1
  <2> QED
    BY <1>3, <2>2, Zenon
<1>5. \A k \in 0 .. n - 1 : \E e \in S : rank[e] = k
  <2> HIDE DEF rank
  <2>1. images \in SUBSET (0 .. n - 1)
    BY <1>2
  <2>2. IsFiniteSet(0 .. n - 1) /\ Cardinality(0 .. n - 1) = n
    BY <1>1, FS_Interval
  <2>3. IsFiniteSet(images) /\ Cardinality(images) = n
    <3>1. rank \in Surjection(S, images)
      <4>1. rank = [x \in S |-> rank[x]] 
        BY DEF rank
      <4> QED
        BY <4>1 DEF Surjection
    <3>2. rank \in Injection(S, images)
      BY <1>4, <3>1 DEF Injection, IsInjective, Surjection
    <3>3. rank \in Bijection(S, images)
      BY <3>1, <3>2 DEF Bijection
    <3> QED
      BY <3>3, FS_Bijection DEF n, ExistsBijection
  <2>4. images = 0 .. n - 1
    <3> HIDE DEF images
    <3> QED
      BY <2>1, <2>2, <2>3, FS_Subset
  <2> QED
    BY <2>4
<1> QED
  BY <1>1, <1>4, <1>5 DEF n

\* What has its rank as its place is a sequence of the set's elements, each once.
LEMMA PlacedByRank ==
  ASSUME NEW S, NEW n \in Nat, NEW t, t = [k \in 1 .. n |-> t[k]], NEW rank,
         \A k \in 1 .. n : t[k] \in S /\ rank[t[k]] = k - 1,
         \A x \in S : rank[x] \in 0 .. n - 1,
         \A x \in S, y \in S : rank[x] = rank[y] => x = y
  PROVE  t \in Seq(S) /\ IsInjective(t) /\ Range(t) = S
<1>1. DOMAIN t = 1 .. n /\ t \in Seq(S)
  BY IsASeq
<1>2. IsInjective(t)
  <2> SUFFICES ASSUME NEW i \in 1 .. n, NEW j \in 1 .. n, t[i] = t[j] PROVE i = j
    BY <1>1 DEF IsInjective
  <2>1. rank[t[i]] = i - 1 /\ rank[t[i]] = j - 1
    OBVIOUS
  <2> QED
    BY <2>1
<1>3. ASSUME NEW x \in S PROVE x \in Range(t)
  <2>1. rank[x] + 1 \in 1 .. n /\ rank[x] + 1 - 1 = rank[x]
    OBVIOUS
  <2>2. t[rank[x] + 1] \in S /\ rank[t[rank[x] + 1]] = rank[x]
    BY <2>1
  <2>3. t[rank[x] + 1] = x
    BY <2>2
  <2> QED
    BY <1>1, <2>1, <2>3 DEF Range
<1>4. Range(t) = S
  BY <1>1, <1>3 DEF Range
<1> QED
  BY <1>1, <1>2, <1>4

\* The set in its order is a sequence of its elements, each once.
LEMMA Lined ==
  ASSUME NEW S, IsFiniteSet(S), NEW R,
         \A x \in S : <<x, x>> \notin R,
         \A x \in S, y \in S : x # y => <<x, y>> \in R \/ <<y, x>> \in R,
         \A x \in S, y \in S, z \in S : <<x, y>> \in R /\ <<y, z>> \in R => <<x, z>> \in R,
         NEW t, t = [k \in 1 .. Cardinality(S) |-> t[k]],
         \A k \in 1 .. Cardinality(S) :
             (\E e \in S : Cardinality(Earlier(S, R, e)) = k - 1)
                => t[k] \in S /\ Cardinality(Earlier(S, R, t[k])) = k - 1
  PROVE  t \in Seq(S) /\ IsInjective(t) /\ Range(t) = S
<1> DEFINE n == Cardinality(S)
           rank == [x \in S |-> Cardinality(Earlier(S, R, x))]
<1>1. n \in Nat
  BY FS_CardinalityType
<1>2. /\ \A x \in S, y \in S : rank[x] = rank[y] => x = y
      /\ \A k \in 1 .. n : \E e \in S : Cardinality(Earlier(S, R, e)) = k - 1
  BY Ranks
<1>3. \A k \in 1 .. n : t[k] \in S /\ rank[t[k]] = k - 1
  BY <1>2
<1>4. ASSUME NEW x \in S PROVE rank[x] \in 0 .. n - 1
  <2>1. Earlier(S, R, x) \in SUBSET S /\ Earlier(S, R, x) # S
    BY DEF Earlier
  <2>2. /\ IsFiniteSet(Earlier(S, R, x))
        /\ Cardinality(Earlier(S, R, x)) <= Cardinality(S)
        /\ Cardinality(S) = Cardinality(Earlier(S, R, x)) => S = Earlier(S, R, x)
    BY <2>1, FS_Subset
  <2>3. Cardinality(Earlier(S, R, x)) \in Nat
    BY <2>2, FS_CardinalityType
  <2> QED
    BY <1>1, <2>1, <2>2, <2>3
<1>5. t = [k \in 1 .. n |-> t[k]]
  OBVIOUS
<1> HIDE DEF n, rank
<1>6. \A x \in S : rank[x] \in 0 .. n - 1
  BY <1>4
<1> QED
  BY <1>1, <1>2, <1>3, <1>5, <1>6, PlacedByRank

\* Filtering keeps the others, in their order.
LEMMA OthersOf ==
  ASSUME NEW S, NEW list \in Seq(S), IsInjective(list), NEW a
  PROVE  /\ Others(list, a) \in Seq(S)
         /\ IsInjective(Others(list, a))
         /\ Range(Others(list, a)) = Range(list) \ {a}
<1> DEFINE kept == {i \in DOMAIN list : list[i] # a}
           R == {r \in Nat \X Nat : r[1] < r[2]}
           places == InOrder(kept, <)
<1>1. /\ Len(list) \in Nat /\ DOMAIN list = 1 .. Len(list)
      /\ \A i \in DOMAIN list : list[i] \in S
  BY LenProperties
<1>2. kept \in SUBSET (1 .. Len(list)) /\ IsFiniteSet(kept)
  <2>1. IsFiniteSet(1 .. Len(list)) /\ kept \in SUBSET (1 .. Len(list))
    BY <1>1, FS_Interval
  <2> QED
    BY <2>1, FS_Subset
<1>3. places \in Seq(kept) /\ IsInjective(places) /\ Range(places) = kept
  <2>1. \A i \in kept, j \in kept : <<i, j>> \in R <=> i < j
    BY <1>1, <1>2
  <2>2. \A i \in kept : Earlier(kept, R, i) = {j \in kept : j < i}
    BY <2>1 DEF Earlier
  <2>3. /\ places = [k \in 1 .. Cardinality(kept) |-> places[k]]
        /\ \A k \in 1 .. Cardinality(kept) :
               (\E i \in kept : Cardinality(Earlier(kept, R, i)) = k - 1)
                  => /\ places[k] \in kept
                     /\ Cardinality(Earlier(kept, R, places[k])) = k - 1
    <3> DEFINE place(k) == CHOOSE i \in kept : Cardinality({j \in kept : j < i}) = k - 1
    <3>1. places = [k \in 1 .. Cardinality(kept) |-> place(k)]
      BY DEF InOrder
    <3> HIDE DEF kept, R, places
    <3>2. ASSUME NEW k \in 1 .. Cardinality(kept), NEW i \in kept,
                 Cardinality(Earlier(kept, R, i)) = k - 1
          PROVE  places[k] \in kept /\ Cardinality(Earlier(kept, R, places[k])) = k - 1
      <4>1. Cardinality({j \in kept : j < i}) = k - 1
        BY <2>2, <3>2
      <4>2. places[k] \in kept /\ Cardinality({j \in kept : j < places[k]}) = k - 1
        BY <3>1, <4>1
      <4> QED
        BY <2>2, <4>2
    <3>3. places = [k \in 1 .. Cardinality(kept) |-> places[k]]
      <4> HIDE DEF place
      <4> QED
        BY <3>1
    <3> QED
      BY <3>2, <3>3
  <2>4. /\ \A x \in kept : <<x, x>> \notin R
        /\ \A x \in kept, y \in kept : x # y => <<x, y>> \in R \/ <<y, x>> \in R
        /\ \A x \in kept, y \in kept, z \in kept :
               <<x, y>> \in R /\ <<y, z>> \in R => <<x, z>> \in R
    <3> HIDE DEF R
    <3>1. \A i \in kept : i \in Nat
      BY <1>1, <1>2
    <3> HIDE DEF kept
    <3> QED
      BY <2>1, <3>1
  <2> HIDE DEF kept, R, places
  <2> QED
    BY <1>2, <2>3, <2>4, Lined
<1>4. /\ Len(places) \in Nat /\ DOMAIN places = 1 .. Len(places)
      /\ \A k \in DOMAIN places : places[k] \in kept
  <2> HIDE DEF kept, places
  <2> QED
    BY <1>3, LenProperties
<1>5. Others(list, a) = [k \in 1 .. Len(places) |-> list[places[k]]]
  BY <1>4 DEF Others
<1> HIDE DEF places
<1>6. Others(list, a) \in Seq(S)
  BY <1>1, <1>4, <1>5, IsASeq
<1>7. IsInjective(Others(list, a))
  BY <1>3, <1>4, <1>5 DEF IsInjective
<1>8. Range(Others(list, a)) = Range(list) \ {a}
  BY <1>3, <1>4, <1>5 DEF Range
<1> QED
  BY <1>6, <1>7, <1>8
-----------------------------------------------------------------------------
(* Entries and the order of a side.                                        *)

\* A set of naturals has a least element.
LEMMA Least ==
  ASSUME NEW S, S \subseteq Nat, S # {}
  PROVE  \E i \in S : \A j \in S : i <= j
<1> DEFINE R == {r \in Nat \X Nat : r[1] < r[2]}
<1>1. IsWellFoundedOn(R, Nat)
  BY NatLessThanWellFounded DEF OpToRel
<1>2. PICK i \in S : \A j \in S : <<j, i>> \notin R
  <2> HIDE DEF R
  <2> QED
    BY <1>1, WFMin
<1>3. ASSUME NEW j \in S PROVE i <= j
  <2>1. i \in Nat /\ j \in Nat /\ (j < i => <<j, i>> \in R)
    OBVIOUS
  <2> QED
    BY <1>2, <2>1
<1> QED
  BY <1>3

LEMMA DefaultsType ==
  ASSUME NEW a \in ActionSet
  PROVE  DefaultSide(a) \in Sides /\ DefaultOrder(a) \in Nat
<1> DEFINE at == CHOOSE i \in DOMAIN Actions : Actions[i] = a
           earlier == {i \in 1 .. at - 1 : DefaultSide(Actions[i]) = DefaultSide(a)}
<1>1. at \in DOMAIN Actions
  BY DEF ActionSet
<1>2. Len(Actions) \in Nat /\ DOMAIN Actions = 1 .. Len(Actions)
  BY RegistryAssumption, LenProperties
<1> HIDE DEF at
<1>3. IsFiniteSet(1 .. at - 1) /\ earlier \in SUBSET (1 .. at - 1)
  <2>1. at - 1 \in Int
    BY <1>1, <1>2
  <2> QED
    BY <2>1, FS_Interval
<1>4. Cardinality(earlier) \in Nat
  <2> HIDE DEF earlier
  <2> QED
    BY <1>3, FS_Subset, FS_CardinalityType
<1> QED
  BY <1>4 DEF DefaultOrder, DefaultSide, Sides, at, earlier

\* Two controls of one default side have different default orders.
LEMMA DefaultsDiffer ==
  ASSUME NEW a \in ActionSet, NEW b \in ActionSet, a # b, DefaultSide(a) = DefaultSide(b)
  PROVE  DefaultOrder(a) # DefaultOrder(b)
<1> DEFINE at(x) == CHOOSE i \in DOMAIN Actions : Actions[i] = x
           earlier(x) == {i \in 1 .. at(x) - 1 : DefaultSide(Actions[i]) = DefaultSide(x)}
<1>1. Len(Actions) \in Nat /\ DOMAIN Actions = 1 .. Len(Actions)
  BY RegistryAssumption, LenProperties
<1>2. \A x \in ActionSet : at(x) \in 1 .. Len(Actions) /\ Actions[at(x)] = x
  BY <1>1 DEF ActionSet
<1>3. \A x \in ActionSet : DefaultOrder(x) = Cardinality(earlier(x))
  BY DEF DefaultOrder
<1> HIDE DEF at
<1>4. ASSUME NEW x \in ActionSet, NEW y \in ActionSet, DefaultSide(x) = DefaultSide(y),
             at(x) < at(y)
      PROVE  DefaultOrder(x) # DefaultOrder(y)
  <2>1. at(x) \in Nat /\ at(y) \in Nat /\ at(x) \in 1 .. at(y) - 1
    BY <1>1, <1>2, <1>4
  <2>2. IsFiniteSet(1 .. at(y) - 1) /\ earlier(y) \in SUBSET (1 .. at(y) - 1)
    BY <2>1, FS_Interval
  <2>3. earlier(x) \in SUBSET earlier(y) /\ at(x) \in earlier(y) /\ at(x) \notin earlier(x)
    BY <1>2, <1>4, <2>1
  <2>4. IsFiniteSet(earlier(y))
    <3> HIDE DEF earlier
    <3> QED
      BY <2>2, FS_Subset
  <2>5. earlier(x) # earlier(y) => Cardinality(earlier(x)) # Cardinality(earlier(y))
    <3> HIDE DEF earlier
    <3> QED
      BY <2>3, <2>4, FS_Subset
  <2> QED
    BY <1>3, <2>3, <2>5
<1>5. at(a) # at(b)
  BY <1>2
<1>6. at(a) \in Nat /\ at(b) \in Nat
  BY <1>1, <1>2
<1> QED
  BY <1>4, <1>5, <1>6

\* An entry, of the file or made up, is one of its control.
LEMMA EntryType ==
  ASSUME NEW items, Persisted(items), NEW a \in ActionSet
  PROVE  LET e == Entry(items, a)
         IN  /\ e.id = a /\ e.side \in Sides /\ e.on \in BOOLEAN
             /\ e.order \in Int /\ e.at \in Int
             /\ \/ /\ e.at + 1 \in DOMAIN items /\ items[e.at + 1].id = a
                   /\ e.at < Len(items)
                \/ /\ e.at = Len(items) + DefaultOrder(a) /\ e.at >= Len(items)
                   /\ e.side = DefaultSide(a)
<1> DEFINE found == {i \in DOMAIN items : items[i].id = a}
           first == CHOOSE j \in found : \A k \in found : j <= k
<1>1. DefaultSide(a) \in Sides /\ DefaultOrder(a) \in Nat
  BY DefaultsType
<1>2. CASE found = {}
  BY <1>1, <1>2 DEF Entry, Persisted
<1>3. CASE found # {}
  <2>1. found \subseteq Nat
    BY DEF Persisted
  <2>2. \E i \in found : \A j \in found : i <= j
    BY <1>3, <2>1, Least
  <2>3. first \in found
    BY <2>2
  <2>4. first \in 1 .. Len(items) /\ Len(items) \in Nat /\ items[first].id = a
        /\ items[first].order \in Int /\ items[first].on \in BOOLEAN
    BY <2>3 DEF Persisted
  <2>5. Entry(items, a) =
          [id |-> a,
           side |-> IF items[first].side \in Sides THEN items[first].side ELSE DefaultSide(a),
           order |-> IF items[first].order >= 0 THEN items[first].order ELSE DefaultOrder(a),
           on |-> items[first].on, at |-> first - 1]
    BY <1>3 DEF Entry
  <2> HIDE DEF first
  <2> QED
    BY <1>1, <2>3, <2>4, <2>5
<1> QED
  BY <1>2, <1>3

\* What an entry is sorted by.
LEMMA EntryKeys ==
  ASSUME NEW items, Persisted(items), NEW a \in ActionSet
  PROVE  LET e == Entry(items, a)
         IN  e.order \in Int /\ e.at \in Int /\ DefaultOrder(e.id) \in Int
  BY EntryType, DefaultsType

\* Of two controls on one side one comes before the other.
LEMMA EntriesComparable ==
  ASSUME NEW items, Persisted(items), NEW a \in ActionSet, NEW b \in ActionSet, a # b,
         Entry(items, a).side = Entry(items, b).side
  PROVE  Before(Entry(items, a), Entry(items, b)) \/ Before(Entry(items, b), Entry(items, a))
<1> DEFINE x == Entry(items, a)
           y == Entry(items, b)
<1>1. /\ x.side = y.side /\ x.order \in Int /\ y.order \in Int /\ x.at \in Int /\ y.at \in Int
      /\ Len(items) \in Nat
      /\ \/ x.at + 1 \in DOMAIN items /\ items[x.at + 1].id = a /\ x.at < Len(items)
         \/ x.at = Len(items) + DefaultOrder(a) /\ x.at >= Len(items) /\ x.side = DefaultSide(a)
      /\ \/ y.at + 1 \in DOMAIN items /\ items[y.at + 1].id = b /\ y.at < Len(items)
         \/ y.at = Len(items) + DefaultOrder(b) /\ y.at >= Len(items) /\ y.side = DefaultSide(b)
  BY EntryType DEF Persisted
<1>2. DefaultOrder(a) \in Nat /\ DefaultOrder(b) \in Nat
  BY DefaultsType
<1>3. DefaultSide(a) = DefaultSide(b) => DefaultOrder(a) # DefaultOrder(b)
  BY DefaultsDiffer
<1> HIDE DEF x, y
<1>4. x.at # y.at
  BY <1>1, <1>2, <1>3
<1>5. Before(x, y) \/ Before(y, x)
  BY <1>1, <1>4 DEF Before
<1> QED
  BY <1>5 DEF x, y

\* One list of the normalised layout.
LEMMA ListNormalized ==
  ASSUME NEW items, Persisted(items), NEW side, NEW on
  PROVE  LET ids == Canonical(items, side, on)
         IN  /\ ids \in Seq(ActionSet) /\ IsInjective(ids)
             /\ Range(ids) = {a \in ActionSet : /\ Entry(items, a).side = side
                                              /\ Entry(items, a).on = on}
<1> DEFINE all == {Entry(items, a) : a \in ActionSet}
           entries == {e \in all : e.side = side /\ e.on = on}
           R == {r \in entries \X entries : Before(r[1], r[2])}
           t == InOrder(entries, Before)
           ids == Ids(t)
<1>1. IsFiniteSet(entries)
  <2>1. IsFiniteSet(DOMAIN Actions)
    BY RegistryAssumption, LenProperties, FS_Interval
  <2>2. IsFiniteSet(all)
    <3> DEFINE f == [i \in DOMAIN Actions |-> Entry(items, Actions[i])]
    <3>1. f \in Surjection(DOMAIN Actions, all)
      BY DEF Surjection, ActionSet
    <3> HIDE DEF f, all
    <3> QED
      BY <2>1, <3>1, FS_Surjection
  <2>3. entries \in SUBSET all
    OBVIOUS
  <2> HIDE DEF entries, all
  <2> QED
    BY <2>2, <2>3, FS_Subset
<1>2. \A e \in entries : /\ e.id \in ActionSet /\ e = Entry(items, e.id)
                         /\ e.side = side /\ e.on = on
                         /\ e.order \in Int /\ e.at \in Int /\ DefaultOrder(e.id) \in Int
  <2> SUFFICES ASSUME NEW e \in entries
               PROVE  /\ e.id \in ActionSet /\ e = Entry(items, e.id)
                      /\ e.side = side /\ e.on = on
                      /\ e.order \in Int /\ e.at \in Int /\ DefaultOrder(e.id) \in Int
    OBVIOUS
  <2>1. PICK a \in ActionSet : e = Entry(items, a)
    OBVIOUS
  <2>2. e.id = a
    BY <2>1, EntryType
  <2> QED
    BY <2>1, <2>2, EntryKeys
<1>3. \A a \in ActionSet : /\ Entry(items, a).id = a
                           /\ Entry(items, a).side = side /\ Entry(items, a).on = on
                                 => Entry(items, a) \in entries
  BY EntryType
<1>4. \A x \in entries, y \in entries : <<x, y>> \in R <=> Before(x, y)
  OBVIOUS
<1> HIDE DEF entries, all, R
<1>5. \A x \in entries : <<x, x>> \notin R
  BY <1>2, <1>4 DEF Before
<1>6. ASSUME NEW x \in entries, NEW y \in entries, x # y
      PROVE  <<x, y>> \in R \/ <<y, x>> \in R
  <2>1. Before(x, y) \/ Before(y, x)
    <3>1. x.id # y.id /\ Entry(items, x.id).side = Entry(items, y.id).side
      BY <1>2, <1>6
    <3> QED
      BY <1>2, <3>1, EntriesComparable
  <2> QED
    BY <1>4, <2>1
<1>7. ASSUME NEW x \in entries, NEW y \in entries, NEW z \in entries,
             <<x, y>> \in R, <<y, z>> \in R
      PROVE  <<x, z>> \in R
  <2>1. Before(x, y) /\ Before(y, z)
    BY <1>4, <1>7
  <2>2. Before(x, z)
    BY <1>2, <2>1 DEF Before
  <2> QED
    BY <1>4, <2>2
<1>8. t \in Seq(entries) /\ IsInjective(t) /\ Range(t) = entries
  <2> DEFINE place(k) == CHOOSE e \in entries :
                           Cardinality({f \in entries : Before(f, e)}) = k - 1
  <2>1. \A e \in entries : Earlier(entries, R, e) = {f \in entries : Before(f, e)}
    BY <1>4 DEF Earlier
  <2>2. t = [k \in 1 .. Cardinality(entries) |-> place(k)]
    BY DEF InOrder
  <2>3. t = [k \in 1 .. Cardinality(entries) |-> t[k]]
    <3> HIDE DEF place, t
    <3> QED
      BY <2>2
  <2> HIDE DEF t
  <2>4. ASSUME NEW k \in 1 .. Cardinality(entries), NEW e \in entries,
               Cardinality(Earlier(entries, R, e)) = k - 1
        PROVE  t[k] \in entries /\ Cardinality(Earlier(entries, R, t[k])) = k - 1
    <3>1. Cardinality({f \in entries : Before(f, e)}) = k - 1
      BY <2>1, <2>4
    <3>2. t[k] \in entries /\ Cardinality({f \in entries : Before(f, t[k])}) = k - 1
      BY <2>2, <3>1
    <3> QED
      BY <2>1, <3>2
  <2> QED
    BY <1>1, <1>5, <1>6, <1>7, <2>3, <2>4, Lined
<1>9. /\ Len(t) \in Nat /\ DOMAIN t = 1 .. Len(t)
      /\ \A k \in DOMAIN t : t[k] \in entries
  <2> HIDE DEF t
  <2> QED
    BY <1>8, LenProperties
<1>10. ids = [k \in 1 .. Len(t) |-> t[k].id]
  BY <1>9 DEF Ids
<1> HIDE DEF t, ids
<1>11. ids \in Seq(ActionSet)
  BY <1>2, <1>9, <1>10, IsASeq
<1>12. IsInjective(ids)
  <2> SUFFICES ASSUME NEW j \in 1 .. Len(t), NEW k \in 1 .. Len(t), t[j].id = t[k].id
               PROVE  j = k
    BY <1>10 DEF IsInjective
  <2>1. t[j] = t[k]
    BY <1>2, <1>9
  <2> QED
    BY <1>8, <1>9, <2>1 DEF IsInjective
<1>13. Range(ids) = {a \in ActionSet : Entry(items, a).side = side /\ Entry(items, a).on = on}
  <2>1. ASSUME NEW k \in 1 .. Len(t)
        PROVE  /\ ids[k] \in ActionSet
               /\ Entry(items, ids[k]).side = side /\ Entry(items, ids[k]).on = on
    BY <1>2, <1>9, <1>10
  <2>2. ASSUME NEW a \in ActionSet, Entry(items, a).side = side, Entry(items, a).on = on
        PROVE  a \in Range(ids)
    <3>1. Entry(items, a) \in Range(t) /\ Entry(items, a).id = a
      BY <1>3, <1>8, <2>2
    <3>2. PICK k \in 1 .. Len(t) : t[k] = Entry(items, a)
      BY <1>9, <3>1 DEF Range
    <3> QED
      BY <1>10, <3>1, <3>2 DEF Range
  <2>3. DOMAIN ids = 1 .. Len(t)
    BY <1>10
  <2>4. \A a \in Range(ids) : \E k \in 1 .. Len(t) : ids[k] = a
    BY <2>3 DEF Range
  <2> QED
    BY <2>1, <2>2, <2>4
<1> QED
  BY <1>11, <1>12, <1>13 DEF Canonical, ids, t, entries, all

-----------------------------------------------------------------------------
(* A list gains a control.                                                 *)

LEMMA AppendedOnce ==
  ASSUME NEW S, NEW s \in Seq(S), IsInjective(s), NEW e \in S, e \notin Range(s)
  PROVE  LET t == Append(s, e)
         IN  t \in Seq(S) /\ IsInjective(t) /\ Range(t) = Range(s) \cup {e}
<1> DEFINE t == Append(s, e)
<1>1. /\ Len(s) \in Nat /\ DOMAIN s = 1 .. Len(s)
      /\ t \in Seq(S) /\ DOMAIN t = 1 .. Len(s) + 1
      /\ \A k \in 1 .. Len(s) : t[k] = s[k]
      /\ t[Len(s) + 1] = e
  BY AppendProperties, LenProperties
<1> HIDE DEF t
<1>2. IsInjective(t)
  BY <1>1 DEF IsInjective, Range
<1>3. Range(t) = Range(s) \cup {e}
  BY <1>1 DEF Range
<1> QED
  BY <1>1, <1>2, <1>3 DEF t

LEMMA InsertedOnce ==
  ASSUME NEW S, NEW s \in Seq(S), IsInjective(s), NEW e \in S, e \notin Range(s),
         NEW i \in 1 .. Len(s) + 1
  PROVE  LET t == InsertAt(s, i, e)
         IN  t \in Seq(S) /\ IsInjective(t) /\ Range(t) = Range(s) \cup {e}
<1> DEFINE head == SubSeq(s, 1, i - 1)
           tail == SubSeq(s, i, Len(s))
           both == head \o <<e>>
           t == both \o tail
           n == Len(s)
<1>1. n \in Nat /\ DOMAIN s = 1 .. n /\ \A j \in 1 .. n : s[j] \in S
  BY LenProperties
<1>2. head \in Seq(S) /\ Len(head) = i - 1 /\ \A j \in 1 .. i - 1 : head[j] = s[j]
  <2>1. 1 \in Int /\ i - 1 \in Int /\ \A j \in 1 .. i - 1 : s[j] \in S
    BY <1>1
  <2>2. /\ head \in Seq(S) /\ Len(head) = IF 1 <= i - 1 THEN i - 1 - 1 + 1 ELSE 0
        /\ \A j \in 1 .. i - 1 - 1 + 1 : head[j] = s[1 + j - 1]
    BY <2>1, SubSeqProperties
  <2> HIDE DEF head
  <2> QED
    BY <1>1, <2>2
<1>3. /\ tail \in Seq(S) /\ Len(tail) = n + 1 - i
      /\ \A j \in 1 .. n + 1 - i : tail[j] = s[i + j - 1]
  <2>1. i \in Int /\ n \in Int /\ \A j \in i .. n : s[j] \in S
    BY <1>1
  <2>2. /\ tail \in Seq(S) /\ Len(tail) = IF i <= n THEN n - i + 1 ELSE 0
        /\ \A j \in 1 .. n - i + 1 : tail[j] = s[i + j - 1]
    BY <2>1, SubSeqProperties
  <2> HIDE DEF tail, n
  <2> QED
    BY <1>1, <2>2
<1>4. <<e>> \in Seq(S) /\ Len(<<e>>) = 1 /\ <<e>>[1] = e
  OBVIOUS
<1> HIDE DEF head, tail
<1>5. /\ both \in Seq(S) /\ Len(both) = Len(head) + Len(<<e>>)
      /\ \A j \in 1 .. Len(head) + Len(<<e>>) :
             both[j] = IF j <= Len(head) THEN head[j] ELSE <<e>>[j - Len(head)]
  BY <1>2, <1>4, ConcatProperties
<1> HIDE DEF both
<1>6. /\ t \in Seq(S) /\ Len(t) = Len(both) + Len(tail)
      /\ \A j \in 1 .. Len(both) + Len(tail) :
             t[j] = IF j <= Len(both) THEN both[j] ELSE tail[j - Len(both)]
  <2>1. both \in Seq(S) /\ tail \in Seq(S)
    BY <1>3, <1>5
  <2> QED
    BY <2>1, ConcatProperties
<1> HIDE DEF t, n
<1>7. Len(both) = i /\ Len(t) = n + 1 /\ DOMAIN t = 1 .. n + 1
  <2>1. Len(both) = i /\ Len(t) = n + 1
    BY <1>1, <1>2, <1>3, <1>4, <1>5, <1>6
  <2> QED
    BY <1>6, <2>1, LenProperties
<1>8. /\ \A j \in 1 .. i - 1 : t[j] = s[j]
      /\ t[i] = e
      /\ \A j \in i .. n : t[j + 1] = s[j]
  <2>1. i \in 1 .. n + 1
    BY DEF n
  <2>2. ASSUME NEW j \in 1 .. i - 1 PROVE t[j] = s[j]
    <3>1. t[j] = both[j] /\ both[j] = head[j]
      BY <1>1, <1>2, <1>3, <1>4, <1>5, <1>6, <1>7, <2>1
    <3> QED
      BY <1>2, <3>1
  <2>3. t[i] = e
    <3>1. t[i] = both[i] /\ both[i] = <<e>>[1]
      BY <1>1, <1>2, <1>3, <1>4, <1>5, <1>6, <1>7, <2>1
    <3> QED
      BY <1>4, <3>1
  <2>4. ASSUME NEW j \in i .. n PROVE t[j + 1] = s[j]
    <3>1. /\ j + 1 \in 1 .. Len(both) + Len(tail) /\ ~(j + 1 <= Len(both))
          /\ j + 1 - Len(both) = j + 1 - i /\ j + 1 - i \in 1 .. n + 1 - i
          /\ i + (j + 1 - i) - 1 = j
      BY <1>1, <1>3, <1>7, <2>1
    <3>2. t[j + 1] = tail[j + 1 - i]
      <4>1. t[j + 1] = tail[j + 1 - Len(both)]
        BY <1>6, <3>1
      <4> QED
        BY <3>1, <4>1
    <3>3. tail[j + 1 - i] = s[i + (j + 1 - i) - 1]
      BY <1>3, <3>1
    <3> QED
      BY <3>1, <3>2, <3>3
  <2> QED
    BY <2>2, <2>3, <2>4
<1>9. \A k \in 1 .. n + 1 :
        \/ k = i /\ t[k] = e
        \/ k < i /\ k \in 1 .. n /\ t[k] = s[k]
        \/ k > i /\ k - 1 \in 1 .. n /\ t[k] = s[k - 1]
  <2> SUFFICES ASSUME NEW k \in 1 .. n + 1
               PROVE  \/ k = i /\ t[k] = e
                      \/ k < i /\ k \in 1 .. n /\ t[k] = s[k]
                      \/ k > i /\ k - 1 \in 1 .. n /\ t[k] = s[k - 1]
    OBVIOUS
  <2>1. i \in 1 .. n + 1
    BY DEF n
  <2>2. CASE k > i
    <3>1. k - 1 \in i .. n /\ k - 1 + 1 = k /\ k - 1 \in 1 .. n
      BY <1>1, <2>1, <2>2
    <3> QED
      BY <1>8, <2>2, <3>1
  <2>3. CASE k <= i
    BY <1>1, <1>8, <2>1, <2>3
  <2> QED
    BY <1>1, <2>1, <2>2, <2>3
<1>10. \A k \in 1 .. n : s[k] # e
  BY <1>1 DEF Range
<1>11. IsInjective(t)
  <2> SUFFICES ASSUME NEW k \in 1 .. n + 1, NEW l \in 1 .. n + 1, t[k] = t[l]
               PROVE  k = l
    BY <1>7 DEF IsInjective
  <2>1. \A x \in 1 .. n, y \in 1 .. n : s[x] = s[y] => x = y
    BY <1>1 DEF IsInjective
  <2> QED
    BY <1>1, <1>9, <1>10, <2>1
<1>12. Range(t) = Range(s) \cup {e}
  <2>1. ASSUME NEW x \in Range(t) PROVE x \in Range(s) \cup {e}
    <3>1. PICK k \in 1 .. n + 1 : t[k] = x
      BY <1>7 DEF Range
    <3> QED
      BY <1>1, <1>9, <3>1 DEF Range
  <2>2. ASSUME NEW j \in 1 .. n PROVE s[j] \in Range(t)
    <3>1. i \in 1 .. n + 1
      BY DEF n
    <3>2. CASE j < i
      BY <1>1, <1>7, <1>8, <3>1, <3>2 DEF Range
    <3>3. CASE j >= i
      <4>1. j \in i .. n /\ j + 1 \in 1 .. n + 1
        BY <1>1, <3>1, <3>3
      <4> QED
        BY <1>7, <1>8, <4>1 DEF Range
    <3> QED
      BY <1>1, <3>1, <3>2, <3>3
  <2>3. e \in Range(t)
    <3>1. i \in 1 .. n + 1
      BY DEF n
    <3> QED
      BY <1>7, <1>8, <3>1 DEF Range
  <2>4. \A x \in Range(s) : \E j \in 1 .. n : x = s[j]
    BY <1>1 DEF Range
  <2> QED
    BY <2>1, <2>2, <2>3, <2>4
<1>13. InsertAt(s, i, e) = t
  BY DEF InsertAt, t, both, head, tail
<1> QED
  BY <1>6, <1>11, <1>12, <1>13

-----------------------------------------------------------------------------
(* A layout loses and gains a control.                                     *)

\* Every layout has four lists of controls.
Layouts == [Sides -> [on : Seq(ActionSet), off : Seq(ActionSet)]]

\* One that has the controls of S.
Laid(layout, S) == layout \in Layouts /\ Keeps(layout, S)

LEMMA Listed ==
  ASSUME NEW layout \in Layouts, NEW r \in Areas
  PROVE  r[1] \in Sides /\ layout[r[1]][r[2]] \in Seq(ActionSet)
  BY DEF Layouts, Areas

\* Every list loses it.
LEMMA WithoutKeeps ==
  ASSUME NEW layout, NEW S, Laid(layout, S), NEW a
  PROVE  Laid(Without(layout, a), S \ {a})
<1> DEFINE rest == Without(layout, a)
<1>1. \A r \in Areas : /\ layout[r[1]][r[2]] \in Seq(ActionSet)
                       /\ IsInjective(layout[r[1]][r[2]])
  BY Listed DEF Laid, Keeps
<1>2. \A r \in Areas : rest[r[1]][r[2]] = Others(layout[r[1]][r[2]], a)
  BY DEF Without, Areas
<1>3. \A r \in Areas : /\ rest[r[1]][r[2]] \in Seq(ActionSet)
                       /\ IsInjective(rest[r[1]][r[2]])
                       /\ Range(rest[r[1]][r[2]]) = Range(layout[r[1]][r[2]]) \ {a}
  BY <1>1, <1>2, OthersOf
<1>4. rest \in Layouts
  <2>1. ASSUME NEW side \in Sides
        PROVE  /\ Others(layout[side].on, a) \in Seq(ActionSet)
               /\ Others(layout[side].off, a) \in Seq(ActionSet)
    <3>1. <<side, "on">> \in Areas /\ <<side, "off">> \in Areas
      BY DEF Areas
    <3>2. /\ layout[side].on \in Seq(ActionSet) /\ IsInjective(layout[side].on)
          /\ layout[side].off \in Seq(ActionSet) /\ IsInjective(layout[side].off)
      BY <1>1, <3>1
    <3> QED
      BY <3>2, OthersOf
  <2> QED
    BY <2>1 DEF Without, Layouts
<1> HIDE DEF rest
<1>5. \A r \in Areas, q \in Areas :
        r # q => Range(rest[r[1]][r[2]]) \cap Range(rest[q[1]][q[2]]) = {}
  BY <1>3 DEF Laid, Keeps
<1>6. UNION {Range(rest[r[1]][r[2]]) : r \in Areas} = S \ {a}
  <2>1. ASSUME NEW r \in Areas, NEW x \in Range(rest[r[1]][r[2]])
        PROVE  x \in S \ {a}
    <3>1. x \in Range(layout[r[1]][r[2]]) /\ x # a
      BY <1>3, <2>1
    <3> QED
      BY <3>1 DEF Laid, Keeps
  <2>2. ASSUME NEW x \in S \ {a}
        PROVE  \E r \in Areas : x \in Range(rest[r[1]][r[2]])
    <3>1. PICK r \in Areas : x \in Range(layout[r[1]][r[2]])
      BY <2>2 DEF Laid, Keeps
    <3> QED
      BY <1>3, <2>2, <3>1
  <2> QED
    BY <2>1, <2>2
<1> QED
  BY <1>3, <1>4, <1>5, <1>6 DEF Laid, Keeps, rest

\* One list gains it.
LEMMA GainKeeps ==
  ASSUME NEW layout, NEW S, Laid(layout, S), NEW a, a \notin S,
         NEW area \in Areas, NEW next \in Layouts,
         \A r \in Areas \ {area} : next[r[1]][r[2]] = layout[r[1]][r[2]],
         IsInjective(next[area[1]][area[2]]),
         Range(next[area[1]][area[2]]) = Range(layout[area[1]][area[2]]) \cup {a}
  PROVE  Laid(next, S \cup {a})
<1>1. \A r \in Areas : a \notin Range(layout[r[1]][r[2]])
  BY DEF Laid, Keeps
<1>2. \A r \in Areas, q \in Areas :
        r # q => Range(next[r[1]][r[2]]) \cap Range(next[q[1]][q[2]]) = {}
  BY <1>1 DEF Laid, Keeps
<1>3. UNION {Range(next[r[1]][r[2]]) : r \in Areas} = S \cup {a}
  <2>1. ASSUME NEW x \in UNION {Range(next[r[1]][r[2]]) : r \in Areas} PROVE x \in S \cup {a}
    BY DEF Laid, Keeps
  <2>2. ASSUME NEW x \in S PROVE x \in UNION {Range(next[r[1]][r[2]]) : r \in Areas}
    <3>1. PICK r \in Areas : x \in Range(layout[r[1]][r[2]])
      BY DEF Laid, Keeps
    <3>2. x \in Range(next[r[1]][r[2]])
      BY <3>1
    <3> QED
      BY <3>2
  <2>3. a \in UNION {Range(next[r[1]][r[2]]) : r \in Areas}
    OBVIOUS
  <2> QED
    BY <2>1, <2>2, <2>3
<1> QED
  BY <1>2, <1>3 DEF Laid, Keeps

\* Whatever was persisted, the normalised layout has every control.
LEMMA NormalizedLaid ==
  ASSUME NEW items, Persisted(items)
  PROVE  Laid(Normalized(items), ActionSet)
<1> DEFINE layout == Normalized(items)
           here(side, on) == {a \in ActionSet : /\ Entry(items, a).side = side
                                               /\ Entry(items, a).on = on}
<1>1. ASSUME NEW side \in Sides
      PROVE  /\ layout[side].on \in Seq(ActionSet) /\ IsInjective(layout[side].on)
             /\ Range(layout[side].on) = here(side, TRUE)
             /\ layout[side].off \in Seq(ActionSet) /\ IsInjective(layout[side].off)
             /\ Range(layout[side].off) = here(side, FALSE)
             /\ layout[side] \in [on : Seq(ActionSet), off : Seq(ActionSet)]
  <2>1. layout[side] = [on |-> Canonical(items, side, TRUE), off |-> Canonical(items, side, FALSE)]
    BY DEF Normalized
  <2>2. \A on \in BOOLEAN : /\ Canonical(items, side, on) \in Seq(ActionSet)
                            /\ IsInjective(Canonical(items, side, on))
                            /\ Range(Canonical(items, side, on)) = here(side, on)
    BY ListNormalized
  <2>3. TRUE \in BOOLEAN /\ FALSE \in BOOLEAN
    OBVIOUS
  <2> HIDE DEF layout, here
  <2>4. /\ Canonical(items, side, TRUE) \in Seq(ActionSet)
        /\ IsInjective(Canonical(items, side, TRUE))
        /\ Range(Canonical(items, side, TRUE)) = here(side, TRUE)
    BY <2>2, <2>3, Zenon
  <2>5. /\ Canonical(items, side, FALSE) \in Seq(ActionSet)
        /\ IsInjective(Canonical(items, side, FALSE))
        /\ Range(Canonical(items, side, FALSE)) = here(side, FALSE)
    BY <2>2, <2>3, Zenon
  <2> DEFINE shown == Canonical(items, side, TRUE)
             disabled == Canonical(items, side, FALSE)
  <2>6. layout[side] = [on |-> shown, off |-> disabled]
    BY <2>1
  <2>7. shown \in Seq(ActionSet) /\ disabled \in Seq(ActionSet)
    BY <2>4, <2>5
  <2> HIDE DEF shown, disabled
  <2>8. /\ layout[side].on = shown /\ layout[side].off = disabled
        /\ layout[side] \in [on : Seq(ActionSet), off : Seq(ActionSet)]
    BY <2>6, <2>7
  <2> QED
    BY <2>4, <2>5, <2>8, Zenon DEF shown, disabled
<1>2. layout \in Layouts
  BY <1>1 DEF Layouts, Normalized
<1> HIDE DEF layout
<1>3. \A r \in Areas : /\ IsInjective(layout[r[1]][r[2]])
                       /\ Range(layout[r[1]][r[2]]) = here(r[1], r[2] = "on")
  <2> HIDE DEF here
  <2>1. \A r \in Areas : r[1] \in Sides /\ (r[2] = "on" \/ r[2] = "off")
    BY DEF Areas
  <2>2. ASSUME NEW r \in Areas, r[2] = "on"
        PROVE  /\ IsInjective(layout[r[1]][r[2]])
               /\ Range(layout[r[1]][r[2]]) = here(r[1], r[2] = "on")
    <3>1. (r[2] = "on") = TRUE
      BY <2>2
    <3> QED
      BY <1>1, <2>1, <2>2, <3>1
  <2>3. ASSUME NEW r \in Areas, r[2] = "off"
        PROVE  /\ IsInjective(layout[r[1]][r[2]])
               /\ Range(layout[r[1]][r[2]]) = here(r[1], r[2] = "on")
    <3>1. (r[2] = "on") = FALSE
      BY <2>3
    <3> QED
      BY <1>1, <2>1, <2>3, <3>1
  <2> QED
    BY <2>1, <2>2, <2>3
<1>4. \A r \in Areas, q \in Areas : r # q =>
        Range(layout[r[1]][r[2]]) \cap Range(layout[q[1]][q[2]]) = {}
  <2> SUFFICES ASSUME NEW r \in Areas, NEW q \in Areas, r # q,
                      NEW a \in here(r[1], r[2] = "on"), a \in here(q[1], q[2] = "on")
               PROVE  FALSE
    BY <1>3
  <2>1. r[1] = q[1] /\ (r[2] = "on") = (q[2] = "on")
    OBVIOUS
  <2>2. r = <<r[1], r[2]>> /\ q = <<q[1], q[2]>>
        /\ r[2] \in {"on", "off"} /\ q[2] \in {"on", "off"}
    BY DEF Areas
  <2> QED
    BY <2>1, <2>2
<1>5. UNION {Range(layout[r[1]][r[2]]) : r \in Areas} = ActionSet
  <2>1. ASSUME NEW a \in ActionSet
        PROVE  \E r \in Areas : a \in Range(layout[r[1]][r[2]])
    <3>1. Entry(items, a).side \in Sides /\ Entry(items, a).on \in BOOLEAN
      BY EntryType
    <3> DEFINE r == <<Entry(items, a).side, IF Entry(items, a).on THEN "on" ELSE "off">>
    <3>2. r \in Areas /\ r[1] = Entry(items, a).side /\ (r[2] = "on") = Entry(items, a).on
      BY <3>1 DEF Areas
    <3> HIDE DEF r
    <3>3. a \in here(r[1], r[2] = "on")
      BY <3>2
    <3> QED
      BY <1>3, <3>2, <3>3
  <2>2. \A r \in Areas : Range(layout[r[1]][r[2]]) \subseteq ActionSet
    BY <1>3
  <2> QED
    BY <2>1, <2>2
<1> QED
  BY <1>2, <1>3, <1>4, <1>5 DEF Laid, Keeps, layout

\* A control of the layout is found on a side.
LEMMA SideFound ==
  ASSUME NEW layout, Laid(layout, ActionSet), NEW a \in ActionSet
  PROVE  /\ SideOf(layout, a) \in Sides
         /\ IsOn(layout, a) => a \in Range(layout[SideOf(layout, a)].on)
<1>1. PICK r \in Areas : a \in Range(layout[r[1]][r[2]])
  BY DEF Laid, Keeps
<1>2. PICK side \in Sides : a \in Range(layout[side].on) \/ a \in Range(layout[side].off)
  BY <1>1 DEF Areas
<1>3. \A s \in Sides : layout[s].on \in Seq(ActionSet) /\ layout[s].off \in Seq(ActionSet)
  BY DEF Laid, Layouts
<1>4. Contains(layout[side].on \o layout[side].off, a)
  <2> DEFINE on == layout[side].on
             off == layout[side].off
             both == on \o off
  <2>1. /\ Len(on) \in Nat /\ DOMAIN on = 1 .. Len(on)
        /\ Len(off) \in Nat /\ DOMAIN off = 1 .. Len(off)
    BY <1>3, LenProperties
  <2>2. /\ Len(both) = Len(on) + Len(off)
        /\ \A i \in 1 .. Len(on) + Len(off) :
               both[i] = IF i <= Len(on) THEN on[i] ELSE off[i - Len(on)]
    BY <1>3, ConcatProperties
  <2> HIDE DEF both
  <2>3. \E i \in 1 .. Len(both) : both[i] = a
    <3>1. CASE a \in Range(on)
      <4>1. PICK i \in 1 .. Len(on) : on[i] = a
        BY <2>1, <3>1 DEF Range
      <4> HIDE DEF on, off
      <4>2. i \in 1 .. Len(both) /\ i <= Len(on) /\ i \in 1 .. Len(on) + Len(off)
        BY <2>1, <2>2, <4>1
      <4> QED
        BY <2>2, <4>1, <4>2
    <3>2. CASE a \in Range(off)
      <4>1. PICK i \in 1 .. Len(off) : off[i] = a
        BY <2>1, <3>2 DEF Range
      <4> HIDE DEF on, off
      <4>2. /\ Len(on) + i \in 1 .. Len(both) /\ ~(Len(on) + i <= Len(on))
            /\ Len(on) + i - Len(on) = i /\ Len(on) + i \in 1 .. Len(on) + Len(off)
        BY <2>1, <2>2, <4>1
      <4>3. both[Len(on) + i] = off[Len(on) + i - Len(on)]
        BY <2>2, <4>2
      <4> QED
        BY <4>1, <4>2, <4>3
    <3> QED
      BY <1>2, <3>1, <3>2
  <2> QED
    BY <2>3 DEF Contains, both
<1>5. SideOf(layout, a) \in Sides
  BY <1>4 DEF SideOf
<1>6. IsOn(layout, a) => a \in Range(layout[SideOf(layout, a)].on)
  <2> SUFFICES ASSUME IsOn(layout, a) PROVE a \in Range(layout[SideOf(layout, a)].on)
    OBVIOUS
  <2>1. layout[SideOf(layout, a)].on \in Seq(ActionSet)
    BY <1>3, <1>5
  <2>2. DOMAIN layout[SideOf(layout, a)].on = 1 .. Len(layout[SideOf(layout, a)].on)
    BY <2>1, LenProperties
  <2> QED
    BY <2>2 DEF IsOn, Contains, Range
<1> QED
  BY <1>5, <1>6

\* A list of a layout is replaced.
LEMMA ShownReplaced ==
  ASSUME NEW layout, NEW side \in Sides, NEW next,
         next[side].off = layout[side].off, \A s \in Sides \ {side} : next[s] = layout[s]
  PROVE  \A r \in Areas \ {<<side, "on">>} : next[r[1]][r[2]] = layout[r[1]][r[2]]
<1> SUFFICES ASSUME NEW r \in Areas \ {<<side, "on">>}
             PROVE  next[r[1]][r[2]] = layout[r[1]][r[2]]
  OBVIOUS
<1>1. PICK s \in Sides, k \in {"on", "off"} : r = <<s, k>>
  BY DEF Areas
<1>2. s = side => k = "off"
  BY <1>1
<1> QED
  BY <1>1, <1>2

LEMMA HiddenReplaced ==
  ASSUME NEW layout, NEW side \in Sides, NEW next,
         next[side].on = layout[side].on, \A s \in Sides \ {side} : next[s] = layout[s]
  PROVE  \A r \in Areas \ {<<side, "off">>} : next[r[1]][r[2]] = layout[r[1]][r[2]]
<1> SUFFICES ASSUME NEW r \in Areas \ {<<side, "off">>}
             PROVE  next[r[1]][r[2]] = layout[r[1]][r[2]]
  OBVIOUS
<1>1. PICK s \in Sides, k \in {"on", "off"} : r = <<s, k>>
  BY DEF Areas
<1>2. s = side => k = "on"
  BY <1>1
<1> QED
  BY <1>1, <1>2

LEMMA PlacedLaid ==
  ASSUME NEW layout, Laid(layout, ActionSet), NEW a \in ActionSet,
         NEW dest, dest.side \in Sides, dest.index \in Nat
  PROVE  Laid(Placed(layout, a, dest), ActionSet)
<1> DEFINE rest == Without(layout, a)
           list == rest[dest.side].on
           len == Len(list)
           at == IF dest.index < len THEN dest.index ELSE len
           longer == InsertAt(list, at + 1, a)
           area == <<dest.side, "on">>
           next == [rest EXCEPT ![dest.side].on = longer]
<1>1. Laid(rest, ActionSet \ {a})
  BY WithoutKeeps
<1>2. area \in Areas /\ area[1] = dest.side /\ area[2] = "on" /\ area[2] \in {"on", "off"}
  BY DEF Areas
<1> HIDE DEF rest
<1>3. list \in Seq(ActionSet) /\ IsInjective(list) /\ a \notin Range(list)
  BY <1>1, <1>2, Listed DEF Laid, Keeps
<1>4. len \in Nat /\ at + 1 \in 1 .. len + 1
  <2>1. len \in Nat
    BY <1>3, LenProperties
  <2> HIDE DEF len
  <2> QED
    BY <2>1
<1>5. /\ longer \in Seq(ActionSet) /\ IsInjective(longer)
      /\ Range(longer) = Range(list) \cup {a}
  <2> HIDE DEF list, at
  <2> QED
    BY <1>3, <1>4, InsertedOnce DEF len
<1>6. next = Placed(layout, a, dest)
  BY DEF Placed, rest
<1> HIDE DEF longer
<1>7. /\ next \in Layouts /\ next[dest.side].on = longer
      /\ \A r \in Areas \ {area} : next[r[1]][r[2]] = rest[r[1]][r[2]]
  <2>1. rest \in Layouts /\ longer \in Seq(ActionSet) /\ dest.side \in Sides
    BY <1>1, <1>5 DEF Laid
  <2>2. next \in Layouts /\ next[dest.side].on = longer
    BY <2>1 DEF Layouts
  <2>3. /\ next[dest.side].off = rest[dest.side].off
        /\ \A s \in Sides \ {dest.side} : next[s] = rest[s]
    BY <2>1 DEF Layouts
  <2> HIDE DEF next
  <2> QED
    BY <2>2, <2>3, ShownReplaced
<1> HIDE DEF next
<1>8. /\ IsInjective(next[area[1]][area[2]])
      /\ Range(next[area[1]][area[2]]) = Range(rest[area[1]][area[2]]) \cup {a}
  BY <1>2, <1>5, <1>7
<1> HIDE DEF area
<1>9. Laid(next, (ActionSet \ {a}) \cup {a})
  BY <1>1, <1>2, <1>7, <1>8, GainKeeps
<1>10. (ActionSet \ {a}) \cup {a} = ActionSet
  OBVIOUS
<1> QED
  BY <1>6, <1>9, <1>10

LEMMA DisabledLaid ==
  ASSUME NEW layout, Laid(layout, ActionSet), NEW a \in ActionSet
  PROVE  Laid(Disabled(layout, a), ActionSet)
<1>1. CASE ~IsOn(layout, a)
  BY <1>1 DEF Disabled
<1>2. CASE IsOn(layout, a)
  <2> DEFINE side == SideOf(layout, a)
             rest == Without(layout, a)
             list == rest[side].off
             longer == Append(list, a)
             area == <<side, "off">>
             next == [rest EXCEPT ![side].off = longer]
  <2>1. Laid(rest, ActionSet \ {a}) /\ side \in Sides
    BY WithoutKeeps, SideFound
  <2>2. area \in Areas /\ area[1] = side /\ area[2] = "off" /\ area[2] \in {"on", "off"}
    BY <2>1 DEF Areas
  <2>3. next = Disabled(layout, a)
    BY <1>2 DEF Disabled
  <2> HIDE DEF rest, side
  <2>4. list \in Seq(ActionSet) /\ IsInjective(list) /\ a \notin Range(list)
    BY <2>1, <2>2, Listed DEF Laid, Keeps
  <2>5. /\ longer \in Seq(ActionSet) /\ IsInjective(longer)
        /\ Range(longer) = Range(list) \cup {a}
    BY <2>4, AppendedOnce
  <2> HIDE DEF longer
  <2>6. /\ next \in Layouts /\ next[side].off = longer
        /\ \A r \in Areas \ {area} : next[r[1]][r[2]] = rest[r[1]][r[2]]
    <3>1. rest \in Layouts /\ longer \in Seq(ActionSet) /\ side \in Sides
      BY <2>1, <2>5 DEF Laid
    <3>2. next \in Layouts /\ next[side].off = longer
      BY <3>1 DEF Layouts
    <3>3. /\ next[side].on = rest[side].on
          /\ \A s \in Sides \ {side} : next[s] = rest[s]
      BY <3>1 DEF Layouts
    <3> HIDE DEF next
    <3> QED
      BY <2>1, <3>2, <3>3, HiddenReplaced
  <2> HIDE DEF next
  <2>7. /\ IsInjective(next[area[1]][area[2]])
        /\ Range(next[area[1]][area[2]]) = Range(rest[area[1]][area[2]]) \cup {a}
    BY <2>2, <2>5, <2>6
  <2> HIDE DEF area
  <2>8. Laid(next, (ActionSet \ {a}) \cup {a})
    BY <2>1, <2>2, <2>6, <2>7, GainKeeps
  <2>9. (ActionSet \ {a}) \cup {a} = ActionSet
    OBVIOUS
  <2> QED
    BY <2>3, <2>8, <2>9
<1> QED
  BY <1>1, <1>2

\* A destination: the disabled area, or a place on a side.
Somewhere(dest) == dest.kind = "off" \/ (dest.side \in Sides /\ dest.index \in Nat)

\* A move, wherever it leads, keeps every control.
LEMMA MoveLaid ==
  ASSUME NEW layout, Laid(layout, ActionSet), NEW a \in ActionSet, NEW dest, Somewhere(dest)
  PROVE  Laid(Move(layout, a, dest), ActionSet)
  BY PlacedLaid, DisabledLaid DEF Move, Somewhere

\* Pointer and keys lead somewhere.
LEMMA DropsLead ==
  ASSUME NEW layout, Laid(layout, ActionSet), NEW dest \in Drops(layout)
  PROVE  Somewhere(dest)
<1> DEFINE places == 0 .. Len(layout["left"].on \o layout["right"].on)
<1>1. dest = Off \/ dest \in [kind : {"side"}, side : Sides, index : places]
  BY DEF Drops
<1>2. places \subseteq Nat
  <2>1. layout["left"].on \in Seq(ActionSet) /\ layout["right"].on \in Seq(ActionSet)
    BY DEF Laid, Layouts, Sides
  <2>2. Len(layout["left"].on \o layout["right"].on) \in Nat
    BY <2>1, ConcatProperties, LenProperties
  <2>3. PICK n \in Nat : n = Len(layout["left"].on \o layout["right"].on)
    BY <2>2
  <2>4. places = 0 .. n
    BY <2>3
  <2> HIDE DEF places
  <2> QED
    BY <2>4
<1> HIDE DEF places
<1> QED
  <2>1. ASSUME dest \in [kind : {"side"}, side : Sides, index : places]
        PROVE  Somewhere(dest)
    BY <1>2, <2>1 DEF Somewhere
  <2> QED
    BY <1>1, <2>1 DEF Somewhere, Off

LEMMA KeysLead ==
  ASSUME NEW layout, Laid(layout, ActionSet), NEW a \in ActionSet, NEW key \in Keys,
         NEW dest \in KeyMoves(layout, a, key)
  PROVE  Somewhere(dest)
<1> DEFINE side == SideOf(layout, a)
           end(s) == Len(layout[s].on)
           at == CHOOSE i \in 0 .. end(side) : IsOn(layout, a) => layout[side].on[i + 1] = a
<1>1. side \in Sides /\ (IsOn(layout, a) => a \in Range(layout[side].on))
  BY SideFound
<1>2. \A s \in Sides : end(s) \in Nat /\ DOMAIN layout[s].on = 1 .. end(s)
  <2>1. \A s \in Sides : layout[s].on \in Seq(ActionSet)
    BY DEF Laid, Layouts
  <2> QED
    BY <2>1, LenProperties
<1>3. at \in 0 .. end(side)
  <2>1. \E i \in 0 .. end(side) : IsOn(layout, a) => layout[side].on[i + 1] = a
    <3>1. CASE IsOn(layout, a)
      <4>1. PICK j \in 1 .. end(side) : layout[side].on[j] = a
        BY <1>1, <1>2, <3>1 DEF Range
      <4>2. end(side) \in Nat
        BY <1>1, <1>2
      <4> HIDE DEF side, end
      <4>3. j - 1 \in 0 .. end(side) /\ j - 1 + 1 = j
        BY <4>1, <4>2
      <4> QED
        BY <4>1, <4>3
    <3>2. CASE ~IsOn(layout, a)
      <4>1. end(side) \in Nat
        BY <1>1, <1>2
      <4> HIDE DEF side, end
      <4>2. 0 \in 0 .. end(side)
        BY <4>1
      <4> QED
        BY <3>2, <4>2
    <3> QED
      BY <3>1, <3>2
  <2> HIDE DEF side, end
  <2> QED
    BY <2>1
<1>4. /\ end(side) \in Nat /\ end("left") \in Nat /\ at \in Nat
      /\ key \in Sides => end(key) \in Nat
  BY <1>1, <1>2, <1>3 DEF Sides
<1>5. \/ dest = Off
      \/ dest = At(side, end(side))
      \/ key \in Sides /\ dest = At(key, end(key))
      \/ at > 0 /\ dest = At(side, at - 1)
      \/ dest = At("left", end("left"))
      \/ dest = At("left", 0)
      \/ dest = At("right", 0)
      \/ dest = At(side, at + 1)
  <2>1. CASE key = "down"
    BY <2>1 DEF KeyMoves
  <2>2. CASE key = "up"
    BY <2>2 DEF KeyMoves
  <2>3. CASE key \in Sides /\ ~IsOn(layout, a)
    BY <2>3 DEF KeyMoves, Sides
  <2>4. CASE key = "left" /\ IsOn(layout, a)
    BY <2>4 DEF KeyMoves
  <2>5. CASE key = "right" /\ IsOn(layout, a)
    BY <2>5 DEF KeyMoves
  <2> QED
    BY <2>1, <2>2, <2>3, <2>4, <2>5 DEF Keys, Sides
<1>6. \A s \in Sides, i \in Nat : Somewhere(At(s, i))
  BY DEF Somewhere, At
<1>7. Somewhere(Off) /\ "left" \in Sides /\ "right" \in Sides
  BY DEF Somewhere, Off, Sides
<1>8. at > 0 => at - 1 \in Nat
  BY <1>4
<1> HIDE DEF side, end, at
<1> QED
  BY <1>1, <1>4, <1>5, <1>6, <1>7, <1>8

-----------------------------------------------------------------------------
(* The layouts of a step.                                                  *)

ModelShaped(m) == m \in [gen : {m.gen}, load : {m.load}, layout : {m.layout}]

\* A layout under edit has every control, and what is dragged or grabbed is one.
Fit(edit) ==
    edit = None \/ /\ Laid(edit.draft, ActionSet)
                   /\ edit.drag \in ActionSet \cup {None}
                   /\ edit.grab \in ActionSet \cup {None}

LayoutInv ==
    /\ ModelShaped(model) /\ Laid(model.layout, ActionSet)
    /\ \A p \in Popovers : Fit(pop[p].edit)
    /\ \A i \in DOMAIN saves : Laid(saves[i].draft, ActionSet)

\* Edits go on or end, the stored layout stays, and no save begins.
EditsKept == \A q \in Popovers : pop'[q].edit \in {None, pop[q].edit}
LayoutStored == ModelShaped(model)' /\ model'.layout = model.layout
NoneJoins == \A k \in DOMAIN saves' : \E j \in DOMAIN saves : saves'[k].draft = saves[j].draft

LEMMA LayoutsStay ==
  ASSUME LayoutInv, EditsKept, LayoutStored, NoneJoins
  PROVE  LayoutInv'
<1>1. \A q \in Popovers : Fit(pop'[q].edit)
  BY DEF LayoutInv, EditsKept, Fit
<1> QED
  BY <1>1 DEF LayoutInv, LayoutStored, NoneJoins, Fit

LEMMA StoredStays ==
  ASSUME LayoutInv, UNCHANGED model
  PROVE  LayoutStored
  BY DEF LayoutInv, LayoutStored, ModelShaped

LEMMA NoneStarts ==
  ASSUME UNCHANGED saves
  PROVE  NoneJoins
  BY DEF NoneJoins

LEMMA LoadingKeeps ==
  ASSUME NEW m, ModelShaped(m)
  PROVE  ModelShaped(Loading(m)) /\ Loading(m).layout = m.layout
  BY DEF ModelShaped, Loading

\* A publication ends edits at most.
LEMMA PublishedEdits ==
  ASSUME NEW pops, NEW m, Publish(pops, m), ModelShaped(m), m.layout = model.layout,
         \A q \in Popovers : Good(pops[q]) /\ pops[q].edit \in {None, pop[q].edit}
  PROVE  EditsKept /\ LayoutStored
<1>1. \A q \in Popovers : Settles(pops[q], pop'[q])
  BY Publishes
<1>2. model' = m
  BY DEF Publish
<1> QED
  BY <1>1, <1>2 DEF EditsKept, LayoutStored, Settles, ModelShaped

LEMMA AskedEdits ==
  ASSUME LayoutInv, NEW pops, Publish(pops, Loading(model)),
         \A q \in Popovers : Good(pops[q]) /\ pops[q].edit \in {None, pop[q].edit}
  PROVE  EditsKept /\ LayoutStored
  BY LoadingKeeps, PublishedEdits DEF LayoutInv

LEMMA OneEdit ==
  ASSUME PopoverInv, NEW p \in Popovers, NEW r, pop' = [pop EXCEPT ![p] = r],
         r.edit \in {None, pop[p].edit}
  PROVE  EditsKept
<1>1. pop'[p] = r /\ \A q \in Popovers \ {p} : pop'[q] = pop[q]
  BY Replaced DEF PopoverInv
<1> QED
  BY <1>1 DEF EditsKept

LEMMA OneEditStep ==
  ASSUME PopoverInv, LayoutInv, NEW p \in Popovers, NEW r, pop' = [pop EXCEPT ![p] = r],
         r.edit \in {None, pop[p].edit}, UNCHANGED <<model, saves>>
  PROVE  LayoutInv'
  BY OneEdit, StoredStays, NoneStarts, LayoutsStay

LEMMA PressedEdits ==
  ASSUME PopoverInv, NEW p \in Popovers, NEW r, PressIn(p, r)
  PROVE  /\ pop'[p] = r
         /\ \A q \in Popovers \ {p} : pop'[q].edit \in {None, pop[q].edit}
<1>1. pop'[p] = r /\ \A q \in Popovers \ {p} : pop'[q] = PressOutside(pop, p)[q]
  <2> DEFINE others == PressOutside(pop, p)
  <2>1. OnPopovers(others) /\ pop' = [others EXCEPT ![p] = r]
    BY DEF PressOutside, OnPopovers, PressIn
  <2> HIDE DEF others
  <2>2. pop'[p] = r /\ \A q \in Popovers \ {p} : pop'[q] = others[q]
    BY <2>1 DEF OnPopovers
  <2> QED
    BY <2>2 DEF others
<1> QED
  BY <1>1, OutsideShuts, ClosedFields

LEMMA OpenedLayouts ==
  ASSUME PopoverInv, LayoutInv, NEW p \in Popovers, Opened(p), UNCHANGED saves
  PROVE  LayoutInv'
<1>1. EditsKept
  BY Opens DEF PopoverInv, EditsKept, Settles
<1>2. model' = model \/ model' = Loading(model)
  BY DEF Opened, Publish
<1>3. LayoutStored
  BY <1>2, LoadingKeeps, StoredStays DEF LayoutInv, LayoutStored
<1> QED
  BY <1>1, <1>3, NoneStarts, LayoutsStay

LEMMA ComesLayouts ==
  ASSUME PopoverInv, LayoutInv, NEW p \in Popovers,
         EnterTrigger(p) \/ FocusTrigger(p) \/ EnterPopover(p) \/ FocusInside(p)
  PROVE  LayoutInv'
<1>1. CASE EnterTrigger(p) \/ FocusTrigger(p)
  BY <1>1, OpenedLayouts DEF EnterTrigger, FocusTrigger
<1>2. CASE EnterPopover(p) \/ FocusInside(p)
  <2>1. pop' = [pop EXCEPT ![p] = CancelClose(pop[p])] /\ UNCHANGED <<model, saves>>
    BY <1>2 DEF EnterPopover, FocusInside
  <2>2. CancelClose(pop[p]).edit = pop[p].edit
    BY Cancelled DEF PopoverInv, PopShape
  <2> QED
    BY <2>1, <2>2, OneEditStep
<1> QED
  BY <1>1, <1>2

LEMMA LeavesLayouts ==
  ASSUME PopoverInv, LayoutInv, PointerLeaves \/ FocusLeaves
  PROVE  LayoutInv'
<1>1. PICK p \in Popovers : /\ pop' = [pop EXCEPT ![p] = ScheduleClose(pop[p])]
                            /\ UNCHANGED <<model, saves>>
  <2>1. CASE PointerLeaves
    BY <2>1, SpotOf DEF PointerLeaves, PopoverInv, PlaceInv, Stands
  <2>2. CASE FocusLeaves
    BY <2>2, SpotOf DEF FocusLeaves, PopoverInv, PlaceInv, Stands
  <2> QED
    BY <2>1, <2>2
<1>2. ScheduleClose(pop[p]).edit = pop[p].edit
  BY Scheduled DEF PopoverInv, PopShape
<1> QED
  BY <1>1, <1>2, OneEditStep

LEMMA TimersLayouts ==
  ASSUME PopoverInv, LayoutInv, NEW p \in Popovers,
         CloseTimer(p) \/ LocateTimer(p) \/ Restructure(p) \/ PosterOpens(p) \/ CancelEdit(p)
  PROVE  LayoutInv'
<1> USE DEF PopoverInv, PopShape
<1>1. CASE CloseTimer(p)
  <2>1. pop' = [pop EXCEPT ![p] = [pop[p] EXCEPT !.closing = FALSE]]
        \/ pop' = [pop EXCEPT ![p] = Closed]
    BY <1>1 DEF CloseTimer
  <2>2. [pop[p] EXCEPT !.closing = FALSE].edit = pop[p].edit /\ Closed.edit = None
    BY ClosedFields DEF Good, Shaped
  <2>3. UNCHANGED <<model, saves>>
    BY <1>1 DEF CloseTimer
  <2> QED
    BY <2>1, <2>2, <2>3, OneEditStep
<1>2. CASE LocateTimer(p)
  <2>1. Settles(pop[p], [pop[p] EXCEPT !.locating = FALSE])
    BY LocateFields
  <2> QED
    BY <1>2, <2>1, OneEditStep DEF LocateTimer, Settles
<1>3. CASE Restructure(p)
  <2>1. PICK result : pop' = [pop EXCEPT ![p] = Rendered(pop[p], model, result)]
    BY <1>3 DEF Restructure
  <2>2. Settles(pop[p], Rendered(pop[p], model, result))
    BY Renders
  <2> QED
    BY <1>3, <2>1, <2>2, OneEditStep DEF Restructure, Settles
<1>4. CASE PosterOpens(p)
  BY <1>4, ClosedFields, OneEditStep DEF PosterOpens
<1>5. CASE CancelEdit(p)
  <2>1. Settles(pop[p], [pop[p] EXCEPT !.edit = None])
    BY EditEnds
  <2> QED
    BY <1>5, <2>1, OneEditStep DEF CancelEdit, Settles
<1> QED
  BY <1>1, <1>2, <1>3, <1>4, <1>5

LEMMA ToggleLayouts ==
  ASSUME PopoverInv, LayoutInv, NEW p \in Popovers, Toggle(p)
  PROVE  LayoutInv'
<1> DEFINE others == PressOutside(pop, p)
           fresh == [Closed EXCEPT !.open = TRUE, !.pinned = TRUE]
           turned == IF pop[p].pinned THEN [CancelClose(pop[p]) EXCEPT !.pinned = FALSE]
                     ELSE Pin(pop[p])
           r == IF pop[p].open THEN turned ELSE fresh
           pops == [others EXCEPT ![p] = r]
<1>1. Good(r) /\ r.edit \in {None, pop[p].edit}
  <2>1. Good(fresh) /\ fresh.edit = None
    BY ClickedFields
  <2>2. Good(turned) /\ turned.edit = pop[p].edit
    BY Pinned DEF PopoverInv, PopShape, Pin
  <2> HIDE DEF fresh, turned
  <2> QED
    BY <2>1, <2>2
<1>2. \A q \in Popovers \ {p} : Good(others[q]) /\ others[q].edit \in {None, pop[q].edit}
  BY OutsideShuts, ClosedFields
<1>3. pops[p] = r /\ \A q \in Popovers \ {p} : pops[q] = others[q]
  <2>1. OnPopovers(others)
    BY DEF PressOutside, OnPopovers
  <2> HIDE DEF others, r
  <2> QED
    BY <2>1 DEF OnPopovers
<1>4. (pop' = pops /\ UNCHANGED model) \/ Publish(pops, Loading(model))
  BY DEF Toggle
<1>5. UNCHANGED saves
  BY DEF Toggle
<1> HIDE DEF pops, others, r
<1>6. \A q \in Popovers : Good(pops[q]) /\ pops[q].edit \in {None, pop[q].edit}
  BY <1>1, <1>2, <1>3
<1>7. CASE pop' = pops /\ UNCHANGED model
  BY <1>5, <1>6, <1>7, StoredStays, NoneStarts, LayoutsStay DEF EditsKept
<1>8. CASE Publish(pops, Loading(model))
  BY <1>5, <1>6, <1>8, AskedEdits, NoneStarts, LayoutsStay
<1> QED
  BY <1>4, <1>7, <1>8

LEMMA PressLayouts ==
  ASSUME PopoverInv, LayoutInv, NEW p \in Popovers, ClickSlice(p) \/ PressControl(p)
  PROVE  LayoutInv'
<1> USE DEF PopoverInv, PopShape
<1>1. PICK r : PressIn(p, r) /\ r.edit = pop[p].edit
  <2>1. CASE ClickSlice(p)
    <3> DEFINE pinned == [Pin(pop[p]) EXCEPT !.armed = FALSE]
               armed == [pop[p] EXCEPT !.armed = TRUE]
    <3>1. pinned.edit = pop[p].edit /\ armed.edit = pop[p].edit
      <4>1. Good(Pin(pop[p])) /\ Pin(pop[p]).edit = pop[p].edit
        BY Pinned DEF Pin
      <4> HIDE DEF Pin
      <4> QED
        BY <4>1 DEF Good, Shaped
    <3>2. PressIn(p, IF pop[p].armed THEN pinned ELSE armed)
      BY <2>1 DEF ClickSlice
    <3> HIDE DEF pinned, armed
    <3> QED
      BY <3>1, <3>2
  <2>2. CASE PressControl(p)
    BY <2>2 DEF PressControl
  <2> QED
    BY <2>1, <2>2
<1>2. EditsKept
  BY <1>1, PressedEdits DEF EditsKept
<1> QED
  BY <1>2, StoredStays, NoneStarts, LayoutsStay DEF ClickSlice, PressControl

LEMMA PressElsewhereLayouts ==
  ASSUME PopoverInv, LayoutInv, PressElsewhere
  PROVE  LayoutInv'
<1>1. \A q \in Popovers : q # 0
  BY DEF Popovers
<1>2. EditsKept
  BY <1>1, OutsideShuts, ClosedFields DEF EditsKept, PressElsewhere
<1> QED
  BY <1>2, StoredStays, NoneStarts, LayoutsStay DEF PressElsewhere

LEMMA EscapeLayouts ==
  ASSUME PopoverInv, LayoutInv, NEW p \in Popovers, Escape(p)
  PROVE  LayoutInv'
<1> USE DEF PopoverInv, PopShape
<1>1. CASE pop[p].edit # None
  <2>1. Settles(pop[p], [pop[p] EXCEPT !.edit = None])
    BY EditEnds
  <2> QED
    BY <1>1, <2>1, OneEditStep DEF Escape, Settles, placeVars
<1>2. CASE pop[p].edit = None /\ ~Connected(p)
  BY <1>2, ClosedFields, OneEditStep DEF Escape
<1>3. CASE pop[p].edit = None /\ Connected(p)
  <2> DEFINE fresh == [Closed EXCEPT !.open = TRUE]
             pops == [pop EXCEPT ![p] = fresh]
  <2>1. Publish(pops, Loading(model)) /\ UNCHANGED saves
    BY <1>3 DEF Escape
  <2>2. Good(fresh) /\ fresh.edit = None
    BY OpenedFields
  <2> HIDE DEF fresh
  <2>3. pops[p] = fresh /\ \A q \in Popovers \ {p} : pops[q] = pop[q]
    BY DEF OnPopovers
  <2> HIDE DEF pops
  <2>4. \A q \in Popovers : Good(pops[q]) /\ pops[q].edit \in {None, pop[q].edit}
    BY <2>2, <2>3
  <2> QED
    BY <2>1, <2>4, AskedEdits, NoneStarts, LayoutsStay
<1> QED
  BY <1>1, <1>2, <1>3

LEMMA LocateLayouts ==
  ASSUME PopoverInv, LayoutInv, NEW p \in Popovers, Locate(p)
  PROVE  LayoutInv'
<1> USE DEF PopoverInv, PopShape
<1> DEFINE lit == [pop[p] EXCEPT !.locating = TRUE, !.armed = FALSE]
           asked == [pop[p] EXCEPT !.pending = model.gen, !.locating = FALSE, !.armed = FALSE]
           pops == [pop EXCEPT ![p] = asked]
<1>1. Settles(pop[p], lit) /\ Settles(pop[p], asked)
  BY LocateFields
<1>2. (pop' = [pop EXCEPT ![p] = lit] /\ UNCHANGED model) \/ Publish(pops, Loading(model))
  BY DEF Locate
<1>3. UNCHANGED saves
  BY DEF Locate
<1> HIDE DEF lit, asked
<1>4. CASE pop' = [pop EXCEPT ![p] = lit] /\ UNCHANGED model
  BY <1>1, <1>3, <1>4, OneEditStep DEF Settles
<1>5. CASE Publish(pops, Loading(model))
  <2>1. \A q \in Popovers : Good(pops[q]) /\ pops[q].edit \in {None, pop[q].edit}
    BY <1>1 DEF OnPopovers, Settles
  <2> HIDE DEF pops
  <2> QED
    BY <1>3, <1>5, <2>1, AskedEdits, NoneStarts, LayoutsStay
<1> QED
  BY <1>2, <1>4, <1>5

LEMMA AnswerLayouts ==
  ASSUME PopoverInv, LayoutInv, Answer
  PROVE  LayoutInv'
<1>1. PICK load : Publish(pop, [model EXCEPT !.load = load])
  BY DEF Answer
<1> DEFINE m == [model EXCEPT !.load = load]
<1>2. ModelShaped(m) /\ m.layout = model.layout
  BY DEF LayoutInv, ModelShaped
<1>3. EditsKept /\ LayoutStored
  BY <1>1, <1>2, PublishedEdits DEF PopoverInv, PopShape
<1> QED
  BY <1>3, NoneStarts, LayoutsStay DEF Answer

LEMMA RefreshLayouts ==
  ASSUME PopoverInv, LayoutInv, Refresh
  PROVE  LayoutInv'
<1> DEFINE pops == [p \in Popovers |-> [pop[p] EXCEPT !.armed = FALSE]]
<1>1. \A q \in Popovers : Good(pops[q]) /\ pops[q].edit \in {None, pop[q].edit}
  BY ArmedFields DEF PopoverInv, PopShape, Settles
<1>2. Publish(pops, Loading(model)) /\ UNCHANGED saves
  BY DEF Refresh
<1> HIDE DEF pops
<1> QED
  BY <1>1, <1>2, AskedEdits, NoneStarts, LayoutsStay

LEMMA HeadersLayouts ==
  ASSUME LayoutInv, UNCHANGED <<model, saves>>,
         NEW gone, pop' = [p \in Popovers |-> IF p \in gone THEN Closed ELSE pop[p]]
  PROVE  LayoutInv'
<1>1. EditsKept
  BY ClosedFields DEF EditsKept
<1> QED
  BY <1>1, StoredStays, NoneStarts, LayoutsStay

-----------------------------------------------------------------------------
(* The layouts under edit.                                                 *)

\* The edit of one popover is another that fits.
LEMMA EditFits ==
  ASSUME LayoutInv, NEW p \in Popovers, UNCHANGED <<model, saves>>, Fit(pop'[p].edit),
         \A q \in Popovers \ {p} : pop'[q].edit \in {None, pop[q].edit}
  PROVE  LayoutInv'
<1>1. \A q \in Popovers : Fit(pop'[q].edit)
  BY DEF LayoutInv, Fit
<1> QED
  BY <1>1 DEF LayoutInv, ModelShaped, Fit

LEMMA EditSet ==
  ASSUME PopoverInv, NEW p \in Popovers, NEW e, pop' = [pop EXCEPT ![p].edit = e]
  PROVE  pop'[p].edit = e /\ \A q \in Popovers \ {p} : pop'[q] = pop[q]
<1> DEFINE r == [pop[p] EXCEPT !.edit = e]
<1>1. r.edit = e
  BY DEF PopoverInv, PopShape, Good, Shaped
<1>2. pop' = [pop EXCEPT ![p] = r]
  OBVIOUS
<1> HIDE DEF r
<1> QED
  BY <1>1, <1>2, Replaced DEF PopoverInv

\* What becomes of a fitting edit when it is dragged, grabbed, moved or frozen.
LEMMA FitUpdates ==
  ASSUME NEW e, EditShaped(e), e # None, Fit(e), NEW a \in ActionSet \cup {None}
  PROVE  /\ Fit([e EXCEPT !.drag = a])
         /\ Fit([e EXCEPT !.grab = a])
         /\ Fit([e EXCEPT !.saving = FALSE, !.drag = None])
         /\ Fit(Frozen(e))
         /\ \A d : Laid(d, ActionSet) => /\ Fit([e EXCEPT !.draft = d])
                                       /\ Fit([[e EXCEPT !.draft = d] EXCEPT !.drag = None])
<1>1. Laid(e.draft, ActionSet) /\ e.drag \in ActionSet \cup {None} /\ e.grab \in ActionSet \cup {None}
  BY DEF Fit
<1>2. \A x : x.draft = e.draft /\ x.drag \in {e.drag, a, None} /\ x.grab \in {e.grab, a} => Fit(x)
  BY <1>1 DEF Fit
<1>3. LET x == [e EXCEPT !.drag = a]
      IN  x.draft = e.draft /\ x.drag = a /\ x.grab = e.grab
  BY DEF EditShaped
<1>4. LET x == [e EXCEPT !.grab = a]
      IN  x.draft = e.draft /\ x.drag = e.drag /\ x.grab = a
  BY DEF EditShaped
<1>5. LET x == [e EXCEPT !.saving = FALSE, !.drag = None]
      IN  x.draft = e.draft /\ x.drag = None /\ x.grab = e.grab
  BY DEF EditShaped
<1>6. LET x == Frozen(e)
      IN  x.draft = e.draft /\ x.drag = None /\ x.grab = e.grab
  BY DEF EditShaped, Frozen
<1>7. ASSUME NEW d, Laid(d, ActionSet)
      PROVE  /\ Fit([e EXCEPT !.draft = d])
             /\ Fit([[e EXCEPT !.draft = d] EXCEPT !.drag = None])
  <2> DEFINE x == [e EXCEPT !.draft = d]
             y == [x EXCEPT !.drag = None]
  <2>1. /\ x.draft = d /\ x.drag = e.drag /\ x.grab = e.grab
        /\ y.draft = d /\ y.drag = None /\ y.grab = e.grab
    BY DEF EditShaped
  <2> HIDE DEF x, y
  <2>2. Fit(x) /\ Fit(y)
    BY <1>1, <1>7, <2>1 DEF Fit
  <2> QED
    BY <2>2 DEF x, y
<1> QED
  BY <1>2, <1>3, <1>4, <1>5, <1>6, <1>7

\* The edit of a popover that has one.
LEMMA EditAt ==
  ASSUME PopoverInv, LayoutInv, NEW p \in Popovers, pop[p].edit # None
  PROVE  /\ EditShaped(pop[p].edit) /\ Fit(pop[p].edit)
         /\ Laid(pop[p].edit.draft, ActionSet)
         /\ pop[p].edit.drag \in ActionSet \cup {None}
         /\ pop[p].edit.grab \in ActionSet \cup {None}
  BY EditFields DEF LayoutInv, Fit

LEMMA LongPressLayouts ==
  ASSUME PopoverInv, LayoutInv, NEW p \in Popovers, LongPress(p)
  PROVE  LayoutInv'
<1>1. PICK a \in ActionSet :
        pop' = [pop EXCEPT ![p] = [CancelClose(pop[p]) EXCEPT
                  !.armed = FALSE,
                  !.edit = [draft |-> model.layout, committed |-> model.layout,
                            drag |-> a, grab |-> None, saving |-> FALSE]]]
  BY DEF LongPress
<1> DEFINE e == [draft |-> model.layout, committed |-> model.layout,
                 drag |-> a, grab |-> None, saving |-> FALSE]
           c == CancelClose(pop[p])
           r == [c EXCEPT !.armed = FALSE, !.edit = e]
<1>2. Fit(e)
  BY DEF Fit, LayoutInv
<1> HIDE DEF e
<1>3. Good(c)
  BY Cancelled DEF PopoverInv, PopShape
<1> HIDE DEF c
<1>4. r.edit = e
  BY <1>3 DEF Good, Shaped
<1>5. pop' = [pop EXCEPT ![p] = r]
  BY <1>1 DEF c, e
<1> HIDE DEF r
<1>6. pop'[p] = r /\ \A q \in Popovers \ {p} : pop'[q] = pop[q]
  BY <1>5, Replaced DEF PopoverInv
<1> QED
  BY <1>2, <1>4, <1>6, EditFits DEF LongPress

LEMMA DragLayouts ==
  ASSUME PopoverInv, LayoutInv, NEW p \in Popovers, NEW a \in ActionSet,
         StartDrag(p, a) \/ DropBack(p) \/ Grab(p, a)
  PROVE  LayoutInv'
<1>1. pop[p].edit # None /\ UNCHANGED <<model, saves>>
  BY DEF StartDrag, DropBack, Grab, Editing
<1>2. \A x \in ActionSet \cup {None} : /\ Fit([pop[p].edit EXCEPT !.drag = x])
                                       /\ Fit([pop[p].edit EXCEPT !.grab = x])
  BY <1>1, EditAt, FitUpdates
<1>3. CASE StartDrag(p, a)
  <2> DEFINE e == [pop[p].edit EXCEPT !.drag = a]
             r == [pop[p] EXCEPT !.edit = e]
  <2>1. PressIn(p, r)
    BY <1>3 DEF StartDrag
  <2>2. Fit(e)
    BY <1>2
  <2> HIDE DEF e
  <2>3. r.edit = e
    BY DEF PopoverInv, PopShape, Good, Shaped
  <2> HIDE DEF r
  <2> QED
    BY <1>1, <2>1, <2>2, <2>3, PressedEdits, EditFits
<1>4. CASE DropBack(p)
  <2> DEFINE e == [pop[p].edit EXCEPT !.drag = None]
  <2>1. pop' = [pop EXCEPT ![p].edit = e] /\ Fit(e)
    BY <1>2, <1>4 DEF DropBack
  <2> HIDE DEF e
  <2> QED
    BY <1>1, <2>1, EditSet, EditFits
<1>5. CASE Grab(p, a)
  <2>1. PICK x \in ActionSet \cup {None} : pop' = [pop EXCEPT ![p].edit = [pop[p].edit EXCEPT !.grab = x]]
    BY <1>5 DEF Grab
  <2> DEFINE e == [pop[p].edit EXCEPT !.grab = x]
  <2>2. pop' = [pop EXCEPT ![p].edit = e] /\ Fit(e)
    BY <1>2, <2>1
  <2> HIDE DEF e
  <2> QED
    BY <1>1, <2>2, EditSet, EditFits
<1> QED
  BY <1>3, <1>4, <1>5

\* A drop or a key moves the control that is dragged or grabbed.
LEMMA MoveLayouts ==
  ASSUME PopoverInv, LayoutInv, NEW p \in Popovers, NEW key \in Keys, DropAt(p) \/ Arrow(p, key)
  PROVE  LayoutInv'
<1>1. pop[p].edit # None /\ UNCHANGED <<model, saves>>
  BY DEF DropAt, Arrow, Editing
<1> DEFINE old == pop[p].edit
<1>2. /\ EditShaped(old) /\ Fit(old) /\ Laid(old.draft, ActionSet)
      /\ old.drag \in ActionSet \cup {None} /\ old.grab \in ActionSet \cup {None}
  BY <1>1, EditAt
<1>3. ASSUME NEW a \in ActionSet, NEW dest, Somewhere(dest)
      PROVE  Fit(Moved(old, a, dest)) /\ Fit([Moved(old, a, dest) EXCEPT !.drag = None])
  <2>1. Laid(Move(old.draft, a, dest), ActionSet)
    BY <1>2, <1>3, MoveLaid
  <2>2. old # None /\ a \in ActionSet \cup {None}
    BY <1>1
  <2> HIDE DEF old
  <2> QED
    BY <1>2, <2>1, <2>2, FitUpdates DEF Moved
<1>4. \E e : pop' = [pop EXCEPT ![p].edit = e] /\ Fit(e)
  <2>1. CASE DropAt(p)
    <3>1. PICK dest \in Drops(old.draft) :
             pop' = [pop EXCEPT ![p].edit = [Moved(old, old.drag, dest) EXCEPT !.drag = None]]
      BY <2>1 DEF DropAt
    <3>2. old.drag \in ActionSet
      BY <1>2, <2>1 DEF DropAt
    <3> QED
      BY <1>2, <1>3, <3>1, <3>2, DropsLead
  <2>2. CASE Arrow(p, key)
    <3>1. PICK dest \in KeyMoves(old.draft, old.grab, key) :
             pop' = [pop EXCEPT ![p].edit = Moved(old, old.grab, dest)]
      BY <2>2 DEF Arrow
    <3>2. old.grab \in ActionSet
      BY <1>2, <2>2 DEF Arrow
    <3> QED
      BY <1>2, <1>3, <3>1, <3>2, KeysLead
  <2> QED
    BY <2>1, <2>2
<1>5. PICK e : pop' = [pop EXCEPT ![p].edit = e] /\ Fit(e)
  BY <1>4
<1> QED
  BY <1>1, <1>5, EditSet, EditFits

-----------------------------------------------------------------------------
(* The layouts being saved.                                                *)

\* A save joins with a draft that has every control.
LEMMA JoinedDrafts ==
  ASSUME SavesShape, LayoutInv, NEW x, Laid(x.draft, ActionSet), saves' = Append(saves, x)
  PROVE  \A k \in DOMAIN saves' : Laid(saves'[k].draft, ActionSet)
<1> DEFINE S == {saves[i] : i \in DOMAIN saves}
<1>1. saves \in Seq(S) /\ saves \in Seq(S \cup {x})
  BY Widened DEF SavesShape
<1> HIDE DEF S
<1>2. /\ DOMAIN saves' = 1 .. Len(saves) + 1
      /\ \A j \in 1 .. Len(saves) : saves'[j] = saves[j]
      /\ saves'[Len(saves) + 1] = x
      /\ DOMAIN saves = 1 .. Len(saves) /\ Len(saves) \in Nat
  BY <1>1, AppendProperties, LenProperties
<1>3. \A k \in DOMAIN saves' : k \in DOMAIN saves \/ k = Len(saves) + 1
  BY <1>2
<1> QED
  BY <1>2, <1>3 DEF LayoutInv

LEMMA SaveLayouts ==
  ASSUME PopoverInv, LayoutInv, NEW p \in Popovers, SaveLayout(p)
  PROVE  LayoutInv'
<1> DEFINE e == Frozen(pop[p].edit)
           x == [by |-> p, draft |-> pop[p].edit.draft, stage |-> "saving", gen |-> 0]
<1>1. pop[p].edit # None /\ UNCHANGED model
      /\ pop' = [pop EXCEPT ![p].edit = e] /\ saves' = Append(saves, x)
  BY DEF SaveLayout, Editing
<1>2. Fit(e) /\ Laid(x.draft, ActionSet)
  BY <1>1, EditAt, FitUpdates
<1> HIDE DEF e, x
<1>3. \A k \in DOMAIN saves' : Laid(saves'[k].draft, ActionSet)
  BY <1>1, <1>2, JoinedDrafts DEF PopoverInv
<1>4. \A q \in Popovers : Fit(pop'[q].edit)
  BY <1>1, <1>2, EditSet DEF LayoutInv
<1> QED
  BY <1>1, <1>3, <1>4 DEF LayoutInv, ModelShaped

LEMMA NoItems == Persisted(<<>>)
<1>1. DOMAIN <<>> = 1 .. 0 /\ Len(<<>>) = 0
  OBVIOUS
<1>2. 1 .. 0 = {}
  OBVIOUS
<1> QED
  BY <1>1, <1>2 DEF Persisted

LEMMA ResetLayouts ==
  ASSUME PopoverInv, LayoutInv, ResetLayout
  PROVE  LayoutInv'
<1> DEFINE x == [by |-> 0, draft |-> Normalized(<<>>), stage |-> "saving", gen |-> 0]
<1>1. saves' = Append(saves, x) /\ UNCHANGED <<pop, model>>
  BY DEF ResetLayout
<1>2. Laid(x.draft, ActionSet)
  BY NoItems, NormalizedLaid
<1> HIDE DEF x
<1>3. \A k \in DOMAIN saves' : Laid(saves'[k].draft, ActionSet)
  BY <1>1, <1>2, JoinedDrafts DEF PopoverInv
<1> QED
  BY <1>1, <1>3 DEF LayoutInv, ModelShaped, Fit

\* The draft that lands is stored.
LEMMA LandsLayouts ==
  ASSUME PopoverInv, LayoutInv, NEW i \in DOMAIN saves, SaveLands(i)
  PROVE  LayoutInv'
<1> DEFINE stored == [model EXCEPT !.layout = saves[i].draft]
           pops == [p \in Popovers |-> Notified(pop[p], stored, "plain")]
<1>1. /\ Publish(pops, Loading(stored))
      /\ saves' = [saves EXCEPT ![i].stage = "refreshing", ![i].gen = model.gen + 1]
  BY DEF SaveLands
<1>2. \A q \in Popovers : Settles(pop[q], pops[q])
  BY Notifies DEF PopoverInv, PopShape
<1>3. ModelShaped(stored) /\ stored.layout = saves[i].draft
  BY DEF LayoutInv, ModelShaped
<1> HIDE DEF pops, stored
<1>4. \A q \in Popovers : Settles(pops[q], pop'[q])
  BY <1>1, <1>2, Publishes DEF Settles
<1>5. \A q \in Popovers : Fit(pop'[q].edit)
  BY <1>2, <1>4 DEF LayoutInv, Fit, Settles
<1>6. ModelShaped(model)' /\ model'.layout = saves[i].draft
  BY <1>1, <1>3, LoadingKeeps DEF Publish, ModelShaped
<1>7. DOMAIN saves' = DOMAIN saves /\ \A k \in DOMAIN saves : saves'[k].draft = saves[k].draft
  BY <1>1 DEF PopoverInv, SavesShape, SaveShaped
<1> QED
  BY <1>5, <1>6, <1>7 DEF LayoutInv

LEMMA DroppedJoinsNone ==
  ASSUME SavesShape, NEW i \in DOMAIN saves, saves' = Dropped(i)
  PROVE  NoneJoins
<1> DEFINE S == {saves[k] : k \in DOMAIN saves}
<1>1. saves \in Seq(S)
  BY DEF SavesShape
<1> HIDE DEF S
<1>2. Len(saves) \in Nat /\ DOMAIN saves = 1 .. Len(saves) /\ i \in 1 .. Len(saves)
  BY <1>1, LenProperties
<1>3. /\ DOMAIN saves' = 1 .. Len(saves) - 1
      /\ \A j \in 1 .. i - 1 : saves'[j] = saves[j]
      /\ \A k \in i .. Len(saves) - 1 : saves'[k] = saves[k + 1]
  <2>1. /\ saves' \in Seq(S) /\ Len(saves') = Len(saves) - 1
        /\ \A j \in 1 .. i - 1 : saves'[j] = saves[j]
        /\ \A k \in i .. Len(saves) - 1 : saves'[k] = saves[k + 1]
    BY <1>1, <1>2, OneRemoved DEF Dropped
  <2> QED
    BY <2>1, LenProperties
<1>4. ASSUME NEW k \in DOMAIN saves'
      PROVE  \E j \in DOMAIN saves : saves'[k].draft = saves[j].draft
  <2>1. CASE k \in 1 .. i - 1
    BY <1>2, <1>3, <2>1
  <2>2. CASE k \in i .. Len(saves) - 1
    <3>1. k + 1 \in DOMAIN saves /\ saves'[k] = saves[k + 1]
      BY <1>2, <1>3, <2>2
    <3> QED
      BY <3>1
  <2> QED
    BY <1>2, <1>3, <2>1, <2>2
<1> QED
  BY <1>4 DEF NoneJoins

LEMMA EndsLayouts ==
  ASSUME PopoverInv, LayoutInv, NEW i \in DOMAIN saves, SaveReturns(i) \/ SaveFails(i)
  PROVE  LayoutInv'
<1> DEFINE p == saves[i].by
<1>1. saves' = Dropped(i) /\ UNCHANGED model
  BY DEF SaveReturns, SaveFails
<1>2. NoneJoins
  BY <1>1, DroppedJoinsNone DEF PopoverInv
<1>3. p = 0 \/ p \in Popovers
  BY DEF PopoverInv, SavesShape, SaveShaped
<1>4. \A q \in Popovers : Fit(pop'[q].edit)
  <2>1. CASE pop' = pop
    BY <2>1 DEF LayoutInv, Fit
  <2>2. CASE SaveReturns(i) /\ p \in Popovers
    <3>1. pop' = [pop EXCEPT ![p].edit = None]
      BY <2>2 DEF SaveReturns, Popovers
    <3>2. pop'[p].edit = None /\ \A q \in Popovers \ {p} : pop'[q] = pop[q]
      BY <2>2, <3>1, EditSet
    <3> QED
      BY <3>2 DEF LayoutInv, Fit
  <2>3. CASE SaveFails(i) /\ p \in Popovers /\ pop[p].edit # None
    <3> DEFINE e == [pop[p].edit EXCEPT !.saving = FALSE, !.drag = None]
    <3>1. pop' = [pop EXCEPT ![p].edit.saving = FALSE, ![p].edit.drag = None]
      BY <2>3 DEF SaveFails, Popovers
    <3>2. pop' = [pop EXCEPT ![p].edit = e]
      BY <2>3, <3>1 DEF PopoverInv, PopShape, OnPopovers, Good, Shaped
    <3>3. Fit(e)
      BY <2>3, EditAt, FitUpdates
    <3> HIDE DEF e, p
    <3>4. pop'[p].edit = e /\ \A q \in Popovers \ {p} : pop'[q] = pop[q]
      BY <2>3, <3>2, EditSet
    <3> QED
      BY <3>3, <3>4 DEF LayoutInv
  <2> QED
    BY <1>3, <2>1, <2>2, <2>3 DEF SaveReturns, SaveFails
<1> QED
  BY <1>1, <1>2, <1>4 DEF LayoutInv, NoneJoins, ModelShaped

-----------------------------------------------------------------------------
(* The layouts of every state.                                             *)

LEMMA LayoutInit == Init => LayoutInv
<1> SUFFICES ASSUME Init PROVE LayoutInv
  OBVIOUS
<1>1. PICK raw \in RawLayouts :
          model = [gen |-> 0, load |-> "loading", layout |-> Normalized(raw)]
  BY DEF Init
<1>2. Laid(Normalized(raw), ActionSet)
  BY PopoverAssumption, NormalizedLaid
<1>3. ModelShaped(model) /\ Laid(model.layout, ActionSet)
  BY <1>1, <1>2 DEF ModelShaped
<1>4. \A p \in Popovers : Fit(pop[p].edit)
  BY ClosedFields DEF Init, Fit
<1> QED
  BY <1>3, <1>4 DEF Init, LayoutInv

LEMMA LayoutUnmoved ==
  ASSUME LayoutInv, UNCHANGED <<pop, model, saves>>
  PROVE  LayoutInv'
  BY DEF LayoutInv, ModelShaped, Fit

LEMMA LayoutNext == PopoverInv /\ LayoutInv /\ [Next]_vars => LayoutInv'
<1> SUFFICES ASSUME PopoverInv, LayoutInv, [Next]_vars PROVE LayoutInv'
  OBVIOUS
<1>1. ASSUME PointerSteps PROVE LayoutInv'
  BY <1>1, ComesLayouts, ToggleLayouts, PressLayouts, LeavesLayouts, PressElsewhereLayouts
  DEF PointerSteps
<1>2. ASSUME KeyboardSteps PROVE LayoutInv'
  BY <1>2, ComesLayouts, EscapeLayouts, LocateLayouts, LeavesLayouts DEF KeyboardSteps
<1>3. ASSUME EditSteps PROVE LayoutInv'
  <2>1. ASSUME NEW p \in Popovers, LongPress(p) \/ PressControl(p) \/ SaveLayout(p) \/ CancelEdit(p)
        PROVE  LayoutInv'
    BY <2>1, LongPressLayouts, PressLayouts, SaveLayouts, TimersLayouts
  <2>2. ASSUME NEW p \in Popovers, NEW a \in ActionSet, StartDrag(p, a) \/ Grab(p, a)
        PROVE  LayoutInv'
    BY <2>2, DragLayouts
  <2>3. ASSUME NEW p \in Popovers, DropBack(p)
        PROVE  LayoutInv'
    <3>1. PICK a \in ActionSet : TRUE
      BY <2>3, EditAt DEF DropBack
    <3> QED
      BY <2>3, <3>1, DragLayouts
  <2>4. ASSUME NEW p \in Popovers, DropAt(p) \/ \E key \in Keys : Arrow(p, key)
        PROVE  LayoutInv'
    <3>1. "up" \in Keys
      BY DEF Keys
    <3> QED
      BY <2>4, <3>1, MoveLayouts
  <2>5. ASSUME ReleaseControl PROVE LayoutInv'
    BY <2>5, LayoutUnmoved DEF ReleaseControl
  <2>6. ASSUME NEW i \in DOMAIN saves, SaveLands(i) \/ SaveReturns(i) \/ SaveFails(i)
        PROVE  LayoutInv'
    BY <2>6, LandsLayouts, EndsLayouts
  <2> QED
    BY <1>3, <2>1, <2>2, <2>3, <2>4, <2>5, <2>6, ResetLayouts DEF EditSteps
<1>4. ASSUME HostSteps PROVE LayoutInv'
  <2>1. ASSUME NEW p \in Popovers, ExportPoster(p) \/ PosterFails(p)
        PROVE  LayoutInv'
    BY <2>1, LayoutUnmoved DEF ExportPoster, PosterFails
  <2>2. ASSUME NEW v \in Views, NEW f \in Files \cup {None}, ShowFile(v, f)
        PROVE  LayoutInv'
    <3>1. \E gone : pop' = [p \in Popovers |-> IF p \in gone THEN Closed ELSE pop[p]]
      BY <2>2 DEF ShowFile, Synchronize
    <3> QED
      BY <2>2, <3>1, HeadersLayouts DEF ShowFile
  <2>3. ASSUME Stop PROVE LayoutInv'
    BY <2>3, HeadersLayouts DEF Stop
  <2> QED
    BY <1>4, <2>1, <2>2, <2>3, TimersLayouts, AnswerLayouts, RefreshLayouts DEF HostSteps
<1>5. CASE UNCHANGED vars
  BY <1>5, LayoutUnmoved DEF vars
<1> QED
  BY <1>1, <1>2, <1>3, <1>4, <1>5 DEF Next

THEOREM LayoutInvariant == Spec => [](PopoverInv /\ LayoutInv)
  BY PopoverInit, LayoutInit, PopoverNext, LayoutNext, PTL DEF Spec

\* Every layout stored, drafted or on its way to the settings keeps each control
\* exactly once (domain/header-popover-action-layout.ts:177-243).
THEOREM ControlsStay == Spec => []ControlsKept
<1>1. LayoutInv => ControlsKept
  BY DEF LayoutInv, Fit, Laid, Whole, ControlsKept
<1> QED
  BY <1>1, LayoutInvariant, PTL

=============================================================================
