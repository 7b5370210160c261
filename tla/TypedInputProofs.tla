-------------------------- MODULE TypedInputProofs --------------------------
(***************************************************************************)
(* For any leaves, files, characters and number of compositions: typed     *)
(* characters are counted once, none is left out, and the credit stays in  *)
(* the leaf they were typed in.                                            *)
(***************************************************************************)
EXTENDS TypedInput, TLAPS

Frames == [left : 1 .. 2, generation : Nat]

\* No value of the model is None.
LEMMA NotNone ==
  /\ \A n \in Nat : n # None
  /\ \A p \in PendingComposition : p # None
  /\ \A f \in Files : f # None
BY TypedAssumption

-----------------------------------------------------------------------------
\* The tracker's operations.

LEMMA FallbackType ==
  ASSUME NEW t \in Trackers
  PROVE  /\ Fallback(t) \in Nat
         /\ t.pending = None => Fallback(t) = 0
         /\ t.pending # None => Fallback(t) = t.pending.fallback
BY NotNone DEF Trackers, PendingComposition, Fallback

\* A record of the right fields is a tracker.
LEMMA TrackerRecord ==
  ASSUME NEW g \in Nat, NEW c \in BOOLEAN, NEW n \in Nat,
         NEW p \in PendingComposition \union {None}
  PROVE  [generation |-> g, composing |-> c, provisional |-> n, pending |-> p] \in Trackers
BY DEF Trackers

LEMMA BeginResult ==
  ASSUME NEW t \in Trackers
  PROVE  /\ BeginComposition(t).tracker \in Trackers
         /\ BeginComposition(t).tracker.composing = TRUE
         /\ BeginComposition(t).tracker.pending = None
         /\ BeginComposition(t).tracker.provisional = 0
         /\ BeginComposition(t).count = Fallback(t)
<1>1. t.generation + 1 \in Nat
  BY DEF Trackers
<1>2. BeginComposition(t).tracker \in Trackers
  BY <1>1, TrackerRecord DEF BeginComposition, Trackers
<1> QED  BY <1>2 DEF Trackers, BeginComposition

LEMMA EndResult ==
  ASSUME NEW t \in Trackers, NEW chars \in Nat, NEW trusted \in BOOLEAN
  PROVE  LET ended == EndComposition(t, chars, trusted) IN
         /\ ended \in Trackers
         /\ ended.composing = FALSE /\ ended.pending # None
         /\ ended.pending.generation = ended.generation
         /\ Fallback(ended) = IF trusted THEN chars ELSE t.provisional
<1> DEFINE p == [generation |-> t.generation + 1,
                 fallback |-> IF trusted THEN chars ELSE t.provisional]
           ended == [t EXCEPT !.generation = @ + 1, !.composing = FALSE, !.provisional = 0,
                              !.pending = p]
<1>1. p \in PendingComposition /\ p # None
  BY NotNone DEF Trackers, PendingComposition
<1>2. EndComposition(t, chars, trusted) = ended
  BY DEF EndComposition
<1>3. p.generation = t.generation + 1 /\ p.fallback = IF trusted THEN chars ELSE t.provisional
  OBVIOUS
<1> HIDE DEF p
<1>4. /\ ended \in Trackers /\ ended.composing = FALSE /\ ended.pending = p
      /\ ended.generation = t.generation + 1
  <2>1. t.generation + 1 \in Nat
    BY DEF Trackers
  <2>2. ended \in Trackers
    BY <1>1, <2>1, TrackerRecord DEF Trackers
  <2> QED  BY <2>2 DEF Trackers
<1> QED  BY <1>1, <1>2, <1>3, <1>4 DEF Fallback

LEMMA ObserveResult ==
  ASSUME NEW t \in Trackers, NEW chars \in Nat, NEW composition \in BOOLEAN
  PROVE  LET result == ObserveTransaction(t, chars, composition) IN
         /\ result.tracker \in Trackers
         /\ result.tracker.composing = t.composing
         /\ result.tracker.pending = None
         /\ t.pending # None \/ ~composition => result.count = chars
         /\ t.pending = None /\ composition => result.count = 0
         /\ t.pending = None /\ composition /\ t.composing => result.tracker.provisional = chars
BY DEF Trackers, ObserveTransaction

LEMMA FinalizeResult ==
  ASSUME NEW t \in Trackers, NEW generation \in Nat
  PROVE  LET result == Finalize(t, generation) IN
         /\ result.tracker \in Trackers
         /\ result.tracker.composing = t.composing
         /\ \/ result.tracker = t /\ result.count = 0
            \/ result.tracker.pending = None /\ result.count = Fallback(t)
BY DEF Trackers, Finalize

LEMMA CancelResult ==
  ASSUME NEW t \in Trackers
  PROVE  /\ Cancel(t) \in Trackers
         /\ Cancel(t).composing = FALSE /\ Cancel(t).pending = None
<1>1. t.generation + 1 \in Nat
  BY DEF Trackers
<1>2. Cancel(t) \in Trackers
  BY <1>1, TrackerRecord DEF Cancel, NoTracker, Trackers
<1> QED  BY <1>2 DEF Trackers, Cancel, NoTracker

-----------------------------------------------------------------------------
\* A step of one editor.

Elsewhere(leaf) == \A l \in Leaves \ {leaf} :
  tracker'[l] = tracker[l] /\ text'[l] = text[l] /\ trailing'[l] = trailing[l] /\ owed'[l] = owed[l]

EditorTypes ==
  /\ tracker' \in [Leaves -> Trackers] /\ frames' \in [Leaves -> Frames \union {None}]
  /\ text' \in [Leaves -> Nat \union {None}] /\ trailing' \in [Leaves -> Nat \union {None}]
  /\ owed' \in [Leaves -> Int]

\* Such a step leaves the other leaves, the places and the target alone.
LEMMA EditorStep ==
  ASSUME TypedInv, NEW leaf \in Leaves,
         UNCHANGED <<places, past>>, strayed' = FALSE,
         EditorTypes, Elsewhere(leaf), Phases(leaf)', Owing(leaf)'
  PROVE  TypedInv'
<1>1. \A l \in Leaves \ {leaf} : Phases(l)' /\ Owing(l)'
  BY DEF Elsewhere, TypedInv, TypeOK, Phases, Owing, Fallback
<1>2. TypeOK'
  BY <1>1 DEF TypeOK, TypedInv, EditorTypes, Frames, places
<1>3. Witnessed'
  BY DEF Witnessed, TypedInv, places
<1> QED  BY <1>1, <1>2, <1>3 DEF TypedInv, CreditStaysInLeaf

\* What is reported is credited to a file the leaf showed.
LEMMA EmitStays ==
  ASSUME TypedInv, NEW leaf \in Leaves, NEW result, Emit(leaf, result)
  PROVE  /\ tracker' = [tracker EXCEPT ![leaf] = result.tracker]
         /\ strayed' = FALSE /\ UNCHANGED <<places, past>>
<1>1. OwnsTarget(leaf) => target.file \in past[leaf]
  BY DEF OwnsTarget, TypedInv, Witnessed
<1>2. strayed = FALSE
  BY DEF TypedInv, TypeOK, CreditStaysInLeaf
<1> QED  BY <1>1, <1>2 DEF Emit

LEMMA LeafTypes ==
  ASSUME TypedInv, NEW leaf \in Leaves
  PROVE  /\ tracker[leaf] \in Trackers /\ text[leaf] \in Nat \union {None}
         /\ trailing[leaf] \in Nat \union {None} /\ owed[leaf] \in Int
         /\ frames[leaf] \in Frames \union {None}
         /\ Phases(leaf) /\ Owing(leaf)
BY DEF TypedInv, TypeOK, Frames

LEMMA CompositionStartKeeps ==
  ASSUME TypedInv, NEW leaf \in Leaves, CompositionStart(leaf)
  PROVE  TypedInv'
<1> DEFINE t == tracker[leaf]
           result == BeginComposition(t)
<1>1. t \in Trackers /\ owed[leaf] = Fallback(t) /\ owed[leaf] \in Int
  BY LeafTypes DEF CompositionStart, Focused, Owing
<1>2. /\ tracker' = [tracker EXCEPT ![leaf] = result.tracker]
      /\ strayed' = FALSE /\ UNCHANGED <<places, past>>
  BY EmitStays DEF CompositionStart
<1>3. /\ text' = [text EXCEPT ![leaf] = 0] /\ frames' = [frames EXCEPT ![leaf] = None]
      /\ owed' = [owed EXCEPT ![leaf] = @ + 0 - result.count]
      /\ UNCHANGED trailing /\ trailing[leaf] = None
  BY DEF CompositionStart, Owes, Focused
<1>4. /\ result.tracker \in Trackers /\ result.tracker.composing = TRUE
      /\ result.tracker.pending = None /\ result.tracker.provisional = 0
      /\ result.count = Fallback(t) /\ Fallback(t) \in Nat
  BY <1>1, BeginResult, FallbackType
<1> HIDE DEF result, t
<1>5. EditorTypes /\ Elsewhere(leaf)
  BY <1>1, <1>2, <1>3, <1>4, NotNone DEF EditorTypes, Elsewhere, TypedInv, TypeOK, Frames
<1>6. tracker'[leaf] = result.tracker /\ text'[leaf] = 0 /\ owed'[leaf] = 0
  BY <1>1, <1>2, <1>3, <1>4 DEF TypedInv, TypeOK
<1>7. Phases(leaf)' /\ Owing(leaf)'
  BY <1>3, <1>4, <1>6, NotNone DEF Phases, Owing
<1> QED  BY <1>2, <1>5, <1>7, EditorStep

LEMMA ComposeKeeps ==
  ASSUME TypedInv, NEW leaf \in Leaves, NEW chars \in 0 .. MaxChars, Compose(leaf, chars)
  PROVE  TypedInv'
<1> DEFINE t == tracker[leaf]
           result == ObserveTransaction(t, chars, TRUE)
<1>1. /\ t \in Trackers /\ t.composing = TRUE /\ t.pending = None
      /\ trailing[leaf] = None /\ owed[leaf] = 0 /\ chars \in Nat
  BY LeafTypes, TypedAssumption DEF Compose, Owing, Phases, Trackers
<1>2. /\ tracker' = [tracker EXCEPT ![leaf] = result.tracker]
      /\ strayed' = FALSE /\ UNCHANGED <<places, past>>
  BY EmitStays DEF Compose
<1>3. /\ text' = [text EXCEPT ![leaf] = chars]
      /\ owed' = [owed EXCEPT ![leaf] = @ + 0 - result.count]
      /\ UNCHANGED <<frames, trailing>>
  BY DEF Compose, Owes
<1>4. /\ result.tracker \in Trackers /\ result.tracker.composing = TRUE
      /\ result.tracker.pending = None /\ result.tracker.provisional = chars
      /\ result.count = 0
  BY <1>1, ObserveResult
<1> HIDE DEF result, t
<1>5. EditorTypes /\ Elsewhere(leaf)
  BY <1>1, <1>2, <1>3, <1>4, NotNone DEF EditorTypes, Elsewhere, TypedInv, TypeOK, Frames
<1>6. tracker'[leaf] = result.tracker /\ text'[leaf] = chars /\ owed'[leaf] = 0
  BY <1>1, <1>2, <1>3, <1>4 DEF TypedInv, TypeOK
<1>7. Phases(leaf)' /\ Owing(leaf)'
  BY <1>1, <1>3, <1>4, <1>6, NotNone DEF Phases, Owing
<1> QED  BY <1>2, <1>5, <1>7, EditorStep

LEMMA CompositionEndKeeps ==
  ASSUME TypedInv, NEW leaf \in Leaves, NEW chars \in 0 .. MaxChars, NEW trusted \in BOOLEAN,
         CompositionEnd(leaf, chars, trusted)
  PROVE  TypedInv'
<1> DEFINE t == tracker[leaf]
           ended == EndComposition(t, chars, trusted)
<1>1. /\ t \in Trackers /\ t.provisional = text[leaf]
      /\ trailing[leaf] = None /\ owed[leaf] = 0 /\ chars \in Nat
  BY LeafTypes, TypedAssumption DEF CompositionEnd, Owing
<1>2. /\ tracker' = [tracker EXCEPT ![leaf] = ended]
      /\ strayed' = FALSE /\ UNCHANGED <<places, past>>
  <2> DEFINE result == [tracker |-> ended, count |-> 0]
  <2>1. Emit(leaf, result)
    BY DEF CompositionEnd
  <2>2. result.tracker = ended
    OBVIOUS
  <2> HIDE DEF result, ended
  <2> QED  BY <2>1, <2>2, EmitStays
<1>3. /\ text' = [text EXCEPT ![leaf] = None]
      /\ owed' = [owed EXCEPT ![leaf] = @ + chars - 0]
      /\ frames' = [frames EXCEPT ![leaf] = [left |-> 2, generation |-> ended.generation]]
      /\ \/ text[leaf] = chars /\ UNCHANGED trailing
         \/ trailing' = [trailing EXCEPT ![leaf] = chars]
  BY DEF CompositionEnd, Owes
<1>4. /\ ended \in Trackers /\ ended.composing = FALSE /\ ended.pending # None
      /\ ended.pending.generation = ended.generation
      /\ Fallback(ended) = IF trusted THEN chars ELSE t.provisional
  BY <1>1, EndResult
<1>5. [left |-> 2, generation |-> ended.generation] \in Frames
  BY <1>4 DEF Frames, Trackers
<1> HIDE DEF ended, t
<1>6. EditorTypes /\ Elsewhere(leaf)
  BY <1>1, <1>2, <1>3, <1>4, <1>5 DEF EditorTypes, Elsewhere, TypedInv, TypeOK, Frames
<1>7. tracker'[leaf] = ended /\ text'[leaf] = None /\ owed'[leaf] = chars
  BY <1>1, <1>2, <1>3 DEF TypedInv, TypeOK
<1>8. \/ trailing'[leaf] = None /\ text[leaf] = chars
      \/ trailing'[leaf] = chars
  BY <1>1, <1>3 DEF TypedInv, TypeOK
<1>9. Phases(leaf)' /\ Owing(leaf)'
  BY <1>1, <1>4, <1>7, <1>8, NotNone DEF Phases, Owing
<1> QED  BY <1>2, <1>6, <1>9, EditorStep

LEMMA StrayEndKeeps ==
  ASSUME TypedInv, NEW leaf \in Leaves, StrayEnd(leaf)
  PROVE  TypedInv'
<1>1. frames' \in [Leaves -> Frames \union {None}]
  BY DEF StrayEnd, TypedInv, TypeOK, Frames
<1>2. TypeOK'
  BY <1>1 DEF StrayEnd, environment, places, TypedInv, TypeOK, Frames, Phases
<1> QED
  BY <1>2 DEF StrayEnd, environment, places, TypedInv, Owing, Witnessed, CreditStaysInLeaf

LEMMA ApplyTrailingKeeps ==
  ASSUME TypedInv, NEW leaf \in Leaves, ApplyTrailing(leaf)
  PROVE  TypedInv'
<1> DEFINE t == tracker[leaf]
<1>1. /\ t \in Trackers /\ t.pending # None /\ t.composing = FALSE /\ text[leaf] = None
      /\ trailing[leaf] \in Nat /\ owed[leaf] = trailing[leaf]
  BY LeafTypes DEF ApplyTrailing, Owing, Phases, Trackers
<1>2. PICK composition \in BOOLEAN :
        LET result == ObserveTransaction(t, trailing[leaf], composition)
        IN  Emit(leaf, result) /\ Owes(leaf, 0, result)
  BY DEF ApplyTrailing
<1> DEFINE result == ObserveTransaction(t, trailing[leaf], composition)
<1>3. /\ tracker' = [tracker EXCEPT ![leaf] = result.tracker]
      /\ strayed' = FALSE /\ UNCHANGED <<places, past>>
  BY <1>2, EmitStays
<1>4. /\ owed' = [owed EXCEPT ![leaf] = @ + 0 - result.count]
      /\ trailing' = [trailing EXCEPT ![leaf] = None]
      /\ UNCHANGED <<frames, text>>
  BY <1>2 DEF ApplyTrailing, Owes
<1>5. /\ result.tracker \in Trackers /\ result.tracker.composing = FALSE
      /\ result.tracker.pending = None /\ result.count = trailing[leaf]
  BY <1>1, ObserveResult
<1> HIDE DEF result, t
<1>6. EditorTypes /\ Elsewhere(leaf)
  BY <1>1, <1>3, <1>4, <1>5 DEF EditorTypes, Elsewhere, TypedInv, TypeOK, Frames
<1>7. tracker'[leaf] = result.tracker /\ trailing'[leaf] = None /\ owed'[leaf] = 0
  BY <1>1, <1>3, <1>4, <1>5 DEF TypedInv, TypeOK
<1>8. Phases(leaf)' /\ Owing(leaf)'
  BY <1>1, <1>4, <1>5, <1>7 DEF Phases, Owing, Fallback
<1> QED  BY <1>3, <1>6, <1>8, EditorStep

LEMMA TypeKeyKeeps ==
  ASSUME TypedInv, NEW leaf \in Leaves, TypeKey(leaf)
  PROVE  TypedInv'
<1> DEFINE t == tracker[leaf]
           result == ObserveTransaction(t, 1, FALSE)
<1>1. /\ t \in Trackers /\ t.composing = FALSE /\ text[leaf] = None /\ trailing[leaf] = None
      /\ owed[leaf] = Fallback(t) /\ Fallback(t) \in Nat
  BY LeafTypes, FallbackType DEF TypeKey, Focused, Owing, Phases, Trackers
<1>2. /\ tracker' = [tracker EXCEPT ![leaf] = result.tracker]
      /\ strayed' = FALSE /\ UNCHANGED <<places, past>>
  BY EmitStays DEF TypeKey
<1>3. /\ owed' = [owed EXCEPT ![leaf] = @ + (1 - Fallback(t)) - result.count]
      /\ UNCHANGED <<frames, text, trailing>>
  BY DEF TypeKey, Owes, environment
<1>4. /\ result.tracker \in Trackers /\ result.tracker.composing = FALSE
      /\ result.tracker.pending = None /\ result.count = 1
  BY <1>1, ObserveResult
<1> HIDE DEF result, t
<1>5. EditorTypes /\ Elsewhere(leaf)
  BY <1>1, <1>2, <1>3, <1>4 DEF EditorTypes, Elsewhere, TypedInv, TypeOK, Frames
<1>6. tracker'[leaf] = result.tracker /\ owed'[leaf] = 0
  BY <1>1, <1>2, <1>3, <1>4 DEF TypedInv, TypeOK
<1>7. Phases(leaf)' /\ Owing(leaf)'
  BY <1>1, <1>3, <1>4, <1>6 DEF Phases, Owing, Fallback
<1> QED  BY <1>2, <1>5, <1>7, EditorStep

LEMMA FrameKeeps ==
  ASSUME TypedInv, NEW leaf \in Leaves, Frame(leaf)
  PROVE  TypedInv'
<1> DEFINE t == tracker[leaf]
           result == Finalize(t, frames[leaf].generation)
<1>1. /\ t \in Trackers /\ frames[leaf] \in Frames /\ owed[leaf] \in Int
      /\ Phases(leaf) /\ Owing(leaf) /\ Fallback(t) \in Nat
  BY LeafTypes, FallbackType DEF Frame
<1>2. CASE frames[leaf].left = 2 /\ frames' = [frames EXCEPT ![leaf].left = 1]
           /\ UNCHANGED <<places, tracker, owed, past, strayed, environment>>
  <2>1. [frames[leaf] EXCEPT !.left = 1] \in Frames
    BY <1>1 DEF Frames
  <2>2. frames' \in [Leaves -> Frames \union {None}]
    BY <1>2, <2>1 DEF TypedInv, TypeOK, Frames
  <2>3. TypeOK'
    BY <1>2, <2>2 DEF environment, places, TypedInv, TypeOK, Frames, Phases
  <2> QED
    BY <1>2, <2>3 DEF environment, places, TypedInv, Owing, Witnessed, CreditStaysInLeaf
<1>3. CASE /\ trailing[leaf] = None /\ frames' = [frames EXCEPT ![leaf] = None]
           /\ Emit(leaf, result) /\ Owes(leaf, 0, result) /\ UNCHANGED environment
  <2>1. /\ tracker' = [tracker EXCEPT ![leaf] = result.tracker]
        /\ strayed' = FALSE /\ UNCHANGED <<places, past>>
    BY <1>3, EmitStays
  <2>2. /\ owed' = [owed EXCEPT ![leaf] = @ + 0 - result.count] /\ UNCHANGED <<text, trailing>>
    BY <1>3 DEF Owes, environment
  <2>3. frames[leaf].generation \in Nat
    BY <1>1 DEF Frames
  <2>4. /\ result.tracker \in Trackers
        /\ result.tracker.composing = t.composing
        /\ \/ result.tracker = t /\ result.count = 0
           \/ result.tracker.pending = None /\ result.count = Fallback(t)
    BY <1>1, <2>3, FinalizeResult
  <2>5. text[leaf] # None => Fallback(t) = 0
    BY <1>1, FallbackType DEF Phases
  <2> HIDE DEF result, t
  <2>6. EditorTypes /\ Elsewhere(leaf)
    BY <1>1, <1>3, <2>1, <2>2, <2>4 DEF EditorTypes, Elsewhere, TypedInv, TypeOK, Frames
  <2>7. /\ tracker'[leaf] = result.tracker
        /\ owed'[leaf] = owed[leaf] - result.count
    BY <1>1, <2>1, <2>2, <2>4 DEF TypedInv, TypeOK
  <2>8. CASE result.tracker = t /\ result.count = 0
    <3>1. tracker'[leaf] = tracker[leaf]
      BY <2>7, <2>8 DEF t
    <3>2. owed'[leaf] = owed[leaf]
      BY <1>1, <2>7, <2>8 DEF TypedInv, TypeOK
    <3>3. Phases(leaf)'
      BY <1>1, <2>2, <3>1 DEF Phases
    <3>4. Owing(leaf)'
      BY <1>1, <2>2, <3>1, <3>2 DEF Owing, Fallback
    <3> QED  BY <2>1, <2>6, <3>3, <3>4, EditorStep
  <2>9. CASE result.tracker.pending = None /\ result.count = Fallback(t)
    <3>1. CASE text[leaf] # None
      <4>1. result.tracker = t \/ t.pending = None
        BY <1>1, <3>1 DEF Phases, t
      <4>2. owed'[leaf] = 0 /\ owed[leaf] = 0
        BY <1>1, <2>5, <2>7, <2>9, <3>1 DEF Owing
      <4>3. result.tracker = t
        BY <1>1, <4>1, <2>3 DEF result, Finalize, t
      <4> QED  BY <1>1, <2>1, <2>2, <2>6, <2>7, <4>2, <4>3, EditorStep DEF Phases, Owing, t
    <3>2. CASE text[leaf] = None
      <4>1. owed[leaf] = Fallback(t)
        BY <1>1, <1>3, <3>2 DEF Owing, t
      <4>2. owed'[leaf] = 0
        BY <1>1, <2>7, <2>9, <4>1
      <4>3. t.composing = FALSE
        BY <1>1, <3>2 DEF Phases, t, Trackers
      <4>4. Phases(leaf)' /\ Owing(leaf)'
        BY <1>3, <2>2, <2>4, <2>7, <2>9, <3>2, <4>2, <4>3 DEF Phases, Owing, Fallback
      <4> QED  BY <2>1, <2>6, <4>4, EditorStep
    <3> QED  BY <3>1, <3>2
  <2> QED  BY <2>4, <2>8, <2>9
<1> QED  BY <1>2, <1>3 DEF Frame

-----------------------------------------------------------------------------
\* The steps of the workspace.

LEMMA ShowFileKeeps ==
  ASSUME TypedInv, NEW leaf \in Leaves, NEW file \in Files \union {None}, ShowFile(leaf, file)
  PROVE  TypedInv'
<1> DEFINE t == Cancel(tracker[leaf])
<1>1. /\ shown' = [shown EXCEPT ![leaf] = file]
      /\ past' = [past EXCEPT ![leaf] = @ \union ({file} \ {None})]
      /\ tracker' = [tracker EXCEPT ![leaf] = t]
      /\ frames' = [frames EXCEPT ![leaf] = None]
      /\ text' = [text EXCEPT ![leaf] = None]
      /\ trailing' = [trailing EXCEPT ![leaf] = None]
      /\ owed' = [owed EXCEPT ![leaf] = 0]
      /\ UNCHANGED <<active, refresh, target, strayed>>
  BY DEF ShowFile
<1>2. t \in Trackers /\ t.composing = FALSE /\ t.pending = None
  BY LeafTypes, CancelResult
<1> HIDE DEF t
<1>3. EditorTypes /\ Elsewhere(leaf)
  BY <1>1, <1>2 DEF EditorTypes, Elsewhere, TypedInv, TypeOK, Frames
<1>4. Phases(leaf)' /\ Owing(leaf)'
  BY <1>1, <1>2 DEF Phases, Owing, Fallback, TypedInv, TypeOK
<1>5. \A l \in Leaves \ {leaf} : Phases(l)' /\ Owing(l)'
  BY <1>3 DEF Elsewhere, TypedInv, TypeOK, Phases, Owing, Fallback
<1>6. /\ past' \in [Leaves -> SUBSET Files] /\ shown' \in [Leaves -> Files \union {None}]
      /\ \A l \in Leaves : past[l] \subseteq past'[l]
      /\ \A l \in Leaves : shown'[l] # None => shown'[l] \in past'[l]
  BY <1>1 DEF TypedInv, TypeOK, Witnessed
<1>7. TypeOK'
  BY <1>1, <1>3, <1>4, <1>5, <1>6 DEF TypedInv, TypeOK, EditorTypes, Frames
<1>8. Witnessed'
  BY <1>1, <1>6 DEF TypedInv, TypeOK, Witnessed
<1> QED  BY <1>1, <1>4, <1>5, <1>7, <1>8 DEF TypedInv, CreditStaysInLeaf

LEMMA PlacesKeep ==
  ASSUME TypedInv, UNCHANGED editors, UNCHANGED shown, active' \in Leaves,
         refresh' \in [leaf : Leaves, file : Files \union {None}] \union {None},
         target' \in [leaf : Leaves, file : Files] \union {None}, Witnessed'
  PROVE  TypedInv'
<1>1. TypeOK'
  BY DEF editors, environment, TypedInv, TypeOK, Phases
<1> QED  BY <1>1 DEF editors, environment, TypedInv, Owing, CreditStaysInLeaf

LEMMA WorkspaceKeeps ==
  ASSUME TypedInv, Workspace
  PROVE  TypedInv'
<1>1. ASSUME NEW leaf \in Leaves, Activate(leaf)
      PROVE  TypedInv'
  BY <1>1, PlacesKeep DEF Activate, editors, TypedInv, TypeOK, Witnessed
<1>2. CASE StartRefresh
  <2> DEFINE asked == [leaf |-> active, file |-> shown[active]]
  <2>1. /\ asked \in [leaf : Leaves, file : Files \union {None}]
        /\ asked.file # None => asked.file \in past[asked.leaf]
    BY DEF TypedInv, TypeOK, Witnessed
  <2>2. refresh' = asked /\ UNCHANGED <<shown, active, target, editors>>
    BY <1>2 DEF StartRefresh
  <2> HIDE DEF asked
  <2>3. Witnessed'
    BY <2>1, <2>2 DEF editors, TypedInv, Witnessed
  <2> QED  BY <2>1, <2>2, <2>3, PlacesKeep DEF TypedInv, TypeOK
<1>3. CASE FinishRefresh
  <2>1. /\ refresh \in [leaf : Leaves, file : Files \union {None}]
        /\ target' = IF refresh.file = None THEN None ELSE refresh
        /\ refresh' = None /\ UNCHANGED <<shown, active, editors>>
    BY <1>3 DEF FinishRefresh, TypedInv, TypeOK
  <2>2. target' \in [leaf : Leaves, file : Files] \union {None}
    BY <2>1
  <2>3. Witnessed'
    BY <2>1 DEF editors, TypedInv, Witnessed
  <2> QED  BY <2>1, <2>2, <2>3, PlacesKeep DEF TypedInv, TypeOK
<1>4. CASE Rest
  BY <1>4, PlacesKeep DEF Rest, editors, TypedInv, TypeOK, Witnessed
<1> QED  BY <1>1, <1>2, <1>3, <1>4, ShowFileKeeps DEF Workspace

LEMMA InitSatisfies == Init => TypedInv
<1> SUFFICES ASSUME Init PROVE TypedInv
  OBVIOUS
<1>1. /\ NoTracker \in Trackers /\ NoTracker.composing = FALSE /\ NoTracker.pending = None
  BY TrackerRecord DEF NoTracker
<1>2. \A l \in Leaves : Phases(l) /\ Owing(l)
  BY <1>1 DEF Init, Phases, Owing, Fallback
<1>3. TypeOK
  <2>1. shown \in [Leaves -> Files \union {None}] /\ active \in Leaves
    BY DEF Init
  <2>2. past \in [Leaves -> SUBSET Files]
    BY DEF Init
  <2>3. refresh = None /\ target = None /\ strayed = FALSE
    BY DEF Init
  <2>4. tracker \in [Leaves -> Trackers]
    BY <1>1 DEF Init
  <2>5. /\ frames \in [Leaves -> {None} \union [left : 1 .. 2, generation : Nat]]
        /\ text \in [Leaves -> Nat \union {None}] /\ trailing \in [Leaves -> Nat \union {None}]
        /\ owed \in [Leaves -> Int]
    BY DEF Init
  <2> QED  BY <1>2, <2>1, <2>2, <2>3, <2>4, <2>5 DEF TypeOK
<1>4. Witnessed
  BY DEF Init, Witnessed
<1> QED  BY <1>2, <1>3, <1>4 DEF Init, TypedInv, CreditStaysInLeaf

LEMMA StepKeeps == TypedInv /\ [Next]_vars => TypedInv'
<1> SUFFICES ASSUME TypedInv, [Next]_vars PROVE TypedInv'
  OBVIOUS
<1>1. CASE UNCHANGED vars
  BY <1>1, PlacesKeep
  DEF vars, places, environment, editors, TypedInv, TypeOK, Witnessed
<1>2. CASE Editing
  BY <1>2, CompositionStartKeeps, ComposeKeeps, CompositionEndKeeps, StrayEndKeeps,
     ApplyTrailingKeeps, TypeKeyKeeps, FrameKeeps
  DEF Editing
<1> QED  BY <1>1, <1>2, WorkspaceKeeps DEF Next

-----------------------------------------------------------------------------
\* What every leaf owes is known at every step (typed-input.ts and its host).
THEOREM TypedInvariant == Spec => []TypedInv
BY InitSatisfies, StepKeeps, PTL DEF Spec

\* No character is reported twice, whichever of the change, the end, the
\* frames and the next composition comes first (typed-input.ts:49-121).
THEOREM CountedAtMostOnce == Spec => []NoDoubleCount
<1>1. TypedInv => NoDoubleCount
  <2> SUFFICES ASSUME TypedInv, NEW l \in Leaves PROVE owed[l] >= 0
    BY DEF NoDoubleCount
  <2>1. /\ tracker[l] \in Trackers /\ trailing[l] \in Nat \union {None}
        /\ Owing(l) /\ Fallback(tracker[l]) \in Nat
    BY LeafTypes, FallbackType
  <2> QED  BY <2>1 DEF Owing
<1> QED  BY <1>1, TypedInvariant, PTL

\* And none is left out once the leaf has settled.
THEOREM CountedAtLeastOnce == Spec => []AllCounted
<1>1. TypedInv => AllCounted
  BY FallbackType DEF TypedInv, TypeOK, AllCounted, Owing
<1> QED  BY <1>1, TypedInvariant, PTL

\* A composition that settles late is credited to a file its own leaf showed
\* (currentTypedTarget, tracking-coordinator.ts:374-391).
THEOREM CreditFollowsLeaf == Spec => []CreditStaysInLeaf
<1>1. TypedInv => CreditStaysInLeaf
  BY DEF TypedInv
<1> QED  BY <1>1, TypedInvariant, PTL
=============================================================================
