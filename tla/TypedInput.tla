----------------------------- MODULE TypedInput -----------------------------
(***************************************************************************)
(* How typed characters are counted: the composition tracker of every      *)
(* editor (tracking/typed-input.ts), the plugin that feeds it from         *)
(* CodeMirror (platform/codemirror-typed-input.ts), and the check that the *)
(* editor still owns the tracking target (main.ts, tracking-coordinator).  *)
(*                                                                         *)
(* CodeMirror, the input method and the browser are the environment: the   *)
(* final change of a composition comes on either side of compositionend,   *)
(* but before the second animation frame after it.                         *)
(***************************************************************************)
EXTENDS Integers

CONSTANTS
  Leaves, Files,
  MaxChars,       \* characters of one composition
  MaxGeneration,  \* bound on the compositions and files of one leaf
  None

\* A composition that has ended: its generation, and the count when nothing else comes.
PendingComposition == [generation : Nat, fallback : Nat]

ASSUME TypedAssumption ==
  /\ MaxChars \in Nat \ {0} /\ MaxGeneration \in Nat
  /\ None \notin Leaves \union Files \union Nat \union PendingComposition

VARIABLES
  shown,          \* the file every leaf shows, None when it is closed
  active,         \* the active leaf
  refresh,        \* the leaf and file whose identity is awaited, or None
  target,         \* [leaf, file] of the tracking snapshot, or None
  tracker,        \* ImeCommitTracker of every leaf's editor
  frames,         \* [left, generation] of the scheduled finalization, or None
  text,           \* environment: characters of the composition under way, or None
  trailing,       \* environment: the final change that CodeMirror still has to apply, or None
  owed,           \* ghost: characters committed in a leaf and not reported yet
  past,           \* ghost: the files every leaf has shown
  strayed         \* ghost: a count was credited to a file its leaf never showed

environment == <<text, trailing>>
places      == <<shown, active, refresh, target>>
vars        == <<places, tracker, frames, environment, owed, past, strayed>>

-----------------------------------------------------------------------------
\* ImeCommitTracker: every operation is the next tracker and the count it returns.

NoTracker == [generation |-> 0, composing |-> FALSE, pending |-> None, provisional |-> 0]

\* A count of 0 stands for null.
Fallback(t) == IF t.pending = None THEN 0 ELSE t.pending.fallback

\* Mutant: a composition that was settling is forgotten when the next one starts.
BeginForgets(t) ==
  [tracker |-> [t EXCEPT !.generation = @ + 1, !.pending = None,
                         !.composing = TRUE, !.provisional = 0],
   count |-> 0]

BeginComposition(t) ==
  [tracker |-> [t EXCEPT !.generation = @ + 1, !.pending = None,
                         !.composing = TRUE, !.provisional = 0],
   count |-> Fallback(t)]

\* The end's own text counts only when the event is trusted.
EndComposition(t, chars, trusted) ==
  [t EXCEPT !.generation = @ + 1, !.composing = FALSE, !.provisional = 0,
            !.pending = [generation |-> t.generation + 1,
                         fallback |-> IF trusted THEN chars ELSE t.provisional]]

\* Mutant: a change that follows the end is counted and the fallback stays.
ObserveKeepsPending(t, chars, composition) ==
  IF t.pending # None THEN [tracker |-> t, count |-> chars]
  ELSE IF composition
  THEN [tracker |-> IF t.composing THEN [t EXCEPT !.provisional = chars] ELSE t, count |-> 0]
  ELSE [tracker |-> t, count |-> chars]

\* The first change after an end settles it; changes of a composition are provisional.
ObserveTransaction(t, chars, composition) ==
  IF t.pending # None THEN [tracker |-> [t EXCEPT !.pending = None], count |-> chars]
  ELSE IF composition
  THEN [tracker |-> IF t.composing THEN [t EXCEPT !.provisional = chars] ELSE t, count |-> 0]
  ELSE [tracker |-> t, count |-> chars]

\* Only the generation that is pending may settle.
Finalize(t, generation) ==
  IF t.pending # None /\ t.pending.generation = generation
  THEN [tracker |-> [t EXCEPT !.pending = None], count |-> Fallback(t)]
  ELSE [tracker |-> t, count |-> 0]

Cancel(t) == [NoTracker EXCEPT !.generation = t.generation + 1]

-----------------------------------------------------------------------------
\* emit: resolveTypedInputTarget and currentTypedTarget decide at the moment of the report.

\* Mutant: any editor in the foreground is credited to the target, whatever leaf it is of.
OwnsAnyTarget(leaf) == active = leaf /\ target # None

OwnsTarget(leaf) == active = leaf /\ target # None /\ target.leaf = leaf

Emit(leaf, result) ==
  /\ tracker' = [tracker EXCEPT ![leaf] = result.tracker]
  /\ strayed' = (strayed \/ (result.count > 0 /\ OwnsTarget(leaf) /\ target.file \notin past[leaf]))
  /\ UNCHANGED <<places, past>>

\* The user commits some characters while others are reported.
Owes(leaf, committed, result) == owed' = [owed EXCEPT ![leaf] = @ + committed - result.count]

-----------------------------------------------------------------------------
\* The editor of a leaf.

Open(leaf) == shown[leaf] # None

Focused(leaf) == active = leaf /\ Open(leaf) /\ trailing[leaf] = None

CompositionStart(leaf) ==
  LET result == BeginComposition(tracker[leaf])
  IN  /\ Focused(leaf) /\ text[leaf] = None
      /\ tracker[leaf].generation < MaxGeneration
      /\ text' = [text EXCEPT ![leaf] = 0]
      /\ frames' = [frames EXCEPT ![leaf] = None]
      /\ Emit(leaf, result) /\ Owes(leaf, 0, result)
      /\ UNCHANGED trailing

\* A change while composing: the text so far, its removal included.
Compose(leaf, chars) ==
  LET result == ObserveTransaction(tracker[leaf], chars, TRUE)
  IN  /\ text[leaf] # None
      /\ text' = [text EXCEPT ![leaf] = chars]
      /\ Emit(leaf, result) /\ Owes(leaf, 0, result)
      /\ UNCHANGED <<frames, trailing>>

\* The end commits `chars`, 0 when the user cancels; the document has them already, or they are
\* still to be applied.
CompositionEnd(leaf, chars, trusted) ==
  LET ended == EndComposition(tracker[leaf], chars, trusted)
  IN  /\ text[leaf] # None
      /\ text' = [text EXCEPT ![leaf] = None]
      /\ \/ text[leaf] = chars /\ UNCHANGED trailing
         \/ trailing' = [trailing EXCEPT ![leaf] = chars]
      /\ frames' = [frames EXCEPT ![leaf] = [left |-> 2, generation |-> ended.generation]]
      /\ Emit(leaf, [tracker |-> ended, count |-> 0])
      /\ Owes(leaf, chars, [count |-> 0])

\* The end of a composition whose start was not trusted, or a second end: the tracker ignores
\* it, but the finalization of the composition before it is already cancelled.
StrayEnd(leaf) ==
  /\ frames[leaf] # None
  /\ frames' = [frames EXCEPT ![leaf] = None]
  /\ UNCHANGED <<places, tracker, environment, owed, past, strayed>>

\* The final change, reported as a composition or as plain input.
ApplyTrailing(leaf) ==
  /\ trailing[leaf] # None
  /\ trailing' = [trailing EXCEPT ![leaf] = None]
  /\ \E composition \in BOOLEAN :
       LET result == ObserveTransaction(tracker[leaf], trailing[leaf], composition)
       IN  Emit(leaf, result) /\ Owes(leaf, 0, result)
  /\ UNCHANGED <<frames, text>>

\* One key.  While a composition is settling the key is taken for its final change, and the
\* characters of the composition are never reported: they are owed no more.
TypeKey(leaf) ==
  LET result == ObserveTransaction(tracker[leaf], 1, FALSE)
  IN  /\ Focused(leaf) /\ text[leaf] = None
      /\ Emit(leaf, result) /\ Owes(leaf, 1 - Fallback(tracker[leaf]), result)
      /\ UNCHANGED <<frames, environment>>

\* requestAnimationFrame: the second frame finalizes.
Frame(leaf) ==
  LET result == Finalize(tracker[leaf], frames[leaf].generation)
  IN  /\ frames[leaf] # None
      /\ \/ /\ frames[leaf].left = 2
            /\ frames' = [frames EXCEPT ![leaf].left = 1]
            /\ UNCHANGED <<places, tracker, owed, past, strayed>>
         \/ /\ frames[leaf].left = 1 /\ trailing[leaf] = None
            /\ frames' = [frames EXCEPT ![leaf] = None]
            /\ Emit(leaf, result) /\ Owes(leaf, 0, result)
      /\ UNCHANGED environment

-----------------------------------------------------------------------------
\* The workspace and the tracking target.

editors == <<tracker, frames, environment, owed, past, strayed>>

\* Another file, or none: the editor goes, and an unfinished composition with it.
ShowFile(leaf, file) ==
  /\ shown[leaf] # file
  /\ tracker[leaf].generation < MaxGeneration
  /\ shown' = [shown EXCEPT ![leaf] = file]
  /\ past' = [past EXCEPT ![leaf] = @ \union ({file} \ {None})]
  /\ tracker' = [tracker EXCEPT ![leaf] = Cancel(@)]
  /\ frames' = [frames EXCEPT ![leaf] = None]
  /\ text' = [text EXCEPT ![leaf] = None]
  /\ trailing' = [trailing EXCEPT ![leaf] = None]
  /\ owed' = [owed EXCEPT ![leaf] = 0]
  /\ UNCHANGED <<active, refresh, target, strayed>>

\* A composition ends before another leaf becomes active.
Activate(leaf) ==
  /\ active # leaf /\ Open(leaf) /\ text[active] = None
  /\ active' = leaf
  /\ UNCHANGED <<shown, refresh, target, editors>>

\* refreshTarget reads the active leaf, then waits for the identity of its file.
StartRefresh ==
  /\ refresh = None
  /\ refresh' = [leaf |-> active, file |-> shown[active]]
  /\ UNCHANGED <<shown, active, target, editors>>

FinishRefresh ==
  /\ refresh # None
  /\ target' = IF refresh.file = None THEN None ELSE refresh
  /\ refresh' = None
  /\ UNCHANGED <<shown, active, editors>>

\* Idle, blur and pause leave no typed target.
Rest ==
  /\ target # None /\ target' = None
  /\ UNCHANGED <<shown, active, refresh, editors>>

-----------------------------------------------------------------------------
Init ==
  /\ shown \in [Leaves -> Files]
  /\ active \in Leaves
  /\ refresh = None /\ target = None
  /\ tracker = [l \in Leaves |-> NoTracker]
  /\ frames = [l \in Leaves |-> None]
  /\ text = [l \in Leaves |-> None] /\ trailing = [l \in Leaves |-> None]
  /\ owed = [l \in Leaves |-> 0]
  /\ past = [l \in Leaves |-> {shown[l]}]
  /\ strayed = FALSE

Editing ==
  \E leaf \in Leaves :
    \/ CompositionStart(leaf) \/ StrayEnd(leaf)
    \/ ApplyTrailing(leaf) \/ TypeKey(leaf) \/ Frame(leaf)
    \/ \E chars \in 0 .. MaxChars :
         Compose(leaf, chars) \/ \E trusted \in BOOLEAN : CompositionEnd(leaf, chars, trusted)

Workspace ==
  \/ \E leaf \in Leaves : Activate(leaf) \/ \E file \in Files \union {None} : ShowFile(leaf, file)
  \/ StartRefresh \/ FinishRefresh \/ Rest

Next == Editing \/ Workspace

Spec == Init /\ [][Next]_vars

-----------------------------------------------------------------------------
Trackers ==
  [generation : Nat, composing : BOOLEAN, provisional : Nat,
   pending : PendingComposition \union {None}]

\* A tracker composes exactly while the input method does, nothing is pending then, and what is
\* pending is of the current generation.
Phases(l) ==
  /\ tracker[l].composing <=> text[l] # None
  /\ tracker[l].composing => tracker[l].pending = None
  /\ tracker[l].pending # None => tracker[l].pending.generation = tracker[l].generation

\* Shape of the state.
TypeOK ==
  /\ shown \in [Leaves -> Files \union {None}] /\ active \in Leaves
  /\ refresh \in [leaf : Leaves, file : Files \union {None}] \union {None}
  /\ target \in [leaf : Leaves, file : Files] \union {None}
  /\ past \in [Leaves -> SUBSET Files] /\ strayed \in BOOLEAN
  /\ tracker \in [Leaves -> Trackers]
  /\ frames \in [Leaves -> {None} \union [left : 1 .. 2, generation : Nat]]
  /\ text \in [Leaves -> Nat \union {None}] /\ trailing \in [Leaves -> Nat \union {None}]
  /\ owed \in [Leaves -> Int]
  /\ \A l \in Leaves : Phases(l)

\* No character is counted twice, in whatever order the changes, the ends (trusted or not), the
\* frames and the next composition come.
NoDoubleCount == \A l \in Leaves : owed[l] >= 0

\* No character is left out either: a leaf without a composition under way or settling has
\* reported all that was committed in it, but for compositions a key was taken for.
AllCounted ==
  \A l \in Leaves :
    text[l] = None /\ trailing[l] = None /\ tracker[l].pending = None => owed[l] = 0

\* A count is only ever credited to a file that its own leaf shows or showed, however late the
\* composition settles and however long the target takes to follow the active leaf.
CreditStaysInLeaf == ~strayed

-----------------------------------------------------------------------------
\* Why the counts are right: what a leaf owes is nothing while it composes, the final change as
\* long as that is to come, and the fallback of the composition that is settling otherwise.
Owing(l) ==
  IF text[l] # None
  THEN trailing[l] = None /\ owed[l] = 0 /\ tracker[l].provisional = text[l]
  ELSE IF trailing[l] # None
  THEN tracker[l].pending # None /\ owed[l] = trailing[l]
  ELSE owed[l] = Fallback(tracker[l])

\* Why the credit stays: a target is a file its leaf showed when the refresh began.
Witnessed ==
  /\ \A l \in Leaves : shown[l] # None => shown[l] \in past[l]
  /\ refresh # None /\ refresh.file # None => refresh.file \in past[refresh.leaf]
  /\ target # None => target.file \in past[target.leaf]

TypedInv == TypeOK /\ (\A l \in Leaves : Owing(l)) /\ Witnessed /\ CreditStaysInLeaf

=============================================================================
