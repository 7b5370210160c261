------------------------- MODULE FileRegistryProofs -------------------------
(***************************************************************************)
(* For any vault, any identities and any length of the queue: every path   *)
(* of the index leads to the identity whose entry names it, in memory and  *)
(* on disk, a damaged registry file is only replaced by a reset, and no    *)
(* file inherits the identity of another.  And for any recorded time on    *)
(* top of it: every chart adds up, a folder opened shows what its slice    *)
(* promised, and the open session is counted where it will be stored.      *)
(***************************************************************************)
EXTENDS VaultQueries, SumTheorems, SequenceTheorems, TLAPS

\* A registry is an image of entries and index.
LEMMA RegistryIsImage ==
  ASSUME NEW e \in [Ids -> Entry \union {None}], NEW i \in [Paths -> Ids \union {None}]
  PROVE  /\ [entries |-> e, index |-> i] \in Registry
         /\ [entries |-> e, index |-> i] # None
BY RegistryAssumption DEF Registry

\* No path is None, no identity is None.
LEMMA NamesAreNotNone ==
  /\ \A p \in Paths : p # None
  /\ \A id \in Ids : id # None
  /\ \A e \in Entry : e # None
  /\ \A o \in Objects : o # None
BY RegistryAssumption

\* An empty registry is consistent.
LEMMA EmptyRegistry ==
  /\ NoEntries \in [Ids -> Entry \union {None}] /\ NoIndex \in [Paths -> Ids \union {None}]
  /\ Consistent(NoEntries, NoIndex) /\ Given(NoIndex)
BY DEF NoEntries, NoIndex, Consistent, Given

\* No mutation waits.
LEMMA NoTask == <<>> \in Seq(Task)
OBVIOUS

\* Two paths never lead to one identity.
LEMMA OnePathEach ==
  ASSUME TypeOK, Consistent(entries, index),
         NEW p \in Paths, NEW q \in Paths, index[p] # None, index[p] = index[q]
  PROVE  p = q
BY DEF Consistent

-----------------------------------------------------------------------------
\* The mutations keep the index consistent; each leaves what it does not name.

\* A first observation gives an identity that no path leads to yet.
LEMMA ObserveKeeps ==
  ASSUME TypeOK, Consistent(entries, index), Given(index),
         NEW path \in Paths, NEW file \in Objects, Observe(path, file)
  PROVE  /\ entries' \in [Ids -> Entry \union {None}] /\ index' \in [Paths -> Ids \union {None}]
         /\ owner' \in [Ids -> Objects \union {None}]
         /\ Consistent(entries, index)' /\ Given(index)'
         /\ \A id \in Ids : owner[id] # None => owner'[id] # None
<1>1. CASE index[path] # None
  BY <1>1 DEF Observe, TypeOK, registry, Consistent, Given
<1>2. CASE index[path] = None
  <2>1. PICK id \in Ids :
          /\ owner[id] = None
          /\ entries' = [entries EXCEPT ![id] = [current |-> path, lastKnown |-> path]]
          /\ index' = [index EXCEPT ![path] = id]
          /\ owner' = [owner EXCEPT ![id] = file]
    BY <1>2 DEF Observe
  <2>2. [current |-> path, lastKnown |-> path] \in Entry
    BY DEF Entry
  <2>3. \A p \in Paths : index[p] # id
    BY <2>1, NamesAreNotNone DEF Given
  <2>4. /\ entries' \in [Ids -> Entry \union {None}]
        /\ index' \in [Paths -> Ids \union {None}]
        /\ owner' \in [Ids -> Objects \union {None}]
    BY <2>1, <2>2 DEF TypeOK
  <2>5. Consistent(entries, index)'
    <3> SUFFICES ASSUME NEW p \in Paths, index'[p] # None
                 PROVE  entries'[index'[p]] # None /\ entries'[index'[p]].current = p
      BY DEF Consistent
    <3>1. CASE p = path
      BY <3>1, <2>1, <2>2, NamesAreNotNone DEF TypeOK
    <3>2. CASE p # path
      <4>1. index'[p] = index[p] /\ index[p] \in Ids
        BY <3>2, <2>1 DEF TypeOK
      <4>2. entries'[index[p]] = entries[index[p]]
        BY <4>1, <2>1, <2>3 DEF TypeOK
      <4> QED  BY <4>1, <4>2 DEF Consistent
    <3> QED  BY <3>1, <3>2
  <2>6. \A i \in Ids : owner[i] # None => owner'[i] # None
    BY <2>1, NamesAreNotNone DEF TypeOK
  <2>7. Given(index)'
    BY <2>1, <2>6, NamesAreNotNone DEF Given, TypeOK
  <2> QED  BY <2>4, <2>5, <2>6, <2>7
<1> QED  BY <1>1, <1>2

\* A rename moves the identity of the old path.
LEMMA RenameKeeps ==
  ASSUME TypeOK, Consistent(entries, index), Given(index),
         NEW from \in Paths, NEW to \in Paths, Rename(from, to)
  PROVE  /\ entries' \in [Ids -> Entry \union {None}] /\ index' \in [Paths -> Ids \union {None}]
         /\ Consistent(entries, index)' /\ Given(index)'
<1>1. CASE index[from] = None
  BY <1>1 DEF Rename, registry, TypeOK, Consistent, Given
<1>2. CASE index[from] # None
  <2> DEFINE id == index[from]
  <2>1. id \in Ids /\ entries[id] \in Entry
    BY <1>2 DEF TypeOK, Consistent
  <2>2. Located(id, to) \in Entry /\ Located(id, to).current = to
    BY <2>1 DEF Located, Entry
  <2>3. /\ entries' = [entries EXCEPT ![id] = Located(id, to)]
        /\ index' = [index EXCEPT ![from] = None, ![to] = id]
        /\ UNCHANGED owner
    BY <1>2 DEF Rename
  <2> HIDE DEF id
  <2>4. /\ entries' \in [Ids -> Entry \union {None}]
        /\ index' \in [Paths -> Ids \union {None}]
    BY <2>1, <2>2, <2>3 DEF TypeOK
  <2>5. Consistent(entries, index)'
    <3> SUFFICES ASSUME NEW p \in Paths, index'[p] # None
                 PROVE  entries'[index'[p]] # None /\ entries'[index'[p]].current = p
      BY DEF Consistent
    <3>1. CASE p = to
      BY <3>1, <2>1, <2>2, <2>3, NamesAreNotNone DEF TypeOK
    <3>2. CASE p # to
      <4>1. p # from /\ index'[p] = index[p] /\ index[p] \in Ids
        BY <3>2, <2>3 DEF TypeOK
      <4>2. index[p] # id
        BY <4>1, <1>2, OnePathEach DEF id
      <4>3. entries'[index[p]] = entries[index[p]]
        BY <4>1, <4>2, <2>3 DEF TypeOK
      <4> QED  BY <4>1, <4>3 DEF Consistent
    <3> QED  BY <3>1, <3>2
  <2>6. owner[id] # None
    BY <1>2 DEF Given, id
  <2>7. Given(index)'
    BY <2>3, <2>6 DEF Given, TypeOK
  <2> QED  BY <2>4, <2>5, <2>7
<1> QED  BY <1>1, <1>2

\* A deletion takes the path from the index and from the entry.
LEMMA DeleteKeeps ==
  ASSUME TypeOK, Consistent(entries, index), Given(index),
         NEW path \in Paths, Delete(path)
  PROVE  /\ entries' \in [Ids -> Entry \union {None}] /\ index' \in [Paths -> Ids \union {None}]
         /\ Consistent(entries, index)' /\ Given(index)'
<1>1. CASE index[path] = None
  BY <1>1 DEF Delete, registry, TypeOK, Consistent, Given
<1>2. CASE index[path] # None
  <2> DEFINE id == index[path]
  <2>1. id \in Ids /\ entries[id] \in Entry
    BY <1>2 DEF TypeOK, Consistent
  <2>2. /\ entries' = [entries EXCEPT ![id] = [entries[id] EXCEPT !.current = None]]
        /\ index' = [index EXCEPT ![path] = None]
        /\ UNCHANGED owner
    BY <1>2 DEF Delete
  <2>3. [entries[id] EXCEPT !.current = None] \in Entry
    BY <2>1 DEF Entry
  <2> HIDE DEF id
  <2>4. /\ entries' \in [Ids -> Entry \union {None}]
        /\ index' \in [Paths -> Ids \union {None}]
    BY <2>1, <2>2, <2>3 DEF TypeOK
  <2>5. ASSUME NEW p \in Paths, index'[p] # None
        PROVE  entries'[index'[p]] # None /\ entries'[index'[p]].current = p
    <3>1. p # path /\ index'[p] = index[p] /\ index[p] \in Ids
      BY <2>5, <2>2 DEF TypeOK
    <3>2. index[p] # id
      BY <3>1, <1>2, OnePathEach DEF id
    <3>3. entries'[index[p]] = entries[index[p]]
      BY <3>1, <3>2, <2>2 DEF TypeOK
    <3> QED  BY <3>1, <3>3, <2>5 DEF Consistent
  <2>6. Given(index)'
    BY <2>2 DEF Given, TypeOK
  <2> QED  BY <2>4, <2>5, <2>6 DEF Consistent
<1> QED  BY <1>1, <1>2

\* A folder's rename moves every identity below it, to a path of its own.
LEMMA RenameFolderKeeps ==
  ASSUME TypeOK, Consistent(entries, index), Given(index),
         NEW from \in Folders, NEW to \in Folders, RenameFolder(from, to)
  PROVE  /\ entries' \in [Ids -> Entry \union {None}] /\ index' \in [Paths -> Ids \union {None}]
         /\ Consistent(entries, index)' /\ Given(index)'
<1> DEFINE Source(p)  == {q \in Paths : IsUnder(q, from) /\ index[q] # None /\ Moved(q, from, to) = p}
           Moving(id) == {q \in Paths : IsUnder(q, from) /\ index[q] = id}
           Origin(p)  == CHOOSE q \in Source(p) : TRUE
           Mover(id)  == CHOOSE q \in Moving(id) : TRUE
<1>1. /\ index' = [p \in Paths |-> IF Source(p) # {} THEN index[Origin(p)]
                                   ELSE IF IsUnder(p, from) THEN None ELSE index[p]]
      /\ entries' = [id \in Ids |-> IF Moving(id) = {} THEN entries[id]
                                    ELSE Located(id, Moved(Mover(id), from, to))]
      /\ UNCHANGED owner
  BY Zenon DEF RenameFolder
<1>2. ASSUME NEW p \in Paths, Source(p) # {}
      PROVE  /\ Origin(p) \in Paths /\ IsUnder(Origin(p), from)
             /\ index[Origin(p)] \in Ids /\ Moved(Origin(p), from, to) = p
  <2>1. Origin(p) \in Source(p)
    BY <1>2
  <2> QED  BY <2>1 DEF TypeOK
<1>3. ASSUME NEW id \in Ids, Moving(id) # {}
      PROVE  /\ Mover(id) \in Paths /\ IsUnder(Mover(id), from) /\ index[Mover(id)] = id
             /\ Moved(Mover(id), from, to) \in Paths
             /\ Located(id, Moved(Mover(id), from, to)) \in Entry
             /\ Located(id, Moved(Mover(id), from, to)).current = Moved(Mover(id), from, to)
  <2>1. Mover(id) \in Moving(id)
    BY <1>3
  <2>2. Mover(id) \in Paths /\ IsUnder(Mover(id), from) /\ index[Mover(id)] = id
    BY <2>1
  <2>3. Moved(Mover(id), from, to) \in Paths
    BY <2>2, RegistryAssumption
  <2>4. entries[id] \in Entry
    BY <2>2, NamesAreNotNone DEF Consistent, TypeOK
  <2> HIDE DEF Mover
  <2>5. /\ Located(id, Moved(Mover(id), from, to)) \in Entry
        /\ Located(id, Moved(Mover(id), from, to)).current = Moved(Mover(id), from, to)
    BY <2>3, <2>4 DEF Located, Entry
  <2> QED  BY <2>2, <2>3, <2>5
<1> HIDE DEF Origin, Mover
<1>4. entries' \in [Ids -> Entry \union {None}]
  <2> HIDE DEF Moving
  <2> SUFFICES ASSUME NEW id \in Ids
               PROVE  (IF Moving(id) = {} THEN entries[id]
                       ELSE Located(id, Moved(Mover(id), from, to))) \in Entry \union {None}
    BY <1>1
  <2> QED  BY <1>3 DEF TypeOK
<1>5. index' \in [Paths -> Ids \union {None}]
  <2> HIDE DEF Source
  <2> SUFFICES ASSUME NEW p \in Paths
               PROVE  (IF Source(p) # {} THEN index[Origin(p)]
                       ELSE IF IsUnder(p, from) THEN None ELSE index[p]) \in Ids \union {None}
    BY <1>1
  <2> QED  BY <1>2 DEF TypeOK
<1>6. ASSUME NEW p \in Paths, index'[p] # None
      PROVE  entries'[index'[p]] # None /\ entries'[index'[p]].current = p
  <2>1. CASE Source(p) # {}
    <3>1. /\ index'[p] = index[Origin(p)] /\ index[Origin(p)] \in Ids
          /\ Origin(p) \in Paths /\ IsUnder(Origin(p), from) /\ Moved(Origin(p), from, to) = p
      BY <2>1, <1>1, <1>2
    <3>2. Origin(p) \in Moving(index[Origin(p)])
      BY <3>1
    <3>3. Mover(index[Origin(p)]) = Origin(p)
      BY <3>1, <3>2, <1>3, OnePathEach, NamesAreNotNone
    <3>4. entries'[index[Origin(p)]] = Located(index[Origin(p)], p)
      BY <3>1, <3>2, <3>3, <1>1
    <3> QED  BY <3>1, <3>2, <3>3, <3>4, <1>3, NamesAreNotNone
  <2>2. CASE Source(p) = {}
    <3>1. ~IsUnder(p, from) /\ index'[p] = index[p] /\ index[p] # None
      BY <2>2, <1>1, <1>6
    <3>2. index[p] \in Ids
      BY <3>1 DEF TypeOK
    <3>3. Moving(index[p]) = {}
      BY <3>1, OnePathEach
    <3>4. entries'[index[p]] = entries[index[p]]
      BY <3>2, <3>3, <1>1
    <3> QED  BY <3>1, <3>4 DEF Consistent
  <2> QED  BY <2>1, <2>2
<1>7. ASSUME NEW p \in Paths, index'[p] # None
      PROVE  owner'[index'[p]] # None
  <2>1. CASE Source(p) # {}
    <3> HIDE DEF Source
    <3> QED  BY <2>1, <1>1, <1>2, NamesAreNotNone DEF Given
  <2>2. CASE Source(p) = {}
    <3> HIDE DEF Source
    <3> QED  BY <2>2, <1>1, <1>7 DEF Given
  <2> QED  BY <2>1, <2>2
<1> QED  BY <1>4, <1>5, <1>6, <1>7 DEF Consistent, Given

\* Consistency does not look at the ghost; what was given stays given.
LEMMA GivenStays ==
  ASSUME NEW i, Given(i), i \in [Paths -> Ids \union {None}],
         \A id \in Ids : owner[id] # None => owner'[id] # None
  PROVE  \A p \in Paths : i[p] # None => owner'[i[p]] # None
BY DEF Given

\* What a mutation, run alone or from the queue, keeps.
Kept ==
  /\ entries' \in [Ids -> Entry \union {None}] /\ index' \in [Paths -> Ids \union {None}]
  /\ owner' \in [Ids -> Objects \union {None}]
  /\ writing' \in Registry \union {None}
  /\ Consistent(entries, index)' /\ Given(index)'
  /\ \A id \in Ids : owner[id] # None => owner'[id] # None
  /\ writing' # None => /\ Consistent(writing'.entries, writing'.index)
                        /\ \A p \in Paths : writing'.index[p] # None => owner'[writing'.index[p]] # None
  /\ corrupted => writing' = None

\* A mutation that leaves the save and the ghost alone.
LEMMA PlainMutation ==
  ASSUME RegistryInv, UNCHANGED <<owner, target, writing>>,
         entries' \in [Ids -> Entry \union {None}], index' \in [Paths -> Ids \union {None}],
         Consistent(entries, index)', Given(index)'
  PROVE  Kept
BY DEF Kept, RegistryInv, TypeOK, DamageStops, Given

LEMMA RunKeeps ==
  ASSUME RegistryInv, NEW task \in Task, Run(task)
  PROVE  Kept
<1>1. CASE task.kind = "resolve"
  <2>1. task.path \in Paths /\ task.file \in Objects /\ Resolve(task.path, task.file)
    BY <1>1 DEF Task, Run
  <2>2. CASE corrupted
    BY <2>1, <2>2, PlainMutation DEF Resolve, registry, RegistryInv, IndexConsistent, TypeOK, Given
  <2>3. CASE ~corrupted
    <3>1. Observe(task.path, task.file) /\ writing' = [entries |-> entries', index |-> index']
      BY <2>1, <2>3 DEF Resolve
    <3>2. /\ entries' \in [Ids -> Entry \union {None}] /\ index' \in [Paths -> Ids \union {None}]
          /\ owner' \in [Ids -> Objects \union {None}]
          /\ Consistent(entries, index)' /\ Given(index)'
          /\ \A id \in Ids : owner[id] # None => owner'[id] # None
      BY <2>1, <3>1, ObserveKeeps DEF RegistryInv, IndexConsistent
    <3>3. writing' \in Registry /\ writing'.entries = entries' /\ writing'.index = index'
      BY <3>1, <3>2, RegistryIsImage
    <3> QED  BY <3>2, <3>3, <2>3 DEF Kept, Consistent, Given
  <2> QED  BY <2>2, <2>3
<1>2. CASE task.kind = "rename"
  <2>1. task.from \in Paths /\ task.to \in Paths /\ Rename(task.from, task.to)
    BY <1>2 DEF Task, Run
  <2>2. UNCHANGED <<owner, target, writing>>
    BY <2>1 DEF Rename
  <2> QED  BY <2>1, <2>2, RenameKeeps, PlainMutation DEF RegistryInv, IndexConsistent
<1>3. CASE task.kind = "delete"
  <2>1. task.path \in Paths /\ Delete(task.path)
    BY <1>3 DEF Task, Run
  <2>2. UNCHANGED <<owner, target, writing>>
    BY <2>1 DEF Delete
  <2> QED  BY <2>1, <2>2, DeleteKeeps, PlainMutation DEF RegistryInv, IndexConsistent
<1>4. CASE task.kind = "renameFolder"
  <2>1. task.from \in Folders /\ task.to \in Folders /\ RenameFolder(task.from, task.to)
    BY <1>4 DEF Task, Run
  <2>2. UNCHANGED <<owner, target, writing>>
    BY <2>1 DEF RenameFolder
  <2> QED  BY <2>1, <2>2, RenameFolderKeeps, PlainMutation DEF RegistryInv, IndexConsistent
<1> QED  BY <1>1, <1>2, <1>3, <1>4 DEF Task

-----------------------------------------------------------------------------
\* What is left of the invariant when a mutation has run, or none has.
LEMMA AfterMutation ==
  ASSUME RegistryInv, Kept, UNCHANGED <<corrupted, saved>>,
         at' \in [Objects -> Paths \union {None}], queue' \in Seq(Task),
         clearing' \in BOOLEAN, lost' \in BOOLEAN
  PROVE  RegistryInv'
<1>1. TypeOK'
  BY DEF TypeOK, RegistryInv, Kept
<1>2. IndexConsistent' /\ DamageStops'
  BY DEF IndexConsistent, DamageStops, RegistryInv, Kept, Consistent
<1>3. writing' # None => Consistent(writing.entries, writing.index)' /\ Given(writing.index)'
  BY DEF Kept, Consistent, Given
<1>4. saved' # None => Given(saved.index)'
  <2> SUFFICES ASSUME saved # None PROVE \A p \in Paths : saved.index[p] # None => owner'[saved.index[p]] # None
    BY DEF Given
  <2>1. saved.index \in [Paths -> Ids \union {None}] /\ Given(saved.index)
    BY DEF RegistryInv, TypeOK, Registry
  <2> QED  BY <2>1 DEF Given, Kept
<1> QED  BY <1>1, <1>2, <1>3, <1>4 DEF RegistryInv, Kept

\* A step that leaves the registry, the save and the ghost alone.
LEMMA NoMutation ==
  ASSUME RegistryInv, UNCHANGED <<registry, owner, writing>>
  PROVE  Kept
BY DEF Kept, RegistryInv, TypeOK, IndexConsistent, DamageStops, registry, Consistent, Given

LEMMA SerializeKeeps ==
  ASSUME RegistryInv, NEW task \in Task, Serialize(task),
         at' \in [Objects -> Paths \union {None}], lost' \in BOOLEAN
  PROVE  RegistryInv'
<1>1. CASE clearing
  <2>1. Kept
    BY <1>1, NoMutation DEF Serialize
  <2>2. queue' \in Seq(Task)
    BY <1>1 DEF Serialize, RegistryInv, TypeOK
  <2> QED  BY <2>1, <2>2, AfterMutation DEF Serialize, RegistryInv, TypeOK
<1>2. CASE ~clearing
  <2>1. Kept
    BY <1>2, RunKeeps DEF Serialize
  <2> QED  BY <1>2, <2>1, AfterMutation DEF Serialize, RegistryInv, TypeOK
<1> QED  BY <1>1, <1>2

\* A folder's deletion takes its paths from the index and from their entries.
LEMMA DeleteFolderKeeps ==
  ASSUME RegistryInv, NEW folder \in Folders, DeleteFolder(folder)
  PROVE  RegistryInv'
<1> DEFINE gone == {p \in Paths : IsUnder(p, folder) /\ index[p] # None}
           cut(id) == \E p \in gone : index[p] = id
<1>1. /\ at' = [o \in Objects |-> IF o \in Under(folder) THEN None ELSE at[o]]
      /\ index' = [p \in Paths |-> IF p \in gone THEN None ELSE index[p]]
      /\ entries' = [id \in Ids |-> IF cut(id) THEN [entries[id] EXCEPT !.current = None]
                                    ELSE entries[id]]
      /\ lost' = (lost \/ queue # <<>>)
      /\ UNCHANGED <<corrupted, queue, clearing, files, target, owner>>
  BY Zenon DEF DeleteFolder
<1>2. TypeOK /\ Consistent(entries, index) /\ Given(index)
  BY DEF RegistryInv, IndexConsistent
<1>3. ASSUME NEW id \in Ids, cut(id)
      PROVE  [entries[id] EXCEPT !.current = None] \in Entry
  <2>1. entries[id] \in Entry
    BY <1>2, <1>3, NamesAreNotNone DEF Consistent, TypeOK
  <2> QED  BY <2>1 DEF Entry
<1>4. entries' \in [Ids -> Entry \union {None}]
  <2> HIDE DEF cut
  <2> SUFFICES ASSUME NEW id \in Ids
               PROVE  (IF cut(id) THEN [entries[id] EXCEPT !.current = None] ELSE entries[id])
                        \in Entry \union {None}
    BY <1>1
  <2> QED  BY <1>2, <1>3 DEF TypeOK
<1>5. index' \in [Paths -> Ids \union {None}] /\ at' \in [Objects -> Paths \union {None}]
  BY <1>1, <1>2 DEF TypeOK
<1>6. ASSUME NEW p \in Paths, index'[p] # None
      PROVE  entries'[index'[p]] # None /\ entries'[index'[p]].current = p
  <2>1. p \notin gone /\ index'[p] = index[p] /\ index[p] \in Ids
    BY <1>1, <1>2, <1>6 DEF TypeOK
  <2>2. ~cut(index[p])
    BY <1>2, <2>1, OnePathEach, NamesAreNotNone
  <2>3. entries'[index[p]] = entries[index[p]]
    BY <1>1, <2>1, <2>2
  <2> QED  BY <1>2, <1>6, <2>1, <2>3 DEF Consistent
<1>7. Given(index)'
  BY <1>1, <1>2 DEF Given
<1>8. Kept
  BY <1>1, <1>4, <1>5, <1>6, <1>7 DEF Kept, RegistryInv, TypeOK, DamageStops, Consistent, Given, files
<1> QED  BY <1>1, <1>5, <1>8, AfterMutation DEF RegistryInv, TypeOK, files

-----------------------------------------------------------------------------
LEMMA InitSatisfies == Init => RegistryInv
<1> SUFFICES ASSUME Init PROVE RegistryInv
  OBVIOUS
<1>1. saved \in Registry /\ saved # None /\ saved.entries = NoEntries /\ saved.index = NoIndex
  BY RegistryIsImage, EmptyRegistry DEF Init
<1>2. TypeOK
  BY <1>1, EmptyRegistry, NoTask DEF Init, TypeOK
<1> QED
  BY <1>1, <1>2, EmptyRegistry DEF Init, RegistryInv, IndexConsistent, DamageStops

\* The saves, a reset and a restart exchange whole registries.
LEMMA BeginClearKeeps ==
  ASSUME RegistryInv, BeginClear
  PROVE  RegistryInv'
<1>1. Kept
  BY EmptyRegistry
  DEF BeginClear, files, ghosts, Kept, RegistryInv, TypeOK, DamageStops, Consistent, Given
<1> QED  BY <1>1, AfterMutation DEF BeginClear, files, ghosts, RegistryInv, TypeOK

LEMMA ClearSavedKeeps ==
  ASSUME RegistryInv, ClearSaved
  PROVE  RegistryInv'
<1>1. /\ saved' \in Registry /\ saved' # None
      /\ saved'.entries = entries /\ saved'.index = index
  BY RegistryIsImage DEF ClearSaved, Image, RegistryInv, TypeOK
<1>2. TypeOK'
  BY <1>1 DEF ClearSaved, registry, ghosts, RegistryInv, TypeOK
<1> QED
  BY <1>1, <1>2
  DEF ClearSaved, registry, ghosts, RegistryInv, IndexConsistent, DamageStops, Consistent, Given

LEMMA ResolveSavedKeeps ==
  ASSUME RegistryInv, ResolveSaved
  PROVE  RegistryInv'
<1>1. TypeOK'
  BY DEF ResolveSaved, registry, ghosts, RegistryInv, TypeOK
<1> QED
  BY <1>1
  DEF ResolveSaved, registry, ghosts, RegistryInv, IndexConsistent, DamageStops, Consistent, Given

LEMMA RestartKeeps ==
  ASSUME RegistryInv, Restart
  PROVE  RegistryInv'
<1>1. CASE saved' = None
  <2>1. TypeOK'
    BY <1>1, EmptyRegistry, NoTask DEF Restart, RegistryInv, TypeOK
  <2> QED
    BY <1>1, <2>1, EmptyRegistry
    DEF Restart, RegistryInv, IndexConsistent, DamageStops, Consistent, Given
<1>2. CASE saved' # None
  <2>1. /\ saved' = saved /\ saved \in Registry
        /\ entries' = saved.entries /\ index' = saved.index /\ corrupted' = FALSE
        /\ queue' = <<>> /\ clearing' = FALSE /\ writing' = None /\ UNCHANGED <<at, owner>>
    BY <1>2 DEF Restart, RegistryInv, TypeOK
  <2>2. entries' \in [Ids -> Entry \union {None}] /\ index' \in [Paths -> Ids \union {None}]
    BY <2>1 DEF Registry
  <2>3. lost' \in BOOLEAN
    BY DEF Restart, RegistryInv, TypeOK
  <2>4. TypeOK'
    BY <2>1, <2>2, <2>3, NoTask DEF RegistryInv, TypeOK
  <2> QED
    BY <1>2, <2>1, <2>4 DEF RegistryInv, IndexConsistent, DamageStops, Consistent, Given
<1> QED  BY <1>1, <1>2

LEMMA VaultEventKeeps ==
  ASSUME RegistryInv, VaultEvent
  PROVE  RegistryInv'
<1> USE DEF RegistryInv, TypeOK
<1>1. ASSUME NEW o \in Objects, NEW path \in Paths, CreateFile(o, path)
      PROVE  RegistryInv'
  <2>1. Kept
    BY <1>1, NoMutation DEF CreateFile, files, ghosts
  <2> QED  BY <1>1, <2>1, AfterMutation DEF CreateFile, files, ghosts
<1>2. ASSUME NEW o \in Objects, NEW path \in Paths, RenameFile(o, path)
      PROVE  RegistryInv'
  <2>1. [kind |-> "rename", from |-> at[o], to |-> path] \in Task
    BY <1>2 DEF RenameFile, Task
  <2> QED  BY <1>2, <2>1, SerializeKeeps DEF RenameFile
<1>3. ASSUME NEW o \in Objects, OpenFile(o)
      PROVE  RegistryInv'
  <2>1. [kind |-> "resolve", file |-> o, path |-> at[o]] \in Task
    BY <1>3 DEF OpenFile, Task
  <2> QED  BY <1>3, <2>1, SerializeKeeps DEF OpenFile
<1>4. ASSUME NEW o \in Objects, DeleteFile(o)
      PROVE  RegistryInv'
  <2>1. [kind |-> "delete", path |-> at[o]] \in Task
    BY <1>4 DEF DeleteFile, Task
  <2> QED  BY <1>4, <2>1, SerializeKeeps DEF DeleteFile
<1>5. ASSUME NEW from \in Folders, NEW to \in Folders, MoveFolder(from, to)
      PROVE  RegistryInv'
  <2>1. [kind |-> "renameFolder", from |-> from, to |-> to] \in Task
    BY DEF Task
  <2>2. \A o \in Under(from) : Moved(at[o], from, to) \in Paths
    BY RegistryAssumption DEF Under
  <2>3. at' \in [Objects -> Paths \union {None}]
    BY <1>5, <2>2 DEF MoveFolder
  <2> QED  BY <1>5, <2>1, <2>3, SerializeKeeps DEF MoveFolder
<1>6. ASSUME NEW folder \in Folders, DeleteFolder(folder)
      PROVE  RegistryInv'
  BY <1>6, DeleteFolderKeeps
<1> QED  BY <1>1, <1>2, <1>3, <1>4, <1>5, <1>6 DEF VaultEvent

LEMMA RunQueuedKeeps ==
  ASSUME RegistryInv, RunQueued
  PROVE  RegistryInv'
<1>1. Head(queue) \in Task /\ Tail(queue) \in Seq(Task)
  BY DEF RunQueued, RegistryInv, TypeOK
<1>2. Kept
  BY <1>1, RunKeeps DEF RunQueued
<1> QED  BY <1>1, <1>2, AfterMutation DEF RunQueued, RegistryInv, TypeOK

LEMMA StepKeeps == RegistryInv /\ [Next]_vars => RegistryInv'
<1> SUFFICES ASSUME RegistryInv, [Next]_vars PROVE RegistryInv'
  OBVIOUS
<1>1. CASE UNCHANGED vars
  BY <1>1
  DEF vars, registry, files, ghosts, RegistryInv, TypeOK, IndexConsistent, DamageStops,
      Consistent, Given
<1> QED
  BY <1>1, VaultEventKeeps, RunQueuedKeeps, BeginClearKeeps, ClearSavedKeeps,
     ResolveSavedKeeps, RestartKeeps
  DEF Next

-----------------------------------------------------------------------------
\* Folders as prefixes.

\* What a folder's move does to a path below it: the path is below the new
\* folder, and what follows the folder stays.
LEMMA MovedPath ==
  ASSUME NEW path \in Paths, NEW from \in Folders, NEW to \in Folders, IsUnder(path, from)
  PROVE  /\ Len(Moved(path, from, to)) = Len(to) + (Len(path) - Len(from))
         /\ IsUnder(Moved(path, from, to), to)
         /\ \A i \in 1 .. Len(from) : path[i] = from[i]
         /\ \A i \in 1 .. Len(path) - Len(from) :
               Moved(path, from, to)[Len(to) + i] = path[Len(from) + i]
<1> DEFINE S == STRING
           rest == SubSeq(path, Len(from) + 1, Len(path))
           moved == to \o rest
<1>0. path \in Seq(S) /\ from \in Seq(S) /\ to \in Seq(S)
  BY RegistryAssumption
<1> HIDE DEF S
<1>1. /\ Len(path) \in Nat /\ Len(from) \in Nat /\ Len(to) \in Nat /\ Len(from) < Len(path)
      /\ \A i \in 1 .. Len(path) : path[i] \in S
  BY <1>0, LenProperties DEF IsUnder
<1>2. /\ rest \in Seq(S) /\ Len(rest) = Len(path) - Len(from)
      /\ \A i \in 1 .. Len(rest) : rest[i] = path[Len(from) + i]
  <2>1. /\ Len(from) + 1 \in Int /\ Len(path) \in Int
        /\ \A i \in Len(from) + 1 .. Len(path) : path[i] \in S
    BY <1>1
  <2>2. /\ rest \in Seq(S)
        /\ Len(rest) = IF Len(from) + 1 <= Len(path) THEN Len(path) - (Len(from) + 1) + 1 ELSE 0
        /\ \A i \in 1 .. Len(path) - (Len(from) + 1) + 1 : rest[i] = path[Len(from) + 1 + i - 1]
    BY <2>1, SubSeqProperties
  <2> HIDE DEF rest
  <2>3. Len(rest) = Len(path) - Len(from)
    BY <1>1, <2>2
  <2>4. ASSUME NEW i \in 1 .. Len(rest) PROVE rest[i] = path[Len(from) + i]
    <3>1. i \in 1 .. Len(path) - (Len(from) + 1) + 1 /\ Len(from) + 1 + i - 1 = Len(from) + i
      BY <1>1, <2>3
    <3> QED  BY <2>2, <3>1
  <2> QED  BY <2>2, <2>3, <2>4
<1> HIDE DEF rest
<1>3. /\ moved \in Seq(S) /\ Len(moved) = Len(to) + Len(rest)
      /\ \A i \in 1 .. Len(to) + Len(rest) : moved[i] = IF i <= Len(to) THEN to[i] ELSE rest[i - Len(to)]
  BY <1>0, <1>2, ConcatProperties
<1>4. Moved(path, from, to) = moved
  BY DEF Moved, rest
<1> HIDE DEF moved
<1>5. ASSUME NEW i \in 1 .. Len(to) PROVE moved[i] = to[i]
  <2>1. i \in 1 .. Len(to) + Len(rest) /\ i <= Len(to)
    BY <1>1, <1>2
  <2> QED  BY <1>3, <2>1
<1>6. ASSUME NEW i \in 1 .. Len(path) - Len(from)
      PROVE  moved[Len(to) + i] = path[Len(from) + i]
  <2>1. Len(to) + i \in 1 .. Len(to) + Len(rest) /\ ~(Len(to) + i <= Len(to))
        /\ Len(to) + i - Len(to) = i /\ i \in 1 .. Len(rest)
    BY <1>1, <1>2
  <2> QED  BY <1>2, <1>3, <2>1
<1>7. SubSeq(moved, 1, Len(to)) = to
  <2>1. \A i \in 1 .. Len(to) : moved[i] \in S
    BY <1>0, <1>5, LenProperties
  <2>2. /\ SubSeq(moved, 1, Len(to)) \in Seq(S)
        /\ Len(SubSeq(moved, 1, Len(to))) = IF 1 <= Len(to) THEN Len(to) - 1 + 1 ELSE 0
        /\ \A i \in 1 .. Len(to) - 1 + 1 : SubSeq(moved, 1, Len(to))[i] = moved[1 + i - 1]
    <3>1. 1 \in Int /\ Len(to) \in Int
      BY <1>1
    <3> QED  BY <2>1, <3>1, SubSeqProperties
  <2>3. Len(SubSeq(moved, 1, Len(to))) = Len(to)
    BY <1>1, <2>2
  <2>4. \A i \in 1 .. Len(to) : SubSeq(moved, 1, Len(to))[i] = to[i]
    <3> TAKE i \in 1 .. Len(to)
    <3>1. i \in 1 .. Len(to) - 1 + 1 /\ 1 + i - 1 = i
      BY <1>1
    <3> QED  BY <1>5, <2>2, <3>1
  <2> QED  BY <1>0, <2>2, <2>3, <2>4, SeqEqual
<1>8. IsUnder(moved, to)
  BY <1>1, <1>2, <1>3, <1>7 DEF IsUnder
<1>9. ASSUME NEW i \in 1 .. Len(from) PROVE path[i] = from[i]
  <2>1. SubSeq(path, 1, Len(from)) = from
    BY DEF IsUnder
  <2>2. \A j \in 1 .. Len(from) - 1 + 1 : SubSeq(path, 1, Len(from))[j] = path[1 + j - 1]
    <3>1. 1 \in Int /\ Len(from) \in Int /\ \A j \in 1 .. Len(from) : path[j] \in S
      BY <1>1
    <3> QED  BY <3>1, SubSeqProperties
  <2>3. i \in 1 .. Len(from) - 1 + 1 /\ 1 + i - 1 = i
    BY <1>1
  <2> QED  BY <2>1, <2>2, <2>3
<1> QED  BY <1>2, <1>3, <1>4, <1>6, <1>8, <1>9

\* Two paths below a folder do not meet when the folder moves.
LEMMA MovedApart ==
  ASSUME NEW p \in Paths, NEW q \in Paths, NEW from \in Folders, NEW to \in Folders,
         IsUnder(p, from), IsUnder(q, from), Moved(p, from, to) = Moved(q, from, to)
  PROVE  p = q
<1> DEFINE Names == STRING
<1>1. p \in Seq(Names) /\ q \in Seq(Names) /\ from \in Seq(Names) /\ to \in Seq(Names)
  BY RegistryAssumption
<1> HIDE DEF Names
<1>2. /\ Len(Moved(p, from, to)) = Len(to) + (Len(p) - Len(from))
      /\ \A i \in 1 .. Len(from) : p[i] = from[i]
      /\ \A i \in 1 .. Len(p) - Len(from) : Moved(p, from, to)[Len(to) + i] = p[Len(from) + i]
  BY MovedPath
<1>3. /\ Len(Moved(q, from, to)) = Len(to) + (Len(q) - Len(from))
      /\ \A i \in 1 .. Len(from) : q[i] = from[i]
      /\ \A i \in 1 .. Len(q) - Len(from) : Moved(q, from, to)[Len(to) + i] = q[Len(from) + i]
  BY MovedPath
<1>4. Len(p) \in Nat /\ Len(q) \in Nat /\ Len(from) \in Nat /\ Len(to) \in Nat
      /\ Len(from) < Len(p)
  BY <1>1, LenProperties DEF IsUnder
<1>5. Len(p) = Len(q)
  BY <1>2, <1>3, <1>4
<1>6. ASSUME NEW i \in 1 .. Len(p) PROVE p[i] = q[i]
  <2>1. CASE i <= Len(from)
    BY <1>2, <1>3, <1>4, <2>1
  <2>2. CASE i > Len(from)
    <3>1. i - Len(from) \in 1 .. Len(p) - Len(from) /\ Len(from) + (i - Len(from)) = i
      BY <1>4, <2>2
    <3>2. /\ Moved(p, from, to)[Len(to) + (i - Len(from))] = p[i]
          /\ Moved(q, from, to)[Len(to) + (i - Len(from))] = q[i]
      BY <1>2, <1>3, <1>5, <3>1
    <3> QED  BY <3>2
  <2> QED  BY <1>4, <2>1, <2>2
<1> QED  BY <1>1, <1>5, <1>6, SeqEqual

-----------------------------------------------------------------------------
\* Identities follow their files.

\* No two files share a path.
Apart == \A o1, o2 \in Objects : at[o1] # None /\ at[o1] = at[o2] => o1 = o2

\* Every path leads to the identity of the file that vault v has there.
Follows(indexOf, ownerOf, v) ==
  \A p \in Paths : indexOf[p] # None => v[ownerOf[indexOf[p]]] = p

\* From vault v to vault w nothing that an identity can follow happened but what
\* the mutation tells; files may have come into being.
Leads(task, v, w) ==
  /\ task.kind = "resolve" => v[task.file] = task.path
  /\ \A o \in Objects :
       v[o] # None =>
         CASE task.kind = "resolve" -> w[o] = v[o]
           [] task.kind = "rename"  -> w[o] = IF v[o] = task.from THEN task.to ELSE v[o]
           [] task.kind = "delete"  -> v[o] # task.path => w[o] = v[o]
           [] task.kind = "renameFolder" ->
                w[o] = IF IsUnder(v[o], task.from) THEN Moved(v[o], task.from, task.to) ELSE v[o]

Vaults == [Objects -> Paths \union {None}]

\* The vault was h[i] when mutation i + 1 was asked for.
Retold(h, q, v) ==
  /\ h \in [0 .. Len(q) -> Vaults] /\ h[Len(q)] = v
  /\ \A i \in 1 .. Len(q) : Leads(q[i], h[i - 1], h[i])

\* The waiting mutations retell what happened to the vault since the registry
\* last followed it; until they have run, the file on disk is the empty one the
\* reset saved.
FollowInv ==
  /\ Apart
  /\ clearing => entries = NoEntries /\ index = NoIndex
  /\ ~clearing /\ queue # <<>> => saved # None /\ saved.entries = NoEntries
  /\ ~lost => \E h : Retold(h, queue, at) /\ Follows(index, owner, h[0])

\* What an identity follows is known to the vault.
LEMMA OwnerIsFile ==
  ASSUME TypeOK, Given(index), NEW p \in Paths, index[p] # None
  PROVE  index[p] \in Ids /\ owner[index[p]] \in Objects
BY DEF TypeOK, Given

\* A mutation run when its turn comes finds the vault it was asked for.
LEMMA RunFollows ==
  ASSUME RegistryInv, NEW task \in Task, Run(task), NEW v \in Vaults, NEW w \in Vaults,
         Leads(task, v, w), Follows(index, owner, v)
  PROVE  Follows(index', owner', w)
<1> SUFFICES ASSUME NEW p \in Paths, index'[p] # None
             PROVE  w[owner'[index'[p]]] = p
  BY DEF Follows
<1>1. TypeOK /\ Given(index)
  BY DEF RegistryInv
<1>2. p # None
  BY NamesAreNotNone
<1>3. ASSUME NEW q \in Paths, index[q] # None
      PROVE  index[q] \in Ids /\ owner[index[q]] \in Objects /\ v[owner[index[q]]] = q
  BY <1>1, <1>3, OwnerIsFile DEF Follows
<1>4. CASE task.kind = "resolve"
  <2>1. task.path \in Paths /\ task.file \in Objects /\ Resolve(task.path, task.file)
    BY <1>4 DEF Task, Run
  <2>2. v[task.file] = task.path /\ \A o \in Objects : v[o] # None => w[o] = v[o]
    BY <1>4 DEF Leads
  <2>3. CASE index' = index /\ owner' = owner
    BY <1>2, <1>3, <2>2, <2>3
  <2>4. CASE ~(index' = index /\ owner' = owner)
    <3>1. index[task.path] = None
      BY <2>1, <2>4 DEF Resolve, Observe, registry
    <3>2. PICK id \in Ids : /\ owner[id] = None
                            /\ index' = [index EXCEPT ![task.path] = id]
                            /\ owner' = [owner EXCEPT ![id] = task.file]
      BY <2>1, <2>4, <3>1 DEF Resolve, Observe, registry
    <3>3. CASE p = task.path
      <4>1. index'[p] = id /\ owner'[id] = task.file
        BY <1>1, <3>2, <3>3 DEF TypeOK
      <4> QED  BY <1>2, <2>1, <2>2, <3>3, <4>1
    <3>4. CASE p # task.path
      <4>1. index'[p] = index[p] /\ index[p] # None
        BY <1>1, <3>2, <3>4 DEF TypeOK
      <4>2. index[p] # id
        BY <1>3, <3>2, <4>1, NamesAreNotNone
      <4>3. owner'[index[p]] = owner[index[p]]
        BY <1>1, <1>3, <3>2, <4>1, <4>2 DEF TypeOK
      <4> QED  BY <1>2, <1>3, <2>2, <4>1, <4>3
    <3> QED  BY <3>3, <3>4
  <2> QED  BY <2>3, <2>4
<1>5. CASE task.kind = "rename"
  <2>1. task.from \in Paths /\ task.to \in Paths /\ Rename(task.from, task.to)
    BY <1>5 DEF Task, Run
  <2>2. \A o \in Objects : v[o] # None => w[o] = IF v[o] = task.from THEN task.to ELSE v[o]
    BY <1>5 DEF Leads
  <2>3. owner' = owner
    BY <2>1 DEF Rename
  <2>4. CASE index[task.from] = None
    <3>1. index' = index
      BY <2>1, <2>4 DEF Rename, registry
    <3>2. p # task.from
      BY <2>4, <3>1
    <3> QED  BY <1>2, <1>3, <2>2, <2>3, <3>1, <3>2
  <2>5. CASE index[task.from] # None
    <3>1. index' = [index EXCEPT ![task.from] = None, ![task.to] = index[task.from]]
      BY <2>1, <2>5 DEF Rename
    <3>2. CASE p = task.to
      <4>1. index'[p] = index[task.from]
        BY <1>1, <2>1, <3>1, <3>2 DEF TypeOK
      <4>2. owner[index[task.from]] \in Objects /\ v[owner[index[task.from]]] = task.from
        BY <1>3, <2>1, <2>5
      <4> QED  BY <2>1, <2>2, <2>3, <3>2, <4>1, <4>2, NamesAreNotNone
    <3>3. CASE p # task.to
      <4>1. p # task.from /\ index'[p] = index[p] /\ index[p] # None
        BY <1>1, <2>1, <3>1, <3>3 DEF TypeOK
      <4> QED  BY <1>2, <1>3, <2>2, <2>3, <4>1
    <3> QED  BY <3>2, <3>3
  <2> QED  BY <2>4, <2>5
<1>6. CASE task.kind = "delete"
  <2>1. task.path \in Paths /\ Delete(task.path)
    BY <1>6 DEF Task, Run
  <2>2. \A o \in Objects : v[o] # None /\ v[o] # task.path => w[o] = v[o]
    BY <1>6 DEF Leads
  <2>3. owner' = owner
    BY <2>1 DEF Delete
  <2>4. p # task.path /\ index'[p] = index[p] /\ index[p] # None
    BY <1>1, <2>1 DEF Delete, registry, TypeOK
  <2> QED  BY <1>2, <1>3, <2>2, <2>3, <2>4
<1>7. CASE task.kind = "renameFolder"
  <2>1. /\ task.from \in Folders /\ task.to \in Folders
        /\ RenameFolder(task.from, task.to)
    BY <1>7 DEF Task, Run
  <2>2. \A o \in Objects : v[o] # None =>
           w[o] = IF IsUnder(v[o], task.from) THEN Moved(v[o], task.from, task.to) ELSE v[o]
    BY <1>7 DEF Leads
  <2> DEFINE Source == {q \in Paths : /\ IsUnder(q, task.from) /\ index[q] # None
                                      /\ Moved(q, task.from, task.to) = p}
             origin == CHOOSE q \in Source : TRUE
  <2>3. /\ owner' = owner
        /\ index'[p] = IF Source # {} THEN index[origin]
                       ELSE IF IsUnder(p, task.from) THEN None ELSE index[p]
    BY <2>1 DEF RenameFolder
  <2>4. CASE Source # {}
    <3>1. origin \in Source
      BY <2>4
    <3>2. /\ origin \in Paths /\ IsUnder(origin, task.from) /\ index[origin] # None
          /\ Moved(origin, task.from, task.to) = p
      BY <3>1
    <3>3. index'[p] = index[origin]
      BY <2>3, <2>4
    <3> HIDE DEF origin, Source
    <3> QED  BY <1>3, <2>2, <2>3, <3>2, <3>3, NamesAreNotNone
  <2>5. CASE Source = {}
    <3> HIDE DEF Source
    <3>1. ~IsUnder(p, task.from) /\ index'[p] = index[p] /\ index[p] # None
      BY <2>3, <2>5
    <3> QED  BY <1>2, <1>3, <2>2, <2>3, <3>1
  <2> QED  BY <2>4, <2>5
<1> QED  BY <1>4, <1>5, <1>6, <1>7 DEF Task

\* The retelling of no mutation.
LEMMA NothingRetold ==
  ASSUME NEW v \in Vaults, NEW i, NEW o, Follows(i, o, v)
  PROVE  \E h : Retold(h, <<>>, v) /\ Follows(i, o, h[0])
<1> DEFINE h == [n \in 0 .. 0 |-> v]
<1>1. h \in [0 .. 0 -> Vaults] /\ h[0] = v /\ Len(<<>>) = 0
  OBVIOUS
<1> HIDE DEF h
<1>2. Retold(h, <<>>, v)
  BY <1>1 DEF Retold
<1> QED  BY <1>1, <1>2

LEMMA RetoldNothing ==
  ASSUME NEW h, NEW v, Retold(h, <<>>, v)
  PROVE  h[0] = v
BY DEF Retold

\* One mutation more waits.
LEMMA RetoldLonger ==
  ASSUME NEW q \in Seq(Task), NEW task \in Task, NEW h, NEW v, NEW w \in Vaults,
         Retold(h, q, v), Leads(task, v, w)
  PROVE  \E k : Retold(k, Append(q, task), w) /\ k[0] = h[0]
<1> DEFINE n == Len(q)
           r == Append(q, task)
           k == [i \in 0 .. n + 1 |-> IF i <= n THEN h[i] ELSE w]
<1>1. /\ n \in Nat /\ h \in [0 .. n -> Vaults] /\ h[n] = v
      /\ \A i \in 1 .. n : Leads(q[i], h[i - 1], h[i])
  BY LenProperties DEF Retold
<1>2. /\ Len(r) = n + 1 /\ r[n + 1] = task
      /\ \A i \in 1 .. n : r[i] = q[i]
  BY AppendProperties
<1>3. /\ k \in [0 .. n + 1 -> Vaults] /\ k[n + 1] = w
      /\ \A i \in 0 .. n : k[i] = h[i]
  <2>1. \A i \in 0 .. n + 1 : (IF i <= n THEN h[i] ELSE w) \in Vaults
    BY <1>1
  <2> QED  BY <1>1, <2>1
<1> HIDE DEF n, k, r
<1>4. ASSUME NEW i \in 1 .. n + 1
      PROVE  Leads(r[i], k[i - 1], k[i])
  <2>1. CASE i \in 1 .. n
    <3>1. i - 1 \in 0 .. n /\ i \in 0 .. n
      BY <1>1, <2>1
    <3> QED  BY <1>1, <1>2, <1>3, <2>1, <3>1
  <2>2. CASE i = n + 1
    <3>1. i - 1 = n /\ n \in 0 .. n
      BY <1>1, <2>2
    <3> QED  BY <1>1, <1>2, <1>3, <2>2, <3>1
  <2> QED  BY <1>1, <2>1, <2>2
<1>5. k[0] = h[0]
  BY <1>1, <1>3
<1>6. Retold(k, r, w)
  BY <1>2, <1>3, <1>4 DEF Retold
<1> QED  BY <1>5, <1>6 DEF r

\* The first mutation has run.
LEMMA RetoldShorter ==
  ASSUME NEW q \in Seq(Task), q # <<>>, NEW h, NEW v, Retold(h, q, v)
  PROVE  /\ h[0] \in Vaults /\ h[1] \in Vaults /\ Leads(Head(q), h[0], h[1])
         /\ \E k : Retold(k, Tail(q), v) /\ k[0] = h[1]
<1> DEFINE n == Len(q)
           r == Tail(q)
           k == [i \in 0 .. n - 1 |-> h[i + 1]]
<1>1. /\ n \in Nat \ {0} /\ h \in [0 .. n -> Vaults] /\ h[n] = v
      /\ \A i \in 1 .. n : Leads(q[i], h[i - 1], h[i])
  BY LenProperties, EmptySeq DEF Retold
<1>2. Len(r) = n - 1 /\ \A i \in 1 .. n - 1 : r[i] = q[i + 1]
  BY HeadTailProperties
<1>3. Head(q) = q[1]
  OBVIOUS
<1>4. /\ k \in [0 .. n - 1 -> Vaults] /\ \A i \in 0 .. n - 1 : k[i] = h[i + 1]
  <2>1. \A i \in 0 .. n - 1 : h[i + 1] \in Vaults
    BY <1>1
  <2> QED  BY <2>1
<1> HIDE DEF n, k, r
<1>5. ASSUME NEW i \in 1 .. n - 1
      PROVE  Leads(r[i], k[i - 1], k[i])
  <2>1. i - 1 \in 0 .. n - 1 /\ i \in 0 .. n - 1 /\ i + 1 \in 1 .. n /\ i - 1 + 1 = i
        /\ i + 1 - 1 = i
    BY <1>1
  <2>2. k[i - 1] = h[i] /\ k[i] = h[i + 1]
    BY <1>4, <2>1
  <2>3. Leads(q[i + 1], h[i], h[i + 1])
    BY <1>1, <2>1
  <2> QED  BY <1>2, <2>2, <2>3
<1>6. k[n - 1] = v /\ k[0] = h[1]
  BY <1>1, <1>4
<1>7. Retold(k, r, v)
  BY <1>2, <1>4, <1>5, <1>6 DEF Retold
<1>8. h[0] \in Vaults /\ h[1] \in Vaults /\ Leads(q[1], h[0], h[1])
  <2>1. 0 \in 0 .. n /\ 1 \in 0 .. n /\ 1 \in 1 .. n /\ 1 - 1 = 0
    BY <1>1
  <2> QED  BY <1>1, <2>1
<1> QED  BY <1>3, <1>6, <1>7, <1>8 DEF r

\* A file that comes into being was asked for by nobody yet.
LEMMA RetoldGrows ==
  ASSUME NEW q \in Seq(Task), NEW h, NEW v \in Vaults, NEW w \in Vaults, Retold(h, q, v),
         \A o \in Objects : v[o] # None => w[o] = v[o],
         NEW i, NEW own, Follows(i, own, h[0]),
         \A p \in Paths : i[p] # None => own[i[p]] \in Objects
  PROVE  \E k : Retold(k, q, w) /\ Follows(i, own, k[0])
<1> DEFINE n == Len(q)
           k == [h EXCEPT ![n] = w]
<1>1. /\ n \in Nat /\ h \in [0 .. n -> Vaults] /\ h[n] = v
      /\ \A j \in 1 .. n : q[j] \in Task /\ Leads(q[j], h[j - 1], h[j])
  BY LenProperties DEF Retold
<1>2. /\ k \in [0 .. n -> Vaults] /\ k[n] = w
      /\ \A j \in 0 .. n - 1 : k[j] = h[j]
  BY <1>1
<1> HIDE DEF n, k
<1>3. ASSUME NEW j \in 1 .. n
      PROVE  Leads(q[j], k[j - 1], k[j])
  <2>1. j - 1 \in 0 .. n - 1 /\ k[j - 1] = h[j - 1] /\ h[j - 1] \in Vaults
    BY <1>1, <1>2
  <2>2. CASE j # n
    <3>1. j \in 0 .. n - 1
      BY <1>1, <2>2
    <3> QED  BY <1>1, <1>2, <2>1, <3>1
  <2>3. CASE j = n
    <3> DEFINE u == h[j - 1]
    <3>1. Leads(q[j], u, v) /\ q[j] \in Task /\ u \in Vaults
      BY <1>1, <2>1, <2>3
    <3> HIDE DEF u
    <3>2. q[j].kind = "resolve" => u[q[j].file] = q[j].path
      BY <3>1 DEF Leads
    <3>3. ASSUME NEW o \in Objects, u[o] # None
          PROVE  CASE q[j].kind = "resolve" -> w[o] = u[o]
                   [] q[j].kind = "rename"  -> w[o] = IF u[o] = q[j].from THEN q[j].to ELSE u[o]
                   [] q[j].kind = "delete"  -> u[o] # q[j].path => w[o] = u[o]
                   [] q[j].kind = "renameFolder" ->
                        w[o] = IF IsUnder(u[o], q[j].from) THEN Moved(u[o], q[j].from, q[j].to)
                               ELSE u[o]
      <4>1. u[o] \in Paths /\ (v[o] # None => w[o] = v[o])
        BY <3>1, <3>3 DEF Vaults
      <4>2. CASE q[j].kind = "resolve"
        BY <3>1, <3>3, <4>1, <4>2 DEF Leads
      <4>3. CASE q[j].kind = "rename"
        <5>1. q[j].to \in Paths
          BY <3>1, <4>3 DEF Task
        <5> QED  BY <3>1, <3>3, <4>1, <4>3, <5>1, NamesAreNotNone DEF Leads
      <4>4. CASE q[j].kind = "delete"
        BY <3>1, <3>3, <4>1, <4>4 DEF Leads
      <4>5. CASE q[j].kind = "renameFolder"
        <5>1. q[j].from \in Folders /\ q[j].to \in Folders
          BY <3>1, <4>5 DEF Task
        <5>2. IsUnder(u[o], q[j].from) => Moved(u[o], q[j].from, q[j].to) \in Paths
          BY <4>1, <5>1, RegistryAssumption
        <5> QED  BY <3>1, <3>3, <4>1, <4>5, <5>2, NamesAreNotNone DEF Leads
      <4> QED  BY <3>1, <4>2, <4>3, <4>4, <4>5 DEF Task
    <3>4. Leads(q[j], u, w)
      BY <3>2, <3>3 DEF Leads
    <3> QED  BY <1>2, <2>1, <2>3, <3>4 DEF u
  <2> QED  BY <2>2, <2>3
<1>4. Retold(k, q, w)
  BY <1>2, <1>3 DEF Retold, n
<1>5. Follows(i, own, k[0])
  <2>1. CASE n = 0
    <3>1. k[0] = w /\ h[0] = v
      BY <1>1, <1>2, <2>1
    <3> QED  BY <3>1, NamesAreNotNone DEF Follows
  <2>2. CASE n # 0
    <3>1. k[0] = h[0]
      BY <1>1, <1>2, <2>2
    <3> QED  BY <3>1
  <2> QED  BY <2>1, <2>2
<1> QED  BY <1>4, <1>5

\* A vault event that asks for a mutation: it runs at once, or waits.
LEMMA SerializeFollows ==
  ASSUME RegistryInv, FollowInv, NEW task \in Task, Serialize(task),
         at' \in Vaults, Leads(task, at, at'), Apart', UNCHANGED lost
  PROVE  FollowInv'
<1>1. TypeOK /\ Given(index) /\ at \in Vaults /\ queue \in Seq(Task)
  BY DEF RegistryInv, TypeOK, Vaults
<1>2. CASE clearing
  <2>1. /\ queue' = Append(queue, task) /\ clearing' = clearing
        /\ UNCHANGED <<entries, index, owner>>
    BY <1>2 DEF Serialize, registry
  <2>2. ASSUME ~lost
        PROVE  \E k : Retold(k, queue', at') /\ Follows(index', owner', k[0])
    <3>1. PICK h : Retold(h, queue, at) /\ Follows(index, owner, h[0])
      BY <2>2 DEF FollowInv
    <3>2. PICK k : Retold(k, Append(queue, task), at') /\ k[0] = h[0]
      BY <1>1, <3>1, RetoldLonger
    <3> QED  BY <2>1, <3>1, <3>2
  <2> QED  BY <1>2, <2>1, <2>2 DEF FollowInv
<1>3. CASE ~clearing
  <2>1. queue = <<>> /\ queue' = <<>> /\ clearing' = clearing /\ Run(task)
    BY <1>3 DEF Serialize, Settled
  <2>2. ASSUME ~lost
        PROVE  \E k : Retold(k, queue', at') /\ Follows(index', owner', k[0])
    <3>1. PICK h : Retold(h, queue, at) /\ Follows(index, owner, h[0])
      BY <2>2 DEF FollowInv
    <3>2. Follows(index, owner, at)
      BY <2>1, <3>1, RetoldNothing
    <3>3. Follows(index', owner', at')
      BY <1>1, <2>1, <3>2, RunFollows
    <3> QED  BY <2>1, <3>3, NothingRetold
  <2> QED  BY <1>3, <2>1, <2>2 DEF FollowInv
<1> QED  BY <1>2, <1>3

LEMMA VaultEventFollows ==
  ASSUME RegistryInv, FollowInv, VaultEvent
  PROVE  FollowInv'
<1>1. TypeOK /\ Given(index) /\ at \in Vaults /\ queue \in Seq(Task) /\ Apart
  BY DEF RegistryInv, TypeOK, Vaults, FollowInv
<1>2. ASSUME NEW o \in Objects, NEW path \in Paths, CreateFile(o, path)
      PROVE  FollowInv'
  <2>1. /\ at[o] = None /\ at' = [at EXCEPT ![o] = path] /\ \A x \in Objects : at[x] # path
        /\ UNCHANGED <<entries, index, owner, saved, queue, clearing, lost>>
    BY <1>2, NamesAreNotNone DEF CreateFile, Occupied, registry, files, ghosts
  <2>2. at' \in Vaults /\ \A x \in Objects : at[x] # None => at'[x] = at[x]
    BY <1>1, <2>1 DEF Vaults
  <2>3. Apart'
    BY <1>1, <2>1 DEF Apart, Vaults
  <2>4. ASSUME ~lost
        PROVE  \E k : Retold(k, queue, at') /\ Follows(index, owner, k[0])
    <3>1. PICK h : Retold(h, queue, at) /\ Follows(index, owner, h[0])
      BY <2>4 DEF FollowInv
    <3>2. \A p \in Paths : index[p] # None => owner[index[p]] \in Objects
      BY <1>1, OwnerIsFile
    <3> QED  BY <1>1, <2>2, <3>1, <3>2, RetoldGrows
  <2> QED  BY <2>1, <2>3, <2>4 DEF FollowInv
<1>3. ASSUME NEW o \in Objects, NEW path \in Paths, RenameFile(o, path)
      PROVE  FollowInv'
  <2> DEFINE task == [kind |-> "rename", from |-> at[o], to |-> path]
  <2>1. /\ at[o] # None /\ at' = [at EXCEPT ![o] = path] /\ \A x \in Objects : at[x] # path
        /\ Serialize(task) /\ UNCHANGED lost
    BY <1>3, NamesAreNotNone DEF RenameFile, Occupied
  <2>2. task \in Task /\ task.kind = "rename" /\ task.from = at[o] /\ task.to = path
    BY <1>1, <2>1 DEF Task, Vaults
  <2> HIDE DEF task
  <2>3. at' \in Vaults /\ Apart'
    BY <1>1, <2>1 DEF Apart, Vaults
  <2>4. \A x \in Objects : at[x] # None => at'[x] = IF at[x] = at[o] THEN path ELSE at[x]
    BY <1>1, <2>1 DEF Apart, Vaults
  <2>5. Leads(task, at, at')
    BY <2>2, <2>4 DEF Leads
  <2> QED  BY <2>1, <2>2, <2>3, <2>5, SerializeFollows
<1>4. ASSUME NEW o \in Objects, OpenFile(o)
      PROVE  FollowInv'
  <2> DEFINE task == [kind |-> "resolve", file |-> o, path |-> at[o]]
  <2>1. at[o] # None /\ at' = at /\ Serialize(task) /\ UNCHANGED lost
    BY <1>4 DEF OpenFile
  <2>2. task \in Task /\ task.kind = "resolve" /\ task.file = o /\ task.path = at[o]
    BY <1>1, <2>1 DEF Task, Vaults
  <2> HIDE DEF task
  <2>3. Leads(task, at, at') /\ Apart'
    BY <1>1, <2>1, <2>2 DEF Leads, Apart
  <2> QED  BY <1>1, <2>1, <2>2, <2>3, SerializeFollows
<1>5. ASSUME NEW o \in Objects, DeleteFile(o)
      PROVE  FollowInv'
  <2> DEFINE task == [kind |-> "delete", path |-> at[o]]
  <2>1. at[o] # None /\ at' = [at EXCEPT ![o] = None] /\ Serialize(task) /\ UNCHANGED lost
    BY <1>5 DEF DeleteFile
  <2>2. task \in Task /\ task.kind = "delete" /\ task.path = at[o]
    BY <1>1, <2>1 DEF Task, Vaults
  <2> HIDE DEF task
  <2>3. at' \in Vaults /\ Apart'
    BY <1>1, <2>1 DEF Apart, Vaults
  <2>4. \A x \in Objects : at[x] # None /\ at[x] # at[o] => at'[x] = at[x]
    BY <1>1, <2>1 DEF Vaults
  <2>5. Leads(task, at, at')
    BY <2>2, <2>4 DEF Leads
  <2> QED  BY <2>1, <2>2, <2>3, <2>5, SerializeFollows
<1>6. ASSUME NEW from \in Folders, NEW to \in Folders, MoveFolder(from, to)
      PROVE  FollowInv'
  <2> DEFINE task == [kind |-> "renameFolder", from |-> from, to |-> to]
  <2>1. /\ at' = [o \in Objects |-> IF o \in Under(from) THEN Moved(at[o], from, to) ELSE at[o]]
        /\ Under(to) = {} /\ Serialize(task) /\ UNCHANGED lost
    BY <1>6 DEF MoveFolder
  <2>2. task \in Task /\ task.kind = "renameFolder" /\ task.from = from /\ task.to = to
    BY DEF Task
  <2> HIDE DEF task
  <2>3. ASSUME NEW o \in Objects, at[o] # None
        PROVE  /\ at[o] \in Paths
               /\ IsUnder(at[o], from) =>
                    /\ at'[o] = Moved(at[o], from, to) /\ at'[o] \in Paths /\ IsUnder(at'[o], to)
               /\ ~IsUnder(at[o], from) => at'[o] = at[o]
               /\ ~IsUnder(at[o], to)
    <3>1. at[o] \in Paths
      BY <1>1, <2>3 DEF Vaults
    <3>2. IsUnder(at[o], from) =>
            Moved(at[o], from, to) \in Paths /\ IsUnder(Moved(at[o], from, to), to)
      BY <3>1, MovedPath, RegistryAssumption
    <3>3. at'[o] = IF IsUnder(at[o], from) THEN Moved(at[o], from, to) ELSE at[o]
      BY <2>1, <2>3 DEF Under
    <3>4. ~IsUnder(at[o], to)
      BY <2>1, <2>3 DEF Under
    <3> QED  BY <3>1, <3>2, <3>3, <3>4
  <2>4. \A o \in Objects : at[o] = None => at'[o] = None
    BY <2>1 DEF Under
  <2>5. at' \in Vaults
    <3>1. \A o \in Objects : at'[o] \in Paths \union {None}
      BY <2>3, <2>4
    <3>2. at' = [o \in Objects |-> at'[o]]
      BY <2>1
    <3> QED  BY <3>1, <3>2 DEF Vaults
  <2>6. ASSUME NEW o1 \in Objects, NEW o2 \in Objects, at'[o1] # None, at'[o1] = at'[o2]
        PROVE  o1 = o2
    <3>1. at[o1] # None /\ at[o2] # None
      BY <2>4, <2>6
    <3>2. CASE IsUnder(at[o1], from) <=> IsUnder(at[o2], from)
      <4>1. at[o1] = at[o2]
        BY <2>3, <2>6, <3>1, <3>2, MovedApart
      <4> QED  BY <1>1, <3>1, <4>1 DEF Apart
    <3>3. CASE IsUnder(at[o1], from) /\ ~IsUnder(at[o2], from)
      BY <2>3, <2>6, <3>1, <3>3
    <3>4. CASE ~IsUnder(at[o1], from) /\ IsUnder(at[o2], from)
      BY <2>3, <2>6, <3>1, <3>4
    <3> QED  BY <3>2, <3>3, <3>4
  <2>7. Leads(task, at, at')
    BY <2>2, <2>3 DEF Leads
  <2>8. Apart'
    BY <2>6 DEF Apart
  <2> QED  BY <2>1, <2>2, <2>5, <2>7, <2>8, SerializeFollows
<1>7. ASSUME NEW folder \in Folders, DeleteFolder(folder)
      PROVE  FollowInv'
  <2> DEFINE gone == {p \in Paths : IsUnder(p, folder) /\ index[p] # None}
  <2>1. /\ at' = [o \in Objects |-> IF o \in Under(folder) THEN None ELSE at[o]]
        /\ index' = [p \in Paths |-> IF p \in gone THEN None ELSE index[p]]
        /\ entries' = [id \in Ids |->
             IF \E p \in gone : index[p] = id THEN [entries[id] EXCEPT !.current = None]
             ELSE entries[id]]
        /\ lost' = (lost \/ queue # <<>>)
        /\ UNCHANGED <<saved, queue, clearing, owner>> /\ Settled
    BY <1>7, Zenon DEF DeleteFolder, files
  <2>2. at' \in Vaults /\ Apart'
    BY <1>1, <2>1 DEF Apart, Vaults
  <2>3. clearing => entries' = NoEntries /\ index' = NoIndex
    <3> SUFFICES ASSUME clearing PROVE entries' = NoEntries /\ index' = NoIndex
      OBVIOUS
    <3>1. entries = NoEntries /\ index = NoIndex
      BY DEF FollowInv
    <3>2. \A p \in Paths : index[p] = None
      BY <3>1 DEF NoIndex
    <3>3. gone = {}
      BY <3>2
    <3> HIDE DEF gone
    <3>4. index' = [p \in Paths |-> index[p]] /\ entries' = [id \in Ids |-> entries[id]]
      BY <2>1, <3>3
    <3> QED  BY <3>1, <3>4 DEF NoIndex, NoEntries
  <2>4. ASSUME ~lost'
        PROVE  \E k : Retold(k, queue', at') /\ Follows(index', owner', k[0])
    <3>1. ~lost /\ queue = <<>>
      BY <2>1, <2>4
    <3>2. PICK h : Retold(h, queue, at) /\ Follows(index, owner, h[0])
      BY <3>1 DEF FollowInv
    <3>3. Follows(index, owner, at)
      BY <3>1, <3>2, RetoldNothing
    <3>4. ASSUME NEW p \in Paths, index'[p] # None
          PROVE  at'[owner[index'[p]]] = p
      <4>1. ~IsUnder(p, folder) /\ index'[p] = index[p] /\ index[p] # None
        BY <2>1, <3>4
      <4>2. owner[index[p]] \in Objects /\ at[owner[index[p]]] = p
        BY <1>1, <3>3, <4>1, OwnerIsFile DEF Follows
      <4> QED  BY <2>1, <4>1, <4>2 DEF Under
    <3>5. Follows(index', owner', at')
      BY <2>1, <3>4 DEF Follows
    <3> QED  BY <2>1, <2>2, <3>1, <3>5, NothingRetold
  <2> HIDE DEF gone
  <2> QED  BY <2>1, <2>2, <2>3, <2>4 DEF FollowInv, Settled
<1> QED  BY <1>2, <1>3, <1>4, <1>5, <1>6, <1>7 DEF VaultEvent

\* The mutation whose turn it is finds the vault it was asked for.
LEMMA RunQueuedFollows ==
  ASSUME RegistryInv, FollowInv, RunQueued
  PROVE  FollowInv'
<1>1. /\ queue \in Seq(Task) /\ queue # <<>> /\ Head(queue) \in Task /\ ~clearing
      /\ queue' = Tail(queue) /\ Run(Head(queue))
      /\ UNCHANGED <<at, clearing, saved, lost>>
  BY DEF RunQueued, RegistryInv, TypeOK
<1>2. ASSUME ~lost
      PROVE  \E k : Retold(k, queue', at') /\ Follows(index', owner', k[0])
  <2>1. PICK h : Retold(h, queue, at) /\ Follows(index, owner, h[0])
    BY <1>2 DEF FollowInv
  <2>2. h[0] \in Vaults /\ h[1] \in Vaults /\ Leads(Head(queue), h[0], h[1])
    BY <1>1, <2>1, RetoldShorter
  <2>3. PICK k : Retold(k, Tail(queue), at) /\ k[0] = h[1]
    BY <1>1, <2>1, RetoldShorter
  <2>4. Follows(index', owner', h[1])
    BY <1>1, <2>1, <2>2, RunFollows
  <2> QED  BY <1>1, <2>3, <2>4
<1>3. Apart'
  BY <1>1 DEF FollowInv, Apart
<1> QED  BY <1>1, <1>2, <1>3 DEF FollowInv

\* A restart that loses nothing finds the registry as it is; with mutations
\* still waiting there is nothing in it.
LEMMA RestartFollows ==
  ASSUME RegistryInv, FollowInv, Restart
  PROVE  FollowInv'
<1>1. /\ queue' = <<>> /\ clearing' = FALSE /\ UNCHANGED <<at, owner>>
      /\ lost' = (lost \/ saved' # Image)
      /\ entries' = IF saved' = None THEN NoEntries ELSE saved.entries
      /\ index' = IF saved' = None THEN NoIndex ELSE saved.index
      /\ saved' \in {saved, None}
  BY DEF Restart
<1>2. at \in Vaults /\ TypeOK /\ Consistent(entries, index)
  BY DEF RegistryInv, TypeOK, Vaults, IndexConsistent
<1>3. ASSUME ~lost'
      PROVE  \E k : Retold(k, queue', at') /\ Follows(index', owner', k[0])
  <2>1. ~lost /\ saved' = Image
    BY <1>1, <1>3
  <2>2. Image # None /\ Image.entries = entries /\ Image.index = index
    BY <1>2, RegistryIsImage DEF Image, TypeOK
  <2>3. saved = Image /\ index' = index /\ saved.entries = entries
    BY <1>1, <2>1, <2>2
  <2>4. CASE queue = <<>>
    <3>1. PICK h : Retold(h, queue, at) /\ Follows(index, owner, h[0])
      BY <2>1 DEF FollowInv
    <3> QED  BY <1>1, <2>3, <2>4, <3>1
  <2>5. CASE queue # <<>>
    <3>1. entries = NoEntries
      BY <2>3, <2>5 DEF FollowInv
    <3>2. \A p \in Paths : index[p] = None
      BY <1>2, <3>1 DEF Consistent, NoEntries, TypeOK
    <3>3. Follows(index', owner', at')
      BY <2>3, <3>2 DEF Follows
    <3> QED  BY <1>1, <1>2, <3>3, NothingRetold
  <2> QED  BY <2>4, <2>5
<1>4. Apart'
  BY <1>1 DEF FollowInv, Apart
<1> QED  BY <1>1, <1>3, <1>4 DEF FollowInv

LEMMA StepFollows == RegistryInv /\ FollowInv /\ [Next]_vars => FollowInv'
<1> SUFFICES ASSUME RegistryInv, FollowInv, [Next]_vars PROVE FollowInv'
  OBVIOUS
<1>1. CASE UNCHANGED vars
  BY <1>1 DEF vars, registry, files, ghosts, FollowInv, Apart
<1>2. CASE BeginClear
  <2>1. /\ queue = <<>> /\ queue' = <<>> /\ entries' = NoEntries /\ index' = NoIndex
        /\ UNCHANGED <<at, owner, saved, lost>> /\ clearing'
    BY <1>2 DEF BeginClear, Settled, files, ghosts
  <2>2. \E h : Retold(h, queue', at') /\ Follows(index', owner', h[0])
    <3>1. at \in Vaults
      BY DEF RegistryInv, TypeOK, Vaults
    <3>2. Follows(NoIndex, owner, at)
      BY DEF Follows, NoIndex
    <3> QED  BY <2>1, <3>1, <3>2, NothingRetold
  <2>3. Apart'
    BY <2>1 DEF FollowInv, Apart
  <2> QED  BY <2>1, <2>2, <2>3 DEF FollowInv
<1>3. CASE ClearSaved
  <2>1. /\ UNCHANGED <<at, entries, index, owner, queue, lost>> /\ ~clearing'
        /\ saved' = Image /\ entries = NoEntries
    BY <1>3 DEF ClearSaved, registry, ghosts, FollowInv
  <2>2. saved' # None /\ saved'.entries = NoEntries
    BY <2>1, RegistryIsImage DEF Image, RegistryInv, TypeOK
  <2> QED  BY <2>1, <2>2 DEF FollowInv, Apart
<1>4. CASE ResolveSaved
  <2>1. UNCHANGED <<at, entries, index, owner, queue, lost, clearing>> /\ Settled
    BY <1>4 DEF ResolveSaved, registry, ghosts
  <2> QED  BY <2>1 DEF FollowInv, Apart, Settled
<1> QED
  BY <1>1, <1>2, <1>3, <1>4, VaultEventFollows, RunQueuedFollows, RestartFollows DEF Next

LEMMA InitFollows == Init => FollowInv
<1> SUFFICES ASSUME Init PROVE FollowInv
  OBVIOUS
<1>1. at \in Vaults /\ Follows(index, owner, at) /\ Apart
  BY DEF Init, Vaults, Follows, NoIndex, Apart
<1> QED  BY <1>1, NothingRetold DEF Init, FollowInv

-----------------------------------------------------------------------------
\* Every reachable registry is typed and consistent, in memory, on its way to
\* the disk and on the disk, and a damaged file stops every save but a reset's
\* (file-registry.ts).
THEOREM RegistryInvariant == Spec => []RegistryInv
BY InitSatisfies, StepKeeps, PTL DEF Spec

\* The variables of the registry keep their types.
THEOREM RegistryTyped == Spec => []TypeOK
<1>1. RegistryInv => TypeOK
  BY DEF RegistryInv
<1> QED  BY <1>1, RegistryInvariant, PTL

\* No identity is ever at two paths and no indexed path leads astray, whatever
\* moves, deletions, resets, damage and restarts come in whatever order
\* (rename, delete, renameFolder, clear and load of file-registry.ts).
THEOREM NoIdentityAtTwoPaths == Spec => []IndexConsistent
<1>1. RegistryInv => IndexConsistent
  BY DEF RegistryInv
<1> QED  BY <1>1, RegistryInvariant, PTL

\* Only a reset replaces a damaged registry file (file-registry.ts:13-14).
THEOREM DamageIsKept == Spec => DamagedFileKept
<1>1. RegistryInv /\ [Next]_vars => (saved = None /\ saved' # None => clearing)
  <2> SUFFICES ASSUME RegistryInv, [Next]_vars, saved = None, saved' # None
               PROVE  clearing
    OBVIOUS
  <2>1. writing = None
    BY DEF RegistryInv, DamageStops
  <2>2. ~VaultEvent
    BY DEF VaultEvent, CreateFile, RenameFile, OpenFile, DeleteFile, MoveFolder, DeleteFolder,
           Serialize, files
  <2> QED
    BY <2>1, <2>2 DEF Next, vars, files, RunQueued, BeginClear, ClearSaved, ResolveSaved, Restart
<1> QED  BY <1>1, RegistryInvariant, PTL DEF Spec, DamagedFileKept

\* No file inherits the history of another: once the waiting mutations have run,
\* the identity at a path is that of the file at that path, for any number of
\* files, folders and waiting mutations (rename, renameFolder, delete and the
\* serialized queue of file-registry.ts).
THEOREM IdentityIsTheFiles == Spec => []IdentityFollowsFile
<1>1. Spec => []FollowInv
  BY InitFollows, StepFollows, RegistryInvariant, PTL DEF Spec
<1>2. FollowInv => IdentityFollowsFile
  <2> SUFFICES ASSUME FollowInv, queue = <<>>, ~lost
               PROVE  \A p \in Paths : index[p] # None => at[owner[index[p]]] = p
    BY DEF IdentityFollowsFile
  <2>1. PICK h : Retold(h, queue, at) /\ Follows(index, owner, h[0])
    BY DEF FollowInv
  <2> QED  BY <2>1, RetoldNothing DEF Follows
<1> QED  BY <1>1, <1>2, PTL

-----------------------------------------------------------------------------
(* Sums of the map.                                                        *)

\* The sum of a chart is the sum of the library, whose facts SumTheorems states.
LEMMA Total == \A f, S : D!SumOver(S, f) = SumFunctionOnSet(f, S)
  BY DEF D!SumOver, D!SumFunctionOnSet, D!FoldFunctionOnSet, D!MapThenFoldSet,
         SumFunctionOnSet, FoldFunctionOnSet, MapThenFoldSet

\* No files, no time.
LEMMA TotalEmpty == \A f : D!SumOver({}, f) = 0
  BY Total, SumEmpty

\* Time is never negative.
LEMMA TotalType ==
  ASSUME NEW S, IsFiniteSet(S), NEW f, \A x \in S : f[x] \in Nat
  PROVE  D!SumOver(S, f) \in Nat
  BY Total, SumNotNegative

\* One file more adds its time.
LEMMA TotalWith ==
  ASSUME NEW S, IsFiniteSet(S), NEW x, x \notin S, NEW f, \A y \in S \cup {x} : f[y] \in Nat
  PROVE  D!SumOver(S \cup {x}, f) = D!SumOver(S, f) + f[x]
<1>1. IntOn(f, S \cup {x}) /\ IntOn(f, S)
  BY DEF IntOn
<1>2. SumFunctionOnSet(f, S \cup {x}) = f[x] + SumFunctionOnSet(f, S)
  BY <1>1, SumWith
<1>3. f[x] \in Int /\ SumFunctionOnSet(f, S) \in Int
  BY <1>1, SumType
<1> QED
  BY <1>2, <1>3, Total

\* A total depends on the values of its own files alone.
LEMMA TotalAgree ==
  ASSUME NEW S, IsFiniteSet(S), NEW f, NEW g, \A x \in S : f[x] \in Nat /\ f[x] = g[x]
  PROVE  D!SumOver(S, f) = D!SumOver(S, g)
<1>1. IntOn(f, S)
  BY DEF IntOn
<1> QED
  BY <1>1, Total, SumAgree

\* Separate sets of files add up.
LEMMA TotalUnion ==
  ASSUME NEW S, IsFiniteSet(S), NEW T, IsFiniteSet(T), S \cap T = {}, NEW f,
         \A x \in S \cup T : f[x] \in Nat
  PROVE  D!SumOver(S \cup T, f) = D!SumOver(S, f) + D!SumOver(T, f)
<1>1. IntOn(f, S \cup T)
  BY DEF IntOn
<1> QED
  BY <1>1, Total, SumUnion

\* The total of one file is its time.
LEMMA TotalOne ==
  ASSUME NEW x, NEW f, f[x] \in Nat
  PROVE  D!SumOver({x}, f) = f[x]
<1>1. D!SumOver({} \cup {x}, f) = D!SumOver({}, f) + f[x]
  BY FS_EmptySet, TotalWith
<1>2. {} \cup {x} = {x}
  OBVIOUS
<1> QED
  BY <1>1, <1>2, TotalEmpty

\* What is zero adds nothing.
LEMMA TotalZero ==
  ASSUME NEW S, IsFiniteSet(S), NEW f, \A x \in S : f[x] = 0
  PROVE  D!SumOver(S, f) = 0
<1> DEFINE Good == {T \in SUBSET S : D!SumOver(T, f) = 0}
<1>1. {} \in Good
  BY TotalEmpty
<1>2. ASSUME NEW T \in SUBSET S, NEW x \in S \ T, T \in Good PROVE T \cup {x} \in Good
  <2>1. IsFiniteSet(T) /\ x \notin T /\ f[x] = 0 /\ \A y \in T \cup {x} : f[y] \in Nat
    BY FS_Subset
  <2>2. D!SumOver(T \cup {x}, f) = D!SumOver(T, f) + f[x]
    BY <2>1, TotalWith
  <2>3. D!SumOver(T, f) = 0
    BY <1>2
  <2> QED
    BY <2>1, <2>2, <2>3
<1>3. S \in Good
  <2> HIDE DEF Good
  <2> QED
    BY <1>1, <1>2, SetInduction
<1> QED
  BY <1>3

\* Outside of where something is, there is nothing to add.
LEMMA TotalWhere ==
  ASSUME NEW S, IsFiniteSet(S), NEW T \in SUBSET S, NEW f, \A x \in S : f[x] \in Nat,
         \A x \in S \ T : f[x] = 0
  PROVE  D!SumOver(S, f) = D!SumOver(T, f)
<1>1. IsFiniteSet(T) /\ IsFiniteSet(S \ T) /\ T \cup (S \ T) = S /\ T \cap (S \ T) = {}
  BY FS_Subset
<1>2. D!SumOver(S, f) = D!SumOver(T, f) + D!SumOver(S \ T, f)
  <2> DEFINE R == S \ T
  <2>1. D!SumOver(T \cup R, f) = D!SumOver(T, f) + D!SumOver(R, f)
    BY <1>1, TotalUnion
  <2> QED
    BY <1>1, <2>1, Zenon
<1>3. D!SumOver(S \ T, f) = 0
  BY <1>1, TotalZero
<1>4. D!SumOver(T, f) \in Nat
  BY <1>1, TotalType
<1> QED
  BY <1>2, <1>3, <1>4

\* g holds the sums of the rows of f.
RowSums(A, B, f, row, g) ==
  \A b \in B : g[b] = D!SumOver(A, row[b]) /\ \A a \in A : row[b][a] = f[<<a, b>>]

\* Row by row or all at once.
LEMMA TotalByRows ==
  ASSUME NEW A, IsFiniteSet(A), NEW B, IsFiniteSet(B), NEW f, \A x \in A \X B : f[x] \in Nat,
         NEW row, NEW g, RowSums(A, B, f, row, g)
  PROVE  D!SumOver(A \X B, f) = D!SumOver(B, g)
<1>1. ASSUME NEW b \in B
      PROVE  g[b] \in Nat /\ IsFiniteSet(A \X {b}) /\ D!SumOver(A \X {b}, f) = g[b]
  <2> DEFINE Good == {T \in SUBSET A : IsFiniteSet(T \X {b})
                                       /\ D!SumOver(T \X {b}, f) = D!SumOver(T, row[b])}
  <2>0. \A y \in A : row[b][y] = f[<<y, b>>] /\ row[b][y] \in Nat
    BY DEF RowSums
  <2>1. {} \in Good
    BY FS_EmptySet, TotalEmpty
  <2>2. ASSUME NEW T \in SUBSET A, NEW x \in A \ T, T \in Good PROVE T \cup {x} \in Good
    <3>1. (T \cup {x}) \X {b} = (T \X {b}) \cup {<<x, b>>} /\ <<x, b>> \notin T \X {b}
      OBVIOUS
    <3>2. /\ IsFiniteSet((T \X {b}) \cup {<<x, b>>})
          /\ D!SumOver((T \X {b}) \cup {<<x, b>>}, f) = D!SumOver(T \X {b}, f) + f[<<x, b>>]
      <4> DEFINE old == T \X {b}
      <4>1. IsFiniteSet(old) /\ <<x, b>> \notin old /\ \A y \in old \cup {<<x, b>>} : f[y] \in Nat
        BY <2>2
      <4> HIDE DEF old
      <4>2. IsFiniteSet(old \cup {<<x, b>>})
            /\ D!SumOver(old \cup {<<x, b>>}, f) = D!SumOver(old, f) + f[<<x, b>>]
        <5>1. IsFiniteSet(old \cup {<<x, b>>})
          BY <4>1, FS_AddElement
        <5>2. D!SumOver(old \cup {<<x, b>>}, f) = D!SumOver(old, f) + f[<<x, b>>]
          BY <4>1, TotalWith
        <5> QED
          BY <5>1, <5>2
      <4> QED
        BY <4>2 DEF old
    <3>3. IsFiniteSet(T) /\ x \notin T /\ \A y \in T \cup {x} : row[b][y] \in Nat
      BY <2>0, FS_Subset
    <3>4. row[b][x] = f[<<x, b>>]
      BY <2>0
    <3>5. D!SumOver(T \cup {x}, row[b]) = D!SumOver(T, row[b]) + row[b][x]
      BY <3>3, TotalWith
    <3>6. D!SumOver(T \X {b}, f) = D!SumOver(T, row[b])
      BY <2>2
    <3>7. D!SumOver((T \cup {x}) \X {b}, f) = D!SumOver(T \cup {x}, row[b])
      BY <3>1, <3>2, <3>4, <3>5, <3>6, Zenon
    <3>8. IsFiniteSet((T \cup {x}) \X {b})
      BY <3>1, <3>2, Zenon
    <3> QED
      BY <3>7, <3>8
  <2>3. A \in Good
    <3> HIDE DEF Good
    <3> QED
      BY <2>1, <2>2, SetInduction
  <2>4. D!SumOver(A, row[b]) \in Nat
    BY <2>0, TotalType
  <2> QED
    BY <2>3, <2>4 DEF RowSums
<1> DEFINE Good == {T \in SUBSET B : IsFiniteSet(A \X T) /\ D!SumOver(A \X T, f) = D!SumOver(T, g)}
<1>2. {} \in Good
  BY FS_EmptySet, TotalEmpty
<1>3. ASSUME NEW T \in SUBSET B, NEW x \in B \ T, T \in Good PROVE T \cup {x} \in Good
  <2>1. A \X (T \cup {x}) = (A \X T) \cup (A \X {x}) /\ (A \X T) \cap (A \X {x}) = {}
    OBVIOUS
  <2>2. /\ IsFiniteSet((A \X T) \cup (A \X {x}))
        /\ D!SumOver((A \X T) \cup (A \X {x}), f) = D!SumOver(A \X T, f) + D!SumOver(A \X {x}, f)
    <3> DEFINE old == A \X T
               new == A \X {x}
    <3>1. IsFiniteSet(old) /\ IsFiniteSet(new) /\ old \cap new = {}
          /\ \A y \in old \cup new : f[y] \in Nat
      BY <1>1, <1>3
    <3> HIDE DEF old, new
    <3>2. IsFiniteSet(old \cup new)
          /\ D!SumOver(old \cup new, f) = D!SumOver(old, f) + D!SumOver(new, f)
      <4>1. IsFiniteSet(old \cup new)
        BY <3>1, FS_Union
      <4>2. D!SumOver(old \cup new, f) = D!SumOver(old, f) + D!SumOver(new, f)
        BY <3>1, TotalUnion
      <4> QED
        BY <4>1, <4>2
    <3> QED
      BY <3>2 DEF old, new
  <2>3. IsFiniteSet(T) /\ x \notin T /\ \A y \in T \cup {x} : g[y] \in Nat
    BY <1>1, FS_Subset
  <2>4. D!SumOver(T \cup {x}, g) = D!SumOver(T, g) + g[x]
    BY <2>3, TotalWith
  <2>5. D!SumOver(A \X T, f) = D!SumOver(T, g) /\ D!SumOver(A \X {x}, f) = g[x]
    BY <1>1, <1>3
  <2>6. /\ IsFiniteSet(A \X (T \cup {x}))
        /\ D!SumOver(A \X (T \cup {x}), f) = D!SumOver(T \cup {x}, g)
    BY <2>1, <2>2, <2>4, <2>5, Zenon
  <2> QED
    BY <2>6
<1>4. B \in Good
  <2> HIDE DEF Good
  <2> QED
    BY <1>2, <1>3, SetInduction
<1> QED
  BY <1>4

-----------------------------------------------------------------------------
(* Items and their chart.                                                  *)

\* Items with an id each and a value that counts.
Priced(items) ==
    /\ IsFiniteSet(items) /\ \A i \in items : i.value \in Nat
    /\ \A i, j \in items : i.id = j.id => i = j

\* The time of the items together.
Weight(items) == D!SumOver(items, [i \in items |-> i.value])

\* Some of the items weigh what their values add up to.
LEMMA WeightWithin ==
  ASSUME NEW items, IsFiniteSet(items), \A i \in items : i.value \in Nat, NEW T \in SUBSET items
  PROVE  Weight(T) = D!SumOver(T, [i \in items |-> i.value]) /\ Weight(T) \in Nat
<1> DEFINE w == [i \in items |-> i.value]
           v == [i \in T |-> i.value]
<1>1. IsFiniteSet(T) /\ \A i \in T : v[i] \in Nat /\ v[i] = w[i]
  BY FS_Subset
<1> HIDE DEF v, w
<1>2. D!SumOver(T, v) = D!SumOver(T, w) /\ D!SumOver(T, v) \in Nat
  BY <1>1, TotalAgree, TotalType
<1> QED
  BY <1>2 DEF v, w, Weight

\* Separate items add up.
LEMMA WeightUnion ==
  ASSUME NEW A, IsFiniteSet(A), NEW B, IsFiniteSet(B), A \cap B = {},
         \A i \in A \cup B : i.value \in Nat
  PROVE  Weight(A \cup B) = Weight(A) + Weight(B)
<1> DEFINE all == A \cup B
           w == [i \in all |-> i.value]
<1>1. IsFiniteSet(all)
  BY FS_Union
<1>2. D!SumOver(A \cup B, w) = D!SumOver(A, w) + D!SumOver(B, w)
  <2>1. \A i \in A \cup B : w[i] \in Nat
    OBVIOUS
  <2> HIDE DEF w
  <2> QED
    BY <2>1, TotalUnion
<1>3. Weight(A) = D!SumOver(A, w) /\ Weight(B) = D!SumOver(B, w) /\ Weight(all) = D!SumOver(all, w)
  BY <1>1, WeightWithin
<1> QED
  BY <1>2, <1>3

\* One item weighs its value.
LEMMA WeightOne ==
  ASSUME NEW i, i.value \in Nat
  PROVE  Weight({i}) = i.value
<1> DEFINE w == [j \in {i} |-> j.value]
<1>1. w[i] = i.value
  OBVIOUS
<1> HIDE DEF w
<1>2. D!SumOver({i}, w) = w[i]
  BY <1>1, TotalOne
<1> QED
  BY <1>1, <1>2 DEF w, Weight

\* Items without time weigh nothing.
LEMMA WeightZero ==
  ASSUME NEW items, IsFiniteSet(items), \A i \in items : i.value = 0
  PROVE  Weight(items) = 0
  BY TotalZero DEF Weight

\* What the property adds up, by the ids of the items, is their weight.
LEMMA ItemSumIsWeight ==
  ASSUME NEW items, Priced(items)
  PROVE  ItemSum(items) = Weight(items) /\ Weight(items) \in Nat
<1> DEFINE ids(T) == {i.id : i \in T}
           price == [k \in ids(items) |-> (CHOOSE i \in items : i.id = k).value]
           w == [i \in items |-> i.value]
           Good == {T \in SUBSET items :
                      IsFiniteSet(ids(T)) /\ D!SumOver(ids(T), price) = D!SumOver(T, w)}
<1>1. \A i \in items : price[i.id] = i.value /\ w[i] = i.value /\ i.value \in Nat
  <2> SUFFICES ASSUME NEW i \in items PROVE price[i.id] = i.value
    BY DEF Priced
  <2>1. (CHOOSE j \in items : j.id = i.id) = i
    BY DEF Priced
  <2> QED
    BY <2>1
<1> HIDE DEF price, w
<1>2. {} \in Good
  <2>1. ids({}) = {}
    OBVIOUS
  <2> QED
    BY <2>1, FS_EmptySet, TotalEmpty
<1>3. ASSUME NEW T \in SUBSET items, NEW x \in items \ T, T \in Good PROVE T \cup {x} \in Good
  <2> DEFINE old == ids(T)
  <2>1. ids(T \cup {x}) = old \cup {x.id} /\ x.id \notin old
    BY DEF Priced
  <2>2. /\ IsFiniteSet(old) /\ IsFiniteSet(T) /\ D!SumOver(old, price) = D!SumOver(T, w)
        /\ \A k \in old \cup {x.id} : price[k] \in Nat
        /\ \A i \in T \cup {x} : w[i] \in Nat
        /\ price[x.id] = w[x]
    BY <1>1, <1>3, FS_Subset DEF Priced
  <2> HIDE DEF old
  <2>3. IsFiniteSet(old \cup {x.id})
    BY <2>2, FS_AddElement
  <2>4. D!SumOver(old \cup {x.id}, price) = D!SumOver(old, price) + price[x.id]
    BY <2>1, <2>2, TotalWith
  <2>5. D!SumOver(T \cup {x}, w) = D!SumOver(T, w) + w[x]
    BY <2>2, TotalWith
  <2>6. D!SumOver(ids(T \cup {x}), price) = D!SumOver(T \cup {x}, w)
    BY <2>1, <2>2, <2>4, <2>5, Zenon
  <2>7. IsFiniteSet(ids(T \cup {x}))
    BY <2>1, <2>3, Zenon
  <2> HIDE DEF ids
  <2> QED
    BY <2>6, <2>7
<1>4. items \in Good
  <2>1. IsFiniteSet(items)
    BY DEF Priced
  <2> HIDE DEF Good
  <2> QED
    BY <1>2, <1>3, <2>1, SetInduction
<1>5. D!SumOver(ids(items), price) = D!SumOver(items, w)
  BY <1>4
<1>6. Weight(items) \in Nat
  BY WeightWithin DEF Priced
<1> QED
  BY <1>5, <1>6 DEF price, w, ItemSum, Weight

\* Some item has the highest value.
LEMMA Highest ==
  ASSUME NEW S, IsFiniteSet(S), S # {}, \A i \in S : i.value \in Nat
  PROVE  \E i \in S : \A j \in S : i.value >= j.value
<1> DEFINE Good == {T \in SUBSET S : T = {} \/ \E i \in T : \A j \in T : i.value >= j.value}
<1>1. {} \in Good
  OBVIOUS
<1>2. ASSUME NEW T \in SUBSET S, NEW x \in S \ T, T \in Good PROVE T \cup {x} \in Good
  <2>1. CASE T = {}
    BY <2>1
  <2>2. CASE T # {}
    <3>1. PICK i \in T : \A j \in T : i.value >= j.value
      BY <1>2, <2>2
    <3>2. CASE x.value >= i.value
      <4>1. \A j \in T \cup {x} : x.value >= j.value
        BY <3>1, <3>2
      <4> QED
        BY <4>1
    <3>3. CASE ~(x.value >= i.value)
      <4>1. \A j \in T \cup {x} : i.value >= j.value
        BY <3>1, <3>3
      <4> QED
        BY <4>1
    <3> QED
      BY <3>2, <3>3
  <2> QED
    BY <2>1, <2>2
<1>3. S \in Good
  <2> HIDE DEF Good
  <2> QED
    BY <1>1, <1>2, SetInduction
<1> QED
  BY <1>3

\* The chart counts its items as the library does.
LEMMA Size == \A S : D!Cardinality(S) = Cardinality(S)
  BY Zenon DEF D!Cardinality, Cardinality

\* There are that many highest items.
LEMMA TopFound ==
  ASSUME NEW items, Priced(items), NEW most \in Nat, most <= Cardinality(items)
  PROVE  D!Top(items, most) \in SUBSET items
<1> DEFINE Above(top) == \A i \in top, j \in items \ top : i.value >= j.value
           Good == {n \in Nat : n <= Cardinality(items) =>
                      \E top \in SUBSET items : Cardinality(top) = n /\ Above(top)}
<1>0. IsFiniteSet(items) /\ Cardinality(items) \in Nat /\ \A i \in items : i.value \in Nat
  BY FS_CardinalityType DEF Priced
<1>1. 0 \in Good
  <2>1. Cardinality({}) = 0 /\ Above({})
    BY FS_EmptySet
  <2> QED
    BY <2>1
<1>2. ASSUME NEW n \in Nat, n \in Good PROVE n + 1 \in Good
  <2> SUFFICES ASSUME n + 1 <= Cardinality(items)
               PROVE  \E top \in SUBSET items : Cardinality(top) = n + 1 /\ Above(top)
    OBVIOUS
  <2>1. PICK top \in SUBSET items : Cardinality(top) = n /\ Above(top)
    BY <1>0, <1>2
  <2>2. items \ top # {} /\ IsFiniteSet(items \ top) /\ IsFiniteSet(top)
    <3>1. items # top
      BY <1>0, <2>1
    <3> QED
      BY <1>0, <3>1, FS_Subset
  <2>3. PICK x \in items \ top : \A j \in items \ top : x.value >= j.value
    BY <1>0, <2>2, Highest
  <2>4. Cardinality(top \cup {x}) = n + 1
    BY <2>1, <2>2, <2>3, FS_AddElement
  <2>5. Above(top \cup {x})
    BY <2>1, <2>3
  <2> QED
    BY <2>4, <2>5
<1>3. most \in Good
  <2> HIDE DEF Good
  <2> QED
    BY <1>1, <1>2, Induction
<1>4. \E top \in SUBSET items : Cardinality(top) = most /\ Above(top)
  BY <1>3
<1> QED
  BY <1>4, Size, Zenon DEF D!Top

\* The chart has the weight of the items, and shares no file if they do not.
LEMMA ChartKeeps ==
  ASSUME NEW items, Priced(items), \A i \in items : i.id # <<"other">>, NEW most \in Nat
  PROVE  LET chart == D!ChartItems(items, most)
         IN  /\ Priced(chart) /\ Weight(chart) = Weight(items)
             /\ (\A i, j \in items : i # j => i.members \cap j.members = {}) =>
                  \A i, j \in chart : i # j => i.members \cap j.members = {}
<1> DEFINE shown == D!Positive(items)
           hidden == items \ shown
           chart == D!ChartItems(items, most)
<1>1. /\ shown \subseteq items /\ IsFiniteSet(shown) /\ IsFiniteSet(hidden) /\ Priced(shown)
      /\ \A i \in items : i.value \in Nat
      /\ \A i \in hidden : i.value = 0
  BY FS_Subset DEF D!Positive, Priced
<1>2. Weight(shown) = Weight(items) /\ Weight(shown) \in Nat
  <2>1. shown \cup hidden = items /\ shown \cap hidden = {}
    BY <1>1
  <2>2. Weight(shown \cup hidden) = Weight(shown) + Weight(hidden)
    <3> HIDE DEF shown, hidden
    <3> QED
      BY <1>1, <2>1, WeightUnion
  <2>3. Weight(hidden) = 0 /\ Weight(shown) \in Nat
    <3> HIDE DEF shown, hidden
    <3> QED
      BY <1>1, WeightZero, WeightWithin
  <2>4. Weight(items) = Weight(shown) + Weight(hidden)
    BY <2>1, <2>2, Zenon
  <2> QED
    BY <2>3, <2>4
<1>3. CASE Cardinality(shown) <= most
  <2>1. chart = shown
    BY <1>3, Size DEF D!ChartItems
  <2> QED
    BY <1>1, <1>2, <2>1
<1>4. CASE ~(Cardinality(shown) <= most)
  <2> DEFINE top == D!Top(shown, most)
             rest == shown \ top
             other == D!Other(rest)
  <2>1. chart = top \cup {other}
    BY <1>4, Size DEF D!ChartItems
  <2>2. top \in SUBSET shown
    <3>1. most <= Cardinality(shown)
      <4>1. Cardinality(shown) \in Nat
        BY <1>1, FS_CardinalityType
      <4> QED
        BY <1>4, <4>1
    <3> HIDE DEF shown
    <3> QED
      BY <1>1, <3>1, TopFound
  <2>3. other.id = <<"other">> /\ other.value = Weight(rest)
        /\ other.members = UNION {i.members : i \in rest}
    BY DEF D!Other, Weight
  <2> HIDE DEF top, other
  <2>4. /\ IsFiniteSet(top) /\ IsFiniteSet(rest) /\ top \cap rest = {} /\ top \cup rest = shown
        /\ \A i \in top \cup rest : i.value \in Nat
    BY <1>1, <2>2, FS_Subset
  <2>5. Weight(shown) = Weight(top) + Weight(rest) /\ Weight(rest) \in Nat
    <3>1. Weight(top \cup rest) = Weight(top) + Weight(rest)
      <4> HIDE DEF rest
      <4> QED
        BY <2>4, WeightUnion
    <3>2. Weight(rest) \in Nat
      <4> HIDE DEF rest
      <4> QED
        BY <2>4, WeightWithin
    <3> QED
      BY <2>4, <3>1, <3>2, Zenon
  <2>6. other \notin top
    BY <1>1, <2>2, <2>3
  <2>7. Priced(chart)
    <3>1. IsFiniteSet(top \cup {other})
      BY <2>4, FS_AddElement
    <3>2. \A i \in top \cup {other} : i.value \in Nat
      BY <2>3, <2>4, <2>5
    <3>3. \A i, j \in top \cup {other} : i.id = j.id => i = j
      BY <1>1, <2>2, <2>3 DEF Priced
    <3> QED
      BY <2>1, <3>1, <3>2, <3>3 DEF Priced
  <2>8. Weight(top \cup {other}) = Weight(top) + Weight(rest)
    <3>1. Weight(top \cup {other}) = Weight(top) + Weight({other})
      <4>1. IsFiniteSet({other}) /\ top \cap {other} = {}
            /\ \A i \in top \cup {other} : i.value \in Nat
        BY <2>3, <2>4, <2>5, <2>6, FS_Singleton
      <4> QED
        BY <2>4, <4>1, WeightUnion
    <3>2. Weight({other}) = Weight(rest)
      <4>1. Weight({other}) = other.value
        BY <2>3, <2>5, WeightOne
      <4> QED
        BY <2>3, <4>1, Zenon
    <3> QED
      BY <3>1, <3>2, Zenon
  <2>9. Weight(chart) = Weight(items)
    BY <1>2, <2>1, <2>5, <2>8, Zenon
  <2>10. ASSUME \A i, j \in items : i # j => i.members \cap j.members = {}
         PROVE  \A i, j \in chart : i # j => i.members \cap j.members = {}
    <3>1. \A i \in top : i.members \cap other.members = {}
      <4> SUFFICES ASSUME NEW i \in top, NEW m \in i.members, m \in other.members PROVE FALSE
        OBVIOUS
      <4>1. PICK j \in rest : m \in j.members
        BY <2>3
      <4> QED
        BY <1>1, <2>2, <2>4, <2>10, <4>1
    <3>2. \A i, j \in top : i # j => i.members \cap j.members = {}
      BY <1>1, <2>2, <2>10
    <3> QED
      BY <2>1, <3>1, <3>2
  <2> QED
    BY <2>7, <2>9, <2>10
<1> QED
  BY <1>3, <1>4

-----------------------------------------------------------------------------
(* Items of one key each.                                                  *)

\* The item of a key, and the items of all keys.
Slice(S, key, value, k) ==
  [id |-> k, value |-> D!SumOver({x \in S : key[x] = k}, value), members |-> {x \in S : key[x] = k}]

Sliced(S, key, value) == {Slice(S, key, value, k) : k \in {key[x] : x \in S}}

\* Finitely many files have finitely many keys.
LEMMA FiniteImage ==
  ASSUME NEW S, IsFiniteSet(S), NEW f
  PROVE  IsFiniteSet({f[x] : x \in S})
<1> DEFINE image(T) == {f[x] : x \in T}
           Good == {T \in SUBSET S : IsFiniteSet(image(T))}
<1>1. {} \in Good
  <2>1. image({}) = {}
    OBVIOUS
  <2> QED
    BY <2>1, FS_EmptySet
<1>2. ASSUME NEW T \in SUBSET S, NEW x \in S \ T, T \in Good PROVE T \cup {x} \in Good
  <2>1. image(T \cup {x}) = image(T) \cup {f[x]}
    OBVIOUS
  <2>2. IsFiniteSet(image(T) \cup {f[x]})
    <3>1. IsFiniteSet(image(T))
      BY <1>2
    <3> HIDE DEF image
    <3> QED
      BY <3>1, FS_AddElement
  <2>3. IsFiniteSet(image(T \cup {x}))
    BY <2>1, <2>2, Zenon
  <2> HIDE DEF image
  <2> QED
    BY <2>3
<1>3. S \in Good
  <2> HIDE DEF Good
  <2> QED
    BY <1>1, <1>2, SetInduction
<1> QED
  BY <1>3

\* The items of different keys have different ids, and together the time of the files.
LEMMA SlicedKeeps ==
  ASSUME NEW S, IsFiniteSet(S), NEW key, NEW value, \A x \in S : value[x] \in Nat
  PROVE  /\ Priced(Sliced(S, key, value))
         /\ Weight(Sliced(S, key, value)) = D!SumOver(S, value)
         /\ \A i, j \in Sliced(S, key, value) : i # j => i.members \cap j.members = {}
<1> DEFINE part(k) == {x \in S : key[x] = k}
           slice(k) == Slice(S, key, value, k)
           keys == {key[x] : x \in S}
           slices(L) == {slice(k) : k \in L}
           of(L) == {x \in S : key[x] \in L}
           Good == {L \in SUBSET keys :
                      IsFiniteSet(slices(L)) /\ Weight(slices(L)) = D!SumOver(of(L), value)}
<1>1. \A k : /\ IsFiniteSet(part(k)) /\ D!SumOver(part(k), value) \in Nat
             /\ slice(k).id = k /\ slice(k).value = D!SumOver(part(k), value)
             /\ slice(k).members = part(k)
  <2> SUFFICES ASSUME NEW k PROVE IsFiniteSet(part(k)) /\ D!SumOver(part(k), value) \in Nat
    BY DEF Slice
  <2>1. IsFiniteSet(part(k)) /\ \A x \in part(k) : value[x] \in Nat
    BY FS_Subset
  <2> HIDE DEF part
  <2> QED
    BY <2>1, TotalType
<1> HIDE DEF slice
<1>a. \A k : slice(k).id = k /\ slice(k).value \in Nat
  <2> HIDE DEF part
  <2> QED
    BY <1>1
<1>2. IsFiniteSet(keys)
  BY FiniteImage
<1>3. {} \in Good
  <2>1. slices({}) = {} /\ of({}) = {}
    OBVIOUS
  <2>2. Weight({}) = 0
    BY TotalEmpty DEF Weight
  <2> QED
    BY <2>1, <2>2, FS_EmptySet, TotalEmpty
<1>4. ASSUME NEW L \in SUBSET keys, NEW k \in keys \ L, L \in Good PROVE L \cup {k} \in Good
  <2> DEFINE old == slices(L)
             here == of(L)
             there == part(k)
  <2>1. slices(L \cup {k}) = old \cup {slice(k)} /\ of(L \cup {k}) = here \cup there
    OBVIOUS
  <2>2. slice(k) \notin old
    BY <1>1
  <2>3. \A i \in old \cup {slice(k)} : i.value \in Nat
    BY <1>a
  <2>4. IsFiniteSet(old) /\ Weight(old) = D!SumOver(here, value)
    BY <1>4
  <2>5. /\ IsFiniteSet(here) /\ IsFiniteSet(there) /\ here \cap there = {}
        /\ \A x \in here \cup there : value[x] \in Nat
    BY FS_Subset
  <2>6. slice(k).value = D!SumOver(there, value) /\ slice(k).value \in Nat
    BY <1>1
  <2> HIDE DEF old, here, there
  <2>7. D!SumOver(here \cup there, value) = D!SumOver(here, value) + D!SumOver(there, value)
    BY <2>5, TotalUnion
  <2>8. Weight({slice(k)}) = slice(k).value
    BY <2>6, WeightOne
  <2>9. Weight(old \cup {slice(k)}) = Weight(old) + Weight({slice(k)})
    <3>1. IsFiniteSet({slice(k)}) /\ old \cap {slice(k)} = {}
      BY <2>2, FS_Singleton
    <3> QED
      BY <2>3, <2>4, <3>1, WeightUnion
  <2>10. IsFiniteSet(old \cup {slice(k)})
    BY <2>4, FS_AddElement
  <2>11. IsFiniteSet(slices(L \cup {k}))
         /\ Weight(slices(L \cup {k})) = D!SumOver(of(L \cup {k}), value)
    BY <2>1, <2>4, <2>6, <2>7, <2>8, <2>9, <2>10, Zenon
  <2> HIDE DEF slices, of, keys
  <2> QED
    BY <2>11
<1>5. keys \in Good
  <2> HIDE DEF Good, keys
  <2> QED
    BY <1>2, <1>3, <1>4, SetInduction
<1>6. slices(keys) = Sliced(S, key, value) /\ of(keys) = S
  BY DEF slice, Sliced
<1>7. IsFiniteSet(slices(keys)) /\ Weight(slices(keys)) = D!SumOver(of(keys), value)
  BY <1>5
<1>8. \A i \in Sliced(S, key, value) : \E k \in keys : i = slice(k)
  BY DEF slice, Sliced
<1>9. Priced(Sliced(S, key, value))
  <2> DEFINE items == Sliced(S, key, value)
  <2>1. IsFiniteSet(items)
    BY <1>6, <1>7, Zenon
  <2>2. \A i \in items : i.value \in Nat
    BY <1>a, <1>8
  <2>3. \A i, j \in items : i.id = j.id => i = j
    BY <1>a, <1>8
  <2> HIDE DEF items
  <2>4. Priced(items)
    BY <2>1, <2>2, <2>3 DEF Priced
  <2> QED
    BY <2>4 DEF items
<1>10. \A i, j \in Sliced(S, key, value) : i # j => i.members \cap j.members = {}
  <2> SUFFICES ASSUME NEW i \in Sliced(S, key, value), NEW j \in Sliced(S, key, value), i # j
               PROVE  i.members \cap j.members = {}
    OBVIOUS
  <2>1. PICK k \in keys : i = slice(k)
    BY <1>8
  <2>2. PICK l \in keys : j = slice(l)
    BY <1>8
  <2>3. i.members = part(k) /\ j.members = part(l) /\ k # l
    BY <1>1, <2>1, <2>2
  <2> QED
    BY <2>3
<1> QED
  BY <1>6, <1>7, <1>9, <1>10, Zenon

-----------------------------------------------------------------------------
(* Every query lists the files it shows, by key.                           *)

\* The queries the map asks: by file only of the whole folder.
Proper(q) ==
  /\ q.view \in {"children", "local-files"} /\ q.groupBy \in {"path", "file"}
  /\ q.groupBy = "file" => q.view = "children"

\* The present files a query shows.
Present(q, value, e) == {id \in D!PresentUnder(value, e, q.path) :
                           q.view = "local-files" => D!ChildFolder(e[id].current, q.path) = None}

\* All files a query shows.
Shown(q, value, e) ==
  Present(q, value, e) \cup IF q.view = "children" THEN D!DeletedUnder(value, e, q.path) ELSE {}

\* The item of a file.
KeyOf(q, value, e) ==
  [id \in DOMAIN value |->
     IF D!Gone(id, e) THEN <<"deleted">>
     ELSE IF q.groupBy = "file" \/ D!ChildFolder(e[id].current, q.path) = None THEN <<"file", id>>
     ELSE <<"dir", D!ChildFolder(e[id].current, q.path)>>]

\* Items of different kinds or names are different.
LEMMA KeysApart ==
  \A x, y : /\ <<"file", x>> # <<"dir", y>> /\ <<"file", x>> # <<"deleted">>
            /\ <<"dir", x>> # <<"deleted">>
            /\ <<"file", x>> = <<"file", y>> => x = y
            /\ <<"dir", x>> = <<"dir", y>> => x = y
            /\ <<"other">> # <<"file", x>> /\ <<"other">> # <<"dir", x>> /\ <<"other">> # <<"deleted">>
OBVIOUS

\* The items of a query are the slices of the files it shows, one for each key
\* (DetailItems: by file, by folder, and one for deleted files).
LEMMA DetailSliced ==
  ASSUME NEW q, Proper(q), NEW e,
         NEW value, \A id \in DOMAIN value : value[id] \in Nat
  PROVE  D!DetailItems(q, value, e) = Sliced(Shown(q, value, e), KeyOf(q, value, e), value)
<1> DEFINE P == D!PresentUnder(value, e, q.path)
           X == D!DeletedUnder(value, e, q.path)
           CF(x) == D!ChildFolder(e[x].current, q.path)
           S == Shown(q, value, e)
           key == KeyOf(q, value, e)
           beside(x) == {y \in P : CF(y) = CF(x)}
           group(x) == [folder |-> CF(x), files |-> beside(x)]
           groups == D!Groups(value, e, q.path)
           visible == D!Visible(groups, q.view)
           alone(x) == q.groupBy = "file" \/ CF(x) = None
           item(x) == Slice(S, key, value, key[x])
           byFile == {D!FileItem(value, id) : id \in UNION {g.files : g \in groups}}
           byPath == UNION {IF g.folder = None THEN {D!FileItem(value, id) : id \in g.files}
                            ELSE {D!GroupItem(value, <<"dir", g.folder>>, g.files)} : g \in visible}
           all == D!DetailItems(q, value, e)
<1>1. groups = {group(x) : x \in P}
  BY DEF D!Groups
<1>2. visible = {g \in groups : q.view = "local-files" => g.folder = None}
  BY DEF D!Visible
<1>3. all = (IF q.groupBy = "file" THEN byFile ELSE byPath)
              \cup IF q.view = "children" /\ X # {} THEN {D!GroupItem(value, <<"deleted">>, X)} ELSE {}
  BY DEF D!DetailItems
<1>4. /\ S = {x \in P : q.view = "local-files" => CF(x) = None}
               \cup IF q.view = "children" THEN X ELSE {}
      /\ P \subseteq DOMAIN value /\ X \subseteq DOMAIN value /\ P \cap X = {}
      /\ \A x \in P : key[x] = IF alone(x) THEN <<"file", x>> ELSE <<"dir", CF(x)>>
      /\ \A x \in X : key[x] = <<"deleted">>
  BY DEF Shown, Present, KeyOf, D!PresentUnder, D!DeletedUnder
<1> HIDE DEF P, X, S, key, CF, groups, visible, all
<1>5. ASSUME NEW x \in S, x \in P, alone(x) PROVE item(x) = D!FileItem(value, x)
  <2>1. {y \in S : key[y] = key[x]} = {x}
    BY <1>4, <1>5, KeysApart
  <2>2. D!SumOver({x}, value) = value[x]
    BY <1>4, <1>5, TotalOne
  <2>3. key[x] = <<"file", x>>
    BY <1>4, <1>5
  <2> QED
    BY <2>1, <2>2, <2>3 DEF Slice, D!FileItem
<1>6. ASSUME NEW x \in S, x \in P, ~alone(x)
      PROVE  item(x) = D!GroupItem(value, <<"dir", CF(x)>>, beside(x))
  <2>1. {y \in S : key[y] = key[x]} = beside(x)
    <3>1. q.view = "children"
      BY <1>4, <1>6 DEF Proper
    <3>2. key[x] = <<"dir", CF(x)>>
      BY <1>4, <1>6
    <3>3. \A y \in P : y \in S /\ (key[y] = key[x] <=> CF(y) = CF(x))
      BY <1>4, <1>6, <3>1, <3>2, KeysApart
    <3>4. \A y \in S : key[y] = key[x] => y \in P
      BY <1>4, <3>2, KeysApart
    <3> QED
      BY <3>3, <3>4
  <2>2. key[x] = <<"dir", CF(x)>>
    BY <1>4, <1>6
  <2> QED
    BY <2>1, <2>2 DEF Slice, D!GroupItem
<1>7. ASSUME NEW x \in S, x \notin P
      PROVE  item(x) = D!GroupItem(value, <<"deleted">>, X) /\ q.view = "children" /\ X # {}
  <2>1. q.view = "children" /\ x \in X
    BY <1>4, <1>7
  <2>2. key[x] = <<"deleted">>
    BY <1>4, <2>1
  <2>3. {y \in S : key[y] = key[x]} = X
    <3>1. \A y \in P : key[y] # key[x]
      <4> SUFFICES ASSUME NEW y \in P PROVE key[y] # key[x]
        OBVIOUS
      <4>1. key[y] = <<"file", y>> \/ key[y] = <<"dir", CF(y)>>
        BY <1>4
      <4> QED
        BY <2>2, <4>1, KeysApart
    <3>2. \A y \in X : y \in S /\ key[y] = key[x]
      BY <1>4, <2>1, <2>2
    <3>3. S \subseteq P \cup X
      BY <1>4
    <3> QED
      BY <3>1, <3>2, <3>3
  <2> QED
    BY <2>1, <2>2, <2>3 DEF Slice, D!GroupItem
<1>8. ASSUME NEW x \in S PROVE item(x) \in all
  <2>1. CASE x \notin P
    BY <1>3, <1>7, <2>1
  <2>2. CASE x \in P /\ q.groupBy = "file"
    <3>1. group(x) \in groups /\ x \in group(x).files
      BY <1>1, <2>2
    <3>2. D!FileItem(value, x) \in byFile
      BY <3>1
    <3> QED
      BY <1>3, <1>5, <2>2, <3>2
  <2>3. CASE x \in P /\ q.groupBy # "file"
    <3>1. group(x) \in visible /\ x \in group(x).files
      BY <1>1, <1>2, <1>4, <2>3
    <3>2. CASE CF(x) = None
      <4>1. D!FileItem(value, x) \in byPath
        BY <3>1, <3>2
      <4> QED
        BY <1>3, <1>5, <2>3, <3>2, <4>1
    <3>3. CASE CF(x) # None
      <4>1. D!GroupItem(value, <<"dir", CF(x)>>, beside(x)) \in byPath
        BY <3>1, <3>3
      <4> QED
        BY <1>3, <1>6, <2>3, <3>3, <4>1
    <3> QED
      BY <3>2, <3>3
  <2> QED
    BY <2>1, <2>2, <2>3
<1>9. ASSUME NEW i \in all PROVE \E x \in S : i = item(x)
  <2>1. CASE q.view = "children" /\ X # {} /\ i = D!GroupItem(value, <<"deleted">>, X)
    <3>1. PICK x \in X : TRUE
      BY <2>1
    <3>2. x \in S /\ x \notin P
      BY <1>4, <2>1, <3>1
    <3> QED
      BY <1>7, <2>1, <3>2
  <2>2. CASE q.groupBy = "file" /\ i \in byFile
    <3>0. PICK g \in groups : \E x \in g.files : i = D!FileItem(value, x)
      BY <2>2
    <3>1. PICK x \in g.files : i = D!FileItem(value, x)
      BY <3>0
    <3>2. x \in P
      BY <1>1, <3>1
    <3>3. x \in S
      BY <1>4, <2>2, <3>2 DEF Proper
    <3> QED
      BY <1>5, <2>2, <3>1, <3>2, <3>3
  <2>3. CASE q.groupBy # "file" /\ i \in byPath
    <3>1. PICK g \in visible : i \in IF g.folder = None THEN {D!FileItem(value, id) : id \in g.files}
                                     ELSE {D!GroupItem(value, <<"dir", g.folder>>, g.files)}
      BY <2>3
    <3>2. PICK y \in P : g = group(y)
      BY <1>1, <1>2, <3>1
    <3>3. g.folder = CF(y) /\ g.files = beside(y)
      BY <3>2
    <3>4. q.view = "local-files" => CF(y) = None
      BY <1>2, <3>1, <3>3
    <3>5. CASE CF(y) = None
      <4>1. PICK x \in beside(y) : i = D!FileItem(value, x)
        BY <3>1, <3>3, <3>5
      <4>2. x \in P /\ x \in S /\ alone(x)
        BY <1>4, <3>5, <4>1
      <4> QED
        BY <1>5, <4>1, <4>2
    <3>6. CASE CF(y) # None
      <4>1. i = D!GroupItem(value, <<"dir", CF(y)>>, beside(y))
        BY <3>1, <3>3, <3>6
      <4>2. y \in S /\ ~alone(y)
        BY <1>4, <2>3, <3>4, <3>6
      <4> QED
        BY <1>6, <4>1, <4>2
    <3> QED
      BY <3>5, <3>6
  <2> QED
    <3>1. \/ q.groupBy = "file" /\ i \in byFile
          \/ q.groupBy # "file" /\ i \in byPath
          \/ q.view = "children" /\ X # {} /\ i = D!GroupItem(value, <<"deleted">>, X)
      <4> HIDE DEF byFile, byPath
      <4> QED
        BY <1>3, <1>9
    <3> QED
      BY <2>1, <2>2, <2>3, <3>1
<1>10. all = {item(x) : x \in S}
  <2> HIDE DEF item
  <2> QED
    BY <1>8, <1>9
<1>11. {item(x) : x \in S} = Sliced(S, key, value)
  BY DEF Sliced
<1> QED
  BY <1>10, <1>11, Zenon DEF all, S, key

\* The total of a scope is the time of the files it shows.
LEMMA ScopeShown ==
  ASSUME NEW q, Proper(q), NEW e,
         NEW value, IsFiniteSet(DOMAIN value), \A id \in DOMAIN value : value[id] \in Nat
  PROVE  /\ D!ScopeTotal(q, value, e) = D!SumOver(Shown(q, value, e), value)
         /\ IsFiniteSet(Shown(q, value, e)) /\ Shown(q, value, e) \subseteq DOMAIN value
<1> DEFINE P == Present(q, value, e)
           X == D!DeletedUnder(value, e, q.path)
           shown == UNION {g.files : g \in D!Visible(D!Groups(value, e, q.path), q.view)}
<1>1. shown = P
  <2> DEFINE all == D!PresentUnder(value, e, q.path)
             CF(x) == D!ChildFolder(e[x].current, q.path)
             group(f) == [folder |-> f, files |-> {id \in all : CF(id) = f}]
             visible == D!Visible(D!Groups(value, e, q.path), q.view)
  <2>1. visible = {g \in {group(f) : f \in {CF(id) : id \in all}} :
                     q.view = "local-files" => g.folder = None}
    BY DEF D!Visible, D!Groups
  <2>2. P = {id \in all : q.view = "local-files" => CF(id) = None}
    BY DEF Present
  <2> HIDE DEF all, CF, visible, P
  <2>3. ASSUME NEW id \in P PROVE id \in UNION {g.files : g \in visible}
    <3>1. group(CF(id)) \in visible /\ id \in group(CF(id)).files
      BY <2>1, <2>2
    <3> QED
      BY <3>1
  <2>4. ASSUME NEW g \in visible, NEW id \in g.files PROVE id \in P
    BY <2>1, <2>2
  <2>5. UNION {g.files : g \in visible} = P
    BY <2>3, <2>4
  <2> QED
    BY <2>5 DEF visible
<1>2. P \subseteq DOMAIN value /\ X \subseteq DOMAIN value /\ P \cap X = {}
  BY DEF Present, D!PresentUnder, D!DeletedUnder
<1>3. IsFiniteSet(P) /\ IsFiniteSet(X)
  BY <1>2, FS_Subset
<1>4. /\ D!ScopeTotal(q, value, e) = D!SumOver(P, value)
                                   + IF q.view = "children" THEN D!SumOver(X, value) ELSE 0
      /\ Shown(q, value, e) = P \cup IF q.view = "children" THEN X ELSE {}
  BY <1>1 DEF D!ScopeTotal, Shown
<1> HIDE DEF P, X
<1>5. \A x \in P \cup X : value[x] \in Nat
  BY <1>2
<1>6. D!SumOver(P \cup X, value) = D!SumOver(P, value) + D!SumOver(X, value)
      /\ D!SumOver(P, value) \in Nat /\ IsFiniteSet(P \cup X)
  <2>1. D!SumOver(P \cup X, value) = D!SumOver(P, value) + D!SumOver(X, value)
    BY <1>2, <1>3, <1>5, TotalUnion
  <2>2. D!SumOver(P, value) \in Nat
    BY <1>3, <1>5, TotalType
  <2>3. IsFiniteSet(P \cup X)
    BY <1>3, FS_Union
  <2> QED
    BY <2>1, <2>2, <2>3
<1>7. CASE q.view = "children"
  <2>1. /\ Shown(q, value, e) = P \cup X
        /\ D!ScopeTotal(q, value, e) = D!SumOver(P, value) + D!SumOver(X, value)
    BY <1>4, <1>7
  <2> QED
    BY <1>2, <1>6, <2>1
<1>8. CASE q.view # "children"
  <2>1. Shown(q, value, e) = P /\ D!ScopeTotal(q, value, e) = D!SumOver(P, value)
    BY <1>4, <1>6, <1>8
  <2> QED
    BY <1>2, <1>3, <2>1
<1> HIDE DEF shown
<1> QED
  BY <1>7, <1>8

-----------------------------------------------------------------------------
(* What a query answers.                                                   *)

\* No item of a query is the rest of a chart.
LEMMA NotOther ==
  ASSUME NEW q, NEW e, NEW value, NEW i \in Sliced(Shown(q, value, e), KeyOf(q, value, e), value)
  PROVE  i.id # <<"other">>
<1>1. PICK x \in Shown(q, value, e) : i.id = KeyOf(q, value, e)[x]
  <2> DEFINE S == Shown(q, value, e)
             key == KeyOf(q, value, e)
  <2>1. i \in Sliced(S, key, value)
    OBVIOUS
  <2> HIDE DEF S, key
  <2>2. \E x \in S : i = Slice(S, key, value, key[x])
    BY <2>1 DEF Sliced
  <2>3. \E x \in S : i.id = key[x]
    BY <2>2 DEF Slice
  <2> QED
    BY <2>3 DEF S, key
<1>2. x \in DOMAIN value
  BY DEF Shown, Present, D!PresentUnder, D!DeletedUnder
<1> DEFINE f == D!ChildFolder(e[x].current, q.path)
<1>3. i.id = <<"deleted">> \/ i.id = <<"file", x>> \/ i.id = <<"dir", f>>
  BY <1>1, <1>2 DEF KeyOf
<1> HIDE DEF f
<1> QED
  BY <1>3, KeysApart

\* A query adds up, for any registry and any merged time.
LEMMA QueryAddsUp ==
  ASSUME NEW q, Proper(q), q.most \in Nat, NEW e,
         NEW value, IsFiniteSet(DOMAIN value), \A id \in DOMAIN value : value[id] \in Nat
  PROVE  LET r == D!RunQuery(q, value, e)
         IN  /\ AddsUp(r) /\ Disjoint(r)
             /\ r.scope = D!SumOver(Shown(q, value, e), value)
             /\ r.vault = D!SumOver(DOMAIN value, value)
<1> DEFINE S == Shown(q, value, e)
           key == KeyOf(q, value, e)
           detail == Sliced(S, key, value)
           chart == D!ChartItems(detail, q.most)
           r == D!RunQuery(q, value, e)
<1>1. D!DetailItems(q, value, e) = detail
  BY DetailSliced
<1>2. D!ScopeTotal(q, value, e) = D!SumOver(S, value) /\ IsFiniteSet(S) /\ S \subseteq DOMAIN value
  BY ScopeShown
<1>3. /\ r.scope = D!SumOver(S, value) /\ r.vault = D!SumOver(DOMAIN value, value)
      /\ r.detail = detail /\ r.chart = chart
  BY <1>1, <1>2 DEF D!RunQuery
<1>4. \A i \in detail : i.id # <<"other">>
  BY NotOther
<1> HIDE DEF S, key
<1>5. /\ Priced(detail) /\ Weight(detail) = D!SumOver(S, value)
      /\ \A i, j \in detail : i # j => i.members \cap j.members = {}
  BY <1>2, SlicedKeeps
<1> HIDE DEF detail
<1>6. /\ Priced(chart) /\ Weight(chart) = Weight(detail)
      /\ \A i, j \in chart : i # j => i.members \cap j.members = {}
  BY <1>4, <1>5, ChartKeeps
<1> HIDE DEF chart
<1>7. ItemSum(chart) = Weight(chart) /\ ItemSum(detail) = Weight(detail)
  BY <1>5, <1>6, ItemSumIsWeight
<1>8. \A i, j \in detail : i.id = j.id => i = j
  BY <1>5 DEF Priced
<1> HIDE DEF r
<1>9. AddsUp(r) /\ Disjoint(r)
  BY <1>3, <1>5, <1>6, <1>7, <1>8 DEF AddsUp, Disjoint
<1> QED
  BY <1>3, <1>9 DEF r, S

\* The root shows every file.
LEMMA RootShowsAll ==
  ASSUME TypeOK, NEW q, q.path = <<>>, q.view = "children", NEW value, DOMAIN value \subseteq Ids
  PROVE  Shown(q, value, entries) = DOMAIN value
<1>1. ASSUME NEW id \in DOMAIN value, ~D!Gone(id, entries)
      PROVE  D!Within(entries[id].current, <<>>)
  <2>1. entries[id].current \in Seq(STRING)
    BY <1>1, RegistryAssumption DEF TypeOK, Entry, D!Gone
  <2> DEFINE p == entries[id].current
  <2> HIDE DEF p
  <2>2. Len(<<>>) <= Len(p) /\ SubSeq(p, 1, Len(<<>>)) = <<>>
    BY <2>1 DEF p
  <2> QED
    BY <2>2 DEF D!Within, p
<1> QED
  BY <1>1 DEF Shown, Present, D!PresentUnder, D!DeletedUnder, D!Root

-----------------------------------------------------------------------------
(* What a range selects.                                                   *)

\* A merged range has finitely many files, and never negative time.
LEMMA MergedValue ==
  ASSUME TimeOK, NEW dates
  PROVE  /\ DOMAIN Merged(dates) \subseteq Ids /\ IsFiniteSet(DOMAIN Merged(dates))
         /\ \A id \in DOMAIN Merged(dates) : Merged(dates)[id] \in Nat
<1> DEFINE within == dates \cap Dates
           row(id) == [d \in Dates |-> time[d][id]]
           ids == {id \in Ids : \E d \in within : time[d][id] > 0}
<1>1. Merged(dates) = [id \in ids |-> D!SumOver(within, row(id))]
  BY DEF Merged
<1>2. IsFiniteSet(ids)
  BY FS_Subset, QueryAssumption
<1>3. ASSUME NEW id \in ids PROVE D!SumOver(within, row(id)) \in Nat
  <2>1. IsFiniteSet(within) /\ \A d \in within : row(id)[d] \in Nat
    BY FS_Subset, QueryAssumption DEF TimeOK
  <2> HIDE DEF within, row
  <2> QED
    BY <2>1, TotalType
<1> HIDE DEF ids, within, row
<1>4. ids \subseteq Ids
  BY DEF ids
<1> QED
  BY <1>1, <1>2, <1>3, <1>4

\* The earliest date.
LEMMA Earliest ==
  ASSUME NEW S \in SUBSET Int, IsFiniteSet(S), S # {}
  PROVE  D!Min(S) \in S /\ \A d \in S : D!Min(S) <= d
<1> DEFINE Good == {T \in SUBSET S : T = {} \/ \E i \in T : \A j \in T : i <= j}
<1>1. {} \in Good
  OBVIOUS
<1>2. ASSUME NEW T \in SUBSET S, NEW x \in S \ T, T \in Good PROVE T \cup {x} \in Good
  <2>1. CASE T = {}
    BY <2>1
  <2>2. CASE T # {}
    <3>1. PICK i \in T : \A j \in T : i <= j
      BY <1>2, <2>2
    <3>2. CASE x <= i
      <4>1. \A j \in T \cup {x} : x <= j
        BY <3>1, <3>2
      <4> QED
        BY <4>1
    <3>3. CASE ~(x <= i)
      <4>1. \A j \in T \cup {x} : i <= j
        BY <3>1, <3>3
      <4> QED
        BY <4>1
    <3> QED
      BY <3>2, <3>3
  <2> QED
    BY <2>1, <2>2
<1>3. S \in Good
  <2> HIDE DEF Good
  <2> QED
    BY <1>1, <1>2, SetInduction
<1>4. \E i \in S : \A j \in S : i <= j
  BY <1>3
<1> QED
  BY <1>4 DEF D!Min

\* A range over the whole history selects every date with a record.
LEMMA CompleteSelectsAll ==
  ASSUME NEW range \in Ranges, Complete(range)
  PROVE  Recorded \subseteq D!ResolveRange(range, Recorded).dates
<1>1. Recorded \subseteq Int /\ IsFiniteSet(Recorded)
  BY FS_Subset, QueryAssumption DEF Recorded
<1> HIDE DEF Recorded
<1>2. CASE range.mode = "all"
  BY <1>2 DEF D!ResolveRange
<1>3. CASE range.mode = "average" /\ range.days = None /\ Recorded # {}
  <2>1. D!ResolveRange(range, Recorded).dates = D!Min(Recorded) .. range.day
    BY <1>3 DEF D!ResolveRange, D!WindowStart
  <2>2. range.day \in Int
    BY <1>3, QueryAssumption DEF Ranges
  <2>3. \A d \in Recorded : d <= range.day
    BY <1>3 DEF Complete
  <2> QED
    BY <1>1, <1>3, <2>1, <2>2, <2>3, Earliest
<1> QED
  BY <1>2, <1>3 DEF Complete

\* Dates without records add nothing, identities without records are not in the sum.
LEMMA MergedTotal ==
  ASSUME TimeOK, NEW dates, Recorded \subseteq dates
  PROVE  D!SumOver(DOMAIN Merged(dates), Merged(dates)) = TotalRecords
<1> DEFINE within == dates \cap Dates
           row(id) == [d \in Dates |-> time[d][id]]
           ids == {id \in Ids : \E d \in within : time[d][id] > 0}
           cell == [x \in Dates \X Ids |-> time[x[1]][x[2]]]
           sums == [id \in Ids |-> D!SumOver(Dates, row(id))]
           rows == [id \in Ids |-> row(id)]
           value == Merged(dates)
<1>1. value = [id \in ids |-> D!SumOver(within, row(id))]
  BY DEF Merged
<1>2. \A d \in Dates, id \in Ids : time[d][id] \in Nat
  BY DEF TimeOK
<1>3. \A d \in Dates \ within, id \in Ids : time[d][id] = 0
  BY <1>2 DEF Recorded
<1>4. IsFiniteSet(Dates) /\ IsFiniteSet(Ids) /\ within \in SUBSET Dates /\ ids \in SUBSET Ids
  BY QueryAssumption
<1>5. \A d \in Dates, id \in Ids \ ids : time[d][id] = 0
  BY <1>2, <1>3
<1>6. ASSUME NEW id \in Ids
      PROVE  /\ \A d \in Dates : row(id)[d] = time[d][id] /\ row(id)[d] \in Nat
             /\ D!SumOver(Dates, row(id)) \in Nat
             /\ D!SumOver(Dates, row(id)) = D!SumOver(within, row(id))
  <2>1. \A d \in Dates : row(id)[d] = time[d][id] /\ row(id)[d] \in Nat
    BY <1>2
  <2>2. \A d \in Dates \ within : row(id)[d] = 0
    BY <1>3
  <2> HIDE DEF row, within
  <2>3. D!SumOver(Dates, row(id)) \in Nat
    BY <1>4, <2>1, TotalType
  <2>4. D!SumOver(Dates, row(id)) = D!SumOver(within, row(id))
    BY <1>4, <2>1, <2>2, TotalWhere
  <2> QED
    BY <2>1, <2>3, <2>4
<1>7. TotalRecords = D!SumOver(Ids, sums)
  <2>1. /\ \A id \in Ids, d \in Dates : rows[id][d] = cell[<<d, id>>]
        /\ \A id \in Ids : sums[id] = D!SumOver(Dates, rows[id])
        /\ \A x \in Dates \X Ids : cell[x] \in Nat
    BY <1>2
  <2>2. TotalRecords = D!SumOver(Dates \X Ids, cell)
    BY DEF TotalRecords
  <2> HIDE DEF rows, sums, cell
  <2>3. D!SumOver(Dates \X Ids, cell) = D!SumOver(Ids, sums)
    BY <1>4, <2>1, TotalByRows DEF RowSums
  <2> QED
    BY <2>2, <2>3, Zenon
<1>8. \A id \in Ids \ ids : sums[id] = 0
  <2> SUFFICES ASSUME NEW id \in Ids \ ids PROVE D!SumOver(Dates, row(id)) = 0
    OBVIOUS
  <2>1. \A d \in Dates : row(id)[d] = 0
    BY <1>5
  <2> HIDE DEF row, ids
  <2> QED
    BY <1>4, <2>1, TotalZero
<1>9. \A id \in Ids : sums[id] \in Nat
  <2> HIDE DEF row
  <2> QED
    BY <1>6
<1>10. \A id \in ids : value[id] \in Nat /\ value[id] = sums[id]
  <2> HIDE DEF row, within
  <2> QED
    BY <1>1, <1>4, <1>6
<1>11. DOMAIN value = ids /\ IsFiniteSet(ids)
  <2> HIDE DEF row, within, ids
  <2> QED
    BY <1>1, <1>4, FS_Subset
<1> HIDE DEF ids, sums, value
<1>12. D!SumOver(Ids, sums) = D!SumOver(ids, sums)
  BY <1>4, <1>8, <1>9, TotalWhere
<1>13. D!SumOver(ids, value) = D!SumOver(ids, sums)
  BY <1>10, <1>11, TotalAgree
<1> QED
  BY <1>7, <1>11, <1>12, <1>13, Zenon DEF value

\* So every chart of every range adds up.
LEMMA EveryChart ==
  ASSUME TypeOK, TimeOK
  PROVE  ChartsAddUp
<1>1. ASSUME NEW value \in {Selected(range) : range \in Ranges}, NEW q \in Queries
      PROVE  LET r == D!RunQuery(q, value, entries)
             IN  /\ AddsUp(r) /\ Disjoint(r)
                 /\ q.path = <<>> /\ q.view = "children" => r.scope = r.vault
  <2>1. /\ DOMAIN value \subseteq Ids /\ IsFiniteSet(DOMAIN value)
        /\ \A id \in DOMAIN value : value[id] \in Nat
    <3>1. PICK range \in Ranges : value = Selected(range)
      BY <1>1
    <3> QED
      BY <3>1, MergedValue DEF Selected
  <2>2. Proper(q) /\ q.most \in Nat
    BY QueryAssumption DEF Queries, Views, Proper
  <2> DEFINE r == D!RunQuery(q, value, entries)
  <2>3. /\ AddsUp(r) /\ Disjoint(r)
        /\ r.scope = D!SumOver(Shown(q, value, entries), value)
        /\ r.vault = D!SumOver(DOMAIN value, value)
    BY <2>1, <2>2, QueryAddsUp
  <2>4. q.path = <<>> /\ q.view = "children" => r.scope = r.vault
    <3> HIDE DEF r
    <3>1. ASSUME q.path = <<>>, q.view = "children"
          PROVE  Shown(q, value, entries) = DOMAIN value
      BY <2>1, <3>1, RootShowsAll
    <3> QED
      BY <2>3, <3>1
  <2> HIDE DEF r
  <2>5. /\ AddsUp(r) /\ Disjoint(r)
        /\ q.path = <<>> /\ q.view = "children" => r.scope = r.vault
    BY <2>3, <2>4
  <2> QED
    BY <2>5 DEF r
<1>2. ASSUME NEW range \in Ranges, Complete(range)
      PROVE  D!SumOver(DOMAIN Selected(range), Selected(range)) = TotalRecords
  BY <1>2, CompleteSelectsAll, MergedTotal DEF Selected
<1> QED
  BY <1>1, <1>2 DEF ChartsAddUp

-----------------------------------------------------------------------------
(* Opening a folder.                                                       *)

\* The folder of a slice holds the files of the slice, and no others.
LEMMA FolderHolds ==
  ASSUME NEW p \in Paths, NEW r \in Paths, NEW folder \in Seq(STRING),
         D!Within(p, folder), Len(p) > Len(folder) + 1
  PROVE  LET f == D!ChildFolder(p, folder)
         IN  /\ f \in Seq(STRING) /\ Len(f) = Len(folder) + 1
             /\ D!Within(r, f) <=> /\ D!Within(r, folder) /\ Len(r) > Len(folder) + 1
                                   /\ D!ChildFolder(r, folder) = f
<1> DEFINE n == Len(folder)
           f == SubSeq(p, 1, n + 1)
<1>1. p \in Seq(STRING) /\ r \in Seq(STRING) /\ n \in Nat /\ Len(p) \in Nat /\ Len(r) \in Nat
  BY RegistryAssumption
<1>2. D!ChildFolder(p, folder) = f
  BY <1>1 DEF D!ChildFolder
<1>3. f \in Seq(STRING) /\ Len(f) = n + 1 /\ \A i \in 1 .. n + 1 : f[i] = p[i]
  BY <1>1
<1>4. \A i \in 1 .. n : p[i] = folder[i]
  <2>1. SubSeq(p, 1, n) = folder
    BY DEF D!Within
  <2>2. \A i \in 1 .. n : SubSeq(p, 1, n)[i] = p[i]
    BY <1>1
  <2> QED
    BY <2>1, <2>2
<1> HIDE DEF f
<1>5. ASSUME D!Within(r, f)
      PROVE  D!Within(r, folder) /\ Len(r) > n + 1 /\ D!ChildFolder(r, folder) = f
  <2>1. n + 1 <= Len(r) /\ SubSeq(r, 1, n + 1) = f
    BY <1>3, <1>5 DEF D!Within
  <2>2. \A i \in 1 .. n + 1 : r[i] = f[i]
    <3>1. \A i \in 1 .. n + 1 : SubSeq(r, 1, n + 1)[i] = r[i]
      BY <1>1, <2>1
    <3> QED
      BY <2>1, <3>1
  <2>3. SubSeq(r, 1, n) = folder
    <3>1. SubSeq(r, 1, n) \in Seq(STRING) /\ Len(SubSeq(r, 1, n)) = n
          /\ \A i \in 1 .. n : SubSeq(r, 1, n)[i] = r[i]
      BY <1>1, <2>1
    <3>2. \A i \in 1 .. n : r[i] = folder[i]
      BY <1>1, <1>3, <1>4, <2>2
    <3> QED
      BY <1>1, <3>1, <3>2, SeqEqual
  <2>4. Len(r) # n + 1
    <3> SUFFICES ASSUME Len(r) = n + 1 PROVE FALSE
      OBVIOUS
    <3>1. SubSeq(r, 1, n + 1) = r
      BY <1>1
    <3>2. IsUnder(p, r)
      BY <1>1, <2>1, <3>1 DEF IsUnder, f
    <3> QED
      BY <3>2, NamesAssumption
  <2> QED
    BY <1>1, <2>1, <2>3, <2>4 DEF D!Within, D!ChildFolder
<1>6. ASSUME Len(r) > n + 1, D!ChildFolder(r, folder) = f
      PROVE  D!Within(r, f)
  BY <1>1, <1>3, <1>6 DEF D!Within, D!ChildFolder
<1> QED
  BY <1>2, <1>3, <1>5, <1>6

\* An identity that is not gone has a path.
LEMMA CurrentPath ==
  ASSUME TypeOK, NEW id \in Ids, ~D!Gone(id, entries)
  PROVE  entries[id].current \in Paths
BY DEF TypeOK, Entry, D!Gone

\* So every folder opened shows its slice, and what was deleted there.
LEMMA EveryFolder ==
  ASSUME TypeOK, TimeOK
  PROVE  DrillDownKeepsTime
<1> SUFFICES ASSUME NEW q \in Queries, q.view = "children", q.groupBy = "path",
                    NEW i \in D!RunQuery(q, Value, entries).detail, i.id[1] = "dir"
             PROVE  D!ScopeTotal([q EXCEPT !.path = i.id[2]], Value, entries)
                      = i.value + D!SumOver(DeletedIn(i.id[2]), Value)
  BY DEF DrillDownKeepsTime
<1> DEFINE value == Value
           S == Shown(q, value, entries)
           key == KeyOf(q, value, entries)
           r == [q EXCEPT !.path = i.id[2]]
           here == Present(r, value, entries)
           gone == DeletedIn(i.id[2])
<1>1. /\ DOMAIN value \subseteq Ids /\ IsFiniteSet(DOMAIN value)
      /\ \A id \in DOMAIN value : value[id] \in Nat
  BY MergedValue DEF Value
<1>2. /\ Proper(q) /\ q.path \in Seq(STRING)
      /\ q = [path |-> q.path, view |-> "children", groupBy |-> "path", most |-> q.most]
  <2>1. PICK p \in Folders \cup {<<>>}, v \in Views :
          q = [path |-> p, view |-> v.view, groupBy |-> v.groupBy, most |-> MaxChart]
    BY DEF Queries
  <2>2. p \in Seq(STRING)
    <3>1. Folders \subseteq Seq(STRING)
      BY RegistryAssumption
    <3>2. <<>> \in Seq(STRING)
      OBVIOUS
    <3> QED
      BY <3>1, <3>2
  <2>3. q.path = p /\ q.view = v.view /\ q.groupBy = v.groupBy /\ q.most = MaxChart
    BY <2>1
  <2>4. q = [path |-> q.path, view |-> "children", groupBy |-> "path", most |-> q.most]
    BY <2>1, <2>3
  <2> QED
    BY <2>2, <2>3, <2>4 DEF Proper
<1>3. i \in Sliced(S, key, value)
  <2>1. D!RunQuery(q, value, entries).detail = D!DetailItems(q, value, entries)
    BY DEF D!RunQuery
  <2> QED
    BY <1>1, <1>2, <2>1, DetailSliced
<1>4. PICK x \in S : i = Slice(S, key, value, key[x])
  BY <1>3 DEF Sliced
<1>5. i.id = key[x] /\ i.value = D!SumOver({y \in S : key[y] = key[x]}, value)
  BY <1>4 DEF Slice
<1>6. /\ S \subseteq DOMAIN value
      /\ \A id \in DOMAIN value : key[id] = IF D!Gone(id, entries) THEN <<"deleted">>
           ELSE IF D!ChildFolder(entries[id].current, q.path) = None THEN <<"file", id>>
           ELSE <<"dir", D!ChildFolder(entries[id].current, q.path)>>
      /\ \A id \in DOMAIN value : ~D!Gone(id, entries) =>
           (id \in S <=> D!Within(entries[id].current, q.path))
  BY <1>2 DEF Shown, Present, KeyOf, D!PresentUnder, D!DeletedUnder
<1> DEFINE c(id) == entries[id].current
           f == i.id[2]
<1> HIDE DEF S, key, value
<1>7. ~D!Gone(x, entries) /\ D!ChildFolder(c(x), q.path) # None /\ D!Within(c(x), q.path)
      /\ f = D!ChildFolder(c(x), q.path) /\ key[x] = <<"dir", f>>
  <2>1. key[x] # <<"deleted">> /\ key[x] # <<"file", x>>
    BY <1>5
  <2> DEFINE child == D!ChildFolder(c(x), q.path)
  <2>2. ~D!Gone(x, entries) /\ child # None /\ key[x] = <<"dir", child>>
    BY <1>6, <2>1
  <2> HIDE DEF child
  <2>3. f = child
    BY <1>5, <2>2
  <2> QED
    BY <1>6, <2>2, <2>3 DEF child
<1>8. c(x) \in Paths /\ Len(c(x)) > Len(q.path) + 1
  <2>1. c(x) \in Paths
    BY <1>1, <1>6, <1>7, CurrentPath
  <2>2. Len(c(x)) \in Nat /\ Len(q.path) \in Nat
    BY <1>2, <2>1, RegistryAssumption
  <2> QED
    BY <1>7, <2>1, <2>2 DEF D!ChildFolder
<1>9. f \in Seq(STRING) /\ Len(f) = Len(q.path) + 1
  BY <1>2, <1>7, <1>8, FolderHolds
<1>10. ASSUME NEW id \in DOMAIN value, ~D!Gone(id, entries)
       PROVE  D!Within(c(id), f) <=> id \in S /\ key[id] = key[x]
  <2>1. c(id) \in Paths
    BY <1>1, <1>10, CurrentPath
  <2>2. D!Within(c(id), f) <=> /\ D!Within(c(id), q.path) /\ Len(c(id)) > Len(q.path) + 1
                               /\ D!ChildFolder(c(id), q.path) = f
    BY <1>2, <1>7, <1>8, <2>1, FolderHolds
  <2>3. id \in S <=> D!Within(c(id), q.path)
    BY <1>6, <1>10
  <2>4. key[id] = IF D!ChildFolder(c(id), q.path) = None THEN <<"file", id>>
                  ELSE <<"dir", D!ChildFolder(c(id), q.path)>>
    BY <1>6, <1>10
  <2>5. key[id] = key[x] <=> D!ChildFolder(c(id), q.path) = f
    BY <1>7, <2>4, KeysApart
  <2>6. D!ChildFolder(c(id), q.path) = f => Len(c(id)) > Len(q.path) + 1
    <3>1. Len(c(id)) \in Nat /\ Len(q.path) \in Nat
      BY <1>2, <2>1, RegistryAssumption
    <3> QED
      <4>1. f # None
        BY <1>7
      <4> HIDE DEF f
      <4> QED
        BY <3>1, <4>1 DEF D!ChildFolder
  <2> QED
    BY <2>2, <2>3, <2>5, <2>6
<1>11. r = [path |-> f, view |-> "children", groupBy |-> "path", most |-> q.most]
  BY <1>2
<1>12. here = {y \in S : key[y] = key[x]}
  <2>1. here = {id \in DOMAIN value : ~D!Gone(id, entries) /\ D!Within(c(id), f)}
    BY <1>11 DEF Present, D!PresentUnder
  <2>2. \A y \in S : key[y] = key[x] => ~D!Gone(y, entries)
    BY <1>6, <1>7, KeysApart
  <2> QED
    BY <1>6, <1>10, <2>1, <2>2
<1>13. D!DeletedUnder(value, entries, f) = gone
  <2>1. f # <<>>
    BY <1>2, <1>9
  <2> QED
    BY <2>1 DEF D!DeletedUnder, DeletedIn, D!Gone, D!Root, value
<1>14. D!ScopeTotal(r, value, entries) = D!SumOver(Shown(r, value, entries), value)
  <2>1. Proper(r)
    BY <1>11 DEF Proper
  <2> QED
    BY <1>1, <2>1, ScopeShown
<1>15. Shown(r, value, entries) = here \cup gone
  BY <1>11, <1>13 DEF Shown
<1>16. here \cap gone = {} /\ here \subseteq DOMAIN value /\ gone \subseteq DOMAIN value
  BY <1>11 DEF Present, D!PresentUnder, DeletedIn, D!Gone, value
<1> HIDE DEF r, here, gone
<1>17. IsFiniteSet(here) /\ IsFiniteSet(gone) /\ \A id \in here \cup gone : value[id] \in Nat
  BY <1>1, <1>16, FS_Subset
<1>18. D!SumOver(here \cup gone, value) = D!SumOver(here, value) + D!SumOver(gone, value)
  BY <1>16, <1>17, TotalUnion
<1> QED
  BY <1>5, <1>12, <1>14, <1>15, <1>18, Zenon DEF r, gone, value

-----------------------------------------------------------------------------
(* The open session on top of a result.                                    *)

\* The session is added to the first item that fits, or is an item of its own.
LEMMA OwnerTakes ==
  ASSUME NEW items, Priced(items), \A i \in items : i.id # <<"other">>,
         \A i \in items : i = [id |-> i.id, value |-> i.value, members |-> i.members],
         NEW holder, holder # <<"other">>, NEW file
  PROVE  LET later == D!AddToOwner(items, holder, file, 1)
         IN  /\ Priced(later) /\ Weight(later) = Weight(items) + 1
             /\ \A i \in later : i.id # <<"other">>
<1> DEFINE later == D!AddToOwner(items, holder, file, 1)
           fits == {i \in items : file \in i.members \/ i.id = holder}
           first == CHOOSE i \in fits : \A j \in fits : j.value <= i.value
           new == [id |-> holder, value |-> 1, members |-> {file}]
           credited == D!Credited(first, file, 1)
           rest == items \ {first}
<1> SUFFICES /\ Priced(later) /\ Weight(later) = Weight(items) + 1
             /\ \A i \in later : i.id # <<"other">>
  OBVIOUS
<1>1. later = IF fits = {} THEN items \cup {new} ELSE rest \cup {credited}
  BY DEF D!AddToOwner
<1> HIDE DEF later
<1>2. IsFiniteSet(items) /\ (\A i \in items : i.value \in Nat) /\ Weight(items) \in Nat
      /\ \A i, j \in items : i.id = j.id => i = j
  <2>1. Weight(items) \in Nat
    BY WeightWithin DEF Priced
  <2> QED
    BY <2>1 DEF Priced
<1>3. CASE fits = {}
  <2>1. later = items \cup {new} /\ new.id = holder /\ new.value = 1
    BY <1>1, <1>3
  <2>2. \A i \in items : i.id # holder
    BY <1>3
  <2> HIDE DEF fits, new
  <2>3. new \notin items
    BY <2>1, <2>2
  <2>4. IsFiniteSet(items \cup {new}) /\ Weight(items \cup {new}) = Weight(items) + Weight({new})
    <3>1. IsFiniteSet({new}) /\ items \cap {new} = {} /\ \A i \in items \cup {new} : i.value \in Nat
      <4>1. items \cap {new} = {} /\ \A i \in items \cup {new} : i.value \in Nat
        BY <1>2, <2>1, <2>3
      <4> QED
        BY <4>1, FS_Singleton
    <3>2. IsFiniteSet(items \cup {new})
      BY <1>2, <3>1, FS_Union
    <3>3. Weight(items \cup {new}) = Weight(items) + Weight({new})
      BY <1>2, <3>1, WeightUnion
    <3> QED
      BY <3>2, <3>3
  <2>5. Weight({new}) = 1
    BY <2>1, WeightOne
  <2>6. Priced(later)
    BY <1>2, <2>1, <2>2, <2>4 DEF Priced
  <2> QED
    BY <2>1, <2>4, <2>5, <2>6
<1>4. CASE fits # {}
  <2>1. first \in fits
    <3>1. IsFiniteSet(fits) /\ \A i \in fits : i.value \in Nat
      BY <1>2, FS_Subset
    <3>2. \E i \in fits : \A j \in fits : i.value >= j.value
      <4> HIDE DEF fits
      <4> QED
        BY <1>4, <3>1, Highest
    <3>3. \E i \in fits : \A j \in fits : j.value <= i.value
      BY <3>1, <3>2
    <3> HIDE DEF fits
    <3> QED
      BY <3>3
  <2>2. first \in items /\ later = rest \cup {credited}
    BY <1>1, <1>4, <2>1
  <2> HIDE DEF first, fits
  <2>3. credited.id = first.id /\ credited.value = first.value + 1
    BY <2>2 DEF D!Credited
  <2> HIDE DEF credited
  <2>4. /\ IsFiniteSet(rest) /\ rest \cup {first} = items /\ rest \cap {first} = {}
        /\ credited \notin rest /\ \A i \in rest \cup {first, credited} : i.value \in Nat
    BY <1>2, <2>2, <2>3, FS_Subset
  <2>5. /\ IsFiniteSet({first}) /\ IsFiniteSet({credited})
        /\ Weight({first}) = first.value /\ Weight({credited}) = credited.value
    BY <2>4, FS_Singleton, WeightOne
  <2> HIDE DEF rest
  <2>6. Weight(rest \cup {first}) = Weight(rest) + Weight({first})
    BY <2>4, <2>5, WeightUnion
  <2>7. Weight(rest \cup {credited}) = Weight(rest) + Weight({credited})
    <3>1. rest \cap {credited} = {} /\ \A i \in rest \cup {credited} : i.value \in Nat
      BY <2>4
    <3> QED
      BY <2>4, <2>5, <3>1, WeightUnion
  <2>8. Weight(rest) \in Nat /\ first.value \in Nat
    BY <2>4, WeightWithin
  <2>9. Weight(items) = Weight(rest) + first.value
    BY <2>4, <2>5, <2>6, Zenon
  <2>10. Weight(later) = Weight(items) + 1
    BY <2>2, <2>3, <2>5, <2>7, <2>8, <2>9
  <2>11. IsFiniteSet(later)
    BY <2>2, <2>4, FS_AddElement
  <2>12. Priced(later)
    <3>1. \A i \in rest : i.id # first.id
      BY <1>2, <2>4
    <3>2. \A i, j \in later : i.id = j.id => i = j
      BY <1>2, <2>2, <2>3, <2>4, <3>1
    <3> QED
      BY <2>2, <2>4, <2>11, <3>2 DEF Priced
  <2>13. \A i \in later : i.id # <<"other">>
    BY <2>2, <2>3, <2>4
  <2> QED
    BY <2>10, <2>12, <2>13
<1> QED
  BY <1>3, <1>4

\* The overlay of any result adds up, wherever the file is now.
LEMMA LiveAddsUp ==
  ASSUME NEW q, Proper(q), q.most \in Nat, NEW e,
         NEW value, IsFiniteSet(DOMAIN value), \A id \in DOMAIN value : value[id] \in Nat,
         NEW id, NEW path
  PROVE  LET r == D!RunQuery(q, value, e)
             live == D!WithLive(q, r, id, path, 1)
             holder == D!ScopeOwner(q, id, path)
         IN  /\ AddsUp(live)
             /\ live = [scope |-> r.scope + IF holder = None THEN 0 ELSE 1,
                        vault |-> r.vault + 1,
                        detail |-> IF holder = None THEN r.detail
                                   ELSE D!AddToOwner(r.detail, holder, id, 1),
                        chart |-> D!ChartItems(live.detail, q.most)]
<1> DEFINE S == Shown(q, value, e)
           key == KeyOf(q, value, e)
           detail == Sliced(S, key, value)
           r == D!RunQuery(q, value, e)
           holder == D!ScopeOwner(q, id, path)
           after == IF holder = None THEN detail ELSE D!AddToOwner(detail, holder, id, 1)
           chart == D!ChartItems(after, q.most)
           live == D!WithLive(q, r, id, path, 1)
<1>1. D!DetailItems(q, value, e) = detail
  BY DetailSliced
<1>2. D!ScopeTotal(q, value, e) = D!SumOver(S, value) /\ IsFiniteSet(S) /\ S \subseteq DOMAIN value
  BY ScopeShown
<1>3. r.scope = D!SumOver(S, value) /\ r.detail = detail
  BY <1>1, <1>2 DEF D!RunQuery
<1>4. \A i \in detail : i.id # <<"other">>
  BY NotOther
<1>5. holder # <<"other">> \/ holder = None
  BY KeysApart DEF D!ScopeOwner
<1> HIDE DEF holder, r
<1>6. live = [scope |-> r.scope + IF holder = None THEN 0 ELSE 1, vault |-> r.vault + 1,
              detail |-> after, chart |-> chart]
  BY <1>3 DEF D!WithLive, holder
<1> HIDE DEF S, key
<1>7. /\ Priced(detail) /\ Weight(detail) = D!SumOver(S, value) /\ Weight(detail) \in Nat
      /\ \A i \in detail : i = [id |-> i.id, value |-> i.value, members |-> i.members]
  <2>1. Priced(detail) /\ Weight(detail) = D!SumOver(S, value)
    BY <1>2, SlicedKeeps
  <2>2. \A i \in detail : i = [id |-> i.id, value |-> i.value, members |-> i.members]
    <3> SUFFICES ASSUME NEW i \in detail
                 PROVE  i = [id |-> i.id, value |-> i.value, members |-> i.members]
      OBVIOUS
    <3>1. PICK x \in S : i = Slice(S, key, value, key[x])
      BY DEF Sliced
    <3> HIDE DEF detail
    <3> QED
      BY <3>1 DEF Slice
  <2> HIDE DEF detail
  <2>3. Weight(detail) \in Nat
    BY <2>1, WeightWithin DEF Priced
  <2> QED
    BY <2>1, <2>2, <2>3
<1> HIDE DEF detail
<1>8. /\ Priced(after) /\ Weight(after) = Weight(detail) + IF holder = None THEN 0 ELSE 1
      /\ \A i \in after : i.id # <<"other">>
  <2>1. CASE holder = None
    BY <1>4, <1>7, <2>1
  <2>2. CASE holder # None
    BY <1>4, <1>5, <1>7, <2>2, OwnerTakes
  <2> QED
    BY <2>1, <2>2
<1> HIDE DEF after
<1>9. Priced(chart) /\ Weight(chart) = Weight(after)
  BY <1>8, ChartKeeps
<1> HIDE DEF chart
<1>10. ItemSum(chart) = Weight(chart) /\ ItemSum(after) = Weight(after)
  BY <1>8, <1>9, ItemSumIsWeight
<1>11. \A i, j \in after : i.id = j.id => i = j
  BY <1>8 DEF Priced
<1> HIDE DEF live
<1>12. AddsUp(live)
  BY <1>3, <1>6, <1>7, <1>8, <1>9, <1>10, <1>11 DEF AddsUp
<1>13. live.detail = after
  BY <1>6
<1> QED
  BY <1>3, <1>6, <1>12, <1>13, Zenon DEF after, chart, live, r, holder

-----------------------------------------------------------------------------
(* The session is in the sum.                                              *)

\* One more for one file.
LEMMA TotalLater ==
  ASSUME NEW S, IsFiniteSet(S), NEW value, \A x \in S : value[x] \in Nat, NEW id, NEW later,
         \A x \in S \ {id} : later[x] = value[x],
         later[id] = (IF id \in S THEN value[id] ELSE 0) + 1
  PROVE  D!SumOver(S \cup {id}, later) = D!SumOver(S, value) + 1
<1> DEFINE T == S \ {id}
<1>1. /\ IsFiniteSet(T) /\ id \notin T /\ S \cup {id} = T \cup {id}
      /\ \A x \in T : value[x] \in Nat /\ later[x] = value[x]
      /\ \A x \in T \cup {id} : later[x] \in Nat
  BY FS_Subset
<1>2. CASE id \in S
  <2>1. S = T \cup {id} /\ later[id] = value[id] + 1 /\ value[id] \in Nat
    BY <1>2
  <2> HIDE DEF T
  <2>2. D!SumOver(T \cup {id}, later) = D!SumOver(T, later) + later[id]
    BY <1>1, TotalWith
  <2>3. D!SumOver(T \cup {id}, value) = D!SumOver(T, value) + value[id]
    <3>1. \A x \in T \cup {id} : value[x] \in Nat
      BY <1>1, <2>1
    <3> QED
      BY <1>1, <3>1, TotalWith
  <2>4. D!SumOver(T, value) = D!SumOver(T, later)
    BY <1>1, TotalAgree
  <2>5. D!SumOver(T, value) \in Nat
    BY <1>1, TotalType
  <2>6. D!SumOver(T \cup {id}, later) = D!SumOver(T \cup {id}, value) + 1
    BY <2>1, <2>2, <2>3, <2>4, <2>5
  <2> QED
    BY <1>1, <2>1, <2>6, Zenon
<1>3. CASE id \notin S
  <2>1. S = T /\ later[id] = 1
    BY <1>3
  <2> HIDE DEF T
  <2>2. D!SumOver(T \cup {id}, later) = D!SumOver(T, later) + later[id]
    BY <1>1, TotalWith
  <2>3. D!SumOver(T, value) = D!SumOver(T, later)
    BY <1>1, TotalAgree
  <2> QED
    BY <1>1, <2>1, <2>2, <2>3, Zenon
<1> QED
  BY <1>2, <1>3

\* Only the value and the members of an item change.
LEMMA CreditedIs ==
  ASSUME NEW which, NEW of, NEW id, NEW n \in Nat
  PROVE  D!Credited([id |-> which, value |-> n, members |-> of], id, 1)
           = [id |-> which, value |-> n + 1, members |-> of \cup {id}]
<1> DEFINE item == [id |-> which, value |-> n, members |-> of]
           next == [id |-> which, value |-> n + 1, members |-> of \cup {id}]
           credited == D!Credited(item, id, 1)
<1>1. /\ credited.value = n + 1 /\ credited.members = of \cup {id} /\ credited.id = which
      /\ credited \in [id : {which}, value : {n + 1}, members : {of \cup {id}}]
  BY DEF D!Credited
<1> HIDE DEF credited
<1>2. credited = next
  BY <1>1
<1> QED
  BY <1>2 DEF credited

\* The overlay of the items is the items of a later query.
LEMMA SlicedLater ==
  ASSUME NEW S, IsFiniteSet(S), NEW value, \A x \in S : value[x] \in Nat, NEW id, NEW later,
         \A x \in S \ {id} : later[x] = value[x],
         later[id] = (IF id \in S THEN value[id] ELSE 0) + 1,
         NEW key, NEW after, \A x \in S : after[x] = key[x]
  PROVE  Sliced(S \cup {id}, after, later) = D!AddToOwner(Sliced(S, key, value), after[id], id, 1)
<1> DEFINE holder == after[id]
           T == S \cup {id}
           part(k) == {x \in S : key[x] = k}
           next(k) == {x \in T : after[x] = k}
           old(k) == Slice(S, key, value, k)
           new(k) == Slice(T, after, later, k)
           items == Sliced(S, key, value)
           keys == {key[x] : x \in S}
           fits == {i \in items : id \in i.members \/ i.id = holder}
           first == CHOOSE i \in fits : \A j \in fits : j.value <= i.value
           single == [id |-> holder, value |-> 1, members |-> {id}]
<1>1. items = {old(k) : k \in keys} /\ Sliced(T, after, later) = {new(k) : k \in keys \cup {holder}}
  <2>1. {after[x] : x \in T} = keys \cup {holder}
    OBVIOUS
  <2> HIDE DEF keys, T
  <2>2. Sliced(T, after, later) = {new(k) : k \in {after[x] : x \in T}}
    BY DEF Sliced
  <2>3. items = {old(k) : k \in keys}
    BY DEF Sliced, keys
  <2> QED
    BY <2>1, <2>2, <2>3, Zenon
<1>2. /\ \A k : /\ old(k) = [id |-> k, value |-> D!SumOver(part(k), value), members |-> part(k)]
                /\ new(k) = [id |-> k, value |-> D!SumOver(next(k), later), members |-> next(k)]
  BY DEF Slice
<1>3. \A k : k # holder => next(k) = part(k) /\ id \notin part(k)
  OBVIOUS
<1>4. next(holder) = part(holder) \cup {id} /\ (id \in S <=> id \in part(holder))
  OBVIOUS
<1>5. \A k : IsFiniteSet(part(k)) /\ \A x \in part(k) : value[x] \in Nat /\ x \in S
  BY FS_Subset
<1> HIDE DEF part, next, old, new
<1>6. \A k : k # holder => new(k) = old(k)
  <2> SUFFICES ASSUME NEW k, k # holder PROVE D!SumOver(part(k), later) = D!SumOver(part(k), value)
    BY <1>2, <1>3
  <2>1. \A x \in part(k) : value[x] \in Nat /\ value[x] = later[x]
    BY <1>3, <1>5
  <2> QED
    BY <1>5, <2>1, TotalAgree
<1>7. D!SumOver(next(holder), later) = D!SumOver(part(holder), value) + 1
  <2> DEFINE P == part(holder)
  <2>1. /\ IsFiniteSet(P) /\ (\A x \in P : value[x] \in Nat)
        /\ (\A x \in P \ {id} : later[x] = value[x])
        /\ later[id] = (IF id \in P THEN value[id] ELSE 0) + 1
    BY <1>4, <1>5
  <2> HIDE DEF P
  <2>2. D!SumOver(P \cup {id}, later) = D!SumOver(P, value) + 1
    BY <2>1, TotalLater
  <2> QED
    BY <1>4, <2>2, Zenon DEF P
<1>8. D!AddToOwner(items, holder, id, 1)
        = IF fits = {} THEN items \cup {single} ELSE (items \ {first}) \cup {D!Credited(first, id, 1)}
  BY DEF D!AddToOwner
<1>9. \A i \in items : (id \in i.members \/ i.id = holder) <=> i = old(holder)
  <2> SUFFICES ASSUME NEW k \in keys
               PROVE  (id \in old(k).members \/ old(k).id = holder) <=> old(k) = old(holder)
    BY <1>1
  <2>1. old(k).members = part(k) /\ old(k).id = k /\ old(holder).id = holder
    BY <1>2
  <2> QED
    BY <1>3, <2>1
<1>10. \A k \in keys : old(k) = old(holder) => k = holder
  BY <1>2
<1>11. CASE holder \in keys
  <2>1. old(holder) \in items
    BY <1>1, <1>11
  <2>2. fits = {old(holder)}
    BY <1>9, <2>1
  <2> HIDE DEF fits, items
  <2>3. D!SumOver(part(holder), value) \in Nat
    BY <1>5, TotalType
  <2>4. first = old(holder)
    <3>1. old(holder).value <= old(holder).value
      BY <1>2, <2>3
    <3> QED
      BY <2>2, <3>1
  <2> HIDE DEF first
  <2>5. D!Credited(old(holder), id, 1) = new(holder)
    <3> DEFINE v == D!SumOver(part(holder), value)
               m == part(holder)
    <3>1. old(holder) = [id |-> holder, value |-> v, members |-> m]
      BY <1>2, Zenon
    <3>2. new(holder) = [id |-> holder, value |-> v + 1, members |-> m \cup {id}]
      <4>1. new(holder) = [id |-> holder, value |-> D!SumOver(next(holder), later),
                           members |-> next(holder)]
        BY <1>2, Zenon
      <4> QED
        BY <1>4, <1>7, <4>1, Zenon
    <3> HIDE DEF v, m
    <3>3. v \in Nat
      BY <2>3 DEF v
    <3> QED
      BY <3>1, <3>2, <3>3, CreditedIs
  <2>6. D!AddToOwner(items, holder, id, 1) = (items \ {old(holder)}) \cup {new(holder)}
    BY <1>8, <2>2, <2>4, <2>5
  <2>7. items \ {old(holder)} = {old(k) : k \in keys \ {holder}}
    <3>1. items = {old(k) : k \in keys}
      BY <1>1
    <3> QED
      BY <1>10, <1>11, <3>1
  <2>8. {new(k) : k \in keys \cup {holder}} = {old(k) : k \in keys \ {holder}} \cup {new(holder)}
    <3> HIDE DEF keys, holder
    <3> QED
      BY <1>6
  <2> QED
    BY <1>1, <2>6, <2>7, <2>8, Zenon DEF items
<1>12. CASE holder \notin keys
  <2>1. \A k \in keys : k # holder
    BY <1>12
  <2>2. fits = {}
    BY <1>1, <1>9, <1>10, <2>1
  <2>3. part(holder) = {}
    BY <1>12 DEF part
  <2>4. new(holder) = single
    <3>1. new(holder) = [id |-> holder, value |-> D!SumOver(next(holder), later),
                         members |-> next(holder)]
      BY <1>2, Zenon
    <3>2. next(holder) = {id}
      BY <1>4, <2>3
    <3>3. D!SumOver(part(holder), value) = 0
      BY <2>3, TotalEmpty, Zenon
    <3>4. D!SumOver(next(holder), later) = 1
      BY <1>7, <3>3
    <3> QED
      BY <3>1, <3>2, <3>4, Zenon
  <2> HIDE DEF fits, single
  <2>5. D!AddToOwner(items, holder, id, 1) = items \cup {new(holder)}
    BY <1>8, <2>2, <2>4
  <2>6. {new(k) : k \in keys \cup {holder}} = {old(k) : k \in keys} \cup {new(holder)}
    <3> HIDE DEF keys, holder
    <3> QED
      BY <1>6, <2>1
  <2> QED
    BY <1>1, <2>5, <2>6, Zenon
<1> QED
  BY <1>11, <1>12

\* Which files a query shows does not depend on their time.
Seen(q, e, id) ==
  IF D!Gone(id, e)
  THEN q.view = "children" /\ (q.path = <<>> \/ (e[id] # None /\ D!Within(e[id].lastKnown, q.path)))
  ELSE /\ D!Within(e[id].current, q.path)
       /\ q.view = "local-files" => D!ChildFolder(e[id].current, q.path) = None

\* A query shows the files it sees that have time.
LEMMA ShownAreSeen ==
  ASSUME NEW q, NEW e, NEW value
  PROVE  Shown(q, value, e) = {id \in DOMAIN value : Seen(q, e, id)}
BY DEF Shown, Present, Seen, D!PresentUnder, D!DeletedUnder, D!Root

\* The same files, keys and times give the same items.
LEMMA SlicedAgree ==
  ASSUME NEW S, IsFiniteSet(S), NEW value, NEW later, NEW key, NEW after,
         \A x \in S : value[x] \in Nat /\ value[x] = later[x] /\ key[x] = after[x]
  PROVE  Sliced(S, key, value) = Sliced(S, after, later)
<1>1. ASSUME NEW k PROVE Slice(S, key, value, k) = Slice(S, after, later, k)
  <2> DEFINE m == {x \in S : key[x] = k}
  <2>1. m = {x \in S : after[x] = k}
    OBVIOUS
  <2>2. IsFiniteSet(m) /\ \A x \in m : value[x] \in Nat /\ value[x] = later[x]
    BY FS_Subset
  <2>3. Slice(S, key, value, k) = [id |-> k, value |-> D!SumOver(m, value), members |-> m]
    BY DEF Slice
  <2>4. Slice(S, after, later, k) = [id |-> k, value |-> D!SumOver(m, later), members |-> m]
    BY <2>1, Zenon DEF Slice
  <2> HIDE DEF m
  <2>5. D!SumOver(m, value) = D!SumOver(m, later)
    BY <2>2, TotalAgree
  <2> QED
    BY <2>3, <2>4, <2>5, Zenon
<1>2. {key[x] : x \in S} = {after[x] : x \in S}
  OBVIOUS
<1> DEFINE keys == {after[x] : x \in S}
<1>3. Sliced(S, key, value) = {Slice(S, key, value, k) : k \in keys}
  BY <1>2, Zenon DEF Sliced
<1>4. Sliced(S, after, later) = {Slice(S, after, later, k) : k \in keys}
  BY DEF Sliced
<1> HIDE DEF keys
<1> QED
  BY <1>1, <1>3, <1>4

\* The file of a session is in a query's items exactly when the overlay finds it an holder.
LEMMA OwnerIsKey ==
  ASSUME NEW q \in Queries, Proper(q), NEW id \in Ids, NEW path \in Paths,
         NEW e, e[id] # None, e[id].current = path, NEW value, id \in DOMAIN value
  PROVE  LET holder == D!ScopeOwner(q, id, path)
         IN  /\ Seen(q, e, id) <=> holder # None
             /\ holder # None => holder = KeyOf(q, value, e)[id]
<1> DEFINE holder == D!ScopeOwner(q, id, path)
           folder == D!ChildFolder(path, q.path)
<1>1. path # None /\ path \in Seq(STRING) /\ q.path \in Seq(STRING) /\ path # q.path
  <2>1. q.path \in Folders \cup {<<>>}
    BY DEF Queries
  <2>2. path # None /\ path \in Seq(STRING) /\ Folders \subseteq Seq(STRING)
    BY RegistryAssumption
  <2>3. <<>> \in Seq(STRING)
    OBVIOUS
  <2> QED
    BY <2>1, <2>2, <2>3, NamesAssumption
<1>2. ~D!Gone(id, e)
  BY <1>1 DEF D!Gone
<1>3. D!Within(path, q.path) => Len(path) # Len(q.path)
  <2> SUFFICES ASSUME D!Within(path, q.path), Len(path) = Len(q.path) PROVE FALSE
    OBVIOUS
  <2>1. SubSeq(path, 1, Len(path)) = q.path
    BY DEF D!Within
  <2>2. SubSeq(path, 1, Len(path)) = path
    BY <1>1
  <2> QED
    BY <1>1, <2>1, <2>2
<1>4. folder # None => folder \in Seq(STRING)
  <2>1. Len(path) > Len(q.path) + 1 => SubSeq(path, 1, Len(q.path) + 1) \in Seq(STRING)
    BY <1>1
  <2>2. Len(path) \in Nat /\ Len(q.path) \in Nat
    BY <1>1
  <2> DEFINE below == SubSeq(path, 1, Len(q.path) + 1)
  <2>3. folder = IF Len(path) <= Len(q.path) + 1 THEN None ELSE below
    BY DEF D!ChildFolder
  <2> HIDE DEF folder, below, holder
  <2>4. CASE Len(path) <= Len(q.path) + 1
    BY <2>3, <2>4
  <2>5. CASE ~(Len(path) <= Len(q.path) + 1)
    <3>1. folder = below
      BY <2>3, <2>5
    <3>2. below \in Seq(STRING)
      BY <2>1, <2>2, <2>5 DEF below
    <3> QED
      BY <3>1, <3>2
  <2> QED
    BY <2>4, <2>5
<1>5. <<"file", id>> # None /\ (folder # None => <<"dir", folder>> # None)
  BY <1>4, NamesAssumption
<1>6. Seen(q, e, id) <=> D!Within(path, q.path) /\ (q.view = "local-files" => folder = None)
  BY <1>2 DEF Seen
<1>7. KeyOf(q, value, e)[id] = IF q.groupBy = "file" \/ folder = None THEN <<"file", id>>
                               ELSE <<"dir", folder>>
  BY <1>2 DEF KeyOf
<1>8. holder = IF ~D!Within(path, q.path) \/ Len(path) = Len(q.path) THEN None
              ELSE IF q.groupBy = "file" THEN <<"file", id>>
              ELSE IF folder = None THEN <<"file", id>>
              ELSE IF q.view = "local-files" THEN None
              ELSE <<"dir", folder>>
  BY DEF D!ScopeOwner
<1> HIDE DEF holder, folder
<1> SUFFICES /\ Seen(q, e, id) <=> holder # None
             /\ holder # None => holder = KeyOf(q, value, e)[id]
  BY DEF holder
<1> QED
  BY <1>3, <1>5, <1>6, <1>7, <1>8 DEF Proper

\* So the overlay counts the session once, and where a later query will count it.
LEMMA EveryOverlay ==
  ASSUME TypeOK, TimeOK, TargetOK
  PROVE  LiveIsLaterQuery
<1> SUFFICES ASSUME target # None, NEW q \in Queries
             PROVE  LET live  == D!WithLive(q, D!RunQuery(q, Value, entries), target.id, target.path, 1)
                        later == [id \in DOMAIN Value \union {target.id} |->
                                   (IF id \in DOMAIN Value THEN Value[id] ELSE 0)
                                     + IF id = target.id THEN 1 ELSE 0]
                    IN  /\ AddsUp(live)
                        /\ live.vault = TotalRecords + 1
                        /\ entries[target.id] # None /\ entries[target.id].current = target.path =>
                             live = D!RunQuery(q, later, entries)
  BY DEF LiveIsLaterQuery
<1> DEFINE value == Value
           t == target.id
           r == D!RunQuery(q, value, entries)
           live == D!WithLive(q, r, t, target.path, 1)
           later == [id \in DOMAIN value \union {t} |->
                       (IF id \in DOMAIN value THEN value[id] ELSE 0) + IF id = t THEN 1 ELSE 0]
           holder == D!ScopeOwner(q, t, target.path)
           S == Shown(q, value, entries)
           next == Shown(q, later, entries)
           key == KeyOf(q, value, entries)
           after == KeyOf(q, later, entries)
<1>1. t \in Ids /\ target.path \in Paths
  BY DEF TargetOK
<1>2. /\ DOMAIN value \subseteq Ids /\ IsFiniteSet(DOMAIN value)
      /\ \A id \in DOMAIN value : value[id] \in Nat
  BY MergedValue DEF Value
<1>3. Proper(q) /\ q.most \in Nat
  BY QueryAssumption DEF Queries, Views, Proper
<1>4. D!SumOver(DOMAIN value, value) = TotalRecords
  BY MergedTotal DEF Value, Recorded
<1> HIDE DEF value, holder
<1>5. /\ r.scope = D!SumOver(S, value) /\ r.vault = TotalRecords /\ r.detail = Sliced(S, key, value)
      /\ IsFiniteSet(S) /\ S \subseteq DOMAIN value
  BY <1>2, <1>3, <1>4, ScopeShown, DetailSliced DEF D!RunQuery
<1>6. /\ AddsUp(live)
      /\ live = [scope |-> r.scope + IF holder = None THEN 0 ELSE 1,
                 vault |-> r.vault + 1,
                 detail |-> IF holder = None THEN r.detail
                            ELSE D!AddToOwner(r.detail, holder, t, 1),
                 chart |-> D!ChartItems(live.detail, q.most)]
  BY <1>2, <1>3, LiveAddsUp DEF holder
<1>7. live.vault = TotalRecords + 1
  <2> HIDE DEF live, r
  <2> QED
    BY <1>5, <1>6
<1>8. ASSUME entries[t] # None, entries[t].current = target.path
      PROVE  live = D!RunQuery(q, later, entries)
  <2>1. /\ DOMAIN later = DOMAIN value \cup {t}
        /\ \A x \in DOMAIN value \ {t} : later[x] = value[x]
        /\ later[t] = (IF t \in DOMAIN value THEN value[t] ELSE 0) + 1
        /\ \A x \in DOMAIN later : later[x] \in Nat
    BY <1>2
  <2> HIDE DEF later
  <2>2. IsFiniteSet(DOMAIN later)
    BY <1>2, <2>1, FS_AddElement
  <2>3. D!RunQuery(q, later, entries)
          = [scope |-> D!SumOver(next, later), vault |-> D!SumOver(DOMAIN later, later),
             detail |-> Sliced(next, after, later),
             chart |-> D!ChartItems(Sliced(next, after, later), q.most)]
    <3>1. D!ScopeTotal(q, later, entries) = D!SumOver(next, later)
      BY <1>3, <2>1, <2>2, ScopeShown
    <3>2. D!DetailItems(q, later, entries) = Sliced(next, after, later)
      BY <1>3, <2>1, DetailSliced
    <3> HIDE DEF next, after
    <3> QED
      BY <3>1, <3>2, Zenon DEF D!RunQuery
  <2>4. D!SumOver(DOMAIN later, later) = TotalRecords + 1
    <3> DEFINE all == DOMAIN value
    <3>1. /\ IsFiniteSet(all) /\ \A x \in all : value[x] \in Nat
          /\ \A x \in all \ {t} : later[x] = value[x]
          /\ later[t] = (IF t \in all THEN value[t] ELSE 0) + 1
      BY <1>2, <2>1
    <3> HIDE DEF all
    <3>2. D!SumOver(all \cup {t}, later) = D!SumOver(all, value) + 1
      BY <3>1, TotalLater
    <3> QED
      BY <1>4, <2>1, <3>2, Zenon DEF all
  <2>5. S = {id \in DOMAIN value : Seen(q, entries, id)}
        /\ next = {id \in DOMAIN later : Seen(q, entries, id)}
    BY ShownAreSeen
  <2>6. \A x \in DOMAIN value : key[x] = after[x]
    BY <2>1 DEF KeyOf
  <2>7. (Seen(q, entries, t) <=> holder # None) /\ (holder # None => holder = after[t])
    <3>1. t \in DOMAIN later
      BY <2>1
    <3> HIDE DEF t
    <3> QED
      BY <1>1, <1>3, <1>8, <3>1, OwnerIsKey DEF holder
  <2> HIDE DEF S, next, key, after, r, live, t
  <2>8. CASE holder = None
    <3>1. next = S /\ \A x \in S : value[x] \in Nat /\ value[x] = later[x] /\ key[x] = after[x]
      BY <1>2, <2>1, <2>5, <2>6, <2>7, <2>8
    <3>2. Sliced(S, key, value) = Sliced(S, after, later)
      BY <1>5, <3>1, SlicedAgree
    <3>3. D!SumOver(S, later) = D!SumOver(S, value)
      BY <1>5, <3>1, TotalAgree
    <3>4. D!SumOver(S, value) \in Nat
      BY <1>5, <3>1, TotalType
    <3>5. live.detail = Sliced(next, after, later)
      BY <1>5, <1>6, <2>8, <3>1, <3>2
    <3>6. r.scope + (IF holder = None THEN 0 ELSE 1) = D!SumOver(next, later)
      BY <1>5, <2>8, <3>1, <3>3, <3>4
    <3> QED
      BY <1>5, <1>6, <2>3, <2>4, <2>8, <3>5, <3>6
  <2>9. CASE holder # None
    <3>1. next = S \cup {t}
      BY <1>2, <1>5, <2>1, <2>5, <2>7, <2>9
    <3>2. /\ \A x \in S : value[x] \in Nat /\ after[x] = key[x]
          /\ \A x \in S \ {t} : later[x] = value[x]
          /\ later[t] = (IF t \in S THEN value[t] ELSE 0) + 1
      BY <1>2, <1>5, <2>1, <2>5, <2>6, <2>7, <2>9
    <3>3. Sliced(S \cup {t}, after, later) = D!AddToOwner(Sliced(S, key, value), after[t], t, 1)
      BY <1>5, <3>2, SlicedLater
    <3>4. D!SumOver(S \cup {t}, later) = D!SumOver(S, value) + 1
      BY <1>5, <3>2, TotalLater
    <3>5. live.detail = Sliced(next, after, later)
      <4>1. live.detail = D!AddToOwner(r.detail, holder, t, 1)
        BY <1>6, <2>9
      <4> QED
        BY <1>5, <2>7, <2>9, <3>1, <3>3, <4>1, Zenon
    <3>6. r.scope + (IF holder = None THEN 0 ELSE 1) = D!SumOver(next, later)
      BY <1>5, <2>9, <3>1, <3>4
    <3> QED
      BY <1>5, <1>6, <2>3, <2>4, <2>9, <3>5, <3>6
  <2> QED
    BY <2>8, <2>9
<1> QED
  BY <1>6, <1>7, <1>8 DEF value

-----------------------------------------------------------------------------

\* An answer names an identity and a path.
LEMMA ObserveAims ==
  ASSUME TypeOK, NEW path \in Paths, NEW file, Observe(path, file)
  PROVE  TargetOK'
<1>1. CASE index[path] # None
  BY <1>1 DEF Observe, TypeOK, TargetOK
<1>2. CASE index[path] = None
  BY <1>2 DEF Observe, TargetOK
<1> QED
  BY <1>1, <1>2

\* A mutation leaves the target alone, or answers.
LEMMA RunAims ==
  ASSUME TypeOK, TargetOK, NEW task \in Task, Run(task)
  PROVE  TargetOK'
<1>1. CASE task.kind = "resolve"
  <2>1. Resolve(task.path, task.file) /\ task.path \in Paths
    BY <1>1 DEF Run, Task
  <2>2. CASE corrupted
    BY <2>1, <2>2 DEF Resolve, TargetOK
  <2>3. CASE ~corrupted
    BY <2>1, <2>3, ObserveAims DEF Resolve
  <2> QED
    BY <2>2, <2>3
<1>2. CASE task.kind # "resolve"
  <2>1. target' = target
    BY <1>2 DEF Run, Task, Rename, Delete, RenameFolder
  <2> QED
    BY <2>1 DEF TargetOK
<1> QED
  BY <1>1, <1>2

\* A mutation that waits leaves the target alone.
LEMMA SerializeAims ==
  ASSUME TypeOK, TargetOK, NEW task \in Task, Serialize(task)
  PROVE  TargetOK'
<1>1. CASE clearing
  BY <1>1 DEF Serialize, TargetOK
<1>2. CASE ~clearing
  BY <1>2, RunAims DEF Serialize
<1> QED
  BY <1>1, <1>2

\* The target stays an identity with a path, or none.
LEMMA StepAims ==
  ASSUME TypeOK, TargetOK, Next
  PROVE  TargetOK'
<1>1. ASSUME NEW o \in Objects, NEW path \in Paths, CreateFile(o, path) PROVE TargetOK'
  BY <1>1 DEF CreateFile, TargetOK
<1>2. ASSUME NEW o \in Objects, NEW path \in Paths, RenameFile(o, path) PROVE TargetOK'
  <2>1. [kind |-> "rename", from |-> at[o], to |-> path] \in Task
    BY <1>2 DEF RenameFile, TypeOK, Task
  <2> QED
    BY <1>2, <2>1, SerializeAims DEF RenameFile
<1>3. ASSUME NEW o \in Objects, OpenFile(o) PROVE TargetOK'
  <2>1. [kind |-> "resolve", file |-> o, path |-> at[o]] \in Task
    BY <1>3 DEF OpenFile, TypeOK, Task
  <2> QED
    BY <1>3, <2>1, SerializeAims DEF OpenFile
<1>4. ASSUME NEW o \in Objects, DeleteFile(o) PROVE TargetOK'
  <2>1. [kind |-> "delete", path |-> at[o]] \in Task
    BY <1>4 DEF DeleteFile, TypeOK, Task
  <2> QED
    BY <1>4, <2>1, SerializeAims DEF DeleteFile
<1>5. ASSUME NEW from \in Folders, NEW to \in Folders, MoveFolder(from, to) PROVE TargetOK'
  <2>1. [kind |-> "renameFolder", from |-> from, to |-> to] \in Task
    BY DEF Task
  <2> QED
    BY <1>5, <2>1, SerializeAims DEF MoveFolder
<1>6. ASSUME NEW folder \in Folders, DeleteFolder(folder) PROVE TargetOK'
  BY <1>6 DEF DeleteFolder, TargetOK
<1>7. ASSUME RunQueued PROVE TargetOK'
  <2>1. Head(queue) \in Task /\ Run(Head(queue))
    BY <1>7 DEF RunQueued, TypeOK
  <2> QED
    BY <2>1, RunAims
<1>8. ASSUME BeginClear \/ ClearSaved \/ ResolveSaved \/ Restart PROVE TargetOK'
  BY <1>8 DEF BeginClear, ClearSaved, ResolveSaved, Restart, ghosts, TargetOK
<1> QED
  BY <1>1, <1>2, <1>3, <1>4, <1>5, <1>6, <1>7, <1>8 DEF Next, VaultEvent

\* The first state has no time and no target.
LEMMA QueryInitSatisfies == QueryInit => QueryInv
<1> SUFFICES ASSUME QueryInit PROVE QueryInv
  OBVIOUS
<1>1. RegistryInv
  BY InitSatisfies DEF QueryInit
<1>2. TimeOK /\ TargetOK
  BY DEF QueryInit, Init, TimeOK, TargetOK
<1> QED
  BY <1>1, <1>2 DEF QueryInv

\* A record goes to an identity; the vault and the registry leave time alone.
LEMMA QueryStepKeeps == QueryInv /\ [QueryNext]_queryVars => QueryInv'
<1> SUFFICES ASSUME QueryInv, [QueryNext]_queryVars PROVE QueryInv'
  OBVIOUS
<1>1. RegistryInv'
  <2>1. [Next]_vars
    BY DEF QueryNext, RecordTime, queryVars
  <2> QED
    BY <2>1, StepKeeps DEF QueryInv
<1>2. CASE RecordTime
  <2>1. TimeOK'
    <3>1. target.id \in Ids
      BY <1>2 DEF RecordTime, QueryInv, TargetOK
    <3>2. PICK d \in Dates : time' = [time EXCEPT ![d][target.id] = @ + 1]
      BY <1>2 DEF RecordTime
    <3> QED
      BY <3>1, <3>2 DEF QueryInv, TimeOK
  <2>2. TargetOK'
    BY <1>2 DEF RecordTime, vars, QueryInv, TargetOK
  <2> QED
    BY <1>1, <2>1, <2>2 DEF QueryInv
<1>3. CASE Next /\ UNCHANGED time
  <2>1. TargetOK'
    BY <1>3, StepAims DEF QueryInv, RegistryInv
  <2>2. TimeOK'
    BY <1>3 DEF QueryInv, TimeOK
  <2> QED
    BY <1>1, <2>1, <2>2 DEF QueryInv
<1>4. CASE UNCHANGED queryVars
  BY <1>1, <1>4 DEF queryVars, vars, ghosts, QueryInv, TimeOK, TargetOK
<1> QED
  BY <1>2, <1>3, <1>4 DEF QueryNext

\* The registry stays consistent while time is recorded, and time stays with identities.
THEOREM QueryInvariant == QuerySpec => []QueryInv
  BY QueryInitSatisfies, QueryStepKeeps, PTL DEF QuerySpec

\* Whatever was moved, deleted, forgotten or cleared, every slice of every chart is
\* there once and the slices add up to the total, for any vault, any dates and any limit
\* of the chart; the whole history adds up to all recorded time (queryDistribution of
\* distribution-query.ts, projectPaths of path-projection.ts, resolveDateRange of date-range.ts).
THEOREM ChartsStay == QuerySpec => []ChartsAddUp
<1>1. QueryInv => ChartsAddUp
  BY EveryChart DEF QueryInv, RegistryInv
<1> QED
  BY <1>1, QueryInvariant, PTL

\* A folder opened from the map shows the time its slice promised and the files deleted
\* there, for any depth of folders (distribution-query.ts, path-projection.ts).
THEOREM FoldersStay == QuerySpec => []DrillDownKeepsTime
<1>1. QueryInv => DrillDownKeepsTime
  BY EveryFolder DEF QueryInv, RegistryInv
<1> QED
  BY <1>1, QueryInvariant, PTL

\* The open session is counted once in every query and, unless its file moved, where a
\* later query will count it (applyLiveDistribution of live-distribution.ts).
THEOREM OverlaysStay == QuerySpec => []LiveIsLaterQuery
<1>1. QueryInv => LiveIsLaterQuery
  BY EveryOverlay DEF QueryInv, RegistryInv
<1> QED
  BY <1>1, QueryInvariant, PTL

=============================================================================
