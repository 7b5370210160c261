---------------------------- MODULE FileRegistry ----------------------------
(***************************************************************************)
(* data/file-registry.ts: the stable identity of every observed file, its  *)
(* current path, and the events of the vault that move it (main.ts).       *)
(*                                                                         *)
(* Mutations are serialized.  They run as microtasks, so the queue is      *)
(* empty again before the next event, unless clear() waits for its save.   *)
(* A registry is saved after a resolve and by clear(), at no other time.   *)
(***************************************************************************)
EXTENDS Naturals, Sequences

CONSTANTS
  Objects,      \* the vault's files, whatever they are called
  Paths,        \* sequences of names
  Folders,
  Ids,          \* values newFileId may return
  MaxQueue,     \* bound on mutations waiting for clear()
  None

\* Paths are sequences of names.
IsUnder(path, folder) ==
  Len(folder) < Len(path) /\ SubSeq(path, 1, Len(folder)) = folder

Moved(path, from, to) == to \o SubSeq(path, Len(from) + 1, Len(path))

\* What the registry file holds: every identity ever given, and the present paths.
Entry == [current : Paths \union {None}, lastKnown : Paths]
Registry == [entries : [Ids -> Entry \union {None}], index : [Paths -> Ids \union {None}]]

ASSUME RegistryAssumption ==
  /\ Paths \subseteq Seq(STRING) /\ Folders \subseteq Seq(STRING)
  /\ None \notin Objects \union Paths \union Ids \union Entry \union Registry
  /\ \A p \in Paths, from, to \in Folders : IsUnder(p, from) => Moved(p, from, to) \in Paths
  /\ MaxQueue \in Nat

VARIABLES
  at,           \* the vault: the path of every existing file
  entries,      \* [current, lastKnown] of every identity ever given, by id
  index,        \* the id of every present path
  corrupted,    \* no identity is created: the file found at start is damaged
  queue,        \* mutations that wait for clear()
  clearing,     \* clear() waits for its save
  writing,      \* the registry being saved after a resolve, or None
  saved,        \* the registry file, None when damaged
  target,       \* the identity the last resolve answered, with its path
  owner,        \* ghost: the file every identity was created for
  lost          \* ghost: an observed move or delete was forgotten or missed

registry == <<entries, index>>
files    == <<writing, saved>>
ghosts   == <<owner, lost>>
vars     == <<at, registry, corrupted, queue, clearing, files, target, ghosts>>

-----------------------------------------------------------------------------
NoEntries == [id \in Ids |-> None]
NoIndex   == [p \in Paths |-> None]

Task == [kind : {"resolve"}, file : Objects, path : Paths]
          \union [kind : {"rename"}, from : Paths, to : Paths]
          \union [kind : {"delete"}, path : Paths]
          \union [kind : {"renameFolder"}, from : Folders, to : Folders]

Image == [entries |-> entries, index |-> index]

-----------------------------------------------------------------------------
\* The mutations.

\* Mutant: a recreated file gets the identity that was last known at its path.
ObserveAgain(path, file) ==
  LET known == {id \in Ids : entries[id] # None /\ entries[id].lastKnown = path}
  IN  \E id \in IF known # {} THEN known ELSE {i \in Ids : owner[i] = None} :
        /\ entries' = [entries EXCEPT ![id] = [current |-> path, lastKnown |-> path]]
        /\ index' = [index EXCEPT ![path] = id]
        /\ owner' = [owner EXCEPT ![id] = IF @ = None THEN file ELSE @]
        /\ target' = [id |-> id, path |-> path]

\* A first observation, or a file at a path whose file was deleted, gets a new id.
Observe(path, file) ==
  IF index[path] # None
  THEN /\ target' = [id |-> index[path], path |-> path]
       /\ UNCHANGED <<registry, owner>>
  ELSE \E id \in Ids :
         /\ owner[id] = None
         /\ entries' = [entries EXCEPT ![id] = [current |-> path, lastKnown |-> path]]
         /\ index' = [index EXCEPT ![path] = id]
         /\ owner' = [owner EXCEPT ![id] = file]
         /\ target' = [id |-> id, path |-> path]

\* Mutant: a damaged registry does not stop the creation of identities.
ResolveAnyway(path, file) ==
  /\ Observe(path, file)
  /\ writing' = [entries |-> entries', index |-> index']

\* A damaged registry gives no identity; an answer is followed by a save.
Resolve(path, file) ==
  IF corrupted
  THEN UNCHANGED <<registry, owner, target, writing>>
  ELSE /\ Observe(path, file)
       /\ writing' = [entries |-> entries', index |-> index']

Located(id, path) == [entries[id] EXCEPT !.current = path, !.lastKnown = path]

\* Mutant: the identity moves, the old path keeps leading to it.
RenameAdds(from, to) ==
  /\ IF index[from] = None THEN UNCHANGED registry
     ELSE /\ entries' = [entries EXCEPT ![index[from]] = Located(index[from], to)]
          /\ index' = [index EXCEPT ![to] = index[from]]
  /\ UNCHANGED <<owner, target, writing>>

\* An unknown source stays unknown: the next resolve gives the file a new id.
Rename(from, to) ==
  /\ IF index[from] = None THEN UNCHANGED registry
     ELSE /\ entries' = [entries EXCEPT ![index[from]] = Located(index[from], to)]
          /\ index' = [index EXCEPT ![from] = None, ![to] = index[from]]
  /\ UNCHANGED <<owner, target, writing>>

\* The entry stays, without a current path.
Delete(path) ==
  /\ IF index[path] = None THEN UNCHANGED registry
     ELSE /\ entries' = [entries EXCEPT ![index[path]].current = None]
          /\ index' = [index EXCEPT ![path] = None]
  /\ UNCHANGED <<owner, target, writing>>

\* Every indexed descendant moves in one mutation.
RenameFolder(from, to) ==
  LET Source(p)  == {q \in Paths : IsUnder(q, from) /\ index[q] # None /\ Moved(q, from, to) = p}
      Moving(id) == {q \in Paths : IsUnder(q, from) /\ index[q] = id}
  IN  /\ index' = [p \in Paths |->
           IF Source(p) # {} THEN index[CHOOSE q \in Source(p) : TRUE]
           ELSE IF IsUnder(p, from) THEN None ELSE index[p]]
      /\ entries' = [id \in Ids |->
           IF Moving(id) = {} THEN entries[id]
           ELSE Located(id, Moved(CHOOSE q \in Moving(id) : TRUE, from, to))]
      /\ UNCHANGED <<owner, target, writing>>

Run(task) ==
  CASE task.kind = "resolve"      -> Resolve(task.path, task.file)
    [] task.kind = "rename"       -> Rename(task.from, task.to)
    [] task.kind = "delete"       -> Delete(task.path)
    [] task.kind = "renameFolder" -> RenameFolder(task.from, task.to)

-----------------------------------------------------------------------------
\* serialize(): a mutation runs at once, or waits for clear().

Settled == clearing \/ queue = <<>>

Serialize(task) ==
  /\ Settled
  /\ IF clearing
     THEN /\ Len(queue) < MaxQueue
          /\ queue' = Append(queue, task)
          /\ UNCHANGED <<registry, owner, target, writing>>
     ELSE Run(task) /\ UNCHANGED queue
  /\ UNCHANGED <<corrupted, clearing, saved>>

RunQueued ==
  /\ ~clearing /\ queue # <<>>
  /\ Run(Head(queue))
  /\ queue' = Tail(queue)
  /\ UNCHANGED <<at, corrupted, clearing, saved, lost>>

BeginClear ==
  /\ Settled /\ ~clearing
  /\ clearing' = TRUE
  /\ entries' = NoEntries /\ index' = NoIndex
  /\ UNCHANGED <<at, corrupted, queue, files, target, ghosts>>

ClearSaved ==
  /\ clearing
  /\ clearing' = FALSE
  /\ saved' = Image /\ writing' = None
  /\ UNCHANGED <<at, registry, corrupted, queue, target, ghosts>>

\* DataServices.resolve: the save that follows an answer is done.
ResolveSaved ==
  /\ Settled
  /\ writing # None
  /\ saved' = writing /\ writing' = None
  /\ UNCHANGED <<at, registry, corrupted, queue, clearing, target, ghosts>>

-----------------------------------------------------------------------------
\* The vault, and the events main.ts passes on.

Occupied == {at[o] : o \in Objects} \ {None}

CreateFile(o, path) ==
  /\ Settled
  /\ at[o] = None /\ path \notin Occupied
  /\ \A id \in Ids : owner[id] # o
  /\ at' = [at EXCEPT ![o] = path]
  /\ UNCHANGED <<registry, corrupted, queue, clearing, files, target, ghosts>>

OpenFile(o) ==
  /\ at[o] # None
  /\ Serialize([kind |-> "resolve", file |-> o, path |-> at[o]])
  /\ UNCHANGED <<at, lost>>

RenameFile(o, to) ==
  /\ at[o] # None /\ to \notin Occupied
  /\ Serialize([kind |-> "rename", from |-> at[o], to |-> to])
  /\ at' = [at EXCEPT ![o] = to]
  /\ UNCHANGED lost

DeleteFile(o) ==
  /\ at[o] # None
  /\ Serialize([kind |-> "delete", path |-> at[o]])
  /\ at' = [at EXCEPT ![o] = None]
  /\ UNCHANGED lost

Under(folder) == {o \in Objects : at[o] # None /\ IsUnder(at[o], folder)}

MoveFolder(from, to) ==
  /\ Under(from) # {} /\ Under(to) = {}
  /\ Serialize([kind |-> "renameFolder", from |-> from, to |-> to])
  /\ at' = [o \in Objects |-> IF o \in Under(from) THEN Moved(at[o], from, to) ELSE at[o]]
  /\ UNCHANGED lost

\* markDeleted of a folder: one delete for every path that is in the index when the event
\* comes.  A mutation that waits for clear() may put a path of the folder there afterwards.
DeleteFolder(folder) ==
  LET gone == {p \in Paths : IsUnder(p, folder) /\ index[p] # None}
  IN  /\ Settled
      /\ Under(folder) # {}
      /\ at' = [o \in Objects |-> IF o \in Under(folder) THEN None ELSE at[o]]
      /\ index' = [p \in Paths |-> IF p \in gone THEN None ELSE index[p]]
      /\ entries' = [id \in Ids |->
           IF \E p \in gone : index[p] = id THEN [entries[id] EXCEPT !.current = None]
           ELSE entries[id]]
      /\ lost' = (lost \/ queue # <<>>)
      /\ UNCHANGED <<corrupted, queue, clearing, files, target, owner>>

\* The plugin stops and starts: what was not saved is forgotten.  A damaged file is kept as
\* it is and gives no registry.
Restart ==
  /\ saved' \in {saved, None}
  /\ corrupted' = (saved' = None)
  /\ entries' = IF saved' = None THEN NoEntries ELSE saved.entries
  /\ index' = IF saved' = None THEN NoIndex ELSE saved.index
  /\ lost' = (lost \/ saved' # Image)
  /\ queue' = <<>> /\ clearing' = FALSE /\ writing' = None /\ target' = None
  /\ UNCHANGED <<at, owner>>

-----------------------------------------------------------------------------
Init ==
  /\ at = [o \in Objects |-> None]
  /\ entries = NoEntries /\ index = NoIndex
  /\ corrupted = FALSE
  /\ queue = <<>> /\ clearing = FALSE
  /\ writing = None
  /\ saved = [entries |-> NoEntries, index |-> NoIndex]
  /\ target = None
  /\ owner = [id \in Ids |-> None]
  /\ lost = FALSE

VaultEvent ==
  \/ \E o \in Objects, path \in Paths : CreateFile(o, path) \/ RenameFile(o, path)
  \/ \E o \in Objects : OpenFile(o) \/ DeleteFile(o)
  \/ \E from, to \in Folders : MoveFolder(from, to)
  \/ \E folder \in Folders : DeleteFolder(folder)

Next == VaultEvent \/ RunQueued \/ BeginClear \/ ClearSaved \/ ResolveSaved \/ Restart

Spec == Init /\ [][Next]_vars

-----------------------------------------------------------------------------
\* Shape of the state.
TypeOK ==
  /\ at \in [Objects -> Paths \union {None}]
  /\ entries \in [Ids -> Entry \union {None}]
  /\ index \in [Paths -> Ids \union {None}]
  /\ corrupted \in BOOLEAN /\ clearing \in BOOLEAN /\ lost \in BOOLEAN
  /\ queue \in Seq(Task)
  /\ owner \in [Ids -> Objects \union {None}]
  /\ writing \in Registry \union {None} /\ saved \in Registry \union {None}

\* A path leads to an identity that is at that path and nowhere else.
Consistent(entryOf, indexOf) ==
  \A p \in Paths : indexOf[p] # None => entryOf[indexOf[p]] # None /\ entryOf[indexOf[p]].current = p

\* In memory and on disk, after any sequence of moves, deletions, resets and restarts, every
\* indexed path leads to an identity whose entry names that path (so no identity has two paths).
IndexConsistent ==
  /\ Consistent(entries, index)
  /\ saved # None => Consistent(saved.entries, saved.index)

\* An identity follows its file: once the waiting mutations have run, the file an identity was
\* created for is the file at its path.  No other file ever inherits the history, unless a
\* restart forgot a move or a deletion that no resolve has saved.
IdentityFollowsFile ==
  queue = <<>> /\ ~lost => \A p \in Paths : index[p] # None => at[owner[index[p]]] = p

\* A damaged registry file is evidence: only a reset replaces it.
DamagedFileKept == [][saved = None /\ saved' # None => clearing]_vars

-----------------------------------------------------------------------------
\* Why the index stays consistent: every identity a path leads to was given to some file, in
\* memory, in the registry on its way to the disk and on the disk; a new one is none of them.
Given(indexOf) == \A p \in Paths : indexOf[p] # None => owner[indexOf[p]] # None

\* Why a damaged file is kept: it stops the answers whose save would replace it.
DamageStops ==
  /\ saved = None => corrupted
  /\ corrupted => writing = None

RegistryInv ==
  /\ TypeOK /\ IndexConsistent /\ DamageStops
  /\ writing # None => Consistent(writing.entries, writing.index) /\ Given(writing.index)
  /\ Given(index)
  /\ saved # None => Given(saved.index)

=============================================================================
