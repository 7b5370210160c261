---------------------------- MODULE SafeJsonStore ----------------------------
(***************************************************************************)
(* One replaceable JSON file of src/data/safe-json-store.ts: the primary,  *)
(* its `.bak` and its `.next`, written step by step by save() and read by  *)
(* load() in three reads that no queue orders with the writes.             *)
(*                                                                         *)
(* The adapter truncates a file and then fills it, so a write that does not*)
(* complete leaves text that does not parse (Torn).  Saves of one store are*)
(* serialized (writeQueue), so at most one is running.  removeAll, which   *)
(* only the unused CheckpointRepository.clear calls, is left out.          *)
(***************************************************************************)
EXTENDS Naturals

CONSTANTS
  Values,     \* what can be saved
  None,       \* no file, no value
  Torn,       \* a file whose text does not parse
  MaxFaults   \* bound: saves interrupted by an error or a crash

ASSUME StoreAssumption ==
  /\ None \notin Values /\ Torn \notin Values /\ None # Torn
  /\ MaxFaults \in Nat

VARIABLES
  primary, bak, next,   \* the three files
  pc,                   \* where the running save is
  writing,              \* the value it writes, or None
  completed,            \* the value of the last save that resolved, or None
  faults,               \* interrupted saves so far
  reading,              \* the file a load reads next, "found" or "missed"
  sought,               \* what was completed when that load started
  beside                \* saves that ran beside that load, 2 for more

store == <<primary, bak, next>>
loader == <<reading, sought, beside>>
vars  == <<store, pc, writing, completed, faults, loader>>

File == Values \cup {None, Torn}
Readable(f) == f \in Values

\* load: the first readable of primary, backup and next.
Visible ==
  IF Readable(primary) THEN primary
  ELSE IF Readable(bak) THEN bak
  ELSE IF Readable(next) THEN next ELSE None

Init ==
  /\ primary = None /\ bak = None /\ next = None
  /\ pc = "idle" /\ writing = None /\ completed = None
  /\ faults = 0 /\ reading = "missed"
  /\ sought = None /\ beside = 0

Goes(from, to) == pc = from /\ pc' = to

(***************************************************************************)
(* save                                                                    *)
(***************************************************************************)
BeginSave ==
  /\ Goes("idle", "next")
  /\ writing' \in Values
  /\ next' = Torn
  /\ beside' = IF beside = 0 THEN 1 ELSE 2
  /\ UNCHANGED <<primary, bak, completed, faults, reading, sought>>

\* The new text is complete and read back.
NextWritten ==
  /\ Goes("next", "verified")
  /\ next' = writing
  /\ UNCHANGED <<primary, bak, writing, completed, faults, loader>>

NothingToBackUp ==
  /\ Goes("verified", "promote") /\ primary = None
  /\ UNCHANGED <<store, writing, completed, faults, loader>>

\* Mutant: promotes without keeping the previous copy.
BackUpSkipped ==
  /\ Goes("verified", "promote") /\ primary # None
  /\ UNCHANGED <<store, writing, completed, faults, loader>>

BackUp ==
  /\ Goes("verified", "backup") /\ primary # None
  /\ bak' = Torn
  /\ UNCHANGED <<primary, next, writing, completed, faults, loader>>

\* The text of the primary is copied as it is, readable or not.
BackupWritten ==
  /\ Goes("backup", "promote")
  /\ bak' = primary
  /\ UNCHANGED <<primary, next, writing, completed, faults, loader>>

Rename ==
  /\ Goes("promote", "promoted")
  /\ primary' = next /\ next' = None
  /\ UNCHANGED <<bak, writing, completed, faults, loader>>

\* rename refuses to replace an existing file: write over it instead.
CopyOver ==
  /\ Goes("promote", "copying")
  /\ primary' = Torn
  /\ UNCHANGED <<bak, next, writing, completed, faults, loader>>

PrimaryWritten ==
  /\ Goes("copying", "cleanup")
  /\ primary' = writing
  /\ UNCHANGED <<bak, next, writing, completed, faults, loader>>

RemoveNext ==
  /\ Goes("cleanup", "promoted")
  /\ next' = None
  /\ UNCHANGED <<primary, bak, writing, completed, faults, loader>>

Resolve ==
  /\ Goes("promoted", "idle")
  /\ completed' = writing /\ writing' = None
  /\ UNCHANGED <<store, faults, loader>>

\* An adapter call throws, or the process dies: the files stay as they are.
Interrupt ==
  /\ pc # "idle" /\ pc' = "idle"
  /\ faults < MaxFaults /\ faults' = faults + 1
  /\ writing' = None
  /\ UNCHANGED <<store, completed, loader>>

(***************************************************************************)
(* load                                                                    *)
(***************************************************************************)
StartLoad ==
  /\ reading \in {"found", "missed"} /\ reading' = "primary" /\ sought' = completed
  /\ beside' = IF pc = "idle" THEN 0 ELSE 1
  /\ UNCHANGED <<store, pc, writing, completed, faults>>

\* tryRead: the next candidate is tried when this one is absent or torn.
TryRead(name, file, otherwise) ==
  /\ reading = name
  /\ reading' = IF Readable(file) THEN "found" ELSE otherwise
  /\ UNCHANGED <<sought, beside, store, pc, writing, completed, faults>>

Load ==
  \/ StartLoad
  \/ TryRead("primary", primary, "bak")
  \/ TryRead("bak", bak, "next")
  \/ TryRead("next", next, "missed")

Save ==
  \/ BeginSave \/ NextWritten \/ NothingToBackUp \/ BackUp \/ BackupWritten
  \/ Rename \/ CopyOver \/ PrimaryWritten \/ RemoveNext \/ Resolve

Next == Save \/ Interrupt \/ Load

Spec == Init /\ [][Next]_vars

(***************************************************************************)
(* Properties                                                              *)
(***************************************************************************)
Places == {"idle", "next", "verified", "backup", "promote", "copying", "cleanup",
           "promoted"}

\* Every variable has its type.
TypeOK ==
  /\ primary \in File /\ bak \in File /\ next \in File
  /\ pc \in Places
  /\ writing \in Values \cup {None} /\ (pc = "idle" <=> writing = None)
  /\ completed \in Values \cup {None}
  /\ faults \in 0 .. MaxFaults
  /\ reading \in {"primary", "bak", "next", "found", "missed"}
  /\ sought \in Values \cup {None} /\ beside \in 0 .. 2

\* Where the value of the running save, and of the last confirmed one, can be
\* found at every step, after at most one interrupted save.
CopiesInv ==
  /\ pc \in {"verified", "backup", "promote", "copying", "cleanup"} => next = writing
  /\ pc \in {"cleanup", "promoted"} => primary = writing
  /\ primary = None => bak = None /\ completed = None
  /\ pc = "backup" => primary # None
  /\ pc = "promote" => bak = primary
  /\ pc = "copying" /\ faults = 0 => Readable(bak) \/ completed = None
  /\ faults = 0 /\ pc # "copying" => primary # Torn
  /\ pc \in {"idle", "next", "verified"}
       => Readable(primary) \/ Readable(bak) \/ completed = None

StoreInv == TypeOK /\ CopiesInv

Cell == INSTANCE JsonCell WITH cell <- Visible, target <- writing, kept <- completed

\* A save replaces the file as a whole: whatever the files look like in between
\* and after an interruption, a load at that instant finds the old value or the
\* new one (safe-json-store.ts:4-8).
ImplementsCell == Cell!CellSpec

\* A load finds a saved value although no queue orders its three reads with the
\* saves, as long as no save was interrupted and at most one save runs beside it
\* (two successive saves can each be in the truncating write of the file that
\* the load is about to read).
LoadFindsSaved ==
  [][reading = "next" /\ reading' = "missed" /\ faults = 0 /\ beside <= 1
       => sought = None]_vars
=============================================================================
