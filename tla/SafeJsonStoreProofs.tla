------------------------- MODULE SafeJsonStoreProofs -------------------------
(***************************************************************************)
(* That a save replaces the JSON file as a whole for every set of values,  *)
(* as long as at most one save was interrupted, and that a load beside one *)
(* save finds what was saved.                                              *)
(***************************************************************************)
EXTENDS SafeJsonStore, TLAPS

\* One interrupted save is what the protocol survives; with a second one the
\* torn primary is copied over the backup.
OneFault == MaxFaults <= 1

\* The files, the running save and the last confirmed value start empty.
LEMMA StoreInit == Init => StoreInv
BY StoreAssumption DEF Init, StoreInv, TypeOK, CopiesInv, File, Places, Readable

\* No step loses the copy the invariant says is there, nor does the first
\* interruption.
LEMMA StoreStep == ASSUME OneFault \/ faults' = 0, StoreInv, [Next]_vars PROVE StoreInv'
<1> USE StoreAssumption DEF StoreInv, TypeOK, CopiesInv, File, Places, Readable
<1>1. CASE BeginSave
  BY <1>1 DEF BeginSave, Goes, loader
<1>2. CASE NextWritten
  BY <1>2 DEF NextWritten, Goes, loader
<1>3. CASE NothingToBackUp
  BY <1>3 DEF NothingToBackUp, Goes, store, loader
<1>4. CASE BackUp
  BY <1>4 DEF BackUp, Goes, loader
<1>5. CASE BackupWritten
  BY <1>5 DEF BackupWritten, Goes, loader
<1>6. CASE Rename
  BY <1>6 DEF Rename, Goes, loader
<1>7. CASE CopyOver
  BY <1>7 DEF CopyOver, Goes, loader
<1>8. CASE PrimaryWritten
  BY <1>8 DEF PrimaryWritten, Goes, loader
<1>9. CASE RemoveNext
  BY <1>9 DEF RemoveNext, Goes, loader
<1>10. CASE Resolve
  BY <1>10 DEF Resolve, Goes, store, loader
<1>11. CASE Interrupt
  BY <1>11 DEF Interrupt, store, loader, OneFault
<1>12. CASE Load
  BY <1>12 DEF Load, StartLoad, TryRead, store
<1>13. CASE UNCHANGED vars
  BY <1>13 DEF vars, store, loader
<1> QED
  BY <1>1, <1>2, <1>3, <1>4, <1>5, <1>6, <1>7, <1>8, <1>9, <1>10, <1>11, <1>12,
     <1>13 DEF Next, Save

\* The invariant of the store, for any number of values (safe-json-store.ts
\* save): at every step of every save some file still holds what was confirmed.
THEOREM StoreInvariant == ASSUME OneFault PROVE Spec => []StoreInv
<1>1. Init => StoreInv
  BY StoreInit
<1>2. StoreInv /\ [Next]_vars => StoreInv'
  BY StoreStep
<1> QED
  BY <1>1, <1>2, PTL DEF Spec

\* Every step of the store is a step of the cell or leaves it alone.
LEMMA CellStep == ASSUME StoreInv, [Next]_vars PROVE [Cell!CellNext]_(Cell!cellVars)
<1> USE StoreAssumption DEF StoreInv, TypeOK, CopiesInv, File, Places, Readable, Visible,
        Cell!CellNext, Cell!cellVars, Goes
<1>1. CASE BeginSave
  BY <1>1 DEF BeginSave, Cell!Begin
<1>2. CASE NextWritten
  BY <1>2 DEF NextWritten, Cell!Replace
<1>3. CASE NothingToBackUp
  BY <1>3 DEF NothingToBackUp, store
<1>4. CASE BackUp
  BY <1>4 DEF BackUp, Cell!Replace
<1>5. CASE BackupWritten
  BY <1>5 DEF BackupWritten, Cell!Replace
<1>6. CASE Rename
  BY <1>6 DEF Rename, Cell!Replace
<1>7. CASE CopyOver
  BY <1>7 DEF CopyOver, Cell!Replace
<1>8. CASE PrimaryWritten
  BY <1>8 DEF PrimaryWritten, Cell!Replace
<1>9. CASE RemoveNext
  BY <1>9 DEF RemoveNext
<1>10. CASE Resolve
  BY <1>10 DEF Resolve, Cell!Confirm, store
<1>11. CASE Interrupt
  BY <1>11 DEF Interrupt, Cell!Abandon, store
<1>12. CASE Load
  BY <1>12 DEF Load, StartLoad, TryRead, store
<1>13. CASE UNCHANGED vars
  BY <1>13 DEF vars, store
<1> QED
  BY <1>1, <1>2, <1>3, <1>4, <1>5, <1>6, <1>7, <1>8, <1>9, <1>10, <1>11, <1>12,
     <1>13 DEF Next, Save

\* The store implements the cell: a load at any instant, and after a crash at
\* any instant, finds the last confirmed value or that of an unconfirmed save.
THEOREM StoreImplementsCell == ASSUME OneFault PROVE Spec => ImplementsCell
<1>1. Init => Cell!CellInit
  BY StoreAssumption DEF Init, Cell!CellInit, Visible, Readable
<1>2. StoreInv /\ [Next]_vars => [Cell!CellNext]_(Cell!cellVars)
  BY CellStep
<1>3. Spec => []StoreInv
  BY StoreInvariant
<1> QED
  BY <1>1, <1>2, <1>3, PTL DEF Spec, ImplementsCell, Cell!CellSpec

\* Where a load that began after a completed save can be, as long as nothing was
\* interrupted and one save runs beside it: it misses the primary only while
\* that save copies over it, and by then the backup stands and the same save
\* does not touch it again.
LoadInv ==
  /\ pc # "idle" => beside # 0
  /\ sought # None => completed # None
  /\ sought # None /\ beside <= 1 =>
       /\ reading # "next"
       /\ reading = "bak" =>
            beside = 1 /\ Readable(bak) /\ pc \in {"copying", "cleanup", "promoted", "idle"}

FaultFreeInv == faults \in Nat /\ (faults = 0 => StoreInv /\ LoadInv)

LEMMA LoadStep == ASSUME StoreInv, LoadInv, faults' = 0, [Next]_vars PROVE LoadInv'
<1> USE StoreAssumption DEF StoreInv, TypeOK, CopiesInv, File, Places, Readable, LoadInv
<1>1. CASE BeginSave
  BY <1>1 DEF BeginSave, Goes
<1>2. CASE NextWritten
  BY <1>2 DEF NextWritten, Goes, loader
<1>3. CASE NothingToBackUp
  BY <1>3 DEF NothingToBackUp, Goes, store, loader
<1>4. CASE BackUp
  BY <1>4 DEF BackUp, Goes, loader
<1>5. CASE BackupWritten
  BY <1>5 DEF BackupWritten, Goes, loader
<1>6. CASE Rename
  BY <1>6 DEF Rename, Goes, loader
<1>7. CASE CopyOver
  BY <1>7 DEF CopyOver, Goes, loader
<1>8. CASE PrimaryWritten
  BY <1>8 DEF PrimaryWritten, Goes, loader
<1>9. CASE RemoveNext
  BY <1>9 DEF RemoveNext, Goes, loader
<1>10. CASE Resolve
  BY <1>10 DEF Resolve, Goes, store, loader
<1>11. CASE Interrupt
  BY <1>11 DEF Interrupt
<1>12. CASE Load
  <2>1. CASE StartLoad
    BY <2>1 DEF StartLoad, store
  <2>2. CASE TryRead("primary", primary, "bak")
    <3>1. sought # None /\ ~Readable(primary) => pc = "copying" /\ Readable(bak)
      BY <2>2 DEF TryRead, store
    <3> QED
      BY <2>2, <3>1 DEF TryRead, store
  <2>3. CASE TryRead("bak", bak, "next")
    BY <2>3 DEF TryRead, store
  <2>4. CASE TryRead("next", next, "missed")
    BY <2>4 DEF TryRead, store
  <2> QED
    BY <1>12, <2>1, <2>2, <2>3, <2>4 DEF Load
<1>13. CASE UNCHANGED vars
  BY <1>13 DEF vars, store, loader
<1> QED
  BY <1>1, <1>2, <1>3, <1>4, <1>5, <1>6, <1>7, <1>8, <1>9, <1>10, <1>11, <1>12,
     <1>13 DEF Next, Save

\* Interruptions only add up.
LEMMA FaultStep ==
  ASSUME faults \in Nat, [Next]_vars
  PROVE  faults' \in Nat /\ (faults' = 0 => faults = 0)
BY DEF Next, Save, Load, vars, loader, BeginSave, NextWritten, NothingToBackUp, BackUp,
   BackupWritten, Rename, CopyOver, PrimaryWritten, RemoveNext, Resolve, Interrupt,
   StartLoad, TryRead

LEMMA FaultFreeStep == FaultFreeInv /\ [Next]_vars => FaultFreeInv'
BY FaultStep, StoreStep, LoadStep DEF FaultFreeInv

\* A load comes back empty-handed only when nothing had been saved, although no
\* queue orders its reads with the saves (safe-json-store.ts load and save): for
\* every set of values, and without a bound on the interruptions that come later.
THEOREM LoadsFindWhatWasSaved == Spec => LoadFindsSaved
<1>1. Init => FaultFreeInv
  BY StoreInit DEF Init, FaultFreeInv, LoadInv
<1>2. FaultFreeInv /\ [Next]_vars
        => [reading = "next" /\ reading' = "missed" /\ faults = 0 /\ beside <= 1
              => sought = None]_vars
  BY DEF FaultFreeInv, LoadInv
<1> QED
  BY <1>1, <1>2, FaultFreeStep, PTL DEF Spec, LoadFindsSaved

=============================================================================
