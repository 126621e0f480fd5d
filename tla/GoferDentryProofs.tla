-------------------------- MODULE GoferDentryProofs --------------------------
(***************************************************************************)
(* Proofs, for every set of readers and number of host FDs, of the         *)
(* invariants of GoferDentry that MCGoferDentry checks on one instance.    *)
(***************************************************************************)
EXTENDS GoferDentry, FiniteSetTheorems, TLAPS

\* The readers that hold d.handleMu for reading: inside the first part of
\* readHandleForDeleted, or back from it with their handle.
Holding == {r \in Readers : rpc[r] \in {"Locked", "Done"}}

\* The read-lock count is the number of holders.
LockCount == readers = Cardinality(Holding)

\* closeHostFDs runs only when no reader is inside readHandleForDeleted,
\* and after it no reader enters.
DestroyedIdle == destroyed => \A r \in Readers : rpc[r] = "Idle"

\* The directfs control FD is an open host FD of its own until the dentry
\* is destroyed; lisafs has none.
ControlFDOwn ==
    /\ impl = "lisafs" => controlFD = NoFD
    /\ impl = "directfs" /\ ~destroyed => controlFD \in HostFDs
    /\ controlFD # NoFD => controlFD \notin {readFD, writeFD}

\* A reader between ensureSharedHandle and its RLock, with no error, has
\* seen a valid read handle installed; handles are never uninstalled while
\* the dentry lives.
RelockOk ==
    \A r \in Readers : rpc[r] = "Relock" /\ ~ret[r].err => isReadHandleOk

\* The inductive invariant behind NoBadClose, HostFDsAccounted and
\* ReadHandleForDeletedOk.
GInv ==
    /\ TypeOK /\ LockCount /\ DestroyedIdle /\ ControlFDOwn /\ RelockOk
    /\ NoBadClose /\ HostFDsAccounted /\ ReadHandleForDeletedOk

-----------------------------------------------------------------------------
(* Lemmas about the holder set and the returned handles.                   *)

\* Any set of readers is finite and no larger than Readers.
LEMMA ReaderSetBound ==
  ASSUME NEW S \in SUBSET Readers
  PROVE  /\ IsFiniteSet(S)
         /\ Cardinality(S) \in 0 .. Cardinality(Readers)
<1>1. IsFiniteSet(Readers)
  BY GoferAssumption
<1>2. IsFiniteSet(S) /\ Cardinality(S) <= Cardinality(Readers)
  BY <1>1, FS_Subset
<1>3. Cardinality(S) \in Nat /\ Cardinality(Readers) \in Nat
  BY <1>1, <1>2, FS_CardinalityType
<1>4. QED
  BY <1>2, <1>3

\* No reader holds the lock when the count is 0.
LEMMA NoHolderAtZero ==
  ASSUME LockCount, readers = 0
  PROVE  \A r \in Readers : rpc[r] \notin {"Locked", "Done"}
<1>1. IsFiniteSet(Holding)
  BY ReaderSetBound DEF Holding
<1>2. Holding = {}
  BY <1>1, FS_EmptySet DEF LockCount
<1>3. QED
  BY <1>2 DEF Holding

\* A step of reader r that moves it into, out of, or between states of the
\* same side of the read lock changes the holder count by 1, -1 or 0.
LEMMA LockCountStep ==
  ASSUME NEW RS, rpc \in [Readers -> RS], NEW r \in Readers, NEW v,
         rpc' = [rpc EXCEPT ![r] = v], LockCount
  PROVE  /\ rpc[r] \notin {"Locked", "Done"} /\ v \in {"Locked", "Done"}
              => (readers' = readers + 1 => LockCount')
         /\ rpc[r] \in {"Locked", "Done"} /\ v \notin {"Locked", "Done"}
              => (readers' = readers - 1 => LockCount')
         /\ (rpc[r] \in {"Locked", "Done"} <=> v \in {"Locked", "Done"})
              => (readers' = readers => LockCount')
<1>1. IsFiniteSet(Holding)
  BY ReaderSetBound DEF Holding
<1>2. ASSUME rpc[r] \notin {"Locked", "Done"}, v \in {"Locked", "Done"}
      PROVE  Holding' = Holding \cup {r} /\ r \notin Holding
  BY <1>2 DEF Holding
<1>3. ASSUME rpc[r] \in {"Locked", "Done"}, v \notin {"Locked", "Done"}
      PROVE  Holding' = Holding \ {r} /\ r \in Holding
  BY <1>3 DEF Holding
<1>4. ASSUME rpc[r] \in {"Locked", "Done"} <=> v \in {"Locked", "Done"}
      PROVE  Holding' = Holding
  BY <1>4 DEF Holding
<1>5. QED
  BY <1>1, <1>2, <1>3, <1>4, FS_AddElement, FS_RemoveElement DEF LockCount

\* Setting the error flag of one returned handle.
LEMMA RetErrUpdate ==
  ASSUME NEW f \in [Readers -> Handles], NEW r \in Readers, NEW b \in BOOLEAN
  PROVE  LET g == [f EXCEPT ![r].err = b]
         IN  /\ g \in [Readers -> Handles]
             /\ g[r].err = b
             /\ \A u \in Readers \ {r} : g[u] = f[u]
BY Zenon DEF Handles

\* The same, said of the next state.
LEMMA RetErrPrimed ==
  ASSUME ret \in [Readers -> Handles], NEW r \in Readers, NEW b \in BOOLEAN,
         ret' = [ret EXCEPT ![r].err = b]
  PROVE  /\ ret' \in [Readers -> Handles] /\ ret'[r].err = b
         /\ \A u \in Readers \ {r} : ret'[u] = ret[u]
BY Zenon DEF Handles

-----------------------------------------------------------------------------
(* The invariant holds initially and is kept by the reader steps that only *)
(* move the lock.                                                          *)

LEMMA InitGInv == Init => GInv
<1> SUFFICES ASSUME Init PROVE GInv
  OBVIOUS
<1>1. Holding = {}
  BY DEF Init, Holding
<1>2. LockCount
  BY <1>1, FS_EmptySet DEF Init, LockCount
<1>3. Cardinality(Readers) \in Nat
  BY GoferAssumption, FS_CardinalityType
<1>4. TypeOK
  <2>0. [lisaOk |-> FALSE, fd |-> NoFD, err |-> FALSE] \in Handles
    BY DEF Handles
  <2>1. ret \in [Readers -> Handles]
    BY <2>0 DEF Init
  <2>2. NFD \in Nat \ {0}
    BY GoferAssumption
  <2>3. controlFD \in HostFDs \cup {NoFD} /\ hostOpen \subseteq HostFDs
    BY <2>2 DEF Init, HostFDs, NoFD
  <2>4. readFD \in HostFDs \cup {NoFD} /\ writeFD \in HostFDs \cup {NoFD}
        /\ mmapFD \in HostFDs \cup {NoFD}
    BY DEF Init
  <2>5. readers \in 0 .. Cardinality(Readers)
    BY <1>3 DEF Init
  <2>6. rpc \in [Readers -> {"Idle", "Locked", "Unlocked", "Relock", "Done"}]
    BY DEF Init
  <2>7. impl \in Impls /\ readLisaOk \in BOOLEAN /\ writeLisaOk \in BOOLEAN
        /\ badClose \in BOOLEAN /\ destroyed \in BOOLEAN
    BY DEF Init
  <2>8. QED
    BY <2>1, <2>3, <2>4, <2>5, <2>6, <2>7 DEF TypeOK
<1>5. /\ DestroyedIdle /\ ControlFDOwn /\ RelockOk /\ NoBadClose
      /\ HostFDsAccounted /\ ReadHandleForDeletedOk
  BY GoferAssumption
     DEF Init, DestroyedIdle, ControlFDOwn, RelockOk, NoBadClose,
         HostFDsAccounted, ReadHandleForDeletedOk, HostFDs, NoFD
<1>6. QED
  BY <1>2, <1>4, <1>5 DEF GInv

LEMMA AcquireGInv ==
  ASSUME GInv, NEW r \in Readers, Acquire(r)
  PROVE  GInv'
<1> USE DEF GInv, TypeOK
<1>1. LockCount'
  <2>1. rpc' = [rpc EXCEPT ![r] = "Locked"] /\ readers' = readers + 1
    BY DEF Acquire
  <2>2. QED
    BY <2>1, LockCountStep, Zenon DEF Acquire
<1>2. readers' \in 0 .. Cardinality(Readers)
  BY <1>1, ReaderSetBound DEF LockCount, Holding
<1>3. QED
  BY <1>1, <1>2
     DEF Acquire, DestroyedIdle, ControlFDOwn, RelockOk, NoBadClose,
         HostFDsAccounted, ReadHandleForDeletedOk, isReadHandleOk, HandleOk

LEMMA ReleaseGInv ==
  ASSUME GInv, NEW r \in Readers, Release(r)
  PROVE  GInv'
<1> USE DEF GInv, TypeOK
<1>1. LockCount'
  <2>1. rpc' = [rpc EXCEPT ![r] = "Idle"] /\ readers' = readers - 1
    BY DEF Release
  <2>2. QED
    BY <2>1, LockCountStep, Zenon DEF Release
<1>2. readers' \in 0 .. Cardinality(Readers)
  BY <1>1, ReaderSetBound DEF LockCount, Holding
<1>3. QED
  BY <1>1, <1>2
     DEF Release, DestroyedIdle, ControlFDOwn, RelockOk, NoBadClose,
         HostFDsAccounted, ReadHandleForDeletedOk, isReadHandleOk, HandleOk

LEMMA RelockGInv ==
  ASSUME GInv, NEW r \in Readers, Relock(r)
  PROVE  GInv'
<1> USE DEF GInv, TypeOK
<1>1. LockCount'
  <2>1. rpc' = [rpc EXCEPT ![r] = "Done"] /\ readers' = readers + 1
    BY DEF Relock
  <2>2. QED
    BY <2>1, LockCountStep, Zenon DEF Relock
<1>2. readers' \in 0 .. Cardinality(Readers)
  BY <1>1, ReaderSetBound DEF LockCount, Holding
<1>3. ret'[r] \in Handles
  BY DEF Relock, Handles, readHandle, NoFD, HostFDs
<1>4. ~ret'[r].err => HandleOk(ret'[r]) /\ (ret'[r].fd # NoFD => ret'[r].fd \in hostOpen)
  BY DEF Relock, RelockOk, readHandle, HandleOk, isReadHandleOk,
         HostFDsAccounted, NoFD
<1>5. QED
  BY <1>1, <1>2, <1>3, <1>4
     DEF Relock, DestroyedIdle, ControlFDOwn, RelockOk, NoBadClose,
         HostFDsAccounted, ReadHandleForDeletedOk, isReadHandleOk, HandleOk

LEMMA CheckReadHandleGInv ==
  ASSUME GInv, NEW r \in Readers, CheckReadHandle(r)
  PROVE  GInv'
<1> USE DEF GInv, TypeOK, Impls
<1>0. UNCHANGED <<impl, readFD, writeFD, mmapFD, controlFD, readLisaOk,
                  writeLisaOk, hostOpen, badClose, destroyed>>
  BY DEF CheckReadHandle
<1>1. ~destroyed
  BY DEF CheckReadHandle, DestroyedIdle
<1>2. CASE isReadHandleOk /\ ret' = [ret EXCEPT ![r] = readHandle]
           /\ rpc' = [rpc EXCEPT ![r] = "Done"] /\ UNCHANGED readers
  <2>1. LockCount'
    BY <1>2, LockCountStep, Zenon DEF CheckReadHandle
  <2>2. readHandle \in Handles
    BY DEF readHandle, Handles
  <2>3. HandleOk(readHandle) /\ (readFD # NoFD => readFD \in hostOpen)
    BY <1>2 DEF readHandle, HandleOk, isReadHandleOk, HostFDsAccounted, NoFD
  <2>4. TypeOK'
    BY <1>0, <1>2, <2>2
  <2>5. DestroyedIdle' /\ ControlFDOwn' /\ NoBadClose' /\ HostFDsAccounted'
    BY <1>0, <1>1 DEF DestroyedIdle, ControlFDOwn, NoBadClose, HostFDsAccounted
  <2>6. RelockOk'
    BY <1>0, <1>2 DEF RelockOk, isReadHandleOk
  <2>7. ReadHandleForDeletedOk'
    BY <1>0, <1>2, <2>3 DEF ReadHandleForDeletedOk, HandleOk, readHandle
  <2>8. QED
    BY <2>1, <2>4, <2>5, <2>6, <2>7
<1>3. CASE ~isReadHandleOk /\ impl = "lisafs"
           /\ rpc' = [rpc EXCEPT ![r] = "Unlocked"] /\ readers' = readers - 1
           /\ UNCHANGED ret
  <2>1. LockCount'
    BY <1>3, LockCountStep, Zenon DEF CheckReadHandle
  <2>2. readers' \in 0 .. Cardinality(Readers)
    BY <2>1, ReaderSetBound DEF LockCount, Holding
  <2>3. TypeOK'
    BY <1>0, <1>3, <2>2
  <2>4. DestroyedIdle' /\ ControlFDOwn' /\ NoBadClose' /\ HostFDsAccounted'
    BY <1>0, <1>1 DEF DestroyedIdle, ControlFDOwn, NoBadClose, HostFDsAccounted
  <2>5. RelockOk'
    BY <1>0, <1>3 DEF RelockOk, isReadHandleOk
  <2>6. ReadHandleForDeletedOk'
    BY <1>0, <1>3 DEF ReadHandleForDeletedOk, HandleOk
  <2>7. QED
    BY <2>1, <2>3, <2>4, <2>5, <2>6
<1>4. CASE /\ ~isReadHandleOk /\ impl = "directfs"
           /\ \E seekOk \in BOOLEAN :
                 ret' = [ret EXCEPT ![r] = [lisaOk |-> FALSE, fd |-> controlFD,
                                            err |-> ~seekOk]]
           /\ rpc' = [rpc EXCEPT ![r] = "Done"] /\ UNCHANGED readers
  <2>1. PICK seekOk \in BOOLEAN :
            ret' = [ret EXCEPT ![r] = [lisaOk |-> FALSE, fd |-> controlFD,
                                       err |-> ~seekOk]]
    BY <1>4
  <2>2. LockCount'
    BY <1>4, LockCountStep, Zenon DEF CheckReadHandle
  <2>3. controlFD \in HostFDs /\ controlFD \in hostOpen
    BY <1>1, <1>4 DEF ControlFDOwn, HostFDsAccounted, HostFDs, NoFD
  <2>4. [lisaOk |-> FALSE, fd |-> controlFD, err |-> ~seekOk] \in Handles
    BY <2>3 DEF Handles
  <2>5. TypeOK'
    BY <1>0, <1>4, <2>1, <2>4
  <2>6. DestroyedIdle' /\ ControlFDOwn' /\ NoBadClose' /\ HostFDsAccounted'
    BY <1>0, <1>1 DEF DestroyedIdle, ControlFDOwn, NoBadClose, HostFDsAccounted
  <2>7. RelockOk'
    BY <1>0, <1>4, <2>1 DEF RelockOk, isReadHandleOk
  <2>8. ReadHandleForDeletedOk'
    BY <1>0, <1>4, <2>1, <2>3 DEF ReadHandleForDeletedOk, HandleOk, HostFDs,
                                  NoFD
  <2>9. QED
    BY <2>2, <2>5, <2>6, <2>7, <2>8
<1>5. QED
  BY <1>2, <1>3, <1>4 DEF CheckReadHandle

\* closeHostFDs closes each owned FD once: readFD, writeFD only when it is
\* not readFD, and the control FD, which is neither.
LEMMA CloseGInv ==
  ASSUME GInv, closeHostFDs
  PROVE  GInv'
<1> USE DEF GInv, TypeOK, Impls
<1>1. ~ClosesBad(FDsClosedBy)
  BY DEF closeHostFDs, ClosesBad, FDsClosedBy, HostFDsAccounted, ControlFDOwn,
         NoFD, HostFDs
<1>2. hostOpen' = {}
  BY DEF closeHostFDs, FDsClosedBy, HostFDsAccounted, ControlFDOwn, NoFD,
         HostFDs
<1>3. QED
  BY <1>1, <1>2
     DEF closeHostFDs, LockCount, Holding, DestroyedIdle, ControlFDOwn,
         RelockOk, NoBadClose, HostFDsAccounted, ReadHandleForDeletedOk,
         isReadHandleOk, HandleOk, NoFD, HostFDs

\* What ensureSharedHandle does to the dentry under handleMu.Lock: the new
\* host FD is fresh, fills only empty slots, and is the FD mmapFD aliases
\* when mmapFD was unset; valid handles stay valid, and a wanted read
\* handle is valid afterwards.
LEMMA EnsureSharedKeeps ==
  ASSUME GInv, NEW read \in BOOLEAN, NEW write \in BOOLEAN,
         NEW f \in HostFDs \cup {NoFD}, EnsureShared(read, write, TRUE, f)
  PROVE  /\ readers = 0 /\ ~destroyed
         /\ UNCHANGED <<impl, controlFD, badClose, readers, destroyed>>
         /\ readFD' \in HostFDs \cup {NoFD} /\ writeFD' \in HostFDs \cup {NoFD}
         /\ mmapFD' \in HostFDs \cup {NoFD}
         /\ readLisaOk' \in BOOLEAN /\ writeLisaOk' \in BOOLEAN
         /\ hostOpen' \subseteq HostFDs
         /\ ControlFDOwn' /\ HostFDsAccounted'
         /\ isReadHandleOk => isReadHandleOk'
         /\ read => isReadHandleOk'
<1> USE DEF GInv, TypeOK, Impls, EnsureShared
<1>1. /\ readers = 0 /\ ~destroyed
      /\ UNCHANGED <<impl, controlFD, badClose, readers, destroyed>>
  OBVIOUS
<1>2. f # NoFD => f \notin {readFD, writeFD, mmapFD, controlFD}
  BY DEF HostFDsAccounted, NoFD, HostFDs
<1>3. /\ readFD' \in HostFDs \cup {NoFD} /\ writeFD' \in HostFDs \cup {NoFD}
      /\ mmapFD' \in HostFDs \cup {NoFD}
      /\ readLisaOk' \in BOOLEAN /\ writeLisaOk' \in BOOLEAN
      /\ hostOpen' \subseteq HostFDs
  BY DEF NoFD, HostFDs
<1>4. ControlFDOwn'
  BY <1>1, <1>2 DEF ControlFDOwn, NoFD, HostFDs
<1>5. HostFDsAccounted'
  BY <1>2 DEF HostFDsAccounted, NoFD, HostFDs, isReadHandleOk, isWriteHandleOk
<1>6. isReadHandleOk => isReadHandleOk'
  BY DEF isReadHandleOk, NoFD, HostFDs
<1>7. read => isReadHandleOk'
  <2>1. CASE isReadHandleOk
    BY <2>1, <1>6
  <2>2. CASE ~isReadHandleOk /\ impl = "lisafs"
    BY <2>2 DEF isReadHandleOk
  <2>3. CASE ~isReadHandleOk /\ impl = "directfs"
    <3>1. readFD < 0 /\ f \in HostFDs
      BY <2>3 DEF isReadHandleOk, NoFD, HostFDs
    <3>2. read => readFD' = f
      BY <2>3, <3>1 DEF isReadHandleOk, NoFD, HostFDs
    <3>3. QED
      BY <2>3, <3>1, <3>2 DEF isReadHandleOk, HostFDs
  <2>4. QED
    BY <2>1, <2>2, <2>3
<1>8. QED
  BY <1>1, <1>3, <1>4, <1>5, <1>6, <1>7

LEMMA UpgradeGInv ==
  ASSUME GInv, Upgrade
  PROVE  GInv'
<1> USE DEF GInv, TypeOK
<1>1. PICK read \in BOOLEAN, write \in BOOLEAN, f \in HostFDs \cup {NoFD} :
          EnsureShared(read, write, TRUE, f) /\ UNCHANGED <<rpc, ret>>
  BY DEF Upgrade
<1>2. \A r \in Readers : rpc[r] \notin {"Locked", "Done"}
  BY <1>1, NoHolderAtZero DEF EnsureShared
<1>3. /\ readers = 0 /\ ~destroyed
      /\ UNCHANGED <<impl, controlFD, badClose, readers, destroyed>>
      /\ readFD' \in HostFDs \cup {NoFD} /\ writeFD' \in HostFDs \cup {NoFD}
      /\ mmapFD' \in HostFDs \cup {NoFD}
      /\ readLisaOk' \in BOOLEAN /\ writeLisaOk' \in BOOLEAN
      /\ hostOpen' \subseteq HostFDs
      /\ ControlFDOwn' /\ HostFDsAccounted'
      /\ isReadHandleOk => isReadHandleOk'
  BY <1>1, EnsureSharedKeeps
<1>4. TypeOK'
  BY <1>1, <1>3
<1>5. LockCount' /\ DestroyedIdle' /\ NoBadClose'
  BY <1>1, <1>3 DEF LockCount, Holding, DestroyedIdle, NoBadClose
<1>6. RelockOk' /\ ReadHandleForDeletedOk'
  BY <1>1, <1>2, <1>3 DEF RelockOk, ReadHandleForDeletedOk
<1>7. QED
  BY <1>3, <1>4, <1>5, <1>6

\* ensureSharedHandle(read) with the read lock dropped: no reader holds the
\* lock, so no returned handle can be invalidated, and a reader that goes on
\* without an error has a valid read handle to re-read.
LEMMA EnsureReadGInv ==
  ASSUME GInv, NEW r \in Readers, EnsureRead(r)
  PROVE  GInv'
<1> DEFINE Dentry == <<impl, readFD, writeFD, mmapFD, controlFD, readLisaOk,
                       writeLisaOk, hostOpen, badClose, readers, destroyed>>
<1>1. rpc' = [rpc EXCEPT ![r] = "Relock"] /\ rpc[r] = "Unlocked"
  BY Zenon DEF EnsureRead
<1>2. ret \in [Readers -> Handles]
  BY DEF GInv, TypeOK
<1>3. /\ ret' \in [Readers -> Handles]
      /\ \A u \in Readers \ {r} : ret'[u] = ret[u]
      /\ \/ /\ isReadHandleOk /\ readers = 0 /\ ~destroyed
            /\ UNCHANGED Dentry /\ ret'[r].err = FALSE
         \/ /\ \E f \in HostFDs \cup {NoFD} : EnsureShared(TRUE, FALSE, TRUE, f)
            /\ ret'[r].err = FALSE
         \/ /\ ~isReadHandleOk /\ readers = 0 /\ ~destroyed
            /\ UNCHANGED Dentry /\ ret'[r].err = TRUE
  <2>1. CASE /\ isReadHandleOk /\ readers = 0 /\ ~destroyed
             /\ ret' = [ret EXCEPT ![r].err = FALSE] /\ UNCHANGED Dentry
    <3>1. /\ ret' \in [Readers -> Handles] /\ ret'[r].err = FALSE
          /\ \A u \in Readers \ {r} : ret'[u] = ret[u]
      BY <1>2, <2>1, RetErrPrimed
    <3>2. QED
      BY <3>1, <2>1, Zenon
  <2>2. CASE /\ \E f \in HostFDs \cup {NoFD} : EnsureShared(TRUE, FALSE, TRUE, f)
             /\ ret' = [ret EXCEPT ![r].err = FALSE]
    <3>1. /\ ret' \in [Readers -> Handles] /\ ret'[r].err = FALSE
          /\ \A u \in Readers \ {r} : ret'[u] = ret[u]
      BY <1>2, <2>2, RetErrPrimed
    <3>2. QED
      BY <3>1, <2>2, Zenon
  <2>3. CASE /\ ~isReadHandleOk /\ readers = 0 /\ ~destroyed
             /\ ret' = [ret EXCEPT ![r].err = TRUE] /\ UNCHANGED Dentry
    <3>1. /\ ret' \in [Readers -> Handles] /\ ret'[r].err = TRUE
          /\ \A u \in Readers \ {r} : ret'[u] = ret[u]
      BY <1>2, <2>3, RetErrPrimed
    <3>2. QED
      BY <3>1, <2>3, Zenon
  <2>4. QED
    BY <2>1, <2>2, <2>3, Zenon DEF EnsureRead, Dentry
<1> USE DEF GInv, TypeOK, Impls
<1>4. LockCount'
  <2>1. readers' = readers
    BY <1>3, EnsureSharedKeeps
  <2>2. rpc[r] \in {"Locked", "Done"} <=> "Relock" \in {"Locked", "Done"}
    BY <1>1
  <2>3. QED
    BY <1>1, <2>1, <2>2, LockCountStep, Zenon
<1>5. readers = 0 /\ ~destroyed
  BY <1>3 DEF EnsureShared
<1>6. \A u \in Readers : rpc'[u] # "Done"
  BY <1>1, <1>5, NoHolderAtZero
<1>7. CASE /\ isReadHandleOk /\ readers = 0 /\ ~destroyed
           /\ UNCHANGED Dentry /\ ret'[r].err = FALSE
  <2>1. TypeOK' /\ DestroyedIdle' /\ ControlFDOwn' /\ NoBadClose'
        /\ HostFDsAccounted'
    BY <1>1, <1>3, <1>7
       DEF DestroyedIdle, ControlFDOwn, NoBadClose, HostFDsAccounted
  <2>2. RelockOk'
    BY <1>1, <1>3, <1>7 DEF RelockOk, isReadHandleOk
  <2>3. QED
    BY <1>4, <1>6, <2>1, <2>2 DEF ReadHandleForDeletedOk
<1>8. CASE /\ \E f \in HostFDs \cup {NoFD} : EnsureShared(TRUE, FALSE, TRUE, f)
           /\ ret'[r].err = FALSE
  <2>1. PICK f \in HostFDs \cup {NoFD} : EnsureShared(TRUE, FALSE, TRUE, f)
    BY <1>8
  <2>2. /\ UNCHANGED <<impl, controlFD, badClose, readers, destroyed>>
        /\ readFD' \in HostFDs \cup {NoFD} /\ writeFD' \in HostFDs \cup {NoFD}
        /\ mmapFD' \in HostFDs \cup {NoFD}
        /\ readLisaOk' \in BOOLEAN /\ writeLisaOk' \in BOOLEAN
        /\ hostOpen' \subseteq HostFDs
        /\ ControlFDOwn' /\ HostFDsAccounted'
        /\ isReadHandleOk => isReadHandleOk'
        /\ isReadHandleOk'
    BY <2>1, EnsureSharedKeeps
  <2>3. TypeOK' /\ DestroyedIdle' /\ NoBadClose'
    BY <1>1, <1>3, <1>5, <2>2 DEF DestroyedIdle, NoBadClose
  <2>4. RelockOk'
    BY <1>1, <1>3, <1>8, <2>2 DEF RelockOk
  <2>5. QED
    BY <1>4, <1>6, <2>2, <2>3, <2>4 DEF ReadHandleForDeletedOk
<1>9. CASE /\ ~isReadHandleOk /\ readers = 0 /\ ~destroyed
           /\ UNCHANGED Dentry /\ ret'[r].err = TRUE
  <2>1. TypeOK' /\ DestroyedIdle' /\ ControlFDOwn' /\ NoBadClose'
        /\ HostFDsAccounted'
    BY <1>1, <1>3, <1>9
       DEF DestroyedIdle, ControlFDOwn, NoBadClose, HostFDsAccounted
  <2>2. RelockOk'
    BY <1>1, <1>3, <1>9 DEF RelockOk, isReadHandleOk
  <2>3. QED
    BY <1>4, <1>6, <2>1, <2>2 DEF ReadHandleForDeletedOk
<1>10. QED
  BY <1>3, <1>7, <1>8, <1>9

-----------------------------------------------------------------------------
(* The theorems.                                                           *)

LEMMA NextGInv == GInv /\ [Next]_vars => GInv'
<1> SUFFICES ASSUME GInv, [Next]_vars PROVE GInv'
  OBVIOUS
<1>1. CASE Upgrade
  BY <1>1, UpgradeGInv
<1>2. CASE closeHostFDs
  BY <1>2, CloseGInv
<1>3. ASSUME NEW r \in Readers,
             \/ Acquire(r) \/ CheckReadHandle(r) \/ EnsureRead(r)
             \/ Relock(r) \/ Release(r)
      PROVE  GInv'
  BY <1>3, AcquireGInv, CheckReadHandleGInv, EnsureReadGInv, RelockGInv,
     ReleaseGInv
<1>4. CASE UNCHANGED vars
  BY <1>4 DEF vars, GInv, TypeOK, LockCount, Holding, DestroyedIdle,
              ControlFDOwn, RelockOk, NoBadClose, HostFDsAccounted,
              ReadHandleForDeletedOk, isReadHandleOk, HandleOk
<1>5. QED
  BY <1>1, <1>2, <1>3, <1>4 DEF Next

LEMMA GInvHolds == Spec => []GInv
BY InitGInv, NextGInv, PTL DEF Spec

\* The type invariant holds in every reachable state, for any set of
\* readers and number of host FDs.
THEOREM GoferTypeCorrect == Spec => []TypeOK
BY GInvHolds, PTL DEF GInv

\* closeHostFDs never closes an FD twice or one the dentry does not own,
\* whatever upgrades and RDWR sharing came before it.
THEOREM NoBadCloseHolds == Spec => []NoBadClose
BY GInvHolds, PTL DEF GInv

\* ensureSharedHandle and closeHostFDs never leak a host FD nor keep one
\* the dentry does not reference.
THEOREM HostFDsAccountedHolds == Spec => []HostFDsAccounted
BY GInvHolds, PTL DEF GInv

\* readHandleForDeleted returns, despite dropping handleMu around
\* ensureSharedHandle, only a usable handle whose host FD is open for as
\* long as its caller holds the read lock.
THEOREM ReadHandleForDeletedOkHolds == Spec => []ReadHandleForDeletedOk
BY GInvHolds, PTL DEF GInv

=============================================================================
