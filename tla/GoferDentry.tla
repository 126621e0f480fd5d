----------------------------- MODULE GoferDentry ------------------------------
(***************************************************************************)
(* The host file descriptors of one gofer dentry and the readers that use  *)
(* them (pkg/sentry/fsimpl/gofer/dentry_impl.go).                          *)
(*                                                                         *)
(* A dentry is backed by lisafs (handles are lisafs FDs, optionally with a *)
(* donated host FD) or by directfs (handles are host FDs, plus a host      *)
(* control FD). readFD, writeFD and mmapFD are host FDs or -1; a RDWR      *)
(* handle is installed as the same FD for reading and writing, and mmapFD  *)
(* aliases one of them. handleMu is a reader/writer lock: readers holds    *)
(* the number of goroutines holding it for reading; every writer section   *)
(* is one atomic step, taken when no reader holds the lock.                *)
(*                                                                         *)
(* ensureSharedHandle is in dentry.go, outside the sources given here: it  *)
(* is modelled from its contract (open what is missing, install it under   *)
(* handleMu for writing, report an open failure as an error).              *)
(***************************************************************************)
EXTENDS Integers, FiniteSets

CONSTANTS
    Readers,      \* goroutines calling readHandleForDeleted
    NFD           \* host FDs are 0 .. NFD - 1

ASSUME GoferAssumption == NFD \in Nat \ {0} /\ IsFiniteSet(Readers)

HostFDs == 0 .. NFD - 1
NoFD == -1

Impls == {"lisafs", "directfs"}

VARIABLES
    impl,         \* d.impl: which implementation backs the dentry
    readFD,       \* d.readFD
    writeFD,      \* d.writeFD
    mmapFD,       \* d.mmapFD
    controlFD,    \* directfsDentry.controlFD (NoFD for lisafs)
    readLisaOk,   \* lisafsDentry.readFDLisa.Ok()
    writeLisaOk,  \* lisafsDentry.writeFDLisa.Ok()
    hostOpen,     \* the host FDs the dentry owns that are open
    badClose,     \* some unix.Close was given an FD the dentry did not own
    readers,      \* goroutines holding d.handleMu for reading
    rpc,          \* rpc[r]: where reader r is in readHandleForDeleted
    ret,          \* ret[r]: the handle and error r's call returned
    destroyed     \* closeHostFDs has run (the dentry is being destroyed)

vars == <<impl, readFD, writeFD, mmapFD, controlFD, readLisaOk, writeLisaOk,
          hostOpen, badClose, readers, rpc, ret, destroyed>>

\* A returned handle: its lisafs FD is valid, its host FD, and whether an
\* error was returned with it.
Handles == [lisaOk : BOOLEAN, fd : HostFDs \cup {NoFD}, err : BOOLEAN]

-----------------------------------------------------------------------------
(* The handle accessors of dentry_impl.go.                                 *)

isReadHandleOk == IF impl = "lisafs" THEN readLisaOk ELSE readFD >= 0

isWriteHandleOk == IF impl = "lisafs" THEN writeLisaOk ELSE writeFD >= 0

readHandle == [lisaOk |-> impl = "lisafs" /\ readLisaOk, fd |-> readFD,
               err |-> FALSE]

\* A handle a caller may read from: the lisafs FD for lisafs, the host FD
\* for directfs.
HandleOk(h) == IF impl = "lisafs" THEN h.lisaOk ELSE h.fd >= 0

\* Mutant of FDsClosedBy: writeFD is closed even when it is readFD.
FDsClosedByNoShareCheck ==
    LET r == IF readFD >= 0 THEN {readFD} ELSE {}
        w == IF writeFD >= 0 THEN {writeFD} ELSE {}
        c == IF impl = "directfs" /\ controlFD >= 0 THEN {controlFD} ELSE {}
    IN  <<r, w, c>>

\* Mutant of FDsClosedBy: the directfs control FD is left open.
FDsClosedByNoControl ==
    LET r == IF readFD >= 0 THEN {readFD} ELSE {}
        w == IF writeFD >= 0 /\ readFD # writeFD THEN {writeFD} ELSE {}
    IN  <<r, w, {}>>

\* The host FDs unix.Close is given by closeHostFDs, in order.
FDsClosedBy ==
    LET r == IF readFD >= 0 THEN {readFD} ELSE {}
        w == IF writeFD >= 0 /\ readFD # writeFD THEN {writeFD} ELSE {}
        c == IF impl = "directfs" /\ controlFD >= 0 THEN {controlFD} ELSE {}
    IN  <<r, w, c>>

\* Closing the sets of s one after another: a close of an FD that is not
\* (or no longer) open is a bad close.
ClosesBad(s) ==
    \/ s[1] \cap s[2] # {} \/ s[1] \cap s[3] # {} \/ s[2] \cap s[3] # {}
    \/ ~(s[1] \cup s[2] \cup s[3] \subseteq hostOpen)

-----------------------------------------------------------------------------
(* Writers under handleMu.Lock.                                            *)

\* ensureSharedHandle(read, write): when a wanted direction has no valid
\* handle, a new one is opened; on failure nothing changes. A new host FD
\* f fills every wanted direction that had none (so a RDWR open shares it)
\* and mmapFD, if unset, aliases it; a lisafs open may come without a host
\* FD.
EnsureShared(read, write, ok, f) ==
    LET needR == read /\ ~isReadHandleOk
        needW == write /\ ~isWriteHandleOk
        newR == needR /\ readFD < 0 /\ f # NoFD
        newW == needW /\ writeFD < 0 /\ f # NoFD
    IN
    /\ readers = 0 /\ ~destroyed
    /\ (needR \/ needW) /\ ok
    /\ f = NoFD => impl = "lisafs"
    /\ f # NoFD => f \notin hostOpen
    /\ readLisaOk' = (readLisaOk \/ (needR /\ impl = "lisafs"))
    /\ writeLisaOk' = (writeLisaOk \/ (needW /\ impl = "lisafs"))
    /\ readFD' = IF newR THEN f ELSE readFD
    /\ writeFD' = IF newW THEN f ELSE writeFD
    /\ mmapFD' = IF mmapFD < 0 /\ (newR \/ newW) THEN f ELSE mmapFD
    /\ hostOpen' = IF newR \/ newW THEN hostOpen \cup {f} ELSE hostOpen
    /\ UNCHANGED <<impl, controlFD, badClose, readers, destroyed>>

\* Another goroutine (a write(2) or an mmap) upgrades the dentry's handles.
Upgrade ==
    \E read, write \in BOOLEAN, f \in HostFDs \cup {NoFD} :
        /\ EnsureShared(read, write, TRUE, f)
        /\ UNCHANGED <<rpc, ret>>

\* closeHostFDs, when the dentry is destroyed (no reference, so no reader
\* is inside readHandleForDeleted): closes readFD, writeFD unless it is
\* readFD, and the directfs control FD, and forgets them all.
closeHostFDs ==
    /\ readers = 0 /\ ~destroyed
    /\ \A r \in Readers : rpc[r] = "Idle"
    /\ badClose' = (badClose \/ ClosesBad(FDsClosedBy))
    /\ hostOpen' = hostOpen \ (FDsClosedBy[1] \cup FDsClosedBy[2] \cup FDsClosedBy[3])
    /\ readFD' = NoFD /\ writeFD' = NoFD /\ mmapFD' = NoFD
    /\ controlFD' = IF impl = "directfs" THEN NoFD ELSE controlFD
    /\ destroyed' = TRUE
    /\ UNCHANGED <<impl, readLisaOk, writeLisaOk, readers, rpc, ret>>

-----------------------------------------------------------------------------
(* readHandleForDeleted, called with d.handleMu held for reading.          *)

\* The caller takes d.handleMu.RLock.
Acquire(r) ==
    /\ rpc[r] = "Idle" /\ ~destroyed
    /\ rpc' = [rpc EXCEPT ![r] = "Locked"]
    /\ readers' = readers + 1
    /\ UNCHANGED <<impl, readFD, writeFD, mmapFD, controlFD, readLisaOk,
                   writeLisaOk, hostOpen, badClose, ret, destroyed>>

\* Mutant of CheckReadHandle: a lisafs dentry without a read handle returns
\* readHandle() at once, without ensureSharedHandle.
CheckReadHandleNoEnsure(r) ==
    /\ rpc[r] = "Locked"
    /\ \/ /\ isReadHandleOk \/ impl = "lisafs"
          /\ ret' = [ret EXCEPT ![r] = readHandle]
          /\ rpc' = [rpc EXCEPT ![r] = "Done"]
          /\ UNCHANGED readers
       \/ /\ ~isReadHandleOk /\ impl = "directfs"
          /\ \E seekOk \in BOOLEAN :
                ret' = [ret EXCEPT ![r] = [lisaOk |-> FALSE, fd |-> controlFD,
                                           err |-> ~seekOk]]
          /\ rpc' = [rpc EXCEPT ![r] = "Done"]
          /\ UNCHANGED readers
    /\ UNCHANGED <<impl, readFD, writeFD, mmapFD, controlFD, readLisaOk,
                   writeLisaOk, hostOpen, badClose, destroyed>>

\* The first part of readHandleForDeleted: a valid read handle is returned;
\* otherwise lisafs drops the read lock to call ensureSharedHandle, and
\* directfs seeks its control FD to 0 and returns it (or the seek error).
CheckReadHandle(r) ==
    /\ rpc[r] = "Locked"
    /\ \/ /\ isReadHandleOk
          /\ ret' = [ret EXCEPT ![r] = readHandle]
          /\ rpc' = [rpc EXCEPT ![r] = "Done"]
          /\ UNCHANGED readers
       \/ /\ ~isReadHandleOk /\ impl = "lisafs"
          /\ rpc' = [rpc EXCEPT ![r] = "Unlocked"]
          /\ readers' = readers - 1
          /\ UNCHANGED ret
       \/ /\ ~isReadHandleOk /\ impl = "directfs"
          /\ \E seekOk \in BOOLEAN :
                ret' = [ret EXCEPT ![r] = [lisaOk |-> FALSE, fd |-> controlFD,
                                           err |-> ~seekOk]]
          /\ rpc' = [rpc EXCEPT ![r] = "Done"]
          /\ UNCHANGED readers
    /\ UNCHANGED <<impl, readFD, writeFD, mmapFD, controlFD, readLisaOk,
                   writeLisaOk, hostOpen, badClose, destroyed>>

\* ensureSharedHandle(read) while the read lock is dropped: it opens a
\* read handle only if none is valid by the time it holds the write lock;
\* an open failure is the call's error and changes nothing.
EnsureRead(r) ==
    /\ rpc[r] = "Unlocked"
    /\ rpc' = [rpc EXCEPT ![r] = "Relock"]
    /\ \/ /\ isReadHandleOk /\ readers = 0 /\ ~destroyed
          /\ ret' = [ret EXCEPT ![r].err = FALSE]
          /\ UNCHANGED <<impl, readFD, writeFD, mmapFD, controlFD, readLisaOk,
                         writeLisaOk, hostOpen, badClose, readers, destroyed>>
       \/ /\ \E f \in HostFDs \cup {NoFD} : EnsureShared(TRUE, FALSE, TRUE, f)
          /\ ret' = [ret EXCEPT ![r].err = FALSE]
       \/ /\ ~isReadHandleOk /\ readers = 0 /\ ~destroyed
          /\ ret' = [ret EXCEPT ![r].err = TRUE]
          /\ UNCHANGED <<impl, readFD, writeFD, mmapFD, controlFD, readLisaOk,
                         writeLisaOk, hostOpen, badClose, readers, destroyed>>

\* d.handleMu.RLock again, then the error, or readHandle() read anew.
Relock(r) ==
    /\ rpc[r] = "Relock"
    /\ rpc' = [rpc EXCEPT ![r] = "Done"]
    /\ readers' = readers + 1
    /\ ret' = [ret EXCEPT ![r] = IF ret[r].err
                                 THEN [lisaOk |-> FALSE, fd |-> NoFD, err |-> TRUE]
                                 ELSE readHandle]
    /\ UNCHANGED <<impl, readFD, writeFD, mmapFD, controlFD, readLisaOk,
                   writeLisaOk, hostOpen, badClose, destroyed>>

\* Mutant of Release: the caller returns without d.handleMu.RUnlock.
ReleaseNoUnlock(r) ==
    /\ rpc[r] = "Done"
    /\ rpc' = [rpc EXCEPT ![r] = "Idle"]
    /\ UNCHANGED <<impl, readFD, writeFD, mmapFD, controlFD, readLisaOk,
                   writeLisaOk, hostOpen, badClose, readers, ret, destroyed>>

\* The caller is done with the handle and takes d.handleMu.RUnlock.
Release(r) ==
    /\ rpc[r] = "Done"
    /\ rpc' = [rpc EXCEPT ![r] = "Idle"]
    /\ readers' = readers - 1
    /\ UNCHANGED <<impl, readFD, writeFD, mmapFD, controlFD, readLisaOk,
                   writeLisaOk, hostOpen, badClose, ret, destroyed>>

-----------------------------------------------------------------------------

\* A fresh dentry with no handles; a directfs dentry holds its control FD.
Init ==
    /\ impl \in Impls
    /\ readFD = NoFD /\ writeFD = NoFD /\ mmapFD = NoFD
    /\ controlFD = IF impl = "directfs" THEN 0 ELSE NoFD
    /\ hostOpen = IF impl = "directfs" THEN {0} ELSE {}
    /\ readLisaOk = FALSE /\ writeLisaOk = FALSE
    /\ badClose = FALSE
    /\ readers = 0
    /\ rpc = [r \in Readers |-> "Idle"]
    /\ ret = [r \in Readers |-> [lisaOk |-> FALSE, fd |-> NoFD, err |-> FALSE]]
    /\ destroyed = FALSE

Next ==
    \/ Upgrade
    \/ closeHostFDs
    \/ \E r \in Readers :
          \/ Acquire(r) \/ CheckReadHandle(r) \/ EnsureRead(r)
          \/ Relock(r) \/ Release(r)

Spec == Init /\ [][Next]_vars

-----------------------------------------------------------------------------
(* Properties.                                                             *)

TypeOK ==
    /\ impl \in Impls
    /\ readFD \in HostFDs \cup {NoFD}
    /\ writeFD \in HostFDs \cup {NoFD}
    /\ mmapFD \in HostFDs \cup {NoFD}
    /\ controlFD \in HostFDs \cup {NoFD}
    /\ readLisaOk \in BOOLEAN /\ writeLisaOk \in BOOLEAN
    /\ hostOpen \subseteq HostFDs
    /\ badClose \in BOOLEAN
    /\ readers \in 0 .. Cardinality(Readers)
    /\ rpc \in [Readers -> {"Idle", "Locked", "Unlocked", "Relock", "Done"}]
    /\ ret \in [Readers -> Handles]
    /\ destroyed \in BOOLEAN

\* closeHostFDs never hands unix.Close an FD twice or an FD the dentry
\* does not own, though a RDWR handle leaves readFD = writeFD.
NoBadClose == ~badClose

\* The open host FDs the dentry owns are exactly those it references:
\* an upgrade never leaks the FD it opens, mmapFD only aliases the read or
\* write FD, and closeHostFDs, the directfs control FD included, leaves
\* nothing open.
HostFDsAccounted ==
    /\ hostOpen = {readFD, writeFD, mmapFD, controlFD} \ {NoFD}
    /\ mmapFD \in {NoFD, readFD, writeFD}

\* readHandleForDeleted, which drops handleMu around ensureSharedHandle,
\* returns without error only a usable handle whose host FD (if any) is
\* still open while the caller holds the read lock.
ReadHandleForDeletedOk ==
    \A r \in Readers :
        rpc[r] = "Done" /\ ~ret[r].err =>
            /\ HandleOk(ret[r])
            /\ ret[r].fd # NoFD => ret[r].fd \in hostOpen

=============================================================================
