---------------------------- MODULE MCGoferDentry -----------------------------
(* Two readers and three host FDs: enough for a reader to drop the lock    *)
(* while the other holds it, for an upgrade to run in that window, and for *)
(* separate read and write FDs next to the control FD.                     *)
EXTENDS GoferDentry

CONSTANTS r1, r2

MCReaders == {r1, r2}
MCNFD == 3
=============================================================================
