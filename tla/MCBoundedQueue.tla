--------------------------- MODULE MCBoundedQueue ---------------------------
(***************************************************************************)
(* The instance of BoundedQueue for TLC: more producers than the queue has *)
(* room, two consumers that compete for notifications, and stop().  The    *)
(* queue never looks at an entry, so one entry is enough.                  *)
(***************************************************************************)
EXTENDS BoundedQueue

=============================================================================
