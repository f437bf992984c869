--------------------------- MODULE MCCursorQueue ---------------------------
(* A small instance of CursorQueue for TLC. *)
EXTENDS CursorQueue

CONSTANTS t1, t2
MCCallers == {t1, t2}
=============================================================================
