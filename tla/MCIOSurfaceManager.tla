------------------------- MODULE MCIOSurfaceManager -------------------------
(* Small instance of IOSurfaceManager for TLC. *)
EXTENDS IOSurfaceManager

CONSTANTS f1, f2
MCFormats == {f1, f2}
MCBytes == {2, 5}
=============================================================================
