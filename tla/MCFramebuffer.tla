--------------------------- MODULE MCFramebuffer ---------------------------
(***************************************************************************)
(* TLC instance of Framebuffer: one mode wider, one higher (as 1280x1024   *)
(* and 1440x900 are), so that a size read between the two stores fits      *)
(* neither; and a mode the buffer is too small for.                        *)
(***************************************************************************)
EXTENDS Framebuffer

Mode(i, w, h, d) == [id |-> i, w |-> w, h |-> h, is_default |-> d]
MCModes == {Mode(1, 2, 3, FALSE), Mode(2, 3, 2, TRUE), Mode(3, 3, 3, FALSE)}
MCCommand == FramebufferCommand
\* States that differ only in a command already executed, or in an answer
\* already taken, or in fresh, which only liveness is about, behave alike.
LiveState == <<IF backlog = 0 THEN NoCommand ELSE cmd, backlog, pushing, moved,
               IF pushing \/ moved THEN answer ELSE "err", waiting, start, size, fbid, taken,
               timer, armed, refresh, statics, tracked, at, locals, client, caller, device,
               ctlOps, freed, active, late, overlap, stray>>
=============================================================================
