------------------------- MODULE MCDeviceLifecycle -------------------------
(***************************************************************************)
(* TLC instance of DeviceLifecycle: two callers, so that one can hold a    *)
(* lock while the other waits for it and the driver is stopped.            *)
(***************************************************************************)
EXTENDS DeviceLifecycle, TLC

CallerSymmetry == Permutations(Callers)
=============================================================================
