------------------------ MODULE MCCameraLifecycle -------------------------
(***************************************************************************)
(* TLC instances of CameraLifecycle.  Threads of a kind are interchange-   *)
(* able, which a run without liveness may use as a symmetry.               *)
(***************************************************************************)
EXTENDS LifecycleInvariant, TLC

ThreadSymmetry == Permutations(Apps) \cup Permutations(Threads)

=============================================================================
