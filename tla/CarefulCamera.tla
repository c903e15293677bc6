--------------------------- MODULE CarefulCamera ----------------------------
(***************************************************************************)
(* CameraLifecycle driven by an application that breaks no rule of careful *)
(* use (misuse stays empty), and the proof obligation that it implements   *)
(* CaptureSession.                                                         *)
(***************************************************************************)
EXTENDS CameraLifecycle

CarefulNext == Next /\ misuse' = {}

CarefulSafety == Init /\ [][CarefulNext]_vars

CarefulSpec == CarefulSafety /\ Fairness

-----------------------------------------------------------------------------
\* The refinement mapping.
AnApp(pcs) == \E a \in Apps : appPc[a] \in pcs
AThread(pcs) == \E t \in Threads : capPc[t] \in pcs

phaseBar ==
  IF ~alive THEN "released"
  ELSE IF AnApp({"open"}) THEN "opening"
  ELSE IF AnApp({"configure", "map", "queue", "streamon", "return"}) THEN "configuring"
  ELSE IF AnApp({"exit_close", "exit_reset"}) \/ AThread({"error", "err_reset"}) THEN "failing"
  ELSE IF AThread({"spawned", "entry"}) THEN "starting"
  ELSE IF AThread({"stopping"}) THEN "stopping"
  ELSE IF \E t \in Threads : Looping(t) THEN "running"
  ELSE IF mFD = -1 THEN "closed" ELSE "stopped"

heldBar == openFds # {}

stopAskedBar == phaseBar = "running" /\ ~mPeekRun

Session == INSTANCE CaptureSession
             WITH phase <- phaseBar, held <- heldBar, stopAsked <- stopAskedBar

(***************************************************************************)
(* The native code, its capture thread and the device behave, under        *)
(* careful use, as one CaptureSession: no second session, no descriptor    *)
(* kept after an error or a release, every asked stop answered.            *)
(***************************************************************************)
ImplementsSession == Session!SessionSpec

=============================================================================
