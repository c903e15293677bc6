--------------------------- MODULE CaptureSession ---------------------------
(***************************************************************************)
(* What a camera promises to an application that uses it with care: one    *)
(* capture session at a time, which goes through the phases below, holds   *)
(* the device exactly as long as it says, and ends after a stop.           *)
(*                                                                         *)
(* This is the abstract specification; CarefulCamera shows that the native *)
(* code and its threads implement it.                                      *)
(***************************************************************************)
VARIABLES
  phase,      \* where the session is
  held,       \* does the process hold the device open?
  stopAsked   \* has a running session been asked to stop?

sessionVars == <<phase, held, stopAsked>>

Phases == {"closed", "opening", "configuring", "starting", "running", "stopping",
           "stopped", "failing", "released"}

SessionInit ==
  /\ phase = "closed"
  /\ held = FALSE
  /\ stopAsked = FALSE

Move(from, to) == phase \in from /\ phase' = to

\* What the application asks for.
Start == Move({"closed"}, "opening") /\ UNCHANGED <<held, stopAsked>>

Stop ==
  /\ phase = "running"
  /\ stopAsked' = TRUE
  /\ UNCHANGED <<phase, held>>

Release ==
  /\ Move({"closed", "stopped"}, "released")
  /\ held' = FALSE
  /\ UNCHANGED stopAsked

\* Opening the device and setting it up.
OpenFails == Move({"opening"}, "closed") /\ UNCHANGED <<held, stopAsked>>

Acquire ==
  /\ Move({"opening"}, "configuring")
  /\ held' = TRUE
  /\ UNCHANGED stopAsked

Configured == Move({"configuring"}, "starting") /\ UNCHANGED <<held, stopAsked>>

Begin == Move({"starting"}, "running") /\ UNCHANGED <<held, stopAsked>>

\* A session that was asked to stop stops, and keeps the device.
StopSeen ==
  /\ stopAsked
  /\ Move({"running"}, "stopping")
  /\ stopAsked' = FALSE
  /\ UNCHANGED held

Stopped == Move({"stopping"}, "stopped") /\ UNCHANGED <<held, stopAsked>>

\* An error, stop or no stop, gives the device back and closes the camera.
Fail ==
  /\ Move({"configuring", "running"}, "failing")
  /\ stopAsked' = FALSE
  /\ UNCHANGED held

GiveBack ==
  /\ phase = "failing"
  /\ held
  /\ held' = FALSE
  /\ UNCHANGED <<phase, stopAsked>>

Failed == ~held /\ Move({"failing"}, "closed") /\ UNCHANGED <<held, stopAsked>>

Progress ==
  \/ OpenFails \/ Acquire \/ Configured \/ Begin
  \/ StopSeen \/ Stopped \/ GiveBack \/ Failed

SessionNext == Start \/ Stop \/ Release \/ Fail \/ Progress

SessionSafety == SessionInit /\ [][SessionNext]_sessionVars

(***************************************************************************)
(* Every phase but closed, stopped, released and a session running without *)
(* having been asked to stop is passed through in the end.                 *)
(***************************************************************************)
SessionSpec == SessionSafety /\ WF_sessionVars(Progress)

=============================================================================
