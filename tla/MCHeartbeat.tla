---------------------------- MODULE MCHeartbeat ----------------------------
(***************************************************************************)
(* An instance of Heartbeat for TLC in units of five seconds, with the     *)
(* values of the code and of the Dockerfile: beats and checks every 30     *)
(* seconds, a file fresh for two minutes, a start period of one. Checks in *)
(* the start period are one unit apart, more than the 2 seconds they are,  *)
(* and a beat can be a whole unit late.                                    *)
(***************************************************************************)
EXTENDS Heartbeat

(* Back and forward, by more than one beat and by more than the file's age. *)
MCClockSteps == {-18, 14, 40}

=============================================================================
