------------------------------ MODULE Schedule ------------------------------
(***************************************************************************)
(* The line's data: stations, the four-beat pair schedule and the train     *)
(* transitions between beats (core/schedule.py, core/model.py).             *)
(*                                                                         *)
(* Parts are the numbers 1, 2, 3, ... in the order an operator declares     *)
(* them, so the n-th part of the whole run has the lead/trail role that     *)
(* LineController.declare_batch gives it by parity.                         *)
(***************************************************************************)
EXTENDS Integers, Sequences

Tracked     == {"F1", "O", "F2"}          \* stations with a presence sensor
FanStations == {"F1", "F2"}
Stations    == Tracked \cup {"IN", "OUT"}
NoPart      == 0

Roles == {"lead", "trail"}

Role(p) == IF p % 2 = 1 THEN "lead" ELSE "trail"

-----------------------------------------------------------------------------
Beats  == {"P1", "P2", "P3", "P4"}
Phases == {"robot_work", "await_guards", "shutter_open", "moving",
           "shutter_close", "set_fans", "faulted"}

NextBeat(b) == IF b = "P1" THEN "P2" ELSE IF b = "P2" THEN "P3"
               ELSE IF b = "P3" THEN "P4" ELSE "P1"

\* SCHEDULE: who works at O in beat b, which coat, and the fans of the beat.
WorkRole(b)  == IF b \in {"P1", "P3"} THEN "lead" ELSE "trail"
WorkCoat(b)  == IF b \in {"P1", "P2"} THEN 1 ELSE 2
FanOn(b)     == IF b = "P3" THEN {"F1"} ELSE {"F2"}

-----------------------------------------------------------------------------
(***************************************************************************)
(* TRANSITIONS: the moves <<source, destination>> of the train at the end   *)
(* of each beat, in the order the code lists them, vacate-before-fill.      *)
(***************************************************************************)
Transitions_FillFirst(b) ==
  CASE b = "P1" -> << <<"F1", "O">>, <<"O", "F2">>, <<"F2", "OUT">> >>
    [] b = "P2" -> << <<"F2", "O">>, <<"O", "F1">> >>
    [] b = "P3" -> << <<"IN", "F1">>, <<"F1", "O">>, <<"O", "F2">> >>
    [] OTHER    -> << <<"IN", "F1">>, <<"F1", "O">>, <<"O", "F2">>, <<"F2", "OUT">> >>

Transitions(b) ==
  CASE b = "P1" -> << <<"F2", "OUT">>, <<"O", "F2">>, <<"F1", "O">> >>
    [] b = "P2" -> << <<"O", "F1">>, <<"F2", "O">> >>
    [] b = "P3" -> << <<"O", "F2">>, <<"F1", "O">>, <<"IN", "F1">> >>
    [] OTHER    -> << <<"F2", "OUT">>, <<"O", "F2">>, <<"F1", "O">>, <<"IN", "F1">> >>

Upstream(b) == b = "P2"

(***************************************************************************)
(* The same table by destination: the station whose part arrives at d, or   *)
(* "none". The machine is written with it; TransferWalk checks that the     *)
(* code's ordered loops over TRANSITIONS compute what it says.              *)
(***************************************************************************)
Feeder(b, d) ==
  IF d = "OUT" THEN IF b \in {"P1", "P4"} THEN "F2" ELSE "none"
  ELSE IF d = "F2" THEN IF b = "P2" THEN "none" ELSE "O"
  ELSE IF d = "O" THEN IF b = "P2" THEN "F2" ELSE "F1"
  ELSE IF d = "F1" THEN IF b = "P1" THEN "none" ELSE IF b = "P2" THEN "O" ELSE "IN"
  ELSE "none"

\* The stations the beat's transition moves a part from.
Sources(b) == {Feeder(b, d) : d \in Stations} \ {"none"}
=============================================================================
