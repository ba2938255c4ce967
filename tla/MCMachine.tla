------------------------------ MODULE MCMachine ------------------------------
(***************************************************************************)
(* Small sensor environments for the open machine.                          *)
(***************************************************************************)
EXTENDS Machine

\* Any presence picture, either shutter position, and good or bad conditions in
\* the robot cell and at the ends of the line. A tick with dt = 0 stands for one
\* with the fans off.
Reading(o, sh, ok) ==
  [occupied |-> o, shutter |-> sh, fans |-> FanStations, clear |-> ok,
   gun |-> ~ok, inEye |-> ok, outEye |-> ~ok]

MCReadings ==
  {Reading(o, sh, ok) :
     o \in SUBSET Tracked, sh \in {"open", "closed"}, ok \in BOOLEAN}
=============================================================================
