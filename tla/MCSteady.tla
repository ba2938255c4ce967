------------------------------- MODULE MCSteady -------------------------------
(***************************************************************************)
(* Steady on three pairs of parts: one outfed, one on the line, one queued. *)
(***************************************************************************)
EXTENDS TransferWalk

\* One fan or both: the parts at the two fan stations dry apart.
Reading(o, sh, fs, ok) ==
  [occupied |-> o, shutter |-> sh, fans |-> fs, clear |-> ok,
   gun |-> ~ok, inEye |-> ok, outEye |-> ~ok]

MCReadings ==
  {Reading(o, sh, fs, ok) :
     o \in SUBSET Tracked, sh \in {"open", "closed"},
     fs \in SUBSET FanStations \ {{}}, ok \in BOOLEAN}
=============================================================================
