------------------------------- MODULE Steady -------------------------------
(***************************************************************************)
(* The machine used as its schedule needs, in the same open environment of  *)
(* sensors, completions and faults:                                         *)
(*   - batches hold whole pairs, and a batch that finds the IN queue empty  *)
(*     is declared during P1 or P2 (between P3's infeed and P4's infeed it  *)
(*     would put a lead in the trail's slot);                               *)
(*   - after a fault the operator confirms either the machine's belief or,  *)
(*     after a fault in mid-move, the picture after the whole move, the     *)
(*     sensors agree, and the beat is not overridden.                       *)
(* Under these rules the four-beat pattern of core/schedule.py is kept by   *)
(* every behaviour, fill, drain and recovery included.                      *)
(***************************************************************************)
EXTENDS Machine

SteadyDeclare(n) ==
  /\ n % 2 = 0
  /\ infed < declared \/ beat \in {"P1", "P2"}
  /\ Declare(n)

SteadyResume(seen) ==
  \/ Resume(occ, beat, seen)
  \/ /\ faultPhase = "moving" /\ inflight # {}
     /\ Resume(Moved(inflight), beat, seen)

SteadyNext ==
  \/ Step
  \/ \E n \in Parts : SteadyDeclare(n)
  \/ \E seen \in SUBSET Tracked : SteadyResume(seen)

SteadySpec == Init /\ [][SteadyNext]_vars

-----------------------------------------------------------------------------
OnLine == {occ[st] : st \in Tracked} \ {NoPart}

(***************************************************************************)
(* Every part that left the queue is at exactly one station or has been     *)
(* outfed: no move overwrites, drops or duplicates a part                   *)
(* (machine._apply_moves, its order vacate-before-fill).                    *)
(***************************************************************************)
NoPartLost ==
  /\ 1 .. infed = OnLine \cup shipped
  /\ OnLine \cap shipped = {}
  /\ \A x, y \in Tracked : occ[x] = occ[y] /\ occ[x] # NoPart => x = y

(***************************************************************************)
(* "A part may not leave the line before coat 2 is dry" (README.md): every  *)
(* outfed part carries both coats and has banked both flashes. The guard    *)
(* timers.may_outfeed that says so is never called; it is the pattern, the  *)
(* departure guard and the re-entry rules of resume() that keep it.         *)
(***************************************************************************)
OutfedComplete ==
  \A p \in shipped : /\ coats[p] = 2
                     /\ flash1[p] = FlashSeconds /\ flash2[p] = FlashSeconds

(***************************************************************************)
(* Coat 2 goes only onto a complete flash 1 (timers.may_receive_coat_2, also *)
(* never called), and no part skips coat 1.                                 *)
(***************************************************************************)
CoatTwoOnDryCoatOne == \A p \in Parts : coats[p] = 2 => flash1[p] = FlashSeconds

(***************************************************************************)
(* The role check of machine._robot_work never fires: whoever reaches O     *)
(* is the lead or trail its beat expects (tests/test_drain.py).             *)
(***************************************************************************)
RoleAlwaysMatches == phase = "robot_work" => ~WrongRole

(***************************************************************************)
(* At a beat boundary every coated part that still owes flash time stands   *)
(* under a fan its beat runs: the schedule never parks a wet part where it  *)
(* cannot dry, which would hold the line for ever.                          *)
(***************************************************************************)
WetPartsUnderFans ==
  phase = "robot_work" =>
    \A st \in FanStations : occ[st] # NoPart /\ wet[occ[st]] => st \in FanOn(beat)

(***************************************************************************)
(* No part passes another (core/model.py PartRole): parts are outfed in the *)
(* order they were declared.                                                *)
(***************************************************************************)
ShippedInOrder == shipped = 1 .. Cardinality(shipped)

(***************************************************************************)
(* The departure guard of core/guards.py over the whole transition: when    *)
(* the machine believes a part has left a fan station, that part owed no    *)
(* flash time. The guard ran at least one train advance earlier.            *)
(***************************************************************************)
NoUnderFlashedDeparture ==
  [][\A st \in FanStations :
       phase = "moving" /\ occ[st] # NoPart /\ occ'[st] # occ[st]
         => MayLeaveFan(occ[st])]_vars

(***************************************************************************)
(* The line keeps its promise to every part: sensors, faults, recoveries    *)
(* and batches only ever take parts along the journey of PartJourney. "A    *)
(* part may not leave the line before coat 2 is dry" (README.md) and the    *)
(* two checks of core/timers.py that nobody calls are steps of it.          *)
(***************************************************************************)
StageOf(p) ==
  IF p \in shipped THEN 7 ELSE IF p > declared THEN 0 ELSE IF p > infed THEN 1
  ELSE IF coats[p] = 0 THEN 2
  ELSE IF coats[p] = 1 THEN (IF flash1[p] < FlashSeconds THEN 3 ELSE 4)
  ELSE IF flash2[p] < FlashSeconds THEN 5 ELSE 6

Journey == INSTANCE PartJourney WITH
  Room <- Cardinality(Tracked),
  stage <- [p \in Parts |-> StageOf(p)]

PartsTravel == Journey!Spec
=============================================================================
