---------------------------- MODULE SteadyProofs ----------------------------
(***************************************************************************)
(* The four-beat pattern as an inductive invariant of Steady, and what it   *)
(* gives for every number of parts, flash time and set of readings: no part *)
(* is lost, none is outfed unfinished or out of order, coat 2 never meets a *)
(* wet coat 1, and the role check never fires. The ordered loops of         *)
(* TransferWalk compute the set view, and Steady implements PartJourney.    *)
(***************************************************************************)
EXTENDS TransferWalk, MachineProofs, FiniteSetTheorems

USE MachineAssumption DEF NoPart

-----------------------------------------------------------------------------
(***************************************************************************)
(* The inductive invariant.                                                 *)
(***************************************************************************)
\* Where in the choreography the machine is, or was when it faulted.
Ph == IF phase = "faulted" THEN faultPhase ELSE phase

\* The beat whose picture the belief shows: after the train move the counter
\* lags the belief until SET_FANS.
Shown == IF Ph \in {"shutter_close", "set_fans"} THEN NextBeat(beat) ELSE beat

\* Who may stand where in each beat, with how many coats.
SlotRole(b, st) ==
  IF st = "O" THEN WorkRole(b)
  ELSE IF st = "F1" THEN (IF b = "P4" THEN "lead" ELSE "trail")
  ELSE (IF b = "P1" THEN "trail" ELSE "lead")

SlotCoats(b, st) ==
  IF st = "O" THEN {WorkCoat(b) - 1, WorkCoat(b)}
  ELSE IF st = "F1" THEN (IF b = "P2" THEN {} ELSE IF b = "P3" THEN {1} ELSE {0})
  ELSE (IF b = "P3" THEN {} ELSE IF b = "P2" THEN {1} ELSE {2})

Control ==
  /\ Ph \in Phases \ {"faulted"}
  /\ inflight # {} => Ph = "moving" /\ inflight = LiveMoves
  /\ FlashGuard(inflight)

Picture ==
  /\ \A st \in Tracked : occ[st] # NoPart =>
       /\ Role(occ[st]) = SlotRole(Shown, st)
       /\ coats[occ[st]] \in SlotCoats(Shown, st)
  /\ Ph \in {"await_guards", "shutter_open", "moving"} /\ occ["O"] # NoPart
       => coats[occ["O"]] = WorkCoat(beat)
  /\ Shown \in {"P3", "P4"} /\ occ["O"] # NoPart => flash1[occ["O"]] = FlashSeconds

Pairing ==
  /\ declared % 2 = 0
  /\ Shown # "P4" => infed % 2 = 0
  /\ Shown = "P4" => infed % 2 = 1 \/ infed = declared

Timers ==
  \A p \in Parts :
    /\ coats[p] = 0 => flash1[p] = 0
    /\ coats[p] < 2 => flash2[p] = 0
    /\ coats[p] = 2 => flash1[p] = FlashSeconds
    /\ p > infed => coats[p] = 0
    /\ p \in shipped => coats[p] = 2 /\ flash2[p] = FlashSeconds

IInv == TypeOK /\ Control /\ Picture /\ Pairing /\ Timers /\ NoPartLost

-----------------------------------------------------------------------------
(***************************************************************************)
(* What banking, or no banking at all, does to the part records.            *)
(***************************************************************************)
Dries ==
  /\ coats' = coats
  /\ \A p \in Parts :
       /\ flash1[p] = FlashSeconds => flash1'[p] = FlashSeconds
       /\ flash2[p] = FlashSeconds => flash2'[p] = FlashSeconds
       /\ coats[p] = 0 => flash1'[p] = flash1[p]
       /\ coats[p] < 2 => flash2'[p] = flash2[p]
       /\ MayLeaveFan(p) => MayLeaveFan(p)'

\* Banking never lowers a timer, a coat or the right to leave a fan.
LEMMA BankDries ==
  ASSUME TypeOK, NEW s, NEW dt \in 0 .. MaxDt, Bank(s, dt)
  PROVE  Dries
<1>1. coats' = coats
  BY DEF Bank
<1>2. SUFFICES ASSUME NEW p \in Parts
               PROVE  /\ flash1[p] = FlashSeconds => flash1'[p] = FlashSeconds
                      /\ flash2[p] = FlashSeconds => flash2'[p] = FlashSeconds
                      /\ coats[p] = 0 => flash1'[p] = flash1[p]
                      /\ coats[p] < 2 => flash2'[p] = flash2[p]
                      /\ MayLeaveFan(p) => MayLeaveFan(p)'
  BY <1>1 DEF Dries
<1>3. /\ coats[p] \in 0 .. 2 /\ flash1[p] \in 0 .. FlashSeconds
      /\ flash2[p] \in 0 .. FlashSeconds
  BY DEF TypeOK
<1>4. /\ flash1'[p] = IF Flashing(p, s) /\ coats[p] <= 1
                      THEN Capped(flash1[p] + dt) ELSE flash1[p]
      /\ flash2'[p] = IF Flashing(p, s) /\ coats[p] > 1
                      THEN Capped(flash2[p] + dt) ELSE flash2[p]
  BY DEF Bank, BankedFlash1, BankedFlash2
<1>5. Flashing(p, s) => coats[p] > 0
  BY DEF Flashing
<1>6. MayLeaveFan(p) => MayLeaveFan(p)'
  <2> SUFFICES ASSUME MayLeaveFan(p) PROVE MayLeaveFan(p)'
    OBVIOUS
  <2>1. QED
    BY <1>3 DEF Bank, BankedFlash1, BankedFlash2, Capped, MayLeaveFan, FlashComplete,
                ActiveFlash
<1>7. /\ flash1[p] = FlashSeconds => flash1'[p] = FlashSeconds
      /\ flash2[p] = FlashSeconds => flash2'[p] = FlashSeconds
  BY <1>3, <1>4 DEF Capped
<1>8. QED
  BY <1>3, <1>4, <1>5, <1>6, <1>7

\* Nor does a step that leaves the parts alone.
LEMMA UnchangedDries == UNCHANGED partVars => Dries
BY DEF partVars, Dries, MayLeaveFan, FlashComplete, ActiveFlash

-----------------------------------------------------------------------------
(***************************************************************************)
(* Steps that leave the books alone and the picture where it was.           *)
(***************************************************************************)
LEMMA Keep ==
  ASSUME IInv, TypeOK', Dries, UNCHANGED bookVars, Shown' = Shown,
         Ph' \in Phases \ {"faulted"},
         Ph' \in {"await_guards", "shutter_open", "moving"}
           => /\ beat' = beat
              /\ occ["O"] # NoPart => coats[occ["O"]] = WorkCoat(beat),
         inflight' # {} => Ph' = "moving" /\ inflight' = LiveMoves,
         \A st \in inflight' \cap FanStations, p \in Parts : occ[st] = p => MayLeaveFan(p)'
  PROVE  IInv'
<1>1. UNCHANGED <<occ, declared, infed, shipped>>
  BY DEF bookVars
<1>2. Control'
  <2>1. inflight' # {} => LiveMoves' = LiveMoves
    BY <1>1 DEF LiveMoves, Loaded
  <2>2. FlashGuard(inflight)'
    BY <1>1 DEF FlashGuard
  <2>3. QED
    BY <2>1, <2>2 DEF Control
<1>3. Picture'
  <2>1. coats' = coats
    BY DEF Dries
  <2>2. \A st \in Tracked : occ[st] # NoPart => occ[st] \in Parts
    BY DEF IInv, TypeOK
  <2>3. \A p \in Parts : flash1[p] = FlashSeconds => flash1'[p] = FlashSeconds
    BY DEF Dries
  <2>4. QED
    BY <1>1, <2>1, <2>2, <2>3 DEF IInv, Picture, Tracked
<1>4. Pairing'
  BY <1>1 DEF IInv, Pairing
<1>5. Timers'
  BY <1>1 DEF IInv, Timers, Dries
<1>6. NoPartLost'
  BY <1>1 DEF IInv, NoPartLost, OnLine
<1>7. QED
  BY <1>2, <1>3, <1>4, <1>5, <1>6 DEF IInv

-----------------------------------------------------------------------------
(***************************************************************************)
(* The train move of each beat, as the shift of the three stations it is.   *)
(***************************************************************************)
LEMMA Shift ==
  ASSUME TypeOK
  PROVE  /\ beat = "P1" => Moved(LiveMoves) =
              [d \in Tracked |-> IF d = "F1" THEN NoPart
                                 ELSE IF d = "O" THEN occ["F1"] ELSE occ["O"]]
         /\ beat = "P2" /\ occ["F1"] = NoPart => Moved(LiveMoves) =
              [d \in Tracked |-> IF d = "F1" THEN occ["O"]
                                 ELSE IF d = "O" THEN occ["F2"] ELSE NoPart]
         /\ (beat = "P4" \/ (beat = "P3" /\ occ["F2"] = NoPart)) => Moved(LiveMoves) =
              [d \in Tracked |-> IF d = "F1" THEN (IF infed < declared THEN infed + 1 ELSE NoPart)
                                 ELSE IF d = "O" THEN occ["F1"] ELSE occ["O"]]
         /\ MovedInfed(LiveMoves) = IF beat \in {"P3", "P4"} /\ infed < declared
                                    THEN infed + 1 ELSE infed
         /\ MovedShipped(LiveMoves) = IF beat \in {"P1", "P4"} /\ occ["F2"] # NoPart
                                      THEN shipped \cup {occ["F2"]} ELSE shipped
<1>1. \A st : st \in LiveMoves <=> st \in Sources(beat) /\ Loaded(st)
  BY DEF LiveMoves
<1>2. /\ beat = "P1" => Sources(beat) = {"F1", "O", "F2"}
      /\ beat = "P2" => Sources(beat) = {"O", "F2"}
      /\ beat = "P3" => Sources(beat) = {"IN", "F1", "O"}
      /\ beat = "P4" => Sources(beat) = {"IN", "F1", "O", "F2"}
  BY DEF Sources, Feeder, Stations, Tracked
<1>3. beat \in {"P1", "P2", "P3", "P4"}
  BY DEF TypeOK, Beats
<1>4. /\ Loaded("IN") <=> infed < declared
      /\ \A st \in Tracked : Loaded(st) <=> occ[st] # NoPart
  BY DEF Loaded, Tracked
<1>5. \A d \in Tracked : Delivers(LiveMoves, d) <=> Feeder(beat, d) \in LiveMoves
  BY <1>1 DEF Delivers
<1>6. CASE beat = "P1"
  <2>1. \A d \in Tracked : Moved(LiveMoves)[d] =
          IF d = "F1" THEN NoPart ELSE IF d = "O" THEN occ["F1"] ELSE occ["O"]
    BY <1>1, <1>2, <1>4, <1>5, <1>6 DEF Moved, Feeder, Carried, Tracked
  <2>2. Moved(LiveMoves) =
          [d \in Tracked |-> IF d = "F1" THEN NoPart
                             ELSE IF d = "O" THEN occ["F1"] ELSE occ["O"]]
    BY <2>1 DEF Moved
  <2>3. QED
    BY <1>1, <1>2, <1>4, <1>6, <2>2 DEF MovedInfed, MovedShipped, Delivers, Feeder, Tracked
<1>7. CASE beat = "P2"
  <2>1. occ["F1"] = NoPart => \A d \in Tracked : Moved(LiveMoves)[d] =
          IF d = "F1" THEN occ["O"] ELSE IF d = "O" THEN occ["F2"] ELSE NoPart
    BY <1>1, <1>2, <1>4, <1>5, <1>7 DEF Moved, Feeder, Carried, Tracked
  <2>2. occ["F1"] = NoPart => Moved(LiveMoves) =
          [d \in Tracked |-> IF d = "F1" THEN occ["O"]
                             ELSE IF d = "O" THEN occ["F2"] ELSE NoPart]
    BY <2>1 DEF Moved
  <2>3. QED
    BY <1>1, <1>2, <1>4, <1>7, <2>2 DEF MovedInfed, MovedShipped, Delivers, Feeder, Tracked
<1>8. CASE beat \in {"P3", "P4"}
  <2>1. (beat = "P4" \/ (beat = "P3" /\ occ["F2"] = NoPart)) =>
          \A d \in Tracked : Moved(LiveMoves)[d] =
            IF d = "F1" THEN (IF infed < declared THEN infed + 1 ELSE NoPart)
            ELSE IF d = "O" THEN occ["F1"] ELSE occ["O"]
    BY <1>1, <1>2, <1>4, <1>5, <1>8 DEF Moved, Feeder, Carried, Tracked
  <2>2. (beat = "P4" \/ (beat = "P3" /\ occ["F2"] = NoPart)) => Moved(LiveMoves) =
          [d \in Tracked |-> IF d = "F1" THEN (IF infed < declared THEN infed + 1 ELSE NoPart)
                             ELSE IF d = "O" THEN occ["F1"] ELSE occ["O"]]
    BY <2>1 DEF Moved
  <2>3. QED
    BY <1>1, <1>2, <1>4, <1>8, <2>2 DEF MovedInfed, MovedShipped, Delivers, Feeder, Tracked
<1>9. QED
  BY <1>3, <1>6, <1>7, <1>8

(***************************************************************************)
(* The whole train move, done: what the belief shows is the next beat's     *)
(* picture.                                                                 *)
(***************************************************************************)
TrainShifted ==
  /\ Ph = "moving" /\ Ph' = "shutter_close"
  /\ FlashGuard(LiveMoves)
  /\ occ' = Moved(LiveMoves)
  /\ infed' = MovedInfed(LiveMoves)
  /\ shipped' = MovedShipped(LiveMoves)
  /\ inflight' = {}
  /\ UNCHANGED <<beat, declared>>

\* Carrying every live move of the beat gives the picture of the next beat.
LEMMA MoveKeeps ==
  ASSUME IInv, TypeOK', Dries, TrainShifted
  PROVE  IInv'
<1> DEFINE a == occ["F1"]
           o == occ["O"]
           c == occ["F2"]
<1>1. /\ coats' = coats /\ beat' = beat /\ declared' = declared
      /\ \A p \in Parts : /\ flash1[p] = FlashSeconds => flash1'[p] = FlashSeconds
                          /\ flash2[p] = FlashSeconds => flash2'[p] = FlashSeconds
                          /\ coats[p] = 0 => flash1'[p] = flash1[p]
                          /\ coats[p] < 2 => flash2'[p] = flash2[p]
  BY DEF Dries, TrainShifted
<1>2. Shown = beat /\ Shown' = NextBeat(beat)
  BY DEF Shown, TrainShifted
<1>3. /\ a \in Parts \cup {0} /\ o \in Parts \cup {0} /\ c \in Parts \cup {0}
      /\ infed \in Nat /\ declared \in 0 .. MaxParts /\ infed <= declared
      /\ shipped \subseteq Parts
      /\ \A p \in Parts : /\ coats[p] \in 0 .. 2 /\ flash1[p] \in 0 .. FlashSeconds
                          /\ flash2[p] \in 0 .. FlashSeconds
  BY DEF IInv, TypeOK, Tracked
<1>4. /\ a # 0 => Role(a) = SlotRole(beat, "F1") /\ coats[a] \in SlotCoats(beat, "F1")
      /\ o # 0 => Role(o) = SlotRole(beat, "O") /\ coats[o] = WorkCoat(beat)
      /\ c # 0 => Role(c) = SlotRole(beat, "F2") /\ coats[c] \in SlotCoats(beat, "F2")
      /\ beat \in {"P3", "P4"} /\ o # 0 => flash1[o] = FlashSeconds
  BY <1>2 DEF IInv, Picture, Tracked, TrainShifted
<1>5. /\ OnLine = {a, o, c} \ {0}
      /\ OnLine' = {occ'["F1"], occ'["O"], occ'["F2"]} \ {0}
  BY DEF OnLine, Tracked
<1>6. /\ 1 .. infed = OnLine \cup shipped /\ OnLine \cap shipped = {}
      /\ a # 0 => a # o /\ a # c
      /\ o # 0 => o # c
  BY DEF IInv, NoPartLost, Tracked
<1>7. \A p \in OnLine \cup shipped : p <= infed /\ p \in Parts
  BY <1>3, <1>6 DEF Parts
<1>8. Timers
  BY DEF IInv
<1>9. Control'
  BY DEF TrainShifted, Control, FlashGuard, Phases
<1>10. /\ beat = "P3" /\ a # 0 => flash1[a] = FlashSeconds
       /\ beat = "P2" /\ c # 0 => flash1[c] = FlashSeconds
       /\ beat \in {"P1", "P4"} /\ c # 0 => coats[c] = 2 /\ flash2[c] = FlashSeconds
  <2>1. /\ a # 0 /\ beat = "P3" => "F1" \in LiveMoves
        /\ c # 0 /\ beat \in {"P1", "P2", "P4"} => "F2" \in LiveMoves
    BY DEF LiveMoves, Sources, Feeder, Loaded, Stations, Tracked
  <2>2. /\ a # 0 /\ beat = "P3" => MayLeaveFan(a)
        /\ c # 0 /\ beat \in {"P1", "P2", "P4"} => MayLeaveFan(c)
    BY <1>3, <2>1 DEF TrainShifted, FlashGuard, FanStations
  <2>3. QED
    BY <1>3, <1>4, <2>2 DEF MayLeaveFan, FlashComplete, ActiveFlash, SlotCoats
<1>11. /\ beat \in {"P1", "P2", "P3", "P4"}
       /\ beat = "P2" => a = 0
       /\ beat = "P3" => c = 0
  BY <1>4 DEF IInv, TypeOK, Beats, SlotCoats
<1>12. /\ occ'["F1"] = IF beat = "P1" THEN 0 ELSE IF beat = "P2" THEN o
                       ELSE IF infed < declared THEN infed + 1 ELSE 0
       /\ occ'["O"] = IF beat = "P2" THEN c ELSE a
       /\ occ'["F2"] = IF beat = "P2" THEN 0 ELSE o
       /\ infed' = IF beat \in {"P3", "P4"} /\ infed < declared THEN infed + 1 ELSE infed
       /\ shipped' = IF beat \in {"P1", "P4"} /\ c # 0 THEN shipped \cup {c} ELSE shipped
  <2>1. /\ occ' = Moved(LiveMoves) /\ infed' = MovedInfed(LiveMoves)
        /\ shipped' = MovedShipped(LiveMoves)
    BY DEF TrainShifted
  <2>2. TypeOK
    BY DEF IInv
  <2>3. CASE beat = "P1"
    BY <2>1, <2>2, <2>3, Shift DEF Tracked
  <2>4. CASE beat = "P2"
    BY <1>11, <2>1, <2>2, <2>4, Shift DEF Tracked
  <2>5. CASE beat \in {"P3", "P4"}
    BY <1>11, <2>1, <2>2, <2>5, Shift DEF Tracked
  <2>6. QED
    BY <1>11, <2>3, <2>4, <2>5
<1>13. Pairing'
  <2>1. /\ declared % 2 = 0
        /\ beat # "P4" => infed % 2 = 0
        /\ beat = "P4" => infed % 2 = 1 \/ infed = declared
    BY <1>2 DEF IInv, Pairing
  <2>2. QED
    BY <1>1, <1>2, <1>3, <1>11, <1>12, <2>1 DEF Pairing, NextBeat
<1>14. NoPartLost'
  <2>1. CASE beat = "P1"
    BY <1>3, <1>5, <1>6, <1>7, <1>12, <2>1 DEF NoPartLost, Tracked
  <2>2. CASE beat = "P2"
    BY <1>3, <1>5, <1>6, <1>7, <1>11, <1>12, <2>2 DEF NoPartLost, Tracked
  <2>3. CASE beat = "P3"
    BY <1>3, <1>5, <1>6, <1>7, <1>11, <1>12, <2>3 DEF NoPartLost, Tracked
  <2>4. CASE beat = "P4"
    BY <1>3, <1>5, <1>6, <1>7, <1>12, <2>4 DEF NoPartLost, Tracked
  <2>5. QED
    BY <1>11, <2>1, <2>2, <2>3, <2>4
<1>15. Timers'
  <2> SUFFICES ASSUME NEW p \in Parts
               PROVE  /\ coats'[p] = 0 => flash1'[p] = 0
                      /\ coats'[p] < 2 => flash2'[p] = 0
                      /\ coats'[p] = 2 => flash1'[p] = FlashSeconds
                      /\ p > infed' => coats'[p] = 0
                      /\ p \in shipped' => coats'[p] = 2 /\ flash2'[p] = FlashSeconds
    BY DEF Timers
  <2>1. p > infed' => p > infed
    BY <1>3, <1>12 DEF Parts
  <2>2. p \in shipped' => p \in shipped \/ (p = c /\ c # 0 /\ beat \in {"P1", "P4"})
    BY <1>12
  <2>3. QED
    BY <1>1, <1>8, <1>10, <2>1, <2>2 DEF Timers
<1>16. Picture'
  <2>1. \A p \in Parts : /\ Role(p) \in Roles
                         /\ p > infed => coats[p] = 0
    BY <1>8 DEF Timers, Role, Roles
  <2>2. infed < declared => infed + 1 \in Parts
    BY <1>3 DEF Parts
  <2>3. /\ beat = "P3" => Role(infed + 1) = "lead"
        /\ beat = "P4" /\ infed < declared => Role(infed + 1) = "trail"
    BY <1>2, <1>3 DEF IInv, Pairing, Role
  <2>4. CASE beat = "P1"
    <3>1. Shown' = "P2" /\ Ph' = "shutter_close"
      BY <1>2, <2>4 DEF NextBeat, TrainShifted
    <3>2. QED
      BY <1>1, <1>3, <1>4, <1>12, <2>4, <3>1
         DEF Picture, SlotRole, SlotCoats, WorkRole, WorkCoat, Tracked
  <2>5. CASE beat = "P2"
    <3>1. Shown' = "P3" /\ Ph' = "shutter_close"
      BY <1>2, <2>5 DEF NextBeat, TrainShifted
    <3>2. QED
      BY <1>1, <1>3, <1>4, <1>10, <1>12, <2>5, <3>1
         DEF Picture, SlotRole, SlotCoats, WorkRole, WorkCoat, Tracked
  <2>6. CASE beat = "P3"
    <3>1. Shown' = "P4" /\ Ph' = "shutter_close"
      BY <1>2, <2>6 DEF NextBeat, TrainShifted
    <3>2. QED
      BY <1>1, <1>3, <1>4, <1>10, <1>12, <2>1, <2>2, <2>3, <2>6, <3>1
         DEF Picture, SlotRole, SlotCoats, WorkRole, WorkCoat, Tracked
  <2>7. CASE beat = "P4"
    <3>1. Shown' = "P1" /\ Ph' = "shutter_close"
      BY <1>2, <2>7 DEF NextBeat, TrainShifted
    <3>2. QED
      BY <1>1, <1>3, <1>4, <1>12, <2>1, <2>2, <2>3, <2>7, <3>1
         DEF Picture, SlotRole, SlotCoats, WorkRole, WorkCoat, Tracked
  <2>8. QED
    BY <1>11, <2>4, <2>5, <2>6, <2>7
<1>20. QED
  BY <1>9, <1>13, <1>14, <1>15, <1>16 DEF IInv

-----------------------------------------------------------------------------
(***************************************************************************)
(* Faults, blocked ticks and waits: nothing the invariant looks at changes  *)
(* but the part timers.                                                     *)
(***************************************************************************)
LEMMA Stay ==
  ASSUME IInv, TypeOK', Dries, UNCHANGED <<beat, inflight, bookVars>>, Ph' = Ph
  PROVE  IInv'
<1>1. Shown' = Shown
  BY DEF Shown
<1>2. Ph \in Phases \ {"faulted"}
  BY DEF IInv, Control
<1>3. Ph \in {"await_guards", "shutter_open", "moving"} /\ occ["O"] # NoPart
        => coats[occ["O"]] = WorkCoat(beat)
  BY DEF IInv, Picture
<1>4. inflight # {} => Ph = "moving" /\ inflight = LiveMoves
  BY DEF IInv, Control
<1>5. \A st \in inflight \cap FanStations, p \in Parts : occ[st] = p => MayLeaveFan(p)'
  BY DEF IInv, Control, FlashGuard, Dries
<1>6. QED
  BY <1>1, <1>2, <1>3, <1>4, <1>5, Keep

(***************************************************************************)
(* A coat recorded at O: the occupant was one coat behind, and dry if this  *)
(* is coat 2.                                                               *)
(***************************************************************************)
LEMMA StartWorkKeeps ==
  ASSUME IInv, TypeOK', NEW s, NEW dt \in 0 .. MaxDt, NEW k, StartWork(s, dt, k)
  PROVE  IInv'
<1> DEFINE q == occ["O"]
<1>1. /\ phase = "robot_work" /\ phase' = "await_guards"
      /\ q # 0 /\ coats[q] < WorkCoat(beat)
      /\ coats' = [coats EXCEPT ![q] = WorkCoat(beat)]
      /\ flash1' = BankedFlash1(s, dt) /\ flash2' = BankedFlash2(s, dt)
      /\ UNCHANGED <<beat, inflight, occ, declared, infed, shipped>>
  BY DEF StartWork, Ready, WorkDue, Goto, bookVars
<1>2. /\ Ph = "robot_work" /\ Ph' = "await_guards" /\ Shown = beat /\ Shown' = beat
  BY <1>1 DEF Ph, Shown
<1>3. /\ q \in Parts /\ coats \in [Parts -> 0 .. 2] /\ beat \in Beats
      /\ \A p \in Parts : /\ coats[p] \in 0 .. 2 /\ flash1[p] \in 0 .. FlashSeconds
                          /\ flash2[p] \in 0 .. FlashSeconds
      /\ \A st \in Tracked : occ[st] # 0 => occ[st] \in Parts
  BY <1>1 DEF IInv, TypeOK, Tracked
<1>4. /\ coats'[q] = WorkCoat(beat)
      /\ \A p \in Parts : p # q => coats'[p] = coats[p]
  BY <1>1, <1>3
<1>5. /\ coats[q] = WorkCoat(beat) - 1
      /\ beat \in {"P3", "P4"} => flash1[q] = FlashSeconds
  BY <1>1, <1>2, <1>3 DEF IInv, Picture, SlotCoats, WorkCoat, Tracked
<1>6. \A p \in Parts :
        /\ flash1'[p] = IF Flashing(p, s) /\ coats[p] <= 1
                        THEN Capped(flash1[p] + dt) ELSE flash1[p]
        /\ flash2'[p] = IF Flashing(p, s) /\ coats[p] > 1
                        THEN Capped(flash2[p] + dt) ELSE flash2[p]
        /\ Flashing(p, s) => coats[p] > 0
  BY <1>1 DEF BankedFlash1, BankedFlash2, Flashing
<1>7. \A p \in Parts : /\ flash1[p] = FlashSeconds => flash1'[p] = FlashSeconds
                       /\ flash2[p] = FlashSeconds => flash2'[p] = FlashSeconds
                       /\ coats[p] = 0 => flash1'[p] = flash1[p]
                       /\ coats[p] < 2 => flash2'[p] = flash2[p]
  BY <1>3, <1>6 DEF Capped
<1>8. inflight = {}
  BY <1>2 DEF IInv, Control
<1>9. Control'
  BY <1>1, <1>2, <1>8 DEF Control, Phases, FlashGuard
<1>10. Picture'
  <2>1. \A st \in Tracked : st # "O" /\ occ[st] # 0 => occ[st] # q
    BY <1>1 DEF IInv, NoPartLost, Tracked
  <2>2. coats'[q] \in SlotCoats(beat, "O") /\ Role(q) = SlotRole(beat, "O")
    BY <1>1, <1>2, <1>4 DEF IInv, Picture, SlotCoats, Tracked
  <2>3. \A st \in Tracked : occ[st] # 0 =>
          Role(occ[st]) = SlotRole(beat, st) /\ coats'[occ[st]] \in SlotCoats(beat, st)
    BY <1>2, <1>3, <1>4, <2>1, <2>2 DEF IInv, Picture, Tracked
  <2>4. beat \in {"P3", "P4"} => flash1'[q] = FlashSeconds
    <3>1. flash1[q] = FlashSeconds => flash1'[q] = FlashSeconds
      BY <1>3, <1>7
    <3>2. QED
      BY <1>5, <3>1
  <2>5. QED
    BY <1>1, <1>2, <1>4, <2>3, <2>4 DEF Picture
<1>11. Pairing'
  BY <1>1, <1>2 DEF IInv, Pairing
<1>12. NoPartLost'
  BY <1>1 DEF IInv, NoPartLost, OnLine
<1>13. Timers'
  <2> SUFFICES ASSUME NEW p \in Parts
               PROVE  /\ coats'[p] = 0 => flash1'[p] = 0
                      /\ coats'[p] < 2 => flash2'[p] = 0
                      /\ coats'[p] = 2 => flash1'[p] = FlashSeconds
                      /\ p > infed => coats'[p] = 0
                      /\ p \in shipped => coats'[p] = 2 /\ flash2'[p] = FlashSeconds
    BY <1>1 DEF Timers
  <2>1. q <= infed /\ q \notin shipped
    <3>1. q \in OnLine
      BY <1>1 DEF OnLine, Tracked
    <3>2. infed \in Nat
      BY DEF IInv, TypeOK
    <3>3. QED
      BY <3>1, <3>2 DEF IInv, NoPartLost
  <2>2. CASE p = q
    <3>1. beat \in {"P1", "P2"} => coats[p] = 0 /\ coats'[p] = 1
      BY <1>3, <1>4, <1>5, <2>2 DEF WorkCoat
    <3>2. beat \in {"P3", "P4"} => coats[p] = 1 /\ coats'[p] = 2
      BY <1>3, <1>4, <1>5, <2>2 DEF WorkCoat
    <3>3. infed \in Nat /\ p \in Nat
      BY DEF IInv, TypeOK, Parts
    <3>4. ~(p > infed) /\ p \notin shipped
      BY <2>1, <2>2, <3>3
    <3>5. coats[p] < 2 => flash2'[p] = 0
      BY <1>7 DEF IInv, Timers
    <3>6. beat \in {"P3", "P4"} => flash1'[p] = FlashSeconds
      BY <1>5, <1>7, <2>2
    <3>7. beat \in {"P1", "P2", "P3", "P4"}
      BY <1>3 DEF Beats
    <3>8. QED
      BY <3>1, <3>2, <3>4, <3>5, <3>6, <3>7
  <2>3. CASE p # q
    BY <1>4, <1>7, <2>3 DEF IInv, Timers
  <2>4. QED
    BY <2>2, <2>3
<1>14. QED
  BY <1>9, <1>10, <1>11, <1>12, <1>13 DEF IInv

-----------------------------------------------------------------------------
(***************************************************************************)
(* Every outcome of a dispatching tick keeps the invariant.                 *)
(***************************************************************************)
LEMMA DispatchKeeps ==
  ASSUME IInv, TypeOK', NEW s, NEW dt \in 0 .. MaxDt, NEW k, Dispatch(s, dt, k)
  PROVE  IInv'
<1>t. TypeOK
  BY DEF IInv
<1>d. ASSUME Bank(s, dt) PROVE Dries
  BY <1>t, <1>d, BankDries
<1>i. inflight # {} => Ph = "moving" /\ inflight = LiveMoves
  BY DEF IInv, Control
<1>f. ASSUME Bank(s, dt), EnterFault, phase # "faulted" PROVE IInv'
  <2>1. UNCHANGED <<beat, inflight, bookVars>> /\ Ph' = Ph
    BY <1>f DEF EnterFault, Ph
  <2>2. QED
    BY <1>d, <1>f, <2>1, Stay
<1>1. CASE MismatchFault(s, dt) \/ RoleFault(s, dt, k) \/ ArrivalFault(s, dt, k)
  BY <1>1, <1>f DEF MismatchFault, RoleFault, ArrivalFault, Ready, Sound
<1>2. CASE AwaitCompletions(s, dt, k) \/ Blocked(s, dt, k)
  <2>1. Bank(s, dt) /\ UNCHANGED <<beat, inflight, bookVars>> /\ Ph' = Ph
    BY <1>2 DEF AwaitCompletions, Blocked, Goto, Ph
  <2>2. QED
    BY <1>d, <2>1, Stay
<1>3. CASE SkipWork(s, dt, k)
  <2>1. /\ Bank(s, dt) /\ UNCHANGED <<beat, inflight, bookVars>>
        /\ Ph = "robot_work" /\ Ph' = "await_guards"
    BY <1>3 DEF SkipWork, Ready, Goto, Ph
  <2>2. occ["O"] # NoPart => coats[occ["O"]] = WorkCoat(beat)
    <3>1. ~WrongRole /\ ~WorkDue
      BY <1>3 DEF SkipWork
    <3>2. occ["O"] # NoPart => coats[occ["O"]] \in {WorkCoat(beat) - 1, WorkCoat(beat)}
      BY <2>1 DEF IInv, Picture, Shown, SlotCoats, Tracked
    <3>3. WorkCoat(beat) \in {1, 2}
      BY DEF WorkCoat
    <3>4. QED
      BY <3>1, <3>2, <3>3 DEF WrongRole, WorkDue
  <2>3. Shown' = Shown /\ Ph' \in Phases \ {"faulted"} /\ inflight' = {}
    BY <1>i, <2>1 DEF Shown, Phases
  <2>4. QED
    BY <1>d, <2>1, <2>2, <2>3, Keep
<1>4. CASE StartWork(s, dt, k)
  BY <1>4, StartWorkKeeps
<1>5. CASE \/ GuardsPass(s, dt, k)
           \/ CommandShutter(s, dt, k, "shutter_open", "moving")
           \/ Advance(s, dt, k)
  <2>1. /\ Bank(s, dt) /\ UNCHANGED <<beat, bookVars>>
        /\ Ph \in {"await_guards", "shutter_open", "moving"}
        /\ Ph' \in {"shutter_open", "moving"}
    BY <1>5 DEF GuardsPass, CommandShutter, Advance, Ready, Goto, Ph
  <2>2. /\ inflight' # {} => Ph' = "moving" /\ inflight' = LiveMoves
        /\ \A st \in inflight' \cap FanStations, p \in Parts :
             occ[st] = p => MayLeaveFan(p)'
    <3>1. CASE Advance(s, dt, k)
      BY <3>1 DEF Advance, Ready, Goto, Ph, ZoneMotionClear, DepartureClear
    <3>2. CASE GuardsPass(s, dt, k) \/ CommandShutter(s, dt, k, "shutter_open", "moving")
      <4>1. inflight' = {}
        BY <1>i, <3>2 DEF GuardsPass, CommandShutter, Ready, Ph
      <4>2. QED
        BY <4>1
    <3>3. QED
      BY <1>5, <3>1, <3>2
  <2>3. Shown' = Shown /\ Ph' \in Phases \ {"faulted"}
    BY <2>1 DEF Shown, Phases
  <2>4. occ["O"] # NoPart => coats[occ["O"]] = WorkCoat(beat)
    BY <2>1 DEF IInv, Picture
  <2>5. QED
    BY <1>d, <2>1, <2>2, <2>3, <2>4, Keep
<1>6. CASE NothingToMove(s, dt, k)
  <2>1. /\ Bank(s, dt) /\ UNCHANGED <<beat, inflight, occ, declared, infed, shipped>>
        /\ Ph = "moving" /\ Ph' = "shutter_close" /\ LiveMoves = {} /\ inflight = {}
    BY <1>6 DEF NothingToMove, Ready, Goto, Ph, bookVars
  <2>2. Moved({}) = occ /\ MovedInfed({}) = infed /\ MovedShipped({}) = shipped
    BY <1>t DEF Moved, MovedInfed, MovedShipped, Delivers, TypeOK
  <2>3. TrainShifted
    BY <2>1, <2>2 DEF TrainShifted, FlashGuard
  <2>4. QED
    BY <1>d, <2>1, <2>3, MoveKeeps
<1>7. CASE Arrive(s, dt, k)
  <2>1. /\ Bank(s, dt) /\ UNCHANGED <<beat, declared>> /\ inflight' = {}
        /\ Ph = "moving" /\ Ph' = "shutter_close" /\ inflight # {}
        /\ occ' = Moved(inflight) /\ infed' = MovedInfed(inflight)
        /\ shipped' = MovedShipped(inflight)
    BY <1>7 DEF Arrive, Ready, Goto, Ph
  <2>2. TrainShifted
    BY <1>i, <2>1 DEF TrainShifted, IInv, Control
  <2>3. QED
    BY <1>d, <2>1, <2>2, MoveKeeps
<1>8. CASE CommandShutter(s, dt, k, "shutter_close", "set_fans") \/ SetFans(s, dt, k)
  <2>1. /\ Bank(s, dt) /\ UNCHANGED bookVars /\ Shown' = Shown
        /\ Ph' \in {"set_fans", "robot_work"} /\ Ph # "moving" /\ inflight' = inflight
    BY <1>8 DEF CommandShutter, SetFans, Ready, Goto, Ph, Shown
  <2>2. inflight' = {}
    BY <1>i, <2>1
  <2>3. QED
    BY <1>d, <2>1, <2>2, Keep DEF Phases
<1>9. QED
  BY <1>1, <1>2, <1>3, <1>4, <1>5, <1>6, <1>7, <1>8 DEF Dispatch

(***************************************************************************)
(* A declaration that keeps the pairs whole.                                *)
(***************************************************************************)
LEMMA DeclareKeeps ==
  ASSUME IInv, TypeOK', NEW n \in Parts, SteadyDeclare(n)
  PROVE  IInv'
<1>1. /\ declared' = declared + n /\ n % 2 = 0
      /\ infed < declared \/ beat \in {"P1", "P2"}
      /\ UNCHANGED <<beat, phase, faultPhase, pending, inflight, occ, infed, shipped,
                     coats, flash1, flash2, wet>>
  BY DEF SteadyDeclare, Declare, ctlVars, partVars
<1>2. infed \in Nat /\ declared \in Nat /\ n \in Nat /\ n > 0 /\ infed <= declared
  BY DEF IInv, TypeOK, Parts
<1>3. Ph' = Ph /\ Shown' = Shown
  BY <1>1 DEF Ph, Shown
<1>4. LiveMoves' = LiveMoves
  <2>1. CASE infed < declared
    BY <1>1, <1>2, <2>1 DEF LiveMoves, Loaded
  <2>2. CASE beat \in {"P1", "P2"}
    <3>1. "IN" \notin Sources(beat)
      BY <2>2 DEF Sources, Feeder
    <3>2. QED
      BY <1>1, <3>1 DEF LiveMoves, Loaded
  <2>3. QED
    BY <1>1, <2>1, <2>2
<1>5. Control'
  BY <1>1, <1>3, <1>4
     DEF IInv, Control, FlashGuard, MayLeaveFan, FlashComplete, ActiveFlash
<1>6. Picture' /\ Timers' /\ NoPartLost'
  BY <1>1, <1>3 DEF IInv, Picture, Timers, NoPartLost, OnLine
<1>7. Pairing'
  <2>1. Shown = "P4" => infed % 2 = 1
    BY <1>1, <1>2 DEF IInv, Pairing, Shown, NextBeat
  <2>2. (declared + n) % 2 = 0
    BY <1>1, <1>2 DEF IInv, Pairing
  <2>3. QED
    BY <1>1, <1>3, <2>1, <2>2 DEF IInv, Pairing
<1>8. QED
  BY <1>5, <1>6, <1>7 DEF IInv

(***************************************************************************)
(* A recovery in which the operator confirms the belief or the whole move.  *)
(***************************************************************************)
LEMMA ResumeKeeps ==
  ASSUME IInv, TypeOK', NEW seen, SteadyResume(seen)
  PROVE  IInv'
<1>1. PICK c : /\ Resume(c, beat, seen)
               /\ c = occ \/ (faultPhase = "moving" /\ inflight # {} /\ c = Moved(inflight))
  BY DEF SteadyResume
<1>2. /\ phase = "faulted" /\ phase' = ReentryPhase(c) /\ phase' # "faulted"
      /\ beat' = beat /\ inflight' = {} /\ occ' = c
      /\ Ph = faultPhase /\ Ph' = ReentryPhase(c)
      /\ UNCHANGED <<declared, coats, flash1, flash2, wet>>
  BY <1>1 DEF Resume, ReentryPhase, Ph, partVars
<1>3. Dries
  BY <1>2, UnchangedDries DEF partVars
<1>4. CASE Crossed(c)
  <2>1. /\ Ph = "moving" /\ Ph' = "shutter_close" /\ inflight = LiveMoves
        /\ occ' = Moved(inflight) /\ infed' = MovedInfed(inflight)
        /\ shipped' = MovedShipped(inflight)
    BY <1>1, <1>2, <1>4 DEF Crossed, ReentryPhase, Resume, IInv, Control
  <2>2. TrainShifted
    BY <1>2, <2>1 DEF TrainShifted, IInv, Control
  <2>3. QED
    BY <1>3, <2>2, MoveKeeps
<1>5. CASE ~Crossed(c)
  <2>1. c = occ /\ UNCHANGED bookVars
    BY <1>1, <1>2, <1>5 DEF Crossed, Resume, bookVars
  <2>2. /\ Shown' = Shown
        /\ Ph' \in {"await_guards", "shutter_close", "robot_work"}
        /\ Ph' = "await_guards" => Ph = "moving"
    BY <1>2, <1>5 DEF ReentryPhase, Uncrossed, Shown, IInv, Control
  <2>3. Ph' = "await_guards" /\ occ["O"] # NoPart => coats[occ["O"]] = WorkCoat(beat)
    BY <2>2 DEF IInv, Picture
  <2>4. QED
    BY <1>2, <1>3, <2>1, <2>2, <2>3, Keep DEF Phases
<1>6. QED
  BY <1>4, <1>5

-----------------------------------------------------------------------------
(***************************************************************************)
(* One step of Steady: types, the wet tag and the pattern are kept.         *)
(***************************************************************************)
LEMMA SteadyTypeOK ==
  ASSUME TypeOK, [SteadyNext]_vars
  PROVE  TypeOK'
<1>1. CASE Step
  BY <1>1, StepTypeOK
<1>2. ASSUME NEW n \in Parts, SteadyDeclare(n) PROVE TypeOK'
  BY <1>2, DeclareTypeOK DEF SteadyDeclare
<1>3. ASSUME NEW seen \in SUBSET Tracked, SteadyResume(seen) PROVE TypeOK'
  <2>1. /\ occ \in [Tracked -> Parts \cup {NoPart}] /\ beat \in Beats
        /\ Moved(inflight) \in [Tracked -> Parts \cup {NoPart}]
    BY MovedType DEF TypeOK
  <2>2. QED
    BY <1>3, <2>1, ResumeTypeOK DEF SteadyResume
<1>4. CASE UNCHANGED vars
  BY <1>4 DEF vars, ctlVars, bookVars, partVars, TypeOK
<1>5. QED
  BY <1>1, <1>2, <1>3, <1>4 DEF SteadyNext

\* The wet tags stay true under the steps of Steady, which are steps of Machine.
LEMMA SteadyWetInv ==
  ASSUME TypeOK, WetInv, [SteadyNext]_vars
  PROVE  WetInv'
<1>1. CASE Step
  BY <1>1, NextWetInv DEF Next
<1>2. CASE UNCHANGED partVars
  BY <1>2 DEF partVars, WetInv, FreshTimers, WetMeansOwing, FlashComplete, ActiveFlash
<1>3. QED
  BY <1>1, <1>2 DEF SteadyNext, SteadyDeclare, SteadyResume, Declare, Resume, vars

\* Every step of Steady keeps the inductive invariant.
LEMMA NextKeeps ==
  ASSUME IInv, [SteadyNext]_vars
  PROVE  IInv'
<1>t. TypeOK /\ TypeOK'
  BY SteadyTypeOK DEF IInv
<1>b. ASSUME NEW s, NEW dt \in 0 .. MaxDt, Bank(s, dt), UNCHANGED <<beat, inflight, bookVars>>,
             Ph' = Ph
      PROVE  IInv'
  BY <1>t, <1>b, BankDries, Stay
<1>1. CASE Step
  <2>1. PICK s \in Readings, dt \in 0 .. MaxDt :
          IdleTick(s, dt) \/ \E k \in 0 .. pending, flt \in BOOLEAN : Tick(s, dt, k, flt)
    BY <1>1 DEF Step
  <2>2. CASE IdleTick(s, dt) \/ StayFaulted(s, dt) \/ ExternalFault(s, dt)
    <3>1. Bank(s, dt) /\ UNCHANGED <<beat, inflight, bookVars>> /\ Ph' = Ph
      BY <2>2 DEF IdleTick, StayFaulted, ExternalFault, EnterFault, Ph, ctlVars
    <3>2. QED
      BY <1>b, <3>1
  <2>3. CASE \E k \in 0 .. pending : Dispatch(s, dt, k)
    BY <1>t, <2>3, DispatchKeeps
  <2>4. QED
    BY <2>1, <2>2, <2>3 DEF Tick
<1>2. ASSUME NEW n \in Parts, SteadyDeclare(n) PROVE IInv'
  BY <1>2, <1>t, DeclareKeeps
<1>3. ASSUME NEW seen \in SUBSET Tracked, SteadyResume(seen) PROVE IInv'
  BY <1>3, <1>t, ResumeKeeps
<1>4. CASE UNCHANGED vars
  <2>1. UNCHANGED <<beat, inflight, bookVars>> /\ Ph' = Ph /\ UNCHANGED partVars
    BY <1>4 DEF vars, ctlVars, Ph
  <2>2. QED
    BY <1>t, <2>1, UnchangedDries, Stay
<1>5. QED
  BY <1>1, <1>2, <1>3, <1>4 DEF SteadyNext

\* The empty line satisfies the inductive invariant.
LEMMA InitKeeps == Init => IInv /\ WetInv
<1> SUFFICES ASSUME Init PROVE IInv /\ WetInv
  OBVIOUS
<1>1. TypeOK
  BY InitTypeOK
<1>2. Control /\ Picture /\ Pairing
  BY DEF Init, Control, Picture, Pairing, Ph, Shown, Phases, FlashGuard
<1>3. Timers /\ WetInv
  BY DEF Init, Timers, WetInv, FreshTimers, WetMeansOwing
<1>4. NoPartLost
  BY DEF Init, NoPartLost, OnLine
<1>5. QED
  BY <1>1, <1>2, <1>3, <1>4 DEF IInv

(***************************************************************************)
(* The four-beat pattern, and the tag, hold throughout Steady.              *)
(***************************************************************************)
THEOREM PatternKept == SteadySpec => [](IInv /\ WetInv)
<1>1. IInv /\ WetInv /\ [SteadyNext]_vars => (IInv /\ WetInv)'
  BY NextKeeps, SteadyWetInv DEF IInv
<1>2. QED
  BY InitKeeps, <1>1, PTL DEF SteadySpec

-----------------------------------------------------------------------------
(***************************************************************************)
(* No move overwrites, drops or duplicates a part, whatever faults and      *)
(* confirmations interrupt the train.                                       *)
(***************************************************************************)
THEOREM PartsAreKept == SteadySpec => []NoPartLost
<1>1. IInv => NoPartLost
  BY DEF IInv
<1>2. QED
  BY <1>1, PatternKept, PTL

(***************************************************************************)
(* Every outfed part has both coats, each with its full flash.              *)
(***************************************************************************)
THEOREM OutfedAreComplete == SteadySpec => []OutfedComplete
<1>1. IInv => OutfedComplete
  BY DEF IInv, TypeOK, Timers, OutfedComplete
<1>2. QED
  BY <1>1, PatternKept, PTL

(***************************************************************************)
(* Coat 2 only ever lands on a part whose first flash is complete.          *)
(***************************************************************************)
THEOREM CoatTwoIsSafe == SteadySpec => []CoatTwoOnDryCoatOne
<1>1. IInv => CoatTwoOnDryCoatOne
  BY DEF IInv, Timers, CoatTwoOnDryCoatOne
<1>2. QED
  BY <1>1, PatternKept, PTL

\* The part at O at a beat boundary is the one that is due.
LEMMA RolesAreRight == IInv => RoleAlwaysMatches
BY DEF IInv, Picture, RoleAlwaysMatches, WrongRole, SlotRole, Shown, Ph, Tracked

\* A wet part at a fan station stands in a beat that runs the fan.
LEMMA WetUnderFans == IInv /\ WetInv => WetPartsUnderFans
<1>1. ASSUME IInv, WetInv, phase = "robot_work", NEW st \in FanStations,
             occ[st] # NoPart, wet[occ[st]]
      PROVE  st \in FanOn(beat)
  <2>1. Shown = beat /\ beat \in Beats /\ occ[st] \in Parts /\ st \in Tracked
    BY <1>1 DEF Shown, Ph, IInv, TypeOK, FanStations, Tracked
  <2>2. coats[occ[st]] # 0 /\ coats[occ[st]] \in SlotCoats(beat, st)
    BY <1>1, <2>1 DEF IInv, Picture, WetInv, WetMeansOwing
  <2>3. QED
    BY <2>1, <2>2 DEF SlotCoats, FanOn, FanStations, Beats
<1>2. QED
  BY <1>1 DEF WetPartsUnderFans

(***************************************************************************)
(* The role check never fires when the pairs are whole.                     *)
(***************************************************************************)
THEOREM RolesMatch == SteadySpec => []RoleAlwaysMatches
BY RolesAreRight, PatternKept, PTL

(***************************************************************************)
(* No beat parks a wet part where its fan is off.                           *)
(***************************************************************************)
THEOREM WetPartsDry == SteadySpec => []WetPartsUnderFans
BY WetUnderFans, PatternKept, PTL

(***************************************************************************)
(* The belief never takes a part off a fan station while it owes flash      *)
(* time: the only such step completes a move the guards cleared, and the    *)
(* pattern leaves no part at a station the move fills but does not vacate.  *)
(***************************************************************************)
THEOREM DeparturesAreFlashed == SteadySpec => NoUnderFlashedDeparture
<1> DEFINE Departs == \A st \in FanStations :
                        phase = "moving" /\ occ[st] # NoPart /\ occ'[st] # occ[st]
                          => MayLeaveFan(occ[st])
<1>1. ASSUME IInv, [SteadyNext]_vars, NEW st \in FanStations,
             phase = "moving", occ[st] # NoPart, occ'[st] # occ[st]
      PROVE  MayLeaveFan(occ[st])
  <2>1. occ' = Moved(inflight) /\ inflight # {}
    BY <1>1
       DEF SteadyNext, Step, IdleTick, Tick, StayFaulted, ExternalFault, EnterFault, Dispatch,
           MismatchFault, AwaitCompletions, RoleFault, SkipWork, StartWork, GuardsPass,
           CommandShutter, NothingToMove, Advance, ArrivalFault, Arrive, SetFans, Blocked,
           SteadyDeclare, Declare, SteadyResume, Resume, Ready, vars, ctlVars, bookVars
  <2>2. inflight = LiveMoves /\ FlashGuard(inflight) /\ occ[st] \in Parts /\ beat \in Beats
    BY <1>1, <2>1 DEF IInv, Control, TypeOK, FanStations, Tracked
  <2>3. ~(beat = "P2" /\ st = "F1") /\ ~(beat = "P3" /\ st = "F2")
    BY <1>1 DEF IInv, Picture, Shown, Ph, SlotCoats, FanStations, Tracked
  <2>4. st \in LiveMoves
    BY <1>1, <2>2, <2>3 DEF LiveMoves, Sources, Loaded, Feeder, FanStations, Stations,
                            Tracked, Beats
  <2>5. QED
    BY <2>2, <2>4 DEF FlashGuard
<1>2. IInv /\ [SteadyNext]_vars => [Departs]_vars
  BY <1>1
<1>3. QED
  BY <1>2, PatternKept, PTL DEF SteadySpec, NoUnderFlashedDeparture
-----------------------------------------------------------------------------
(***************************************************************************)
(* No part passes another: the order in which parts stand on the line is an *)
(* inductive invariant on top of the pattern, and gives that they are       *)
(* outfed in the order they were declared.                                  *)
(***************************************************************************)
\* F2 lies downstream of O, and O of F1: who stands further down came earlier, and
\* whoever is outfed came before all of them.
InOrder ==
  /\ occ["F2"] # NoPart /\ occ["O"]  # NoPart => occ["F2"] < occ["O"]
  /\ occ["F2"] # NoPart /\ occ["F1"] # NoPart => occ["F2"] < occ["F1"]
  /\ occ["O"]  # NoPart /\ occ["F1"] # NoPart => occ["O"] < occ["F1"]
  /\ \A p \in shipped, st \in Tracked : occ[st] # NoPart => p < occ[st]

\* How many parts have left the line, if the rest stand on it in order.
Outfed ==
  IF occ["F2"] # NoPart THEN occ["F2"] - 1
  ELSE IF occ["O"] # NoPart THEN occ["O"] - 1
  ELSE IF occ["F1"] # NoPart THEN occ["F1"] - 1 ELSE infed

-----------------------------------------------------------------------------
\* The books change only by the whole move of the beat: on arrival, or when the operator
\* confirms it after a fault in mid-move.
LEMMA BooksMove ==
  ASSUME IInv, [SteadyNext]_vars
  PROVE  \/ UNCHANGED <<occ, infed, shipped>>
         \/ /\ Ph = "moving" /\ inflight = LiveMoves /\ UNCHANGED <<declared, coats>>
            /\ occ' = Moved(LiveMoves)
            /\ infed' = MovedInfed(LiveMoves) /\ shipped' = MovedShipped(LiveMoves)
<1>1. inflight # {} => Ph = "moving" /\ inflight = LiveMoves
  BY DEF IInv, Control
<1>2. CASE Step
  <2>1. PICK s \in Readings, dt \in 0 .. MaxDt :
          IdleTick(s, dt) \/ \E k \in 0 .. pending, flt \in BOOLEAN : Tick(s, dt, k, flt)
    BY <1>2 DEF Step
  <2>2. CASE \E k \in 0 .. pending : Arrive(s, dt, k)
    BY <1>1, <2>2 DEF Arrive, Bank
  <2>3. CASE ~\E k \in 0 .. pending : Arrive(s, dt, k)
    <3>1. UNCHANGED bookVars
      BY <2>1, <2>3
         DEF IdleTick, Tick, StayFaulted, ExternalFault, EnterFault, Dispatch, MismatchFault,
             AwaitCompletions, RoleFault, SkipWork, StartWork, GuardsPass, CommandShutter,
             NothingToMove, Advance, ArrivalFault, SetFans, Blocked
    <3> QED
      BY <3>1 DEF bookVars
  <2> QED
    BY <2>2, <2>3
<1>3. ASSUME NEW n \in Parts, SteadyDeclare(n)
      PROVE  UNCHANGED <<occ, infed, shipped>>
  BY <1>3 DEF SteadyDeclare, Declare
<1>4. ASSUME NEW seen \in SUBSET Tracked, SteadyResume(seen)
      PROVE  \/ UNCHANGED <<occ, infed, shipped>>
             \/ /\ Ph = "moving" /\ inflight = LiveMoves /\ UNCHANGED <<declared, coats>>
                /\ occ' = Moved(LiveMoves)
                /\ infed' = MovedInfed(LiveMoves) /\ shipped' = MovedShipped(LiveMoves)
  <2>1. PICK c : /\ Resume(c, beat, seen)
                 /\ c = occ \/ (faultPhase = "moving" /\ inflight # {} /\ c = Moved(inflight))
    BY <1>4 DEF SteadyResume
  <2>2. CASE Crossed(c)
    BY <1>1, <2>1, <2>2 DEF Crossed, Resume, partVars
  <2>3. CASE ~Crossed(c)
    BY <2>1, <2>3 DEF Crossed, Resume
  <2> QED
    BY <2>2, <2>3
<1>5. CASE UNCHANGED vars
  BY <1>5 DEF vars, bookVars
<1> QED
  BY <1>2, <1>3, <1>4, <1>5 DEF SteadyNext

\* The move of a beat keeps the order: downstream each part takes the place of the one
\* before it, upstream of the one behind it, and the newcomer stands last.
LEMMA MoveInOrder ==
  ASSUME IInv, InOrder, Ph = "moving", occ' = Moved(LiveMoves),
         infed' = MovedInfed(LiveMoves), shipped' = MovedShipped(LiveMoves)
  PROVE  InOrder'
<1> DEFINE a == occ["F1"]
           o == occ["O"]
           c == occ["F2"]
           a2 == occ'["F1"]
           o2 == occ'["O"]
           c2 == occ'["F2"]
<1>1. TypeOK /\ beat \in {"P1", "P2", "P3", "P4"}
  BY DEF IInv, TypeOK, Beats
<1>2. /\ a \in Parts \cup {0} /\ o \in Parts \cup {0} /\ c \in Parts \cup {0}
      /\ infed \in Nat /\ shipped \subseteq Parts
  BY DEF IInv, TypeOK, Tracked
<1>3. /\ beat = "P2" => a = 0
      /\ beat = "P3" => c = 0
  BY DEF IInv, Picture, Shown, SlotCoats, Tracked
<1>4. /\ a2 = IF beat = "P1" THEN 0 ELSE IF beat = "P2" THEN o
              ELSE IF infed < declared THEN infed + 1 ELSE 0
      /\ o2 = IF beat = "P2" THEN c ELSE a
      /\ c2 = IF beat = "P2" THEN 0 ELSE o
      /\ shipped' = IF beat \in {"P1", "P4"} /\ c # 0 THEN shipped \cup {c} ELSE shipped
  <2>1. CASE beat = "P1"
    BY <1>1, <2>1, Shift DEF Tracked
  <2>2. CASE beat = "P2"
    BY <1>1, <1>3, <2>2, Shift DEF Tracked
  <2>3. CASE beat \in {"P3", "P4"}
    BY <1>1, <1>3, <2>3, Shift DEF Tracked
  <2> QED
    BY <1>1, <2>1, <2>2, <2>3
<1>5. /\ a # 0 => a <= infed
      /\ o # 0 => o <= infed
      /\ c # 0 => c <= infed
      /\ \A p \in shipped : p <= infed
  <2>1. OnLine = {a, o, c} \ {0}
    BY DEF OnLine, Tracked
  <2>2. 1 .. infed = OnLine \cup shipped
    BY DEF IInv, NoPartLost
  <2> QED
    BY <1>2, <2>1, <2>2
<1>6. /\ c # 0 /\ o # 0 => c < o
      /\ c # 0 /\ a # 0 => c < a
      /\ o # 0 /\ a # 0 => o < a
      /\ \A p \in shipped : (c # 0 => p < c) /\ (o # 0 => p < o) /\ (a # 0 => p < a)
  BY DEF InOrder, Tracked
<1> HIDE DEF a, o, c
<1>7. /\ c2 # 0 /\ o2 # 0 => c2 < o2
      /\ c2 # 0 /\ a2 # 0 => c2 < a2
      /\ o2 # 0 /\ a2 # 0 => o2 < a2
  BY <1>1, <1>2, <1>3, <1>4, <1>5, <1>6 DEF Parts
<1>8. ASSUME NEW p \in shipped'
      PROVE  (c2 # 0 => p < c2) /\ (o2 # 0 => p < o2) /\ (a2 # 0 => p < a2)
  <2>1. p \in shipped \/ (beat \in {"P1", "P4"} /\ c # 0 /\ p = c)
    BY <1>4, <1>8
  <2>2. CASE p \in shipped
    BY <1>1, <1>2, <1>3, <1>4, <1>5, <1>6, <2>2 DEF Parts
  <2>3. CASE beat \in {"P1", "P4"} /\ c # 0 /\ p = c
    BY <1>1, <1>2, <1>3, <1>4, <1>5, <1>6, <2>3 DEF Parts
  <2> QED
    BY <2>1, <2>2, <2>3
<1> QED
  BY <1>7, <1>8 DEF InOrder, Tracked

\* Every step keeps the order.
LEMMA StepInOrder == IInv /\ InOrder /\ [SteadyNext]_vars => InOrder'
<1> SUFFICES ASSUME IInv, InOrder, [SteadyNext]_vars PROVE InOrder'
  OBVIOUS
<1>1. CASE UNCHANGED <<occ, infed, shipped>>
  BY <1>1 DEF InOrder
<1> QED
  BY <1>1, BooksMove, MoveInOrder

\* In order, the outfed parts are an initial segment of those that ever entered.
LEMMA OutfedIsSegment ==
  ASSUME IInv, InOrder
  PROVE  Outfed \in Nat /\ shipped = 1 .. Outfed
<1> DEFINE a == occ["F1"]
           o == occ["O"]
           c == occ["F2"]
<1>1. /\ a \in Parts \cup {0} /\ o \in Parts \cup {0} /\ c \in Parts \cup {0}
      /\ infed \in Nat
  BY DEF IInv, TypeOK, Tracked
<1>2. /\ 1 .. infed = OnLine \cup shipped /\ OnLine \cap shipped = {}
      /\ OnLine = {a, o, c} \ {0}
  BY DEF IInv, NoPartLost, OnLine, Tracked
<1>3. /\ c # 0 /\ o # 0 => c < o
      /\ c # 0 /\ a # 0 => c < a
      /\ o # 0 /\ a # 0 => o < a
      /\ \A p \in shipped : (c # 0 => p < c) /\ (o # 0 => p < o) /\ (a # 0 => p < a)
  BY DEF InOrder, Tracked
<1>4. Outfed = IF c # 0 THEN c - 1 ELSE IF o # 0 THEN o - 1 ELSE IF a # 0 THEN a - 1 ELSE infed
  BY DEF Outfed
<1> HIDE DEF a, o, c
<1>5. Outfed \in Nat
  BY <1>1, <1>4 DEF Parts
<1>6. ASSUME NEW p \in shipped
      PROVE  p \in 1 .. Outfed
  BY <1>1, <1>2, <1>3, <1>4 DEF Parts
<1>7. ASSUME NEW p \in 1 .. Outfed
      PROVE  p \in shipped
  <2>1. p \in Nat /\ p >= 1 /\ p <= infed
    <3>1. \A q \in {a, o, c} \ {0} : q <= infed
      BY <1>1, <1>2
    <3> QED
      BY <1>1, <1>4, <3>1 DEF Parts
  <2>2. p \notin {a, o, c}
    BY <1>1, <1>3, <1>4, <2>1 DEF Parts
  <2> QED
    BY <1>1, <1>2, <2>1, <2>2
<1> QED
  BY <1>5, <1>6, <1>7

-----------------------------------------------------------------------------
(***************************************************************************)
(* No part passes another (core/model.py PartRole): through faults and      *)
(* recoveries, fill and drain, parts are outfed in the order they were      *)
(* declared.                                                                *)
(***************************************************************************)
THEOREM OutfedInOrder == SteadySpec => []ShippedInOrder
<1>1. Init => InOrder
  BY DEF Init, InOrder, Tracked
<1>2. IInv /\ InOrder => ShippedInOrder
  <2> SUFFICES ASSUME IInv, InOrder PROVE ShippedInOrder
    OBVIOUS
  <2>1. Outfed \in Nat /\ shipped = 1 .. Outfed
    BY OutfedIsSegment
  <2>2. Cardinality(1 .. Outfed) = IF 1 > Outfed THEN 0 ELSE Outfed - 1 + 1
    BY <2>1, FS_Interval
  <2>3. Cardinality(1 .. Outfed) = Outfed
    BY <2>1, <2>2
  <2> QED
    BY <2>1, <2>3 DEF ShippedInOrder
<1> QED
  BY <1>1, <1>2, StepInOrder, PatternKept, PTL DEF SteadySpec

-----------------------------------------------------------------------------
(***************************************************************************)
(* The ordered loops of TransferWalk.                                       *)
(***************************************************************************)
LEMMA Listing == beat \in Beats => Len(Transitions(beat)) \in {2, 3, 4}
BY DEF Beats, Transitions

\* What a recursive function of at most four turns says at each turn.
LEMMA TurnsRead ==
  ASSUME NEW L \in {2, 3, 4}, NEW w, NEW a, NEW t,
         w = [n \in 0 .. L |-> IF n = 0 THEN a ELSE t[n]]
  PROVE  w[0] = a /\ \A n \in 1 .. L : w[n] = t[n]
OBVIOUS

LEMMA GuardUnrolled ==
  ASSUME beat \in Beats, NEW m, NEW seen
  PROVE  /\ GuardTurns(m, seen)[0] = [free |-> TRUE, occupied |-> seen]
         /\ GuardTurns(m, seen)[1] = GuardTurn(m, GuardTurns(m, seen)[0], 1)
         /\ GuardTurns(m, seen)[2] = GuardTurn(m, GuardTurns(m, seen)[1], 2)
         /\ Len(Transitions(beat)) # 2 => GuardTurns(m, seen)[3] = GuardTurn(m, GuardTurns(m, seen)[2], 3)
         /\ Len(Transitions(beat)) = 4 => GuardTurns(m, seen)[4] = GuardTurn(m, GuardTurns(m, seen)[3], 4)
<1> DEFINE IsWalk(w) == w = [n \in 0 .. Len(Transitions(beat)) |->
                               IF n = 0 THEN [free |-> TRUE, occupied |-> seen]
                               ELSE GuardTurn(m, w[n - 1], n)]
<1>0. PICK L : L = Len(Transitions(beat))
  OBVIOUS
<1>1. L \in {2, 3, 4}
  BY Listing, <1>0
<1>2. GuardTurns(m, seen) = CHOOSE w : IsWalk(w)
  BY DEF GuardTurns
<1>3. \E g : IsWalk(g)
  <2>0. PICK a0 : a0 = [free |-> TRUE, occupied |-> seen]
    OBVIOUS
  <2>1. PICK a1 : a1 = GuardTurn(m, a0, 1)
    OBVIOUS
  <2>2. PICK a2 : a2 = GuardTurn(m, a1, 2)
    OBVIOUS
  <2>3. PICK a3 : a3 = GuardTurn(m, a2, 3)
    OBVIOUS
  <2>4. PICK a4 : a4 = GuardTurn(m, a3, 4)
    OBVIOUS
  <2>5. PICK g : g = [n \in 0 .. L |-> IF n = 0 THEN a0 ELSE IF n = 1 THEN a1 ELSE IF n = 2 THEN a2
                                       ELSE IF n = 3 THEN a3 ELSE a4]
    OBVIOUS
  <2>6. \A n \in 0 .. L : n # 0 => n \in {1, 2, 3, 4}
    BY <1>1
  <2>7. g[0] = a0
    BY <1>1, <2>5
  <2>8. \A n \in 0 .. L : n # 0 => g[n] = GuardTurn(m, g[n - 1], n)
    <3> SUFFICES ASSUME NEW n \in 0 .. L, n # 0
                 PROVE  g[n] = GuardTurn(m, g[n - 1], n)
      OBVIOUS
    <3>1. CASE n = 1
      <4>1. g[n] = a1 /\ g[n - 1] = a0
        BY <1>1, <2>5, <3>1
      <4> QED
        BY <4>1, <3>1, <2>1
    <3>2. CASE n = 2
      <4>1. g[n] = a2 /\ g[n - 1] = a1
        BY <1>1, <2>5, <3>2
      <4> QED
        BY <4>1, <3>2, <2>2
    <3>3. CASE n = 3
      <4>1. g[n] = a3 /\ g[n - 1] = a2
        BY <1>1, <2>5, <3>3
      <4> QED
        BY <4>1, <3>3, <2>3
    <3>4. CASE n = 4
      <4>1. g[n] = a4 /\ g[n - 1] = a3
        BY <1>1, <2>5, <3>4
      <4> QED
        BY <4>1, <3>4, <2>4
    <3> QED
      BY <2>6, <3>1, <3>2, <3>3, <3>4
  <2>9. g = [n \in 0 .. L |-> g[n]]
    BY <2>5
  <2>10. g = [n \in 0 .. L |-> IF n = 0 THEN [free |-> TRUE, occupied |-> seen]
                               ELSE GuardTurn(m, g[n - 1], n)]
    BY <2>0, <2>7, <2>8, <2>9
  <2> QED
    BY <1>0, <2>10
<1>4. IsWalk(GuardTurns(m, seen))
  BY <1>2, <1>3
<1>5. PICK w : w = GuardTurns(m, seen)
  OBVIOUS
<1>6. w = [n \in 0 .. L |-> IF n = 0 THEN [free |-> TRUE, occupied |-> seen]
                            ELSE GuardTurn(m, w[n - 1], n)]
  BY <1>0, <1>4, <1>5
<1>7. 0 \in 0 .. L /\ \A n \in 1 .. L : n \in 0 .. L /\ n # 0
  BY <1>1
<1>8. w[0] = [free |-> TRUE, occupied |-> seen]
  BY <1>6, <1>7
<1>9. \A n \in 1 .. L : w[n] = GuardTurn(m, w[n - 1], n)
  BY <1>6, <1>7
<1>10. \A n \in 1 .. L : \A k : k = n - 1 => w[n] = GuardTurn(m, w[k], n)
  BY <1>9
<1>11. /\ 1 \in 1 .. L /\ 0 = 1 - 1 /\ 2 \in 1 .. L /\ 1 = 2 - 1
       /\ L # 2 => 3 \in 1 .. L /\ 2 = 3 - 1
       /\ L = 4 => 4 \in 1 .. L /\ 3 = 4 - 1
  BY <1>1
<1>12. /\ w[1] = GuardTurn(m, w[0], 1) /\ w[2] = GuardTurn(m, w[1], 2)
       /\ L # 2 => w[3] = GuardTurn(m, w[2], 3)
       /\ L = 4 => w[4] = GuardTurn(m, w[3], 4)
  BY <1>10, <1>11
<1> QED
  BY <1>0, <1>5, <1>8, <1>12

LEMMA ApplyUnrolled ==
  ASSUME beat \in Beats, NEW m
  PROVE  /\ ApplyTurns(m)[0] = [infed |-> infed, books |-> occ, outfed |-> shipped]
         /\ ApplyTurns(m)[1] = ApplyTurn(m, ApplyTurns(m)[0], 1)
         /\ ApplyTurns(m)[2] = ApplyTurn(m, ApplyTurns(m)[1], 2)
         /\ Len(Transitions(beat)) # 2 => ApplyTurns(m)[3] = ApplyTurn(m, ApplyTurns(m)[2], 3)
         /\ Len(Transitions(beat)) = 4 => ApplyTurns(m)[4] = ApplyTurn(m, ApplyTurns(m)[3], 4)
<1> DEFINE IsWalk(w) == w = [n \in 0 .. Len(Transitions(beat)) |->
                               IF n = 0 THEN [infed |-> infed, books |-> occ, outfed |-> shipped]
                               ELSE ApplyTurn(m, w[n - 1], n)]
<1>0. PICK L : L = Len(Transitions(beat))
  OBVIOUS
<1>1. L \in {2, 3, 4}
  BY Listing, <1>0
<1>2. ApplyTurns(m) = CHOOSE w : IsWalk(w)
  BY DEF ApplyTurns
<1>3. \E g : IsWalk(g)
  <2>0. PICK a0 : a0 = [infed |-> infed, books |-> occ, outfed |-> shipped]
    OBVIOUS
  <2>1. PICK a1 : a1 = ApplyTurn(m, a0, 1)
    OBVIOUS
  <2>2. PICK a2 : a2 = ApplyTurn(m, a1, 2)
    OBVIOUS
  <2>3. PICK a3 : a3 = ApplyTurn(m, a2, 3)
    OBVIOUS
  <2>4. PICK a4 : a4 = ApplyTurn(m, a3, 4)
    OBVIOUS
  <2>5. PICK g : g = [n \in 0 .. L |-> IF n = 0 THEN a0 ELSE IF n = 1 THEN a1 ELSE IF n = 2 THEN a2
                                       ELSE IF n = 3 THEN a3 ELSE a4]
    OBVIOUS
  <2>6. \A n \in 0 .. L : n # 0 => n \in {1, 2, 3, 4}
    BY <1>1
  <2>7. g[0] = a0
    BY <1>1, <2>5
  <2>8. \A n \in 0 .. L : n # 0 => g[n] = ApplyTurn(m, g[n - 1], n)
    <3> SUFFICES ASSUME NEW n \in 0 .. L, n # 0
                 PROVE  g[n] = ApplyTurn(m, g[n - 1], n)
      OBVIOUS
    <3>1. CASE n = 1
      <4>1. g[n] = a1 /\ g[n - 1] = a0
        BY <1>1, <2>5, <3>1
      <4> QED
        BY <4>1, <3>1, <2>1
    <3>2. CASE n = 2
      <4>1. g[n] = a2 /\ g[n - 1] = a1
        BY <1>1, <2>5, <3>2
      <4> QED
        BY <4>1, <3>2, <2>2
    <3>3. CASE n = 3
      <4>1. g[n] = a3 /\ g[n - 1] = a2
        BY <1>1, <2>5, <3>3
      <4> QED
        BY <4>1, <3>3, <2>3
    <3>4. CASE n = 4
      <4>1. g[n] = a4 /\ g[n - 1] = a3
        BY <1>1, <2>5, <3>4
      <4> QED
        BY <4>1, <3>4, <2>4
    <3> QED
      BY <2>6, <3>1, <3>2, <3>3, <3>4
  <2>9. g = [n \in 0 .. L |-> g[n]]
    BY <2>5
  <2>10. g = [n \in 0 .. L |-> IF n = 0 THEN [infed |-> infed, books |-> occ, outfed |-> shipped]
                               ELSE ApplyTurn(m, g[n - 1], n)]
    BY <2>0, <2>7, <2>8, <2>9
  <2> QED
    BY <1>0, <2>10
<1>4. IsWalk(ApplyTurns(m))
  BY <1>2, <1>3
<1>5. PICK w : w = ApplyTurns(m)
  OBVIOUS
<1>6. w = [n \in 0 .. L |-> IF n = 0 THEN [infed |-> infed, books |-> occ, outfed |-> shipped]
                            ELSE ApplyTurn(m, w[n - 1], n)]
  BY <1>0, <1>4, <1>5
<1>7. 0 \in 0 .. L /\ \A n \in 1 .. L : n \in 0 .. L /\ n # 0
  BY <1>1
<1>8. w[0] = [infed |-> infed, books |-> occ, outfed |-> shipped]
  BY <1>6, <1>7
<1>9. \A n \in 1 .. L : w[n] = ApplyTurn(m, w[n - 1], n)
  BY <1>6, <1>7
<1>10. \A n \in 1 .. L : \A k : k = n - 1 => w[n] = ApplyTurn(m, w[k], n)
  BY <1>9
<1>11. /\ 1 \in 1 .. L /\ 0 = 1 - 1 /\ 2 \in 1 .. L /\ 1 = 2 - 1
       /\ L # 2 => 3 \in 1 .. L /\ 2 = 3 - 1
       /\ L = 4 => 4 \in 1 .. L /\ 3 = 4 - 1
  BY <1>1
<1>12. /\ w[1] = ApplyTurn(m, w[0], 1) /\ w[2] = ApplyTurn(m, w[1], 2)
       /\ L # 2 => w[3] = ApplyTurn(m, w[2], 3)
       /\ L = 4 => w[4] = ApplyTurn(m, w[3], 4)
  BY <1>10, <1>11
<1> QED
  BY <1>0, <1>5, <1>8, <1>12


-----------------------------------------------------------------------------
\* What one turn of the guard's loop does for the move from s to d.
GuardStep(m, s, d, w, v) ==
  /\ v.free \in BOOLEAN
  /\ v.free <=> w.free /\ (s \in m /\ d # "OUT" => d \notin w.occupied \/ d = s)
  /\ \A x : x \in v.occupied <=> IF s \in m THEN (x \in w.occupied /\ x # s) \/ (x = d /\ d # "OUT")
                                 ELSE x \in w.occupied

LEMMA GuardTurnIs ==
  ASSUME NEW m, NEW n, NEW s, NEW d, Move(n) = <<s, d>>, NEW w, w.free \in BOOLEAN
  PROVE  GuardStep(m, s, d, w, GuardTurn(m, w, n))
<1>1. CASE s \in m
  <2>1. PICK free \in BOOLEAN : free <=> w.free /\ (d = "OUT" \/ d \notin w.occupied \ {s})
    OBVIOUS
  <2>2. PICK full : full = (w.occupied \ {s}) \cup ({d} \ {"OUT"})
    OBVIOUS
  <2>3. free = (w.free /\ (d = "OUT" \/ d \notin w.occupied \ {s}))
    BY <2>1
  <2>4. GuardTurn(m, w, n) = [free |-> free, occupied |-> full]
    BY <1>1, <2>2, <2>3 DEF GuardTurn, Listed
  <2>5. GuardTurn(m, w, n).free = free /\ GuardTurn(m, w, n).occupied = full
    BY <2>4
  <2>6. free <=> w.free /\ (d # "OUT" => d \notin w.occupied \/ d = s)
    BY <2>1
  <2>7. \A x : x \in full <=> (x \in w.occupied /\ x # s) \/ (x = d /\ d # "OUT")
    BY <2>2
  <2> QED
    BY <1>1, <2>1, <2>5, <2>6, <2>7 DEF GuardStep
<1>2. CASE s \notin m
  <2>1. GuardTurn(m, w, n) = w
    BY <1>2 DEF GuardTurn, Listed
  <2> QED
    BY <1>2, <2>1 DEF GuardStep
<1> QED
  BY <1>1, <1>2

\* What one turn of _apply_moves does for the move from s to d.
Entry(w) == [infed |-> w.infed, books |-> w.books, outfed |-> w.outfed]

IsEntry(w) == w = Entry(w) /\ w.books \in [Tracked -> Nat] /\ w.infed \in Nat

ApplyStep(m, s, d, w, v) ==
  /\ s \notin m => v = w
  /\ s \in m =>
       /\ v.infed = IF s = "IN" /\ Popped(w, s) # NoPart THEN Popped(w, s) ELSE w.infed
       /\ v.outfed = IF Popped(w, s) # NoPart /\ d = "OUT" THEN w.outfed \cup {Popped(w, s)} ELSE w.outfed
       /\ \A x \in Tracked : v.books[x] = IF x = d /\ Popped(w, s) # NoPart THEN Popped(w, s)
                                          ELSE IF x = s THEN NoPart ELSE w.books[x]

LEMMA ApplyTurnIs ==
  ASSUME NEW m, NEW n, NEW s \in Stations \ {"OUT"}, NEW d \in Stations \ {"IN"}, s # d,
         Move(n) = <<s, d>>, NEW w, IsEntry(w)
  PROVE  IsEntry(ApplyTurn(m, w, n)) /\ ApplyStep(m, s, d, w, ApplyTurn(m, w, n))
<1>1. CASE s \notin m
  <2>1. ApplyTurn(m, w, n) = w
    BY <1>1 DEF ApplyTurn, Listed
  <2> QED
    BY <1>1, <2>1 DEF IsEntry, ApplyStep
<1>2. CASE s \in m
  <2>1. PICK part : part = Popped(w, s)
    OBVIOUS
  <2>2. part \in Nat
    BY <2>1, MachineAssumption DEF IsEntry, Popped, NoPart, Stations, Tracked
  <2>3. PICK left : left = IF s = "IN" THEN w.books ELSE [w.books EXCEPT ![s] = NoPart]
    OBVIOUS
  <2>4. left \in [Tracked -> Nat] /\ \A x \in Tracked : left[x] = IF x = s THEN NoPart ELSE w.books[x]
    BY <2>3 DEF IsEntry, NoPart, Stations, Tracked
  <2>5. PICK books : books = IF part # NoPart /\ d # "OUT" THEN [left EXCEPT ![d] = part] ELSE left
    OBVIOUS
  <2>6. /\ books \in [Tracked -> Nat]
        /\ \A x \in Tracked : books[x] = IF x = d /\ part # NoPart THEN part ELSE left[x]
    BY <2>2, <2>4, <2>5 DEF NoPart, Stations, Tracked
  <2>7. ApplyTurn(m, w, n) =
          [infed |-> IF s = "IN" /\ part # NoPart THEN part ELSE w.infed,
           books |-> books,
           outfed |-> IF part # NoPart /\ d = "OUT" THEN w.outfed \cup {part} ELSE w.outfed]
    BY <1>2, <2>1, <2>3, <2>5 DEF ApplyTurn, Listed
  <2> QED
    BY <1>2, <2>1, <2>2, <2>4, <2>6, <2>7 DEF Entry, IsEntry, ApplyStep
<1> QED
  BY <1>1, <1>2

-----------------------------------------------------------------------------
LEMMA MovesListed ==
  /\ beat = "P1" => /\ Len(Transitions(beat)) = 3
                    /\ Move(1) = <<"F2", "OUT">> /\ Move(2) = <<"O", "F2">> /\ Move(3) = <<"F1", "O">>
  /\ beat = "P2" => /\ Len(Transitions(beat)) = 2
                    /\ Move(1) = <<"O", "F1">> /\ Move(2) = <<"F2", "O">>
  /\ beat = "P3" => /\ Len(Transitions(beat)) = 3
                    /\ Move(1) = <<"O", "F2">> /\ Move(2) = <<"F1", "O">> /\ Move(3) = <<"IN", "F1">>
  /\ beat = "P4" => /\ Len(Transitions(beat)) = 4
                    /\ Move(1) = <<"F2", "OUT">> /\ Move(2) = <<"O", "F2">> /\ Move(3) = <<"F1", "O">>
                    /\ Move(4) = <<"IN", "F1">>
<1>1. CASE beat = "P1"
  BY <1>1 DEF Move, Transitions
<1>2. CASE beat = "P2"
  BY <1>2 DEF Move, Transitions
<1>3. CASE beat = "P3"
  BY <1>3 DEF Move, Transitions
<1>4. CASE beat = "P4"
  BY <1>4 DEF Move, Transitions
<1> QED
  BY <1>1, <1>2, <1>3, <1>4

LEMMA SourcesAre ==
  /\ beat = "P1" => Sources(beat) = {"F1", "O", "F2"}
  /\ beat = "P2" => Sources(beat) = {"O", "F2"}
  /\ beat = "P3" => Sources(beat) = {"IN", "F1", "O"}
  /\ beat = "P4" => Sources(beat) = {"IN", "F1", "O", "F2"}
<1>1. \A x : x \in Sources(beat) <=> x # "none" /\ \E d \in {"F1", "O", "F2", "IN", "OUT"} :
                                                        x = Feeder(beat, d)
  BY DEF Sources, Stations, Tracked
<1> QED
  BY <1>1 DEF Feeder

\* The walk with its working set finds every destination free exactly when the set view does.
LEMMA GuardAgrees ==
  ASSUME beat \in Beats, NEW m \in SUBSET Sources(beat), NEW seen \in SUBSET Tracked
  PROVE  GuardWalk(m, seen).free <=> DestinationsFree(m, [occupied |-> seen])
<1>0. PICK w : w = GuardTurns(m, seen)
  OBVIOUS
<1>1. GuardWalk(m, seen) = w[Len(Transitions(beat))]
  BY <1>0 DEF GuardWalk
<1>a. /\ w[0] = [free |-> TRUE, occupied |-> seen]
      /\ w[1] = GuardTurn(m, w[0], 1) /\ w[2] = GuardTurn(m, w[1], 2)
      /\ Len(Transitions(beat)) # 2 => w[3] = GuardTurn(m, w[2], 3)
      /\ Len(Transitions(beat)) = 4 => w[4] = GuardTurn(m, w[3], 4)
  BY <1>0, GuardUnrolled
<1>b. w[1] = GuardTurn(m, w[0], 1)
  BY <1>a
<1>c. w[0].free \in BOOLEAN
  BY <1>a
<1>2. /\ w[2] = GuardTurn(m, w[1], 2)
      /\ Len(Transitions(beat)) # 2 => w[3] = GuardTurn(m, w[2], 3)
      /\ Len(Transitions(beat)) = 4 => w[4] = GuardTurn(m, w[3], 4)
  BY <1>a
<1>3. w[0].free /\ w[0].occupied = seen
  BY <1>a
<1>4. DestinationsFree(m, [occupied |-> seen])
        <=> /\ Feeder(beat, "F1") \in m => "F1" \notin seen \/ "F1" \in m
            /\ Feeder(beat, "O") \in m => "O" \notin seen \/ "O" \in m
            /\ Feeder(beat, "F2") \in m => "F2" \notin seen \/ "F2" \in m
  BY DEF DestinationsFree, Tracked
<1>5. CASE beat = "P1"
  <2>1. GuardStep(m, "F2", "OUT", w[0], w[1])
    BY <1>b, <1>c, <1>5, MovesListed, GuardTurnIs
  <2>2. w[1].free \in BOOLEAN
    BY <2>1 DEF GuardStep
  <2>3. GuardStep(m, "O", "F2", w[1], w[2])
    BY <1>2, <2>2, <1>5, MovesListed, GuardTurnIs
  <2>4. w[2].free \in BOOLEAN
    BY <2>3 DEF GuardStep
  <2>5. GuardStep(m, "F1", "O", w[2], w[3])
    BY <1>2, <2>4, <1>5, MovesListed, GuardTurnIs
  <2>6. GuardWalk(m, seen) = w[3]
    BY <1>1, <1>5, MovesListed
  <2>7. m \subseteq {"F1", "O", "F2"}
    BY <1>5, SourcesAre
  <2> QED
    BY <1>3, <1>4, <1>5, <2>1, <2>3, <2>5, <2>6, <2>7 DEF GuardStep, Feeder
<1>6. CASE beat = "P2"
  <2>1. GuardStep(m, "O", "F1", w[0], w[1])
    BY <1>b, <1>c, <1>6, MovesListed, GuardTurnIs
  <2>2. w[1].free \in BOOLEAN
    BY <2>1 DEF GuardStep
  <2>3. GuardStep(m, "F2", "O", w[1], w[2])
    BY <1>2, <2>2, <1>6, MovesListed, GuardTurnIs
  <2>4. GuardWalk(m, seen) = w[2]
    BY <1>1, <1>6, MovesListed
  <2>5. m \subseteq {"O", "F2"}
    BY <1>6, SourcesAre
  <2> QED
    BY <1>3, <1>4, <1>6, <2>1, <2>3, <2>4, <2>5 DEF GuardStep, Feeder
<1>7. CASE beat = "P3"
  <2>1. GuardStep(m, "O", "F2", w[0], w[1])
    BY <1>b, <1>c, <1>7, MovesListed, GuardTurnIs
  <2>2. w[1].free \in BOOLEAN
    BY <2>1 DEF GuardStep
  <2>3. GuardStep(m, "F1", "O", w[1], w[2])
    BY <1>2, <2>2, <1>7, MovesListed, GuardTurnIs
  <2>4. w[2].free \in BOOLEAN
    BY <2>3 DEF GuardStep
  <2>5. GuardStep(m, "IN", "F1", w[2], w[3])
    BY <1>2, <2>4, <1>7, MovesListed, GuardTurnIs
  <2>6. GuardWalk(m, seen) = w[3]
    BY <1>1, <1>7, MovesListed
  <2>7. m \subseteq {"IN", "F1", "O"}
    BY <1>7, SourcesAre
  <2> QED
    BY <1>3, <1>4, <1>7, <2>1, <2>3, <2>5, <2>6, <2>7 DEF GuardStep, Feeder
<1>8. CASE beat = "P4"
  <2>1. GuardStep(m, "F2", "OUT", w[0], w[1])
    BY <1>b, <1>c, <1>8, MovesListed, GuardTurnIs
  <2>2. w[1].free \in BOOLEAN
    BY <2>1 DEF GuardStep
  <2>3. GuardStep(m, "O", "F2", w[1], w[2])
    BY <1>2, <2>2, <1>8, MovesListed, GuardTurnIs
  <2>4. w[2].free \in BOOLEAN
    BY <2>3 DEF GuardStep
  <2>5. GuardStep(m, "F1", "O", w[2], w[3])
    BY <1>2, <2>4, <1>8, MovesListed, GuardTurnIs
  <2>6. w[3].free \in BOOLEAN
    BY <2>5 DEF GuardStep
  <2>7. GuardStep(m, "IN", "F1", w[3], w[4])
    BY <1>2, <2>6, <1>8, MovesListed, GuardTurnIs
  <2>8. GuardWalk(m, seen) = w[4]
    BY <1>1, <1>8, MovesListed
  <2>9. m \subseteq {"IN", "F1", "O", "F2"}
    BY <1>8, SourcesAre
  <2> QED
    BY <1>3, <1>4, <1>8, <2>1, <2>3, <2>5, <2>7, <2>8, <2>9 DEF GuardStep, Feeder
<1> QED
  BY <1>5, <1>6, <1>7, <1>8 DEF Beats


\* Moving the occupants one at a time gives the books of moving them all at once.
LEMMA ApplyAgrees ==
  ASSUME TypeOK, NEW m \in SUBSET Sources(beat)
  PROVE  ApplyWalk(m) = [infed |-> MovedInfed(m), books |-> Moved(m), outfed |-> MovedShipped(m)]
<1>0. PICK w : w = ApplyTurns(m)
  OBVIOUS
<1>1. ApplyWalk(m) = w[Len(Transitions(beat))]
  BY <1>0 DEF ApplyWalk
<1>a. /\ w[0] = [infed |-> infed, books |-> occ, outfed |-> shipped]
      /\ w[1] = ApplyTurn(m, w[0], 1) /\ w[2] = ApplyTurn(m, w[1], 2)
      /\ Len(Transitions(beat)) # 2 => w[3] = ApplyTurn(m, w[2], 3)
      /\ Len(Transitions(beat)) = 4 => w[4] = ApplyTurn(m, w[3], 4)
  BY <1>0, ApplyUnrolled DEF TypeOK
<1>b. w[1] = ApplyTurn(m, w[0], 1)
  BY <1>a
<1>2. /\ w[2] = ApplyTurn(m, w[1], 2)
      /\ Len(Transitions(beat)) # 2 => w[3] = ApplyTurn(m, w[2], 3)
      /\ Len(Transitions(beat)) = 4 => w[4] = ApplyTurn(m, w[3], 4)
  BY <1>a
<1>3. w[0].infed = infed /\ w[0].books = occ /\ w[0].outfed = shipped
  BY <1>a
<1>c. IsEntry(w[0])
  <2>1. infed \in Nat /\ occ \in [Tracked -> Nat]
    BY MachineAssumption DEF TypeOK, Parts, NoPart
  <2>2. w[0] = Entry(w[0])
    BY <1>a DEF Entry
  <2> QED
    BY <1>3, <2>1, <2>2 DEF IsEntry
<1>4. ASSUME NEW v, IsEntry(v), v.infed = MovedInfed(m), v.outfed = MovedShipped(m),
             v.books["F1"] = Moved(m)["F1"], v.books["O"] = Moved(m)["O"], v.books["F2"] = Moved(m)["F2"]
      PROVE  v = [infed |-> MovedInfed(m), books |-> Moved(m), outfed |-> MovedShipped(m)]
  <2>1. Moved(m) = [x \in Tracked |-> Moved(m)[x]]
    BY DEF Moved
  <2>2. v.books = [x \in Tracked |-> v.books[x]]
    BY <1>4 DEF IsEntry
  <2>3. \A x \in Tracked : v.books[x] = Moved(m)[x]
    BY <1>4 DEF Tracked
  <2>4. v.books = Moved(m)
    BY <2>1, <2>2, <2>3
  <2> QED
    BY <1>4, <2>4 DEF IsEntry, Entry
<1>5. /\ Moved(m)["F1"] = IF Delivers(m, "F1") THEN Carried(Feeder(beat, "F1"))
                          ELSE IF "F1" \in m THEN NoPart ELSE occ["F1"]
      /\ Moved(m)["O"] = IF Delivers(m, "O") THEN Carried(Feeder(beat, "O"))
                         ELSE IF "O" \in m THEN NoPart ELSE occ["O"]
      /\ Moved(m)["F2"] = IF Delivers(m, "F2") THEN Carried(Feeder(beat, "F2"))
                          ELSE IF "F2" \in m THEN NoPart ELSE occ["F2"]
  BY DEF Moved, Tracked
<1>6. infed \in Nat /\ infed + 1 # NoPart /\ Stations = {"F1", "O", "F2", "IN", "OUT"}
  BY MachineAssumption DEF TypeOK, NoPart, Stations, Tracked
<1>7. CASE beat = "P1"
  <2>1. IsEntry(w[1]) /\ ApplyStep(m, "F2", "OUT", w[0], w[1])
    BY <1>b, <1>c, <1>6, <1>7, MovesListed, ApplyTurnIs
  <2>2. IsEntry(w[2]) /\ ApplyStep(m, "O", "F2", w[1], w[2])
    BY <1>2, <2>1, <1>6, <1>7, MovesListed, ApplyTurnIs
  <2>3. IsEntry(w[3]) /\ ApplyStep(m, "F1", "O", w[2], w[3])
    BY <1>2, <2>2, <1>6, <1>7, MovesListed, ApplyTurnIs
  <2>4. ApplyWalk(m) = w[3]
    BY <1>1, <1>7, MovesListed
  <2>5. m \subseteq {"F1", "O", "F2"}
    BY <1>7, SourcesAre
  <2>6. w[3].infed = MovedInfed(m)
    BY <1>3, <1>5, <1>6, <1>7, <2>1, <2>2, <2>3, <2>5 DEF ApplyStep, Popped, MovedInfed, Delivers, Carried, Loaded, Feeder, Tracked, NoPart
  <2>7. w[3].outfed = MovedShipped(m)
    BY <1>3, <1>5, <1>6, <1>7, <2>1, <2>2, <2>3, <2>5 DEF ApplyStep, Popped, MovedShipped, Delivers, Carried, Loaded, Feeder, Tracked, NoPart
  <2>8. w[3].books["F1"] = Moved(m)["F1"]
    BY <1>3, <1>5, <1>6, <1>7, <2>1, <2>2, <2>3, <2>5 DEF ApplyStep, Popped, Delivers, Carried, Loaded, Feeder, Tracked, NoPart
  <2>9. w[3].books["O"] = Moved(m)["O"]
    BY <1>3, <1>5, <1>6, <1>7, <2>1, <2>2, <2>3, <2>5 DEF ApplyStep, Popped, Delivers, Carried, Loaded, Feeder, Tracked, NoPart
  <2>10. w[3].books["F2"] = Moved(m)["F2"]
    BY <1>3, <1>5, <1>6, <1>7, <2>1, <2>2, <2>3, <2>5 DEF ApplyStep, Popped, Delivers, Carried, Loaded, Feeder, Tracked, NoPart
  <2> QED
    BY <1>4, <2>3, <2>4, <2>6, <2>7, <2>8, <2>9, <2>10
<1>8. CASE beat = "P2"
  <2>1. IsEntry(w[1]) /\ ApplyStep(m, "O", "F1", w[0], w[1])
    BY <1>b, <1>c, <1>6, <1>8, MovesListed, ApplyTurnIs
  <2>2. IsEntry(w[2]) /\ ApplyStep(m, "F2", "O", w[1], w[2])
    BY <1>2, <2>1, <1>6, <1>8, MovesListed, ApplyTurnIs
  <2>3. ApplyWalk(m) = w[2]
    BY <1>1, <1>8, MovesListed
  <2>4. m \subseteq {"O", "F2"}
    BY <1>8, SourcesAre
  <2>5. w[2].infed = MovedInfed(m)
    BY <1>3, <1>5, <1>6, <1>8, <2>1, <2>2, <2>4 DEF ApplyStep, Popped, MovedInfed, Delivers, Carried, Loaded, Feeder, Tracked, NoPart
  <2>6. w[2].outfed = MovedShipped(m)
    BY <1>3, <1>5, <1>6, <1>8, <2>1, <2>2, <2>4 DEF ApplyStep, Popped, MovedShipped, Delivers, Carried, Loaded, Feeder, Tracked, NoPart
  <2>7. w[2].books["F1"] = Moved(m)["F1"]
    BY <1>3, <1>5, <1>6, <1>8, <2>1, <2>2, <2>4 DEF ApplyStep, Popped, Delivers, Carried, Loaded, Feeder, Tracked, NoPart
  <2>8. w[2].books["O"] = Moved(m)["O"]
    BY <1>3, <1>5, <1>6, <1>8, <2>1, <2>2, <2>4 DEF ApplyStep, Popped, Delivers, Carried, Loaded, Feeder, Tracked, NoPart
  <2>9. w[2].books["F2"] = Moved(m)["F2"]
    BY <1>3, <1>5, <1>6, <1>8, <2>1, <2>2, <2>4 DEF ApplyStep, Popped, Delivers, Carried, Loaded, Feeder, Tracked, NoPart
  <2> QED
    BY <1>4, <2>2, <2>3, <2>5, <2>6, <2>7, <2>8, <2>9
<1>9. CASE beat = "P3"
  <2>1. IsEntry(w[1]) /\ ApplyStep(m, "O", "F2", w[0], w[1])
    BY <1>b, <1>c, <1>6, <1>9, MovesListed, ApplyTurnIs
  <2>2. IsEntry(w[2]) /\ ApplyStep(m, "F1", "O", w[1], w[2])
    BY <1>2, <2>1, <1>6, <1>9, MovesListed, ApplyTurnIs
  <2>3. IsEntry(w[3]) /\ ApplyStep(m, "IN", "F1", w[2], w[3])
    BY <1>2, <2>2, <1>6, <1>9, MovesListed, ApplyTurnIs
  <2>4. ApplyWalk(m) = w[3]
    BY <1>1, <1>9, MovesListed
  <2>5. m \subseteq {"IN", "F1", "O"}
    BY <1>9, SourcesAre
  <2>6. w[3].infed = MovedInfed(m)
    BY <1>3, <1>5, <1>6, <1>9, <2>1, <2>2, <2>3, <2>5 DEF ApplyStep, Popped, MovedInfed, Delivers, Carried, Loaded, Feeder, Tracked, NoPart
  <2>7. w[3].outfed = MovedShipped(m)
    BY <1>3, <1>5, <1>6, <1>9, <2>1, <2>2, <2>3, <2>5 DEF ApplyStep, Popped, MovedShipped, Delivers, Carried, Loaded, Feeder, Tracked, NoPart
  <2>8. w[3].books["F1"] = Moved(m)["F1"]
    BY <1>3, <1>5, <1>6, <1>9, <2>1, <2>2, <2>3, <2>5 DEF ApplyStep, Popped, Delivers, Carried, Loaded, Feeder, Tracked, NoPart
  <2>9. w[3].books["O"] = Moved(m)["O"]
    BY <1>3, <1>5, <1>6, <1>9, <2>1, <2>2, <2>3, <2>5 DEF ApplyStep, Popped, Delivers, Carried, Loaded, Feeder, Tracked, NoPart
  <2>10. w[3].books["F2"] = Moved(m)["F2"]
    BY <1>3, <1>5, <1>6, <1>9, <2>1, <2>2, <2>3, <2>5 DEF ApplyStep, Popped, Delivers, Carried, Loaded, Feeder, Tracked, NoPart
  <2> QED
    BY <1>4, <2>3, <2>4, <2>6, <2>7, <2>8, <2>9, <2>10
<1>10. CASE beat = "P4"
  <2>1. IsEntry(w[1]) /\ ApplyStep(m, "F2", "OUT", w[0], w[1])
    BY <1>b, <1>c, <1>6, <1>10, MovesListed, ApplyTurnIs
  <2>2. IsEntry(w[2]) /\ ApplyStep(m, "O", "F2", w[1], w[2])
    BY <1>2, <2>1, <1>6, <1>10, MovesListed, ApplyTurnIs
  <2>3. IsEntry(w[3]) /\ ApplyStep(m, "F1", "O", w[2], w[3])
    BY <1>2, <2>2, <1>6, <1>10, MovesListed, ApplyTurnIs
  <2>4. IsEntry(w[4]) /\ ApplyStep(m, "IN", "F1", w[3], w[4])
    BY <1>2, <2>3, <1>6, <1>10, MovesListed, ApplyTurnIs
  <2>5. ApplyWalk(m) = w[4]
    BY <1>1, <1>10, MovesListed
  <2>6. m \subseteq {"IN", "F1", "O", "F2"}
    BY <1>10, SourcesAre
  <2>7. w[4].infed = MovedInfed(m)
    BY <1>3, <1>5, <1>6, <1>10, <2>1, <2>2, <2>3, <2>4, <2>6 DEF ApplyStep, Popped, MovedInfed, Delivers, Carried, Loaded, Feeder, Tracked, NoPart
  <2>8. w[4].outfed = MovedShipped(m)
    BY <1>3, <1>5, <1>6, <1>10, <2>1, <2>2, <2>3, <2>4, <2>6 DEF ApplyStep, Popped, MovedShipped, Delivers, Carried, Loaded, Feeder, Tracked, NoPart
  <2>9. w[4].books["F1"] = Moved(m)["F1"]
    BY <1>3, <1>5, <1>6, <1>10, <2>1, <2>2, <2>3, <2>4, <2>6 DEF ApplyStep, Popped, Delivers, Carried, Loaded, Feeder, Tracked, NoPart
  <2>10. w[4].books["O"] = Moved(m)["O"]
    BY <1>3, <1>5, <1>6, <1>10, <2>1, <2>2, <2>3, <2>4, <2>6 DEF ApplyStep, Popped, Delivers, Carried, Loaded, Feeder, Tracked, NoPart
  <2>11. w[4].books["F2"] = Moved(m)["F2"]
    BY <1>3, <1>5, <1>6, <1>10, <2>1, <2>2, <2>3, <2>4, <2>6 DEF ApplyStep, Popped, Delivers, Carried, Loaded, Feeder, Tracked, NoPart
  <2> QED
    BY <1>4, <2>4, <2>5, <2>7, <2>8, <2>9, <2>10, <2>11
<1> QED
  BY <1>7, <1>8, <1>9, <1>10 DEF TypeOK, Beats

LEMMA WalksAgree == TypeOK => WalkMatchesSets
BY GuardAgrees, ApplyAgrees DEF WalkMatchesSets, TypeOK

(***************************************************************************)
(* The code's loops over a transition's moves, in the order it lists them,  *)
(* compute what the machine is written with: guards.departure_blocked its   *)
(* destination check, machine._apply_moves its new books, for every subset  *)
(* of the moves, every sensor picture and every state of the machine.       *)
(***************************************************************************)
THEOREM WalksAreSets == Spec => []WalkMatchesSets
BY WalksAgree, TypeCorrect, PTL

\* The same under the rules of Steady, where a run of TLC walks them too.
THEOREM SteadyWalksAreSets == SteadySpec => []WalkMatchesSets
<1>1. IInv => TypeOK
  BY DEF IInv
<1> QED
  BY <1>1, WalksAgree, PatternKept, PTL

-----------------------------------------------------------------------------
(***************************************************************************)
(* The journey of a part.                                                   *)
(***************************************************************************)
\* Whoever stands at O has not begun the flash that follows the coat due there.
Fresh ==
  occ["O"] # NoPart => /\ flash2[occ["O"]] = 0
                       /\ Shown \in {"P1", "P2"} => flash1[occ["O"]] = 0

JInv == IInv /\ InOrder /\ Fresh

\* A timer only grows, and only for a coated part at a fan station.
TimersGrow ==
  \A p \in Parts :
    /\ flash1'[p] = flash1[p] \/ (flash1[p] < flash1'[p] /\ coats[p] = 1)
    /\ flash2'[p] = flash2[p] \/ (flash2[p] < flash2'[p] /\ coats[p] = 2)
    /\ occ["O"] = p => flash1'[p] = flash1[p] /\ flash2'[p] = flash2[p]

LEMMA BankGrows ==
  ASSUME IInv, NEW s, NEW dt \in 0 .. MaxDt, flash1' = BankedFlash1(s, dt), flash2' = BankedFlash2(s, dt)
  PROVE  TimersGrow
<1> SUFFICES ASSUME NEW p \in Parts
             PROVE  /\ flash1'[p] = flash1[p] \/ (flash1[p] < flash1'[p] /\ coats[p] = 1)
                    /\ flash2'[p] = flash2[p] \/ (flash2[p] < flash2'[p] /\ coats[p] = 2)
                    /\ occ["O"] = p => flash1'[p] = flash1[p] /\ flash2'[p] = flash2[p]
  BY DEF TimersGrow
<1>1. /\ coats[p] \in {0, 1, 2} /\ flash1[p] \in 0 .. FlashSeconds /\ flash2[p] \in 0 .. FlashSeconds
      /\ p # 0
  BY DEF IInv, TypeOK, Parts
<1>2. /\ flash1'[p] = IF Flashing(p, s) /\ coats[p] <= 1 THEN Capped(flash1[p] + dt) ELSE flash1[p]
      /\ flash2'[p] = IF Flashing(p, s) /\ coats[p] > 1 THEN Capped(flash2[p] + dt) ELSE flash2[p]
  BY DEF BankedFlash1, BankedFlash2
<1>3. Flashing(p, s) => coats[p] > 0 /\ \E st \in FanStations : occ[st] = p
  BY DEF Flashing
<1>4. occ["O"] = p => ~Flashing(p, s)
  BY <1>1, <1>3 DEF IInv, NoPartLost, FanStations, Tracked
<1> QED
  BY <1>1, <1>2, <1>3, <1>4 DEF Capped

\* What a step may do to the parts: bank, coat the occupant of O that is due, or nothing.
Sprayed ==
  /\ phase = "robot_work" /\ WorkDue
  /\ coats' = [coats EXCEPT ![occ["O"]] = WorkCoat(beat)]
  /\ UNCHANGED bookVars

LEMMA PartsMove ==
  ASSUME IInv, [SteadyNext]_vars
  PROVE  TimersGrow /\ (coats' = coats \/ Sprayed)
<1>1. CASE Step
  <2>1. PICK s \in Readings, dt \in 0 .. MaxDt :
          IdleTick(s, dt) \/ \E k \in 0 .. pending, flt \in BOOLEAN : Tick(s, dt, k, flt)
    BY <1>1 DEF Step
  <2>2. CASE \E k \in 0 .. pending : StartWork(s, dt, k)
    <3>1. flash1' = BankedFlash1(s, dt) /\ flash2' = BankedFlash2(s, dt) /\ Sprayed
      BY <2>2 DEF StartWork, Sprayed, Ready
    <3> QED
      BY <3>1, BankGrows
  <2>3. CASE ~\E k \in 0 .. pending : StartWork(s, dt, k)
    <3>1. Bank(s, dt)
      BY <2>1, <2>3
         DEF IdleTick, Tick, StayFaulted, ExternalFault, Dispatch, MismatchFault, AwaitCompletions,
             RoleFault, SkipWork, GuardsPass, CommandShutter, NothingToMove, Advance, ArrivalFault,
             Arrive, SetFans, Blocked
    <3> QED
      BY <3>1, BankGrows DEF Bank
  <2> QED
    BY <2>2, <2>3
<1>2. CASE UNCHANGED partVars
  BY <1>2 DEF partVars, TimersGrow
<1>3. ASSUME NEW n \in Parts, SteadyDeclare(n)
      PROVE  UNCHANGED partVars
  BY <1>3 DEF SteadyDeclare, Declare
<1>4. ASSUME NEW seen \in SUBSET Tracked, SteadyResume(seen)
      PROVE  UNCHANGED partVars
  BY <1>4 DEF SteadyResume, Resume
<1> QED
  BY <1>1, <1>2, <1>3, <1>4 DEF SteadyNext, vars

\* The picture shown changes only with the train: when the move is done, or when there was
\* nothing to carry.
Passed == Ph = "moving" /\ Ph' = "shutter_close" /\ beat' = beat

LEMMA ShownMoves ==
  ASSUME IInv, [SteadyNext]_vars
  PROVE  \/ Shown' = Shown /\ occ' = occ
         \/ Passed /\ (occ' = Moved(LiveMoves) \/ (occ' = occ /\ occ["O"] = NoPart))
<1>0. /\ phase \in Phases /\ (phase = "faulted" => faultPhase \in Phases \ {"faulted"})
      /\ inflight # {} => Ph = "moving" /\ inflight = LiveMoves
  BY DEF IInv, TypeOK, Control, Ph
<1>1. CASE Step
  <2>1. PICK s \in Readings, dt \in 0 .. MaxDt :
          IdleTick(s, dt) \/ \E k \in 0 .. pending, flt \in BOOLEAN : Tick(s, dt, k, flt)
    BY <1>1 DEF Step
  <2>2. CASE \E k \in 0 .. pending : Arrive(s, dt, k)
    <3>1. /\ phase = "moving" /\ phase' = "shutter_close" /\ beat' = beat
          /\ occ' = Moved(inflight) /\ inflight # {}
      BY <2>2 DEF Arrive, Ready, Goto
    <3> QED
      BY <1>0, <3>1 DEF Passed, Ph
  <2>3. CASE \E k \in 0 .. pending : NothingToMove(s, dt, k)
    <3>1. /\ phase = "moving" /\ phase' = "shutter_close" /\ beat' = beat
          /\ occ' = occ /\ LiveMoves = {}
      BY <2>3 DEF NothingToMove, Ready, Goto, bookVars
    <3>2. "O" \in Sources(beat)
      BY SourcesAre DEF IInv, TypeOK, Beats
    <3>3. occ["O"] = NoPart
      BY <3>1, <3>2 DEF LiveMoves, Loaded, Tracked
    <3> QED
      BY <3>1, <3>3 DEF Passed, Ph
  <2>4. CASE \E k \in 0 .. pending : SetFans(s, dt, k)
    <3>1. phase = "set_fans" /\ phase' = "robot_work" /\ beat' = NextBeat(beat) /\ occ' = occ
      BY <2>4 DEF SetFans, Ready, bookVars
    <3> QED
      BY <3>1 DEF Shown, Ph
  <2>5. CASE ~\E k \in 0 .. pending : \/ Arrive(s, dt, k) \/ NothingToMove(s, dt, k) \/ SetFans(s, dt, k)
    <3>1. /\ beat' = beat /\ occ' = occ
          /\ \/ phase' = phase /\ faultPhase' = faultPhase
             \/ phase # "faulted" /\ phase' = "faulted" /\ faultPhase' = phase
             \/ phase = "robot_work" /\ phase' = "await_guards"
             \/ phase = "await_guards" /\ phase' = "shutter_open"
             \/ phase = "shutter_open" /\ phase' = "moving"
             \/ phase = "moving" /\ phase' = "moving"
             \/ phase = "shutter_close" /\ phase' = "set_fans"
      BY <2>1, <2>5
         DEF IdleTick, Tick, StayFaulted, ExternalFault, EnterFault, Dispatch, MismatchFault,
             AwaitCompletions, RoleFault, SkipWork, StartWork, GuardsPass, CommandShutter,
             Advance, ArrivalFault, Blocked, Goto, Ready, bookVars, ctlVars
    <3> QED
      BY <1>0, <3>1 DEF Shown, Ph
  <2> QED
    BY <2>2, <2>3, <2>4, <2>5
<1>2. ASSUME NEW n \in Parts, SteadyDeclare(n)
      PROVE  Shown' = Shown /\ occ' = occ
  BY <1>2 DEF SteadyDeclare, Declare, ctlVars, Shown, Ph
<1>3. ASSUME NEW seen \in SUBSET Tracked, SteadyResume(seen)
      PROVE  \/ Shown' = Shown /\ occ' = occ
             \/ Passed /\ occ' = Moved(LiveMoves)
  <2>1. PICK c : /\ Resume(c, beat, seen)
                 /\ c = occ \/ (faultPhase = "moving" /\ inflight # {} /\ c = Moved(inflight))
    BY <1>3 DEF SteadyResume
  <2>2. phase = "faulted" /\ phase' = ReentryPhase(c) /\ beat' = beat /\ occ' = c
    BY <2>1 DEF Resume
  <2>3. CASE Crossed(c)
    <3>1. phase' = "shutter_close" /\ faultPhase = "moving" /\ c = Moved(LiveMoves)
      BY <1>0, <2>2, <2>3 DEF Crossed, ReentryPhase
    <3> QED
      BY <2>2, <3>1 DEF Passed, Ph
  <2>4. CASE ~Crossed(c)
    <3>1. c = occ
      BY <2>1, <2>4 DEF Crossed
    <3>2. \/ phase' = "shutter_close" /\ faultPhase \in {"shutter_close", "set_fans"}
          \/ phase' \in {"await_guards", "robot_work"} /\ faultPhase \notin {"shutter_close", "set_fans"}
      BY <2>2, <2>4 DEF ReentryPhase
    <3> QED
      BY <2>2, <3>1, <3>2 DEF Shown, Ph
  <2> QED
    BY <2>3, <2>4
<1>4. CASE UNCHANGED vars
  BY <1>4 DEF vars, ctlVars, bookVars, Shown, Ph
<1> QED
  BY <1>1, <1>2, <1>3, <1>4 DEF SteadyNext

\* Whoever arrives at O comes with no more than the flash of the coat it has.
LEMMA FreshKept == JInv /\ IInv' /\ [SteadyNext]_vars => Fresh'
<1> SUFFICES ASSUME JInv, IInv', [SteadyNext]_vars, occ'["O"] # NoPart
             PROVE  /\ flash2'[occ'["O"]] = 0
                    /\ Shown' \in {"P1", "P2"} => flash1'[occ'["O"]] = 0
  BY DEF Fresh
<1>1. IInv /\ TimersGrow
  BY PartsMove DEF JInv
<1>2. occ'["O"] \in Parts
  BY DEF IInv, TypeOK, Tracked
<1>3. CASE Shown' = Shown /\ occ' = occ
  BY <1>1, <1>2, <1>3 DEF TimersGrow, JInv, Fresh
<1>4. CASE Passed /\ occ' = Moved(LiveMoves)
  <2>1. /\ Shown = beat /\ Shown' = NextBeat(beat) /\ beat \in {"P1", "P2", "P3", "P4"}
    BY <1>1, <1>4 DEF Passed, Shown, IInv, TypeOK, Beats
  <2>2. beat = "P2" => occ["F1"] = NoPart
    BY <1>1, <2>1 DEF IInv, Picture, SlotCoats, Tracked
  <2>3. beat = "P3" => occ["F2"] = NoPart
    BY <1>1, <2>1 DEF IInv, Picture, SlotCoats, Tracked
  <2>4. occ'["O"] = IF beat = "P2" THEN occ["F2"] ELSE occ["F1"]
    BY <1>1, <1>4, <2>1, <2>2, <2>3, Shift DEF IInv, Tracked
  <2>5. coats[occ'["O"]] = IF beat \in {"P2", "P3"} THEN 1 ELSE 0
    <3>1. beat = "P2" => coats[occ["F2"]] \in {1}
      BY <1>1, <2>1, <2>4 DEF IInv, Picture, SlotCoats, Tracked
    <3>2. beat = "P3" => coats[occ["F1"]] \in {1}
      BY <1>1, <2>1, <2>4 DEF IInv, Picture, SlotCoats, Tracked
    <3>3. beat \in {"P1", "P4"} => coats[occ["F1"]] \in {0}
      BY <1>1, <2>1, <2>4 DEF IInv, Picture, SlotCoats, Tracked
    <3> QED
      BY <2>1, <2>4, <3>1, <3>2, <3>3
  <2>6. /\ flash2[occ'["O"]] = 0
        /\ coats[occ'["O"]] = 0 => flash1[occ'["O"]] = 0
    BY <1>1, <1>2, <2>5 DEF IInv, Timers
  <2>7. /\ flash2'[occ'["O"]] = 0
        /\ coats[occ'["O"]] = 0 => flash1'[occ'["O"]] = 0
    BY <1>1, <1>2, <2>5, <2>6 DEF TimersGrow
  <2>8. Shown' \in {"P1", "P2"} => coats[occ'["O"]] = 0
    BY <2>1, <2>5 DEF NextBeat
  <2> QED
    BY <2>7, <2>8
<1> QED
  BY <1>1, <1>3, <1>4, ShownMoves

-----------------------------------------------------------------------------
(***************************************************************************)
(* Stages.                                                                  *)
(***************************************************************************)
\* Who stands on the line: in order, next to one another.
LEMMA LineIs ==
  ASSUME IInv, InOrder
  PROVE  /\ Outfed \in Nat /\ shipped = 1 .. Outfed /\ Outfed <= infed /\ infed <= declared
         /\ occ["F1"] \in Nat /\ occ["O"] \in Nat /\ occ["F2"] \in Nat /\ infed \in Nat /\ declared \in Nat
         /\ \A p \in Parts : p \in {occ["F1"], occ["O"], occ["F2"]} <=> Outfed < p /\ p <= infed
<1>1. Outfed \in Nat /\ shipped = 1 .. Outfed
  BY OutfedIsSegment
<1>2. /\ occ["F1"] \in Nat /\ occ["O"] \in Nat /\ occ["F2"] \in Nat
      /\ infed \in Nat /\ declared \in Nat /\ infed <= declared
  BY DEF IInv, TypeOK, Tracked, Parts
<1>3. OnLine = {occ["F1"], occ["O"], occ["F2"]} \ {0}
  BY DEF OnLine, Tracked
<1>4. 1 .. infed = OnLine \cup shipped /\ OnLine \cap shipped = {}
  BY DEF IInv, NoPartLost
<1>5. \A p \in Parts : p \in {occ["F1"], occ["O"], occ["F2"]} <=> p \in 1 .. infed /\ p \notin 1 .. Outfed
  BY <1>1, <1>3, <1>4 DEF Parts
<1>6. Outfed <= infed
  <2>1. CASE Outfed = 0
    BY <1>2, <2>1
  <2>2. CASE Outfed # 0
    <3>1. Outfed \in shipped
      BY <1>1, <2>2
    <3>2. Outfed \in 1 .. infed
      BY <1>4, <3>1
    <3> QED
      BY <3>2
  <2> QED
    BY <2>1, <2>2
<1>7. \A p \in Parts : p \in {occ["F1"], occ["O"], occ["F2"]} <=> Outfed < p /\ p <= infed
  BY <1>1, <1>2, <1>5 DEF Parts
<1> QED
  BY <1>1, <1>2, <1>6, <1>7

\* The stage of whoever stands on the line.
LEMMA StageOnLine ==
  ASSUME IInv, InOrder, NEW p \in Parts, Outfed < p, p <= infed
  PROVE  /\ coats[p] = 0 => StageOf(p) = 2
         /\ coats[p] = 1 => StageOf(p) = IF flash1[p] < FlashSeconds THEN 3 ELSE 4
         /\ coats[p] = 2 => StageOf(p) = IF flash2[p] < FlashSeconds THEN 5 ELSE 6
<1>1. p \notin shipped /\ ~(p > declared) /\ ~(p > infed)
  BY LineIs DEF Parts
<1> QED
  BY <1>1 DEF StageOf

LEMMA StageOffLine ==
  ASSUME IInv, InOrder, NEW p \in Parts
  PROVE  /\ p <= Outfed => StageOf(p) = 7
         /\ p > declared => StageOf(p) = 0
         /\ p > infed /\ p <= declared => StageOf(p) = 1
<1>1. p \in shipped <=> p <= Outfed
  BY LineIs DEF Parts
<1> QED
  BY <1>1, LineIs DEF StageOf, Parts

\* The stages a beat has at each station.
LEMMA StageAt ==
  ASSUME JInv
  PROVE  /\ occ["F2"] # 0 => StageOf(occ["F2"]) \in (IF Shown = "P2" THEN {3, 4} ELSE {5, 6})
         /\ occ["O"] # 0 => StageOf(occ["O"]) \in (IF Shown \in {"P1", "P2"} THEN {2, 3} ELSE {4, 5})
         /\ occ["F1"] # 0 => StageOf(occ["F1"]) \in (IF Shown = "P3" THEN {3, 4} ELSE {2})
         /\ Shown = "P2" => occ["F1"] = 0
         /\ Shown = "P3" => occ["F2"] = 0
         /\ Shown \in {"P1", "P2", "P3", "P4"}
<1>1. Shown \in {"P1", "P2", "P3", "P4"}
  BY DEF JInv, IInv, TypeOK, Beats, Shown, NextBeat
<1>2. \A st \in Tracked : occ[st] # 0 => occ[st] \in Parts /\ coats[occ[st]] \in SlotCoats(Shown, st)
  BY DEF JInv, IInv, TypeOK, Picture
<1>3. \A st \in Tracked : occ[st] # 0 => Outfed < occ[st] /\ occ[st] <= infed
  BY <1>2, LineIs DEF JInv, Tracked
<1>4. ASSUME occ["F2"] # 0
      PROVE  StageOf(occ["F2"]) \in (IF Shown = "P2" THEN {3, 4} ELSE {5, 6})
  <2>1. occ["F2"] \in Parts /\ Outfed < occ["F2"] /\ occ["F2"] <= infed
    BY <1>2, <1>3, <1>4 DEF Tracked
  <2>2. /\ Shown # "P3"
        /\ coats[occ["F2"]] = IF Shown = "P2" THEN 1 ELSE 2
    BY <1>1, <1>2, <1>4 DEF SlotCoats, Tracked
  <2> QED
    BY <2>1, <2>2, StageOnLine DEF JInv
<1>5. ASSUME occ["O"] # 0
      PROVE  StageOf(occ["O"]) \in (IF Shown \in {"P1", "P2"} THEN {2, 3} ELSE {4, 5})
  <2>1. occ["O"] \in Parts /\ Outfed < occ["O"] /\ occ["O"] <= infed
    BY <1>2, <1>3, <1>5 DEF Tracked
  <2>2. coats[occ["O"]] \in (IF Shown \in {"P1", "P2"} THEN {0, 1} ELSE {1, 2})
    BY <1>1, <1>2, <1>5 DEF SlotCoats, WorkCoat, Tracked
  <2>3. /\ flash2[occ["O"]] = 0
        /\ Shown \in {"P1", "P2"} => flash1[occ["O"]] = 0
        /\ Shown \in {"P3", "P4"} => flash1[occ["O"]] = FlashSeconds
    BY <1>5 DEF JInv, IInv, Picture, Fresh
  <2> QED
    BY <1>1, <2>1, <2>2, <2>3, StageOnLine DEF JInv
<1>6. ASSUME occ["F1"] # 0
      PROVE  StageOf(occ["F1"]) \in (IF Shown = "P3" THEN {3, 4} ELSE {2})
  <2>1. occ["F1"] \in Parts /\ Outfed < occ["F1"] /\ occ["F1"] <= infed
    BY <1>2, <1>3, <1>6 DEF Tracked
  <2>2. /\ Shown # "P2"
        /\ coats[occ["F1"]] = IF Shown = "P3" THEN 1 ELSE 0
    BY <1>1, <1>2, <1>6 DEF SlotCoats, Tracked
  <2> QED
    BY <2>1, <2>2, StageOnLine DEF JInv
<1>7. (Shown = "P2" => occ["F1"] = 0) /\ (Shown = "P3" => occ["F2"] = 0)
  BY <1>2 DEF SlotCoats, Tracked
<1> QED
  BY <1>1, <1>4, <1>5, <1>6, <1>7

\* The order in place is the order in progress.
LEMMA ProgressInOrder ==
  ASSUME JInv, NEW p \in Parts, NEW q \in Parts, p < q
  PROVE  StageOf(p) >= StageOf(q)
<1>1. StageOf(p) \in 0 .. 7 /\ StageOf(q) \in 0 .. 7
  BY DEF StageOf
<1>2. CASE p <= Outfed
  BY <1>1, <1>2, StageOffLine DEF JInv
<1>3. CASE q > infed
  <2>1. StageOf(q) \in {0, 1} /\ (StageOf(q) = 1 => q <= declared)
    BY <1>3, StageOffLine, LineIs DEF JInv, Parts
  <2>2. StageOf(p) = 0 => p > declared
    BY DEF StageOf
  <2> QED
    BY <1>1, <2>1, <2>2, LineIs DEF JInv, Parts
<1>4. CASE Outfed < p /\ q <= infed
  <2>1. /\ p \in {occ["F1"], occ["O"], occ["F2"]} /\ q \in {occ["F1"], occ["O"], occ["F2"]}
        /\ p # 0 /\ q # 0
    BY <1>4, LineIs DEF JInv, Parts
  <2>0. /\ occ["F1"] \in Nat /\ occ["O"] \in Nat /\ occ["F2"] \in Nat
        /\ occ["F2"] # 0 /\ occ["O"]  # 0 => occ["F2"] < occ["O"]
        /\ occ["F2"] # 0 /\ occ["F1"] # 0 => occ["F2"] < occ["F1"]
        /\ occ["O"]  # 0 /\ occ["F1"] # 0 => occ["O"] < occ["F1"]
    BY LineIs DEF JInv, InOrder
  <2>2. \/ p = occ["F2"] /\ q = occ["O"]
        \/ p = occ["F2"] /\ q = occ["F1"]
        \/ p = occ["O"] /\ q = occ["F1"]
    BY <2>0, <2>1 DEF Parts
  <2> QED
    BY <2>1, <2>2, StageAt
<1> QED
  BY <1>2, <1>3, <1>4, LineIs DEF JInv, Parts

LEMMA LineHasRoom ==
  ASSUME JInv, NEW p \in Parts, NEW q \in Parts, StageOf(p) \in 2 .. 6, StageOf(q) \in 2 .. 6
  PROVE  q - p < 3
<1>0. Outfed \in Nat /\ infed \in Nat /\ declared \in Nat /\ IInv /\ InOrder
  BY LineIs DEF JInv
<1>a. ~(p <= Outfed) /\ ~(q <= Outfed) /\ ~(q > declared) /\ ~(q > infed /\ q <= declared)
  BY <1>0, StageOffLine
<1>1. Outfed < p /\ q <= infed /\ Outfed < q
  BY <1>0, <1>a DEF Parts
<1>2. SUFFICES ASSUME q - p >= 3 PROVE FALSE
  BY DEF Parts
<1>3. /\ p + 1 \in Parts /\ p + 2 \in Parts
      /\ Outfed < p + 1 /\ p + 1 <= infed /\ Outfed < p + 2 /\ p + 2 <= infed /\ p <= infed
  BY <1>1, <1>2, LineIs DEF JInv, Parts
<1>4. /\ p \in {occ["F1"], occ["O"], occ["F2"]} /\ q \in {occ["F1"], occ["O"], occ["F2"]}
      /\ p + 1 \in {occ["F1"], occ["O"], occ["F2"]} /\ p + 2 \in {occ["F1"], occ["O"], occ["F2"]}
  BY <1>1, <1>3, LineIs DEF JInv
<1> QED
  BY <1>2, <1>4 DEF Parts

\* How a part may go on, and which actor takes it there.
Dries1(p)  == StageOf(p) \in {3, 5}
CoatedAt(p) == StageOf(p) \in {2, 4} /\ p = occ["O"] /\ Ph = "robot_work"
TakesIn(p)  == StageOf(p) = 1 /\ p = infed + 1 /\ Ph = "moving"
PutsOut(p)  == StageOf(p) = 6 /\ p = occ["F2"] /\ Ph = "moving"

GoesOnward(p) ==
  \/ StageOf(p)' = StageOf(p)
  \/ StageOf(p)' = StageOf(p) + 1 /\ (Dries1(p) \/ CoatedAt(p) \/ TakesIn(p) \/ PutsOut(p))

\* A part that stays where it is, with its coats, can only dry.
LEMMA StayingDries ==
  ASSUME IInv, IInv', TimersGrow, NEW p \in Parts, coats'[p] = coats[p], declared' = declared,
         p \in shipped' <=> p \in shipped, p > infed' <=> p > infed
  PROVE  GoesOnward(p)
<1>1. /\ flash1[p] \in 0 .. FlashSeconds /\ flash2[p] \in 0 .. FlashSeconds
      /\ flash1'[p] \in 0 .. FlashSeconds /\ flash2'[p] \in 0 .. FlashSeconds
      /\ coats[p] \in {0, 1, 2}
  BY DEF IInv, TypeOK
<1>2. /\ flash1'[p] = flash1[p] \/ (flash1[p] < flash1'[p] /\ coats[p] = 1)
      /\ flash2'[p] = flash2[p] \/ (flash2[p] < flash2'[p] /\ coats[p] = 2)
  BY DEF TimersGrow
<1>3. StageOf(p)' = IF p \in shipped THEN 7 ELSE IF p > declared THEN 0 ELSE IF p > infed THEN 1
                  ELSE IF coats[p] = 0 THEN 2
                  ELSE IF coats[p] = 1 THEN (IF flash1'[p] < FlashSeconds THEN 3 ELSE 4)
                  ELSE IF flash2'[p] < FlashSeconds THEN 5 ELSE 6
  BY DEF StageOf
<1>4. StageOf(p) = IF p \in shipped THEN 7 ELSE IF p > declared THEN 0 ELSE IF p > infed THEN 1
                 ELSE IF coats[p] = 0 THEN 2
                 ELSE IF coats[p] = 1 THEN (IF flash1[p] < FlashSeconds THEN 3 ELSE 4)
                 ELSE IF flash2[p] < FlashSeconds THEN 5 ELSE 6
  BY DEF StageOf
<1>5. StageOf(p)' = StageOf(p) \/ (StageOf(p)' = StageOf(p) + 1 /\ StageOf(p) \in {3, 5})
  BY <1>1, <1>2, <1>3, <1>4
<1> QED
  BY <1>5 DEF GoesOnward, Dries1

\* The occupant of O that is due gets its coat.
LEMMA SprayedGoesOn ==
  ASSUME JInv, Sprayed, TimersGrow, NEW p, p = occ["O"]
  PROVE  GoesOnward(p)
<1>1. p = occ["O"]
  OBVIOUS
<1>2. /\ p \in Parts /\ Ph = "robot_work" /\ Shown = beat /\ coats[p] < WorkCoat(beat)
      /\ coats'[p] = WorkCoat(beat)
  BY <1>1 DEF JInv, IInv, TypeOK, Sprayed, WorkDue, Ph, Shown, Tracked
<1>3. beat \in {"P1", "P2", "P3", "P4"} /\ coats[p] \in SlotCoats(beat, "O")
  BY <1>1, <1>2 DEF JInv, IInv, TypeOK, Beats, Picture, Tracked, Sprayed, WorkDue
<1>4. /\ beat \in {"P1", "P2"} => coats[p] = 0 /\ coats'[p] = 1
      /\ beat \in {"P3", "P4"} => coats[p] = 1 /\ coats'[p] = 2
  BY <1>2, <1>3 DEF SlotCoats, WorkCoat
<1>5. /\ flash2'[p] = 0
      /\ beat \in {"P1", "P2"} => flash1'[p] = 0
      /\ beat \in {"P3", "P4"} => flash1[p] = FlashSeconds
  <2>1. flash1'[p] = flash1[p] /\ flash2'[p] = flash2[p]
    BY <1>1, <1>2 DEF TimersGrow
  <2> QED
    BY <1>1, <1>2, <2>1 DEF JInv, IInv, Picture, Fresh, Sprayed, WorkDue
<1>6. Outfed < p /\ p <= infed
  BY <1>1, <1>2, LineIs DEF JInv
<1>7. p \notin shipped /\ ~(p > declared) /\ ~(p > infed)
  BY <1>2, <1>6, LineIs DEF JInv, Parts
<1>8. UNCHANGED <<shipped, declared, infed>>
  BY DEF Sprayed, bookVars
<1>9. /\ beat \in {"P1", "P2"} => StageOf(p) = 2 /\ StageOf(p)' = 3
      /\ beat \in {"P3", "P4"} => StageOf(p) = 4 /\ StageOf(p)' = 5
  BY <1>4, <1>5, <1>7, <1>8 DEF StageOf
<1> QED
  BY <1>1, <1>2, <1>3, <1>9 DEF GoesOnward, CoatedAt

\* The train takes in the head of the queue and puts out whoever is dry at F2.
LEMMA CarriedGoesOn ==
  ASSUME JInv, IInv', TimersGrow, NEW p \in Parts, Ph = "moving", inflight = LiveMoves, UNCHANGED <<declared, coats>>,
         infed' = MovedInfed(LiveMoves), shipped' = MovedShipped(LiveMoves)
  PROVE  GoesOnward(p)
<1>0. IInv /\ Shown = beat /\ beat \in {"P1", "P2", "P3", "P4"} /\ infed \in Nat /\ declared \in Nat
  BY DEF JInv, Shown, IInv, TypeOK, Beats
<1>1. /\ infed' = infed \/ (infed' = infed + 1 /\ infed < declared)
      /\ shipped' = shipped \/ (/\ shipped' = shipped \cup {occ["F2"]}
                                /\ beat \in {"P1", "P4"} /\ occ["F2"] # NoPart)
  BY <1>0, Shift DEF IInv
<1>2. CASE p = infed + 1 /\ infed' = infed + 1 /\ infed < declared
  <2>1. coats'[p] = 0
    BY <1>0, <1>2 DEF IInv, Timers
  <2>2. p \notin shipped /\ occ["F2"] # p
    BY <1>0, <1>2, LineIs DEF JInv
  <2>3. p \notin shipped'
    BY <1>1, <2>2
  <2>4. StageOf(p) = 1 /\ StageOf(p)' = 2
    BY <1>0, <1>2, <2>1, <2>2, <2>3 DEF StageOf
  <2> QED
    BY <1>2, <2>4 DEF GoesOnward, TakesIn
<1>3. CASE p = occ["F2"] /\ p \in shipped' /\ p \notin shipped
  <2>1. beat \in {"P1", "P4"} /\ occ["F2"] # NoPart
    BY <1>1, <1>3
  <2>2. coats[p] = 2
    BY <1>0, <1>3, <2>1 DEF IInv, Picture, SlotCoats, Tracked
  <2>3. "F2" \in LiveMoves
    BY <2>1, SourcesAre DEF LiveMoves, Loaded, Tracked
  <2>4. MayLeaveFan(p)
    BY <1>0, <1>3, <2>3 DEF IInv, Control, FlashGuard, FanStations
  <2>5. flash2[p] >= FlashSeconds /\ flash2[p] \in 0 .. FlashSeconds
    BY <1>0, <2>2, <2>4 DEF MayLeaveFan, FlashComplete, ActiveFlash, IInv, TypeOK
  <2>6. Outfed < p /\ p <= infed
    BY <1>3, LineIs DEF JInv
  <2>7. StageOf(p) = 6
    BY <2>2, <2>5, <2>6, StageOnLine DEF JInv
  <2>8. StageOf(p)' = 7
    BY <1>3 DEF StageOf
  <2> QED
    BY <1>0, <1>3, <2>7, <2>8 DEF GoesOnward, PutsOut
<1>4. CASE ~(p = infed + 1 /\ infed' = infed + 1 /\ infed < declared) /\ ~(p = occ["F2"] /\ p \in shipped' /\ p \notin shipped)
  <2>1. p \in shipped' <=> p \in shipped
    BY <1>1, <1>4
  <2>2. p > infed' <=> p > infed
    BY <1>0, <1>1, <1>4 DEF Parts
  <2>3. coats'[p] = coats[p]
    OBVIOUS
  <2> QED
    BY <1>0, <2>1, <2>2, <2>3, StayingDries
<1> QED
  BY <1>2, <1>3, <1>4

LEMMA EveryoneGoesOn ==
  ASSUME JInv, IInv', [SteadyNext]_vars, declared' = declared, NEW p \in Parts
  PROVE  GoesOnward(p)
<1>0. IInv /\ TimersGrow
  BY PartsMove DEF JInv
<1>1. CASE UNCHANGED <<occ, infed, shipped>>
  <2>1. p \in shipped' <=> p \in shipped
    BY <1>1
  <2>2. p > infed' <=> p > infed
    BY <1>1
  <2>3. CASE coats'[p] = coats[p]
    BY <1>0, <2>1, <2>2, <2>3, StayingDries
  <2>4. CASE coats'[p] # coats[p]
    <3>1. Sprayed
      BY <1>0, <2>4, PartsMove
    <3>2. p = occ["O"]
      BY <1>0, <2>4, <3>1 DEF Sprayed, IInv, TypeOK
    <3> QED
      BY <1>0, <3>1, <3>2, SprayedGoesOn
  <2> QED
    BY <2>3, <2>4
<1>2. CASE /\ Ph = "moving" /\ inflight = LiveMoves /\ UNCHANGED <<declared, coats>>
           /\ occ' = Moved(LiveMoves)
           /\ infed' = MovedInfed(LiveMoves) /\ shipped' = MovedShipped(LiveMoves)
  BY <1>0, <1>2, CarriedGoesOn
<1> QED
  BY <1>0, <1>1, <1>2, BooksMove

-----------------------------------------------------------------------------
(***************************************************************************)
(* The refinement.                                                          *)
(***************************************************************************)
\* What PartJourney says of one state.
LEMMA JourneyIsOrderly == JInv => Journey!NoOvertaking /\ Journey!HasRoom
<1> SUFFICES ASSUME JInv PROVE Journey!NoOvertaking /\ Journey!HasRoom
  OBVIOUS
<1>1. Cardinality(Tracked) = 3
  <2>1. Cardinality({"F1"}) = 1
    BY FS_Singleton
  <2>a. IsFiniteSet({"F1"})
    BY FS_Singleton
  <2>2. IsFiniteSet({"F1"}) /\ IsFiniteSet({"F1"} \cup {"O"})
    BY <2>a, FS_AddElement
  <2>3. {"F1", "O"} = {"F1"} \cup {"O"} /\ Tracked = {"F1", "O"} \cup {"F2"}
    BY DEF Tracked
  <2>4. Cardinality({"F1"} \cup {"O"}) = Cardinality({"F1"}) + 1
    BY <2>2, FS_AddElement
  <2>5. Cardinality({"F1", "O"} \cup {"F2"}) = Cardinality({"F1", "O"}) + 1
    BY <2>2, <2>3, FS_AddElement
  <2> QED
    BY <2>1, <2>3, <2>4, <2>5
<1>2. Journey!Parts = Parts
  BY DEF Journey!Parts, Parts
<1>3. \A p, q \in Parts : p < q => StageOf(p) >= StageOf(q)
  BY ProgressInOrder
<1>4. \A p, q \in Parts : StageOf(p) \in 2 .. 6 /\ StageOf(q) \in 2 .. 6 => q - p < 3
  BY LineHasRoom
<1>5. Journey!NoOvertaking
  BY <1>2, <1>3 DEF Journey!NoOvertaking
<1>6. Journey!HasRoom
  BY <1>1, <1>2, <1>4 DEF Journey!HasRoom, Journey!Raw, Journey!Dry2
<1> QED
  BY <1>5, <1>6

\* No two parts go on that may not.
LEMMA GoOnTogether ==
  ASSUME JInv, NEW p \in Parts, NEW q \in Parts, p # q, GoesOnward(p), GoesOnward(q),
         StageOf(p)' # StageOf(p), StageOf(q)' # StageOf(q)
  PROVE  /\ StageOf(p) \in {2, 4} => StageOf(q) \in {3, 5}
         /\ StageOf(p) # StageOf(q) \/ StageOf(p) \in {3, 5}
<1>1. /\ Dries1(p) \/ CoatedAt(p) \/ TakesIn(p) \/ PutsOut(p)
      /\ Dries1(q) \/ CoatedAt(q) \/ TakesIn(q) \/ PutsOut(q)
  BY DEF GoesOnward
<1> QED
  BY <1>1 DEF Dries1, CoatedAt, TakesIn, PutsOut

LEMMA StepsTravel ==
  ASSUME JInv, JInv', [SteadyNext]_vars, declared' = declared
  PROVE  Journey!Travel
<1>1. Journey!Parts = Parts
  BY DEF Journey!Parts, Parts
<1>2. \A p \in Parts : GoesOnward(p)
  BY EveryoneGoesOn DEF JInv
<1>3. \A p \in Parts : Journey!Goes(p) <=> StageOf(p)' # StageOf(p)
  BY DEF Journey!Goes
<1>4. (Journey!NoOvertaking /\ Journey!HasRoom)'
  BY JourneyIsOrderly, PTL
<1>5. ASSUME NEW p \in Parts, Journey!Goes(p)
      PROVE  StageOf(p) \notin {0, 7} /\ StageOf(p)' = StageOf(p) + 1
  BY <1>2, <1>3, <1>5 DEF GoesOnward, Dries1, CoatedAt, TakesIn, PutsOut
<1>6. ASSUME NEW p \in Parts, NEW q \in Parts, Journey!Goes(p), Journey!Goes(q), p # q
      PROVE  /\ StageOf(p) \in {2, 4} => StageOf(q) \in {3, 5}
             /\ StageOf(p) # StageOf(q) \/ StageOf(p) \in {3, 5}
  BY <1>2, <1>3, <1>6, GoOnTogether
<1>7. \A p \in Parts : /\ [x \in Parts |-> StageOf(x)][p] = StageOf(p)
                       /\ [x \in Parts |-> StageOf(x)]'[p] = StageOf(p)'
  OBVIOUS
<1> QED
  BY <1>1, <1>4, <1>5, <1>6, <1>7
     DEF Journey!Travel, Journey!New, Journey!Out, Journey!Raw, Journey!Dry1, Journey!Wet1, Journey!Wet2

LEMMA DeclareTravels ==
  ASSUME JInv, IInv', NEW n \in Parts, SteadyDeclare(n)
  PROVE  \E k \in 0 .. MaxParts : Journey!Declare(k)
<1>1. /\ declared' = declared + n /\ UNCHANGED <<occ, infed, shipped, partVars>>
      /\ declared \in Nat /\ infed \in Nat /\ infed <= declared /\ n \in Nat
      /\ declared' \in 0 .. MaxParts /\ declared' % 2 = 0
  BY DEF SteadyDeclare, Declare, JInv, IInv, TypeOK, Pairing, Parts
<1>2. \A p \in Parts : p \in shipped => p <= infed
  BY LineIs DEF JInv, Parts
<1>3. \A p \in Parts : StageOf(p)' = IF p <= declared' /\ StageOf(p) = 0 THEN 1 ELSE StageOf(p)
  BY <1>1, <1>2 DEF StageOf, Parts, partVars
<1>4. Journey!Declare(declared')
  BY <1>1, <1>3 DEF Journey!Declare, Journey!New, Journey!Queued, Journey!Parts, Parts
<1> QED
  BY <1>1, <1>4

LEMMA InitTravels == Init => Journey!Init
BY DEF Init, Journey!Init, Journey!New, Journey!Parts, Parts, StageOf

LEMMA JourneyStep == JInv /\ JInv' /\ [SteadyNext]_vars => [Journey!Next]_[p \in Parts |-> StageOf(p)]
<1> SUFFICES ASSUME JInv, JInv', [SteadyNext]_vars
             PROVE  Journey!Next
  OBVIOUS
<1>1. CASE declared' = declared
  BY <1>1, StepsTravel DEF Journey!Next
<1>2. CASE \E n \in Parts : SteadyDeclare(n)
  BY <1>2, DeclareTravels DEF Journey!Next, JInv
<1>3. CASE ~ \E n \in Parts : SteadyDeclare(n)
  <2>1. declared' = declared
    <3>1. CASE Step
      BY <3>1 DEF Step, IdleTick, Tick, StayFaulted, ExternalFault, EnterFault, Dispatch,
             MismatchFault, AwaitCompletions, RoleFault, SkipWork, StartWork, GuardsPass,
             CommandShutter, NothingToMove, Advance, ArrivalFault, Arrive, SetFans, Blocked,
             bookVars
    <3>2. ASSUME NEW seen \in SUBSET Tracked, SteadyResume(seen)
          PROVE  declared' = declared
      BY <3>2 DEF SteadyResume, Resume
    <3> QED
      BY <1>3, <3>1, <3>2 DEF SteadyNext, vars, bookVars
  <2> QED
    BY <2>1, StepsTravel DEF Journey!Next
<1> QED
  BY <1>2, <1>3

\* In every behaviour the pattern holds, with the parts in order and their coats fresh.
LEMMA JourneyKept == SteadySpec => []JInv
<1>1. Init => InOrder /\ Fresh
  BY DEF Init, InOrder, Fresh, Tracked
<1>2. IInv /\ InOrder /\ Fresh /\ IInv' /\ [SteadyNext]_vars => (InOrder /\ Fresh)'
  BY StepInOrder, FreshKept DEF JInv
<1>3. SteadySpec => [](InOrder /\ Fresh)
  BY <1>1, <1>2, PatternKept, PTL DEF SteadySpec
<1>4. IInv /\ InOrder /\ Fresh => JInv
  BY DEF JInv
<1> QED
  BY <1>3, <1>4, PatternKept, PTL

(***************************************************************************)
(* Every part, in every behaviour with batches, faults and recoveries, goes *)
(* through coat 1, its flash, coat 2, its flash and out, one stage at a     *)
(* time, none passing another: Steady implements PartJourney, for every     *)
(* number of parts, flash time and set of readings.                         *)
(***************************************************************************)
THEOREM SteadyIsJourney == SteadySpec => PartsTravel
<1>1. Init => Journey!Init
  BY InitTravels
<1> QED
  BY <1>1, JourneyStep, JourneyKept, PTL DEF SteadySpec, PartsTravel, Journey!Spec

(***************************************************************************)
(* No part passes another, in place or in progress: of two parts the one    *)
(* declared first is never a coat or a flash behind; and the parts on the   *)
(* line at any one time are neighbours, no more than it has places.         *)
(***************************************************************************)
THEOREM NobodyOvertakes == SteadySpec => [](Journey!NoOvertaking /\ Journey!HasRoom)
BY JourneyKept, JourneyIsOrderly, PTL
=============================================================================
