------------------------------ MODULE CalmProofs ------------------------------
(***************************************************************************)
(* The undisturbed line: Line with an operator who pauses and recovers but  *)
(* never halts, for every number of parts and pauses and every flash time.  *)
(* The four-beat pattern of SteadyProofs, a statement about the machine's   *)
(* books, is joined to the plant: what the machine believes is what stands  *)
(* on the belts, and what its guards saw still holds when the devices act.  *)
(* So the line with its threads refines Steady, and PartJourney through it. *)
(***************************************************************************)
EXTENDS LineProofs, SteadyProofs

USE DEF NoPart

-----------------------------------------------------------------------------
(***************************************************************************)
(* The train move, seen from the plant. `gone` are the stations whose parts *)
(* have left, `air` those whose parts are between two stations.             *)
(***************************************************************************)
Standing(gone, air) ==
  [d \in Tracked |-> IF Feeder(beat, d) \in gone \ air THEN Carried(Feeder(beat, d))
                     ELSE IF d \in gone THEN NoPart ELSE occ[d]]

Aloft(air) ==
  {<<d, Carried(Feeder(beat, d))>> : d \in {x \in Stations : Feeder(beat, x) \in air}}

Started(z) == IF z = "Z1" THEN at # "start" ELSE at = "wait"

\* The edge zone z was armed for has come.
EdgeCame(z, gone, air) ==
  IF StopAt(cur, z) = "F2_clears" THEN "F2" \in gone
                                  ELSE Feeder(beat, StopAt(cur, z)) \in gone \ air

\* Nobody has left, or the newcomer alone, onto an empty F1 under Z1, or everybody.
Stage(gone) ==
  \/ gone = {}
  \/ gone = {"IN"} /\ "IN" \in inflight /\ "F1" \notin inflight /\ at # "start"
  \/ gone = inflight /\ at = "wait"

Underway(gone, air) ==
  /\ phys = Standing(gone, air)
  /\ fed = IF "IN" \in gone THEN infed + 1 ELSE infed
  /\ IF air = {} THEN Crossing = {} ELSE transit = Aloft(air)
  /\ \A z \in {"Z1", "Z2"} :
       z \in belts <=> Started(z) /\ StopAt(cur, z) # "none" /\ ~EdgeCame(z, gone, air)
  /\ "feed" \in belts <=> at # "start" /\ "IN" \in inflight

Before == phys = occ /\ fed = infed /\ Crossing = {} /\ belts = {}
After  == phys = Moved(inflight) /\ fed = MovedInfed(inflight) /\ Crossing = {} /\ belts = {}

-----------------------------------------------------------------------------
(***************************************************************************)
(* The inductive invariant, on top of the pattern and of LineProofs.        *)
(***************************************************************************)
\* The only fault is that of a train move judged by a picture read before it ended.
Undisturbed ==
  /\ latch => phase = "faulted"
  /\ cur # Idle => live
  /\ phase = "faulted" => faultPhase = "moving" /\ inflight # {} /\ cur = Idle
  /\ inflight # {} /\ phase = "moving" => pending = 1
  /\ \A i \in Queued \cup {cur} :
       i.op = "train" => i = AdvanceTrain(beat, inflight) /\ inflight # {}

Truth ==
  IF cur.op = "train"
  THEN \E gone \in SUBSET inflight : \E air \in SUBSET gone : Stage(gone) /\ Underway(gone, air)
  ELSE IF inflight # {} /\ queue = <<>> THEN After ELSE Before

\* The picture a tick acts on is older than the act, and still true outside a train move.
Seen ==
  snap.read /\ phase \notin {"moving", "faulted"} =>
    /\ snap.s.occupied = {st \in Tracked : occ[st] # NoPart}
    /\ phase = "robot_work" => snap.s.shutter = shutter

FanOff == SetFan("F1", FALSE)

SprayReady ==
  /\ phase = "await_guards" /\ occ["O"] # NoPart
  /\ shutter = "closed" /\ shutterTo = "closed"

NotBlown == "F1" \in fans /\ occ["F1"] # NoPart => ~wet[occ["F1"]]

\* From the batch's emission to the end of the burst the shutter stays closed, and the F1
\* fan is off, or goes off first, or has nobody wet to blow on.
SprayGuarded ==
  /\ gun <=> cur.op = "spray" /\ at = "wait"
  /\ cur.op = "spray" => SprayReady /\ NotBlown
  /\ \A i \in 1 .. Len(queue) : queue[i].op = "spray" =>
       /\ SprayReady
       /\ NotBlown \/ cur = FanOff \/ \E j \in 1 .. i - 1 : queue[j] = FanOff
       /\ cur.op = "fan" => ~cur.on
       /\ \A j \in 1 .. i - 1 : queue[j].op = "fan" => ~queue[j].on

Owes(st) == occ[st] # NoPart /\ wet[occ[st]]

\* Whoever owes flash time at a fan station has the fan, or has it coming.
FansDue ==
  \A st \in FanStations :
    /\ phase \in {"robot_work", "await_guards"} /\ Owes(st) =>
         \/ SetFan(st, TRUE) \in Queued \cup {cur}
         \/ st \in fans /\ SetFan(st, FALSE) \notin Queued \cup {cur}
    /\ cur = SetFan(st, TRUE) => SetFan(st, FALSE) \notin Queued
    /\ \A i, j \in 1 .. Len(queue) :
         queue[i] = SetFan(st, TRUE) /\ i < j => queue[j] # SetFan(st, FALSE)

Pattern == IInv /\ WetInv
Calm == Undisturbed /\ Truth /\ Seen /\ SprayGuarded /\ FansDue /\ OnlyFinishedLeave

CalmInv == Pattern /\ LInv /\ Calm

-----------------------------------------------------------------------------
(***************************************************************************)
(* What the pattern says of a train in hand.                                *)
(***************************************************************************)
Cargo ==
  /\ beat \in Beats
  /\ inflight \subseteq {"IN", "F1", "O", "F2"}
  /\ \A st \in Tracked : occ[st] \in Parts \cup {NoPart} /\ (st \in inflight <=> occ[st] # NoPart)
  /\ "IN" \in inflight <=> beat \in {"P3", "P4"} /\ infed < declared
  /\ beat = "P2" => occ["F1"] = NoPart
  /\ beat = "P3" => occ["F2"] = NoPart
  /\ infed \in Nat /\ declared \in Nat

\* Who feeds whom.
LEMMA FeederIs ==
  /\ beat \in {"P1", "P3", "P4"} => Feeder(beat, "O") = "F1" /\ Feeder(beat, "F2") = "O"
  /\ beat = "P1" => Feeder(beat, "F1") = "none" /\ Feeder(beat, "OUT") = "F2"
  /\ beat = "P3" => Feeder(beat, "F1") = "IN" /\ Feeder(beat, "OUT") = "none"
  /\ beat = "P4" => Feeder(beat, "F1") = "IN" /\ Feeder(beat, "OUT") = "F2"
  /\ beat = "P2" => /\ Feeder(beat, "F1") = "O" /\ Feeder(beat, "O") = "F2"
                    /\ Feeder(beat, "F2") = "none" /\ Feeder(beat, "OUT") = "none"
  /\ Feeder(beat, "IN") = "none"
BY DEF Feeder

\* The train carries whoever stands at a station, and the head of the queue if the beat
\* takes one in.
LEMMA CargoIs ==
  ASSUME IInv, inflight # {}, phase = "moving"
  PROVE  Cargo
<1>1. Ph = "moving" /\ Shown = beat /\ inflight = LiveMoves
  BY DEF IInv, Control, Ph, Shown
<1>2. /\ beat \in Beats /\ infed \in Nat /\ declared \in Nat
      /\ \A st \in Tracked : occ[st] \in Parts \cup {NoPart}
  BY DEF IInv, TypeOK
<1>3. /\ beat = "P2" => occ["F1"] = NoPart
      /\ beat = "P3" => occ["F2"] = NoPart
  BY <1>1 DEF IInv, Picture, SlotCoats, Tracked
<1>4. /\ \A st \in Tracked : Loaded(st) <=> occ[st] # NoPart
      /\ Loaded("IN") <=> infed < declared
  BY DEF Loaded, Tracked
<1>5. \A st : st \in inflight <=> st \in Sources(beat) /\ Loaded(st)
  BY <1>1 DEF LiveMoves
<1>6. beat \in {"P1", "P2", "P3", "P4"}
  BY <1>2 DEF Beats
<1>7. inflight \subseteq {"IN", "F1", "O", "F2"}
  BY <1>5, <1>6, SourcesAre
<1>8. \A st \in Tracked : st \in inflight <=> occ[st] # NoPart
  BY <1>3, <1>4, <1>5, <1>6, SourcesAre DEF Tracked
<1>9. "IN" \in inflight <=> beat \in {"P3", "P4"} /\ infed < declared
  BY <1>4, <1>5, <1>6, SourcesAre
<1> QED
  BY <1>2, <1>3, <1>7, <1>8, <1>9 DEF Cargo

\* The picture once everybody has landed is the move's.
LEMMA AllLanded ==
  ASSUME Cargo
  PROVE  /\ Moved(inflight) = Standing(inflight, {})
         /\ MovedInfed(inflight) = IF "IN" \in inflight THEN infed + 1 ELSE infed
<1>1. \A st \in inflight : Loaded(st)
  BY DEF Cargo, Loaded, Tracked
<1>2. ASSUME NEW d \in Tracked
      PROVE  Delivers(inflight, d) <=> Feeder(beat, d) \in inflight
  BY <1>1 DEF Delivers
<1> QED
  BY <1>1, <1>2 DEF Moved, MovedInfed, Standing

\* Every station has one destination in a beat.
Dest(st) == IF beat = "P2" THEN IF st = "O" THEN "F1" ELSE "O"
            ELSE IF st = "IN" THEN "F1" ELSE IF st = "F1" THEN "O"
            ELSE IF st = "O" THEN "F2" ELSE "OUT"

LEMMA DestIs ==
  ASSUME Cargo
  PROVE  /\ \A st \in inflight : Dest(st) \in Stations /\ Feeder(beat, Dest(st)) = st
         /\ \A d \in Stations : Feeder(beat, d) \in inflight => d = Dest(Feeder(beat, d))
<1>1. beat \in {"P1", "P2", "P3", "P4"} /\ inflight \subseteq {"IN", "F1", "O", "F2"}
  BY DEF Cargo, Beats
<1>2. beat = "P2" => "IN" \notin inflight /\ "F1" \notin inflight
  BY DEF Cargo, Tracked
<1>3. beat = "P3" => "F2" \notin inflight
  BY DEF Cargo, Tracked
<1>4. beat = "P1" => "IN" \notin inflight
  BY DEF Cargo
<1>5. ASSUME NEW st \in inflight
      PROVE  Dest(st) \in {"F1", "O", "F2", "OUT"} /\ Feeder(beat, Dest(st)) = st
  BY <1>1, <1>2, <1>3, <1>4, FeederIs DEF Dest
<1>6. ASSUME NEW d \in {"F1", "O", "F2", "IN", "OUT"}, Feeder(beat, d) \in inflight
      PROVE  d = Dest(Feeder(beat, d))
  BY <1>1, <1>2, <1>3, <1>4, <1>6, FeederIs DEF Dest
<1> QED
  BY <1>5, <1>6 DEF Stations, Tracked

-----------------------------------------------------------------------------
(***************************************************************************)
(* Which zones run.                                                         *)
(***************************************************************************)
Aboard == cur = AdvanceTrain(beat, inflight) /\ inflight # {} /\ Cargo

\* Where the zones stop.
LEMMA StopsAre ==
  ASSUME Aboard
  PROVE  /\ cur.op = "train" /\ cur.beat = beat /\ cur.moves = inflight
         /\ beat # "P2" =>
              /\ StopAt(cur, "Z1") = IF "IN" \in inflight THEN "F1"
                                     ELSE IF "F1" \in inflight THEN "O" ELSE "none"
              /\ StopAt(cur, "Z2") = IF "O" \in inflight THEN "F2"
                                     ELSE IF "F2" \in inflight THEN "F2_clears"
                                     ELSE IF "F1" \in inflight THEN "O" ELSE "none"
         /\ beat = "P2" =>
              /\ StopAt(cur, "Z1") = IF "O" \in inflight THEN "F1" ELSE "none"
              /\ StopAt(cur, "Z2") = IF "F2" \in inflight THEN "O"
                                     ELSE IF "O" \in inflight THEN "F1" ELSE "none"
<1>1. cur.op = "train" /\ cur.beat = beat /\ cur.moves = inflight
  BY DEF Aboard, AdvanceTrain
<1> QED
  BY <1>1 DEF StopAt, Upstream, Crosses

\* A zone runs from its start to its edge.
LEMMA ZonesAre ==
  ASSUME Aboard, NEW gone \in SUBSET inflight, NEW air \in SUBSET gone, Underway(gone, air)
  PROVE  /\ beat # "P2" =>
              /\ "Z1" \in belts <=>
                   /\ at # "start"
                   /\ IF "IN" \in inflight THEN "IN" \notin gone \ air
                                           ELSE "F1" \in inflight /\ "F1" \notin gone \ air
              /\ "Z2" \in belts <=>
                   /\ at = "wait"
                   /\ IF "O" \in inflight THEN "O" \notin gone \ air
                      ELSE IF "F2" \in inflight THEN "F2" \notin gone
                      ELSE "F1" \in inflight /\ "F1" \notin gone \ air
         /\ beat = "P2" =>
              /\ "Z1" \in belts <=> at # "start" /\ "O" \in inflight /\ "O" \notin gone \ air
              /\ "Z2" \in belts <=>
                   /\ at = "wait"
                   /\ IF "F2" \in inflight THEN "F2" \notin gone \ air
                                           ELSE "O" \in inflight /\ "O" \notin gone \ air
         /\ "feed" \in belts <=> at # "start" /\ "IN" \in inflight
<1>1. /\ \A z \in {"Z1", "Z2"} :
           z \in belts <=> Started(z) /\ StopAt(cur, z) # "none" /\ ~EdgeCame(z, gone, air)
      /\ "feed" \in belts <=> at # "start" /\ "IN" \in inflight
  BY DEF Underway
<1>2. (Started("Z1") <=> at # "start") /\ (Started("Z2") <=> at = "wait")
  BY DEF Started
<1>b. beat \in {"P1", "P2", "P3", "P4"} /\ ("IN" \in inflight => beat \in {"P3", "P4"})
  BY DEF Aboard, Cargo, Beats
<1>3. beat # "P2" =>
        /\ EdgeCame("Z1", gone, air) <=>
             IF "IN" \in inflight THEN "IN" \in gone \ air
             ELSE IF "F1" \in inflight THEN "F1" \in gone \ air ELSE EdgeCame("Z1", gone, air)
        /\ EdgeCame("Z2", gone, air) <=>
             IF "O" \in inflight THEN "O" \in gone \ air
             ELSE IF "F2" \in inflight THEN "F2" \in gone
             ELSE IF "F1" \in inflight THEN "F1" \in gone \ air ELSE EdgeCame("Z2", gone, air)
  BY <1>b, StopsAre, FeederIs DEF EdgeCame
<1>4. beat = "P2" =>
        /\ "O" \in inflight => (EdgeCame("Z1", gone, air) <=> "O" \in gone \ air)
        /\ "F2" \in inflight => (EdgeCame("Z2", gone, air) <=> "F2" \in gone \ air)
        /\ "F2" \notin inflight /\ "O" \in inflight =>
             (EdgeCame("Z2", gone, air) <=> "O" \in gone \ air)
  BY StopsAre, FeederIs DEF EdgeCame
<1>5. beat # "P2" =>
        /\ StopAt(cur, "Z1") # "none" <=> "IN" \in inflight \/ "F1" \in inflight
        /\ StopAt(cur, "Z2") # "none" <=> "O" \in inflight \/ "F2" \in inflight \/ "F1" \in inflight
  BY StopsAre
<1>6. beat = "P2" =>
        /\ StopAt(cur, "Z1") # "none" <=> "O" \in inflight
        /\ StopAt(cur, "Z2") # "none" <=> "F2" \in inflight \/ "O" \in inflight
  BY StopsAre
<1>7. /\ "Z1" \in belts <=> at # "start" /\ StopAt(cur, "Z1") # "none" /\ ~EdgeCame("Z1", gone, air)
      /\ "Z2" \in belts <=> at = "wait" /\ StopAt(cur, "Z2") # "none" /\ ~EdgeCame("Z2", gone, air)
  BY <1>1, <1>2
<1>8. beat # "P2" =>
        /\ "Z1" \in belts <=>
             /\ at # "start"
             /\ IF "IN" \in inflight THEN "IN" \notin gone \ air
                                     ELSE "F1" \in inflight /\ "F1" \notin gone \ air
        /\ "Z2" \in belts <=>
             /\ at = "wait"
             /\ IF "O" \in inflight THEN "O" \notin gone \ air
                ELSE IF "F2" \in inflight THEN "F2" \notin gone
                ELSE "F1" \in inflight /\ "F1" \notin gone \ air
  BY <1>3, <1>5, <1>7
<1>9. beat = "P2" =>
        /\ "Z1" \in belts <=> at # "start" /\ "O" \in inflight /\ "O" \notin gone \ air
        /\ "Z2" \in belts <=>
             /\ at = "wait"
             /\ IF "F2" \in inflight THEN "F2" \notin gone \ air
                                     ELSE "O" \in inflight /\ "O" \notin gone \ air
  BY <1>4, <1>6, <1>7
<1> QED
  BY <1>1, <1>8, <1>9

\* Who stands where, station by station.
LEMMA StandingAt ==
  ASSUME NEW gone, NEW air, NEW d \in Tracked
  PROVE  /\ Feeder(beat, d) \in gone /\ Feeder(beat, d) \notin air =>
              Standing(gone, air)[d] = Carried(Feeder(beat, d))
         /\ Feeder(beat, d) \notin gone \/ Feeder(beat, d) \in air =>
              /\ d \in gone => Standing(gone, air)[d] = NoPart
              /\ d \notin gone => Standing(gone, air)[d] = occ[d]
BY DEF Standing

\* Who stands where while everybody that left has landed.
LEMMA StandsAre ==
  ASSUME Aboard, NEW gone \in SUBSET inflight, Underway(gone, {})
  PROVE  /\ gone = {} => \A d \in Tracked : phys[d] = occ[d]
         /\ gone = {"IN"} => /\ phys["F1"] # NoPart /\ phys["O"] = occ["O"]
                             /\ phys["F2"] = occ["F2"]
         /\ fed = IF "IN" \in gone THEN infed + 1 ELSE infed
<1>1. /\ phys = Standing(gone, {})
      /\ fed = IF "IN" \in gone THEN infed + 1 ELSE infed
  BY DEF Underway
<1>3. ASSUME gone = {}, NEW d \in Tracked
      PROVE  phys[d] = occ[d]
  BY <1>1, <1>3, StandingAt
<1>4. ASSUME gone = {"IN"}
      PROVE  phys["F1"] # NoPart /\ phys["O"] = occ["O"] /\ phys["F2"] = occ["F2"]
  <2>1. beat \in {"P3", "P4"} /\ infed \in Nat
    BY <1>4 DEF Aboard, Cargo
  <2>2. Feeder(beat, "F1") = "IN" /\ Feeder(beat, "O") = "F1" /\ Feeder(beat, "F2") = "O"
    BY <2>1, FeederIs
  <2>3. Carried("IN") = infed + 1 /\ infed + 1 # 0
    BY <2>1 DEF Carried
  <2>4. phys["F1"] = Carried("IN")
    <3>1. "F1" \in Tracked /\ Feeder(beat, "F1") \in gone
      BY <1>4, <2>2 DEF Tracked
    <3>2. Feeder(beat, "F1") \notin {}
      OBVIOUS
    <3>3. Standing(gone, {})["F1"] = Carried(Feeder(beat, "F1"))
      BY <3>1, <3>2, StandingAt
    <3> QED
      BY <1>1, <2>2, <3>3
  <2>5. ASSUME NEW d \in {"O", "F2"}
        PROVE  phys[d] = occ[d]
    <3>1. d \in Tracked /\ Feeder(beat, d) \notin gone /\ d \notin gone
      BY <1>4, <2>2 DEF Tracked
    <3> QED
      BY <1>1, <3>1, StandingAt
  <2> QED
    BY <2>3, <2>4, <2>5
<1> QED
  BY <1>1, <1>3, <1>4

-----------------------------------------------------------------------------
(***************************************************************************)
(* Who leaves.                                                              *)
(***************************************************************************)
\* If nothing is between stations, nobody of the train is.
LEMMA NoneAloft ==
  ASSUME Cargo, NEW air \in SUBSET inflight, Aloft(air) = {}
  PROVE  air = {}
<1> SUFFICES ASSUME NEW st \in air PROVE FALSE
  OBVIOUS
<1>1. Dest(st) \in Stations /\ Feeder(beat, Dest(st)) \in air
  BY DestIs
<1>2. <<Dest(st), Carried(Feeder(beat, Dest(st)))>> \in Aloft(air)
  BY <1>1 DEF Aloft
<1> QED
  BY <1>2

\* The stations a part can leave, on the way down and up.
LEMMA LeavesAre ==
  ASSUME Aboard
  PROVE  /\ beat # "P2" =>
              /\ Leaves("O") <=> phys["O"] # NoPart /\ "Z2" \in belts
              /\ Leaves("F2") <=> phys["F2"] # NoPart /\ "Z2" \in belts
              /\ Leaves("F1") <=> phys["F1"] # NoPart /\ "Z1" \in belts /\ "Z2" \in belts
              /\ Leaves("IN") <=> /\ fed < declared /\ "Z1" \in belts /\ "feed" \in belts
                                  /\ phys["F1"] = NoPart \/ "Z2" \in belts
         /\ beat = "P2" =>
              /\ Leaves("O") <=> /\ phys["O"] # NoPart /\ "Z1" \in belts /\ "Z2" \in belts
                                 /\ phys["F1"] = NoPart
              /\ Leaves("F2") <=> /\ phys["F2"] # NoPart /\ "Z2" \in belts
                                  /\ \/ phys["O"] = NoPart
                                     \/ "Z1" \in belts /\ phys["F1"] = NoPart
              /\ ~Leaves("F1") /\ ~Leaves("IN")
<1>1. Down <=> beat # "P2"
  BY StopsAre DEF Down, Upstream
<1>2. CASE beat # "P2"
  <2>1. Down
    BY <1>1, <1>2
  <2>2. Leaves("O") <=> phys["O"] # NoPart /\ "Z2" \in belts
    BY <2>1 DEF Leaves
  <2>3. Leaves("F2") <=> phys["F2"] # NoPart /\ "Z2" \in belts
    BY <2>1 DEF Leaves
  <2>4. Leaves("F1") <=> phys["F1"] # NoPart /\ "Z1" \in belts /\ "Z2" \in belts
    BY <2>1 DEF Leaves
  <2>5. Leaves("IN") <=> /\ fed < declared /\ "Z1" \in belts /\ "feed" \in belts
                         /\ phys["F1"] = NoPart \/ "Z2" \in belts
    BY <2>1 DEF Leaves
  <2> QED
    BY <1>2, <2>2, <2>3, <2>4, <2>5
<1>3. CASE beat = "P2"
  <2>1. ~Down
    BY <1>1, <1>3
  <2> QED
    BY <1>3, <2>1 DEF Leaves
<1> QED
  BY <1>2, <1>3

\* Who leaves, by who has left already and how many zones run.
LEMMA WhoLeaves ==
  ASSUME Aboard, NEW gone \in SUBSET inflight, Stage(gone), Underway(gone, {})
  PROVE  /\ gone = {} /\ at = "wait" => Leaving = inflight
         /\ gone = {} /\ at # "wait" =>
              \/ Leaving = {}
              \/ Leaving = {"IN"} /\ "IN" \in inflight /\ "F1" \notin inflight /\ at # "start"
         /\ gone = {"IN"} /\ gone # inflight /\ at = "wait" => Leaving = inflight \ {"IN"}
         /\ gone = {"IN"} /\ gone # inflight /\ at # "wait" => Leaving = {}
         /\ gone = inflight => Leaving = {}
<1>1. \A st : st \in Leaving <=> st \in {"IN", "F1", "O", "F2"} /\ Leaves(st)
  BY DEF Leaving, Stations, Tracked
<1>2. /\ beat \in {"P1", "P2", "P3", "P4"}
      /\ inflight \subseteq {"IN", "F1", "O", "F2"} /\ inflight # {}
      /\ "F1" \in inflight <=> occ["F1"] # NoPart
      /\ "O" \in inflight <=> occ["O"] # NoPart
      /\ "F2" \in inflight <=> occ["F2"] # NoPart
      /\ "IN" \in inflight <=> beat \in {"P3", "P4"} /\ infed < declared
      /\ beat = "P2" => occ["F1"] = NoPart
      /\ beat = "P3" => occ["F2"] = NoPart
  BY DEF Aboard, Cargo, Beats, Tracked
<1>3. /\ gone = {} => /\ phys["F1"] = occ["F1"] /\ phys["O"] = occ["O"] /\ phys["F2"] = occ["F2"]
                      /\ fed = infed
      /\ gone = {"IN"} => phys["F1"] # NoPart /\ phys["O"] = occ["O"] /\ phys["F2"] = occ["F2"]
  BY StandsAre DEF Tracked
<1>4. CASE gone = {} /\ at = "wait"
  <2>1. /\ beat # "P2" =>
             /\ "Z1" \in belts <=> "IN" \in inflight \/ "F1" \in inflight
             /\ "Z2" \in belts <=> "O" \in inflight \/ "F2" \in inflight \/ "F1" \in inflight
        /\ beat = "P2" =>
             /\ "Z1" \in belts <=> "O" \in inflight
             /\ "Z2" \in belts <=> "F2" \in inflight \/ "O" \in inflight
        /\ "feed" \in belts <=> "IN" \in inflight
    BY <1>4, ZonesAre
  <2>2. \A st \in {"IN", "F1", "O", "F2"} : Leaves(st) <=> st \in inflight
    BY <1>2, <1>3, <1>4, <2>1, LeavesAre
  <2> QED
    BY <1>1, <1>2, <1>4, <2>2
<1>5. CASE gone = {} /\ at # "wait"
  <2>1. "Z2" \notin belts /\ ("feed" \in belts <=> at # "start" /\ "IN" \in inflight)
    BY <1>2, <1>5, ZonesAre
  <2>2. ~Leaves("F1") /\ ~Leaves("O") /\ ~Leaves("F2")
    BY <2>1, LeavesAre
  <2>3. Leaves("IN") => "IN" \in inflight /\ at # "start" /\ "F1" \notin inflight
    BY <1>2, <1>3, <1>5, <2>1, LeavesAre
  <2> QED
    BY <1>1, <1>2, <1>5, <2>2, <2>3
<1>6. CASE gone = {"IN"} /\ gone # inflight
  <2>1. /\ "IN" \in inflight /\ "F1" \notin inflight /\ beat \in {"P3", "P4"}
        /\ "O" \in inflight \/ "F2" \in inflight
    BY <1>2, <1>6 DEF Stage
  <2>2. "Z1" \notin belts /\ ("Z2" \in belts <=> at = "wait")
    BY <1>6, <2>1, ZonesAre
  <2>3. /\ ~Leaves("F1") /\ ~Leaves("IN")
        /\ Leaves("O") <=> "O" \in inflight /\ at = "wait"
        /\ Leaves("F2") <=> "F2" \in inflight /\ at = "wait"
    BY <1>2, <1>3, <1>6, <2>1, <2>2, LeavesAre
  <2>4. at = "wait" => \A st \in {"IN", "F1", "O", "F2"} : Leaves(st) <=> st \in inflight \ {"IN"}
    BY <2>1, <2>3
  <2>5. at # "wait" => \A st \in {"IN", "F1", "O", "F2"} : ~Leaves(st)
    BY <2>3
  <2>6. at = "wait" => Leaving = inflight \ {"IN"}
    BY <1>1, <1>2, <2>4
  <2>7. at # "wait" => Leaving = {}
    BY <1>1, <2>5
  <2> QED
    BY <1>2, <1>6, <2>6, <2>7
<1>7. CASE gone = inflight
  <2>1. "Z1" \notin belts /\ "Z2" \notin belts
    BY <1>2, <1>7, ZonesAre
  <2>2. \A st \in {"IN", "F1", "O", "F2"} : ~Leaves(st)
    BY <1>2, <2>1, LeavesAre
  <2>3. Leaving = {}
    BY <1>1, <2>2
  <2>4. gone = {} => FALSE
    BY <1>2, <1>7
  <2> QED
    BY <1>7, <2>3, <2>4
<1> QED
  <2>1. gone = {} => at = "wait" \/ at # "wait"
    OBVIOUS
  <2> QED
    BY <1>4, <1>5, <1>6, <1>7 DEF Stage

-----------------------------------------------------------------------------
(***************************************************************************)
(* Parts leave and land.                                                    *)
(***************************************************************************)
\* The machine's side of the train does not change while the plant moves.
TrainHeld == UNCHANGED <<beat, phase, inflight, occ, declared, infed, cur, at, queue>>

\* The edges a zone waits for, after the step, are told by who has left and landed by then.
LEMMA HeldSame ==
  ASSUME TrainHeld, NEW gone, NEW air
  PROVE  /\ Standing(gone, air)' = Standing(gone, air)
         /\ Aloft(air)' = Aloft(air)
         /\ \A z \in {"Z1", "Z2"} :
              /\ Started(z)' <=> Started(z)
              /\ StopAt(cur, z)' = StopAt(cur, z)
              /\ EdgeCame(z, gone, air)' <=> EdgeCame(z, gone, air)
<1>1. UNCHANGED <<beat, phase, inflight, occ, declared, infed, cur, at, queue>>
  BY DEF TrainHeld
<1>2. Standing(gone, air)' = Standing(gone, air)
  BY <1>1 DEF Standing, Carried
<1>3. Aloft(air)' = Aloft(air)
  BY <1>1 DEF Aloft, Carried
<1>4. ASSUME NEW z \in {"Z1", "Z2"}
      PROVE  /\ Started(z)' <=> Started(z)
             /\ StopAt(cur, z)' = StopAt(cur, z)
             /\ EdgeCame(z, gone, air)' <=> EdgeCame(z, gone, air)
  <2>1. Started(z)' <=> Started(z)
    BY <1>1 DEF Started
  <2>2. StopAt(cur, z)' = StopAt(cur, z)
    BY <1>1
  <2>3. EdgeCame(z, gone, air)' <=> EdgeCame(z, gone, air)
    BY <1>1 DEF EdgeCame
  <2> QED
    BY <2>1, <2>2, <2>3
<1> QED
  BY <1>2, <1>3, <1>4

\* A part that leaves goes to where the beat sends it.
LEMMA AheadIsDest ==
  ASSUME Aboard, NEW st \in inflight
  PROVE  Ahead(st) = Dest(st)
<1>1. Down <=> beat # "P2"
  BY StopsAre DEF Down, Upstream
<1>2. st \in {"IN", "F1", "O", "F2"} /\ (beat = "P2" => st \in {"O", "F2"})
  BY DEF Aboard, Cargo, Tracked
<1>3. CASE beat # "P2"
  <2>1. Ahead(st) = [IN |-> "F1", F1 |-> "O", O |-> "F2", F2 |-> "OUT"][st]
    BY <1>1, <1>3 DEF Ahead
  <2> QED
    BY <1>2, <1>3, <2>1 DEF Dest
<1>4. CASE beat = "P2"
  <2>1. Ahead(st) = [F2 |-> "O", O |-> "F1"][st]
    BY <1>1, <1>4 DEF Ahead
  <2> QED
    BY <1>2, <1>4, <2>1 DEF Dest
<1> QED
  BY <1>3, <1>4

\* The parts of the stations L leave together.
LEMMA DepartUnderway ==
  ASSUME Aboard, TrainHeld, Depart, NEW gone \in SUBSET inflight, Underway(gone, {}),
         NEW L \in SUBSET inflight, L = Leaving, L # {}, L \cap gone = {},
         \A d \in L \cap Tracked : Feeder(beat, d) \notin gone
  PROVE  Underway(gone \cup L, L)'
<1>1. /\ phys = Standing(gone, {})
      /\ fed = IF "IN" \in gone THEN infed + 1 ELSE infed
      /\ \A z \in {"Z1", "Z2"} :
           z \in belts <=> Started(z) /\ StopAt(cur, z) # "none" /\ ~EdgeCame(z, gone, {})
      /\ "feed" \in belts <=> at # "start" /\ "IN" \in inflight
  BY DEF Underway
<1>2. /\ transit' = {<<Ahead(st), IF st = "IN" THEN fed + 1 ELSE phys[st]>> : st \in L}
      /\ phys' = [st \in Tracked |-> IF st \in L THEN NoPart ELSE phys[st]]
      /\ fed' = IF "IN" \in L THEN fed + 1 ELSE fed
      /\ belts' = {z \in belts : z = "feed" \/ cur.op # "train"
                                 \/ "F2" \notin L \/ StopAt(cur, z) # "F2_clears"}
  BY DEF Depart
<1>3. L \subseteq {"IN", "F1", "O", "F2"} /\ infed \in Nat
  BY DEF Aboard, Cargo
<1>4. ASSUME NEW st \in L
      PROVE  Carried(st) = IF st = "IN" THEN fed + 1 ELSE phys[st]
  <2>1. CASE st = "IN"
    BY <1>1, <1>4, <2>1 DEF Carried
  <2>2. CASE st # "IN"
    <3>1. st \in Tracked /\ st \notin gone /\ Feeder(beat, st) \notin gone
      BY <1>3, <2>2 DEF Tracked
    <3>2. phys[st] = occ[st]
      BY <1>1, <3>1, StandingAt
    <3> QED
      BY <2>2, <3>2 DEF Carried
  <2> QED
    BY <2>1, <2>2
<1>5. phys' = Standing(gone \cup L, L)
  <2>1. ASSUME NEW d \in Tracked
        PROVE  (IF d \in L THEN NoPart ELSE phys[d]) = Standing(gone \cup L, L)[d]
    <3>1. CASE d \in L
      <4>1. Feeder(beat, d) \notin gone \/ Feeder(beat, d) \in L
        BY <2>1, <3>1
      <4>2. Feeder(beat, d) \notin gone \cup L \/ Feeder(beat, d) \in L
        BY <4>1
      <4>3. d \in gone \cup L
        BY <3>1
      <4>4. Standing(gone \cup L, L)[d] = NoPart
        BY <4>2, <4>3, StandingAt
      <4> QED
        BY <3>1, <4>4
    <3>2. CASE d \notin L /\ Feeder(beat, d) \in gone
      <4>1. Feeder(beat, d) \notin {} /\ Feeder(beat, d) \in gone \cup L /\ Feeder(beat, d) \notin L
        BY <3>2
      <4>2. Standing(gone, {})[d] = Carried(Feeder(beat, d))
        BY <3>2, <4>1, StandingAt
      <4>3. Standing(gone \cup L, L)[d] = Carried(Feeder(beat, d))
        BY <4>1, StandingAt
      <4> QED
        BY <1>1, <3>2, <4>2, <4>3
    <3>3. CASE d \notin L /\ Feeder(beat, d) \notin gone
      <4>1. Feeder(beat, d) \notin gone \cup L \/ Feeder(beat, d) \in L
        BY <3>3
      <4>2. d \in gone <=> d \in gone \cup L
        BY <3>3
      <4>3. /\ d \in gone => Standing(gone, {})[d] = NoPart
            /\ d \notin gone => Standing(gone, {})[d] = occ[d]
        BY <3>3, StandingAt
      <4>4. /\ d \in gone => Standing(gone \cup L, L)[d] = NoPart
            /\ d \notin gone => Standing(gone \cup L, L)[d] = occ[d]
        BY <4>1, <4>2, StandingAt
      <4> QED
        BY <1>1, <3>3, <4>3, <4>4
    <3> QED
      BY <3>1, <3>2, <3>3
  <2>2. Standing(gone \cup L, L) = [d \in Tracked |-> Standing(gone \cup L, L)[d]]
    BY DEF Standing
  <2>3. [d \in Tracked |-> IF d \in L THEN NoPart ELSE phys[d]]
          = [d \in Tracked |-> Standing(gone \cup L, L)[d]]
    BY <2>1
  <2> QED
    BY <1>2, <2>2, <2>3
<1>6. fed' = IF "IN" \in gone \cup L THEN infed + 1 ELSE infed
  <2>1. CASE "IN" \in L
    <3>1. "IN" \notin gone /\ "IN" \in gone \cup L
      BY <2>1
    <3> QED
      BY <1>1, <1>2, <2>1, <3>1
  <2>2. CASE "IN" \notin L
    BY <1>1, <1>2, <2>2
  <2> QED
    BY <2>1, <2>2
<1>7. transit' = Aloft(L)
  <2>1. ASSUME NEW t \in transit'
        PROVE  t \in Aloft(L)
    <3>1. PICK st \in L : t = <<Ahead(st), IF st = "IN" THEN fed + 1 ELSE phys[st]>>
      BY <1>2
    <3>2. t = <<Dest(st), Carried(st)>>
      BY <1>4, <3>1, AheadIsDest
    <3>3. Dest(st) \in Stations /\ Feeder(beat, Dest(st)) = st
      BY DestIs DEF Aboard
    <3> QED
      BY <3>2, <3>3 DEF Aloft
  <2>2. ASSUME NEW t \in Aloft(L)
        PROVE  t \in transit'
    <3>1. PICK d \in Stations : Feeder(beat, d) \in L /\ t = <<d, Carried(Feeder(beat, d))>>
      BY DEF Aloft
    <3>2. d = Dest(Feeder(beat, d))
      BY <3>1, DestIs DEF Aboard
    <3>3. Ahead(Feeder(beat, d)) = d
      BY <3>1, <3>2, AheadIsDest
    <3>4. Carried(Feeder(beat, d)) =
            IF Feeder(beat, d) = "IN" THEN fed + 1 ELSE phys[Feeder(beat, d)]
      BY <1>4, <3>1
    <3> QED
      BY <1>2, <3>1, <3>3, <3>4
  <2> QED
    BY <2>1, <2>2
<1>8. ASSUME NEW z \in {"Z1", "Z2"}
      PROVE  z \in belts' <=> /\ Started(z) /\ StopAt(cur, z) # "none"
                              /\ ~EdgeCame(z, gone \cup L, L)
  <2>1. z # "feed" /\ cur.op = "train"
    BY StopsAre
  <2>2. CASE StopAt(cur, z) = "F2_clears"
    BY <1>1, <1>2, <2>1, <2>2 DEF EdgeCame
  <2>3. CASE StopAt(cur, z) # "F2_clears"
    <3>1. EdgeCame(z, gone \cup L, L) <=> EdgeCame(z, gone, {})
      BY <2>3 DEF EdgeCame
    <3> QED
      BY <1>1, <1>2, <2>1, <2>3, <3>1
  <2> QED
    BY <2>2, <2>3
<1>9. "feed" \in belts' <=> at # "start" /\ "IN" \in inflight
  BY <1>1, <1>2
<1>10. /\ phys' = Standing(gone \cup L, L)'
       /\ transit' = Aloft(L)'
       /\ \A z \in {"Z1", "Z2"} :
            (z \in belts)' <=> /\ Started(z)' /\ StopAt(cur, z)' # "none"
                               /\ ~EdgeCame(z, gone \cup L, L)'
  BY <1>5, <1>7, <1>8, HeldSame
<1>11. /\ fed' = IF "IN" \in gone \cup L THEN infed' + 1 ELSE infed'
       /\ "feed" \in belts' <=> at' # "start" /\ "IN" \in inflight'
  BY <1>6, <1>9 DEF TrainHeld
<1> QED
  BY <1>10, <1>11 DEF Underway

\* Where nobody is due, nothing changes; where somebody is, he stands after the step.
LEMMA LandsAt ==
  ASSUME Land, NEW st \in Tracked
  PROVE  /\ (\A t \in transit : t[1] # st) => phys'[st] = phys[st]
         /\ \A v : (\E t \in transit : t[1] = st) /\ (\A t \in transit : t[1] = st => t[2] = v)
                     => phys'[st] = v
<1>1. phys' = [x \in Tracked |-> IF \E t \in transit : t[1] = x
                                 THEN (CHOOSE t \in transit : t[1] = x)[2] ELSE phys[x]]
  BY DEF Land
<1>2. (\A t \in transit : t[1] # st) => phys'[st] = phys[st]
  BY <1>1
<1>3. ASSUME NEW v, \E t \in transit : t[1] = st, \A t \in transit : t[1] = st => t[2] = v
      PROVE  phys'[st] = v
  <2> DEFINE c == CHOOSE t \in transit : t[1] = st
  <2>1. c \in transit /\ c[1] = st
    BY <1>3
  <2>2. c[2] = v
    BY <1>3, <2>1
  <2>3. phys'[st] = c[2]
    BY <1>1, <1>3
  <2> QED
    BY <2>2, <2>3
<1> QED
  BY <1>2, <1>3

\* Only finished parts are on their way: nobody lands at a station, no zone stops.
LEMMA OnlyOut ==
  ASSUME Land, Crossing = {}, phys \in [Tracked -> Parts \cup {NoPart}]
  PROVE  phys' = phys /\ \A t \in transit : t[1] = "OUT"
<1>1. \A t \in transit : t[1] = "OUT"
  BY DEF Crossing
<1>2. \A st \in Tracked : phys'[st] = phys[st]
  <2> SUFFICES ASSUME NEW st \in Tracked PROVE phys'[st] = phys[st]
    OBVIOUS
  <2>1. \A t \in transit : t[1] # st
    BY <1>1 DEF Tracked
  <2> QED
    BY <2>1, LandsAt
<1>3. phys' = [st \in Tracked |-> phys'[st]]
  BY DEF Land
<1> QED
  BY <1>1, <1>2, <1>3

\* What was in the air stands at its station, and the zones whose edge it was have
\* stopped.
LEMMA LandUnderway ==
  ASSUME Aboard, TrainHeld, Land, phys \in [Tracked -> Parts \cup {NoPart}],
         NEW gone \in SUBSET inflight, NEW air \in SUBSET gone, Underway(gone, air)
  PROVE  Underway(gone, {})'
<1>1. /\ phys = Standing(gone, air)
      /\ fed = IF "IN" \in gone THEN infed + 1 ELSE infed
      /\ IF air = {} THEN Crossing = {} ELSE transit = Aloft(air)
      /\ \A z \in {"Z1", "Z2"} :
           z \in belts <=> Started(z) /\ StopAt(cur, z) # "none" /\ ~EdgeCame(z, gone, air)
      /\ "feed" \in belts <=> at # "start" /\ "IN" \in inflight
  BY DEF Underway
<1>2. /\ transit' = {} /\ fed' = fed
      /\ belts' = {z \in belts : z = "feed" \/ cur.op # "train"
                                 \/ ~\E t \in transit : t[1] = StopAt(cur, z)}
  BY DEF Land
<1>3. \A d \in Stations : (\E t \in transit : t[1] = d) /\ d # "OUT" => Feeder(beat, d) \in air
  <2>1. CASE air = {}
    BY <1>1, <2>1 DEF Crossing
  <2>2. CASE air # {}
    BY <1>1, <2>2 DEF Aloft
  <2> QED
    BY <2>1, <2>2
<1>4. \A d \in Stations : Feeder(beat, d) \in air => \E t \in transit : t[1] = d
  <2>1. ASSUME NEW d \in Stations, Feeder(beat, d) \in air
        PROVE  \E t \in transit : t[1] = d
    <3>1. <<d, Carried(Feeder(beat, d))>> \in transit
      BY <1>1, <2>1 DEF Aloft
    <3>2. <<d, Carried(Feeder(beat, d))>>[1] = d
      OBVIOUS
    <3> QED
      BY <3>1, <3>2
  <2> QED
    BY <2>1
<1>5. phys' = Standing(gone, {})
  <2>1. ASSUME NEW d \in Tracked
        PROVE  phys'[d] = Standing(gone, {})[d]
    <3>0. d \in Stations /\ d # "OUT"
      BY DEF Stations, Tracked
    <3>1. CASE Feeder(beat, d) \in air
      <4>1. \E t \in transit : t[1] = d
        BY <1>4, <3>0, <3>1
      <4>2. \A t \in transit : t[1] = d => t[2] = Carried(Feeder(beat, d))
        <5>1. transit = Aloft(air)
          BY <1>1, <3>1
        <5> QED
          BY <5>1 DEF Aloft
      <4>3. phys'[d] = Carried(Feeder(beat, d))
        BY <4>1, <4>2, LandsAt
      <4>4. Feeder(beat, d) \in gone /\ Feeder(beat, d) \notin {}
        BY <3>1
      <4> QED
        BY <4>3, <4>4, StandingAt
    <3>2. CASE Feeder(beat, d) \notin air
      <4>1. \A t \in transit : t[1] # d
        BY <1>3, <3>0, <3>2
      <4>2. phys'[d] = Standing(gone, air)[d]
        BY <1>1, <4>1, LandsAt
      <4>3. Standing(gone, air)[d] = Standing(gone, {})[d]
        <5>1. CASE Feeder(beat, d) \in gone
          <6>1. Feeder(beat, d) \notin {}
            OBVIOUS
          <6>2. Standing(gone, air)[d] = Carried(Feeder(beat, d))
            BY <3>2, <5>1, StandingAt
          <6>3. Standing(gone, {})[d] = Carried(Feeder(beat, d))
            BY <5>1, <6>1, StandingAt
          <6> QED
            BY <6>2, <6>3
        <5>2. CASE Feeder(beat, d) \notin gone
          <6>1. /\ d \in gone => Standing(gone, air)[d] = NoPart
                /\ d \notin gone => Standing(gone, air)[d] = occ[d]
            BY <5>2, StandingAt
          <6>2. /\ d \in gone => Standing(gone, {})[d] = NoPart
                /\ d \notin gone => Standing(gone, {})[d] = occ[d]
            BY <5>2, StandingAt
          <6> QED
            BY <6>1, <6>2
        <5> QED
          BY <5>1, <5>2
      <4> QED
        BY <4>2, <4>3
    <3> QED
      BY <3>1, <3>2
  <2>2. Standing(gone, {}) = [d \in Tracked |-> Standing(gone, {})[d]]
    BY DEF Standing
  <2>3. phys' = [d \in Tracked |-> phys'[d]]
    BY DEF Land
  <2>4. [d \in Tracked |-> phys'[d]] = [d \in Tracked |-> Standing(gone, {})[d]]
    BY <2>1
  <2> QED
    BY <2>2, <2>3, <2>4
<1>6. ASSUME NEW z \in {"Z1", "Z2"}
      PROVE  z \in belts' <=> /\ Started(z) /\ StopAt(cur, z) # "none"
                              /\ ~EdgeCame(z, gone, {})
  <2>1. z # "feed" /\ cur.op = "train"
    BY StopsAre
  <2>2. StopAt(cur, z) \in {"F1", "O", "F2", "F2_clears", "none"}
    BY <1>6, StopsAre
  <2>3. z \in belts' <=> z \in belts /\ ~\E t \in transit : t[1] = StopAt(cur, z)
    BY <1>2, <2>1
  <2>4. CASE StopAt(cur, z) \in {"F1", "O", "F2"}
    <3>1. StopAt(cur, z) \in Stations /\ StopAt(cur, z) # "OUT" /\ StopAt(cur, z) # "F2_clears"
      BY <2>4 DEF Stations, Tracked
    <3>2. (\E t \in transit : t[1] = StopAt(cur, z)) <=> Feeder(beat, StopAt(cur, z)) \in air
      BY <1>3, <1>4, <3>1
    <3>3. EdgeCame(z, gone, air) <=> Feeder(beat, StopAt(cur, z)) \in gone \ air
      BY <3>1 DEF EdgeCame
    <3>4. EdgeCame(z, gone, {}) <=> Feeder(beat, StopAt(cur, z)) \in gone
      BY <3>1 DEF EdgeCame
    <3> QED
      BY <1>1, <2>3, <3>2, <3>3, <3>4
  <2>5. CASE StopAt(cur, z) = "F2_clears"
    <3>1. \A t \in transit : t[1] # StopAt(cur, z)
      <4>1. \A t \in transit : t[1] \in {"F1", "O", "F2", "IN", "OUT"}
        <5>1. CASE air = {}
          BY <1>1, <5>1 DEF Crossing
        <5>2. CASE air # {}
          BY <1>1, <5>2 DEF Aloft, Stations, Tracked
        <5> QED
          BY <5>1, <5>2
      <4> QED
        BY <2>5, <4>1
    <3>2. EdgeCame(z, gone, air) <=> EdgeCame(z, gone, {})
      BY <2>5 DEF EdgeCame
    <3> QED
      BY <1>1, <2>3, <3>1, <3>2
  <2>6. CASE StopAt(cur, z) = "none"
    BY <1>1, <2>3, <2>6
  <2> QED
    BY <2>2, <2>4, <2>5, <2>6
<1>7. "feed" \in belts' <=> at # "start" /\ "IN" \in inflight
  BY <1>1, <1>2
<1>8. /\ phys' = Standing(gone, {})'
      /\ \A z \in {"Z1", "Z2"} :
           (z \in belts)' <=> /\ Started(z)' /\ StopAt(cur, z)' # "none"
                              /\ ~EdgeCame(z, gone, {})'
  BY <1>5, <1>6, HeldSame
<1>9. /\ fed' = IF "IN" \in gone THEN infed' + 1 ELSE infed'
      /\ "feed" \in belts' <=> at' # "start" /\ "IN" \in inflight'
  BY <1>1, <1>2, <1>7 DEF TrainHeld
<1>10. Crossing' = {}
  BY <1>2 DEF Crossing
<1> QED
  BY <1>8, <1>9, <1>10 DEF Underway

-----------------------------------------------------------------------------
(***************************************************************************)
(* Where the train move stands.                                             *)
(***************************************************************************)
\* A train in hand is the one the machine waits for, and nothing else is due.
LEMMA TrainInHand ==
  ASSUME CalmInv, cur.op = "train"
  PROVE  /\ Aboard /\ phase = "moving" /\ live /\ ~latch /\ queue = <<>> /\ done = 0
         /\ at \in {"start", "armed", "wait"}
<1>1. Undisturbed /\ Books /\ Counted /\ IInv
  BY DEF CalmInv, Calm, Pattern, LInv
<1>2. cur # Idle
  BY IntentKinds
<1>3. live /\ cur = AdvanceTrain(beat, inflight) /\ inflight # {}
  BY <1>1, <1>2 DEF Undisturbed
<1>4. phase = "moving" /\ ~latch /\ pending = 1
  BY <1>1, <1>2, <1>3 DEF Undisturbed, Counted
<1>5. Cargo
  BY <1>1, <1>3, <1>4, CargoIs
<1>6. Len(queue) \in Nat /\ done \in 0 .. 5 /\ (Len(queue) = 0 => queue = <<>>)
  BY <1>1 DEF Books, LineTypeOK
<1>7. pending = Len(queue) + done + 1
  BY <1>1, <1>3, <1>4 DEF Counted, WaitsForWhatRuns
<1>8. Len(queue) = 0 /\ done = 0
  BY <1>4, <1>6, <1>7
<1>9. at \in {"start", "armed", "wait"}
  BY <1>1, <1>2 DEF Books, LineTypeOK
<1> QED
  BY <1>3, <1>4, <1>5, <1>6, <1>8, <1>9 DEF Aboard

\* No train in hand: no zone runs, and nobody is between two stations.
LEMMA NoTrain ==
  ASSUME CalmInv, cur.op # "train"
  PROVE  /\ belts = {} /\ Crossing = {}
         /\ inflight # {} /\ queue = <<>> => After
         /\ inflight = {} \/ queue # <<>> => Before
<1>1. Truth
  BY DEF CalmInv, Calm
<1>2. IF inflight # {} /\ queue = <<>> THEN After ELSE Before
  BY <1>1 DEF Truth
<1> QED
  BY <1>2 DEF After, Before

\* No train on its way: the belief is the truth.
LEMMA NoCargo ==
  ASSUME CalmInv, inflight = {}
  PROVE  Before /\ cur.op # "train"
<1>1. cur.op # "train"
  BY DEF CalmInv, Calm, Undisturbed
<1> QED
  BY <1>1, NoTrain

\* At any other call of the worker, no train is on its way.
LEMMA OtherCall ==
  ASSUME CalmInv, cur # Idle, cur.op # "train"
  PROVE  /\ inflight = {} /\ live /\ ~latch /\ Expected(cur) /\ Before
         /\ phase \notin {"faulted", "shutter_open"}
<1>1. Undisturbed /\ OnTask /\ Counted
  BY DEF CalmInv, Calm, LInv
<1>2. live /\ ~latch /\ phase # "faulted"
  BY <1>1 DEF Undisturbed
<1>3. Expected(cur)
  BY <1>1, <1>2 DEF OnTask
<1>4. inflight # {} => phase = "moving"
  BY <1>1, <1>2 DEF Counted
<1>5. inflight = {}
  BY <1>3, <1>4 DEF Expected
<1>6. phase # "shutter_open"
  BY <1>3 DEF Expected
<1> QED
  BY <1>2, <1>3, <1>5, <1>6, NoCargo

\* A train on its way is queued, in hand, or done and not yet collected.
LEMMA Cargoed ==
  ASSUME CalmInv, phase = "moving", inflight # {}, cur.op # "train"
  PROVE  /\ cur = Idle /\ ~live /\ ~latch /\ pending = 1
         /\ queue = <<>> => After /\ done = 1
         /\ queue # <<>> => Before /\ done = 0 /\ queue = <<AdvanceTrain(beat, inflight)>>
<1>1. Undisturbed /\ OnTask /\ Counted /\ Books
  BY DEF CalmInv, Calm, LInv
<1>2. cur = Idle
  BY OtherCall
<1>3. ~live /\ ~latch /\ pending = 1
  BY <1>1, <1>2 DEF Undisturbed, Counted
<1>4. queue \in Seq(Intents) /\ done \in 0 .. 5
  BY <1>1 DEF Books, LineTypeOK
<1>5. 1 = Len(queue) + done
  BY <1>1, <1>3, <1>4 DEF Counted, WaitsForWhatRuns
<1>l. Len(queue) \in Nat /\ (Len(queue) = 0 => queue = <<>>)
  BY <1>4
<1>6. queue = <<>> => done = 1
  BY <1>4, <1>5
<1>7. ASSUME queue # <<>>
      PROVE  done = 0 /\ queue = <<AdvanceTrain(beat, inflight)>>
  <2>0. Len(queue) # 0
    BY <1>7, <1>l
  <2>d. done \in Nat
    BY <1>4
  <2>n. \A m, d \in Nat : 1 = m + d /\ m # 0 => m = 1 /\ d = 0
    OBVIOUS
  <2>1. Len(queue) = 1 /\ done = 0
    BY <1>5, <1>l, <2>0, <2>d, <2>n
  <2>2. queue = <<queue[1]>> /\ queue[1] \in Queued
    BY <1>4, <2>1 DEF Queued
  <2>3. Expected(queue[1])
    BY <1>1, <1>3, <2>2 DEF OnTask
  <2>4. queue[1].op = "train"
    BY <2>3 DEF Expected
  <2>5. queue[1] = AdvanceTrain(beat, inflight)
    BY <1>1, <2>2, <2>4 DEF Undisturbed
  <2> QED
    BY <2>1, <2>2, <2>5
<1> QED
  BY <1>2, <1>3, <1>6, <1>7, NoTrain

\* A faulted line: the move is over, its parts landed, the worker and the queue empty.
LEMMA Faulted ==
  ASSUME CalmInv, phase = "faulted"
  PROVE  /\ faultPhase = "moving" /\ inflight # {} /\ cur = Idle /\ latch /\ queue = <<>>
         /\ cur.op = "none" /\ After
<1>1. Undisturbed /\ Counted
  BY DEF CalmInv, Calm, LInv
<1>2. faultPhase = "moving" /\ inflight # {} /\ cur = Idle /\ latch /\ queue = <<>>
  BY <1>1 DEF Undisturbed, Counted
<1>3. cur.op = "none"
  BY <1>2, IntentKinds
<1> QED
  BY <1>2, <1>3, NoTrain

-----------------------------------------------------------------------------
(***************************************************************************)
(* Steps that leave the machine's books alone.                              *)
(***************************************************************************)
\* The pattern is a statement about the books alone.
LEMMA PatternStays ==
  ASSUME Pattern, UNCHANGED vars
  PROVE  Pattern'
<1>1. /\ UNCHANGED <<beat, phase, faultPhase, pending, inflight, occ, declared, infed, shipped>>
      /\ UNCHANGED <<coats, flash1, flash2, wet>>
  BY DEF vars, ctlVars, bookVars, partVars
<1>2. TypeOK'
  BY <1>1 DEF Pattern, IInv, TypeOK
<1>3. IInv'
  <2>1. Dries /\ UNCHANGED <<beat, inflight, bookVars>> /\ Ph' = Ph
    BY <1>1, UnchangedDries DEF partVars, bookVars, Ph
  <2> QED
    BY <1>2, <2>1, Stay DEF Pattern
<1>4. WetInv'
  BY <1>1 DEF Pattern, WetInv, FreshTimers, WetMeansOwing, FlashComplete, ActiveFlash
<1> QED
  BY <1>3, <1>4 DEF Pattern

\* The worker goes on with what it has, or takes what is queued.
LEMMA UndisturbedStays ==
  ASSUME CalmInv, UNCHANGED <<vars, latch>>, Queued' \cup {cur'} \subseteq Queued \cup {cur, Idle},
         cur' # Idle => live', phase = "faulted" => cur' = Idle
  PROVE  Undisturbed'
<1>1. UNCHANGED <<beat, phase, faultPhase, pending, inflight, latch>>
  BY DEF vars, ctlVars
<1>2. Undisturbed
  BY DEF CalmInv, Calm
<1>3. ASSUME NEW i \in Queued' \cup {cur'}, i.op = "train"
      PROVE  i = AdvanceTrain(beat, inflight) /\ inflight # {}
  <2>1. i \in Queued \cup {cur}
    BY <1>3, IntentKinds
  <2> QED
    BY <1>2, <1>3, <2>1 DEF Undisturbed
<1>4. \A i \in Queued' \cup {cur'} :
        i.op = "train" => i = AdvanceTrain(beat', inflight') /\ inflight' # {}
  BY <1>1, <1>3
<1> QED
  BY <1>1, <1>2, <1>4 DEF Undisturbed

\* The picture in hand is as true as before.
LEMMA SeenStays ==
  ASSUME CalmInv, UNCHANGED <<snap, phase, occ, shutter>>
  PROVE  Seen'
BY DEF CalmInv, Calm, Seen

\* Nobody enters or leaves the outfeed end.
LEMMA LeaveStays ==
  ASSUME CalmInv, UNCHANGED <<transit, partVars>>
  PROVE  OnlyFinishedLeave'
BY DEF CalmInv, Calm, OnlyFinishedLeave, partVars

\* No train in hand before or after, none on its way: the belief stays the truth.
LEMMA TruthStays ==
  ASSUME Before, UNCHANGED <<occ, infed, inflight, phys, transit, fed, belts>>,
         cur'.op # "train", inflight = {}
  PROVE  Truth'
<1>1. Before'
  BY DEF Before, Crossing
<1> QED
  BY <1>1 DEF Truth

-----------------------------------------------------------------------------
(***************************************************************************)
(* The worker's calls outside the train.                                    *)
(***************************************************************************)
\* A call goes on, or returns.
Answers ==
  /\ UNCHANGED <<vars, snap, phys, transit, fed, queue, latch, belts, shutter>>
  /\ (cur' = cur /\ live' = live) \/ cur' = Idle

\* A call that is no train move touches neither the books, the parts nor the belts.
LEMMA DoesNotDisturb ==
  ASSUME CalmInv, LInv', Answers, cur # Idle, cur.op # "train"
  PROVE  Pattern' /\ LInv' /\ Undisturbed' /\ Truth' /\ Seen' /\ OnlyFinishedLeave'
<1>1. /\ UNCHANGED <<phase, occ, infed, inflight, partVars>>
      /\ UNCHANGED <<vars, snap, phys, transit, fed, queue, latch, belts, shutter>>
      /\ (cur' = cur /\ live' = live) \/ cur' = Idle
  BY DEF Answers, vars, ctlVars, bookVars
<1>2. inflight = {} /\ live /\ Before /\ phase # "faulted"
  BY OtherCall
<1>3. Undisturbed'
  <2>1. Queued' = Queued
    BY <1>1, QueueSame
  <2> QED
    BY <1>1, <1>2, <2>1, UndisturbedStays
<1>4. cur'.op # "train"
  BY <1>1, IntentKinds
<1>5. Truth'
  BY <1>1, <1>2, <1>4, TruthStays
<1>6. Seen' /\ OnlyFinishedLeave'
  BY <1>1, SeenStays, LeaveStays
<1>7. Pattern'
  BY <1>1, PatternStays DEF CalmInv
<1> QED
  BY <1>3, <1>5, <1>6, <1>7

\* A spray is queued or in hand only behind the closed shutter.
LEMMA SprayQueued ==
  ASSUME CalmInv, SprayPart \in Queued \cup {cur} \/ \E i \in 1 .. Len(queue) : queue[i].op = "spray"
  PROVE  /\ SprayReady
         /\ cur # Idle => cur.op \in {"prep", "fan", "spray", "safe"}
<1>1. SprayGuarded
  BY DEF CalmInv, Calm
<1>2. SprayReady
  BY <1>1 DEF SprayGuarded, Queued, SprayPart
<1>3. ASSUME cur # Idle
      PROVE  cur.op \in {"prep", "fan", "spray", "safe"}
  <2>1. CASE cur.op = "train"
    <3>1. phase = "moving"
      BY <2>1, TrainInHand
    <3> QED
      BY <1>2, <3>1 DEF SprayReady
  <2>2. CASE cur.op # "train"
    <3>1. Expected(cur)
      BY <1>3, <2>2, OtherCall
    <3> QED
      BY <1>2, <3>1 DEF SprayReady, Expected
  <2> QED
    BY <2>1, <2>2
<1> QED
  BY <1>2, <1>3

\* The F1 fan's switch-off is one of the intents.
LEMMA FanIntentsAre ==
  /\ \A st \in FanStations, on \in BOOLEAN :
       /\ SetFan(st, on) \in Intents /\ SetFan(st, on).op = "fan"
       /\ SetFan(st, on).st = st /\ SetFan(st, on).on = on
       /\ SetFan(st, on) # Idle
  /\ FanOff = SetFan("F1", FALSE) /\ FanOff # Idle /\ FanOff.op = "fan"
<1>1. \A st \in FanStations, on \in BOOLEAN : SetFan(st, on) \in Intents
  BY DEF Intents
<1>2. \A st, on : SetFan(st, on).op = "fan" /\ SetFan(st, on).st = st /\ SetFan(st, on).on = on
  BY DEF SetFan
<1>3. \A st \in FanStations, on \in BOOLEAN : SetFan(st, on) # Idle
  BY <1>1, IntentKinds
<1>4. "F1" \in FanStations /\ FALSE \in BOOLEAN
  BY DEF FanStations
<1>5. FanOff # Idle /\ FanOff.op = "fan"
  BY <1>2, <1>3, <1>4 DEF FanOff
<1>6. ASSUME NEW st \in FanStations, NEW on \in BOOLEAN
      PROVE  /\ SetFan(st, on) \in Intents /\ SetFan(st, on).op = "fan"
             /\ SetFan(st, on).st = st /\ SetFan(st, on).on = on
             /\ SetFan(st, on) # Idle
  BY <1>1, <1>2, <1>3
<1>7. FanOff = SetFan("F1", FALSE)
  BY DEF FanOff
<1> QED
  BY <1>5, <1>6, <1>7

\* Shutter, preparation, spray and safe pose: the fans and what is queued stay.
LEMMA OtherCallsCalm ==
  ASSUME CalmInv, LInv', DoShutter \/ DoPrep \/ DoSpray \/ DoSafePose
  PROVE  CalmInv'
<1>1. /\ UNCHANGED <<vars, snap, phys, transit, fed, queue, latch, belts, shutter, fans>>
      /\ (cur' = cur /\ live' = live) \/ cur' = Idle
      /\ cur.op \in {"shutter", "prep", "spray", "safe"}
  BY DEF DoShutter, DoPrep, DoSpray, DoSafePose, Still, Complete, GoesOn, partsAt
<1>2. cur # Idle
  BY <1>1, IntentKinds
<1>3. Pattern' /\ Undisturbed' /\ Truth' /\ Seen' /\ OnlyFinishedLeave'
  BY <1>1, <1>2, DoesNotDisturb DEF Answers
<1>4. UNCHANGED <<phase, occ, wet>>
  BY <1>1 DEF vars, ctlVars, bookVars, partVars
<1>5. SprayGuarded /\ FansDue
  BY DEF CalmInv, Calm
<1>6. cur'.op # "fan" /\ Idle.op = "none"
  BY <1>1, IntentKinds
<1>7. SprayGuarded'
  <2>1. gun' <=> cur'.op = "spray" /\ at' = "wait"
    <3>1. CASE DoSpray
      BY <1>6, <3>1 DEF DoSpray, Complete, GoesOn
    <3>2. CASE DoShutter \/ DoPrep \/ DoSafePose
      <4>1. cur.op # "spray" /\ gun' = gun
        BY <3>2 DEF DoShutter, DoPrep, DoSafePose
      <4>2. ~gun /\ cur'.op # "spray"
        BY <1>1, <1>5, <1>6, <4>1 DEF SprayGuarded
      <4> QED
        BY <4>1, <4>2
    <3> QED
      BY <3>1, <3>2
  <2>2. SprayPart \in Queued \cup {cur} \/ (\E i \in 1 .. Len(queue) : queue[i].op = "spray")
          => shutterTo' = shutterTo
    <3>1. CASE DoShutter
      <4>1. cur.op = "shutter"
        BY <3>1 DEF DoShutter
      <4> QED
        BY <1>2, <4>1, SprayQueued
    <3>2. CASE DoSpray \/ DoPrep \/ DoSafePose
      BY <3>2 DEF DoSpray, DoPrep, DoSafePose
    <3> QED
      BY <3>1, <3>2
  <2>3. ASSUME cur'.op = "spray"
        PROVE  SprayReady' /\ NotBlown'
    <3>1. cur' = cur /\ cur.op = "spray"
      BY <1>1, <1>6, <2>3
    <3>2. shutterTo' = shutterTo
      BY <3>1 DEF DoShutter, DoPrep, DoSpray, DoSafePose
    <3> QED
      BY <1>1, <1>4, <1>5, <3>1, <3>2 DEF SprayGuarded, SprayReady, NotBlown
  <2>4. ASSUME NEW i \in 1 .. Len(queue'), queue'[i].op = "spray"
        PROVE  /\ SprayReady'
               /\ NotBlown' \/ \E j \in 1 .. i - 1 : queue'[j] = FanOff
               /\ \A j \in 1 .. i - 1 : queue'[j].op = "fan" => ~queue'[j].on
    <3>1. i \in 1 .. Len(queue) /\ queue[i].op = "spray" /\ queue' = queue
      BY <1>1, <2>4
    <3>2. shutterTo' = shutterTo
      BY <2>2, <3>1
    <3>3. /\ SprayReady
          /\ NotBlown \/ cur = FanOff \/ \E j \in 1 .. i - 1 : queue[j] = FanOff
          /\ \A j \in 1 .. i - 1 : queue[j].op = "fan" => ~queue[j].on
      BY <1>5, <3>1 DEF SprayGuarded
    <3>4. cur # FanOff
      BY <1>1, FanIntentsAre
    <3> QED
      BY <1>1, <1>4, <3>1, <3>2, <3>3, <3>4 DEF SprayReady, NotBlown
  <2> QED
    BY <1>6, <2>1, <2>3, <2>4 DEF SprayGuarded
<1>8. FansDue'
  <2> SUFFICES ASSUME NEW st \in FanStations
               PROVE  /\ phase' \in {"robot_work", "await_guards"} /\ Owes(st)' =>
                           \/ SetFan(st, TRUE) \in Queued' \cup {cur'}
                           \/ st \in fans' /\ SetFan(st, FALSE) \notin Queued' \cup {cur'}
                      /\ cur' = SetFan(st, TRUE) => SetFan(st, FALSE) \notin Queued'
                      /\ \A i, j \in 1 .. Len(queue') :
                           queue'[i] = SetFan(st, TRUE) /\ i < j => queue'[j] # SetFan(st, FALSE)
    BY DEF FansDue
  <2>1. Queued' = Queued
    BY <1>1, QueueSame
  <2>2. \A on \in BOOLEAN : SetFan(st, on) # cur /\ SetFan(st, on) # cur'
    BY <1>1, <1>6, FanIntentsAre
  <2>3. Owes(st)' <=> Owes(st)
    BY <1>4 DEF Owes
  <2> QED
    BY <1>1, <1>4, <1>5, <2>1, <2>2, <2>3 DEF FansDue
<1> QED
  BY <1>3, <1>7, <1>8 DEF CalmInv, Calm

\* A fan call: with a spray queued it is the switch-off; once a switch-on is taken, no
\* switch-off of that fan is left in the queue.
LEMMA FanCallCalm ==
  ASSUME CalmInv, LInv', DoFan
  PROVE  CalmInv'
<1>1. /\ UNCHANGED <<vars, snap, phys, transit, fed, queue, latch, belts, shutter, shutterTo, gun>>
      /\ cur' = Idle /\ cur.op = "fan"
      /\ fans' = IF cur.on THEN fans \cup {cur.st} ELSE fans \ {cur.st}
  BY DEF DoFan, Still, Complete, partsAt
<1>2. cur # Idle /\ cur'.op = "none"
  BY <1>1, IntentKinds
<1>3. Pattern' /\ Undisturbed' /\ Truth' /\ Seen' /\ OnlyFinishedLeave'
  BY <1>1, <1>2, DoesNotDisturb DEF Answers
<1>4. UNCHANGED <<phase, occ, wet>>
  BY <1>1 DEF vars, ctlVars, bookVars, partVars
<1>5. SprayGuarded /\ FansDue
  BY DEF CalmInv, Calm
<1>6. SprayGuarded'
  <2>1. ~gun
    BY <1>1, <1>5 DEF SprayGuarded
  <2>2. ASSUME NEW i \in 1 .. Len(queue'), queue'[i].op = "spray"
        PROVE  /\ SprayReady'
               /\ NotBlown' \/ \E j \in 1 .. i - 1 : queue'[j] = FanOff
               /\ \A j \in 1 .. i - 1 : queue'[j].op = "fan" => ~queue'[j].on
    <3>1. i \in 1 .. Len(queue) /\ queue[i].op = "spray" /\ queue' = queue
      BY <1>1, <2>2
    <3>2. /\ SprayReady
          /\ NotBlown \/ cur = FanOff \/ \E j \in 1 .. i - 1 : queue[j] = FanOff
          /\ \A j \in 1 .. i - 1 : queue[j].op = "fan" => ~queue[j].on
          /\ ~cur.on
      BY <1>1, <1>5, <3>1 DEF SprayGuarded
    <3>3. fans' = fans \ {cur.st}
      BY <1>1, <3>2
    <3>4. SprayReady'
      BY <1>1, <1>4, <3>2 DEF SprayReady
    <3>5. NotBlown => NotBlown'
      BY <1>4, <3>3 DEF NotBlown
    <3>6. ASSUME cur = FanOff
          PROVE  NotBlown'
      <4>1. cur.st = "F1"
        BY <3>6 DEF FanOff, SetFan
      <4> QED
        BY <3>3, <4>1 DEF NotBlown
    <3> QED
      BY <3>1, <3>2, <3>4, <3>5, <3>6
  <2> QED
    BY <1>1, <1>2, <2>1, <2>2 DEF SprayGuarded
<1>7. FansDue'
  <2> SUFFICES ASSUME NEW st \in FanStations
               PROVE  /\ phase' \in {"robot_work", "await_guards"} /\ Owes(st)' =>
                           \/ SetFan(st, TRUE) \in Queued' \cup {cur'}
                           \/ st \in fans' /\ SetFan(st, FALSE) \notin Queued' \cup {cur'}
                      /\ cur' = SetFan(st, TRUE) => SetFan(st, FALSE) \notin Queued'
                      /\ \A i, j \in 1 .. Len(queue') :
                           queue'[i] = SetFan(st, TRUE) /\ i < j => queue'[j] # SetFan(st, FALSE)
    BY DEF FansDue
  <2>1. Queued' = Queued
    BY <1>1, QueueSame
  <2>2. \A on \in BOOLEAN : SetFan(st, on) # cur'
    BY <1>1, FanIntentsAre
  <2>3. Owes(st)' <=> Owes(st)
    BY <1>4 DEF Owes
  <2>4. /\ phase \in {"robot_work", "await_guards"} /\ Owes(st) =>
             \/ SetFan(st, TRUE) \in Queued \cup {cur}
             \/ st \in fans /\ SetFan(st, FALSE) \notin Queued \cup {cur}
        /\ cur = SetFan(st, TRUE) => SetFan(st, FALSE) \notin Queued
        /\ \A i, j \in 1 .. Len(queue) :
             queue[i] = SetFan(st, TRUE) /\ i < j => queue[j] # SetFan(st, FALSE)
    BY <1>5 DEF FansDue
  <2>5. ASSUME cur = SetFan(st, TRUE)
        PROVE  st \in fans' /\ SetFan(st, FALSE) \notin Queued
    <3>1. cur.on /\ cur.st = st
      BY <2>5 DEF SetFan
    <3> QED
      BY <1>1, <2>4, <2>5, <3>1
  <2>6. ASSUME cur # SetFan(st, FALSE), st \in fans
        PROVE  st \in fans'
    <3>1. cur \in Intents
      BY <1>2 DEF CalmInv, LInv, Books
    <3>2. PICK x \in FanStations, on \in BOOLEAN : cur = SetFan(x, on)
      BY <1>1, <3>1 DEF Intents, SetShutter, AdvanceTrain, Prep, SprayPart, MoveToSafePose
    <3>3. cur.on = on /\ cur.st = x
      BY <3>2 DEF SetFan
    <3>4. on = FALSE => x # st
      BY <2>6, <3>2
    <3>5. CASE on = TRUE
      BY <1>1, <2>6, <3>3, <3>5
    <3>6. CASE on = FALSE
      BY <1>1, <2>6, <3>3, <3>4, <3>6
    <3> QED
      BY <3>5, <3>6
  <2>7. ASSUME phase' \in {"robot_work", "await_guards"}, Owes(st)'
        PROVE  \/ SetFan(st, TRUE) \in Queued' \cup {cur'}
               \/ st \in fans' /\ SetFan(st, FALSE) \notin Queued' \cup {cur'}
    <3>1. \/ SetFan(st, TRUE) \in Queued \cup {cur}
          \/ st \in fans /\ SetFan(st, FALSE) \notin Queued \cup {cur}
      BY <1>4, <2>3, <2>4, <2>7
    <3>2. CASE SetFan(st, TRUE) \in Queued
      BY <2>1, <3>2
    <3>3. CASE SetFan(st, TRUE) = cur
      BY <2>1, <2>2, <2>5, <3>3
    <3>4. CASE st \in fans /\ SetFan(st, FALSE) \notin Queued \cup {cur}
      BY <2>1, <2>2, <2>6, <3>4
    <3> QED
      BY <3>1, <3>2, <3>3, <3>4
  <2> QED
    BY <1>1, <2>2, <2>4, <2>7
<1> QED
  BY <1>3, <1>6, <1>7 DEF CalmInv, Calm

\* What is in the queue after its head is taken, place by place.
LEMMA PlacesTaken ==
  ASSUME queue \in Seq(Intents), queue # <<>>, queue' = Tail(queue), cur' = Head(queue)
  PROVE  /\ cur' = queue[1] /\ 1 \in 1 .. Len(queue)
         /\ \A i \in 1 .. Len(queue') : queue'[i] = queue[i + 1] /\ i + 1 \in 1 .. Len(queue)
         /\ \A i \in 1 .. Len(queue) : i = 1 \/ (i - 1 \in 1 .. Len(queue') /\ queue'[i - 1] = queue[i])
         /\ Queued' \cup {cur'} = Queued
<1>1. Len(queue) \in Nat \ {0} /\ Head(queue) = queue[1]
  OBVIOUS
<1>2. /\ Tail(queue) \in Seq(Intents) /\ Len(Tail(queue)) = Len(queue) - 1
      /\ \A i \in 1 .. Len(queue) - 1 : Tail(queue)[i] = queue[i + 1]
  OBVIOUS
<1>3. cur' = queue[1] /\ 1 \in 1 .. Len(queue)
  BY <1>1
<1>4. \A i \in 1 .. Len(queue') : queue'[i] = queue[i + 1] /\ i + 1 \in 1 .. Len(queue)
  BY <1>1, <1>2
<1>5. \A i \in 1 .. Len(queue) : i = 1 \/ (i - 1 \in 1 .. Len(queue') /\ queue'[i - 1] = queue[i])
  BY <1>1, <1>2
<1>6. \A q \in Queued' \cup {cur'} : q \in Queued
  BY <1>3, <1>4 DEF Queued
<1>7. \A q \in Queued : q \in Queued' \cup {cur'}
  BY <1>3, <1>5 DEF Queued
<1> QED
  BY <1>3, <1>4, <1>5, <1>6, <1>7

\* Taking an intent: the train that is taken has not yet moved anybody, and a spray that
\* is taken had every fan it bars switched off before it.
LEMMA TakeCalm ==
  ASSUME CalmInv, LInv', Take
  PROVE  CalmInv'
<1>1. /\ Undisturbed /\ Counted /\ Books /\ SprayGuarded /\ FansDue /\ OnTask
  BY DEF CalmInv, Calm, LInv
<1>2. phase # "faulted" /\ ~latch /\ cur = Idle /\ queue # <<>> /\ Idle.op = "none"
  BY <1>1, IntentKinds DEF Take, Undisturbed, Counted
<1>3. /\ queue' = Tail(queue) /\ cur' = Head(queue) /\ at' = "start" /\ live' = TRUE
      /\ UNCHANGED <<vars, snap, latch, phys, transit, fed, belts, shutter, shutterTo, fans, gun>>
  BY <1>2 DEF Take, partsAt, devices
<1>4. queue \in Seq(Intents)
  BY <1>1 DEF Books
<1>5. /\ cur' = queue[1] /\ 1 \in 1 .. Len(queue)
      /\ \A i \in 1 .. Len(queue') : queue'[i] = queue[i + 1] /\ i + 1 \in 1 .. Len(queue)
      /\ Queued' \cup {cur'} = Queued
  BY <1>2, <1>3, <1>4, PlacesTaken
<1>6. /\ UNCHANGED <<beat, phase, pending, inflight, occ, declared, infed, wet, partVars>>
  BY <1>3 DEF vars, ctlVars, bookVars, partVars
<1>7. Undisturbed'
  BY <1>2, <1>3, <1>5, UndisturbedStays
<1>8. Seen' /\ OnlyFinishedLeave'
  BY <1>3, <1>6, SeenStays, LeaveStays
<1>9. Pattern'
  BY <1>3, PatternStays DEF CalmInv
<1>10. Before
  BY <1>2, NoTrain
<1>11. Truth'
  <2>1. CASE cur'.op = "train"
    <3>1. Underway({}, {})'
      <4>1. phys' = Standing({}, {})'
        <5>1. occ \in [Tracked -> Parts \cup {NoPart}]
          BY DEF CalmInv, Pattern, IInv, TypeOK
        <5>2. occ = [d \in Tracked |-> occ[d]]
          BY <5>1
        <5>3. Standing({}, {})' = [d \in Tracked |-> occ'[d]]
          BY DEF Standing
        <5> QED
          BY <1>3, <1>6, <1>10, <5>2, <5>3 DEF Before
      <4>2. fed' = infed'
        BY <1>3, <1>6, <1>10 DEF Before
      <4>3. Crossing' = {} /\ belts' = {}
        BY <1>3, <1>10 DEF Before, Crossing
      <4>4. \A z \in {"Z1", "Z2"} : ~Started(z)'
        BY <1>3 DEF Started
      <4> QED
        BY <1>3, <4>1, <4>2, <4>3, <4>4 DEF Underway
    <3>2. Stage({})'
      BY DEF Stage
    <3>3. \E gone \in SUBSET inflight' : \E air \in SUBSET gone :
            Stage(gone)' /\ Underway(gone, air)'
      BY <3>1, <3>2
    <3> QED
      BY <2>1, <3>3 DEF Truth
  <2>2. CASE cur'.op # "train"
    <3>1. ASSUME inflight # {}
          PROVE  FALSE
      <4>1. phase = "moving"
        BY <1>1, <1>2, <3>1 DEF Counted
      <4>2. Expected(queue[1])
        BY <1>1, <1>2, <1>5 DEF OnTask, Queued
      <4> QED
        BY <1>5, <2>2, <3>1, <4>1, <4>2 DEF Expected
    <3> QED
      BY <1>3, <1>6, <1>10, <2>2, <3>1, TruthStays
  <2> QED
    BY <2>1, <2>2
<1>12. SprayGuarded'
  <2>1. ~gun' /\ at' # "wait"
    BY <1>1, <1>2, <1>3 DEF SprayGuarded
  <2>2. SprayReady' = SprayReady /\ NotBlown' = NotBlown
    BY <1>3, <1>6 DEF SprayReady, NotBlown
  <2>3. ASSUME NEW i \in 1 .. Len(queue), queue[i].op = "spray"
        PROVE  /\ SprayReady
               /\ NotBlown \/ \E j \in 1 .. i - 1 : queue[j] = FanOff
               /\ \A j \in 1 .. i - 1 : queue[j].op = "fan" => ~queue[j].on
    <3>1. cur # FanOff
      BY <1>2, FanIntentsAre
    <3> QED
      BY <1>1, <2>3, <3>1 DEF SprayGuarded
  <2>4. ASSUME cur'.op = "spray"
        PROVE  SprayReady /\ NotBlown
    <3>1. /\ SprayReady
          /\ NotBlown \/ \E j \in 1 .. 1 - 1 : queue[j] = FanOff
      BY <1>5, <2>3, <2>4
    <3>2. 1 .. 1 - 1 = {}
      OBVIOUS
    <3> QED
      BY <3>1, <3>2
  <2>5. ASSUME NEW i \in 1 .. Len(queue'), queue'[i].op = "spray"
        PROVE  /\ SprayReady
               /\ NotBlown \/ cur' = FanOff \/ \E j \in 1 .. i - 1 : queue'[j] = FanOff
               /\ cur'.op = "fan" => ~cur'.on
               /\ \A j \in 1 .. i - 1 : queue'[j].op = "fan" => ~queue'[j].on
    <3>1. i + 1 \in 1 .. Len(queue) /\ queue[i + 1].op = "spray"
      BY <1>5, <2>5
    <3>2. /\ SprayReady
          /\ NotBlown \/ \E j \in 1 .. i + 1 - 1 : queue[j] = FanOff
          /\ \A j \in 1 .. i + 1 - 1 : queue[j].op = "fan" => ~queue[j].on
      BY <2>3, <3>1
    <3>i. i \in Nat \ {0} /\ i <= Len(queue') /\ Len(queue') \in Nat
      BY <1>3, <1>4, <1>2, QueueTaken
    <3>3. \A j \in 1 .. i - 1 : /\ j \in 1 .. Len(queue') /\ j + 1 \in 1 .. i + 1 - 1
                                /\ queue'[j] = queue[j + 1]
      BY <1>5, <3>i
    <3>4. \A j \in 1 .. i - 1 : queue'[j].op = "fan" => ~queue'[j].on
      BY <3>2, <3>3
    <3>5. 1 \in 1 .. i + 1 - 1
      BY <3>i
    <3>6. cur'.op = "fan" => ~cur'.on
      BY <1>5, <3>2, <3>5
    <3>7. ASSUME NEW j \in 1 .. i + 1 - 1, queue[j] = FanOff, cur' # FanOff
          PROVE  \E x \in 1 .. i - 1 : queue'[x] = FanOff
      <4>1. j # 1
        BY <1>5, <3>7
      <4>2. j - 1 \in 1 .. i - 1 /\ j - 1 + 1 = j
        BY <3>i, <4>1
      <4>3. queue'[j - 1] = queue[j]
        BY <3>3, <4>2
      <4> QED
        BY <3>7, <4>2, <4>3
    <3> QED
      BY <3>2, <3>4, <3>6, <3>7
  <2> QED
    BY <2>1, <2>2, <2>4, <2>5 DEF SprayGuarded
<1>13. FansDue'
  <2> SUFFICES ASSUME NEW st \in FanStations
               PROVE  /\ phase' \in {"robot_work", "await_guards"} /\ Owes(st)' =>
                           \/ SetFan(st, TRUE) \in Queued' \cup {cur'}
                           \/ st \in fans' /\ SetFan(st, FALSE) \notin Queued' \cup {cur'}
                      /\ cur' = SetFan(st, TRUE) => SetFan(st, FALSE) \notin Queued'
                      /\ \A i, j \in 1 .. Len(queue') :
                           queue'[i] = SetFan(st, TRUE) /\ i < j => queue'[j] # SetFan(st, FALSE)
    BY DEF FansDue
  <2>1. /\ phase \in {"robot_work", "await_guards"} /\ Owes(st) =>
             \/ SetFan(st, TRUE) \in Queued \cup {cur}
             \/ st \in fans /\ SetFan(st, FALSE) \notin Queued \cup {cur}
        /\ \A i, j \in 1 .. Len(queue) :
             queue[i] = SetFan(st, TRUE) /\ i < j => queue[j] # SetFan(st, FALSE)
    BY <1>1 DEF FansDue
  <2>2. SetFan(st, TRUE) # cur
    BY <1>2, FanIntentsAre
  <2>3. Owes(st)' <=> Owes(st)
    BY <1>6 DEF Owes
  <2>4. \/ ~(phase' \in {"robot_work", "await_guards"} /\ Owes(st)')
        \/ SetFan(st, TRUE) \in Queued' \cup {cur'}
        \/ st \in fans' /\ SetFan(st, FALSE) \notin Queued' \cup {cur'}
    BY <1>3, <1>5, <1>6, <2>1, <2>2, <2>3
  <2>i. \A i \in 1 .. Len(queue') : i \in Nat /\ 1 < i + 1
    <3>1. Len(queue') \in Nat
      BY <1>2, <1>3, <1>4, QueueTaken
    <3> QED
      BY <3>1
  <2>5. ASSUME cur' = SetFan(st, TRUE)
        PROVE  SetFan(st, FALSE) \notin Queued'
    <3>1. \A j \in 1 .. Len(queue') : queue'[j] # SetFan(st, FALSE)
      BY <1>5, <2>1, <2>5, <2>i
    <3> QED
      BY <3>1 DEF Queued
  <2>6. ASSUME NEW i \in 1 .. Len(queue'), NEW j \in 1 .. Len(queue'),
               queue'[i] = SetFan(st, TRUE), i < j
        PROVE  queue'[j] # SetFan(st, FALSE)
    <3>1. i \in Nat /\ j \in Nat
      BY <2>i
    <3>2. i + 1 < j + 1
      BY <2>6, <3>1
    <3> QED
      BY <1>5, <2>1, <2>6, <3>2
  <2> QED
    BY <2>4, <2>5, <2>6
<1> QED
  BY <1>7, <1>8, <1>9, <1>11, <1>12, <1>13 DEF CalmInv, Calm

-----------------------------------------------------------------------------
(***************************************************************************)
(* The train: its calls, and the parts that leave and land under it.        *)
(***************************************************************************)
\* With a train in hand nothing else is queued, and no paint flows.
LEMMA TrainDisturbsNothing ==
  ASSUME CalmInv, cur.op = "train", (cur' = cur /\ live' = live) \/ cur' = Idle,
         UNCHANGED <<vars, snap, queue, latch, gun, shutter>>
  PROVE  Pattern' /\ Undisturbed' /\ Seen' /\ SprayGuarded' /\ FansDue'
<1>1. phase = "moving" /\ live /\ queue = <<>> /\ cur # Idle
  BY TrainInHand, IntentKinds
<1>2. UNCHANGED <<phase, occ>>
  BY DEF vars, ctlVars, bookVars
<1>3. Queued' = {} /\ Queued = {} /\ queue' = <<>>
  BY <1>1, QueueEmpty
<1>4. Undisturbed'
  BY <1>1, <1>3, UndisturbedStays
<1>5. Pattern' /\ Seen'
  BY <1>2, PatternStays, SeenStays DEF CalmInv
<1>6. cur'.op \in {"train", "none"} /\ \A i \in 1 .. Len(queue') : FALSE
  BY <1>3, IntentKinds
<1>7. ~gun
  BY DEF CalmInv, Calm, SprayGuarded
<1>8. SprayGuarded'
  BY <1>6, <1>7 DEF SprayGuarded
<1>9. \A st \in FanStations : SetFan(st, TRUE) # cur'
  BY <1>6, FanIntentsAre
<1>10. FansDue'
  BY <1>1, <1>2, <1>6, <1>9 DEF FansDue
<1> QED
  BY <1>4, <1>5, <1>8, <1>10

\* The train in hand, with who has left and who is in the air.
LEMMA TrainAway ==
  ASSUME CalmInv, cur.op = "train"
  PROVE  /\ \E gone \in SUBSET inflight : \E air \in SUBSET gone :
              Stage(gone) /\ Underway(gone, air) /\ (transit = {} => air = {})
         /\ Aboard
<1>1. Aboard
  BY TrainInHand
<1>2. PICK gone \in SUBSET inflight : \E air \in SUBSET gone : Stage(gone) /\ Underway(gone, air)
  BY DEF CalmInv, Calm, Truth
<1>3. PICK air \in SUBSET gone : Stage(gone) /\ Underway(gone, air)
  BY <1>2
<1>4. ASSUME transit = {}, air # {}
      PROVE  FALSE
  <2>1. Aloft(air) = {}
    BY <1>3, <1>4 DEF Underway
  <2> QED
    BY <1>1, <1>4, <2>1, NoneAloft DEF Aboard
<1> QED
  BY <1>1, <1>3, <1>4

\* Arming Z1, then Z2: whoever left before Z2 ran is not what stops Z2.
LEMMA ArmsCalm ==
  ASSUME CalmInv, LInv', ArmZones
  PROVE  CalmInv'
<1>1. /\ cur.op = "train"
      /\ UNCHANGED <<vars, snap, phys, transit, fed, queue, latch, cur, live, gun, shutter>>
      /\ \/ /\ at = "start" /\ at' = "armed"
            /\ belts' = belts \cup Feeding(cur) \cup Armed(cur, {"Z1"})
         \/ at = "armed" /\ at' = "wait" /\ belts' = belts \cup Armed(cur, {"Z2"})
  BY DEF ArmZones, Still, GoesOn, partsAt
<1>2. Pattern' /\ Undisturbed' /\ Seen' /\ SprayGuarded' /\ FansDue'
  BY <1>1, TrainDisturbsNothing
<1>3. UNCHANGED <<beat, inflight, occ, infed, partVars>>
  BY <1>1 DEF vars, ctlVars, bookVars
<1>4. OnlyFinishedLeave'
  BY <1>1, <1>3, LeaveStays
<1>0. PICK gone \in SUBSET inflight :
        \E air \in SUBSET gone : Stage(gone) /\ Underway(gone, air)
  BY <1>1, TrainAway
<1>5. PICK air \in SUBSET gone : Stage(gone) /\ Underway(gone, air)
  BY <1>0
<1>6. Aboard
  BY <1>1, TrainAway
<1>7. gone = {} \/ (gone = {"IN"} /\ "IN" \in inflight /\ "F1" \notin inflight /\ at = "armed")
  BY <1>1, <1>5 DEF Stage
<1>8. \A z \in {"Z1", "Z2"} : (z \in Armed(cur, {"Z1"}) <=> z = "Z1" /\ StopAt(cur, z) # "none")
                              /\ (z \in Armed(cur, {"Z2"}) <=> z = "Z2" /\ StopAt(cur, z) # "none")
  BY DEF Armed
<1>9. "feed" \in Feeding(cur) <=> "IN" \in inflight
  BY <1>6, StopsAre DEF Feeding
<1>10. Feeding(cur) \subseteq {"feed"} /\ Armed(cur, {"Z1"}) \subseteq {"Z1"}
       /\ Armed(cur, {"Z2"}) \subseteq {"Z2"}
  BY DEF Feeding, Armed
<1>11. /\ \A z \in {"Z1", "Z2"} :
            z \in belts <=> Started(z) /\ StopAt(cur, z) # "none" /\ ~EdgeCame(z, gone, air)
       /\ "feed" \in belts <=> at # "start" /\ "IN" \in inflight
       /\ phys = Standing(gone, air)
       /\ fed = IF "IN" \in gone THEN infed + 1 ELSE infed
       /\ IF air = {} THEN Crossing = {} ELSE transit = Aloft(air)
  BY <1>5 DEF Underway
<1>12. ~EdgeCame("Z2", gone, air) /\ (at = "start" => ~EdgeCame("Z1", gone, air))
  <2>1. beat \in {"P1", "P2", "P3", "P4"} /\ ("IN" \in inflight => beat \in {"P3", "P4"})
    BY <1>6 DEF Aboard, Cargo, Beats
  <2>2. CASE gone = {}
    BY <2>2 DEF EdgeCame
  <2>3. CASE gone = {"IN"} /\ "IN" \in inflight /\ at = "armed"
    <3>1. beat \in {"P3", "P4"}
      BY <2>1, <2>3
    <3>2. StopAt(cur, "Z2") \in {"O", "F2", "F2_clears", "none"}
      BY <1>6, <3>1, StopsAre
    <3>3. Feeder(beat, "O") # "IN" /\ Feeder(beat, "F2") # "IN"
          /\ Feeder(beat, "none") # "IN"
      BY <3>1 DEF Feeder
    <3> QED
      BY <2>3, <3>2, <3>3 DEF EdgeCame
  <2> QED
    BY <1>7, <2>2, <2>3
<1>13. \A z \in {"Z1", "Z2"} :
         /\ StopAt(cur, z)' = StopAt(cur, z)
         /\ EdgeCame(z, gone, air)' <=> EdgeCame(z, gone, air)
  <2>1. ASSUME NEW z \in {"Z1", "Z2"}
        PROVE  /\ StopAt(cur, z)' = StopAt(cur, z)
               /\ EdgeCame(z, gone, air)' <=> EdgeCame(z, gone, air)
    <3>1. StopAt(cur, z)' = StopAt(cur, z)
      BY <1>1
    <3>2. EdgeCame(z, gone, air)' <=> EdgeCame(z, gone, air)
      BY <1>1, <1>3 DEF EdgeCame
    <3> QED
      BY <3>1, <3>2
  <2> QED
    BY <2>1
<1>14. \A z \in {"Z1", "Z2"} :
         z \in belts' <=> /\ Started(z)' /\ StopAt(cur, z) # "none"
                          /\ ~EdgeCame(z, gone, air)
  <2>1. CASE at = "start"
    <3>1. /\ at' = "armed" /\ belts' = belts \cup Feeding(cur) \cup Armed(cur, {"Z1"})
      BY <1>1, <2>1
    <3>2. ~Started("Z1") /\ ~Started("Z2") /\ Started("Z1")' /\ ~Started("Z2")'
      BY <2>1, <3>1 DEF Started
    <3> QED
      BY <1>8, <1>10, <1>11, <1>12, <2>1, <3>1, <3>2
  <2>2. CASE at = "armed"
    <3>1. at' = "wait" /\ belts' = belts \cup Armed(cur, {"Z2"})
      BY <1>1, <2>2
    <3>2. Started("Z1") /\ ~Started("Z2") /\ Started("Z1")' /\ Started("Z2")'
      BY <2>2, <3>1 DEF Started
    <3> QED
      BY <1>8, <1>10, <1>11, <1>12, <3>1, <3>2
  <2> QED
    BY <1>1, <2>1, <2>2
<1>15. "feed" \in belts' <=> at' # "start" /\ "IN" \in inflight
  BY <1>1, <1>9, <1>10, <1>11
<1>16. Standing(gone, air)' = Standing(gone, air) /\ Aloft(air)' = Aloft(air)
       /\ Crossing' = Crossing
  BY <1>1, <1>3 DEF Standing, Aloft, Carried, Crossing
<1>17. Underway(gone, air)'
  <2>1. \A z \in {"Z1", "Z2"} :
          (z \in belts)' <=> /\ Started(z)' /\ StopAt(cur, z)' # "none"
                             /\ ~EdgeCame(z, gone, air)'
    BY <1>13, <1>14
  <2>2. "feed" \in belts' <=> at' # "start" /\ "IN" \in inflight'
    BY <1>3, <1>15
  <2>3. /\ phys' = Standing(gone, air)'
        /\ fed' = IF "IN" \in gone THEN infed' + 1 ELSE infed'
        /\ IF air = {} THEN Crossing' = {} ELSE transit' = Aloft(air)'
    BY <1>1, <1>3, <1>11, <1>16
  <2> QED
    BY <2>1, <2>2, <2>3 DEF Underway
<1>18. Stage(gone)'
  BY <1>1, <1>3, <1>7 DEF Stage
<1>19. Truth'
  <2>1. gone \in SUBSET inflight' /\ cur'.op = "train"
    BY <1>1, <1>3
  <2> QED
    BY <1>17, <1>18, <2>1 DEF Truth
<1> QED
  BY <1>2, <1>4, <1>19 DEF CalmInv, Calm

\* A zone still runs as long as somebody can leave or an edge is awaited.
LEMMA StillMoving ==
  ASSUME Aboard, at = "wait", NEW gone \in SUBSET inflight, NEW air \in SUBSET gone,
         Stage(gone), Underway(gone, air), gone # inflight
  PROVE  belts \cap {"Z1", "Z2"} # {}
<1>1. inflight \subseteq {"IN", "F1", "O", "F2"} /\ inflight # {}
      /\ (beat = "P2" => "IN" \notin inflight /\ "F1" \notin inflight)
  BY DEF Aboard, Cargo, Tracked
<1>2. /\ beat # "P2" =>
           /\ "Z2" \in belts <=>
                IF "O" \in inflight THEN "O" \notin gone \ air
                ELSE IF "F2" \in inflight THEN "F2" \notin gone
                ELSE "F1" \in inflight /\ "F1" \notin gone \ air
           /\ "Z1" \in belts <=>
                IF "IN" \in inflight THEN "IN" \notin gone \ air
                                     ELSE "F1" \in inflight /\ "F1" \notin gone \ air
      /\ beat = "P2" =>
           /\ "Z2" \in belts <=>
                IF "F2" \in inflight THEN "F2" \notin gone \ air
                                     ELSE "O" \in inflight /\ "O" \notin gone \ air
           /\ "Z1" \in belts <=> "O" \in inflight /\ "O" \notin gone \ air
  BY ZonesAre
<1>3. gone = {} \/ gone = {"IN"}
  BY DEF Stage
<1>4. CASE gone = {}
  BY <1>1, <1>2, <1>4
<1>5. CASE gone = {"IN"}
  <2>1. "IN" \in inflight /\ "F1" \notin inflight /\ beat # "P2"
    BY <1>1, <1>5 DEF Stage
  <2>2. "O" \in inflight \/ "F2" \in inflight
    BY <1>1, <1>5, <2>1
  <2> QED
    BY <1>2, <1>5, <2>1, <2>2
<1> QED
  BY <1>3, <1>4, <1>5

\* The whole move, seen by Shifted: everybody bound for a station stands there.
LEMMA ShiftedIs ==
  ASSUME Aboard, NEW air \in SUBSET inflight, phys = Standing(inflight, air)
  PROVE  /\ Shifted(cur) => /\ Standing(inflight, air) = Standing(inflight, {})
                            /\ \A d \in Tracked : Feeder(beat, d) \notin air
         /\ air = {} => Shifted(cur)
<1>1. cur.beat = beat /\ cur.moves = inflight
  BY StopsAre
<1>2. /\ \A st \in Tracked : st \in inflight <=> occ[st] # NoPart
      /\ inflight \subseteq {"IN", "F1", "O", "F2"} /\ infed \in Nat
  BY DEF Aboard, Cargo
<1>3. ASSUME Shifted(cur), NEW d \in Tracked, Feeder(beat, d) \in air
      PROVE  FALSE
  <2>1. phys[d] # NoPart
    BY <1>1, <1>3 DEF Shifted
  <2>2. /\ d \in inflight => Standing(inflight, air)[d] = NoPart
        /\ d \notin inflight => Standing(inflight, air)[d] = occ[d]
    BY <1>3, StandingAt
  <2> QED
    BY <1>2, <2>1, <2>2
<1>4. ASSUME Shifted(cur)
      PROVE  Standing(inflight, air) = Standing(inflight, {})
  BY <1>3, <1>4 DEF Standing
<1>5. ASSUME air = {}, NEW d \in Tracked
      PROVE  /\ Feeder(beat, d) \in inflight => phys[d] # NoPart
             /\ d \in inflight /\ Feeder(beat, d) \notin inflight => phys[d] = NoPart
  <2>1. CASE Feeder(beat, d) \in inflight
    <3>1. phys[d] = Carried(Feeder(beat, d))
      BY <1>5, <2>1, StandingAt
    <3>2. Carried(Feeder(beat, d)) # NoPart
      <4>1. CASE Feeder(beat, d) = "IN"
        BY <1>2, <4>1 DEF Carried
      <4>2. CASE Feeder(beat, d) # "IN"
        <5>1. Feeder(beat, d) \in Tracked
          BY <1>2, <2>1, <4>2 DEF Tracked
        <5> QED
          BY <1>2, <2>1, <4>2, <5>1 DEF Carried
      <4> QED
        BY <4>1, <4>2
    <3> QED
      BY <2>1, <3>1, <3>2
  <2>2. CASE Feeder(beat, d) \notin inflight
    BY <1>5, <2>2, StandingAt
  <2> QED
    BY <2>1, <2>2
<1>6. air = {} => Shifted(cur)
  BY <1>1, <1>5 DEF Shifted
<1> QED
  BY <1>3, <1>4, <1>6

\* The train's confirmation is right: whoever it carried to a station stands there.
LEMMA ArrivesCalm ==
  ASSUME CalmInv, LInv', TrainArrived
  PROVE  CalmInv'
<1>1. /\ cur.op = "train" /\ at = "wait" /\ belts \cap {"Z1", "Z2"} = {} /\ Shifted(cur)
      /\ belts' = {} /\ cur' = Idle
      /\ UNCHANGED <<vars, snap, phys, transit, fed, queue, latch, gun, shutter>>
  BY DEF TrainArrived, Still, Complete, partsAt
<1>2. Pattern' /\ Undisturbed' /\ Seen' /\ SprayGuarded' /\ FansDue'
  BY <1>1, TrainDisturbsNothing
<1>3. UNCHANGED <<beat, inflight, occ, infed, declared, partVars>>
  BY <1>1 DEF vars, ctlVars, bookVars
<1>4. OnlyFinishedLeave'
  BY <1>1, <1>3, LeaveStays
<1>0. PICK gone \in SUBSET inflight :
        \E air \in SUBSET gone : Stage(gone) /\ Underway(gone, air)
  BY <1>1, TrainAway
<1>5. PICK air \in SUBSET gone : Stage(gone) /\ Underway(gone, air)
  BY <1>0
<1>6. Aboard /\ queue = <<>>
  BY <1>1, TrainInHand
<1>7. gone = inflight
  BY <1>1, <1>5, <1>6, StillMoving
<1>8. /\ phys = Standing(inflight, air)
      /\ fed = IF "IN" \in inflight THEN infed + 1 ELSE infed
      /\ IF air = {} THEN Crossing = {} ELSE transit = Aloft(air)
  BY <1>5, <1>7 DEF Underway
<1>9. /\ Standing(inflight, air) = Standing(inflight, {})
      /\ \A d \in Tracked : Feeder(beat, d) \notin air
  BY <1>1, <1>6, <1>7, <1>8, ShiftedIs
<1>10. Crossing = {}
  <2>1. CASE air = {}
    BY <1>8, <2>1
  <2>2. CASE air # {}
    <3>1. ASSUME NEW t \in transit
          PROVE  t[1] = "OUT"
      <4>1. PICK d \in Stations : Feeder(beat, d) \in air /\ t = <<d, Carried(Feeder(beat, d))>>
        BY <1>8, <2>2, <3>1 DEF Aloft
      <4>2. d # "IN"
        <5>1. Feeder(beat, "IN") = "none" /\ "none" \notin inflight
          BY <1>6, FeederIs DEF Aboard, Cargo
        <5> QED
          BY <1>7, <4>1, <5>1
      <4>3. d \notin Tracked
        BY <1>9, <4>1
      <4> QED
        BY <4>1, <4>2, <4>3 DEF Stations
    <3> QED
      BY <3>1 DEF Crossing
  <2> QED
    BY <2>1, <2>2
<1>11. phys = Moved(inflight) /\ fed = MovedInfed(inflight)
  BY <1>6, <1>8, <1>9, AllLanded DEF Aboard
<1>12. After'
  <2>1. Moved(inflight)' = Moved(inflight) /\ MovedInfed(inflight)' = MovedInfed(inflight)
    BY <1>3 DEF Moved, MovedInfed, Delivers, Carried, Loaded
  <2>2. Crossing' = {}
    BY <1>1, <1>10 DEF Crossing
  <2> QED
    BY <1>1, <1>11, <2>1, <2>2 DEF After
<1>13. Truth'
  <2>1. cur'.op # "train" /\ inflight' # {} /\ queue' = <<>>
    BY <1>1, <1>3, <1>6, IntentKinds DEF Aboard
  <2> QED
    BY <1>12, <2>1 DEF Truth
<1> QED
  BY <1>2, <1>4, <1>13 DEF CalmInv, Calm

\* Nothing that nobody stopped makes a train move fail.
LEMMA NoTrainError ==
  ASSUME CalmInv, TrainError
  PROVE  FALSE
<1>1. /\ cur.op = "train" /\ at = "wait" /\ transit = {} /\ Leaving = {}
      /\ ~(belts \cap {"Z1", "Z2"} = {} /\ Shifted(cur))
  BY DEF TrainError
<1>2. Aboard
  BY <1>1, TrainAway
<1>3. PICK gone \in SUBSET inflight : Stage(gone) /\ Underway(gone, {})
  BY <1>1, TrainAway
<1>4. gone = inflight
  <2>1. gone = {} => Leaving = inflight
    BY <1>1, <1>2, <1>3, WhoLeaves
  <2>2. gone = {"IN"} /\ gone # inflight => Leaving = inflight \ {"IN"}
    BY <1>1, <1>2, <1>3, WhoLeaves
  <2>3. inflight # {}
    BY <1>2 DEF Aboard
  <2> QED
    BY <1>1, <1>3, <2>1, <2>2, <2>3 DEF Stage
<1>5. phys = Standing(inflight, {})
  BY <1>3, <1>4 DEF Underway
<1>6. Shifted(cur)
  BY <1>2, <1>5, ShiftedIs
<1>7. belts \cap {"Z1", "Z2"} = {}
  <2>1. inflight \subseteq {"IN", "F1", "O", "F2"}
    BY <1>2 DEF Aboard, Cargo
  <2>2. "Z1" \notin belts /\ "Z2" \notin belts
    BY <1>1, <1>2, <1>3, <1>4, <2>1, ZonesAre
  <2> QED
    BY <2>2
<1> QED
  BY <1>1, <1>6, <1>7

-----------------------------------------------------------------------------
(***************************************************************************)
(* The plant.                                                               *)
(***************************************************************************)
\* What moves on the belts does not concern machine, worker and devices.
LEMMA RestStays ==
  ASSUME CalmInv, UNCHANGED <<vars, execVars, snap, shutter, shutterTo, fans, gun>>
  PROVE  Pattern' /\ Undisturbed' /\ Seen' /\ SprayGuarded' /\ FansDue'
<1>1. /\ UNCHANGED <<phase, faultPhase, pending, beat, inflight, occ, wet>>
      /\ UNCHANGED <<queue, cur, at, latch, done, live>>
  BY DEF vars, ctlVars, bookVars, partVars, execVars
<1>2. Queued' = Queued
  BY <1>1, QueueSame
<1>3. Pattern' /\ Seen'
  BY <1>1, PatternStays, SeenStays DEF CalmInv
<1>4. Undisturbed'
  BY <1>1, <1>2 DEF CalmInv, Calm, Undisturbed
<1>5. SprayGuarded'
  BY <1>1 DEF CalmInv, Calm, SprayGuarded, SprayReady, NotBlown
<1>6. FansDue'
  BY <1>1, <1>2 DEF CalmInv, Calm, FansDue, Owes
<1> QED
  BY <1>3, <1>4, <1>5, <1>6

\* Nobody leaves unless a belt runs.
LEMMA NobodyLeaves ==
  ASSUME belts = {}
  PROVE  Leaving = {}
BY DEF Leaving, Leaves

\* A part that goes out is finished.
LEMMA FinishedAtF2 ==
  ASSUME CalmInv, Aboard, "F2" \in inflight, beat # "P2", phase = "moving"
  PROVE  /\ coats[occ["F2"]] = 2 /\ flash1[occ["F2"]] = FlashSeconds
         /\ flash2[occ["F2"]] = FlashSeconds
<1> DEFINE p == occ["F2"]
<1>1. IInv
  BY DEF CalmInv, Pattern
<1>2. p # NoPart /\ p \in Parts /\ beat \in {"P1", "P2", "P3", "P4"}
  BY DEF Aboard, Cargo, Tracked, Beats
<1>3. Ph = "moving" /\ Shown = beat
  BY DEF Ph, Shown
<1>4. coats[p] \in SlotCoats(beat, "F2")
  BY <1>1, <1>2, <1>3 DEF IInv, Picture, Tracked
<1>5. coats[p] = 2
  BY <1>2, <1>4 DEF SlotCoats
<1>6. MayLeaveFan(p)
  BY <1>1, <1>2 DEF IInv, Control, FlashGuard, FanStations
<1>7. flash2[p] \in 0 .. FlashSeconds /\ flash1[p] = FlashSeconds
  BY <1>1, <1>2, <1>5 DEF IInv, TypeOK, Timers
<1>8. flash2[p] >= FlashSeconds
  BY <1>5, <1>6 DEF MayLeaveFan, FlashComplete, ActiveFlash
<1>9. flash2[p] = FlashSeconds
  BY <1>7, <1>8, MachineAssumption
<1> QED
  BY <1>5, <1>7, <1>9

\* Parts leave: the newcomer alone before Z2 runs, everybody else at once when it does.
LEMMA DepartCalm ==
  ASSUME CalmInv, LInv', Depart
  PROVE  CalmInv'
<1>1. /\ transit = {} /\ Leaving # {}
      /\ transit' = {<<Ahead(st), IF st = "IN" THEN fed + 1 ELSE phys[st]>> : st \in Leaving}
      /\ UNCHANGED <<vars, snap, execVars, shutter, shutterTo, fans, gun>>
  BY DEF Depart
<1>2. Pattern' /\ Undisturbed' /\ Seen' /\ SprayGuarded' /\ FansDue'
  BY <1>1, RestStays
<1>3. cur.op = "train"
  BY <1>1, NoTrain, NobodyLeaves
<1>4. Aboard /\ phase = "moving"
  BY <1>3, TrainInHand
<1>5. PICK gone \in SUBSET inflight : Stage(gone) /\ Underway(gone, {})
  BY <1>1, <1>3, TrainAway
<1>6. PICK L : L = Leaving
  OBVIOUS
<1>7. L # {} /\ inflight # {}
  BY <1>1, <1>4, <1>6 DEF Aboard
<1>8. \/ gone = {} /\ at = "wait" /\ L = inflight
      \/ gone = {} /\ L = {"IN"} /\ "IN" \in inflight /\ "F1" \notin inflight /\ at # "start"
      \/ gone = {"IN"} /\ gone # inflight /\ at = "wait" /\ L = inflight \ {"IN"}
         /\ "F1" \notin inflight
  <2>1. /\ gone = {} /\ at = "wait" => L = inflight
        /\ gone = {} /\ at # "wait" =>
             L = {"IN"} /\ "IN" \in inflight /\ "F1" \notin inflight /\ at # "start"
        /\ gone = {"IN"} /\ gone # inflight /\ at = "wait" => L = inflight \ {"IN"}
        /\ gone = {"IN"} /\ gone # inflight => at = "wait"
        /\ gone # inflight
    BY <1>4, <1>5, <1>6, <1>7, WhoLeaves
  <2>2. gone = {} \/ (gone = {"IN"} /\ "F1" \notin inflight)
    BY <1>5, <2>1 DEF Stage
  <2> QED
    BY <2>1, <2>2
<1>9. L \in SUBSET inflight /\ L \cap gone = {}
  BY <1>8
<1>10. \A d \in L \cap Tracked : Feeder(beat, d) \notin gone
  <2>1. ASSUME NEW d \in L \cap Tracked, gone = {"IN"}, "F1" \notin inflight
        PROVE  Feeder(beat, d) # "IN"
    <3>1. d \in {"O", "F2"}
      BY <1>9, <2>1 DEF Tracked
    <3> QED
      BY <3>1 DEF Feeder
  <2> QED
    BY <1>8, <2>1
<1>11. UNCHANGED <<beat, phase, inflight, occ, declared, infed, cur, at, queue, partVars>>
  BY <1>1 DEF vars, ctlVars, bookVars, execVars
<1>12. Underway(gone \cup L, L)'
  BY <1>4, <1>5, <1>6, <1>7, <1>9, <1>10, <1>11, DepartUnderway DEF TrainHeld
<1>13. Stage(gone \cup L)'
  <2>1. \/ gone \cup L = inflight /\ at = "wait"
        \/ gone \cup L = {"IN"} /\ "IN" \in inflight /\ "F1" \notin inflight /\ at # "start"
    BY <1>8, <1>5
  <2> QED
    BY <1>11, <2>1 DEF Stage
<1>14. Truth'
  <2>1. gone \cup L \in SUBSET inflight' /\ L \in SUBSET (gone \cup L) /\ cur'.op = "train"
    BY <1>3, <1>9, <1>11
  <2>2. \E g \in SUBSET inflight' : \E a \in SUBSET g : Stage(g)' /\ Underway(g, a)'
    BY <1>12, <1>13, <2>1
  <2> QED
    BY <2>1, <2>2 DEF Truth
<1>15. OnlyFinishedLeave'
  <2> SUFFICES ASSUME NEW t \in transit', t[1] = "OUT"
               PROVE  coats[t[2]] = 2 /\ flash1[t[2]] = FlashSeconds /\ flash2[t[2]] = FlashSeconds
    BY <1>11 DEF OnlyFinishedLeave, partVars
  <2>1. PICK st \in L : t = <<Ahead(st), IF st = "IN" THEN fed + 1 ELSE phys[st]>>
    BY <1>1, <1>6
  <2>2. Dest(st) = "OUT"
    BY <1>4, <1>9, <2>1, AheadIsDest
  <2>3. st \in {"IN", "F1", "O", "F2"}
    BY <1>4, <1>9 DEF Aboard, Cargo
  <2>4. st = "F2" /\ beat # "P2"
    BY <2>2, <2>3 DEF Dest
  <2>5. phys["F2"] = occ["F2"]
    <3>1. gone = {} \/ gone = {"IN"}
      BY <1>8
    <3> QED
      BY <1>4, <1>5, <3>1, StandsAre DEF Tracked
  <2>6. t[2] = occ["F2"]
    BY <2>1, <2>4, <2>5
  <2>7. "F2" \in inflight
    BY <1>9, <2>4
  <2> QED
    BY <1>4, <2>4, <2>6, <2>7, FinishedAtF2
<1> QED
  BY <1>2, <1>14, <1>15 DEF CalmInv, Calm

\* Parts land.
LEMMA LandCalm ==
  ASSUME CalmInv, LInv', Land
  PROVE  CalmInv'
<1>1. /\ transit' = {} /\ fed' = fed
      /\ belts' = {z \in belts : z = "feed" \/ cur.op # "train"
                                 \/ ~\E t \in transit : t[1] = StopAt(cur, z)}
      /\ UNCHANGED <<vars, snap, execVars, shutter, shutterTo, fans, gun>>
  BY DEF Land
<1>2. Pattern' /\ Undisturbed' /\ Seen' /\ SprayGuarded' /\ FansDue'
  BY <1>1, RestStays
<1>3. UNCHANGED <<beat, phase, inflight, occ, declared, infed, cur, at, queue>>
  BY <1>1 DEF vars, ctlVars, bookVars, execVars
<1>4. OnlyFinishedLeave'
  BY <1>1 DEF OnlyFinishedLeave
<1>5. phys \in [Tracked -> Parts \cup {NoPart}]
  BY DEF CalmInv, LInv, Books, LineTypeOK
<1>6. CASE cur.op = "train"
  <2>1. PICK gone \in SUBSET inflight :
          \E air \in SUBSET gone : Stage(gone) /\ Underway(gone, air)
    BY <1>6, TrainAway
  <2>2. PICK air \in SUBSET gone : Stage(gone) /\ Underway(gone, air)
    BY <2>1
  <2>3. Aboard
    BY <1>6, TrainAway
  <2>4. Underway(gone, {})'
    BY <1>3, <1>5, <2>2, <2>3, LandUnderway DEF TrainHeld
  <2>5. Stage(gone)'
    BY <1>3, <2>2 DEF Stage
  <2>6. \E g \in SUBSET inflight' : \E a \in SUBSET g : Stage(g)' /\ Underway(g, a)'
    BY <1>3, <2>4, <2>5
  <2>7. Truth'
    BY <1>3, <1>6, <2>6 DEF Truth
  <2> QED
    BY <1>2, <1>4, <2>7 DEF CalmInv, Calm
<1>7. CASE cur.op # "train"
  <2>1. /\ belts = {} /\ Crossing = {}
        /\ inflight # {} /\ queue = <<>> => After
        /\ inflight = {} \/ queue # <<>> => Before
    BY <1>7, NoTrain
  <2>2. phys' = phys
    BY <1>5, <2>1, OnlyOut
  <2>3. belts' = {} /\ Crossing' = {}
    BY <1>1, <2>1 DEF Crossing
  <2>4. Moved(inflight)' = Moved(inflight) /\ MovedInfed(inflight)' = MovedInfed(inflight)
    BY <1>3 DEF Moved, MovedInfed, Delivers, Carried, Loaded
  <2>5. Truth'
    BY <1>1, <1>3, <1>7, <2>1, <2>2, <2>3, <2>4 DEF Truth, After, Before
  <2> QED
    BY <1>2, <1>4, <2>5 DEF CalmInv, Calm
<1> QED
  BY <1>6, <1>7

\* The shutter moves only for the worker's own command, never with a spray queued.
LEMMA ShutterMovesCalm ==
  ASSUME CalmInv, LInv', ShutterMoves
  PROVE  CalmInv'
<1>1. /\ shutter # shutterTo
      /\ UNCHANGED <<vars, snap, execVars, phys, transit, fed, shutterTo, fans, gun, belts>>
  BY DEF ShutterMoves, partsAt
<1>2. cur.op = "shutter" /\ cur # Idle
  BY <1>1, IntentKinds DEF CalmInv, LInv, ShutterObeys
<1>3. UNCHANGED <<phase, occ, infed, inflight, partVars, queue, cur, at, live, latch>>
  BY <1>1 DEF vars, ctlVars, bookVars, execVars
<1>4. inflight = {} /\ live /\ Expected(cur) /\ Before /\ phase # "faulted"
  BY <1>2, OtherCall
<1>5. Queued' = Queued
  BY <1>3, QueueSame
<1>6. Undisturbed'
  BY <1>1, <1>3, <1>4, <1>5, UndisturbedStays
<1>7. Truth'
  BY <1>1, <1>2, <1>3, <1>4, TruthStays
<1>8. Pattern' /\ OnlyFinishedLeave'
  BY <1>1, <1>3, PatternStays, LeaveStays DEF CalmInv
<1>9. phase # "robot_work"
  BY <1>2, <1>4 DEF Expected
<1>10. Seen'
  BY <1>1, <1>3, <1>9 DEF CalmInv, Calm, Seen
<1>11. SprayGuarded'
  <2>1. ~(\E i \in 1 .. Len(queue) : queue[i].op = "spray")
    BY <1>2, SprayQueued
  <2>2. ~gun
    BY <1>2 DEF CalmInv, Calm, SprayGuarded
  <2> QED
    BY <1>1, <1>2, <1>3, <2>1, <2>2 DEF SprayGuarded
<1>12. FansDue'
  BY <1>1, <1>3, <1>5 DEF CalmInv, Calm, FansDue, Owes, partVars
<1> QED
  BY <1>6, <1>7, <1>8, <1>10, <1>11, <1>12 DEF CalmInv, Calm

\* Taking a part off the outfeed end, a pause, a run: nothing here looks at them.
LEMMA AsideCalm ==
  ASSUME CalmInv, LInv', UNCHANGED <<vars, execVars, snap, phys, transit, fed, shutter, shutterTo,
                                    fans, gun, belts>>
  PROVE  CalmInv'
<1>1. Pattern' /\ Undisturbed' /\ Seen' /\ SprayGuarded' /\ FansDue'
  BY RestStays
<1>2. UNCHANGED <<beat, phase, inflight, occ, infed, declared, partVars, cur, at, queue>>
  BY DEF vars, ctlVars, bookVars, execVars
<1>3. OnlyFinishedLeave'
  BY <1>2, LeaveStays
<1>4. Moved(inflight)' = Moved(inflight) /\ MovedInfed(inflight)' = MovedInfed(inflight)
  BY <1>2 DEF Moved, MovedInfed, Delivers, Carried, Loaded
<1>5. ASSUME cur.op # "train" PROVE Truth'
  <2>1. IF inflight # {} /\ queue = <<>> THEN After ELSE Before
    BY <1>5 DEF CalmInv, Calm, Truth
  <2>2. IF inflight' # {} /\ queue' = <<>> THEN After' ELSE Before'
    BY <1>2, <1>4, <2>1 DEF After, Before, Crossing
  <2> QED
    BY <1>2, <1>5, <2>2 DEF Truth
<1>6. ASSUME cur.op = "train" PROVE Truth'
  <2>1. PICK gone \in SUBSET inflight :
          \E air \in SUBSET gone : Stage(gone) /\ Underway(gone, air)
    BY <1>6, TrainAway
  <2>2. PICK air \in SUBSET gone : Stage(gone) /\ Underway(gone, air)
    BY <2>1
  <2>3. Stage(gone)'
    BY <1>2, <2>2 DEF Stage
  <2>4. Underway(gone, air)'
    <3>1. Standing(gone, air)' = Standing(gone, air) /\ Aloft(air)' = Aloft(air)
      BY <1>2 DEF Standing, Aloft, Carried
    <3>2. ASSUME NEW z \in {"Z1", "Z2"}
          PROVE  /\ (Started(z))' <=> Started(z)
                 /\ StopAt(cur, z)' = StopAt(cur, z)
                 /\ EdgeCame(z, gone, air)' <=> EdgeCame(z, gone, air)
      BY <1>2 DEF Started, EdgeCame
    <3>3. Crossing' = Crossing
      BY DEF Crossing
    <3> QED
      BY <1>2, <2>2, <3>1, <3>2, <3>3 DEF Underway
  <2>5. \E g \in SUBSET inflight' : \E a \in SUBSET g : Stage(g)' /\ Underway(g, a)'
    BY <1>2, <2>3, <2>4
  <2> QED
    BY <1>2, <1>6, <2>5 DEF Truth
<1> QED
  BY <1>1, <1>3, <1>5, <1>6 DEF CalmInv, Calm

\* A picture read while no train is on its way shows what the machine believes.
LEMMA ReadCalm ==
  ASSUME CalmInv, LInv', ReadInputs
  PROVE  CalmInv'
<1>1. /\ snap' = [read |-> TRUE, s |-> Sensed]
      /\ UNCHANGED <<vars, execVars, phys, transit, fed, shutter, shutterTo, fans, gun, belts>>
  BY DEF ReadInputs, partsAt, devices
<1>2. UNCHANGED <<beat, phase, faultPhase, pending, inflight, occ, infed, declared, wet, partVars,
                  latch, live, cur, at, queue>>
  BY <1>1 DEF vars, ctlVars, bookVars, partVars, execVars
<1>3. Pattern' /\ OnlyFinishedLeave'
  BY <1>1, <1>2, PatternStays, LeaveStays DEF CalmInv
<1>4. Queued' = Queued
  BY <1>2, QueueSame
<1>5. Undisturbed' /\ FansDue'
  BY <1>1, <1>2, <1>4 DEF CalmInv, Calm, Undisturbed, FansDue, Owes
<1>6. SprayGuarded'
  BY <1>1, <1>2 DEF CalmInv, Calm, SprayGuarded, SprayReady, NotBlown
<1>7. Seen'
  <2> SUFFICES ASSUME phase \notin {"moving", "faulted"}
               PROVE  /\ Sensed.occupied = {st \in Tracked : occ[st] # NoPart}
                      /\ Sensed.shutter = shutter
    BY <1>1, <1>2 DEF Seen
  <2>1. inflight = {}
    BY DEF CalmInv, LInv, Counted
  <2>2. phys = occ
    BY <2>1, NoCargo DEF Before
  <2> QED
    BY <2>2 DEF Sensed
<1>8. Truth'
  <2>1. Moved(inflight)' = Moved(inflight) /\ MovedInfed(inflight)' = MovedInfed(inflight)
    BY <1>2 DEF Moved, MovedInfed, Delivers, Carried, Loaded
  <2>2. After' = After /\ Before' = Before
    BY <1>1, <1>2, <2>1 DEF After, Before, Crossing
  <2>3. \A gone, air : Underway(gone, air)' = Underway(gone, air) /\ Stage(gone)' = Stage(gone)
    BY <1>1, <1>2 DEF Underway, Stage, Standing, Aloft, Carried, Crossing, Started, EdgeCame
  <2> QED
    BY <1>2, <2>2, <2>3 DEF CalmInv, Calm, Truth
<1> QED
  BY <1>3, <1>5, <1>6, <1>7, <1>8 DEF CalmInv, Calm

-----------------------------------------------------------------------------
(***************************************************************************)
(* The loop thread: what banking does, and every outcome of a tick.         *)
(***************************************************************************)
\* Banking only dries: no tag is set, and who is on the way out stays finished.
LEMMA Banked ==
  ASSUME CalmInv, NEW s, Bank(s, 1)
  PROVE  /\ Dries /\ WetInv' /\ coats' = coats
         /\ \A p \in Parts : wet'[p] => wet[p]
         /\ transit' = transit => OnlyFinishedLeave'
<1>0. 1 \in 0 .. MaxDt
  BY LineAssumption, MachineAssumption
<1>t. Books /\ TypeOK /\ WetInv /\ OnlyFinishedLeave
  <2>1. Books /\ WetInv /\ OnlyFinishedLeave
    BY DEF CalmInv, Calm, LInv, Pattern
  <2> QED
    BY <2>1 DEF Books
<1>1. 1 \in 0 .. MaxDt /\ TypeOK /\ WetInv /\ OnlyFinishedLeave /\ Books
  BY <1>0, <1>t
<1>2. Dries /\ WetInv'
  BY <1>1, BankDries, BankWetInv
<1>3. coats' = coats
  BY DEF Bank
<1>4. \A p \in Parts : wet'[p] => wet[p]
  BY DEF Bank, BankedWet
<1>5. ASSUME transit' = transit
      PROVE  OnlyFinishedLeave'
  <2> SUFFICES ASSUME NEW t \in transit, t[1] = "OUT"
               PROVE  coats'[t[2]] = 2 /\ flash1'[t[2]] = FlashSeconds /\ flash2'[t[2]] = FlashSeconds
    BY <1>5 DEF OnlyFinishedLeave
  <2>1. t[2] \in Parts
    BY <1>1 DEF Books
  <2>2. coats[t[2]] = 2 /\ flash1[t[2]] = FlashSeconds /\ flash2[t[2]] = FlashSeconds
    BY <1>1 DEF OnlyFinishedLeave
  <2> QED
    BY <1>2, <1>3, <2>1, <2>2 DEF Dries
<1> QED
  BY <1>2, <1>3, <1>4, <1>5

\* A tick that banks and waits: the worker and the plant go on as they were.
LEMMA WaitsCalm ==
  ASSUME CalmInv, LInv', NEW s, Bank(s, 1),
         UNCHANGED <<beat, phase, faultPhase, inflight, bookVars>>,
         UNCHANGED <<queue, cur, at, latch, live, phys, transit, fed>>,
         UNCHANGED <<shutter, shutterTo, fans, gun, belts>>,
         snap' \in {snap, Nothing}, inflight # {} /\ phase = "moving" => pending' = pending
  PROVE  CalmInv'
<1>1. /\ Dries /\ WetInv' /\ coats' = coats /\ OnlyFinishedLeave'
      /\ \A p \in Parts : wet'[p] => wet[p]
  BY Banked
<1>2. UNCHANGED <<occ, declared, infed, shipped>>
  BY DEF bookVars
<1>3. IInv' /\ TypeOK
  <2>1. IInv /\ TypeOK'
    BY DEF CalmInv, Pattern, LInv, Books
  <2>2. Ph' = Ph
    BY DEF Ph
  <2> QED
    BY <1>1, <2>1, <2>2, Stay DEF IInv
<1>4. Queued' = Queued
  BY QueueSame
<1>5. Undisturbed'
  BY <1>4 DEF CalmInv, Calm, Undisturbed
<1>6. Seen'
  BY <1>2 DEF CalmInv, Calm, Seen, Nothing
<1>7. \A st \in Tracked : occ[st] # NoPart /\ wet'[occ[st]] => wet[occ[st]]
  BY <1>1, <1>3 DEF TypeOK
<1>8. NotBlown => NotBlown'
  BY <1>2, <1>7 DEF NotBlown, Tracked
<1>9. SprayReady' <=> SprayReady
  BY <1>2 DEF SprayReady
<1>10. SprayGuarded'
  BY <1>8, <1>9 DEF CalmInv, Calm, SprayGuarded
<1>11. \A st \in FanStations : Owes(st)' => Owes(st)
  BY <1>2, <1>7 DEF Owes, FanStations, Tracked
<1>12. FansDue'
  BY <1>4, <1>11 DEF CalmInv, Calm, FansDue
<1>13. Truth'
  <2>1. Moved(inflight)' = Moved(inflight) /\ MovedInfed(inflight)' = MovedInfed(inflight)
    BY <1>2 DEF Moved, MovedInfed, Delivers, Carried, Loaded
  <2>2. After' = After /\ Before' = Before
    BY <1>2, <2>1 DEF After, Before, Crossing
  <2>3. \A gone, air : Underway(gone, air)' = Underway(gone, air) /\ Stage(gone)' = Stage(gone)
    BY <1>2 DEF Underway, Stage, Standing, Aloft, Carried, Crossing, Started, EdgeCame
  <2> QED
    BY <2>2, <2>3 DEF CalmInv, Calm, Truth
<1> QED
  BY <1>1, <1>3, <1>5, <1>6, <1>10, <1>12, <1>13 DEF CalmInv, Calm, Pattern

\* A paused tick at a boundary.
LEMMA IdleCalm ==
  ASSUME CalmInv, LInv', IdleLoop
  PROVE  CalmInv'
<1>1. /\ Bank(Sensed, 1) /\ UNCHANGED <<ctlVars, bookVars>>
      /\ UNCHANGED <<snap, execVars, partsAt, devices>>
  BY DEF IdleLoop, IdleTick
<1>2. /\ UNCHANGED <<beat, phase, faultPhase, inflight, pending, bookVars>>
      /\ UNCHANGED <<queue, cur, at, latch, live, phys, transit, fed>>
      /\ UNCHANGED <<shutter, shutterTo, fans, gun, belts>>
      /\ snap' \in {snap, Nothing}
  BY <1>1 DEF ctlVars, execVars, partsAt, devices
<1> QED
  BY <1>1, <1>2, WaitsCalm

\* A batch is declared: a train on its way took nobody from IN, or took him already.
LEMMA DeclareCalm ==
  ASSUME CalmInv, LInv', NEW n \in Parts, DeclareBatch(n)
  PROVE  CalmInv'
<1>1. /\ SteadyDeclare(n) /\ declared' = declared + n
      /\ infed < declared \/ beat \in {"P1", "P2"}
      /\ UNCHANGED <<ctlVars, occ, infed, shipped, partVars, snap, execVars, partsAt, devices>>
  BY DEF DeclareBatch, SteadyDeclare, Declare
<1>2. /\ UNCHANGED <<beat, phase, faultPhase, pending, inflight, occ, infed, shipped>>
      /\ UNCHANGED <<coats, flash1, flash2, wet, partVars>>
      /\ UNCHANGED <<queue, cur, at, latch, live, phys, transit, fed>>
      /\ UNCHANGED <<shutter, shutterTo, fans, gun, belts, snap>>
  BY <1>1 DEF ctlVars, partVars, execVars, partsAt, devices
<1>3. IInv'
  <2>1. IInv /\ TypeOK'
    BY DEF CalmInv, Pattern, LInv, Books
  <2> QED
    BY <1>1, <2>1, DeclareKeeps
<1>4. WetInv'
  BY <1>2 DEF CalmInv, Pattern, WetInv, FreshTimers, WetMeansOwing, FlashComplete, ActiveFlash
<1>5. Queued' = Queued
  BY <1>2, QueueSame
<1>6. Undisturbed' /\ FansDue'
  BY <1>2, <1>5 DEF CalmInv, Calm, Undisturbed, FansDue, Owes
<1>7. Seen' /\ OnlyFinishedLeave'
  BY <1>2, SeenStays, LeaveStays
<1>8. SprayGuarded'
  BY <1>2 DEF CalmInv, Calm, SprayGuarded, SprayReady, NotBlown
<1>9. Truth'
  <2>1. /\ beat \in {"P1", "P2", "P3", "P4"} /\ declared \in Nat /\ n \in Nat /\ infed \in Nat
        /\ infed <= declared /\ inflight \in SUBSET Stations
        /\ inflight # {} => inflight = LiveMoves
    BY DEF CalmInv, Pattern, IInv, TypeOK, Control, Beats, Parts
  <2>2. \A st \in inflight : Loaded(st)' <=> Loaded(st)
    <3>1. CASE infed < declared
      BY <1>1, <1>2, <2>1, <3>1 DEF Loaded
    <3>2. CASE beat \in {"P1", "P2"}
      <4>1. "IN" \notin Sources(beat)
        BY <3>2 DEF Sources, Feeder
      <4>2. "IN" \notin inflight
        BY <2>1, <4>1 DEF LiveMoves
      <4> QED
        BY <1>2, <4>2 DEF Loaded
    <3> QED
      BY <1>1, <3>1, <3>2
  <2>3. Moved(inflight)' = Moved(inflight)
    <3>1. \A d \in Tracked : Delivers(inflight, d)' <=> Delivers(inflight, d)
      BY <1>2, <2>2 DEF Delivers
    <3> QED
      BY <1>2, <3>1 DEF Moved, Carried
  <2>4. MovedInfed(inflight)' = MovedInfed(inflight)
    BY <1>2, <2>2 DEF MovedInfed
  <2>5. After' = After /\ Before' = Before
    BY <1>2, <2>3, <2>4 DEF After, Before, Crossing
  <2>6. \A gone, air : Underway(gone, air)' = Underway(gone, air) /\ Stage(gone)' = Stage(gone)
    BY <1>2 DEF Underway, Stage, Standing, Aloft, Carried, Crossing, Started, EdgeCame
  <2> QED
    BY <1>2, <2>5, <2>6 DEF CalmInv, Calm, Truth
<1> QED
  BY <1>3, <1>4, <1>6, <1>7, <1>8, <1>9 DEF CalmInv, Calm, Pattern

-----------------------------------------------------------------------------
(***************************************************************************)
(* Recovery.                                                                *)
(***************************************************************************)
\* The move is over: what the operator finds is the picture after it, and the machine
\* re-enters behind the crossing with a safe pose to wait for.
LEMMA AckCalm ==
  ASSUME CalmInv, LInv', AckFault
  PROVE  CalmInv'
<1>1. /\ Resume(phys, beat, Sensed.occupied) /\ transit = {}
      /\ latch' = FALSE /\ live' = FALSE /\ queue' = <<MoveToSafePose>>
      /\ UNCHANGED <<snap, cur, at, partsAt, devices>>
  BY DEF AckFault
<1>2. /\ phase = "faulted" /\ phase' = ReentryPhase(phys) /\ beat' = beat
      /\ inflight' = {} /\ occ' = phys
      /\ infed' = IF Crossed(phys) THEN MovedInfed(inflight) ELSE infed
      /\ UNCHANGED partVars
  BY <1>1 DEF Resume
<1>3. /\ faultPhase = "moving" /\ inflight # {} /\ cur = Idle /\ cur.op = "none"
      /\ phys = Moved(inflight) /\ fed = MovedInfed(inflight) /\ Crossing = {} /\ belts = {}
  BY <1>2, Faulted DEF After
<1>4. Crossed(phys)
  BY <1>3 DEF Crossed
<1>5. phase' = "shutter_close" /\ infed' = fed
  BY <1>2, <1>3, <1>4 DEF ReentryPhase
<1>6. /\ UNCHANGED <<snap, cur, at, phys, transit, fed, belts, shutter, shutterTo, fans, gun>>
      /\ UNCHANGED <<coats, flash1, flash2, wet>>
  BY <1>1, <1>2 DEF partsAt, devices, partVars
<1>7. IInv'
  <2>1. SteadyResume(Sensed.occupied)
    BY <1>1, <1>3 DEF SteadyResume
  <2>2. IInv /\ TypeOK'
    BY DEF CalmInv, Pattern, LInv, Books
  <2> QED
    BY <2>1, <2>2, ResumeKeeps
<1>8. WetInv'
  BY <1>6 DEF CalmInv, Pattern, WetInv, FreshTimers, WetMeansOwing, FlashComplete, ActiveFlash
<1>9. Queued' = {MoveToSafePose} /\ MoveToSafePose.op = "safe" /\ Len(queue') = 1
      /\ queue'[1] = MoveToSafePose
  BY <1>1 DEF Queued, MoveToSafePose
<1>10. Undisturbed'
  BY <1>1, <1>3, <1>5, <1>6, <1>9 DEF Undisturbed
<1>11. Truth'
  <2>1. Before'
    BY <1>2, <1>3, <1>5, <1>6 DEF Before, Crossing
  <2> QED
    BY <1>2, <1>3, <1>6, <2>1 DEF Truth
<1>12. Seen'
  <2>1. ~snap.read
    BY DEF AckFault
  <2> QED
    BY <1>6, <2>1 DEF Seen
<1>13. SprayGuarded'
  <2>1. ~gun
    BY <1>3 DEF CalmInv, Calm, SprayGuarded
  <2>2. \A i \in 1 .. Len(queue') : queue'[i].op # "spray"
    BY <1>9
  <2> QED
    BY <1>3, <1>6, <2>1, <2>2 DEF SprayGuarded
<1>14. FansDue'
  <2>1. \A st \in FanStations : SetFan(st, TRUE) # cur' /\ SetFan(st, TRUE) # MoveToSafePose
    <3>1. \A st \in FanStations : SetFan(st, TRUE).op = "fan"
      BY FanIntentsAre
    <3> QED
      BY <1>3, <1>6, <1>9, <3>1
  <2>2. \A i \in 1 .. Len(queue') : queue'[i] = MoveToSafePose
    BY <1>9
  <2> QED
    BY <1>5, <2>1, <2>2 DEF FansDue
<1>15. OnlyFinishedLeave'
  BY <1>2, <1>6, LeaveStays
<1> QED
  BY <1>7, <1>8, <1>10, <1>11, <1>12, <1>13, <1>14, <1>15 DEF CalmInv, Calm, Pattern

-----------------------------------------------------------------------------
(***************************************************************************)
(* A tick that acts.                                                        *)
(***************************************************************************)
\* Who stands where, in the picture a tick acts on.
LEMMA InputsPicture ==
  ASSUME CalmInv, snap.read
  PROVE  Inputs.occupied = snap.s.occupied /\ Inputs.shutter = snap.s.shutter
<1>1. Books /\ ~Nothing.read
  BY DEF CalmInv, LInv, Nothing
<1>2. snap.s \in Snapshots
  BY <1>1 DEF Books
<1> QED
  BY <1>2 DEF Inputs, Snapshots

\* The picture is never mistaken, and the part at O is always the one that is due.
LEMMA NoOtherFault ==
  ASSUME CalmInv, Act
  PROVE  /\ ~(latch /\ ExternalFault(Inputs, 1))
         /\ ~MismatchFault(Inputs, 1) /\ ~RoleFault(Inputs, 1, done)
<1>1. snap.read /\ Undisturbed /\ Seen /\ IInv
  BY DEF Act, CalmInv, Calm, Pattern
<1>2. ~(latch /\ ExternalFault(Inputs, 1))
  BY <1>1 DEF Undisturbed, ExternalFault
<1>3. ~MismatchFault(Inputs, 1)
  <2> SUFFICES ASSUME phase \notin {"faulted", "moving"}
               PROVE  ~Mismatch(occ, Inputs.occupied)
    BY DEF MismatchFault
  <2>1. Inputs.occupied = {st \in Tracked : occ[st] # NoPart}
    BY <1>1, InputsPicture DEF Seen
  <2> QED
    BY <2>1 DEF Mismatch
<1>4. ~RoleFault(Inputs, 1, done)
  BY <1>1, RolesAreRight DEF RoleFault, Ready, RoleAlwaysMatches
<1> QED
  BY <1>2, <1>3, <1>4

\* A dispatching tick keeps the machine's own invariant and forgets its picture.
LEMMA TickKeepsPattern ==
  ASSUME CalmInv, LInv', Act, Dispatch(Inputs, 1, done)
  PROVE  Pattern' /\ Seen'
<1>1. 1 \in 0 .. MaxDt
  BY LineAssumption, MachineAssumption
<1>2. IInv /\ WetInv /\ TypeOK' /\ TypeOK
  BY DEF CalmInv, Pattern, IInv, LInv, Books
<1>3. IInv'
  BY <1>1, <1>2, DispatchKeeps
<1>4. Bank(Inputs, 1) \/ StartWork(Inputs, 1, done)
  <2>1. Tick(Inputs, 1, done, FALSE)
    BY DEF Tick
  <2> QED
    BY <2>1, StepParts
<1>5. WetInv'
  BY <1>1, <1>2, <1>4, BankWetInv, StartWorkWetInv
<1>6. Seen'
  BY DEF Act, Seen, Nothing
<1> QED
  BY <1>3, <1>5, <1>6 DEF Pattern

\* Everything collected, the worker idle, nothing moving: what is queued after the tick
\* is what it submits.
LEMMA Collected ==
  ASSUME CalmInv, LInv', Act, ~latch, done = pending
  PROVE  /\ queue = <<>> /\ cur = Idle /\ cur.op = "none" /\ ~gun /\ Queued = {}
         /\ UNCHANGED <<cur, at, phys, transit, fed, shutter, shutterTo, gun>>
         /\ phase' # "faulted" => UNCHANGED <<latch, belts, fans, live>>
         /\ \A e \in Seq(Intents) : Emitted = e /\ phase' # "faulted" => queue' = e
<1>1. queue = <<>> /\ cur = Idle
  BY AllCollected DEF CalmInv
<1>2. cur.op = "none"
  BY <1>1, IntentKinds
<1>3. ~gun
  BY <1>2 DEF CalmInv, Calm, SprayGuarded
<1>4. Queued = {}
  BY <1>1, QueueEmpty
<1>5. /\ UNCHANGED <<cur, at, partsAt, shutter, shutterTo, gun>>
      /\ phase' # "faulted" => queue' = queue \o Emitted /\ UNCHANGED <<latch, belts, fans, live>>
  BY DEF Act, NewFault
<1>6. \A e \in Seq(Intents) : Emitted = e /\ phase' # "faulted" => queue' = e
  BY <1>1, <1>5, QueueFilled
<1> QED
  BY <1>1, <1>2, <1>3, <1>4, <1>5, <1>6 DEF partsAt

\* The train is on its way or not; before it, the books may only dry.
LEMMA PlainCalm ==
  ASSUME CalmInv, LInv', Act, ~latch, done = pending, Dispatch(Inputs, 1, done),
         Bank(Inputs, 1), UNCHANGED <<beat, bookVars>>, inflight = {}, phase' # "faulted",
         phase' \in {"robot_work", "await_guards"} => phase \in {"robot_work", "await_guards"},
         NEW e \in Seq(Intents), Emitted = e,
         \A i \in 1 .. Len(e) : e[i].op \in {"shutter", "train"},
         \A i \in 1 .. Len(e) : e[i].op = "train" => e[i] = AdvanceTrain(beat, inflight') /\ inflight' # {},
         inflight' # {} => pending' = 1 /\ e # <<>>
  PROVE  CalmInv'
<1>1. /\ queue = <<>> /\ cur = Idle /\ cur.op = "none" /\ ~gun /\ Queued = {}
      /\ UNCHANGED <<cur, at, phys, transit, fed, shutter, shutterTo, gun, latch, belts, fans, live>>
      /\ queue' = e
  BY Collected
<1>2. Pattern' /\ Seen'
  BY TickKeepsPattern
<1>3. /\ OnlyFinishedLeave' /\ \A p \in Parts : wet'[p] => wet[p]
  BY <1>1, Banked
<1>4. UNCHANGED <<occ, infed>> /\ TypeOK
  BY DEF bookVars, CalmInv, LInv, Books
<1>5. Undisturbed'
  <2>1. \A i \in Queued' \cup {cur'} :
          i.op = "train" => i = AdvanceTrain(beat', inflight') /\ inflight' # {}
    BY <1>1 DEF Queued
  <2> QED
    BY <1>1, <2>1 DEF Undisturbed
<1>6. Truth'
  <2>1. Before
    BY NoCargo
  <2>2. Before'
    BY <1>1, <1>4, <2>1 DEF Before, Crossing
  <2> QED
    BY <1>1, <2>2 DEF Truth
<1>7. \A i \in 1 .. Len(queue') : queue'[i].op # "spray" /\ queue'[i].op # "fan"
  BY <1>1
<1>8. SprayGuarded'
  BY <1>1, <1>7 DEF SprayGuarded
<1>9. FansDue'
  <2> SUFFICES ASSUME NEW st \in FanStations
               PROVE  /\ phase' \in {"robot_work", "await_guards"} /\ Owes(st)' =>
                           st \in fans' /\ SetFan(st, FALSE) \notin Queued' \cup {cur'}
                      /\ cur' # SetFan(st, TRUE)
                      /\ \A i \in 1 .. Len(queue') : queue'[i] # SetFan(st, TRUE)
    BY DEF FansDue
  <2>1. \A on \in BOOLEAN : SetFan(st, on) # cur' /\ SetFan(st, on) \notin Queued'
                            /\ SetFan(st, on) \notin Queued \cup {cur}
    BY <1>1, <1>7, FanIntentsAre DEF Queued
  <2>2. \A i \in 1 .. Len(queue') : queue'[i] # SetFan(st, TRUE)
    BY <1>7, FanIntentsAre
  <2>3. Owes(st)' => Owes(st)
    <3>1. occ[st] # NoPart => occ[st] \in Parts
      BY <1>4 DEF TypeOK, FanStations, Tracked
    <3> QED
      BY <1>3, <1>4, <3>1 DEF Owes
  <2>4. phase' \in {"robot_work", "await_guards"} /\ Owes(st)' => st \in fans
    BY <2>1, <2>3 DEF CalmInv, Calm, FansDue
  <2> QED
    BY <1>1, <2>1, <2>2, <2>4
<1> QED
  BY <1>2, <1>3, <1>5, <1>6, <1>8, <1>9 DEF CalmInv, Calm

\* The parts arrived: the belief catches up with the belts.
LEMMA ArriveCalm ==
  ASSUME CalmInv, LInv', Act, ~latch, done = pending, Arrive(Inputs, 1, done)
  PROVE  CalmInv'
<1>1. /\ phase = "moving" /\ inflight # {} /\ Bank(Inputs, 1)
      /\ occ' = Moved(inflight) /\ infed' = MovedInfed(inflight)
      /\ inflight' = {} /\ phase' = "shutter_close"
  BY DEF Arrive, Ready, Goto
<1>2. Emitted = <<>> /\ <<>> \in Seq(Intents)
  BY <1>1 DEF Emitted
<1>3. /\ queue = <<>> /\ cur = Idle /\ cur.op = "none" /\ ~gun
      /\ UNCHANGED <<cur, at, phys, transit, fed, shutter, shutterTo, gun, latch, belts, fans, live>>
      /\ queue' = <<>>
  BY <1>1, <1>2, Collected
<1>4. Pattern' /\ Seen'
  BY TickKeepsPattern DEF Dispatch
<1>5. OnlyFinishedLeave'
  BY <1>1, <1>3, Banked
<1>6. Queued' = {}
  BY <1>3, QueueEmpty
<1>7. Undisturbed'
  BY <1>1, <1>3, <1>6 DEF Undisturbed
<1>8. Truth'
  <2>1. After
    BY <1>1, <1>3, NoTrain
  <2>2. Before'
    BY <1>1, <1>3, <2>1 DEF After, Before, Crossing
  <2> QED
    BY <1>1, <1>3, <2>2 DEF Truth
<1>9. \A i \in 1 .. Len(queue') : FALSE
  BY <1>3
<1>10. SprayGuarded'
  BY <1>3, <1>9 DEF SprayGuarded
<1>11. \A st \in FanStations : SetFan(st, TRUE) # cur'
  BY <1>3, FanIntentsAre
<1>12. FansDue'
  BY <1>1, <1>9, <1>11 DEF FansDue
<1> QED
  BY <1>4, <1>5, <1>7, <1>8, <1>10, <1>12 DEF CalmInv, Calm

\* The picture is older than the move's end: the move is over, the machine faulted.
LEMMA ArrivalFaultCalm ==
  ASSUME CalmInv, LInv', Act, ~latch, done = pending, ArrivalFault(Inputs, 1, done)
  PROVE  CalmInv'
<1>1. /\ phase = "moving" /\ inflight # {} /\ Bank(Inputs, 1)
      /\ phase' = "faulted" /\ faultPhase' = "moving" /\ UNCHANGED <<beat, inflight, bookVars>>
  BY DEF ArrivalFault, Ready, EnterFault
<1>2. UNCHANGED <<occ, infed, declared>>
  BY <1>1 DEF bookVars
<1>3. /\ queue = <<>> /\ cur = Idle /\ cur.op = "none" /\ ~gun
      /\ UNCHANGED <<cur, at, phys, transit, fed, shutter, shutterTo, gun>>
  BY Collected
<1>4. NewFault /\ queue' = <<>> /\ latch' = TRUE /\ belts' = belts \cap {"feed"}
  BY <1>1 DEF NewFault, Act, HaltExecutor
<1>5. Pattern' /\ Seen'
  BY TickKeepsPattern DEF Dispatch
<1>6. OnlyFinishedLeave'
  BY <1>1, <1>3, Banked
<1>7. Queued' = {} /\ \A i \in 1 .. Len(queue') : FALSE
  BY <1>4, QueueEmpty
<1>8. Undisturbed'
  BY <1>1, <1>3, <1>4, <1>7 DEF Undisturbed
<1>9. Truth'
  <2>1. After
    BY <1>1, <1>3, NoTrain
  <2>2. Moved(inflight)' = Moved(inflight) /\ MovedInfed(inflight)' = MovedInfed(inflight)
    BY <1>1, <1>2 DEF Moved, MovedInfed, Delivers, Carried, Loaded
  <2>3. After'
    BY <1>3, <1>4, <2>1, <2>2 DEF After, Crossing
  <2> QED
    BY <1>1, <1>3, <1>4, <2>3 DEF Truth
<1>10. SprayGuarded'
  BY <1>3, <1>7 DEF SprayGuarded
<1>11. \A st \in FanStations : SetFan(st, TRUE) # cur'
  BY <1>3, FanIntentsAre
<1>12. FansDue'
  BY <1>1, <1>7, <1>11 DEF FansDue
<1> QED
  BY <1>5, <1>6, <1>8, <1>9, <1>10, <1>12 DEF CalmInv, Calm

\* At the boundary a tick reaches, too, wet parts stand where the fans run.
LEMMA WetUnderFansNext == Pattern' => WetPartsUnderFans'
<1>1. Pattern => WetPartsUnderFans
  BY WetUnderFans DEF Pattern
<1> QED
  BY <1>1, PTL

\* The fans of the new beat are queued for whoever owes flash time.
LEMMA SetFansCalm ==
  ASSUME CalmInv, LInv', Act, ~latch, done = pending, SetFans(Inputs, 1, done)
  PROVE  CalmInv'
<1>1. /\ phase = "set_fans" /\ Bank(Inputs, 1) /\ phase' = "robot_work"
      /\ UNCHANGED <<inflight, bookVars, coats>>
  BY DEF SetFans, Ready, Bank
<1>2. UNCHANGED <<occ, infed>>
  BY <1>1 DEF bookVars
<1>3. inflight = {}
  BY <1>1 DEF CalmInv, LInv, Counted
<1> DEFINE f1 == SetFan("F1", "F1" \in FanOn(beat') /\ occ["F1"] # NoPart)
           f2 == SetFan("F2", "F2" \in FanOn(beat') /\ occ["F2"] # NoPart)
<1>4. Emitted = FanIntents(beat') /\ FanIntents(beat') = <<f1, f2>>
  BY <1>1, <1>3 DEF Emitted, FanIntents
<1>5. FanIntents(beat') \in Seq(Intents)
  BY FansSubmitted
<1>6. /\ queue = <<>> /\ cur = Idle /\ cur.op = "none" /\ ~gun
      /\ UNCHANGED <<cur, at, phys, transit, fed, shutter, shutterTo, gun, latch, belts, fans, live>>
      /\ queue' = FanIntents(beat')
  BY <1>1, <1>4, <1>5, Collected
<1>7. /\ f1.op = "fan" /\ f1.st = "F1" /\ f2.op = "fan" /\ f2.st = "F2"
      /\ "F1" \in FanOn(beat') /\ occ["F1"] # NoPart => f1 = SetFan("F1", TRUE)
      /\ "F2" \in FanOn(beat') /\ occ["F2"] # NoPart => f2 = SetFan("F2", TRUE)
  <2>1. \A b \in BOOLEAN : b => b = TRUE
    OBVIOUS
  <2>2. /\ ("F1" \in FanOn(beat') /\ occ["F1"] # NoPart) \in BOOLEAN
        /\ ("F2" \in FanOn(beat') /\ occ["F2"] # NoPart) \in BOOLEAN
    OBVIOUS
  <2>3. \A st, on : SetFan(st, on).op = "fan" /\ SetFan(st, on).st = st
    BY DEF SetFan
  <2>4. "F1" \in FanOn(beat') /\ occ["F1"] # NoPart => f1 = SetFan("F1", TRUE)
    BY <2>1, <2>2
  <2>5. "F2" \in FanOn(beat') /\ occ["F2"] # NoPart => f2 = SetFan("F2", TRUE)
    BY <2>1, <2>2
  <2> QED
    BY <2>3, <2>4, <2>5
<1> HIDE DEF f1, f2
<1>8. queue' = <<f1, f2>> /\ Len(queue') = 2 /\ queue'[1] = f1 /\ queue'[2] = f2
  BY <1>4, <1>6
<1>9. \A i \in 1 .. Len(queue') : i \in {1, 2} /\ queue'[i].op = "fan"
  BY <1>7, <1>8
<1>10. Pattern' /\ Seen'
  BY TickKeepsPattern DEF Dispatch
<1>11. OnlyFinishedLeave'
  BY <1>1, <1>6, Banked
<1>12. Undisturbed'
  <2>1. \A i \in Queued' \cup {cur'} : i.op # "train"
    BY <1>6, <1>9 DEF Queued
  <2> QED
    BY <1>1, <1>3, <1>6, <2>1 DEF Undisturbed
<1>13. Truth'
  <2>1. Before
    BY <1>3, NoCargo
  <2>2. Before'
    BY <1>2, <1>6, <2>1 DEF Before, Crossing
  <2> QED
    BY <1>1, <1>3, <1>6, <2>2 DEF Truth
<1>14. SprayGuarded'
  <2>1. \A i \in 1 .. Len(queue') : queue'[i].op # "spray"
    BY <1>9
  <2> QED
    BY <1>6, <2>1 DEF SprayGuarded
<1>15. FansDue'
  <2> SUFFICES ASSUME NEW st \in FanStations
               PROVE  /\ Owes(st)' => SetFan(st, TRUE) \in Queued'
                      /\ cur' # SetFan(st, TRUE)
                      /\ \A i, j \in 1 .. Len(queue') :
                           queue'[i] = SetFan(st, TRUE) /\ i < j => queue'[j] # SetFan(st, FALSE)
    BY DEF FansDue
  <2>1. cur' # SetFan(st, TRUE)
    BY <1>6, FanIntentsAre
  <2>2. ASSUME Owes(st)'
        PROVE  SetFan(st, TRUE) \in Queued'
    <3>1. WetPartsUnderFans'
      BY <1>10, WetUnderFansNext
    <3>2. st \in FanOn(beat') /\ occ[st] # NoPart
      BY <1>1, <1>2, <2>2, <3>1 DEF WetPartsUnderFans, Owes
    <3>3. SetFan(st, TRUE) \in {f1, f2}
      BY <1>7, <3>2 DEF FanStations
    <3>4. f1 \in Queued' /\ f2 \in Queued'
      <4>1. 1 \in 1 .. Len(queue') /\ 2 \in 1 .. Len(queue')
        BY <1>8
      <4> QED
        BY <1>8, <4>1 DEF Queued
    <3> QED
      BY <3>3, <3>4
  <2>3. ASSUME NEW i \in 1 .. Len(queue'), NEW j \in 1 .. Len(queue'),
               queue'[i] = SetFan(st, TRUE), i < j
        PROVE  queue'[j] # SetFan(st, FALSE)
    <3>1. i = 1 /\ j = 2
      BY <1>9, <2>3
    <3>2. st = "F1"
      BY <1>7, <1>8, <2>3, <3>1, FanIntentsAre
    <3>3. SetFan(st, FALSE).st = "F1" /\ queue'[j].st = "F2"
      BY <1>7, <1>8, <3>1, <3>2, FanIntentsAre
    <3> QED
      BY <3>3
  <2> QED
    BY <2>1, <2>2, <2>3
<1> QED
  BY <1>10, <1>11, <1>12, <1>13, <1>14, <1>15 DEF CalmInv, Calm

\* One intent more at the end of a queue; every other keeps its place.
LEMMA OneMore ==
  ASSUME NEW S, NEW s \in Seq(S), NEW x \in S, NEW u, u = s \o <<x>>
  PROVE  /\ u \in Seq(S) /\ Len(u) = Len(s) + 1 /\ u[Len(s) + 1] = x
         /\ \A i \in 1 .. Len(s) : u[i] = s[i]
OBVIOUS

\* The places of the two batches.
LEMMA Joined ==
  ASSUME NEW S, NEW a \in S, NEW b \in S, NEW c \in S, NEW d \in S, NEW e \in S,
         NEW s, NEW t
  PROVE  /\ s = <<a>> \o <<b>> \o <<c>> \o <<d>> \o <<e>> =>
              Len(s) = 5 /\ s[1] = a /\ s[2] = b /\ s[3] = c /\ s[4] = d /\ s[5] = e
         /\ t = <<a>> \o <<>> \o <<c>> \o <<>> \o <<e>> =>
              Len(t) = 3 /\ t[1] = a /\ t[2] = c /\ t[3] = e
<1>1. PICK s1 : s1 = <<a>>
  OBVIOUS
<1>2. PICK s2 : s2 = s1 \o <<b>>
  OBVIOUS
<1>3. PICK s3 : s3 = s2 \o <<c>>
  OBVIOUS
<1>4. PICK s4 : s4 = s3 \o <<d>>
  OBVIOUS
<1>5. PICK t2 : t2 = s1 \o <<c>>
  OBVIOUS
<1>6. s1 \in Seq(S) /\ Len(s1) = 1 /\ s1[1] = a
  BY <1>1
<1>7. s2 \in Seq(S) /\ Len(s2) = 2 /\ s2[1] = a /\ s2[2] = b
  <2>1. /\ s2 \in Seq(S) /\ Len(s2) = Len(s1) + 1 /\ s2[Len(s1) + 1] = b
        /\ \A i \in 1 .. Len(s1) : s2[i] = s1[i]
    BY <1>2, <1>6, OneMore
  <2>2. Len(s1) + 1 = 2 /\ 1 \in 1 .. Len(s1)
    BY <1>6
  <2> QED
    BY <1>6, <2>1, <2>2
<1>8. t2 \in Seq(S) /\ Len(t2) = 2 /\ t2[1] = a /\ t2[2] = c
  <2>1. /\ t2 \in Seq(S) /\ Len(t2) = Len(s1) + 1 /\ t2[Len(s1) + 1] = c
        /\ \A i \in 1 .. Len(s1) : t2[i] = s1[i]
    BY <1>5, <1>6, OneMore
  <2>2. Len(s1) + 1 = 2 /\ 1 \in 1 .. Len(s1)
    BY <1>6
  <2> QED
    BY <1>6, <2>1, <2>2
<1>9. s3 \in Seq(S) /\ Len(s3) = 3 /\ s3[1] = a /\ s3[2] = b /\ s3[3] = c
  <2>1. /\ s3 \in Seq(S) /\ Len(s3) = Len(s2) + 1 /\ s3[Len(s2) + 1] = c
        /\ \A i \in 1 .. Len(s2) : s3[i] = s2[i]
    BY <1>3, <1>7, OneMore
  <2>2. Len(s2) + 1 = 3 /\ 1 \in 1 .. Len(s2) /\ 2 \in 1 .. Len(s2)
    BY <1>7
  <2> QED
    BY <1>7, <2>1, <2>2
<1>10. s4 \in Seq(S) /\ Len(s4) = 4 /\ s4[1] = a /\ s4[2] = b /\ s4[3] = c /\ s4[4] = d
  <2>0. s3 \in Seq(S)
    BY <1>9
  <2>1. /\ s4 \in Seq(S) /\ Len(s4) = Len(s3) + 1 /\ s4[Len(s3) + 1] = d
        /\ \A i \in 1 .. Len(s3) : s4[i] = s3[i]
    BY <2>0, <1>4, OneMore
  <2>2. Len(s3) + 1 = 4 /\ \A i \in {1, 2, 3} : i \in 1 .. Len(s3)
    BY <1>9
  <2> QED
    BY <1>9, <2>1, <2>2
<1>11. s4 \o <<e>> = <<a>> \o <<b>> \o <<c>> \o <<d>> \o <<e>>
  BY <1>1, <1>2, <1>3, <1>4
<1>12. t2 \o <<e>> = <<a>> \o <<>> \o <<c>> \o <<>> \o <<e>>
  <2>1. s1 \o <<>> = s1
    BY <1>6
  <2>2. t2 \o <<>> = t2
    BY <1>8
  <2> QED
    BY <1>1, <1>5, <2>1, <2>2
<1>13. ASSUME s = s4 \o <<e>>
       PROVE  Len(s) = 5 /\ s[1] = a /\ s[2] = b /\ s[3] = c /\ s[4] = d /\ s[5] = e
  <2>0. s4 \in Seq(S)
    BY <1>10
  <2>1. /\ Len(s) = Len(s4) + 1 /\ s[Len(s4) + 1] = e
        /\ \A i \in 1 .. Len(s4) : s[i] = s4[i]
    BY <2>0, <1>13, OneMore
  <2>2. Len(s4) + 1 = 5 /\ \A i \in {1, 2, 3, 4} : i \in 1 .. Len(s4)
    BY <1>10
  <2> QED
    BY <1>10, <2>1, <2>2
<1>14. ASSUME t = t2 \o <<e>>
       PROVE  Len(t) = 3 /\ t[1] = a /\ t[2] = c /\ t[3] = e
  <2>1. /\ Len(t) = Len(t2) + 1 /\ t[Len(t2) + 1] = e
        /\ \A i \in 1 .. Len(t2) : t[i] = t2[i]
    BY <1>8, <1>14, OneMore
  <2>2. Len(t2) + 1 = 3 /\ 1 \in 1 .. Len(t2) /\ 2 \in 1 .. Len(t2)
    BY <1>8
  <2> QED
    BY <1>8, <2>1, <2>2
<1> QED
  BY <1>11, <1>12, <1>13, <1>14

\* The batch at O, place by place: the F1 fan off first, on again last, if it pauses.
LEMMA BatchIs ==
  /\ PausesFan => /\ 1 .. Len(WorkBatch) = {1, 2, 3, 4, 5}
                  /\ WorkBatch[1] = Prep /\ WorkBatch[2] = FanOff /\ WorkBatch[3] = SprayPart
                  /\ WorkBatch[4] = SetFan("F1", TRUE) /\ WorkBatch[5] = MoveToSafePose
  /\ ~PausesFan => /\ 1 .. Len(WorkBatch) = {1, 2, 3}
                   /\ WorkBatch[1] = Prep /\ WorkBatch[2] = SprayPart
                   /\ WorkBatch[3] = MoveToSafePose
<1> DEFINE off == SetFan("F1", ~TRUE)
           on  == SetFan("F1", ~FALSE)
           s == <<Prep>> \o <<off>> \o <<SprayPart>> \o <<on>> \o <<MoveToSafePose>>
           t == <<Prep>> \o <<>> \o <<SprayPart>> \o <<>> \o <<MoveToSafePose>>
<1>1. PausesFan => WorkBatch = s
  BY DEF WorkBatch
<1>2. ~PausesFan => WorkBatch = t
  BY DEF WorkBatch
<1>3. off = FanOff /\ on = SetFan("F1", TRUE)
  BY DEF FanOff, SetFan
<1>4. /\ Prep \in Intents /\ SprayPart \in Intents /\ MoveToSafePose \in Intents
      /\ off \in Intents /\ on \in Intents
  <2>1. Prep \in Intents /\ SprayPart \in Intents /\ MoveToSafePose \in Intents
    BY DEF Intents
  <2>2. "F1" \in FanStations
    BY DEF FanStations
  <2>3. SetFan("F1", FALSE) \in Intents /\ SetFan("F1", TRUE) \in Intents
    BY <2>2, FanIntentsAre
  <2> QED
    BY <1>3, <2>1, <2>3 DEF FanOff
<1> HIDE DEF off, on
<1>5. /\ Len(s) = 5 /\ s[1] = Prep /\ s[2] = off /\ s[3] = SprayPart /\ s[4] = on
      /\ s[5] = MoveToSafePose
      /\ Len(t) = 3 /\ t[1] = Prep /\ t[2] = SprayPart /\ t[3] = MoveToSafePose
  BY <1>4, Joined
<1> HIDE DEF s, t
<1>6. 1 .. 5 = {1, 2, 3, 4, 5} /\ 1 .. 3 = {1, 2, 3}
  OBVIOUS
<1> QED
  BY <1>1, <1>2, <1>3, <1>5, <1>6

\* The batch goes out behind the closed shutter, and the F1 fan is bracketed whenever it
\* could blow on somebody wet.
LEMMA StartWorkCalm ==
  ASSUME CalmInv, LInv', Act, ~latch, done = pending, StartWork(Inputs, 1, done)
  PROVE  CalmInv'
<1> DEFINE q == occ["O"]
<1>1. /\ phase = "robot_work" /\ phase' = "await_guards" /\ q # NoPart
      /\ coats[q] < WorkCoat(beat) /\ Inputs.shutter = "closed"
      /\ flash1' = BankedFlash1(Inputs, 1) /\ flash2' = BankedFlash2(Inputs, 1)
      /\ wet' = [BankedWet(Inputs, 1) EXCEPT ![q] = TRUE]
      /\ coats' = [coats EXCEPT ![q] = WorkCoat(beat)]
      /\ UNCHANGED <<beat, inflight, bookVars>>
  BY DEF StartWork, Ready, WorkDue, SprayStationReady, Goto
<1>2. UNCHANGED <<occ, infed>>
  BY <1>1 DEF bookVars
<1>3. IInv /\ WetInv /\ TypeOK /\ Seen /\ FansDue /\ Books /\ OnlyFinishedLeave /\ ShutterObeys
  BY DEF CalmInv, Calm, Pattern, LInv, IInv
<1>4. /\ q \in Parts /\ coats \in [Parts -> 0 .. 2] /\ WorkCoat(beat) \in {1, 2}
      /\ \A st \in Tracked : occ[st] # NoPart => occ[st] \in Parts
      /\ \A p \in Parts : flash1[p] \in 0 .. FlashSeconds /\ flash2[p] \in 0 .. FlashSeconds
  BY <1>1, <1>3 DEF TypeOK, Tracked, WorkCoat
<1>5. inflight = {}
  BY <1>1 DEF CalmInv, LInv, Counted
<1>6. Emitted = WorkBatch /\ WorkBatch \in Seq(Intents)
  <2>1. coats'[q] # coats[q]
    BY <1>1, <1>4
  <2> QED
    BY <1>1, <2>1, BatchSubmitted DEF Emitted
<1>7. /\ queue = <<>> /\ cur = Idle /\ cur.op = "none" /\ ~gun /\ Queued = {}
      /\ UNCHANGED <<cur, at, phys, transit, fed, shutter, shutterTo, gun, latch, belts, fans, live>>
      /\ queue' = WorkBatch
  BY <1>1, <1>6, Collected
<1>8. Pattern' /\ Seen'
  BY TickKeepsPattern DEF Dispatch
<1>9. SprayReady'
  <2>1. snap.read
    BY DEF Act
  <2>2. shutter = "closed"
    BY <1>1, <1>3, <2>1, InputsPicture DEF Seen
  <2>3. shutterTo = "closed"
    BY <1>3, <1>7, <2>2 DEF ShutterObeys
  <2> QED
    BY <1>1, <1>2, <1>7, <2>2, <2>3 DEF SprayReady
<1>10. \A p \in Parts : p # q /\ wet'[p] => wet[p]
  BY <1>1 DEF BankedWet
<1>11. \A st \in FanStations : occ[st] # NoPart => occ[st] # q /\ occ[st] \in Parts
  BY <1>1, <1>3, <1>4 DEF IInv, NoPartLost, FanStations, Tracked
<1>12. \A st \in FanStations : Owes(st)' => Owes(st)
  BY <1>2, <1>10, <1>11 DEF Owes
<1>13. \A st \in FanStations : Owes(st) => st \in fans
  <2>1. \A st \in FanStations : SetFan(st, TRUE) # cur
    BY <1>7, FanIntentsAre
  <2> QED
    BY <1>1, <1>3, <1>7, <2>1 DEF FansDue
<1>14. ASSUME ~PausesFan
       PROVE  NotBlown'
  <2> SUFFICES ASSUME occ["F1"] # NoPart, wet'[occ["F1"]] PROVE FALSE
    BY <1>2 DEF NotBlown
  <2>1. FanOn(beat) # {"F1"}
    BY <1>14 DEF PausesFan
  <2>2. Owes("F1")
    BY <1>2, <1>12 DEF Owes, FanStations
  <2>3. "F1" \in FanOn(beat)
    BY <1>1, <1>3, <2>2, WetUnderFans DEF WetPartsUnderFans, Owes, FanStations
  <2> QED
    BY <2>1, <2>3 DEF FanOn
<1>15. /\ Prep.op = "prep" /\ SprayPart.op = "spray" /\ MoveToSafePose.op = "safe"
       /\ FanOff.op = "fan" /\ ~FanOff.on /\ FanOff = SetFan("F1", FALSE)
       /\ SetFan("F1", TRUE).op = "fan" /\ SetFan("F1", TRUE) # FanOff
  BY DEF Prep, SprayPart, MoveToSafePose, FanOff, SetFan
<1>16. Undisturbed'
  <2>1. \A i \in 1 .. Len(queue') : queue'[i].op # "train"
    BY <1>7, BatchSubmitted
  <2>2. \A i \in Queued' \cup {cur'} : i.op # "train"
    BY <1>7, <2>1 DEF Queued
  <2> QED
    BY <1>1, <1>5, <1>7, <2>2 DEF CalmInv, Calm, Undisturbed
<1>17. Truth'
  <2>1. Before
    BY <1>5, NoCargo
  <2>2. Before'
    BY <1>2, <1>7, <2>1 DEF Before, Crossing
  <2> QED
    BY <1>1, <1>5, <1>7, <2>2 DEF Truth
<1>18. SprayGuarded'
  <2>1. CASE PausesFan
    <3>1. \A i \in 1 .. Len(queue') : i \in {1, 2, 3, 4, 5}
      BY <1>7, <2>1, BatchIs
    <3>2. \A i \in 1 .. Len(queue') : queue'[i].op = "spray" => i = 3
      BY <1>7, <1>15, <2>1, <3>1, BatchIs
    <3>3. 2 \in 1 .. 3 - 1 /\ \A j \in 1 .. 3 - 1 : j \in {1, 2}
      OBVIOUS
    <3>4. /\ \E j \in 1 .. 3 - 1 : queue'[j] = FanOff
          /\ \A j \in 1 .. 3 - 1 : queue'[j].op = "fan" => ~queue'[j].on
      BY <1>7, <1>15, <2>1, <3>3, BatchIs
    <3> QED
      BY <1>7, <1>9, <3>2, <3>4 DEF SprayGuarded
  <2>2. CASE ~PausesFan
    <3>1. \A i \in 1 .. Len(queue') : i \in {1, 2, 3} /\ queue'[i].op # "fan"
      BY <1>7, <1>15, <2>2, BatchIs
    <3>2. \A i \in 1 .. Len(queue') : queue'[i].op = "spray" => i = 2
      BY <1>7, <1>15, <2>2, <3>1, BatchIs
    <3>3. \A j \in 1 .. 2 - 1 : queue'[j].op # "fan"
      BY <1>7, <1>15, <2>2, BatchIs
    <3> QED
      BY <1>7, <1>9, <1>14, <2>2, <3>2, <3>3 DEF SprayGuarded
  <2> QED
    BY <2>1, <2>2
<1>19. FansDue'
  <2> SUFFICES ASSUME NEW st \in FanStations
               PROVE  /\ Owes(st)' => \/ SetFan(st, TRUE) \in Queued'
                                      \/ st \in fans' /\ SetFan(st, FALSE) \notin Queued' \cup {cur'}
                      /\ cur' # SetFan(st, TRUE)
                      /\ \A i, j \in 1 .. Len(queue') :
                           queue'[i] = SetFan(st, TRUE) /\ i < j => queue'[j] # SetFan(st, FALSE)
    BY DEF FansDue
  <2>1. \A on \in BOOLEAN : cur' # SetFan(st, on) /\ SetFan(st, on).op = "fan"
    BY <1>7, FanIntentsAre
  <2>2. Owes(st)' => st \in fans'
    BY <1>7, <1>12, <1>13
  <2>3. CASE PausesFan
    <3>1. \A i \in 1 .. Len(queue') : i \in {1, 2, 3, 4, 5}
      BY <1>7, <2>3, BatchIs
    <3>2. \A i \in 1 .. Len(queue') : queue'[i] = SetFan(st, TRUE) => i = 4
      <4>1. FanOff # SetFan(st, TRUE)
        BY DEF FanOff, SetFan
      <4> QED
        BY <1>7, <1>15, <2>1, <2>3, <3>1, <4>1, BatchIs
    <3>3. ASSUME NEW i \in 1 .. Len(queue'), NEW j \in 1 .. Len(queue'),
                 queue'[i] = SetFan(st, TRUE), i < j
          PROVE  queue'[j] # SetFan(st, FALSE)
      <4>1. i = 4 /\ j \in {1, 2, 3, 4, 5}
        BY <3>1, <3>2, <3>3
      <4>2. j = 5
        BY <3>3, <4>1
      <4> QED
        BY <1>7, <1>15, <2>1, <2>3, <4>2, BatchIs
    <3>4. CASE st = "F1"
      <4>1. 4 \in 1 .. Len(queue') /\ queue'[4] = SetFan(st, TRUE)
        BY <1>7, <2>3, <3>4, BatchIs
      <4>2. SetFan(st, TRUE) \in Queued'
        BY <4>1 DEF Queued
      <4> QED
        BY <2>1, <3>3, <4>2
    <3>5. CASE st # "F1"
      <4>1. \A i \in 1 .. Len(queue') : queue'[i] # SetFan(st, FALSE)
        <5>1. FanOff # SetFan(st, FALSE) /\ SetFan("F1", TRUE) # SetFan(st, FALSE)
          BY <3>5 DEF FanOff, SetFan
        <5> QED
          BY <1>7, <1>15, <2>1, <2>3, <3>1, <5>1, BatchIs
      <4>2. SetFan(st, FALSE) \notin Queued' \cup {cur'}
        BY <2>1, <4>1 DEF Queued
      <4> QED
        BY <2>1, <2>2, <3>3, <4>2
    <3> QED
      BY <3>4, <3>5
  <2>4. CASE ~PausesFan
    <3>1. \A i \in 1 .. Len(queue') : queue'[i].op # "fan"
      <4>1. \A i \in 1 .. Len(queue') : i \in {1, 2, 3}
        BY <1>7, <2>4, BatchIs
      <4> QED
        BY <1>7, <1>15, <2>4, <4>1, BatchIs
    <3>2. \A on \in BOOLEAN : \A i \in 1 .. Len(queue') : queue'[i] # SetFan(st, on)
      BY <2>1, <3>1
    <3>3. SetFan(st, FALSE) \notin Queued' \cup {cur'}
      BY <2>1, <3>2 DEF Queued
    <3> QED
      BY <2>1, <2>2, <3>2, <3>3
  <2> QED
    BY <2>3, <2>4
<1>20. OnlyFinishedLeave'
  <2> SUFFICES ASSUME NEW t \in transit, t[1] = "OUT"
               PROVE  coats'[t[2]] = 2 /\ flash1'[t[2]] = FlashSeconds /\ flash2'[t[2]] = FlashSeconds
    BY <1>7 DEF OnlyFinishedLeave
  <2>1. t[2] \in Parts
    BY <1>3 DEF Books
  <2>2. coats[t[2]] = 2 /\ flash1[t[2]] = FlashSeconds /\ flash2[t[2]] = FlashSeconds
    BY <1>3 DEF OnlyFinishedLeave
  <2>3. t[2] # q
    BY <1>1, <1>4, <2>2
  <2>4. coats'[t[2]] = 2
    BY <1>1, <1>4, <2>1, <2>2, <2>3
  <2>5. FlashSeconds \in Nat
    BY MachineAssumption
  <2>6. flash1'[t[2]] = FlashSeconds
    BY <1>1, <2>1, <2>2, <2>5 DEF BankedFlash1, Capped
  <2>7. flash2'[t[2]] = FlashSeconds
    BY <1>1, <2>1, <2>2, <2>5 DEF BankedFlash2, Capped
  <2> QED
    BY <2>4, <2>6, <2>7
<1> QED
  BY <1>8, <1>16, <1>17, <1>18, <1>19, <1>20 DEF CalmInv, Calm

\* A faulted tick, or one that waits for completions, leaves everything where it is.
LEMMA HoldsCalm ==
  ASSUME CalmInv, LInv', Act, Bank(Inputs, 1), ~NewFault,
         UNCHANGED <<beat, phase, faultPhase, inflight, bookVars>>, Emitted = <<>>,
         inflight # {} /\ phase = "moving" => pending' = pending
  PROVE  CalmInv'
<1>1. /\ queue' = queue \o Emitted /\ UNCHANGED <<latch, belts, fans, live>>
      /\ UNCHANGED <<cur, at, partsAt, shutter, shutterTo, gun>> /\ snap' = Nothing
  BY DEF Act
<1>2. queue' = queue
  <2>1. queue \in Seq(Intents)
    BY DEF CalmInv, LInv, Books
  <2> QED
    BY <1>1, <2>1
<1>3. UNCHANGED <<queue, cur, at, latch, live, phys, transit, fed>>
  BY <1>1, <1>2 DEF partsAt
<1>4. UNCHANGED <<shutter, shutterTo, fans, gun, belts>>
  BY <1>1
<1> QED
  BY <1>1, <1>3, <1>4, WaitsCalm

\* The tick that sends the train off.
LEMMA AdvanceCalm ==
  ASSUME CalmInv, LInv', Act, ~latch, done = pending, Advance(Inputs, 1, done)
  PROVE  CalmInv'
<1>1. /\ phase = "moving" /\ inflight = {} /\ LiveMoves # {} /\ Bank(Inputs, 1)
      /\ UNCHANGED <<beat, bookVars>> /\ inflight' = LiveMoves
      /\ phase' = "moving" /\ pending' = 1
  BY DEF Advance, Ready, Goto
<1> DEFINE t == AdvanceTrain(beat, inflight')
<1>2. Emitted = <<t>>
  BY <1>1 DEF Emitted
<1>3. t \in Intents
  <2>1. beat \in Beats
    BY DEF CalmInv, LInv, Books, TypeOK
  <2>2. inflight' \in SUBSET Stations
    BY DEF LInv, Books, TypeOK
  <2> QED
    BY <2>1, <2>2, AreIntents
<1>4. t.op = "train"
  BY DEF AdvanceTrain
<1>5. <<t>> \in Seq(Intents) /\ Len(<<t>>) = 1 /\ \A i \in 1 .. Len(<<t>>) : <<t>>[i] = t
  BY <1>3, OneSubmitted
<1>6. Dispatch(Inputs, 1, done)
  BY DEF Dispatch
<1> QED
  BY <1>1, <1>2, <1>4, <1>5, <1>6, PlainCalm

\* The ticks that command the shutter.
LEMMA CommandCalm ==
  ASSUME CalmInv, LInv', Act, ~latch, done = pending,
         \/ CommandShutter(Inputs, 1, done, "shutter_open", "moving")
         \/ CommandShutter(Inputs, 1, done, "shutter_close", "set_fans")
  PROVE  CalmInv'
<1>1. /\ Bank(Inputs, 1) /\ UNCHANGED <<beat, inflight, bookVars>> /\ coats' = coats
      /\ \/ phase = "shutter_open" /\ phase' = "moving"
         \/ phase = "shutter_close" /\ phase' = "set_fans"
  BY DEF CommandShutter, Ready, Goto, Bank
<1>2. inflight = {} /\ inflight' = {}
  BY <1>1 DEF CalmInv, LInv, Counted
<1>3. Dispatch(Inputs, 1, done)
  BY DEF Dispatch
<1>4. PICK to \in {"open", "closed"} : Emitted = <<SetShutter(to)>>
  BY <1>1, <1>2 DEF Emitted
<1>5. SetShutter(to) \in Intents /\ SetShutter(to).op = "shutter"
  BY AreIntents DEF SetShutter
<1>6. PICK s : s = SetShutter(to)
  OBVIOUS
<1>7. <<s>> \in Seq(Intents) /\ Len(<<s>>) = 1 /\ \A i \in 1 .. Len(<<s>>) : <<s>>[i] = s
  BY <1>5, <1>6, OneSubmitted
<1>8. \A i \in 1 .. Len(<<s>>) : <<s>>[i].op = "shutter"
  BY <1>5, <1>6, <1>7
<1> QED
  BY <1>1, <1>2, <1>3, <1>4, <1>6, <1>7, <1>8, PlainCalm

\* The other dispatching ticks: the machine passes on, or is blocked, and emits nothing.
LEMMA PassCalm ==
  ASSUME CalmInv, LInv', Act, ~latch, done = pending,
         \/ SkipWork(Inputs, 1, done) \/ GuardsPass(Inputs, 1, done)
         \/ NothingToMove(Inputs, 1, done) \/ Blocked(Inputs, 1, done)
  PROVE  CalmInv'
<1>1. /\ Bank(Inputs, 1) /\ UNCHANGED <<beat, inflight, bookVars>> /\ coats' = coats
      /\ \/ phase = "robot_work" /\ phase' = "await_guards"
         \/ phase = "await_guards" /\ phase' = "shutter_open"
         \/ phase = "moving" /\ phase' = "shutter_close" /\ inflight = {}
         \/ phase \in {"robot_work", "await_guards"} /\ phase' = phase
         \/ phase = "moving" /\ phase' = phase /\ inflight = {}
  BY DEF SkipWork, GuardsPass, NothingToMove, Blocked, Ready, Goto, Bank
<1>2. inflight = {} /\ inflight' = {}
  BY <1>1 DEF CalmInv, LInv, Counted
<1>3. Dispatch(Inputs, 1, done)
  BY DEF Dispatch
<1>4. Emitted = <<>> /\ <<>> \in Seq(Intents) /\ \A i \in 1 .. Len(<<>>) : FALSE
  BY <1>1, <1>2 DEF Emitted
<1>5. phase' # "faulted"
  BY <1>1
<1>6. phase' \in {"robot_work", "await_guards"} => phase \in {"robot_work", "await_guards"}
  BY <1>1
<1>7. PICK e \in Seq(Intents) : e = <<>> /\ \A i \in 1 .. Len(e) : FALSE
  BY <1>4
<1> QED
  BY <1>1, <1>2, <1>3, <1>4, <1>5, <1>6, <1>7, PlainCalm

\* Every tick that acts keeps the invariant.
LEMMA ActCalm ==
  ASSUME CalmInv, LInv', Act
  PROVE  CalmInv'
<1>1. /\ Tick(Inputs, 1, done, latch) /\ ~(latch /\ ExternalFault(Inputs, 1))
      /\ ~MismatchFault(Inputs, 1) /\ ~RoleFault(Inputs, 1, done)
  BY NoOtherFault DEF Act
<1>2. CASE StayFaulted(Inputs, 1)
  <2>1. /\ phase = "faulted" /\ Bank(Inputs, 1)
        /\ UNCHANGED <<beat, phase, faultPhase, pending, inflight, bookVars>>
    BY <1>2 DEF StayFaulted, ctlVars
  <2>2. ~NewFault /\ Emitted = <<>>
    BY <2>1 DEF NewFault, Emitted
  <2> QED
    BY <2>1, <2>2, HoldsCalm
<1>3. CASE AwaitCompletions(Inputs, 1, done)
  <2>1. /\ phase # "faulted" /\ done < pending /\ pending' = pending - done /\ Bank(Inputs, 1)
        /\ UNCHANGED <<beat, phase, faultPhase, inflight, bookVars, coats>>
    BY <1>3 DEF AwaitCompletions, Sound, Bank
  <2>2. ~NewFault /\ Emitted = <<>>
    BY <2>1 DEF NewFault, Emitted
  <2>3. ASSUME inflight # {}, phase = "moving"
        PROVE  pending' = pending
    <3>1. pending = 1
      BY <2>3 DEF CalmInv, Calm, Undisturbed
    <3>2. done \in 0 .. 5
      BY DEF CalmInv, LInv, Books, LineTypeOK
    <3> QED
      BY <2>1, <3>1, <3>2
  <2> QED
    BY <2>1, <2>2, <2>3, HoldsCalm
<1>4. CASE /\ ~latch /\ Dispatch(Inputs, 1, done)
           /\ ~StayFaulted(Inputs, 1) /\ ~AwaitCompletions(Inputs, 1, done)
  <2>1. done = pending
    BY <1>1, <1>4 DEF Dispatch, SkipWork, StartWork, GuardsPass, CommandShutter, NothingToMove,
                      Advance, ArrivalFault, Arrive, SetFans, Blocked, Ready
  <2>2. CASE ArrivalFault(Inputs, 1, done) \/ Arrive(Inputs, 1, done) \/ SetFans(Inputs, 1, done)
    BY <1>4, <2>1, <2>2, ArrivalFaultCalm, ArriveCalm, SetFansCalm
  <2>3. CASE StartWork(Inputs, 1, done)
    BY <1>4, <2>1, <2>3, StartWorkCalm
  <2>4. CASE Advance(Inputs, 1, done)
    BY <1>4, <2>1, <2>4, AdvanceCalm
  <2>5. CASE \/ CommandShutter(Inputs, 1, done, "shutter_open", "moving")
             \/ CommandShutter(Inputs, 1, done, "shutter_close", "set_fans")
    BY <1>4, <2>1, <2>5, CommandCalm
  <2>6. CASE \/ SkipWork(Inputs, 1, done) \/ GuardsPass(Inputs, 1, done)
             \/ NothingToMove(Inputs, 1, done) \/ Blocked(Inputs, 1, done)
    BY <1>4, <2>1, <2>6, PassCalm
  <2> QED
    BY <1>1, <1>4, <2>2, <2>3, <2>4, <2>5, <2>6 DEF Dispatch
<1> QED
  BY <1>1, <1>2, <1>3, <1>4 DEF Tick

-----------------------------------------------------------------------------
(***************************************************************************)
(* Every behaviour of an undisturbed line.                                  *)
(***************************************************************************)
\* The empty line is a calm one.
LEMMA CalmInitially ==
  ASSUME LineInit
  PROVE  CalmInv
<1>1. /\ Init /\ snap = Nothing /\ queue = <<>> /\ cur = Idle /\ latch = FALSE
      /\ phys = [st \in Tracked |-> NoPart] /\ transit = {} /\ fed = 0
      /\ gun = FALSE /\ belts = {} /\ fans = {}
  BY DEF LineInit
<1>2. LInv /\ Pattern
  BY <1>1, LInitially, InitKeeps DEF Pattern
<1>3. /\ phase = "robot_work" /\ inflight = {} /\ infed = 0
      /\ occ = [st \in Tracked |-> NoPart]
  BY <1>1 DEF Init
<1>4. cur.op = "none" /\ Queued = {} /\ \A i \in 1 .. Len(queue) : FALSE
  BY <1>1, IntentKinds, QueueEmpty
<1>5. Undisturbed
  BY <1>1, <1>3, <1>4 DEF Undisturbed
<1>6. Truth
  BY <1>1, <1>3, <1>4 DEF Truth, Before, Crossing
<1>7. Seen /\ OnlyFinishedLeave
  BY <1>1 DEF Seen, OnlyFinishedLeave, Nothing
<1>8. SprayGuarded
  BY <1>1, <1>4 DEF SprayGuarded
<1>9. FansDue
  <2>1. \A st \in FanStations : ~Owes(st) /\ SetFan(st, TRUE) # cur
    BY <1>1, <1>3, FanIntentsAre DEF Owes, FanStations, Tracked
  <2> QED
    BY <1>4, <2>1 DEF FansDue
<1> QED
  BY <1>2, <1>5, <1>6, <1>7, <1>8, <1>9 DEF CalmInv, Calm

\* Every step of a line that is never halted keeps it calm.
LEMMA CalmNext ==
  ASSUME MaxHalts = 0, CalmInv, [LineNext]_lineVars
  PROVE  CalmInv'
<1>1. LInv'
  BY LNextKeeps DEF CalmInv
<1>2. CASE ReadInputs \/ Act \/ IdleLoop
  BY <1>1, <1>2, ReadCalm, ActCalm, IdleCalm
<1>3. CASE Worker
  <2>1. CASE Take \/ DoFan
    BY <1>1, <2>1, TakeCalm, FanCallCalm
  <2>2. CASE DoShutter \/ DoPrep \/ DoSpray \/ DoSafePose
    BY <1>1, <2>2, OtherCallsCalm
  <2>3. CASE ArmZones \/ TrainArrived
    BY <1>1, <2>3, ArmsCalm, ArrivesCalm
  <2>4. CASE TrainError
    BY <2>4, NoTrainError
  <2> QED
    BY <1>3, <2>1, <2>2, <2>3, <2>4 DEF Worker
<1>4. CASE Plant
  <2>1. CASE Depart \/ Land \/ ShutterMoves
    BY <1>1, <2>1, DepartCalm, LandCalm, ShutterMovesCalm
  <2>2. CASE TakeOffOutfeed
    BY <1>1, <2>2, AsideCalm DEF TakeOffOutfeed, devices
  <2> QED
    BY <1>4, <2>1, <2>2 DEF Plant
<1>5. CASE Operator
  <2>1. ASSUME NEW n \in Parts, DeclareBatch(n)
        PROVE  CalmInv'
    BY <1>1, <2>1, DeclareCalm
  <2>2. CASE Pause \/ Run
    BY <1>1, <2>2, AsideCalm DEF Pause, Run, partsAt, devices
  <2>3. ~Halt
    <3>1. halts \in 0 .. MaxHalts
      BY DEF CalmInv, LInv, Books, LineTypeOK
    <3> QED
      BY <3>1 DEF Halt
  <2> QED
    BY <1>5, <2>1, <2>2, <2>3 DEF Operator
<1>6. CASE AckFault
  BY <1>1, <1>6, AckCalm
<1>7. CASE UNCHANGED lineVars
  BY <1>1, <1>7, AsideCalm DEF lineVars, partsAt, devices
<1> QED
  BY <1>2, <1>3, <1>4, <1>5, <1>6, <1>7 DEF LineNext, Automatic

(***************************************************************************)
(* The invariant of the undisturbed line, for every number of parts and     *)
(* pauses and every flash time: MaxHalts = 0 says that the operator never   *)
(* presses halt; a fault of the machine's own, and its recovery, happen.    *)
(***************************************************************************)
THEOREM UndisturbedInvariant ==
  ASSUME MaxHalts = 0
  PROVE  LineSpec => []CalmInv
<1>1. LineInit => CalmInv
  BY CalmInitially
<1>2. CalmInv /\ [LineNext]_lineVars => CalmInv'
  BY CalmNext
<1> QED
  BY <1>1, <1>2, PTL DEF LineSpec

(***************************************************************************)
(* Outside a train move, and a fault raised in one, the machine's books     *)
(* (core/machine.py) say who really stands where and who is still on the    *)
(* IN belt, although they change at a tick and the parts while the worker   *)
(* runs the belts.                                                          *)
(***************************************************************************)
THEOREM BooksTellTheTruth ==
  ASSUME MaxHalts = 0
  PROVE  LineSpec => []BeliefIsTruth
<1>1. CalmInv => BeliefIsTruth
  <2> SUFFICES ASSUME CalmInv, phase \notin {"moving", "faulted"}
               PROVE  occ = phys /\ infed = fed /\ Crossing = {}
    BY DEF BeliefIsTruth
  <2>1. inflight = {}
    BY DEF CalmInv, LInv, Counted
  <2> QED
    BY <2>1, NoCargo DEF Before
<1> QED
  BY <1>1, UndisturbedInvariant, PTL

(***************************************************************************)
(* A line held by a pause at its beat boundary, or by the departure guards, *)
(* leaves no wet part under a fan that is off (process/controller.py).      *)
(***************************************************************************)
THEOREM HoldsDry ==
  ASSUME MaxHalts = 0
  PROVE  LineSpec => []HeldPartsDry
<1>1. CalmInv => HeldPartsDry
  <2> SUFFICES ASSUME CalmInv, phase # "faulted", ~Ticks \/ phase = "await_guards",
                      cur = Idle, queue = <<>>,
                      NEW st \in FanStations, phys[st] # NoPart, wet[phys[st]]
               PROVE  st \in fans
    BY DEF HeldPartsDry, Dried
  <2>1. phase \in {"robot_work", "await_guards"}
    BY DEF Ticks, AtBoundary
  <2>2. inflight = {}
    BY <2>1 DEF CalmInv, LInv, Counted
  <2>3. Owes(st)
    BY <2>2, NoCargo DEF Before, Owes
  <2>4. Queued = {} /\ SetFan(st, TRUE) # cur
    BY QueueEmpty, FanIntentsAre
  <2> QED
    BY <2>1, <2>3, <2>4 DEF CalmInv, Calm, FansDue
<1> QED
  BY <1>1, UndisturbedInvariant, PTL

(***************************************************************************)
(* The spray interlock, where paint flows: the F1 fan, switched by another  *)
(* intent than the gun and judged by an older picture, never blows on a     *)
(* part that is wet while the gun is on (core/guards.py: spray_blocked).    *)
(***************************************************************************)
THEOREM NoBlow ==
  ASSUME MaxHalts = 0
  PROVE  LineSpec => []NoBlowOnWet
<1>1. CalmInv => NoBlowOnWet
  <2> SUFFICES ASSUME CalmInv, gun PROVE ~("F1" \in fans /\ phys["F1"] # NoPart /\ wet[phys["F1"]])
    BY DEF NoBlowOnWet
  <2>1. cur.op = "spray" /\ NotBlown
    BY DEF CalmInv, Calm, SprayGuarded
  <2>2. cur # Idle
    BY <2>1, IntentKinds
  <2>3. phys = occ
    BY <2>1, <2>2, OtherCall DEF Before
  <2> QED
    BY <2>1, <2>3 DEF NotBlown
<1> QED
  BY <1>1, UndisturbedInvariant, PTL

(***************************************************************************)
(* Paint flows behind a closed shutter only, onto a part that stands at O,  *)
(* with nobody between two stations (core/guards.py: spray_blocked).        *)
(***************************************************************************)
THEOREM SpraysEnclosed ==
  ASSUME MaxHalts = 0
  PROVE  LineSpec => []SprayEnclosed
<1>1. CalmInv => SprayEnclosed
  <2> SUFFICES ASSUME CalmInv, gun PROVE shutter = "closed" /\ phys["O"] # NoPart /\ Crossing = {}
    BY DEF SprayEnclosed
  <2>1. cur.op = "spray" /\ SprayReady
    BY DEF CalmInv, Calm, SprayGuarded
  <2>2. cur # Idle
    BY <2>1, IntentKinds
  <2>3. Before
    BY <2>1, <2>2, OtherCall
  <2> QED
    BY <2>1, <2>3 DEF SprayReady, Before
<1> QED
  BY <1>1, UndisturbedInvariant, PTL

(***************************************************************************)
(* Who travels to the outfeed end has both coats and all its flash time,    *)
(* though the belt that takes it there runs on the guards' older picture.   *)
(***************************************************************************)
THEOREM FinishedLeave ==
  ASSUME MaxHalts = 0
  PROVE  LineSpec => []OnlyFinishedLeave
<1>1. CalmInv => OnlyFinishedLeave
  BY DEF CalmInv, Calm
<1> QED
  BY <1>1, UndisturbedInvariant, PTL

-----------------------------------------------------------------------------
(***************************************************************************)
(* The undisturbed line implements Steady: its ticks, taken at times the    *)
(* three threads agree on by themselves, are steps of the machine in its    *)
(* open environment, and its operator keeps the rules Steady asks of one.   *)
(***************************************************************************)
\* The picture a tick reads is one of the machine's.
LEMMA SensedIsSnapshot ==
  ASSUME LInv
  PROVE  Sensed \in Snapshots /\ (snap.read => Inputs \in Snapshots)
<1>1. /\ shutter \in {"open", "closed", "unknown"} /\ fans \subseteq FanStations
      /\ clear \in BOOLEAN /\ gun \in BOOLEAN /\ outfeed \in BOOLEAN
      /\ (fed < declared) \in BOOLEAN
  BY DEF LInv, Books, LineTypeOK
<1>2. Sensed \in Snapshots
  BY <1>1 DEF Sensed, Snapshots
<1>3. ASSUME snap.read
      PROVE  Inputs \in Snapshots
  <2>1. ~Nothing.read
    BY DEF Nothing
  <2>2. snap.s \in Snapshots
    BY <1>3, <2>1 DEF LInv, Books
  <2> QED
    BY <1>1, <2>2 DEF Inputs, Snapshots
<1> QED
  BY <1>2, <1>3

\* A tick of the loop is a step of the machine.
LEMMA ActIsStep ==
  ASSUME Snapshots \subseteq Readings, CalmInv, Act
  PROVE  Step
<1>1. Inputs \in Readings /\ 1 \in 0 .. MaxDt
  BY SensedIsSnapshot, LineAssumption, MachineAssumption DEF CalmInv, Act
<1>2. Tick(Inputs, 1, done, latch) /\ LInv /\ Undisturbed
  BY DEF Act, CalmInv, Calm
<1>3. \E k \in 0 .. pending, flt \in BOOLEAN : Tick(Inputs, 1, k, flt)
  <2>1. CASE phase = "faulted"
    <3>1. Tick(Inputs, 1, 0, FALSE)
      BY <1>2, <2>1 DEF Tick, StayFaulted, ExternalFault, Dispatch, MismatchFault, AwaitCompletions,
           RoleFault, SkipWork, StartWork, GuardsPass, CommandShutter, NothingToMove, Advance,
           ArrivalFault, Arrive, SetFans, Blocked, Ready, Sound
    <3>2. pending \in Nat
      BY <1>2 DEF LInv, Books, TypeOK
    <3>3. 0 \in 0 .. pending
      BY <3>2
    <3> QED
      BY <3>1, <3>3, Zenon
  <2>2. CASE phase # "faulted"
    <3>1. ~latch
      BY <1>2, <2>2 DEF Undisturbed
    <3>2. pending = Len(queue) + done + (IF live THEN 1 ELSE 0)
      BY <1>2, <3>1 DEF LInv, Counted, WaitsForWhatRuns
    <3>3. Len(queue) \in Nat /\ done \in Nat /\ pending \in Nat /\ latch \in BOOLEAN
      BY <1>2 DEF LInv, Books, LineTypeOK, TypeOK
    <3>4. done \in 0 .. pending
      BY <3>2, <3>3
    <3> QED
      BY <1>2, <3>3, <3>4
  <2> QED
    BY <2>1, <2>2
<1> QED
  BY <1>1, <1>3 DEF Step

\* What confirms the parts where they stand confirms the whole move, once it is done.
LEMMA AckIsSteady ==
  ASSUME CalmInv, AckFault
  PROVE  \E seen \in SUBSET Tracked : SteadyResume(seen)
<1>1. Resume(phys, beat, Sensed.occupied)
  BY DEF AckFault
<1>2. phase = "faulted"
  BY <1>1 DEF Resume
<1>3. faultPhase = "moving" /\ inflight # {} /\ phys = Moved(inflight)
  BY <1>2, Faulted DEF After
<1>4. SteadyResume(Sensed.occupied)
  BY <1>1, <1>3 DEF SteadyResume
<1>5. Sensed.occupied \in SUBSET Tracked
  BY SensedIsSnapshot DEF CalmInv, Snapshots
<1> QED
  BY <1>4, <1>5

\* Every step of the line is a step of the machine or leaves it alone.
LEMMA LineStepIsSteady ==
  ASSUME MaxHalts = 0, Snapshots \subseteq Readings, CalmInv, [LineNext]_lineVars
  PROVE  [SteadyNext]_vars
<1>1. CASE Act
  BY <1>1, ActIsStep DEF SteadyNext
<1>2. CASE IdleLoop
  <2>1. Sensed \in Readings /\ 1 \in 0 .. MaxDt
    BY SensedIsSnapshot, LineAssumption, MachineAssumption DEF CalmInv
  <2>2. IdleTick(Sensed, 1)
    BY <1>2 DEF IdleLoop
  <2>3. Step
    BY <2>1, <2>2 DEF Step
  <2> QED
    BY <2>3 DEF SteadyNext
<1>3. CASE ReadInputs \/ Worker \/ Plant
  <2>1. UNCHANGED vars
    BY <1>3 DEF ReadInputs, Worker, Plant, Take, DoFan, DoShutter, DoPrep, DoSpray, DoSafePose, Still,
                ArmZones, TrainArrived, TrainError, Depart, Land, ShutterMoves, TakeOffOutfeed
  <2> QED
    BY <2>1
<1>4. CASE Pause \/ Run \/ Halt
  BY <1>4 DEF Pause, Run, Halt
<1>5. ASSUME NEW n \in Parts, DeclareBatch(n)
      PROVE  SteadyNext
  BY <1>5 DEF DeclareBatch, SteadyNext
<1>6. CASE AckFault
  BY <1>6, AckIsSteady DEF SteadyNext
<1>7. CASE UNCHANGED lineVars
  BY <1>7 DEF lineVars
<1> QED
  BY <1>1, <1>2, <1>3, <1>4, <1>5, <1>6, <1>7 DEF LineNext, Automatic, Operator

(***************************************************************************)
(* The undisturbed line refines Steady: the worker, the plant and the loop  *)
(* thread between them never take the machine where its schedule's rules do *)
(* not allow, and an operator who confirms what really stands where keeps   *)
(* those rules. Readings is any set of pictures that leaves none out.       *)
(***************************************************************************)
THEOREM LineIsSteady ==
  ASSUME MaxHalts = 0, Snapshots \subseteq Readings
  PROVE  LineSpec => SteadySpec
<1>1. LineInit => Init
  BY DEF LineInit
<1>2. CalmInv /\ [LineNext]_lineVars => [SteadyNext]_vars
  BY LineStepIsSteady
<1> QED
  BY <1>1, <1>2, UndisturbedInvariant, PTL DEF LineSpec, SteadySpec

(***************************************************************************)
(* And so every part of the undisturbed line goes through the journey of    *)
(* PartJourney, one stage at a time, none passing another, by what the      *)
(* threads do between them and not by what the schedule says alone.         *)
(***************************************************************************)
THEOREM LineIsJourney ==
  ASSUME MaxHalts = 0, Snapshots \subseteq Readings
  PROVE  LineSpec => PartsTravel
<1>1. LineSpec => SteadySpec
  BY LineIsSteady
<1>2. SteadySpec => PartsTravel
  BY SteadyIsJourney
<1> QED
  BY <1>1, <1>2
=============================================================================
