-------------------------------- MODULE Line --------------------------------
(***************************************************************************)
(* The closed loop: the machine of Steady under the controller thread       *)
(* (process/supervisor.py, process/controller.py), its intents executed by  *)
(* the one worker of process/executor.py through process/train.py and       *)
(* process/robot_ur.py, on the plant of sim/physics.py and                  *)
(* sim/fake_clearcore.py, with an operator who pauses, halts and recovers.  *)
(*                                                                         *)
(* Three threads interleave: the loop thread (a tick reads its inputs and   *)
(* acts on them later, under the controller's lock), the worker (one device *)
(* call a step, no lock) and the API's halt (no lock either).               *)
(*                                                                         *)
(* Abstractions: a tick accounts for one unit of fan time; a robot program  *)
(* is its flags robot_clear and gun; parts in motion reach their            *)
(* destination even if a belt is stopped, as in the simulated plant; the    *)
(* worker gets an intent and checks the fault latch in one step.            *)
(***************************************************************************)
EXTENDS Steady

CONSTANTS
  MaxHalts,    \* operator halts; bounds the model
  MaxPauses    \* operator pauses; bounds the model

ASSUME LineAssumption == MaxHalts \in Nat /\ MaxPauses \in Nat /\ MaxDt >= 1

VARIABLES
  enabled,     \* LineController._enabled
  halts, pauses,
  snap,        \* the inputs a tick has read and not yet acted on
  queue,       \* Executor._queue
  cur, at,     \* the intent the worker executes, and how far it got
  latch,       \* Executor._fault is set
  done,        \* completions of current intents the next tick collects
  live,        \* the machine still waits for cur
  phys,        \* who really stands at each tracked station
  transit,     \* <<destination, part>> of the parts between stations
  fed,         \* parts that left the IN belt
  outfeed,     \* a finished part lies at OUT
  shutter,     \* sensed shutter
  shutterTo,   \* commanded shutter
  fans,        \* fans that run
  clear, gun,  \* RobotDevice.is_clear and gun_on
  belts        \* belts that run: Z1, Z2, feed

operVars == <<enabled, halts, pauses>>
execVars == <<queue, cur, at, latch, done, live>>
partsAt  == <<phys, transit, fed, outfeed>>
devices  == <<shutter, shutterTo, fans, clear, gun, belts>>
lineVars == <<vars, operVars, snap, execVars, partsAt, devices>>

-----------------------------------------------------------------------------
(***************************************************************************)
(* Intents (core/intents.py).                                               *)
(***************************************************************************)
SetFan(st, on)     == [op |-> "fan", st |-> st, on |-> on]
SetShutter(to)     == [op |-> "shutter", to |-> to]
AdvanceTrain(b, m) == [op |-> "train", beat |-> b, moves |-> m]
Prep               == [op |-> "prep"]
SprayPart          == [op |-> "spray"]
MoveToSafePose     == [op |-> "safe"]
Idle               == [op |-> "none"]

Nothing == [read |-> FALSE]

\* supervisor.build_sensors over ClearCoreClient.read_inputs
Sensed ==
  [occupied |-> {st \in Tracked : phys[st] # NoPart}, shutter |-> shutter, fans |-> fans,
   clear |-> clear, gun |-> gun, inEye |-> fed < declared, outEye |-> outfeed]

WorkBatch_FanAfterSpray ==
  LET bracket == IF PausesFan THEN <<SetFan("F1", FALSE), SetFan("F1", TRUE)>> ELSE <<>>
  IN  <<Prep, SprayPart>> \o bracket \o <<MoveToSafePose>>

WorkBatch_StaysOff ==
  LET off == IF PausesFan THEN <<SetFan("F1", FALSE)>> ELSE <<>>
  IN  <<Prep>> \o off \o <<SprayPart>> \o off \o <<MoveToSafePose>>

\* The P3 batch brackets the burst with F1 fan off and on, in this order.
WorkBatch ==
  LET bracket(i) == IF PausesFan THEN <<SetFan("F1", ~i)>> ELSE <<>>
  IN  <<Prep>> \o bracket(TRUE) \o <<SprayPart>> \o bracket(FALSE) \o <<MoveToSafePose>>

FanIntents(b) ==
  << SetFan("F1", "F1" \in FanOn(b) /\ occ["F1"] # NoPart),
     SetFan("F2", "F2" \in FanOn(b) /\ occ["F2"] # NoPart) >>

\* What the machine's step hands to Executor.submit.
Emitted ==
  IF phase = "robot_work" /\ coats' # coats THEN WorkBatch
  ELSE IF phase = "shutter_open" /\ phase' = "moving" THEN <<SetShutter("open")>>
  ELSE IF inflight = {} /\ inflight' # {} THEN <<AdvanceTrain(beat, inflight')>>
  ELSE IF phase = "shutter_close" /\ phase' = "set_fans" THEN <<SetShutter("closed")>>
  ELSE IF phase = "set_fans" /\ phase' = "robot_work" THEN FanIntents(beat')
  ELSE <<>>

\* Executor.halt: latch, drain, idle both zones. The feed belt is not a zone.
HaltExecutor ==
  /\ latch' = TRUE
  /\ queue' = <<>>
  /\ belts' = belts \cap {"feed"}

-----------------------------------------------------------------------------
(***************************************************************************)
(* The loop thread.                                                         *)
(***************************************************************************)
AtBoundary == phase \in {"robot_work", "faulted"}

Ticks_Freeze == enabled

Ticks == enabled \/ ~AtBoundary

ReadInputs ==
  /\ ~snap.read
  /\ Ticks
  /\ snap' = [read |-> TRUE, s |-> Sensed]
  /\ UNCHANGED <<vars, operVars, execVars, partsAt, devices>>

\* is_clear, gun_on, the latch and the completions are read after the inputs.
Inputs == [snap.s EXCEPT !.clear = clear, !.gun = gun]

NewFault == phase # "faulted" /\ phase' = "faulted"

Act ==
  /\ snap.read
  /\ Tick(Inputs, 1, done, latch)
  /\ IF NewFault
     THEN /\ HaltExecutor
          /\ fans' = fans \cup (FanStations \cap snap.s.occupied)
          /\ live' = FALSE
     ELSE /\ queue' = queue \o Emitted
          /\ UNCHANGED <<latch, belts, fans, live>>
  /\ done' = 0
  /\ snap' = Nothing
  /\ UNCHANGED <<operVars, cur, at, partsAt, shutter, shutterTo, clear, gun>>

IdleLoop ==
  /\ ~snap.read
  /\ ~Ticks
  /\ IdleTick(Sensed, 1)
  /\ UNCHANGED <<operVars, snap, execVars, partsAt, devices>>

-----------------------------------------------------------------------------
(***************************************************************************)
(* The worker.                                                              *)
(***************************************************************************)
Take_Peek ==
  /\ cur = Idle /\ queue # <<>> /\ ~latch
  /\ cur' = Head(queue) /\ at' = "start" /\ live' = TRUE
  /\ UNCHANGED <<vars, operVars, snap, queue, latch, done, partsAt, devices>>

Take ==
  /\ cur = Idle /\ queue # <<>>
  /\ queue' = Tail(queue)
  /\ IF latch THEN UNCHANGED <<cur, at, live>>
              ELSE cur' = Head(queue) /\ at' = "start" /\ live' = TRUE
  /\ UNCHANGED <<vars, operVars, snap, latch, done, partsAt, devices>>

\* The device call returned: the id joins _done, and counts if it is waited for.
Complete ==
  /\ cur' = Idle /\ at' = "idle" /\ live' = FALSE
  /\ done' = IF live THEN done + 1 ELSE done
  /\ UNCHANGED <<queue, latch>>

\* The device call goes on.
GoesOn(next) == at' = next /\ UNCHANGED <<queue, cur, latch, done, live>>

Still == UNCHANGED <<vars, operVars, snap, partsAt>>

DoFan ==
  /\ cur.op = "fan" /\ Still
  /\ fans' = IF cur.on THEN fans \cup {cur.st} ELSE fans \ {cur.st}
  /\ Complete
  /\ UNCHANGED <<shutter, shutterTo, clear, gun, belts>>

DoShutter ==
  /\ cur.op = "shutter" /\ Still
  /\ \/ at = "start" /\ shutterTo' = cur.to /\ GoesOn("wait")
     \/ at = "wait" /\ shutter = cur.to /\ Complete /\ UNCHANGED shutterTo
  /\ UNCHANGED <<shutter, fans, clear, gun, belts>>

\* sand and clean_gun leave the robot in the envelope.
DoPrep ==
  /\ cur.op = "prep" /\ Still
  /\ \/ at = "start" /\ GoesOn("wait")
     \/ at = "wait" /\ Complete
  /\ clear' = FALSE
  /\ UNCHANGED <<shutter, shutterTo, fans, gun, belts>>

DoSpray ==
  /\ cur.op = "spray" /\ Still
  /\ \/ at = "start" /\ gun' = TRUE /\ GoesOn("wait")
     \/ at = "wait" /\ gun' = FALSE /\ Complete
  /\ clear' = FALSE
  /\ UNCHANGED <<shutter, shutterTo, fans, belts>>

DoSafePose ==
  /\ cur.op = "safe" /\ Still
  /\ clear' = TRUE
  /\ Complete
  /\ UNCHANGED <<shutter, shutterTo, fans, gun, belts>>

-----------------------------------------------------------------------------
\* TrainMover.advance. Crosses: parts pass between the belts.
Crosses(t) == (IF Upstream(t.beat) THEN "O" ELSE "F1") \in t.moves

\* _zone_targets: the arrival whose edge stops the zone, or the falling edge
\* "F2_clears" of a lone outfeed; "none" arms no move.
StopAt(t, z) ==
  IF Upstream(t.beat)
  THEN IF z = "Z2" /\ "F2" \in t.moves THEN "O" ELSE IF Crosses(t) THEN "F1" ELSE "none"
  ELSE IF z = "Z1" THEN IF "IN" \in t.moves THEN "F1" ELSE IF Crosses(t) THEN "O" ELSE "none"
  ELSE IF "O" \in t.moves THEN "F2" ELSE IF "F2" \in t.moves THEN "F2_clears"
  ELSE IF Crosses(t) THEN "O" ELSE "none"

Armed(t, zs) == {z \in zs : StopAt(t, z) # "none"}

Feeding(t) == IF "IN" \in t.moves THEN {"feed"} ELSE {}

\* The post-shift pattern: destinations present, source-only stations empty.
Shifted(t) ==
  \A st \in Tracked :
    /\ Feeder(t.beat, st) \in t.moves => phys[st] # NoPart
    /\ st \in t.moves /\ Feeder(t.beat, st) \notin t.moves => phys[st] = NoPart

ArmZones ==
  /\ cur.op = "train" /\ Still
  /\ \/ /\ at = "start"
        /\ belts' = belts \cup Feeding(cur) \cup Armed(cur, {"Z1"})
        /\ GoesOn("armed")
     \/ /\ at = "armed"
        /\ belts' = belts \cup Armed(cur, {"Z2"})
        /\ GoesOn("wait")
  /\ UNCHANGED <<shutter, shutterTo, fans, clear, gun>>

TrainArrived_Unconfirmed ==
  /\ cur.op = "train" /\ at = "wait" /\ Still
  /\ Complete
  /\ UNCHANGED <<devices>>

\* Every zone READY and the pattern confirmed. A lone outfeed is confirmed when
\* the part has left F2, not when it lies at OUT.
TrainArrived ==
  /\ cur.op = "train" /\ at = "wait" /\ Still
  /\ belts \cap {"Z1", "Z2"} = {} /\ Shifted(cur)
  /\ belts' = {}
  /\ Complete
  /\ UNCHANGED <<shutter, shutterTo, fans, clear, gun>>

-----------------------------------------------------------------------------
(***************************************************************************)
(* The plant. A belt carries what stands on it one station on; parts cross  *)
(* between F1 and O only when both belts run (sim/physics.py).              *)
(***************************************************************************)
Down == cur.op = "train" => ~Upstream(cur.beat)

Leaves(st) ==
  IF Down
  THEN \/ st \in {"O", "F2"} /\ phys[st] # NoPart /\ "Z2" \in belts
       \/ st = "F1" /\ phys[st] # NoPart /\ {"Z1", "Z2"} \subseteq belts
       \/ /\ st = "IN" /\ fed < declared /\ {"Z1", "feed"} \subseteq belts
          /\ phys["F1"] = NoPart \/ "Z2" \in belts
  ELSE \/ /\ st = "O" /\ phys[st] # NoPart /\ {"Z1", "Z2"} \subseteq belts
          /\ phys["F1"] = NoPart
       \/ /\ st = "F2" /\ phys[st] # NoPart /\ "Z2" \in belts
          /\ phys["O"] = NoPart \/ ("Z1" \in belts /\ phys["F1"] = NoPart)

Ahead(st) == IF Down THEN [IN |-> "F1", F1 |-> "O", O |-> "F2", F2 |-> "OUT"][st]
                     ELSE [F2 |-> "O", O |-> "F1"][st]

Leaving == {st \in Stations \ {"OUT"} : Leaves(st)}

\* A zone never READY, or the pattern never confirmed: TrainError, and the worker
\* idles the belts, feed included, and halts the executor.
TrainError ==
  /\ cur.op = "train" /\ at = "wait" /\ Still
  /\ transit = {} /\ Leaving = {}
  /\ ~(belts \cap {"Z1", "Z2"} = {} /\ Shifted(cur))
  /\ latch' = TRUE /\ queue' = <<>> /\ belts' = {}
  /\ cur' = Idle /\ at' = "idle" /\ live' = FALSE
  /\ UNCHANGED <<done, shutter, shutterTo, fans, clear, gun>>

\* Sources clear at once, destinations fill after the gap.
Depart ==
  /\ transit = {} /\ Leaving # {}
  /\ transit' = {<<Ahead(st), IF st = "IN" THEN fed + 1 ELSE phys[st]>> : st \in Leaving}
  /\ phys' = [st \in Tracked |-> IF st \in Leaving THEN NoPart ELSE phys[st]]
  /\ fed' = IF "IN" \in Leaving THEN fed + 1 ELSE fed
  /\ belts' = {z \in belts : z = "feed" \/ cur.op # "train"
                             \/ "F2" \notin Leaving \/ StopAt(cur, z) # "F2_clears"}
  /\ UNCHANGED <<vars, operVars, snap, execVars, outfeed,
                 shutter, shutterTo, fans, clear, gun>>

\* The parts arrive; the firmware stops each zone whose edge has come.
Land ==
  /\ transit # {}
  /\ phys' = [st \in Tracked |-> IF \E t \in transit : t[1] = st
                                 THEN (CHOOSE t \in transit : t[1] = st)[2] ELSE phys[st]]
  /\ outfeed' = (outfeed \/ \E t \in transit : t[1] = "OUT")
  /\ belts' = {z \in belts : z = "feed" \/ cur.op # "train"
                             \/ ~\E t \in transit : t[1] = StopAt(cur, z)}
  /\ transit' = {}
  /\ UNCHANGED <<vars, operVars, snap, execVars, fed, shutter, shutterTo, fans, clear, gun>>

\* Feedback reads "unknown" while the shutter moves.
ShutterMoves ==
  /\ shutter # shutterTo
  /\ shutter' = IF shutter = "unknown" THEN shutterTo ELSE "unknown"
  /\ UNCHANGED <<vars, operVars, snap, execVars, partsAt, shutterTo, fans, clear, gun, belts>>

TakeOffOutfeed ==
  /\ outfeed
  /\ outfeed' = FALSE
  /\ UNCHANGED <<vars, operVars, snap, execVars, phys, transit, fed, devices>>

-----------------------------------------------------------------------------
(***************************************************************************)
(* The operator, through LineController.                                    *)
(***************************************************************************)
DeclareBatch(n) ==
  /\ ~snap.read
  /\ SteadyDeclare(n)
  /\ UNCHANGED <<operVars, snap, execVars, partsAt, devices>>

Pause ==
  /\ ~snap.read /\ enabled /\ pauses < MaxPauses
  /\ enabled' = FALSE /\ pauses' = pauses + 1
  /\ UNCHANGED <<vars, halts, snap, execVars, partsAt, devices>>

Run ==
  /\ ~snap.read /\ ~enabled
  /\ enabled' = TRUE
  /\ UNCHANGED <<vars, halts, pauses, snap, execVars, partsAt, devices>>

\* LineController.halt takes no lock.
Halt ==
  /\ halts < MaxHalts
  /\ halts' = halts + 1
  /\ HaltExecutor
  /\ UNCHANGED <<vars, enabled, pauses, snap, cur, at, done, live, partsAt,
                 shutter, shutterTo, fans, clear, gun>>

AckFault_ResetLast ==
  /\ ~snap.read /\ transit = {}
  /\ Resume(phys, beat, Sensed.occupied)
  /\ latch' = FALSE /\ done' = 0 /\ live' = FALSE
  /\ queue' = <<>>
  /\ UNCHANGED <<operVars, snap, cur, at, partsAt, devices>>

\* The operator confirms what really stands where, once nothing moves.
AckFault ==
  /\ ~snap.read /\ transit = {}
  /\ Resume(phys, beat, Sensed.occupied)
  /\ latch' = FALSE /\ done' = 0 /\ live' = FALSE
  /\ queue' = <<MoveToSafePose>>
  /\ UNCHANGED <<operVars, snap, cur, at, partsAt, devices>>

-----------------------------------------------------------------------------
LineInit ==
  /\ Init
  /\ enabled = TRUE /\ halts = 0 /\ pauses = 0
  /\ snap = Nothing
  /\ queue = <<>> /\ cur = Idle /\ at = "idle" /\ latch = FALSE /\ done = 0 /\ live = FALSE
  /\ phys = [st \in Tracked |-> NoPart] /\ transit = {} /\ fed = 0 /\ outfeed = FALSE
  /\ shutter = "closed" /\ shutterTo = "closed" /\ fans = {}
  /\ clear = TRUE /\ gun = FALSE /\ belts = {}

Worker == \/ Take \/ DoFan \/ DoShutter \/ DoPrep \/ DoSpray \/ DoSafePose
          \/ ArmZones \/ TrainArrived \/ TrainError

Plant == Depart \/ Land \/ ShutterMoves \/ TakeOffOutfeed

Operator == (\E n \in Parts : DeclareBatch(n)) \/ Pause \/ Run \/ Halt

Automatic == ReadInputs \/ Act \/ IdleLoop \/ Worker \/ Plant

LineNext == Automatic \/ Operator \/ AckFault

LineSpec == LineInit /\ [][LineNext]_lineVars

\* An operator who lets the worker come to rest before acknowledging.
PatientNext == Automatic \/ Operator \/ (cur = Idle /\ AckFault)

PatientSpec == LineInit /\ [][PatientNext]_lineVars

(***************************************************************************)
(* The loop thread, the worker and the plant never stop for good; whoever   *)
(* pauses the line runs it again and acknowledges its faults. Run and       *)
(* AckFault wait for a lock the loop gives up in every cycle, hence SF.     *)
(***************************************************************************)
MachinesRun ==
  /\ WF_lineVars(ReadInputs) /\ WF_lineVars(Act) /\ WF_lineVars(IdleLoop)
  /\ WF_lineVars(Worker)
  /\ WF_lineVars(Depart) /\ WF_lineVars(Land) /\ WF_lineVars(ShutterMoves)
  /\ WF_lineVars(TakeOffOutfeed)

OperatorReturns == SF_lineVars(Run) /\ SF_lineVars(AckFault)

FairSpec == LineSpec /\ MachinesRun /\ OperatorReturns

-----------------------------------------------------------------------------
\* Parts between two tracked stations, or between IN and F1.
Crossing == {t \in transit : t[1] # "OUT"}

LineTypeOK ==
  /\ enabled \in BOOLEAN /\ halts \in 0 .. MaxHalts /\ pauses \in 0 .. MaxPauses
  /\ Len(queue) <= 5 /\ done \in 0 .. 5 /\ latch \in BOOLEAN /\ live \in BOOLEAN
  /\ at \in {"idle", "start", "armed", "wait"} /\ (at = "idle" <=> cur = Idle)
  /\ phys \in [Tracked -> Parts \cup {NoPart}]
  /\ fed \in 0 .. declared /\ outfeed \in BOOLEAN
  /\ shutter \in {"open", "closed", "unknown"} /\ shutterTo \in {"open", "closed"}
  /\ fans \subseteq FanStations /\ belts \subseteq {"Z1", "Z2", "feed"}
  /\ clear \in BOOLEAN /\ gun \in BOOLEAN

(***************************************************************************)
(* The transfer interlock (guards.zone_motion_blocked), at the device and   *)
(* not only when the guard looked: while a zone runs, the shutter is open,  *)
(* the robot out of the envelope and the gun off.                           *)
(***************************************************************************)
MotionInterlock ==
  belts \cap {"Z1", "Z2"} # {} => shutter = "open" /\ clear /\ ~gun

(***************************************************************************)
(* The spray interlock's primary barrier: paint flows only behind a closed  *)
(* shutter, onto a part that stands at O, with no part between stations.    *)
(***************************************************************************)
SprayEnclosed == gun => shutter = "closed" /\ phys["O"] # NoPart /\ Crossing = {}

(***************************************************************************)
(* guards.spray_blocked at the device: the F1 fan never blows on a wet part *)
(* while the gun is live.                                                   *)
(***************************************************************************)
NoBlowOnWet == gun => ~("F1" \in fans /\ phys["F1"] # NoPart /\ wet[phys["F1"]])

(***************************************************************************)
(* The machine waits for exactly the intents that are queued, being         *)
(* executed or finished but not yet collected: it neither runs ahead of the *)
(* devices nor waits for an intent that was thrown away.                    *)
(***************************************************************************)
WaitsForWhatRuns ==
  ~latch => pending = Len(queue) + done + (IF live THEN 1 ELSE 0)

(***************************************************************************)
(* Outside a train move and the faults that end one, the belief is the      *)
(* truth: who stands where, and who is still on the IN belt.                *)
(***************************************************************************)
BeliefIsTruth ==
  phase \notin {"moving", "faulted"} => occ = phys /\ infed = fed /\ Crossing = {}

(***************************************************************************)
(* A pause holds at a beat boundary (controller._loop) so that no part is   *)
(* stranded under a fan that was never switched on: whenever the loop holds *)
(* the line, or waits for the departure guards, and the worker has nothing  *)
(* left to do, every wet part at a fan station is really being dried.       *)
(***************************************************************************)
Dried == \A st \in FanStations : phys[st] # NoPart /\ wet[phys[st]] => st \in fans

HeldPartsDry ==
  /\ phase # "faulted" /\ ~latch
  /\ ~Ticks \/ phase = "await_guards"
  /\ cur = Idle /\ queue = <<>>
  => Dried

(***************************************************************************)
(* Flash time and finish, at the device: only a finished, dry part reaches  *)
(* the outfeed end of the line.                                             *)
(***************************************************************************)
OnlyFinishedLeave ==
  \A t \in transit : t[1] = "OUT" =>
     coats[t[2]] = 2 /\ flash1[t[2]] = FlashSeconds /\ flash2[t[2]] = FlashSeconds

(***************************************************************************)
(* Every declared part is outfed in the end, through pauses, faults and     *)
(* recoveries.                                                              *)
(***************************************************************************)
AllOutfed == \A p \in Parts : declared >= p ~> p \in shipped
=============================================================================
