------------------------------- MODULE Machine -------------------------------
(***************************************************************************)
(* The process core: step() and resume() of core/machine.py with the guards *)
(* of core/guards.py and the flash timers of core/timers.py, plus the two   *)
(* other writers of the line state, LineController.declare_batch and        *)
(* Supervisor.idle_tick.                                                    *)
(*                                                                         *)
(* The environment is open: every tick brings any snapshot of Readings, any *)
(* number of completions and possibly an external fault, so what holds here *)
(* holds for every plant, executor and robot. Module Line closes the loop.  *)
(*                                                                         *)
(* Abstractions: a part is its number in declaration order; the IN queue is *)
(* the interval infed+1 .. declared, because it is only appended to by      *)
(* declare_batch and popped at its head by an IN -> F1 move; pending is how *)
(* many emitted intents are not yet reported complete; flash seconds are    *)
(* counted up to FlashSeconds, the only value they are compared with.       *)
(***************************************************************************)
EXTENDS Schedule, FiniteSets

CONSTANTS
  MaxParts,      \* parts ever declared; bounds the model
  FlashSeconds,  \* ProcessConfig.flash_seconds, in ticks of banked fan time
  MaxDt,         \* longest time one supervision tick may account for
  Readings       \* the sensor snapshots a tick may see

Parts == 1 .. MaxParts

\* core/model.py SensorSnapshot; fans is the set of fans SENSED on.
Snapshots == [occupied : SUBSET Tracked, shutter : {"open", "closed", "unknown"},
              fans : SUBSET FanStations, clear : BOOLEAN, gun : BOOLEAN,
              inEye : BOOLEAN, outEye : BOOLEAN]

ASSUME MachineAssumption ==
  /\ MaxParts \in Nat
  /\ FlashSeconds \in Nat \ {0}
  /\ MaxDt \in Nat
  /\ Readings \subseteq Snapshots

VARIABLES
  beat,        \* P1 .. P4
  phase,       \* the choreography step, or "faulted"
  faultPhase,  \* the phase the fault landed in
  pending,     \* emitted intents not yet complete
  inflight,    \* stations whose parts the train is carrying
  occ,         \* believed occupant of each tracked station
  declared,    \* parts declared so far
  infed,       \* parts that have left the IN queue
  shipped,     \* parts dropped from the books at OUT
  coats,       \* coats_applied of each part
  flash1,      \* banked fan time after coat 1
  flash2,      \* banked fan time after coat 2
  wet          \* is_wet

ctlVars  == <<beat, phase, faultPhase, pending, inflight>>
bookVars == <<occ, declared, infed, shipped>>
partVars == <<coats, flash1, flash2, wet>>
vars     == <<ctlVars, bookVars, partVars>>

-----------------------------------------------------------------------------
(***************************************************************************)
(* Flash timers.                                                            *)
(***************************************************************************)
ActiveFlash(p) == IF coats[p] <= 1 THEN flash1[p] ELSE flash2[p]

FlashComplete(p) == ActiveFlash(p) >= FlashSeconds

MayLeaveFan_AnyTime(p)  == TRUE
MayLeaveFan_OffByOne(p) == coats[p] = 0 \/ ActiveFlash(p) + 1 >= FlashSeconds

MayLeaveFan(p) == coats[p] = 0 \/ FlashComplete(p)

Capped(n) == IF n > FlashSeconds THEN FlashSeconds ELSE n

\* A coated part at a fan station whose fan is sensed on.
Flashing_Staged(p, s) == \E st \in FanStations : st \in s.fans /\ occ[st] = p

Flashing(p, s) == \E st \in FanStations : st \in s.fans /\ occ[st] = p /\ coats[p] > 0

BankedFlash1(s, dt) ==
  [p \in Parts |-> IF Flashing(p, s) /\ coats[p] <= 1
                   THEN Capped(flash1[p] + dt) ELSE flash1[p]]

BankedFlash2(s, dt) ==
  [p \in Parts |-> IF Flashing(p, s) /\ coats[p] > 1
                   THEN Capped(flash2[p] + dt) ELSE flash2[p]]

\* Wetness clears the moment the active flash completes, never on a move.
BankedWet(s, dt) ==
  [p \in Parts |->
     /\ wet[p]
     /\ ~ /\ Flashing(p, s)
          /\ (IF coats[p] <= 1 THEN BankedFlash1(s, dt) ELSE BankedFlash2(s, dt))[p]
               >= FlashSeconds]

Bank(s, dt) ==
  /\ flash1' = BankedFlash1(s, dt)
  /\ flash2' = BankedFlash2(s, dt)
  /\ wet'    = BankedWet(s, dt)
  /\ UNCHANGED coats

-----------------------------------------------------------------------------
(***************************************************************************)
(* Moves and guards.                                                        *)
(***************************************************************************)
Loaded_QueueUnchecked(st) == st = "IN" \/ (st \in Tracked /\ occ[st] # NoPart)

Loaded(st) == IF st = "IN" THEN infed < declared
                          ELSE st \in Tracked /\ occ[st] # NoPart

LiveMoves == {st \in Sources(beat) : Loaded(st)}

Mismatch(o, seen) == \E st \in Tracked : (o[st] # NoPart) # (st \in seen)

\* A destination is free if it reads empty or a move of this transition vacates it.
DestinationsFree(m, s) ==
  \A d \in Tracked : Feeder(beat, d) \in m => d \notin s.occupied \/ d \in m

FlashGuard(m) ==
  \A st \in m \cap FanStations, p \in Parts : occ[st] = p => MayLeaveFan(p)

DepartureClear_F1Only(m, s) ==
  /\ s.clear /\ ~s.gun
  /\ "IN" \in m => s.inEye
  /\ Feeder(beat, "OUT") \in m => ~s.outEye
  /\ DestinationsFree(m, s)
  /\ "F1" \in m => \A p \in Parts : occ["F1"] = p => MayLeaveFan(p)'

\* The tick banks its time before it looks at the guards, hence the prime.
DepartureClear(m, s) ==
  /\ s.clear /\ ~s.gun
  /\ "IN" \in m => s.inEye
  /\ Feeder(beat, "OUT") \in m => ~s.outEye
  /\ DestinationsFree(m, s)
  /\ \A st \in m \cap FanStations, p \in Parts : occ[st] = p => MayLeaveFan(p)'

ZoneMotionClear(m, s) == s.shutter = "open" /\ DepartureClear(m, s)

SprayStationReady(s) == s.shutter = "closed" /\ "O" \in s.occupied

\* _apply_moves: the books after the moves out of the stations m. A move whose
\* source turns out to be empty is skipped.
Carried(st) == IF st = "IN" THEN infed + 1 ELSE occ[st]

Delivers(m, d) == Feeder(beat, d) \in m /\ Loaded(Feeder(beat, d))

Moved(m) == [d \in Tracked |-> IF Delivers(m, d) THEN Carried(Feeder(beat, d))
                               ELSE IF d \in m THEN NoPart ELSE occ[d]]
MovedInfed(m)   == IF "IN" \in m /\ Loaded("IN") THEN infed + 1 ELSE infed
MovedShipped(m) == IF Delivers(m, "OUT") THEN shipped \cup {occ["F2"]} ELSE shipped

-----------------------------------------------------------------------------
(***************************************************************************)
(* step(): bank, retire completions, then fault, block or dispatch. k is    *)
(* the number of intents reported complete since the last tick, flt says    *)
(* that the executor latch or the firmware watchdog reports a fault.        *)
(***************************************************************************)
EnterFault ==
  /\ phase' = "faulted"
  /\ faultPhase' = phase
  /\ pending' = 0
  /\ UNCHANGED <<beat, inflight, bookVars>>

Goto(next, emitted) ==
  /\ phase' = next
  /\ pending' = emitted
  /\ UNCHANGED <<beat, faultPhase>>

ExternalFault(s, dt) ==
  /\ phase # "faulted"
  /\ Bank(s, dt)
  /\ EnterFault

MismatchFault(s, dt) ==
  /\ phase \notin {"faulted", "moving"}
  /\ Mismatch(occ, s.occupied)
  /\ Bank(s, dt)
  /\ EnterFault

StayFaulted(s, dt) ==
  /\ phase = "faulted"
  /\ Bank(s, dt)
  /\ UNCHANGED <<ctlVars, bookVars>>

\* Not faulted, no new fault: the tick goes on to the pending check.
Sound(s) == /\ phase # "faulted"
            /\ phase # "moving" => ~Mismatch(occ, s.occupied)

AwaitCompletions(s, dt, k) ==
  /\ Sound(s)
  /\ k < pending
  /\ Bank(s, dt)
  /\ pending' = pending - k
  /\ UNCHANGED <<beat, phase, faultPhase, inflight, bookVars>>

Ready(s, k, ph) == Sound(s) /\ phase = ph /\ k = pending

-----------------------------------------------------------------------------
\* ROBOT_WORK
LineEmpty == infed = declared /\ \A st \in Tracked : occ[st] = NoPart

WorkDue == /\ occ["O"] # NoPart
           /\ Role(occ["O"]) = WorkRole(beat)
           /\ coats[occ["O"]] < WorkCoat(beat)

WrongRole == occ["O"] # NoPart /\ Role(occ["O"]) # WorkRole(beat)

RoleFault(s, dt, k) ==
  /\ Ready(s, k, "robot_work")
  /\ WrongRole
  /\ Bank(s, dt)
  /\ EnterFault

SkipWork(s, dt, k) ==
  /\ Ready(s, k, "robot_work")
  /\ ~LineEmpty /\ ~WrongRole /\ ~WorkDue
  /\ Bank(s, dt)
  /\ Goto("await_guards", 0)
  /\ UNCHANGED <<inflight, bookVars>>

\* Does the batch bracket the burst with F1 fan off and on?
PausesFan == FanOn(beat) = {"F1"} /\ occ["F1"] # NoPart /\ wet'[occ["F1"]]

\* The coat is recorded when the batch is EMITTED, before any paint flows.
StartWork(s, dt, k) ==
  /\ Ready(s, k, "robot_work")
  /\ WorkDue
  /\ SprayStationReady(s)
  /\ flash1' = BankedFlash1(s, dt)
  /\ flash2' = BankedFlash2(s, dt)
  /\ wet'    = [BankedWet(s, dt) EXCEPT ![occ["O"]] = TRUE]
  /\ coats'  = [coats EXCEPT ![occ["O"]] = WorkCoat(beat)]
  /\ Goto("await_guards", IF PausesFan THEN 5 ELSE 3)
  /\ UNCHANGED <<inflight, bookVars>>

\* AWAIT_GUARDS
GuardsPass(s, dt, k) ==
  /\ Ready(s, k, "await_guards")
  /\ UNCHANGED <<inflight, bookVars>>
  /\ Bank(s, dt)
  /\ DepartureClear(LiveMoves, s)
  /\ Goto("shutter_open", 0)

\* SHUTTER_OPEN and SHUTTER_CLOSE
CommandShutter(s, dt, k, from, to) ==
  /\ Ready(s, k, from)
  /\ Bank(s, dt)
  /\ Goto(to, 1)
  /\ UNCHANGED <<inflight, bookVars>>

\* MOVING
NothingToMove(s, dt, k) ==
  /\ Ready(s, k, "moving")
  /\ inflight = {} /\ LiveMoves = {}
  /\ Bank(s, dt)
  /\ Goto("shutter_close", 0)
  /\ UNCHANGED <<inflight, bookVars>>

Advance(s, dt, k) ==
  /\ Ready(s, k, "moving")
  /\ inflight = {} /\ LiveMoves # {}
  /\ UNCHANGED bookVars
  /\ Bank(s, dt)
  /\ ZoneMotionClear(LiveMoves, s)
  /\ inflight' = LiveMoves
  /\ Goto("moving", 1)

Arrived(s) == \A d \in Tracked : Feeder(beat, d) \in inflight => d \in s.occupied

ArrivalFault(s, dt, k) ==
  /\ Ready(s, k, "moving")
  /\ inflight # {}
  /\ ~Arrived(s)
  /\ Bank(s, dt)
  /\ EnterFault

Arrive(s, dt, k) ==
  /\ Ready(s, k, "moving")
  /\ inflight # {}
  /\ Arrived(s)
  /\ Bank(s, dt)
  /\ occ' = Moved(inflight)
  /\ infed' = MovedInfed(inflight)
  /\ shipped' = MovedShipped(inflight)
  /\ inflight' = {}
  /\ Goto("shutter_close", 0)
  /\ UNCHANGED declared

\* SET_FANS
SetFans(s, dt, k) ==
  /\ Ready(s, k, "set_fans")
  /\ Bank(s, dt)
  /\ beat' = NextBeat(beat)
  /\ phase' = "robot_work"
  /\ pending' = 2
  /\ UNCHANGED <<faultPhase, inflight, bookVars>>

\* Every reason a dispatch returns blocked_by without changing phase.
Blocked(s, dt, k) ==
  /\ Sound(s)
  /\ k = pending
  /\ UNCHANGED <<inflight, bookVars>>
  /\ Bank(s, dt)
  /\ \/ phase = "robot_work" /\ (LineEmpty \/ (WorkDue /\ ~SprayStationReady(s)))
     \/ phase = "await_guards" /\ ~DepartureClear(LiveMoves, s)
     \/ phase = "moving" /\ inflight = {} /\ LiveMoves # {}
                         /\ ~ZoneMotionClear(LiveMoves, s)
  /\ Goto(phase, 0)

Dispatch(s, dt, k) ==
  \/ MismatchFault(s, dt)
  \/ AwaitCompletions(s, dt, k)
  \/ RoleFault(s, dt, k)
  \/ SkipWork(s, dt, k)
  \/ StartWork(s, dt, k)
  \/ GuardsPass(s, dt, k)
  \/ CommandShutter(s, dt, k, "shutter_open", "moving")
  \/ NothingToMove(s, dt, k)
  \/ Advance(s, dt, k)
  \/ ArrivalFault(s, dt, k)
  \/ Arrive(s, dt, k)
  \/ CommandShutter(s, dt, k, "shutter_close", "set_fans")
  \/ SetFans(s, dt, k)
  \/ Blocked(s, dt, k)

Tick(s, dt, k, flt) ==
  \/ StayFaulted(s, dt)
  \/ flt /\ ExternalFault(s, dt)
  \/ ~flt /\ Dispatch(s, dt, k)

-----------------------------------------------------------------------------
(***************************************************************************)
(* The other writers of the line state.                                     *)
(***************************************************************************)
\* A paused tick at a beat boundary: timers only.
IdleTick(s, dt) ==
  /\ phase \in {"robot_work", "faulted"}
  /\ Bank(s, dt)
  /\ UNCHANGED <<ctlVars, bookVars>>

Declare(n) ==
  /\ declared + n <= MaxParts
  /\ declared' = declared + n
  /\ UNCHANGED <<ctlVars, occ, infed, shipped, partVars>>

\* resume(confirmed_occupancy = c, beat = b), with parts seen at the stations `seen`
Crossed_Never(c) == FALSE

Crossed(c) == faultPhase = "moving" /\ inflight # {} /\ c = Moved(inflight)

Uncrossed(c) == faultPhase = "moving" /\ inflight # {} /\ c = occ

ReentryPhase_Replay(c) == "robot_work"

ReentryPhase(c) ==
  IF faultPhase \in {"shutter_close", "set_fans"} \/ Crossed(c) THEN "shutter_close"
  ELSE IF Uncrossed(c) THEN "await_guards" ELSE "robot_work"

Resume(c, b, seen) ==
  /\ phase = "faulted"
  /\ ~Mismatch(c, seen)
  /\ phase' = ReentryPhase(c)
  /\ faultPhase' = "none"
  /\ beat' = b
  /\ pending' = 1
  /\ inflight' = {}
  /\ occ' = c
  /\ infed' = IF Crossed(c) THEN MovedInfed(inflight) ELSE infed
  /\ shipped' = IF Crossed(c) THEN MovedShipped(inflight) ELSE shipped
  /\ UNCHANGED <<declared, partVars>>

\* The sensors contradict the operator: still faulted, but the belief is kept.
RejectResume(c, seen) ==
  /\ phase = "faulted"
  /\ Mismatch(c, seen)
  /\ occ' = c
  /\ UNCHANGED <<ctlVars, declared, infed, shipped, partVars>>

-----------------------------------------------------------------------------
Init ==
  /\ beat = "P1" /\ phase = "robot_work" /\ faultPhase = "none"
  /\ pending = 0 /\ inflight = {}
  /\ occ = [st \in Tracked |-> NoPart]
  /\ declared = 0 /\ infed = 0 /\ shipped = {}
  /\ coats = [p \in Parts |-> 0]
  /\ flash1 = [p \in Parts |-> 0]
  /\ flash2 = [p \in Parts |-> 0]
  /\ wet = [p \in Parts |-> FALSE]

\* What an operator may confirm: parts the line still has, each at one station at most.
\* resume checks presence only: a bound on what is typed in, to what can stand there.
Known == (1 .. declared) \ shipped

Confirmations ==
  {c \in [Tracked -> Known \cup {NoPart}] :
     \A x, y \in Tracked : c[x] = c[y] /\ c[x] # NoPart => x = y}

Step == \E s \in Readings, dt \in 0 .. MaxDt :
          IdleTick(s, dt) \/ \E k \in 0 .. pending, flt \in BOOLEAN : Tick(s, dt, k, flt)

Next ==
  \/ Step
  \/ \E n \in Parts : Declare(n)
  \/ \E seen \in SUBSET Tracked, c \in Confirmations :
       (\E b \in Beats : Resume(c, b, seen)) \/ RejectResume(c, seen)

Spec == Init /\ [][Next]_vars

-----------------------------------------------------------------------------
TypeOK ==
  /\ beat \in Beats /\ phase \in Phases /\ faultPhase \in Phases \cup {"none"}
  /\ pending \in 0 .. 5
  /\ inflight \in SUBSET Stations
  /\ occ \in [Tracked -> Parts \cup {NoPart}]
  /\ declared \in 0 .. MaxParts /\ infed \in 0 .. declared
  /\ shipped \in SUBSET Parts
  /\ coats \in [Parts -> 0 .. 2]
  /\ flash1 \in [Parts -> 0 .. FlashSeconds]
  /\ flash2 \in [Parts -> 0 .. FlashSeconds]
  /\ wet \in [Parts -> BOOLEAN]

(***************************************************************************)
(* A part is tagged wet exactly while it carries a coat whose flash is not  *)
(* complete (core/timers.py advance_flash_timers: "Wet means coated and     *)
(* flash incomplete"), through faults, pauses and any operator resume: the  *)
(* tag arms the F1 fan pause, so neither a stale nor a missing one is safe. *)
(***************************************************************************)
WetMeansOwing == \A p \in Parts : wet[p] <=> coats[p] > 0 /\ ~FlashComplete(p)

(***************************************************************************)
(* While the train is carrying parts, every coated part that left a fan     *)
(* station has banked its active flash, whatever the sensors, completions   *)
(* and faults did between the guard and the motion.                         *)
(***************************************************************************)
DryInFlight == phase = "moving" => FlashGuard(inflight)
=============================================================================
