---------------------------- MODULE MachineProofs ----------------------------
(***************************************************************************)
(* Theorems of the open machine, for every number of parts, flash time,     *)
(* tick length and set of sensor readings.                                  *)
(***************************************************************************)
EXTENDS Machine, TLAPS

USE MachineAssumption DEF NoPart

-----------------------------------------------------------------------------
\* The pieces of TypeOK that a tick's banking, its moves and a resume write.
TimerType == /\ coats \in [Parts -> 0 .. 2]
             /\ flash1 \in [Parts -> 0 .. FlashSeconds]
             /\ flash2 \in [Parts -> 0 .. FlashSeconds]
             /\ wet \in [Parts -> BOOLEAN]

(***************************************************************************)
(* timers.advance_flash_timers keeps the types of the part records.         *)
(***************************************************************************)
LEMMA BankedType ==
  ASSUME TimerType, NEW s, NEW dt \in 0 .. MaxDt
  PROVE  /\ BankedFlash1(s, dt) \in [Parts -> 0 .. FlashSeconds]
         /\ BankedFlash2(s, dt) \in [Parts -> 0 .. FlashSeconds]
         /\ BankedWet(s, dt) \in [Parts -> BOOLEAN]
<1>1. \A n \in Nat : Capped(n) \in 0 .. FlashSeconds
  BY DEF Capped
<1>2. \A p \in Parts : flash1[p] + dt \in Nat /\ flash2[p] + dt \in Nat
  BY DEF TimerType
<1>3. BankedFlash1(s, dt) \in [Parts -> 0 .. FlashSeconds]
  BY <1>1, <1>2 DEF BankedFlash1, TimerType
<1>4. BankedFlash2(s, dt) \in [Parts -> 0 .. FlashSeconds]
  BY <1>1, <1>2 DEF BankedFlash2, TimerType
<1>5. BankedWet(s, dt) \in [Parts -> BOOLEAN]
  BY DEF BankedWet
<1>6. QED
  BY <1>3, <1>4, <1>5

\* Banking fan time keeps the part records in their types.
LEMMA BankType ==
  ASSUME TimerType, NEW s, NEW dt \in 0 .. MaxDt, Bank(s, dt)
  PROVE  TimerType'
BY BankedType DEF Bank, TimerType

(***************************************************************************)
(* machine._apply_moves keeps the types of the books, whatever is in flight. *)
(***************************************************************************)
LEMMA MovedType ==
  ASSUME TypeOK, NEW m \in SUBSET Stations
  PROVE  /\ Moved(m) \in [Tracked -> Parts \cup {NoPart}]
         /\ MovedInfed(m) \in 0 .. declared
         /\ MovedShipped(m) \in SUBSET Parts
<1>1. ASSUME NEW d \in Stations, Delivers(m, d)
      PROVE  Carried(Feeder(beat, d)) \in Parts
  BY <1>1 DEF Delivers, Carried, Loaded, TypeOK, Parts
<1>2. Moved(m) \in [Tracked -> Parts \cup {NoPart}]
  BY <1>1 DEF Moved, TypeOK, Stations
<1>3. MovedInfed(m) \in 0 .. declared
  BY DEF MovedInfed, Loaded, TypeOK
<1>4. Delivers(m, "OUT") => occ["F2"] \in Parts
  BY DEF Delivers, Loaded, Feeder, TypeOK, Tracked
<1>5. MovedShipped(m) \in SUBSET Parts
  BY <1>4 DEF MovedShipped, TypeOK
<1>6. QED
  BY <1>2, <1>3, <1>5

\* Moving to another phase with a few intents pending keeps the type.
LEMMA GotoType ==
  ASSUME TypeOK, NEW ph \in Phases, NEW n \in 0 .. 5, Goto(ph, n)
  PROVE  /\ beat' \in Beats /\ phase' \in Phases
         /\ faultPhase' \in Phases \cup {"none"} /\ pending' \in 0 .. 5
BY DEF Goto, TypeOK

\* So does emitting a robot batch, which records the coat.
LEMMA StartWorkTypeOK ==
  ASSUME TypeOK, NEW s, NEW dt \in 0 .. MaxDt, NEW k, StartWork(s, dt, k)
  PROVE  TypeOK'
<1>1. occ["O"] \in Parts
  BY DEF StartWork, WorkDue, TypeOK, Tracked
<1>2. WorkCoat(beat) \in 0 .. 2
  BY DEF WorkCoat
<1>3. coats' \in [Parts -> 0 .. 2]
  BY <1>1, <1>2 DEF StartWork, TypeOK
<1>4. TimerType
  BY DEF TypeOK, TimerType
<1>5. flash1' \in [Parts -> 0 .. FlashSeconds] /\ flash2' \in [Parts -> 0 .. FlashSeconds]
  BY <1>4, BankedType DEF StartWork
<1>6. wet' \in [Parts -> BOOLEAN]
  <2>1. BankedWet(s, dt) \in [Parts -> BOOLEAN]
    BY <1>4, BankedType
  <2>2. wet' = [BankedWet(s, dt) EXCEPT ![occ["O"]] = TRUE]
    BY DEF StartWork
  <2>3. QED
    BY <2>1, <2>2
<1>7. /\ phase' = "await_guards" /\ beat' = beat /\ faultPhase' = faultPhase
      /\ pending' \in 0 .. 5
  BY DEF StartWork, Goto
<1>8. UNCHANGED <<inflight, occ, declared, infed, shipped>>
  BY DEF StartWork, bookVars
<1>9. QED
  BY <1>3, <1>5, <1>6, <1>7, <1>8 DEF TypeOK, Phases

(***************************************************************************)
(* Every dispatch outcome of step() but StartWork banks the timers and      *)
(* writes the control variables with values of their types.                 *)
(***************************************************************************)
LEMMA DispatchTypeOK ==
  ASSUME TypeOK, NEW s, NEW dt \in 0 .. MaxDt, NEW k \in 0 .. pending,
         Dispatch(s, dt, k)
  PROVE  TypeOK'
<1>t. TimerType
  BY DEF TypeOK, TimerType
<1>b. ASSUME Bank(s, dt)
      PROVE TimerType'
  BY <1>t, <1>b, BankType
<1>f. ASSUME Bank(s, dt), EnterFault
      PROVE TypeOK'
  BY <1>b, <1>f DEF EnterFault, TypeOK, TimerType, Phases, bookVars
<1>g. ASSUME NEW ph \in Phases, NEW n \in 0 .. 5, Goto(ph, n), Bank(s, dt),
             inflight' \in SUBSET Stations, UNCHANGED bookVars
      PROVE  TypeOK'
  BY <1>b, <1>g, GotoType DEF TypeOK, TimerType, bookVars
<1>1. CASE MismatchFault(s, dt)
  BY <1>1, <1>f DEF MismatchFault
<1>2. CASE AwaitCompletions(s, dt, k)
  <2>1. pending - k \in 0 .. 5
    BY DEF TypeOK
  <2>2. QED
    BY <1>2, <2>1, <1>b DEF AwaitCompletions, TypeOK, TimerType, bookVars
<1>3. CASE RoleFault(s, dt, k)
  BY <1>3, <1>f DEF RoleFault
<1>4. CASE SkipWork(s, dt, k)
  BY <1>4, <1>g DEF SkipWork, Phases, TypeOK
<1>5. CASE StartWork(s, dt, k)
  BY <1>5, StartWorkTypeOK
<1>6. CASE GuardsPass(s, dt, k)
  BY <1>6, <1>g DEF GuardsPass, Phases, TypeOK
<1>7. CASE CommandShutter(s, dt, k, "shutter_open", "moving")
  BY <1>7, <1>g DEF CommandShutter, Phases, TypeOK
<1>8. CASE NothingToMove(s, dt, k)
  BY <1>8, <1>g DEF NothingToMove, Phases, TypeOK
<1>9. CASE Advance(s, dt, k)
  <2>1. LiveMoves \in SUBSET Stations
    BY DEF LiveMoves, Sources, Feeder, Stations, Tracked
  <2>2. QED
    BY <1>9, <2>1, <1>g DEF Advance, Phases
<1>10. CASE ArrivalFault(s, dt, k)
  BY <1>10, <1>f DEF ArrivalFault
<1>11. CASE Arrive(s, dt, k)
  <2>1. inflight \in SUBSET Stations
    BY DEF TypeOK
  <2>2. /\ occ' \in [Tracked -> Parts \cup {NoPart}]
        /\ infed' \in 0 .. declared /\ shipped' \in SUBSET Parts
    BY <1>11, <2>1, MovedType DEF Arrive
  <2>3. /\ beat' \in Beats /\ phase' \in Phases
        /\ faultPhase' \in Phases \cup {"none"} /\ pending' \in 0 .. 5
    BY <1>11, GotoType DEF Arrive, Phases
  <2>4. QED
    BY <1>11, <2>2, <2>3, <1>b DEF Arrive, TypeOK, TimerType
<1>12. CASE CommandShutter(s, dt, k, "shutter_close", "set_fans")
  BY <1>12, <1>g DEF CommandShutter, Phases, TypeOK
<1>13. CASE SetFans(s, dt, k)
  BY <1>13, <1>b DEF SetFans, NextBeat, Beats, Phases, TypeOK, TimerType, bookVars
<1>14. CASE Blocked(s, dt, k)
  BY <1>14, <1>g DEF Blocked, TypeOK
<1>15. QED
  BY <1>1, <1>2, <1>3, <1>4, <1>5, <1>6, <1>7, <1>8, <1>9, <1>10, <1>11, <1>12,
     <1>13, <1>14 DEF Dispatch

\* Every tick and idle tick keeps the type invariant.
LEMMA StepTypeOK == TypeOK /\ Step => TypeOK'
<1> SUFFICES ASSUME TypeOK, NEW s \in Readings, NEW dt \in 0 .. MaxDt,
                    IdleTick(s, dt) \/ \E k \in 0 .. pending, flt \in BOOLEAN :
                                          Tick(s, dt, k, flt)
             PROVE  TypeOK'
  BY DEF Step
<1>t. TimerType
  BY DEF TypeOK, TimerType
<1>b. ASSUME Bank(s, dt)
      PROVE TimerType'
  BY <1>t, <1>b, BankType
<1>1. CASE IdleTick(s, dt)
  BY <1>1, <1>b DEF IdleTick, TypeOK, TimerType, ctlVars, bookVars
<1>2. ASSUME NEW k \in 0 .. pending, NEW flt \in BOOLEAN, Tick(s, dt, k, flt)
      PROVE  TypeOK'
  <2>1. CASE StayFaulted(s, dt)
    BY <2>1, <1>b DEF StayFaulted, TypeOK, TimerType, ctlVars, bookVars
  <2>2. CASE ExternalFault(s, dt)
    BY <2>2, <1>b DEF ExternalFault, EnterFault, TypeOK, TimerType, Phases, bookVars
  <2>3. CASE Dispatch(s, dt, k)
    BY <2>3, DispatchTypeOK
  <2>4. QED
    BY <1>2, <2>1, <2>2, <2>3 DEF Tick
<1>3. QED
  BY <1>1, <1>2

\* Declaring a batch keeps the type invariant.
LEMMA DeclareTypeOK == ASSUME TypeOK, NEW n \in Parts, Declare(n) PROVE TypeOK'
BY DEF Declare, TypeOK, Parts, ctlVars, partVars

(***************************************************************************)
(* resume() with any belief whose occupants are parts, and any beat.        *)
(***************************************************************************)
LEMMA ResumeTypeOK ==
  ASSUME TypeOK, NEW c \in [Tracked -> Parts \cup {NoPart}], NEW b \in Beats, NEW seen,
         Resume(c, b, seen)
  PROVE  TypeOK'
<1>1. inflight \in SUBSET Stations
  BY DEF TypeOK
<1>2. infed' \in 0 .. declared /\ shipped' \in SUBSET Parts
  BY <1>1, MovedType DEF Resume, TypeOK
<1>3. phase' \in Phases
  BY DEF Resume, ReentryPhase, Phases
<1>4. QED
  BY <1>2, <1>3 DEF Resume, TypeOK, partVars

\* Every step of the machine keeps the type invariant.
LEMMA NextTypeOK == TypeOK /\ [Next]_vars => TypeOK'
<1> SUFFICES ASSUME TypeOK, [Next]_vars PROVE TypeOK'
  OBVIOUS
<1>1. CASE Step
  BY <1>1, StepTypeOK
<1>2. ASSUME NEW n \in Parts, Declare(n) PROVE TypeOK'
  BY <1>2, DeclareTypeOK
<1>3. ASSUME NEW seen \in SUBSET Tracked, NEW c \in Confirmations,
             (\E b \in Beats : Resume(c, b, seen)) \/ RejectResume(c, seen)
      PROVE  TypeOK'
  <2>1. c \in [Tracked -> Parts \cup {NoPart}]
    BY DEF Confirmations, Known, TypeOK, Parts
  <2>2. CASE RejectResume(c, seen)
    BY <2>1, <2>2 DEF RejectResume, TypeOK, ctlVars, partVars
  <2>3. QED
    BY <1>3, <2>1, <2>2, ResumeTypeOK
<1>4. CASE UNCHANGED vars
  BY <1>4 DEF vars, ctlVars, bookVars, partVars, TypeOK
<1>5. QED
  BY <1>1, <1>2, <1>3, <1>4 DEF Next

\* The initial state is well typed.
LEMMA InitTypeOK == Init => TypeOK
BY DEF Init, TypeOK, Beats, Phases, Parts

(***************************************************************************)
(* Type correctness of the open machine.                                    *)
(***************************************************************************)
THEOREM TypeCorrect == Spec => []TypeOK
BY InitTypeOK, NextTypeOK, PTL DEF Spec

-----------------------------------------------------------------------------
(***************************************************************************)
(* WetMeansOwing needs to know that a flash not yet begun has banked        *)
(* nothing: otherwise a coat could land on a part whose timer already reads *)
(* complete.                                                                *)
(***************************************************************************)
FreshTimers ==
  \A p \in Parts : /\ coats[p] = 0 => flash1[p] = 0
                   /\ coats[p] < 2 => flash2[p] = 0

WetInv == FreshTimers /\ WetMeansOwing

\* Banking clears a wet tag exactly when the active flash completes.
LEMMA BankWetInv ==
  ASSUME TypeOK, WetInv, NEW s, NEW dt \in 0 .. MaxDt, Bank(s, dt)
  PROVE  WetInv'
<1> SUFFICES ASSUME NEW p \in Parts
             PROVE  /\ coats[p]' = 0 => flash1[p]' = 0
                    /\ coats[p]' < 2 => flash2[p]' = 0
                    /\ wet[p]' <=> coats[p]' > 0 /\ ~FlashComplete(p)'
  BY DEF WetInv, FreshTimers, WetMeansOwing
<1>1. /\ coats[p] \in 0 .. 2 /\ flash1[p] \in 0 .. FlashSeconds
      /\ flash2[p] \in 0 .. FlashSeconds
      /\ coats' = coats
  BY DEF TypeOK, Bank
<1>2. /\ flash1'[p] = IF Flashing(p, s) /\ coats[p] <= 1
                      THEN Capped(flash1[p] + dt) ELSE flash1[p]
      /\ flash2'[p] = IF Flashing(p, s) /\ coats[p] > 1
                      THEN Capped(flash2[p] + dt) ELSE flash2[p]
  BY DEF Bank, BankedFlash1, BankedFlash2
<1>3. wet'[p] <=> /\ wet[p]
                  /\ ~ (Flashing(p, s) /\ FlashComplete(p)')
  <2>1. wet'[p] = (/\ wet[p]
                   /\ ~ /\ Flashing(p, s)
                        /\ (IF coats[p] <= 1 THEN flash1' ELSE flash2')[p]
                             >= FlashSeconds)
    BY DEF Bank, BankedWet
  <2>2. QED
    BY <1>1, <2>1 DEF FlashComplete, ActiveFlash
<1>4. Flashing(p, s) => coats[p] > 0
  BY DEF Flashing
<1>5. /\ coats[p] = 0 => flash1[p] = 0
      /\ coats[p] < 2 => flash2[p] = 0
      /\ wet[p] <=> coats[p] > 0 /\ ~FlashComplete(p)
  BY DEF WetInv, FreshTimers, WetMeansOwing
<1>6. ~Flashing(p, s) => (FlashComplete(p)' <=> FlashComplete(p))
  BY <1>1, <1>2 DEF FlashComplete, ActiveFlash
<1>7. FlashComplete(p) => FlashComplete(p)'
  BY <1>1, <1>2 DEF FlashComplete, ActiveFlash, Capped
<1>8. QED
  BY <1>1, <1>2, <1>3, <1>4, <1>5, <1>6, <1>7

\* A new coat starts on a fresh timer, so the tag it sets is owed.
LEMMA StartWorkWetInv ==
  ASSUME TypeOK, WetInv, NEW s, NEW dt \in 0 .. MaxDt, NEW k, StartWork(s, dt, k)
  PROVE  WetInv'
<1>o. occ["O"] \in Parts /\ coats[occ["O"]] < WorkCoat(beat)
  BY DEF StartWork, WorkDue, TypeOK, Tracked
<1>c. /\ WorkCoat(beat) \in {1, 2}
      /\ coats' = [coats EXCEPT ![occ["O"]] = WorkCoat(beat)]
      /\ flash1' = BankedFlash1(s, dt) /\ flash2' = BankedFlash2(s, dt)
      /\ wet' = [BankedWet(s, dt) EXCEPT ![occ["O"]] = TRUE]
  BY DEF StartWork, WorkCoat
<1> DEFINE q == occ["O"]
<1> SUFFICES ASSUME NEW p \in Parts
             PROVE  /\ coats[p]' = 0 => flash1[p]' = 0
                    /\ coats[p]' < 2 => flash2[p]' = 0
                    /\ wet[p]' <=> coats[p]' > 0 /\ ~FlashComplete(p)'
  BY DEF WetInv, FreshTimers, WetMeansOwing
<1>1. /\ coats[p] \in 0 .. 2 /\ flash1[p] \in 0 .. FlashSeconds
      /\ flash2[p] \in 0 .. FlashSeconds /\ coats \in [Parts -> 0 .. 2]
  BY DEF TypeOK
<1>2. /\ flash1'[p] = IF Flashing(p, s) /\ coats[p] <= 1
                      THEN Capped(flash1[p] + dt) ELSE flash1[p]
      /\ flash2'[p] = IF Flashing(p, s) /\ coats[p] > 1
                      THEN Capped(flash2[p] + dt) ELSE flash2[p]
  BY <1>c DEF BankedFlash1, BankedFlash2
<1>3. BankedWet(s, dt)[p] = (/\ wet[p]
                             /\ ~ /\ Flashing(p, s)
                                  /\ (IF coats[p] <= 1 THEN flash1' ELSE flash2')[p]
                                       >= FlashSeconds)
  BY <1>c DEF BankedWet
<1>4. Flashing(p, s) => coats[p] > 0
  BY DEF Flashing
<1>5. /\ coats[p] = 0 => flash1[p] = 0
      /\ coats[p] < 2 => flash2[p] = 0
      /\ wet[p] <=> coats[p] > 0 /\ ~FlashComplete(p)
  BY DEF WetInv, FreshTimers, WetMeansOwing
<1>6. CASE p = q
  <2>1. coats'[p] = WorkCoat(beat)
    BY <1>1, <1>6, <1>c, <1>o
  <2>2. wet'[p]
    <3>1. BankedWet(s, dt) \in [Parts -> BOOLEAN]
      BY DEF BankedWet
    <3>2. QED
      BY <1>6, <1>c, <1>o, <3>1
  <2>3. IF WorkCoat(beat) = 1 THEN flash1'[p] = 0 /\ flash2'[p] = 0 ELSE flash2'[p] = 0
    BY <1>1, <1>2, <1>4, <1>5, <1>6, <1>c, <1>o
  <2>4. QED
    BY <1>c, <2>1, <2>2, <2>3 DEF FlashComplete, ActiveFlash
<1>7. CASE p # q
  <2>1. coats'[p] = coats[p]
    BY <1>1, <1>7, <1>c
  <2>2. wet'[p] <=> wet[p] /\ ~(Flashing(p, s) /\ FlashComplete(p)')
    <3>1. wet'[p] = BankedWet(s, dt)[p]
      <4>1. BankedWet(s, dt) \in [Parts -> BOOLEAN]
        BY DEF BankedWet
      <4>2. QED
        BY <1>7, <1>c, <4>1
    <3>2. QED
      BY <1>1, <1>3, <2>1, <3>1 DEF FlashComplete, ActiveFlash
  <2>3. ~Flashing(p, s) => (FlashComplete(p)' <=> FlashComplete(p))
    BY <1>1, <1>2, <2>1 DEF FlashComplete, ActiveFlash
  <2>4. FlashComplete(p) => FlashComplete(p)'
    BY <1>1, <1>2, <2>1 DEF FlashComplete, ActiveFlash, Capped
  <2>5. QED
    BY <1>1, <1>2, <1>4, <1>5, <2>1, <2>2, <2>3, <2>4
<1>8. QED
  BY <1>6, <1>7

(***************************************************************************)
(* What a supervision step may do to the part records.                      *)
(***************************************************************************)
LEMMA StepParts ==
  ASSUME NEW s, NEW dt, NEW flt, NEW k,
         IdleTick(s, dt) \/ Tick(s, dt, k, flt)
  PROVE  Bank(s, dt) \/ StartWork(s, dt, k)
BY DEF IdleTick, Tick, StayFaulted, ExternalFault, Dispatch, MismatchFault,
       AwaitCompletions, RoleFault, SkipWork, GuardsPass, CommandShutter, NothingToMove,
       Advance, ArrivalFault, Arrive, SetFans, Blocked

\* Every step keeps the wet tags true to the timers.
LEMMA NextWetInv == TypeOK /\ WetInv /\ [Next]_vars => WetInv'
<1> SUFFICES ASSUME TypeOK, WetInv, [Next]_vars PROVE WetInv'
  OBVIOUS
<1>1. CASE Step
  <2>1. PICK s \in Readings, dt \in 0 .. MaxDt :
          IdleTick(s, dt) \/ \E k \in 0 .. pending, flt \in BOOLEAN : Tick(s, dt, k, flt)
    BY <1>1 DEF Step
  <2>2. Bank(s, dt) \/ \E k : StartWork(s, dt, k)
    BY <2>1, StepParts
  <2>3. QED
    BY <2>2, BankWetInv, StartWorkWetInv
<1>2. CASE UNCHANGED partVars
  BY <1>2 DEF partVars, WetInv, FreshTimers, WetMeansOwing, FlashComplete, ActiveFlash
<1>3. QED
  BY <1>1, <1>2 DEF Next, Declare, Resume, RejectResume, vars

(***************************************************************************)
(* The wet tag is right whatever the sensors, faults and operators do.      *)
(***************************************************************************)
THEOREM WetCorrect == Spec => []WetMeansOwing
<1>1. Init => WetInv
  BY DEF Init, WetInv, FreshTimers, WetMeansOwing
<1>2. QED
  <2>1. WetInv => WetMeansOwing
    BY DEF WetInv
  <2>2. QED
    BY <1>1, <2>1, NextWetInv, TypeCorrect, PTL DEF Spec

-----------------------------------------------------------------------------
(***************************************************************************)
(* DryInFlight is inductive once we know that parts are in flight only in   *)
(* MOVING, or in a fault that landed there.                                 *)
(***************************************************************************)
FlightInv ==
  /\ inflight # {} => phase \in {"moving", "faulted"}
  /\ phase = "moving" => FlashGuard(inflight)

\* A part that may leave its fan may still leave it after more banking.
LEMMA BankKeepsFlashGuard ==
  ASSUME TypeOK, NEW s, NEW dt \in 0 .. MaxDt, Bank(s, dt), UNCHANGED occ,
         NEW m, FlashGuard(m)
  PROVE  FlashGuard(m)'
<1> SUFFICES ASSUME NEW st \in m \cap FanStations, NEW p \in Parts, occ[st] = p
             PROVE  MayLeaveFan(p)'
  BY DEF FlashGuard
<1>1. MayLeaveFan(p)
  BY DEF FlashGuard
<1>2. /\ coats[p] \in 0 .. 2 /\ flash1[p] \in 0 .. FlashSeconds
      /\ flash2[p] \in 0 .. FlashSeconds
  BY DEF TypeOK
<1>3. QED
  BY <1>1, <1>2
     DEF Bank, BankedFlash1, BankedFlash2, Capped, MayLeaveFan, FlashComplete, ActiveFlash

\* Dispatching keeps what is in flight dry: only Advance adds to it, guarded.
LEMMA DispatchFlightInv ==
  ASSUME TypeOK, FlightInv, NEW s, NEW dt \in 0 .. MaxDt, NEW k, Dispatch(s, dt, k)
  PROVE  FlightInv'
<1>n. FlashGuard({})'
  BY DEF FlashGuard
<1>f. ASSUME EnterFault PROVE FlightInv'
  BY <1>f DEF EnterFault, FlightInv
<1>b. ASSUME Bank(s, dt), UNCHANGED <<inflight, phase, occ>> PROVE FlightInv'
  BY <1>b, BankKeepsFlashGuard DEF FlightInv
<1>e. ASSUME inflight' = {} PROVE FlightInv'
  BY <1>e, <1>n DEF FlightInv
<1>1. CASE MismatchFault(s, dt) \/ RoleFault(s, dt, k) \/ ArrivalFault(s, dt, k)
  BY <1>1, <1>f DEF MismatchFault, RoleFault, ArrivalFault
<1>2. CASE AwaitCompletions(s, dt, k)
  BY <1>2, <1>b DEF AwaitCompletions, bookVars
<1>3. CASE \/ SkipWork(s, dt, k) \/ StartWork(s, dt, k) \/ GuardsPass(s, dt, k)
           \/ CommandShutter(s, dt, k, "shutter_open", "moving")
           \/ NothingToMove(s, dt, k) \/ Arrive(s, dt, k)
           \/ CommandShutter(s, dt, k, "shutter_close", "set_fans") \/ SetFans(s, dt, k)
  <2>1. inflight' = {}
    BY <1>3 DEF SkipWork, StartWork, GuardsPass, CommandShutter, NothingToMove, Arrive,
                SetFans, Ready, Sound, FlightInv
  <2>2. QED
    BY <2>1, <1>e
<1>4. CASE Advance(s, dt, k)
  <2>1. /\ inflight' = LiveMoves /\ phase' = "moving" /\ occ' = occ
        /\ \A st \in LiveMoves \cap FanStations, p \in Parts :
             occ[st] = p => MayLeaveFan(p)'
    BY <1>4 DEF Advance, ZoneMotionClear, DepartureClear, Goto, bookVars
  <2>2. QED
    BY <2>1 DEF FlightInv, FlashGuard
<1>5. CASE Blocked(s, dt, k)
  BY <1>5, <1>b DEF Blocked, Goto, bookVars
<1>6. QED
  BY <1>1, <1>2, <1>3, <1>4, <1>5 DEF Dispatch

\* Every step keeps what is in flight dry.
LEMMA NextFlightInv == TypeOK /\ FlightInv /\ [Next]_vars => FlightInv'
<1> SUFFICES ASSUME TypeOK, FlightInv, [Next]_vars PROVE FlightInv'
  OBVIOUS
<1>1. CASE Step
  <2>1. PICK s \in Readings, dt \in 0 .. MaxDt :
          IdleTick(s, dt) \/ \E k \in 0 .. pending, flt \in BOOLEAN : Tick(s, dt, k, flt)
    BY <1>1 DEF Step
  <2>2. CASE IdleTick(s, dt)
    BY <2>2, BankKeepsFlashGuard DEF IdleTick, FlightInv, ctlVars, bookVars
  <2>3. CASE StayFaulted(s, dt)
    BY <2>3 DEF StayFaulted, FlightInv, ctlVars, bookVars
  <2>4. CASE ExternalFault(s, dt)
    BY <2>4 DEF ExternalFault, EnterFault, FlightInv
  <2>5. CASE \E k \in 0 .. pending : Dispatch(s, dt, k)
    BY <2>5, DispatchFlightInv
  <2>6. QED
    BY <2>1, <2>2, <2>3, <2>4, <2>5 DEF Tick
<1>2. CASE UNCHANGED vars
  BY <1>2 DEF FlightInv, FlashGuard, MayLeaveFan, FlashComplete, ActiveFlash, vars, ctlVars,
              bookVars, partVars
<1>3. ASSUME NEW n, Declare(n) PROVE FlightInv'
  BY <1>3 DEF Declare, FlightInv, FlashGuard, MayLeaveFan, FlashComplete, ActiveFlash,
              ctlVars, partVars
<1>4. ASSUME NEW c, NEW b, NEW seen, Resume(c, b, seen) PROVE FlightInv'
  BY <1>4 DEF Resume, FlightInv, FlashGuard
<1>5. ASSUME NEW c, NEW seen, RejectResume(c, seen) PROVE FlightInv'
  BY <1>5 DEF RejectResume, FlightInv, ctlVars
<1>6. QED
  BY <1>1, <1>2, <1>3, <1>4, <1>5 DEF Next

(***************************************************************************)
(* No coated part is ever carried off a fan station before its flash is     *)
(* complete, in any environment.                                            *)
(***************************************************************************)
THEOREM FlightsAreDry == Spec => []DryInFlight
<1>1. Init => FlightInv
  BY DEF Init, FlightInv
<1>2. FlightInv => DryInFlight
  BY DEF FlightInv, DryInFlight
<1>3. QED
  BY <1>1, <1>2, NextFlightInv, TypeCorrect, PTL DEF Spec
=============================================================================
