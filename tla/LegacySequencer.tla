-------------------------- MODULE LegacySequencer --------------------------
(***************************************************************************)
(* The legacy route: LegacySequencer.step and its phases, the loop thread   *)
(* of LegacyController with its state file, and the API thread's commands   *)
(* (process/legacy_sequencer.py, legacy_controller.py, legacy_train.py).    *)
(*                                                                         *)
(* The loop thread is the only one that drives belt and robot; it is        *)
(* stepped at the points where it blocks in a device (pc), so that API      *)
(* calls, a shutdown or a crash may fall into a sanding or a spray. A belt  *)
(* verb is one step with any result the driver can return: LegacyFeed       *)
(* models the verbs themselves. What is left out: product names and roles   *)
(* (descriptive only on this route), stage_note, and the distances.         *)
(***************************************************************************)
EXTENDS Schedule, FiniteSets

CONSTANTS
  MaxParts,      \* identities ever handed out, declared or minted
  FlashSeconds,  \* ProcessConfig.flash_seconds, in units of banked time
  IntakeModes,   \* the values of continuous_intake explored
  MaxTroubles    \* device failures, halts, shutdowns and crashes together

ASSUME LegacyAssumption ==
  /\ MaxParts \in Nat /\ FlashSeconds \in Nat \ {0} /\ MaxTroubles \in Nat
  /\ IntakeModes \subseteq BOOLEAN

Parts == 1 .. MaxParts

VARIABLES
  continuous,  \* continuous_intake
  switched,    \* the F1 fan is on a robot output (FanMode.controllable)
  parts,       \* the parts dict: a function on the known ids
  queue,       \* declared ids that have not entered
  used,        \* declared + minted: ids handed out so far
  occ,         \* believed occupant of each station
  entering,    \* _pending_enterer
  completed,   \* ids in the order they left
  beat, phase,
  owesClean,   \* _pending_clean
  f1On,        \* _f1_commanded
  watch,       \* the client's feed watch is live (feed_watch_active)
  coil,        \* the feed coil: Z1 runs
  pc,          \* where the loop thread is
  pausing,     \* local of _step_robot
  enabled, haltAsked, feedPaused, stopping, dirty,
  clearing,    \* the API thread is inside clear_line
  disk,        \* the state file; ok is FALSE once a write was cut short
  real,        \* what stands at the stations and the staging eye, and its beat
  restarted,   \* this is not the first process
  misled,      \* a picture was confirmed in a beat it does not belong to
  troubles

modeVars == <<continuous, switched>>
bookVars == <<parts, queue, used, occ, entering, completed>>
seqVars  == <<beat, phase, owesClean, f1On>>
feedVars == <<watch, coil>>
flagVars == <<enabled, haltAsked, feedPaused, stopping, clearing>>
diskVars == <<disk, restarted, misled>>
vars == <<modeVars, bookVars, seqVars, feedVars, pc, pausing, flagVars, dirty,
          diskVars, real, troubles>>

Known  == DOMAIN parts
OnLine == {occ[st] : st \in Tracked} \ {NoPart}
Empty  == [st \in Tracked |-> NoPart]
Raw    == [coats |-> 0, flash1 |-> 0, flash2 |-> 0, wet |-> FALSE]
Up     == pc \notin {"closed", "down"}
EntryBeat == beat \in {"P1", "P4"}

Trouble == troubles < MaxTroubles /\ troubles' = troubles + 1

-----------------------------------------------------------------------------
(***************************************************************************)
(* bank() and the flash gates.                                              *)
(***************************************************************************)
Capped(n) == IF n > FlashSeconds THEN FlashSeconds ELSE n

ActiveFlash(q) == IF q.coats <= 1 THEN q.flash1 ELSE q.flash2

Aired(q) == IF q.coats <= 1 THEN [q EXCEPT !.flash1 = Capped(@ + 1)]
                            ELSE [q EXCEPT !.flash2 = Capped(@ + 1)]

Flashed(q) == [Aired(q) EXCEPT !.wet = @ /\ ActiveFlash(Aired(q)) < FlashSeconds]

\* The fan at st as commanded; a fan that cannot be commanded always counts.
FanRuns(st, on) == st = "F1" /\ switched => on

Banked(on, dt) ==
  [p \in Known |->
     IF dt > 0 /\ parts[p].coats > 0
          /\ \E st \in FanStations : occ[st] = p /\ FanRuns(st, on)
     THEN Flashed(parts[p]) ELSE parts[p]]

\* bank() looks up whoever it believes at a fan station: a KeyError if unknown.
Dangling == \E st \in FanStations : occ[st] \notin Known \cup {NoPart}

\* _set_f1: only a switched fan is commanded.
SetF1(on) == f1On' = IF switched THEN on ELSE f1On

NeedsFlash(p) == p # NoPart /\ parts[p].coats > 0 /\ ActiveFlash(parts[p]) < FlashSeconds

DepartureBlocked_NoP3(offload) ==
  IF EntryBeat THEN occ["F2"] # NoPart /\ offload
  ELSE beat = "P2" /\ NeedsFlash(occ["F2"])

DepartureBlocked(offload) ==
  IF EntryBeat THEN occ["F2"] # NoPart /\ offload
  ELSE NeedsFlash(IF beat = "P2" THEN occ["F2"] ELSE occ["F1"])

-----------------------------------------------------------------------------
(***************************************************************************)
(* Ends of a step: done (the loop goes on to save), a fault with the belts  *)
(* idled, or an exception nobody catches, which ends the loop thread.       *)
(***************************************************************************)
Done(next) == pc' = "save" /\ phase' = next

GiveUp == Done("faulted") /\ dirty' = TRUE /\ watch' = FALSE /\ coil' = FALSE

Fault == Trouble /\ GiveUp

Die == Trouble /\ pc' = "dead"

\* feed_suspend and feed_resume: coil off, watch kept; on again if it still lives.
Suspend == coil' = (coil /\ ~watch) /\ UNCHANGED watch
Resume  == coil' = (coil \/ watch) /\ UNCHANGED watch

\* intake and stage leave Z1 either hunting for a follower or cut at the eye.
FeedLeft == watch' \in BOOLEAN /\ coil' = watch'

Mint(p) == parts' = [q \in Known \cup {p} |-> IF q = p THEN Raw ELSE parts[q]]

Enters_SameId(p) ==
  \/ /\ queue # << >> /\ p = Head(queue)
     /\ queue' = Tail(queue)
     /\ UNCHANGED <<parts, used>>
  \/ /\ queue = << >> /\ used < MaxParts /\ p = used + 1
     /\ Mint(p)
     /\ UNCHANGED <<queue, used>>

\* The identity of the part the sensors just delivered: declared ids first.
Enters(p) ==
  \/ /\ queue # << >> /\ p = Head(queue)
     /\ queue' = Tail(queue)
     /\ UNCHANGED <<parts, used>>
  \/ /\ queue = << >> /\ used < MaxParts /\ p = used + 1
     /\ used' = p /\ Mint(p)
     /\ UNCHANGED queue

\* A minted identity marks the state for saving; taking one off the queue does not.
EntryMarks == dirty' = (dirty \/ queue = << >>)

-----------------------------------------------------------------------------
(***************************************************************************)
(* The loop: one iteration is top, possibly step, then save.                *)
(***************************************************************************)
LoopExit ==
  /\ pc = "top" /\ stopping
  /\ pc' = "gone"
  /\ UNCHANGED <<modeVars, bookVars, seqVars, feedVars, pausing, flagVars, dirty,
                 diskVars, real, troubles>>

LoopHalt ==
  /\ pc = "top" /\ ~stopping /\ haltAsked
  /\ haltAsked' = FALSE /\ enabled' = FALSE /\ feedPaused' = FALSE
  /\ phase' = "faulted" /\ dirty' = TRUE
  /\ watch' = FALSE /\ coil' = FALSE
  /\ UNCHANGED <<modeVars, bookVars, beat, owesClean, f1On, pc, pausing, stopping,
                 clearing, diskVars, real, troubles>>

Runs == enabled /\ phase # "faulted"

\* The head of step(): resume a paused hunt, bank, one poll of the feed watch.
StepBegins(dt) ==
  /\ pc = "top" /\ ~stopping /\ ~haltAsked /\ Runs
  /\ feedPaused' = FALSE
  /\ parts' = Banked(f1On, dt)
  /\ UNCHANGED <<modeVars, queue, used, occ, entering, completed, beat, owesClean, f1On,
                 pausing, enabled, haltAsked, stopping, clearing, diskVars, real>>
  /\ \/ /\ watch => coil' = (coil \/ feedPaused)
        /\ ~watch => UNCHANGED coil
        /\ pc' = "step"
        /\ UNCHANGED <<watch, phase, dirty, troubles>>
     \/ /\ watch                                        \* the follower trips ONLOAD
        /\ watch' = FALSE /\ coil' = FALSE /\ pc' = "step"
        /\ UNCHANGED <<phase, dirty, troubles>>
     \/ /\ watch /\ feedPaused /\ Trouble               \* the resume fails, unseen
        /\ pc' = "step"
        /\ UNCHANGED <<feedVars, phase, dirty>>
     \/ watch /\ Fault                                  \* the poll fails

PauseEdge_Once ==
  IF feedPaused THEN UNCHANGED <<coil, feedPaused, troubles>>
  ELSE /\ feedPaused' = watch
       /\ \/ coil' = (coil /\ ~watch) /\ UNCHANGED troubles
          \/ watch /\ Trouble /\ UNCHANGED coil

\* A hunt is suspended once; if that fails, unseen, the next pass tries again.
PauseEdge ==
  IF feedPaused THEN UNCHANGED <<coil, feedPaused, troubles>>
  ELSE \/ coil' = (coil /\ ~watch) /\ feedPaused' = watch /\ UNCHANGED troubles
       \/ watch /\ Trouble /\ UNCHANGED <<coil, feedPaused>>

LoopWaits(dt) ==
  /\ pc = "top" /\ ~stopping /\ ~haltAsked /\ ~Runs
  /\ PauseEdge
  /\ IF Dangling THEN pc' = "dead" /\ UNCHANGED parts
                 ELSE parts' = Banked(f1On, dt) /\ pc' = "save"
  /\ UNCHANGED <<modeVars, queue, used, occ, entering, completed, beat, phase, owesClean, f1On, watch, pausing,
                 enabled, haltAsked, stopping, clearing, dirty, diskVars, real>>

Snapshot == [ok |-> TRUE, parts |-> parts, queue |-> queue, used |-> used, occ |-> occ,
             completed |-> completed, beat |-> beat]

\* Saved when something changed, and every few seconds in any case.
LoopSaves ==
  /\ pc = "save"
  /\ pc' = "top" /\ dirty' = FALSE
  /\ dirty => disk' = Snapshot
  /\ ~dirty => disk' \in {disk, Snapshot}
  /\ UNCHANGED <<modeVars, bookVars, seqVars, feedVars, pausing, flagVars, restarted,
                 misled, real, troubles>>

-----------------------------------------------------------------------------
(***************************************************************************)
(* _step_idle: wait, intake, or the first entry.                            *)
(***************************************************************************)
At(ph) == pc = "step" /\ phase = ph

IdleWaits ==
  /\ At("idle")
  /\ OnLine = {} => queue = << >> /\ ~continuous
  /\ Done("idle")
  /\ UNCHANGED <<modeVars, bookVars, beat, owesClean, f1On, feedVars, pausing, flagVars,
                 dirty, diskVars, real, troubles>>

\* No part at the staging eye yet: Z1 goes on hunting.
IntakeWaits ==
  /\ At("idle") /\ OnLine = {} /\ continuous
  /\ FeedLeft /\ Done("idle")
  /\ UNCHANGED <<modeVars, bookVars, beat, owesClean, f1On, pausing, flagVars, dirty,
                 diskVars, real, troubles>>

\* A part that a crash left at O, unsaved and bare, trips the eye in the place of the
\* one that rides in: it takes the identity.
FirstEntry ==
  /\ At("idle") /\ OnLine = {} /\ (continuous \/ queue # << >>)
  /\ \E p \in Parts :
       /\ Enters(p)
       /\ occ' = [occ EXCEPT !["O"] = p]
       /\ real' = [occ |-> occ', staged |-> NoPart, beat |-> "P1"]
  /\ beat' = "P1"
  /\ FeedLeft
  /\ UNCHANGED <<modeVars, entering, completed, owesClean, f1On, pausing, flagVars, diskVars>>
  /\ \/ Done("robot") /\ dirty' = TRUE /\ UNCHANGED troubles
     \/ Die /\ phase' = "robot" /\ EntryMarks   \* the sensor read after the entry fails

\* A batch that is not there, a belt error, or an entry that never arrives.
IntakeFails ==
  /\ At("idle") /\ OnLine = {} /\ (continuous \/ queue # << >>)
  /\ Fault
  /\ UNCHANGED <<modeVars, bookVars, beat, owesClean, f1On, pausing, flagVars, diskVars, real>>

-----------------------------------------------------------------------------
(***************************************************************************)
(* _step_robot: sand, spray, safe pose, and only then the coat is recorded. *)
(***************************************************************************)
WorkDue == occ["O"] # NoPart /\ parts[occ["O"]].coats < WorkCoat(beat)

RobotSkips ==
  /\ At("robot") /\ ~WorkDue
  /\ Done("flash")
  /\ UNCHANGED <<modeVars, bookVars, beat, owesClean, f1On, feedVars, pausing, flagVars,
                 dirty, diskVars, real, troubles>>

RobotStarts ==
  /\ At("robot") /\ WorkDue
  /\ UNCHANGED <<modeVars, bookVars, seqVars, pausing, flagVars, dirty, diskVars, real>>
  /\ \/ Suspend /\ pc' = "sand" /\ UNCHANGED troubles
     \/ watch /\ Die /\ UNCHANGED feedVars

\* Sanding done. The fan is off before the span up to here is banked.
Sanded(dt) ==
  /\ pc = "sand"
  /\ LET wetF1 == occ["F1"] # NoPart /\ parts[occ["F1"]].wet IN
       /\ pausing' = (wetF1 /\ switched)
       /\ IF wetF1 THEN SetF1(FALSE) ELSE UNCHANGED f1On
  /\ parts' = Banked(f1On', dt)
  /\ pc' = "spray"
  /\ UNCHANGED <<modeVars, queue, used, occ, entering, completed, beat, phase, owesClean,
                 feedVars, flagVars, dirty, diskVars, real, troubles>>

Sprayed_StaysOff(dt) ==
  /\ pc = "spray"
  /\ parts' = Banked(f1On, dt)
  /\ pc' = "safe"
  /\ UNCHANGED <<modeVars, queue, used, occ, entering, completed, beat, phase, owesClean,
                 f1On, feedVars, pausing, flagVars, dirty, diskVars, real, troubles>>

Sprayed(dt) ==
  /\ pc = "spray"
  /\ parts' = Banked(f1On, dt)
  /\ IF pausing THEN SetF1(TRUE) ELSE UNCHANGED f1On
  /\ pc' = "safe"
  /\ UNCHANGED <<modeVars, queue, used, occ, entering, completed, beat, phase, owesClean,
                 feedVars, pausing, flagVars, dirty, diskVars, real, troubles>>

Coated == [parts EXCEPT ![occ["O"]].coats = WorkCoat(beat), ![occ["O"]].wet = TRUE]

Retracted ==
  /\ pc = "safe"
  /\ owesClean' = (WorkCoat(beat) = 2)
  /\ UNCHANGED <<modeVars, queue, used, occ, entering, completed, beat, f1On, pausing,
                 flagVars, diskVars, real>>
  /\ \/ Resume /\ parts' = Coated /\ Done("flash") /\ dirty' = TRUE /\ UNCHANGED troubles
     \/ watch /\ Die /\ UNCHANGED <<parts, feedVars, phase, dirty>>

\* Any of the three composites fails, and a paused fan stays off; or the switch of the
\* fan fails, whose command is noted before it is given.
RobotFails ==
  /\ pc \in {"sand", "spray", "safe"}
  /\ Fault
  /\ \/ UNCHANGED f1On
     \/ pc = "sand" /\ occ["F1"] # NoPart /\ parts[occ["F1"]].wet /\ SetF1(FALSE)
     \/ pc = "spray" /\ pausing /\ SetF1(TRUE)
  /\ UNCHANGED <<modeVars, bookVars, beat, owesClean, pausing, flagVars, diskVars, real>>

-----------------------------------------------------------------------------
(***************************************************************************)
(* _step_flash: the gun clean the beat owes, then the departure gate.       *)
(***************************************************************************)
CleanStarts ==
  /\ At("flash") /\ owesClean
  /\ owesClean' = FALSE
  /\ UNCHANGED <<modeVars, bookVars, beat, phase, f1On, pausing, flagVars, dirty, diskVars, real>>
  /\ \/ Suspend /\ pc' = "clean" /\ UNCHANGED troubles
     \/ watch /\ Die /\ UNCHANGED feedVars

Cleaned ==
  /\ pc = "clean"
  /\ UNCHANGED <<modeVars, bookVars, beat, owesClean, f1On, pausing, flagVars, diskVars, real>>
  /\ \/ Resume /\ pc' = "step" /\ UNCHANGED <<phase, dirty, troubles>>
     \/ watch /\ Die /\ UNCHANGED <<feedVars, phase, dirty>>
     \/ Fault

Departs == IF EntryBeat /\ (queue # << >> \/ continuous) THEN "stage" ELSE "transition"

Gate(offload) ==
  /\ At("flash") /\ ~owesClean
  /\ UNCHANGED <<modeVars, bookVars, beat, owesClean, f1On, feedVars, pausing, flagVars,
                 dirty, diskVars, real>>
  /\ \/ Done(IF DepartureBlocked(offload) THEN "flash" ELSE Departs) /\ UNCHANGED troubles
     \/ Die /\ UNCHANGED phase              \* the sensor read fails: nothing catches it

-----------------------------------------------------------------------------
(***************************************************************************)
(* _step_stage: skip the entry, or stage the next part.                     *)
(***************************************************************************)
EntrySkipped ==
  /\ At("stage") /\ continuous
  /\ entering' = NoPart
  /\ Done("transition")
  /\ UNCHANGED feedVars \/ FeedLeft         \* junction dark, or nothing staged
  /\ UNCHANGED <<modeVars, parts, queue, used, occ, completed, beat, owesClean, f1On,
                 pausing, flagVars, dirty, diskVars, real, troubles>>

Staged ==
  /\ At("stage")
  /\ \E p \in Parts : Enters(p) /\ entering' = p
  /\ Done("transition") /\ EntryMarks
  /\ FeedLeft
  /\ real' = [real EXCEPT !.staged = entering']
  /\ UNCHANGED <<modeVars, occ, completed, beat, owesClean, f1On, pausing, flagVars,
                 diskVars, troubles>>

StageFails ==
  /\ At("stage")
  /\ Fault
  /\ UNCHANGED <<modeVars, bookVars, beat, owesClean, f1On, pausing, flagVars, diskVars, real>>

-----------------------------------------------------------------------------
(***************************************************************************)
(* _step_transition: one belt move, then the books, then the next beat.     *)
(***************************************************************************)
Shifted_KeepsF2(e) ==
  [F1 |-> NoPart, F2 |-> IF occ["O"] # NoPart THEN occ["O"] ELSE occ["F2"],
   O |-> IF e # NoPart THEN e ELSE occ["F1"]]

\* _shift_downstream; an enterer takes O.
Shifted(e) == [F1 |-> NoPart, F2 |-> occ["O"], O |-> IF e # NoPart THEN e ELSE occ["F1"]]

Retreated == [F1 |-> IF occ["O"] # NoPart THEN occ["O"] ELSE occ["F1"],
              O  |-> occ["F2"], F2 |-> NoPart]

\* A part at F1 returns to O; without one the line is shifted blind.
Returned == Shifted(NoPart)

BeltMoves == IF EntryBeat THEN entering # NoPart \/ OnLine # {}
             ELSE IF beat = "P2" THEN occ["F2"] # NoPart ELSE OnLine # {}

\* The two occupancies the code calls impossible: it faults before it moves.
Impossible ==
  /\ occ["F1"] # NoPart
  /\ (EntryBeat /\ entering # NoPart) \/ (beat = "P3" /\ occ["F2"] # NoPart)

\* The picture after the move, if e rides in from the staging eye.
Picture(e) == IF ~BeltMoves THEN occ
              ELSE IF EntryBeat THEN Shifted(e)
              ELSE IF beat = "P2" THEN Retreated ELSE Returned

Advanced == [occ |-> Picture(real.staged), staged |-> NoPart, beat |-> NextBeat(beat)]

\* An entry with nobody at the staging eye cannot trip the work-zero eye.
NobodyStaged == EntryBeat /\ entering # NoPart /\ real.staged # entering

Ships == BeltMoves /\ occ["F2"] # NoPart
         /\ (EntryBeat \/ (beat = "P3" /\ occ["F1"] = NoPart))

Moves ==
  /\ occ' = Picture(entering)
  /\ real' = Advanced
  /\ completed' = IF Ships THEN Append(completed, occ["F2"]) ELSE completed
  /\ entering' = IF EntryBeat THEN NoPart ELSE entering

FanWanted == LET p == occ'["F1"] IN p # NoPart /\ parts[p].wet

\* A verb inherits a live hunt: the follower may trip ONLOAD while it runs.
FeedInherited == UNCHANGED feedVars \/ (watch /\ watch' = FALSE /\ coil' = FALSE)

Transition ==
  /\ At("transition") /\ ~Impossible /\ ~NobodyStaged
  /\ Moves
  /\ FeedInherited
  /\ UNCHANGED <<modeVars, parts, queue, used, owesClean, pausing, flagVars, diskVars>>
  /\ \/ /\ beat' = NextBeat(beat)
        /\ SetF1(FanWanted)
        /\ Done(IF occ' = Empty /\ queue = << >> THEN "idle" ELSE "robot")
        /\ dirty' = TRUE
        /\ UNCHANGED troubles
     \/ Die /\ UNCHANGED <<beat, phase, f1On, dirty>>   \* the sensor read after the move
     \/ /\ Die /\ switched /\ f1On # FanWanted          \* the switch of the fan
        /\ beat' = NextBeat(beat)
        /\ SetF1(FanWanted)
        /\ UNCHANGED <<phase, dirty>>

\* The belt stops short, or the parts arrived and only the answer was lost.
TransitionFails ==
  /\ At("transition") /\ (BeltMoves \/ Impossible)
  /\ IF NobodyStaged \/ Impossible THEN GiveUp /\ UNCHANGED troubles ELSE Fault
  /\ real' \in {real} \cup (IF Impossible THEN {} ELSE {Advanced})
  /\ UNCHANGED <<modeVars, bookVars, beat, owesClean, f1On, pausing, flagVars, diskVars>>

-----------------------------------------------------------------------------
(***************************************************************************)
(* The API thread. A new id in the parts dict while the loop walks it for   *)
(* the state file ends the loop thread: "dictionary changed size".          *)
(***************************************************************************)
Resized == \/ UNCHANGED <<pc, troubles>>
           \/ pc = "save" /\ Die

Declare ==
  /\ Up /\ used < MaxParts
  /\ used' = used + 1
  /\ Mint(used + 1)
  /\ queue' = Append(queue, used + 1)
  /\ dirty' = TRUE
  /\ Resized
  /\ UNCHANGED <<modeVars, occ, entering, completed, seqVars, feedVars, pausing, flagVars,
                 diskVars, real>>

SetRunning(on) ==
  /\ Up /\ enabled # on
  /\ enabled' = on
  /\ UNCHANGED <<modeVars, bookVars, seqVars, feedVars, pc, pausing, haltAsked, feedPaused,
                 stopping, clearing, dirty, diskVars, real, troubles>>

Halt ==
  /\ Up /\ ~haltAsked /\ Trouble
  /\ haltAsked' = TRUE
  /\ UNCHANGED <<modeVars, bookVars, seqVars, feedVars, pc, pausing, enabled, feedPaused,
                 stopping, clearing, dirty, diskVars, real>>

\* ack_fault with a picture: what stands there. Of a part the restored books still have
\* in the queue, the operator clears the line.
Confirmable == /\ real.occ # Empty
               /\ \A st \in Tracked : real.occ[st] # NoPart =>
                    /\ real.occ[st] \in Known
                    /\ \A i \in 1 .. Len(queue) : queue[i] # real.occ[st]

Resumes_NextBeat(b) == beat' = NextBeat(b) /\ misled' = (misled \/ b # real.beat)

\* In beat b, which may not be the one the picture belongs to.
Resumes(b) == beat' = b /\ misled' = (misled \/ b # real.beat)

\* The beat is the one given, or, as the HMI sends none, the one the books were in.
Confirm ==
  /\ Up /\ phase = "faulted" /\ ~clearing /\ Confirmable
  /\ occ' = real.occ
  /\ \E b \in {beat, real.beat} : Resumes(b)
  /\ phase' = "robot" /\ dirty' = TRUE
  /\ real' = [real EXCEPT !.staged = NoPart]  \* taken back to the queue by hand
  /\ UNCHANGED <<modeVars, parts, queue, used, entering, completed, owesClean, f1On, feedVars,
                 pc, pausing, flagVars, disk, restarted, troubles>>

\* ack_fault without one: clear_line drops the parts, then the occupancy.
ClearParts ==
  /\ Up /\ phase = "faulted" /\ ~clearing
  /\ clearing' = TRUE
  /\ real' = [real EXCEPT !.occ = Empty, !.staged = NoPart]   \* emptied by hand
  /\ parts' = [p \in Known \ OnLine |-> parts[p]]
  /\ Resized
  /\ UNCHANGED <<modeVars, queue, used, occ, entering, completed, seqVars, feedVars, pausing,
                 enabled, haltAsked, feedPaused, stopping, dirty, diskVars>>

ClearLine ==
  /\ Up /\ clearing
  /\ clearing' = FALSE
  /\ occ' = Empty /\ phase' = "idle" /\ dirty' = TRUE
  /\ UNCHANGED <<modeVars, parts, queue, used, entering, completed, beat, owesClean, f1On,
                 feedVars, pc, pausing, enabled, haltAsked, feedPaused, stopping, diskVars,
                 real, troubles>>

-----------------------------------------------------------------------------
(***************************************************************************)
(* Shutdown, crash and restart.                                             *)
(***************************************************************************)
\* Where a move that was cut short left the parts.
Cut == IF At("transition") /\ BeltMoves /\ ~Impossible THEN {real, Advanced} ELSE {real}

\* close(): stop flag and belts off, first without waiting for the loop thread.
CloseBegins ==
  /\ Up /\ ~stopping
  /\ Trouble \/ (pc = "dead" /\ UNCHANGED troubles)
  /\ stopping' = TRUE
  /\ watch' = FALSE /\ coil' = FALSE
  /\ UNCHANGED <<modeVars, bookVars, seqVars, pc, pausing, enabled, haltAsked, feedPaused,
                 clearing, dirty, diskVars, real>>

CloseEnds_OneStop ==
  /\ stopping /\ pc \in {"gone", "dead", "step", "sand", "spray", "safe", "clean"} /\ ~clearing
  /\ real' \in Cut
  /\ pc' = "closed"
  /\ disk' = Snapshot
  /\ UNCHANGED <<modeVars, bookVars, seqVars, feedVars, pausing, flagVars, dirty, restarted,
                 misled, troubles>>

\* The loop thread has ended (or, after 10 s, has not): belts off again, and save.
CloseEnds ==
  /\ stopping /\ pc \in {"gone", "dead", "step", "sand", "spray", "safe", "clean"} /\ ~clearing
  /\ real' \in Cut
  /\ pc' = "closed"
  /\ watch' = FALSE /\ coil' = FALSE
  /\ disk' = Snapshot
  /\ UNCHANGED <<modeVars, bookVars, seqVars, pausing, flagVars, dirty, restarted, misled, troubles>>

\* A crash inside the write leaves half a file; one inside a move, either picture.
Crash ==
  /\ Up /\ Trouble
  /\ pc' = "down"
  /\ disk' \in {disk} \cup (IF pc = "save" THEN {[disk EXCEPT !.ok = FALSE]} ELSE {})
  /\ real' \in Cut
  /\ UNCHANGED <<modeVars, bookVars, seqVars, feedVars, pausing, flagVars, dirty, restarted,
                 misled>>

\* LegacyController.__init__: restore, come up faulted if anyone was on the line.
Restart ==
  /\ ~Up /\ disk.ok
  /\ pc' = "top" /\ restarted' = TRUE
  /\ parts' = disk.parts /\ queue' = disk.queue /\ used' = disk.used
  /\ occ' = disk.occ /\ completed' = disk.completed /\ entering' = NoPart
  /\ beat' = disk.beat
  /\ phase' = IF disk.occ = Empty THEN "idle" ELSE "faulted"
  /\ owesClean' = FALSE /\ pausing' = FALSE
  /\ f1On' = ~switched
  /\ watch' = FALSE /\ coil' = FALSE
  /\ enabled' = FALSE /\ haltAsked' = FALSE /\ feedPaused' = FALSE
  /\ stopping' = FALSE /\ clearing' = FALSE /\ dirty' = FALSE
  /\ UNCHANGED <<modeVars, disk, real, misled, troubles>>

\* Half a file does not parse: every start raises.
RestartRaises ==
  /\ ~Up /\ ~disk.ok
  /\ UNCHANGED vars

-----------------------------------------------------------------------------
Init ==
  /\ continuous \in IntakeModes /\ switched \in BOOLEAN
  /\ parts = [p \in {} |-> Raw] /\ queue = << >> /\ used = 0
  /\ occ = Empty /\ entering = NoPart /\ completed = << >>
  /\ beat = "P1" /\ phase = "idle" /\ owesClean = FALSE /\ f1On = ~switched
  /\ watch = FALSE /\ coil = FALSE
  /\ pc = "top" /\ pausing = FALSE
  /\ enabled = FALSE /\ haltAsked = FALSE /\ feedPaused = FALSE /\ stopping = FALSE
  /\ dirty = FALSE /\ clearing = FALSE
  /\ disk = Snapshot /\ restarted = FALSE /\ misled = FALSE
  /\ real = [occ |-> Empty, staged |-> NoPart, beat |-> "P1"]
  /\ troubles = 0

\* The loop thread.
Loop ==
  \/ LoopExit \/ LoopHalt \/ LoopSaves
  \/ \E dt \in 0 .. 1 : StepBegins(dt) \/ LoopWaits(dt) \/ Sanded(dt) \/ Sprayed(dt)
  \/ IdleWaits \/ IntakeWaits \/ FirstEntry \/ IntakeFails
  \/ RobotSkips \/ RobotStarts \/ Retracted \/ RobotFails
  \/ CleanStarts \/ Cleaned \/ \E offload \in BOOLEAN : Gate(offload)
  \/ EntrySkipped \/ Staged \/ StageFails
  \/ Transition \/ TransitionFails

Operator ==
  \/ Declare \/ Halt \/ Confirm \/ ClearParts \/ ClearLine
  \/ \E on \in BOOLEAN : SetRunning(on)

Process == CloseBegins \/ CloseEnds \/ Crash \/ Restart \/ RestartRaises

Next == Loop \/ Operator \/ Process

(***************************************************************************)
(* The loop thread runs; time passes and finished parts are taken off the   *)
(* outfeed again and again; whoever faults the line or ends its process     *)
(* acknowledges, or starts it again.                                        *)
(***************************************************************************)
Fairness ==
  /\ WF_vars(Loop)
  /\ SF_vars(StepBegins(1)) /\ SF_vars(Gate(FALSE) /\ pc' = "save")
  /\ SF_vars(Confirm) /\ SF_vars(ClearParts)
  /\ WF_vars(ClearLine)
  /\ WF_vars(CloseBegins /\ pc = "dead") /\ WF_vars(CloseEnds) /\ WF_vars(Restart)

Spec == Init /\ [][Next]_vars
FairSpec == Spec /\ Fairness

-----------------------------------------------------------------------------
Pictures == [Tracked -> Parts \cup {NoPart}]
Records  == [coats : 0 .. 2, flash1 : 0 .. FlashSeconds, flash2 : 0 .. FlashSeconds,
             wet : BOOLEAN]

LegacyTypeOK ==
  /\ Known \subseteq 1 .. used /\ \A p \in Known : parts[p] \in Records
  /\ used \in 0 .. MaxParts
  /\ occ \in Pictures /\ real \in [occ : Pictures, staged : Parts \cup {NoPart}, beat : Beats]
  /\ entering \in Parts \cup {NoPart}
  /\ \A s \in {queue, completed} : s \in Seq(Parts) /\ Len(s) <= MaxParts
  /\ beat \in Beats
  /\ phase \in {"idle", "robot", "flash", "stage", "transition", "faulted"}
  /\ pc \in {"top", "step", "sand", "spray", "safe", "clean", "save", "gone", "dead",
             "closed", "down"}
  /\ {continuous, switched, owesClean, f1On, watch, coil, pausing, enabled, haltAsked,
      feedPaused, stopping, dirty, clearing, restarted, misled, disk.ok} \subseteq BOOLEAN
  /\ troubles \in 0 .. MaxTroubles

(***************************************************************************)
(* As long as every confirmed picture went with its beat, a part is booked  *)
(* as completed only with both coats on it, whatever holes the intake       *)
(* leaves, and after any fault, crash or restart (legacy_sequencer.py:237,  *)
(* "roles are descriptive": only coat idempotence and the beat count). Not  *)
(* once a picture was confirmed in a beat that is no longer its own, which  *)
(* is what the HMI does after a move whose answer was lost: README.         *)
(***************************************************************************)
OnlyFinishedComplete ==
  ~misled => \A i \in 1 .. Len(completed) :
               completed[i] \in Known => parts[completed[i]].coats = 2

\* Parts are completed in the order they entered: none passes another or is booked twice.
CompletedInOrder ==
  \A i, j \in 1 .. Len(completed) : i < j => completed[i] < completed[j]

(***************************************************************************)
(* Z1 runs only under a live watch, and never in a composite, a fault or    *)
(* after close (feed_suspend, feed_resume, _fault, close); and every pass   *)
(* of a paused loop leaves it stopped, unless the suspension failed in that *)
(* very pass (_loop). A loop thread that dies leaves Z1 as it was.          *)
(***************************************************************************)
FeedIsWatched ==
  /\ [](coil => /\ watch
                /\ pc \notin {"sand", "spray", "safe", "clean", "closed"}
                /\ phase # "faulted" /\ ~feedPaused)
  /\ [][pc = "top" /\ ~Runs /\ pc' \in {"save", "dead"} => ~coil' \/ troubles' # troubles]_vars

(***************************************************************************)
(* The P2 and P3 gates hold over the whole transition: a part comes back    *)
(* from a fan station to O only with its flash complete. The gate ran one   *)
(* step before the belt.                                                    *)
(***************************************************************************)
FlashedBeforeReturn ==
  [][\A st \in FanStations :
       At("transition") /\ occ[st] # NoPart /\ occ'["O"] = occ[st]
         => ~NeedsFlash(occ[st])]_vars

(***************************************************************************)
(* Coat 2 goes only onto a complete flash 1 (docs/legacy-mod-choreography:  *)
(* flash-1 is what limits the schedule).                                    *)
(***************************************************************************)
CoatTwoOnDryCoatOne ==
  \A p \in Known : parts[p].coats = 2 => parts[p].flash1 = FlashSeconds

(***************************************************************************)
(* Once the operator leaves the line running, a part that entered leaves    *)
(* the line, or is taken off it while it is faulted. Not                    *)
(* promised once the state file is torn, nor for a switched F1 fan after a  *)
(* restart: the new process takes the fan for off and banks nothing at F1.  *)
(***************************************************************************)
EntrantsLeave ==
  <>[]enabled =>
    \A p \in Parts : p \in OnLine ~> (p \notin OnLine \/ ~disk.ok \/ (restarted /\ switched))
=============================================================================
