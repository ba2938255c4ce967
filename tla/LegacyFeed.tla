----------------------------- MODULE LegacyFeed -----------------------------
(***************************************************************************)
(* The belt verbs of the legacy route: a polling driver over a firmware     *)
(* that only knows capped moves, a feed coil and four eyes                  *)
(* (devices/legacy_clearcore.py, process/legacy_train.py, the firmware in   *)
(* firmware/legacy_queue_eye and its twin sim/fake_legacy_clearcore.py).    *)
(*                                                                         *)
(* Cubes stand on a line: the queue belt Z1 ends at the junction (0), the   *)
(* main belt Z2 begins there and carries everybody who is aboard. The       *)
(* driver sees an eye only when it polls; a belt moves at most one unit     *)
(* between two polls. The caller is the beat order of LegacySequencer,      *)
(* which has the rest of that module's behaviour.                           *)
(***************************************************************************)
EXTENDS Schedule, Sequences, FiniteSets

CONSTANTS
  MaxCubes,     \* cubes put on the queue belt, in order
  Width,        \* length of a cube
  StagingEye,   \* where the nose of a staged cube trips STAGING
  WorkZero,     \* where the nose of a cube at O trips WORK_AT_ZERO
  Gap,          \* least gap between two cubes on Z1
  IdMax,        \* request ids are 1 .. IdMax (65000 in the driver)
  MaxTroubles   \* failing calls, halts and deaths of the loop or the process

\* Geometry (docs/legacy-mod-choreography.md: "Eye placement rule"). Cubes at neighbouring
\* stations leave a gap: the eye at O must go dark between one and the next. A nudge, which
\* covers the crossing at most, is shorter than the spacing a shuffle makes up for it with.
ASSUME FeedAssumption ==
  /\ {MaxCubes, Width, StagingEye, WorkZero, Gap, MaxTroubles} \subseteq Nat \ {0}
  /\ IdMax \in Nat /\ IdMax >= 2
  /\ StagingEye > Width + 1 /\ StagingEye < 2 * Width
  /\ WorkZero - StagingEye > StagingEye

Cubes   == 1 .. MaxCubes
Spacing == WorkZero - StagingEye
Away    == -2                        \* not on a belt yet
Gone    == WorkZero + 2 * Spacing    \* off the end of the line

VARIABLES
  nose,     \* where the downstream edge of each cube is
  coil,     \* FEED_CONVEYOR: Z1 runs
  run,      \* what is left of Z2's move; 0 is SERVER_STATE READY
  lastId,   \* the firmware's oldRequestId, echoed to the client
  reqId,    \* the client's _request_id
  watch,    \* _feed_phases: ONLOAD edges still to come in a kept watch
  pc,       \* where the driver is; "free" between two verbs
  verb,
  wz, chain,  \* wz_phases and the verb's own feed phases
  arrived,
  seen,     \* the eyes were polled since the belts last moved
  turn, beat, occ,   \* the caller's: next thing to do, beat, occupancy
  next,     \* the next cube to enter
  staged,   \* it is the pending enterer
  slide,    \* _probe_slide_mm: what a nudge in vain has moved Z2
  astray,   \* history: somebody crossed a junction that nothing watched
  troubles

plantVars  == <<nose, coil, run>>
idVars     == <<lastId, reqId>>
verbVars   == <<verb, wz, chain, arrived>>
callerVars == <<turn, beat, occ, next, staged, slide>>
history    == <<astray, troubles>>
vars == <<plantVars, idVars, watch, pc, verbVars, seen, callerVars, history>>

EntryBeat == beat \in {"P1", "P4"}
Empty     == [st \in Tracked |-> NoPart]

-----------------------------------------------------------------------------
(***************************************************************************)
(* The plant.                                                               *)
(***************************************************************************)
Eye(e) == \E c \in Cubes : nose[c] \in e .. e + Width - 1

Onload     == Eye(0)
Staging    == Eye(StagingEye)
WorkAtZero == Eye(WorkZero)

Sign(n) == IF n > 0 THEN 1 ELSE IF n < 0 THEN -1 ELSE 0

\* Z2 takes along whoever is aboard; a nose parked at the eye stays. Z1 pushes
\* a cube off its end; the last of its crossing may stall (push is FALSE).
Moved(c, push) ==
  LET n  == nose[c]
      Z1 == coil /\ (n <= Width \/ (push /\ c >= next /\ n < StagingEye))
  IN IF n \in {Away, Gone} THEN n
     ELSE IF run # 0 /\ n >= 1 THEN n + Sign(run)
     ELSE IF Z1 THEN n + 1 ELSE n

Tick ==
  /\ coil \/ run # 0
  /\ seen \/ pc \in {"blind", "lapse", "down"}
  /\ \E push \in BOOLEAN : nose' = [c \in Cubes |-> Moved(c, push)]
  /\ run' = run - Sign(run)
  /\ seen' = FALSE
  /\ UNCHANGED <<coil, idVars, watch, pc, verbVars, callerVars, history>>

\* The next cube is put on Z1, a gap behind the one before it.
Place(c) ==
  /\ nose[c] = Away /\ ~astray                          \* a bound: nobody once one is astray
  /\ c > 1 => nose[c - 1] >= Width + Gap - 1
  /\ nose' = [nose EXCEPT ![c] = -1]
  /\ UNCHANGED <<coil, run, idVars, watch, pc, verbVars, seen, callerVars, history>>

\* Somebody lifts the cube being staged off the junction; a poll comes before the next one.
TakeOff(c) ==
  /\ pc = "feed" /\ c = next /\ nose[c] \in 0 .. Width
  /\ nose' = [nose EXCEPT ![c] = Gone]
  /\ next' = next + 1 /\ seen' = FALSE
  /\ UNCHANGED <<coil, run, idVars, watch, pc, verbVars, turn, beat, occ, staged, slide, history>>

-----------------------------------------------------------------------------
(***************************************************************************)
(* The driver's primitives.                                                 *)
(***************************************************************************)
\* One poll of a chain of edges: it moves on when the level fits its head.
Advance(phases, level) ==
  IF phases # << >> /\ (Head(phases) = "hi") = level THEN Tail(phases) ELSE phases

\* HI -> LO -> HI on ONLOAD; LO -> HI if the part is on the eye already.
JunctionChain == IF Onload THEN <<"lo", "hi">> ELSE <<"hi", "lo", "hi">>

NextId_NoWrap == reqId + 1

\* Whoever is past the eye as a chain is set up has no edge left to give: the follower's
\* are taken for its own. A capped intake is re-fired wherever its cube is by then.
PastEye == \E c \in Cubes : nose[c] \in Width .. StagingEye

\* 1 .. IdMax, round and round: 0 would be the firmware's power-up value.
NextId == (reqId % IdMax) + 1

\* _start_move and the firmware: a distance move fires on a CHANGE of the id. The
\* belt starts from rest: the first poll comes before it has covered a unit.
StartMove(len) ==
  /\ seen' = FALSE
  /\ reqId' = NextId /\ lastId' = NextId
  /\ run' = IF NextId # lastId THEN len ELSE 0

FeedPoll_NoCut == watch' = Advance(watch, Onload) /\ UNCHANGED coil

\* feed_tick: one poll of the kept watch; its last edge cuts Z1.
FeedPoll ==
  /\ watch' = Advance(watch, Onload)
  /\ coil' = (coil /\ (watch # << >> => watch' # << >>))

\* The poll of a verb's own chain, in the verbs that feed.
ChainPoll ==
  /\ chain' = Advance(chain, Onload)
  /\ coil' = (coil /\ (chain # << >> => chain' # << >>))

Caps == [intake |-> StagingEye + 3, entry |-> 2 * Spacing - 1, return |-> 2 * Spacing - 1,
         retreat |-> 1 - 2 * Spacing, blind |-> Spacing, nudge |-> StagingEye, back |-> Width]

Reach_FullShuffle == Caps[verb]

\* The shuffle of a skipped entry makes up for a nudge in vain.
Reach == Caps[verb] - (IF verb = "blind" /\ EntryBeat THEN slide ELSE 0)

WorkZeroChain_NoDeparture(v) == IF v = "retreat" THEN <<"hi", "lo", "hi">> ELSE <<"hi">>

\* The edges on WORK_AT_ZERO: an occupant leaves first, then the arrival.
WorkZeroChain(v) ==
  IF v \notin {"entry", "return", "retreat"} THEN << >>
  ELSE (IF occ["O"] # NoPart THEN <<"hi", "lo">> ELSE << >>)
       \o (IF v = "retreat" THEN <<"hi", "lo">> ELSE <<"hi">>)

-----------------------------------------------------------------------------
(***************************************************************************)
(* transition_move: arm, sample ONLOAD if the verb feeds, poll to READY.    *)
(***************************************************************************)
Arm ==
  /\ pc = "arm"
  /\ StartMove(Reach)
  /\ wz' = WorkZeroChain(verb) /\ arrived' = FALSE
  /\ pc' = CASE verb = "intake" -> "sample" [] verb = "blind" -> "blind" [] OTHER -> "poll"
  /\ UNCHANGED <<nose, coil, watch, verb, chain, callerVars, history>>

Sample ==
  /\ pc = "sample"
  /\ chain' = JunctionChain
  /\ arrived' = FALSE
  /\ pc' = IF verb = "stage" THEN "feed" ELSE "poll"
  /\ seen' = TRUE
  /\ astray' = (astray \/ (verb = "intake" /\ PastEye))
  /\ UNCHANGED <<plantVars, idVars, watch, verb, wz, callerVars, troubles>>

Poll_WaitsForArrival ==
  /\ pc = "poll"
  /\ wz' = Advance(wz, WorkAtZero)
  /\ LET hit == IF verb = "intake" THEN Staging ELSE wz # << >> /\ wz' = << >>
     IN arrived' = (arrived \/ hit) /\ run' = IF hit THEN 0 ELSE run
  /\ IF verb = "intake" THEN ChainPoll /\ UNCHANGED watch ELSE FeedPoll /\ UNCHANGED chain
  /\ pc' = IF ~arrived' THEN "poll"
           ELSE IF verb = "retreat" /\ arrived' THEN "turn" ELSE "return"
  /\ seen' = TRUE
  /\ UNCHANGED <<nose, idVars, verb, callerVars, history>>

\* One round of the loop: the stopping eye, the feed chain, SERVER_STATE.
Poll ==
  /\ pc = "poll"
  /\ wz' = Advance(wz, WorkAtZero)
  /\ LET hit == IF verb = "intake" THEN Staging ELSE wz # << >> /\ wz' = << >>
     IN arrived' = (arrived \/ hit) /\ run' = IF hit THEN 0 ELSE run
  /\ IF verb = "intake" THEN ChainPoll /\ UNCHANGED watch ELSE FeedPoll /\ UNCHANGED chain
  /\ pc' = IF run' # 0 THEN "poll"
           ELSE IF verb = "retreat" /\ arrived' THEN "turn" ELSE "return"
  /\ seen' = TRUE
  /\ UNCHANGED <<nose, idVars, verb, callerVars, history>>

\* The return-to-zero tail of the retreat: downstream again until the eye.
TurnBack ==
  /\ pc = "turn"
  /\ StartMove(Caps["back"])
  /\ arrived' = FALSE /\ pc' = "back"
  /\ UNCHANGED <<nose, coil, watch, verb, wz, chain, callerVars, history>>

PollBack ==
  /\ pc = "back"
  /\ arrived' = (arrived \/ WorkAtZero) /\ run' = IF WorkAtZero THEN 0 ELSE run
  /\ FeedPoll
  /\ pc' = IF run' # 0 THEN "back" ELSE "return"
  /\ seen' = TRUE
  /\ UNCHANGED <<nose, idVars, verb, wz, chain, callerVars, history>>

-----------------------------------------------------------------------------
(***************************************************************************)
(* stage_next: the feed alone, and a nudge of Z2 if the crossing stalls.    *)
(***************************************************************************)
FeedPhase ==
  /\ pc = "feed"
  /\ ChainPoll
  /\ arrived' = Staging
  /\ pc' = IF Staging THEN "return" ELSE "feed"
  /\ seen' = TRUE
  /\ UNCHANGED <<nose, run, idVars, watch, verb, wz, callerVars, history>>

\* The feed window is over: a running Z1 has carried its head off by now. The crossing
\* stalled, or nobody is there.
Nudge ==
  /\ pc = "feed"
  /\ coil /\ next \in Cubes => nose[next] \notin 0 .. Width
  /\ StartMove(Caps["nudge"])
  /\ pc' = "nudge"
  /\ UNCHANGED <<nose, coil, watch, verbVars, callerVars, history>>

PollNudge ==
  /\ pc = "nudge"
  /\ ChainPoll
  /\ arrived' = Staging
  /\ pc' = IF Staging \/ run = 0 THEN "return" ELSE "nudge"
  /\ run' = IF Staging THEN 0 ELSE run
  /\ seen' = TRUE
  /\ UNCHANGED <<nose, idVars, watch, verb, wz, callerVars, history>>

-----------------------------------------------------------------------------
(***************************************************************************)
(* What the verbs return to, and the caller's next beat.                    *)
(***************************************************************************)
Shifted(e) == [F1 |-> NoPart, F2 |-> occ["O"], O |-> IF e # NoPart THEN e ELSE occ["F1"]]

Retreated == [F1 |-> occ["O"], O |-> occ["F2"], F2 |-> NoPart]

Occupancy(v) == CASE v = "entry"               -> Shifted(next)
                  [] v = "retreat"             -> Retreated
                  [] v \in {"return", "blind"} -> Shifted(NoPart)
                  [] OTHER                     -> occ

Forgets == wz' = << >> /\ chain' = << >> /\ arrived' = FALSE /\ UNCHANGED verb   \* locals

\* _fault: idle() cancels the watch and stops both belts; everybody stays where they are.
GiveUp ==
  /\ watch' = << >> /\ coil' = FALSE /\ run' = 0 /\ pc' = "faulted"
  /\ UNCHANGED <<nose, callerVars>>

KeepWatch_Forgets == UNCHANGED <<watch, coil>>

\* What is left of the chain becomes the kept watch; else the feed is cut.
KeepWatch ==
  /\ watch' = IF verb \in {"intake", "stage"} /\ chain # << >> THEN chain ELSE watch
  /\ coil' = (coil /\ watch' # << >>)

Returns ==
  /\ pc = "return" /\ verb \in {"intake", "stage"}
  /\ KeepWatch
  /\ pc' = "free"
  /\ staged' = (verb = "stage" /\ arrived)
  /\ turn' = IF verb = "stage" THEN "move" ELSE turn
  /\ slide' = IF verb = "stage" /\ ~arrived THEN Caps["nudge"] ELSE slide
  /\ Forgets
  /\ UNCHANGED <<nose, run, idVars, seen, beat, occ, next, history>>

Arrives ==
  /\ pc' = "free"
  /\ occ' = Occupancy(verb)
  /\ next' = IF verb = "entry" THEN next + 1 ELSE next
  /\ beat' = IF turn = "idle" THEN "P1" ELSE NextBeat(beat)
  /\ turn' = IF occ' = Empty THEN "idle" ELSE "work"
  /\ staged' = FALSE
  /\ slide' = IF turn = "idle" THEN slide ELSE 0
  /\ UNCHANGED <<plantVars, watch>>

Concludes ==
  /\ pc = "return" /\ verb \notin {"intake", "stage"}
  /\ IF arrived THEN Arrives ELSE GiveUp
  /\ Forgets
  /\ UNCHANGED <<idVars, seen, history>>

-----------------------------------------------------------------------------
(***************************************************************************)
(* The caller: every step begins with a poll of the kept watch.             *)
(***************************************************************************)
FeedTick ==
  /\ pc = "free" /\ watch # << >> /\ (turn = "idle" => Staging)
  /\ FeedPoll
  /\ seen' = TRUE
  /\ UNCHANGED <<nose, run, idVars, pc, verbVars, callerVars, history>>

Ready == pc = "free" /\ (watch # << >> => seen)

Begin(v, to) ==
  /\ verb' = v /\ pc' = to
  /\ UNCHANGED <<nose, run, idVars, wz, chain, callerVars, troubles>>

Intake ==
  /\ pc = "free" /\ turn = "idle" /\ ~Staging
  /\ Begin("intake", "arm")
  /\ seen' = TRUE /\ watch' = << >> /\ coil' = TRUE /\ arrived' = FALSE
  /\ astray' = (astray \/ PastEye)

FirstEntry ==
  /\ Ready /\ turn = "idle" /\ Staging /\ next \in Cubes
  /\ Begin("entry", "arm")
  /\ UNCHANGED <<watch, coil, seen, arrived, astray>>

\* A dark junction at the end of an entry beat skips the entry.
StageSkipped ==
  /\ Ready /\ turn = "stage" /\ ~Onload
  /\ turn' = "move" /\ staged' = FALSE
  /\ UNCHANGED <<plantVars, idVars, watch, pc, verbVars, seen, beat, occ, next, slide, history>>

Stage ==
  /\ Ready /\ turn = "stage" /\ Onload /\ next \in Cubes
  /\ Begin("stage", "sample")
  /\ seen' = TRUE /\ watch' = << >> /\ coil' = TRUE /\ arrived' = FALSE
  /\ UNCHANGED astray

TransitionVerb ==
  IF EntryBeat /\ staged THEN "entry"
  ELSE IF beat = "P2" THEN IF occ["F2"] # NoPart THEN "retreat" ELSE "stay"
  ELSE IF beat = "P3" /\ occ["F1"] # NoPart THEN "return" ELSE "blind"

Transition ==
  /\ Ready /\ turn = "move" /\ TransitionVerb # "stay"
  /\ TransitionVerb = "entry" => next \in Cubes        \* a bound: more cubes than there are
  /\ Begin(TransitionVerb, "arm")
  /\ coil' = (coil /\ TransitionVerb # "blind")       \* feed_suspend
  /\ UNCHANGED <<watch, seen, arrived, astray>>

\* P2 with nobody at F2: the lone part keeps O, no move.
Stays ==
  /\ Ready /\ turn = "move" /\ TransitionVerb = "stay"
  /\ Begin("stay", "return")
  /\ arrived' = TRUE
  /\ UNCHANGED <<watch, coil, seen, astray>>

\* blind: nobody polls; the feed is resumed if its watch still lives.
BlindEnds ==
  /\ pc = "blind" /\ run = 0
  /\ coil' = (watch # << >>) /\ arrived' = TRUE
  /\ pc' = "return" /\ seen' = FALSE
  /\ UNCHANGED <<nose, run, idVars, watch, verb, wz, chain, callerVars, history>>

\* feed_suspend and feed_resume around a robot composite or a pause; one that failed on the
\* pause edge is tried again.
Suspend ==
  /\ pc \in {"free", "lapse"}
  /\ coil' = FALSE
  /\ pc' = "held"
  /\ UNCHANGED <<nose, run, idVars, watch, verbVars, seen, callerVars, history>>

Resume ==
  /\ pc \in {"held", "lapse"}
  /\ coil' = IF pc = "held" THEN watch # << >> ELSE coil
  /\ pc' = "free" /\ seen' = FALSE                    \* a step, and its poll, is next
  /\ turn' \in {turn} \cup (IF turn # "work" THEN {} ELSE {IF EntryBeat THEN "stage" ELSE "move"})
  /\ UNCHANGED <<nose, run, idVars, watch, verbVars, beat, occ, next, staged, slide, history>>

Trouble == troubles < MaxTroubles /\ troubles' = troubles + 1

\* A device error the sequencer catches, or a halt between two steps.
Fails ==
  /\ pc \notin {"faulted", "down"} /\ Trouble
  /\ GiveUp
  /\ Forgets
  /\ UNCHANGED <<idVars, seen, astray>>

\* The controller swallows what fails on the edges of a pause: Z1 hunts on unpolled,
\* or stays off under its watch.
PauseFails ==
  /\ pc \in {"free", "held"} /\ watch # << >> /\ Trouble
  /\ pc' = (IF pc = "free" THEN "lapse" ELSE "free") /\ seen' = FALSE
  /\ astray' = (astray \/ coil)
  /\ UNCHANGED <<plantVars, idVars, watch, verbVars, callerVars>>

\* An error nobody catches (feed_suspend, feed_resume, sensors) ends the loop thread, a
\* crash the process: the coil stays as it is, Z2 ends its capped move.
Dies ==
  /\ pc # "down" /\ Trouble
  /\ pc' = "down"
  /\ astray' = (astray \/ coil)
  /\ Forgets
  /\ UNCHANGED <<plantVars, idVars, watch, seen, callerVars>>

Seeded_FromZero == reqId' = 0

Seeded == reqId' = lastId

\* The next process: connect() seeds the id from the echo, the controller stops both
\* belts. With parts in the books it starts in a fault.
Restart ==
  /\ pc = "down"
  /\ Seeded
  /\ watch' = << >> /\ coil' = FALSE /\ run' = 0 /\ slide' = 0
  /\ pc' = IF occ = Empty THEN "free" ELSE "faulted"
  /\ astray' = (astray \/ (occ = Empty /\ \E c \in Cubes : nose[c] \in 1 .. Gone - 1))
  /\ UNCHANGED <<nose, lastId, verbVars, seen, turn, beat, occ, next, staged, troubles>>

-----------------------------------------------------------------------------
(***************************************************************************)
(* The operator of a faulted line.                                          *)
(***************************************************************************)
Fits(n, st) ==
  CASE st = "O"  -> n \in WorkZero .. WorkZero + Width - 1
    [] st = "F1" -> n \in Width + 1 .. StagingEye
    [] st = "F2" -> n >= WorkZero + Spacing

Spot == [O |-> WorkZero, F1 |-> StagingEye, F2 |-> WorkZero + Spacing]

Stands(c, st) ==
  IF Fits(nose[c], st) /\ nose[c] < Spot[st] + StagingEye - Width THEN nose[c] ELSE Spot[st]

\* Whoever is in the books stands where they say, or is pushed there; nobody else stays
\* aboard; the head of the queue may go as well. A part so far downstream that a retreat
\* would bring the one behind it back onto Z1 is pushed to its place. With nobody left on
\* Z1 all are found again. A part left deep in the eye at O may slide out of it as the
\* next is staged.
Sweep(books, first) ==
  \E n \in first .. MaxCubes + 1 :
    /\ \A c \in Cubes : c >= n => nose[c] <= 0
    /\ n > first => nose[n - 1] # Away
    /\ next' = n
    /\ nose' = [c \in Cubes |->
                 CASE c = books["O"]  -> Stands(c, "O")
                   [] c = books["F1"] -> Stands(c, "F1")
                   [] c = books["F2"] -> Stands(c, "F2")
                   [] OTHER           -> IF c < n THEN Gone ELSE nose[c]]
    /\ astray' = \/ slide # 0
                 \/ books["O"] # NoPart /\ nose'[books["O"]] # WorkZero
                 \/ astray /\ \E c \in Cubes : c >= n /\ nose[c] # Away

\* clear_line: _probe_slide_mm stays.
Clear ==
  /\ pc = "faulted" /\ pc' = "free"
  /\ Sweep(Empty, next)
  /\ occ' = Empty /\ turn' = "idle" /\ staged' = FALSE
  /\ UNCHANGED <<coil, run, idVars, watch, verbVars, seen, beat, slide, troubles>>

\* confirm_occupancy: the belt as it was, or the transition as done; the beat is kept
\* when the operator sends none.
Confirm ==
  /\ pc = "faulted" /\ pc' = "free"
  /\ \E done \in {FALSE, turn = "move"} :
       LET v == IF done THEN TransitionVerb ELSE "stay"
       IN /\ occ' = Occupancy(v)
          /\ Sweep(Occupancy(v), IF v = "entry" THEN next + 1 ELSE next)
          /\ beat' \in {beat, IF done THEN NextBeat(beat) ELSE beat}
  /\ occ' # Empty /\ turn' = "work" /\ staged' = FALSE
  /\ UNCHANGED <<coil, run, idVars, watch, verbVars, seen, slide, troubles>>

-----------------------------------------------------------------------------
Init ==
  /\ nose = [c \in Cubes |-> Away] /\ coil = FALSE /\ run = 0
  /\ lastId \in 0 .. IdMax /\ reqId = lastId
  /\ watch = << >> /\ pc = "free"
  /\ verb = "stay" /\ wz = << >> /\ chain = << >> /\ arrived = FALSE
  /\ seen = FALSE
  /\ turn = "idle" /\ beat = "P1" /\ occ = Empty /\ next = 1 /\ staged = FALSE
  /\ slide = 0 /\ astray = FALSE /\ troubles = 0

Driver ==
  \/ Arm \/ Sample \/ Poll \/ TurnBack \/ PollBack \/ FeedPhase \/ Nudge \/ PollNudge
  \/ Returns \/ Concludes \/ BlindEnds

Caller ==
  \/ FeedTick \/ Intake \/ FirstEntry \/ StageSkipped \/ Stage \/ Transition \/ Stays
  \/ Suspend \/ Resume

Next ==
  \/ Tick \/ \E c \in Cubes : Place(c) \/ TakeOff(c)
  \/ Driver \/ Caller
  \/ Fails \/ PauseFails \/ Dies \/ Restart
  \/ Clear \/ Confirm

Spec == Init /\ [][Next]_vars

\* The belts move, the driver polls, and a nudge follows a feed window that ran out.
Fairness == WF_vars(Tick) /\ WF_vars(Driver) /\ WF_vars(Nudge)

FairSpec == Spec /\ Fairness

-----------------------------------------------------------------------------
FeedTypeOK ==
  /\ nose \in [Cubes -> {Away, Gone} \cup -1 .. Gone]
  /\ run \in 1 - 2 * Spacing .. 2 * Spacing + StagingEye
  /\ {coil, arrived, seen, staged} \subseteq BOOLEAN
  /\ {lastId, reqId} \subseteq 0 .. IdMax
  /\ \A s \in {watch, wz, chain} : Len(s) <= 4 /\ \A i \in 1 .. Len(s) : s[i] \in {"hi", "lo"}
  /\ pc \in {"free", "held", "arm", "sample", "poll", "turn", "back", "feed", "nudge", "blind",
             "return", "lapse", "faulted", "down"}
  /\ verb \in {"intake", "stage", "entry", "retreat", "return", "blind", "stay"}
  /\ turn \in {"idle", "work", "stage", "move"} /\ beat \in Beats
  /\ occ \in [Tracked -> Cubes \cup {NoPart}] /\ next \in 1 .. MaxCubes + 1
  /\ slide \in {0, Caps["nudge"]} /\ astray \in BOOLEAN /\ troubles \in 0 .. MaxTroubles

(***************************************************************************)
(* "The follower never boards uninvited" (the junction rule): past the      *)
(* ONLOAD eye there are only cubes that entered and the one that is being   *)
(* taken in, through verbs, composites, pauses and faults and after them,   *)
(* until somebody goes astray: an intake re-fired over a cube that is past  *)
(* the eye, a pause whose suspension failed, a dead loop with Z1 on, a      *)
(* restart that forgets a first cube aboard, a slide left over by a fault,  *)
(* a part confirmed at O but not at the eye's edge.                         *)
(***************************************************************************)
FollowersWait ==
  ~astray => \A c \in Cubes : nose[c] \in 1 .. Gone - 1 =>
    \/ c < next
    \/ c = next /\ (turn = "idle" \/ staged \/ (verb = "stage" /\ pc # "free"))

(***************************************************************************)
(* "A live coil with a cancelled watch" (LegacyTrain.feed_resume): never    *)
(* between two verbs; no coil at all through a composite, a pause whose     *)
(* suspension got through, a shuffle and a fault. After a failed            *)
(* suspension and under a dead loop the coil stays as it was.               *)
(***************************************************************************)
LiveCoilIsWatched ==
  /\ pc = "free" /\ coil => watch # << >>
  /\ pc \in {"held", "blind", "faulted"} => ~coil

(***************************************************************************)
(* Between two verbs everybody stands where the books say, a nudge in vain  *)
(* taken off: under the eye at O, clear of the junction at F1, clear of the *)
(* eye at F2 (the conservation law of docs/legacy-mod-choreography.md);     *)
(* and whoever entered is in the books or off the line.                     *)
(***************************************************************************)
BooksMatchBelt ==
  ~astray /\ pc = "free" =>
    /\ \A st \in Tracked : occ[st] # NoPart => Fits(nose[occ[st]] - slide, st)
    /\ \A c \in Cubes : c < next => nose[c] = Gone \/ \E st \in Tracked : occ[st] = c
    /\ staged => nose[next] = StagingEye

\* No arrival is missed: a sensor-stopped verb that ran its course confirms; a stage says
\* no only when the next cube is not aboard.
EveryArrivalSeen ==
  ~astray /\ pc = "return" /\ verb # "intake" =>
    arrived \/ (verb = "stage" /\ (next \in Cubes => nose[next] <= 0))

\* A request always starts its move, the first one after a restart included.
EveryRequestFires == [][reqId' # reqId /\ pc' # "free" => run' # 0]_vars

\* Every verb returns: no wait for an eye outlives its capped move or feed window.
VerbsEnd ==
  pc \notin {"free", "held", "lapse", "faulted", "down"} ~> pc \in {"free", "faulted", "down"}
=============================================================================
