# Finishing line: TLA+ models, checks and proofs

This directory specifies the orchestration software of the finishing line in
`src/`: a robot sands and sprays parts at one station, two fan stations flash
them dry, and two belts carry the train of parts between the stations in a
four-beat pattern. The modules are written from the Python and C++ sources; TLC
checks them on small instances, and TLAPS proves safety properties of each of
them (process core, closed loop, zone handshake, robot composites, legacy route
and its belts) for all values of the constants: parts, flash times, request ids,
geometries, numbers of failures.

## 1. Inventory of the system

| Component (under `src/src/finishing_line/`) | State it keeps | Operations | Talks to | Correct when |
|---|---|---|---|---|
| Process core: `core/schedule.py`, `model.py`, `guards.py`, `timers.py`, `machine.py`, `intents.py` | `LineState`: beat, phase, pending intents, moves in flight, believed occupancy, IN queue, per-part coats, two flash timers, wet tag | `step`, `resume` (pure functions) | called by the supervisor; emits intents | no part lost or shipped unfinished, coat 2 only on a dry coat 1, no departure under-flashed, roles keep step with the beats |
| Supervisor and controller: `process/supervisor.py`, `controller.py` | current `LineState`, run/pause flag, arrival counter; one lock | `tick`, `idle_tick`, run, pause, halt, `ack_fault`, `declare_batch` | loop thread at 20 Hz; API threads | commands never split a tick; a pause never strands a wet part; a halt stops motion and faults the machine |
| Executor: `process/executor.py` | FIFO queue, completed ids, fault latch | `submit`, `completed`, `halt`, `reset`, one worker thread | devices (blocking), supervisor (polling) | the machine waits for exactly what is queued or running; nothing runs after a fault |
| Train mover: `process/train.py` | none (a call in progress) | `advance` | ClearCore client | the zones stop on the last edge of the shift and the result is confirmed |
| ClearCore client, registers, firmware: `devices/clearcore.py`, `registers.py`, `firmware/finishing_line/` | request id, heartbeat; registers; per-zone move state, watchdog | zone moves, fans, shutter, reads, heartbeat | Modbus TCP, one request at a time | a move runs once for its request and is acknowledged; a dead orchestrator stops the belts and starts the fans |
| Simulated plant: `sim/fake_clearcore.py`, `physics.py`, `fake_robot.py`, `runner.py` | registers, who stands where | tick | the client | plays the firmware and the belts |
| Robot: `process/robot_ur.py`, `sander.py`, `sprayer.py`, `gun_clean.py`, `devices/ur.py` | clear and gun flags | `sand`, `clean_gun`, `spray`, `safe_pose` | UR controller, Z2 belt | gun, tool and brush off on every way out |
| Persistence: `process/persistence.py` | last saved snapshot | `save`, `load`, `as_restored` | controller | a restart comes back faulted and never over-counts flash time |
| Pairing advice: `core/pairing.py` | none | advise how a batch pairs up | API | counts left-overs right |
| Legacy sequencer and controller: `process/legacy_sequencer.py`, `legacy_controller.py` | parts, queue, occupancy, beat, phase, pending enterer and clean, fan flag; run/halt/stop flags; a state file | `step` with its five phases, `bank`, `declare_batch`, `confirm_occupancy`, `clear_line`, halt, close, restore | one loop thread (devices), API thread without a lock, the file | only finished parts complete, in order; flash 1 before coat 2; the queue belt never hunts unwatched; whatever enters leaves |
| Legacy belts: `process/legacy_train.py`, `devices/legacy_clearcore.py`, `firmware/legacy_queue_eye/`, `sim/fake_legacy_clearcore.py` | request id, feed coil, what is left of the watch on the junction eye; the firmware's last id | `intake`, `stage`, `entry`, `retreat`, `return_to_o`, `blind`, `feed_tick`, suspend/resume, `idle` | old register map, polled eyes | the belt does what the books say, followers wait at the junction, every request starts |
| API, configuration, scripts: `api/`, `config/`, `scripts/` | none | routing, parsing | controller | left aside: I/O |

What is hard here: three threads (loop, worker, API) of which two share a lock
and the third does not, and on the legacy route two threads that share none;
sensors that are seen only when polled; inputs read at one moment and judged against
completions collected at a later one; faults, halts and pauses that land
between any two steps of a choreography; recovery that depends on where the
fault fell and on what the operator saw; flash timers that must be right over a
long pattern no single function states. `PROJECT.json` lists each hazard at its
line with the property that guards it.

## 2. Modules

    Schedule      stations, beats, fans, train moves            core/schedule.py, model.py
      Machine     step, resume, guards, timers; open inputs     core/machine.py, guards.py, timers.py
        Steady    the machine used as its schedule needs        declare_batch, ack_fault as used
          Line    loop thread + worker + plant + operator       process/*.py, sim/*.py
          TransferWalk    the ordered loops over a transition's moves
    PartJourney       what the line promises each part (abstract; implemented by Steady and Line)
      LegacySequencer   the legacy route: loop, API, state file process/legacy_sequencer.py, legacy_controller.py
      LegacyFeed        its belt verbs, driver and plant        devices/legacy_clearcore.py, process/legacy_train.py
    ZoneContract      what a zone promises its caller (abstract)
      ZoneHandshake   client, registers, firmware loop          devices/clearcore.py, firmware.cpp
    Composites        sanding, spraying, cleaning as duets      process/sander.py, sprayer.py, gun_clean.py
    MachineProofs, SteadyProofs                   theorems about the process core
    LineProofs, CalmProofs                        ... the closed loop
    ZoneProofs, CompositesProofs                  ... what drives the devices
    LegacyProofs, FeedProofs                      ... the legacy route and its belts
    MCMachine, MCSteady             sensor readings for TLC

**Schedule** holds the tables. `Transitions` is the code's ordered list;
`Feeder` the same table by destination, which the machine uses because a set of
moves without an order is far easier to prove about. That the two agree is not
taken on trust: **TransferWalk** takes the code's two loop bodies (the working
set of `guards.departure_blocked`, the pops and assignments of
`machine._apply_moves`) through the ordered moves, turn by turn. That they compute
the operators of Machine is checked in every state of Steady, for every subset of
the moves and every sensor picture, and proved in every state of Machine.

**Machine** is `LineState` with one action per outcome of `step()`: external
fault, mismatch fault, waiting for completions, and per phase what is emitted,
blocked or believed. `Resume` and `RejectResume` are `resume()`, `IdleTick` is
the paused tick, `Declare` is `declare_batch`. A tick banks the fans' time
first, as the code does, so its guards look at the primed timers (`DepartureClear`).
The environment is open: any snapshot of the constant `Readings`, any number of
completions, a fault at any tick. What holds here holds for every plant.

Parts are numbers in declaration order, so a part's role is its parity
(`Role`), the IN queue is the interval `infed+1 .. declared`, and `shipped` is
the set dropped from `LineState.parts` at OUT. `pending` counts intents instead
of naming them. Timers stop at `FlashSeconds`, the only value they are compared
with. A coat is recorded when its batch is emitted, exactly as in the code.

**Steady** restricts two inputs, not the machine. Batches are whole pairs, and
one that meets an empty queue comes in P1 or P2; an operator confirms the
machine's belief or, after a fault in mid-move, the picture after the whole
move, and does not override the beat. Faults still land anywhere.

**PartJourney** has no beats, sensors or faults: each part is declared, enters,
gets coat 1, dries, gets coat 2, dries and leaves, one stage at a time. None
passes another in place or in progress, nobody enters or leaves or is coated
beside a part that is being coated, and at most `Room` neighbours are on the
line. `StageOf` reads a part's stage off the books, and `PartsTravel` is the
refinement. The legacy route cannot implement it (`legacy_wet`).

**Line** closes the loop. A tick is two steps, `ReadInputs` (the snapshot) and
`Act` (robot flags, latch, completions, `step`, `submit`, fans on fault entry),
between which the worker, the plant and `Halt` may run; declarations, pause,
run and acknowledgements need the lock and wait for the tick to end. The worker
executes one intent at a time: a fan is one device call, a shutter a command
and a confirmation, a train move arms its zones one after the other
(`ArmZones`), then waits for the belts to stop and the pattern to appear
(`TrainArrived`) or gives up (`TrainError`). `live` says whether the machine
still waits for the intent in progress: a completion that comes in after a
fault belongs to nobody. The plant is that of the simulator: parts leave their
stations at once and land after a gap, they cross between F1 and O only under
both belts, and a zone stops on the edge it was armed for. `HaltExecutor` is
`Executor.halt`.

**ZoneHandshake** is one zone between `ClearCoreClient` and the firmware. A call
is a sequence of register writes in the code's order (`Order`), then the poll for
the ack and the poll for READY; a firmware loop is one step: heartbeat and
watchdog, then `tickZone` on what the registers hold at that moment. A client
write is followed by at least one loop before the next, because a request waits
for its response and `ModbusTcpServer::poll` serves a connection once per loop;
`Executor.halt` writes from another thread at any moment. A restarted process
counts request ids from 0 while the firmware remembers the last one. The
two-second wait for an ack is many loops, so it can only run out while the
firmware does not look at requests (`TimeOut`). Each disturbance is an action;
what the zone still owes its caller after one is **ZoneContract**: the belt may
stop early, run on a request nobody waits for, and let one call return too
soon, until the next move begins as asked. The refinement maps `begun` to "the
firmware has started the call in progress on its own id". Left out: the second
zone (the blocks share only the watchdog), debounce (the eye is its output),
`MODE_CONTINUOUS`, which nothing calls, and unknown targets, which the client
cannot send.

Abstractions of Line, and why they keep the hazards: the worker's `get` and its
check of the latch are one step (the window that matters, between the check and
the device call, is there); a snapshot is one step although `read_inputs` is a
dozen reads (a coarser hazard, planned); the feed belt and Z1 start together;
parts in motion reach the next station even if the belt stops, as in
`physics.py`; robot programs are the flags the guards read, with gun on from
the start to the end of the burst as `robot_ur.spray` holds it; sanding moves
of the Z2 belt during work are left out; time-outs are the states in which
nothing can move any more. Left out so far: heartbeat and watchdog (Machine has
their fault as an input, ZoneHandshake what they do to a zone), persistence, and
a failing robot program (Composites).

**LegacySequencer** is the other orchestration of the same line: a loop that blocks in
each device call, an API thread that writes the same dictionaries without a lock, and a
state file. `pc` is where the loop thread is; it stops between the calls inside
`_step_robot` and `_step_flash`, so a declaration, a halt, a shutdown, a crash can fall
between sanding and spray, or between the spray and the line that records the coat.
Everything from `top` through one phase to `save` is one iteration of `_loop`. A call
nobody catches (`Die`) ends the thread, as in the code: the sensor reads after a move,
`feed_suspend`, `feed_resume`, the switch of the F1 fan after the beat has moved on, a
dictionary that changes size while `_save` walks it. `real` is what stands on the belt,
and the beat that goes with it: the operator confirms that picture, never an invented
one, but in either of two beats, the right one or the one the books were in (`Confirm`,
`Resumes`): the HMI sends none (`hmi.html:235`), and the code then keeps the old one
(`legacy_sequencer.py:495`). `misled` remembers that the two differed. A belt verb
either completes or fails, with the parts moved or not (`TransitionFails`); an entry for
which nobody stands at the staging eye cannot complete (`NobodyStaged`), which is how a
stale `_pending_enterer` shows; and the code refuses two occupancies before it moves
(`Impossible`), which a misled beat can bring about. `PauseEdge` is the suspension on
the edge of a pause, whose failure the controller swallows and tries again in the next
pass. `Crash` may cut the write of the file short (`disk.ok`), and `RestartRaises` is
what every start does then. Parts are numbered in the order their ids are handed out,
declared or minted. `idle()` is taken to reach the belts: a failure of it inside
`_fault` is swallowed by the code and not modelled.

**LegacyFeed** has the verbs that LegacySequencer takes as one step. Cubes with
a width stand on a line of unit positions; belts move them between polls
(`Tick`), the driver sees an eye only when it polls, and one poll follows at most
one unit of travel. `wz` and `chain` are the lists of edges `transition_move` and
`stage_next` wait for, `watch` the part of the junction chain that outlives its
verb. The crossing from Z1 to Z2 may stall (`push`), or the cube is lifted off
(`TakeOff`): the nudge then finishes it, or slides in vain, which `slide`
(`_probe_slide_mm`) makes up for in the shuffle that follows (`Reach`). `Place` puts a
cube on Z1 at any moment, also while an intake's cap runs out. A fault (`GiveUp`)
cancels the watch and stops both belts, and everybody stays where he is; the operator
clears the line or confirms what the books say, with the transition done or not
(`Sweep`, `Clear`, `Confirm`). `PauseFails` is a suspension or resumption that fails on
an edge of a pause, unseen; `Dies` is an error nobody catches, or a crash, and leaves
coil and watch as they are; `Restart` is a new client that seeds its request id from
the firmware's echo (`Seeded`). The caller is reduced to the order of the verbs.

The code has ways to lose a cube: it is past the junction, or crosses it, while no
chain of edges follows it. The model takes the following, and the history
variable `astray` records it: an intake that is re-fired with somebody between the
junction and the staging eye (`PastEye`), a suspension that fails with Z1 running, a
dead loop or process with Z1 running, a restart with empty books and a first cube
aboard, and a line that resumes after a nudge in vain, or with a part at O deep in the
eye. The properties about where cubes stand are claimed up to that point, and from
there on only types, the coil and the request ids are. An operator who finds nobody
left on Z1 takes the flag back (`Sweep`).

**Composites** gives each robot composite as one list of its device calls, with
the places where its try block and its finally begin. A call returns, or raises before
or after it took effect, and the exception runs the finally; `Halt` idles the
belt from another thread, and the wait for READY returns. The belt needs two
steps for a pass, so an arm move may fall between them unless the code joins.

## 3. Runs

| Run | Instance | Shows |
|---|---|---|
| `machine` | 1 part, flash 2, all presence pictures, shutter both ways, cell clear or not | types; the wet tag is exact; no under-flashed part in flight, under any inputs and any recovery |
| `steady` | 6 parts, flash 2, the same readings with one fan or both | the pattern: nothing lost, nothing outfed unfinished, roles in step, wet parts under running fans, order kept, departures flashed; ordered loops = order-free operators; every part makes the journey of PartJourney |
| `line` | 4 parts, flash 5, one pause, spurious faults with their recovery | both interlocks at the devices, belief equals truth, held parts dry, only finished parts leave, every declared part is outfed |
| `line_halt` | 4 parts, flash 1, one halt anywhere, one pause | the interlocks and the count of awaited intents survive halts and early acknowledgements |
| `zone` | one zone, 3 request ids, a move to each edge and one by distance, any two of halt, watchdog trip and restart | an ack is for the move asked; belts stop on edges of their own move; ZoneContract implemented; no endless wait for an ack |
| `legacy` | 3 parts, flash 1, both intake modes, switched or fixed F1 fan, one trouble (device failure, halt, shutdown, crash) anywhere, its picture confirmed in the right beat or in the one the books kept | parts complete in their order, only finished ones as long as every picture went with its beat; a part comes back from a fan only flashed; the queue belt runs only under a live watch, and every pass of a paused loop stops it unless the suspension fails in that pass |
| `legacy_live` | 2 parts, continuous intake, one trouble | a part that entered leaves once the line is left running |
| `feed` | 5 cubes of width 3 that come at any moment, eyes at 0, 5 and 11, 2 request ids, two troubles (driver error, failing pause, dead loop or process) with clearing or confirmation | until somebody is astray: books follow the belt, no arrival is missed or invented, followers wait at the junction; always: the coil is off where it has to be and watched between verbs, every request starts a move, every verb ends |
| `composites` | any composite on a cube or a browser, any two calls failing or halts | tools off on every way out but where their own switch failed; arm, gun and belt keep step |

Three runs expect a violation. Each states what a comment or document of the
repository says, and TLC finds the behaviour of the code that contradicts it
(`PROJECT.json`, "findings"):

| Run | The repository says | The code does |
|---|---|---|
| `blow` | no wet part at F1 is blown on while the gun is live (`machine.py:271`) | fault entry forces the F1 fan on during the burst |
| `leaves` | no part leaves before coat 2 is dry (`README.md:75`) | after a half-done move truthfully confirmed, the restarted beat carries a one-coat part to OUT |
| `legacy_wet` | no coat 2 before coat 1 is dry (`README.md:74`), flash 1 included on the legacy route (`docs/legacy-mod-choreography.md:125`) | a part that enters alone in P1 gets coat 1 in P2, keeps O because F2 is empty, and gets coat 2 in P3 without ever standing at a fan; no fault is needed |

`leaves` lets the operator acknowledge only when the worker has come to rest
(`PatientSpec`), so that it blames resume's choice of re-entry and not the race with the
worker. The same trace shows a second effect: the fan over the moved part is
not switched on, and the flash guard waits for ever.

Other divergences are behaviours of the models and have no run of their own; the
passing properties are stated so as not to deny them:

- A tick judges a completion with inputs it read before it (`supervisor.py:73`
  and `:92`): a train that arrives in between faults the line. Line recovers
  from this fault in the run `line`.
- A halt idles the zones once; a worker inside `advance` may arm the next zone
  after it (`train.py:123`). A halted zone reads READY, so a waiting stroke
  returns well (`clearcore.py:242`).
- A halt while the line is paused does not fault the machine until it is run
  again (`controller.py:101`).
- A pair declared in P4 onto an empty queue enters out of step and trips the
  role check (`controller.py:166`); Steady assumes it is not.
- On the legacy route the flash timer of a part that was just moved includes the
  move (`legacy_sequencer.py:122`); the loop thread can die unnoticed, with the
  queue belt still hunting; half a state file stops every later start; a switched
  F1 fan is taken for off after a restart.
- An entry is done but its answer is lost, the line faults, and the operator
  confirms what he sees. Nobody sends a beat, so it stays P1
  (`legacy_sequencer.py:495`, `hmi.html:235`); the docstring (488-490) calls it safe
  to enter a completed beat again, which holds only for its robot work. The belt then
  repeats a move of the wrong beat, and a part with one coat is completed.
  This trace violates `OnlyFinishedComplete` without its hypothesis `~misled`; order
  and flash gates hold in it.
- A suspension that fails on the edge of a pause is swallowed
  (`legacy_controller.py:122-126`) and tried again: until then Z1 hunts on with
  nobody polling.
- A follower is pushed onto the main belt: the cap of an intake runs out with the
  first cube between the junction and the staging eye, the next intake resets the
  chain and samples it anew (`legacy_clearcore.py:323-355`), and the cube's tail, or
  the follower, is taken for its own nose. The docstrings (293-297, 514-519) promise
  that the watch follows it. `FollowersWait` without `~astray` finds it.
- A slide left over from a nudge in vain survives a fault, `clear_line` and
  `confirm_occupancy` (`legacy_sequencer.py:375`, `:406`, `:435`), and shortens a
  later shuffle that has nothing to make up for.
- A part that is confirmed at O deep in the eye slides out of it when the next one is
  staged, and its departure edge has gone by before the entry waits for it.
- If `set_sprayer(False)` raises in the finally of `spray`, the spray frame stays
  selected; the sander is switched on before the try.

### Bounds, and why they are enough

*Parts.* One part exercises every branch of the open machine, whose properties speak of
one part. Three pairs are one outfed, one on the line and one queued: fill, steady state
and drain. Two pairs in Line give the P3 bracket (a wet trail at F1 while the lead is
sprayed), simultaneous infeed and outfeed, and drain. Two parts suffice for the
violations. *Flash time.* Two ticks tell "complete" from "one tick short". In `line` it
is five, because up to four the choreography's own steps always bank the flash before
the guard is asked, and the guard would never hold the line. `line_halt` uses one tick:
its properties do not depend on the timers. *MaxDt = 1*: a tick banks nothing or one
unit. *MaxHalts, MaxPauses* bound the operator. *Readings* of `machine`: fans off are
ticks with `dt = 0`, good and bad cell conditions come together since the guard is their
conjunction. *MaxId = 3* wraps the request ids, and `IdsLeft` keeps the wrap from
meeting an id that is still the acked one, which takes 65535 calls in a row without an
ack. *MaxTroubles = 2* lets a second disturbance hit the recovery from the first; at
most one of the two is a restart. (Two restarts within one sensor move, faster than the
two-second watchdog, would break `StopsOnEdge`: a stop on a level left over from the
first. `KeepsContract` holds even then.) `dist` and `target` start unset, so a move
begun too early is told from the one asked for. TLC's deadlock checking is on in every
run.

*Legacy route.* Three parts give a part behind, one ahead and one in the middle, and
holes on either side of a lone part; a fourth adds only states. Flash is one unit, so
"not flashed" and "flashed" both occur at every gate; exactness of the threshold is the
business of `machine` and `steady`, which share the code (`PartState`). One trouble at
any point, with its recovery, the swallowed suspension included; `legacy_wet` needs
none. `legacy_live` takes the continuous mode, where nothing but the sensors brings
parts. *Feed geometry.* Width 3 and eyes at 0, 5 and 11 are the smallest numbers that
satisfy the document's placement rule (`FeedAssumption`: a staged cube is clear of the
junction, one at O clear of the staging eye, two at neighbouring stations leave a gap
the eye between them can see, and a nudge in vain is shorter than the spacing it is
taken off); five cubes fill the stations, the junction and the queue; two request ids
wrap at every other move. `Gap` is the least distance of two cubes on Z1, without which
the eye sees one long part. Two troubles let one hit the recovery from the other. Nobody
is put on Z1 once somebody is astray, and a staged cube, like one that enters, is one of
`Cubes`. A confirmed part that is out of its place is pushed back to it (`Stands`), and
one the books no longer have is off both belts. `idle()` is taken to reach the belts, as
in LegacySequencer. *Composites.* Two failures are one in the body and one in the
finally.

### Fairness

`MachinesRun` is weak fairness of the loop thread's steps, of the worker, and
of each plant step: a daemon thread in a timed loop, a blocking queue, physics.
`OperatorReturns` is strong fairness of `Run` and `AckFault`: whoever pauses the
line runs it again and acknowledges faults, and since both wait for a lock that
the loop takes and releases every cycle, they are enabled again and again, not
continuously. Without strong fairness `AllOutfed` would say nothing more than that
the line moves while nobody stops it. A lock that starves a waiter for ever is
not what CPython promises to avoid; the 50 ms sleep outside the lock justifies it.
`FairSpec` of ZoneHandshake is weak fairness of the firmware's loop and of the
client's next step in a call, with nothing asked of halts or heartbeats.

`Fairness` of LegacySequencer: the loop thread runs; time passes between its
steps and finished parts are taken off at OUT, again and again; whoever faults
the line acknowledges it, and a dead or closed process is started again.
`EntrantsLeave` is claimed for an operator who from some moment leaves the line
enabled, and excepts a torn file and a switched fan after a restart (see above).
`Fairness` of LegacyFeed: belts move, the driver polls, and a feed window that a
stalled crossing keeps open ends; nothing is asked of the caller.

## 4. Proofs

Constants are arbitrary within the named assumptions of the modules
(`MachineAssumption`, `LineAssumption`, `ZoneAssumption`, `CompositesAssumption`,
`LegacyAssumption`, `FeedAssumption`), which TLC evaluates in the runs.

| Theorem | States |
|---|---|
| `MachineProofs!TypeCorrect`, `WetCorrect`, `FlightsAreDry` | `TypeOK`, `WetMeansOwing`, `DryInFlight` |
| `SteadyProofs!PatternKept` | the inductive invariant of the pattern |
| `SteadyProofs!PartsAreKept`, `OutfedAreComplete`, `CoatTwoIsSafe`, `RolesMatch`, `WetPartsDry`, `DeparturesAreFlashed` | `NoPartLost`, `OutfedComplete`, `CoatTwoOnDryCoatOne`, `RoleAlwaysMatches`, `WetPartsUnderFans`, `NoUnderFlashedDeparture` |
| `SteadyProofs!OutfedInOrder` | `ShippedInOrder` |
| `SteadyProofs!SteadyIsJourney`, `NobodyOvertakes` | `PartsTravel`: Steady implements PartJourney; in the abstract state nobody overtakes and everybody finds room |
| `SteadyProofs!WalksAreSets`, `SteadyWalksAreSets` | `WalkMatchesSets`, under the open machine and under Steady |
| `LineProofs!LineInvariant` | the inductive invariant of the closed loop |
| `LineProofs!LineTypeCorrect`, `WaitsRight`, `NoZoneUnlocked` | `LineTypeOK`, `WaitsForWhatRuns`, `MotionInterlock` |
| `LineProofs!SpraysAtStation` | the two thirds of `SprayEnclosed` about parts: the gun is on only over a part that stands at O, with nobody between stations |
| `LineProofs!PatientSpraysEnclosed` | `SprayEnclosed`, for an operator who acknowledges with the worker at rest (`PatientSpec`), after any number of halts |
| `CalmProofs!UndisturbedInvariant`, with `MaxHalts = 0` | the inductive invariant of the undisturbed loop |
| `CalmProofs!BooksTellTheTruth`, `HoldsDry`, `NoBlow`, `SpraysEnclosed`, `FinishedLeave`, with `MaxHalts = 0` | `BeliefIsTruth`, `HeldPartsDry`, `NoBlowOnWet`, `SprayEnclosed`, `OnlyFinishedLeave` |
| `CalmProofs!LineIsSteady`, `LineIsJourney`, with `MaxHalts = 0` and `Readings` all snapshots | Line implements Steady, and PartJourney through it (`PartsTravel`) |
| `ZoneProofs!ZoneTypeCorrect`, `AcksAreOwn`, `EdgesStop` | `ZoneTypeOK`, `AckMeansStarted`, `StopsOnEdge` |
| `ZoneProofs!ContractKept` | `KeepsContract`: ZoneHandshake implements ZoneContract |
| `CompositesProofs!NothingLeftOn`, `DuetInStep` | `OffOnExit`, `DuetKeepsStep`, from `CompositesInvariant` |
| `LegacyProofs!LegacyTypeCorrect`, `FeedWatched` | `LegacyTypeOK`, `FeedIsWatched` |
| `LegacyProofs!BooksHold` | the inductive invariant of the legacy route |
| `LegacyProofs!OnlyFinished`, `CompletedOrder`, `ReturnFlashed` | `OnlyFinishedComplete`, `CompletedInOrder`, `FlashedBeforeReturn` |
| `FeedProofs!CoilWatched`, `RequestsFire` | `LiveCoilIsWatched`, `EveryRequestFires` |
| `FeedProofs!FeedInvariant` | the inductive invariant of the belt |
| `FeedProofs!FeedTypeCorrect`, `FollowersKept`, `BooksTrue`, `ArrivalsSeen` | `FeedTypeOK`, `FollowersWait`, `BooksMatchBelt`, `EveryArrivalSeen` |

*The pattern.* None of the pattern's properties is inductive: that an outfed part is
finished follows from what stands where in each beat, and that from the beat before. The
invariant `IInv` of SteadyProofs says so slot by slot. `Shown` is the beat whose picture
the books show (after the train move the counter lags until SET_FANS, and a fault
remembers its phase); `Picture` gives, for each station in each beat, the role and the
coats of whoever stands there, and says that the part worked on in P3 and P4 has its
first flash; `Pairing` says between which beats the number of infed parts is odd, which
is what keeps leads in leads' slots through refills; `Timers` ties flash times to coats;
`Control` says that moves in flight are the live moves and passed the flash guard;
`NoPartLost` is needed for a move to shift each part once. Lemmas follow the code:
`BankDries` (banking never takes away the right to leave), `Keep` and `Stay` (steps that
leave the books alone), `Shift` and `MoveKeeps` (a whole transition, beat by beat),
`StartWorkKeeps`, `DeclareKeeps` (where the rule on declarations is used), `ResumeKeeps`
(where the re-entry phase is used). The mutants show that the ingredients are needed:
replaying the beat at every resume, or not recognising the picture after the move,
breaks the invariant's consequences. For the order, `InOrder`: F2 lies downstream of O
and O of F1, so whoever stands further down came earlier, and whoever is outfed came
before all of them. With `NoPartLost` it makes `shipped` the interval up to the first
part still on the line. `BooksMove` shows that the books change only by the whole move
of the beat, be it on arrival or in a resume, and `MoveInOrder` goes through the beats.

(`CoatTwoOnDryCoatOne` is part of the journey, so no run checks it by itself.)

*The loops.* A transition has at most four moves, so `GuardTurns` and `ApplyTurns`,
recursive functions of the turn, are unrolled beat by beat, and no induction is
needed. `GuardAgrees` and `ApplyAgrees` use nothing but `TypeOK`: what the loops owe
to the order of the moves they owe in every state.

*The journey.* `JInv` joins the pattern and the order with `Fresh`: whoever stands at
O has no second flash yet, and no first one where a P1 or P2 picture shows him there;
without it a part could be sprayed and dry in the same step. `EveryoneGoesOn` shows
that a step takes each part one stage further or leaves it (a move of the belt by
`CarriedGoesOn`, a batch by `SprayedGoesOn`, banked time by `StayingDries`),
`GoOnTogether` who may go on in one step, and `JourneyIsOrderly` derives the order and
the room from `InOrder` and `Pairing`. In CalmProofs, `ActIsStep` shows that a tick of
the closed loop is a step of Steady, and `AckIsSteady` that the operator, who confirms
what stands on the line, confirms what Steady lets him: the belief, or the picture
after the whole move.

*The closed loop*, for any number of halts, pauses and flash units and on the type
invariant of the open machine alone: `LInv` does not need the pattern. `Counted` says
that pending is queue plus the intent waited for plus what is finished and not
collected, and that a faulted machine has the latch set. `OnTask` says what may be
queued or waited for in each phase (`Expected`); after a fault the worker may still
be at what the fault overtook, and then the safe pose stands behind it and holds the
machine, which is why an early acknowledgement cannot start a move beside it.
`ShutterObeys` ties the shutter to the worker's command; `ShutterSeen` is the stale
read: the snapshot a tick acts on may be older than the shutter, but while the
machine waits to move the train nobody can command the shutter, so a picture that
shows it open is still true. `Moving` is the interlock with the queue included. There
is one lemma per step or family of steps (`ActKeeps`, `DeviceCallsKeep`,
`TrainCallsKeep`, `LandKeeps`, `AckKeeps` and so on), and under it one step per
conjunct.

*Paint under halts*, for any number of halts, train errors and recoveries. A halt
breaks the pattern: books and plant may part, roles may fall out of step. What
`PlaceInv` keeps is what guards.spray_blocked relies on when the batch is queued and
the gun fires several calls later. `Settled`: unless a fault is latched, whenever the
zones stand, everybody stands at a station (or lies towards OUT). The firmware stops a
belt at an arrival, with one exception, the outfeed of F2 alone, which stops the zone
when the part has left; `OutAlone` says that then nobody else is on Z2's belt. That
rests on the books (`PlannedAlone`: they called for no move out of O), so the books must
show who is really at O when a move is planned: `PictureTrue` and `BooksAgree`, for
`CommandShutter` compares them with a picture, and no train runs between that picture
and the move. `SeenClosed` is the stale read: a picture with the shutter closed was
taken while no train move was at work, and none has begun. `SprayHeld` and `GunHeld`
carry it from the submission to the end of the burst. None of this asks when the
operator acknowledges. The shutter does: a worker whose SetShutter("open") a halt
overtook goes on after the acknowledgement, and the tick may act on a picture taken
before. With the worker at rest at the acknowledgement nobody straggles
(`NoStraggler`), a shutter seen closed stays closed (`SeenShut`), and from the
submission on nothing opens it (`SprayShut`). TLC checked every part of both
invariants on the instance of `line_halt` and in simulation with six halts before they
were proved.

*The undisturbed loop*, for any number of parts and pauses, any flash time, and an
operator who pauses, declares and recovers but never halts. The hypothesis
`MaxHalts = 0` is needed: with one halt TLC finds `NoBlowOnWet` and
`OnlyFinishedLeave` violated (section 3), and `BeliefIsTruth` and `HeldPartsDry` too.
Faults still occur: a tick whose picture was read before the move's completion takes
a train move for failed, halts the executor and waits for the operator. `CalmInv`
joins three parts. `Pattern` is the invariant of SteadyProofs, a statement about the
books alone (the lemmas of SteadyProofs and LineProofs about single steps are used as
they are); `LInv` is the invariant of the closed loop; `Calm` ties the books to the
plant. In it, `Truth` says where everybody stands: as in the books `Before` the move,
as in the books that `Arrive` will write `After` it, and in between as `Underway` says,
from the set `gone` of those who left and the set `air` of those between two stations.
`Stage` is the reason that this is manageable: only the newcomer ever leaves ahead of
the others, when Z1 is armed and Z2 not yet. From it follow who departs next
(`LeavesAre`, `WhoLeaves`), which zone stops where (`StopsAre`, `ZonesAre`), that the
parts land in the move of the books (`DepartUnderway`, `LandUnderway`, `ArrivesCalm`),
and that a move never fails (`NoTrainError`). `Seen` is the stale read: a picture taken
outside a move stays true until the tick that acts on it. `SprayGuarded` follows the
batch: from its emission on, the shutter is closed and stays so, and the F1 fan is off,
goes off first, or has nobody wet to blow on. `FansDue` says that whoever owes flash
time at a fan station has its fan or has it queued, with no "off" behind it; a pause
can hold the line only where this gives `HeldPartsDry`. `Undisturbed` says which
faults are left. There is one lemma per step (`TakeCalm`, `FanCallCalm`, `ArmsCalm`,
`DepartCalm`, `ActCalm`, `AckCalm` and so on), and for `Act` one per kind of tick.

*The handshake.* `AcksAreOwn` speaks of one process: after a restart the client may take
an old acknowledgement for its own (`clearcore.py:127`), which the property excepts and
`ContractKept` allows. `ZInv` needs `ZoneAssumption` (at least two request ids) only.
`Programmed` follows the client through its registers: what it has written is what the
call asks, but for a mode that a halt idled. `Requested` relates the three ids
(requested, last executed, acked) and says that an answer which is not to this call is
the work of a disturbance. `Watching` says when the edge memory may be stale: only in a
distance call of a second process over a sensor move of the first, which then times out
and releases the zone. `ContractKept` maps every step of client, registers and firmware
to a step of ZoneContract or to a stutter.

*The composites.* A tool is on for a reason the place in the program gives, or for a
failure that `failed` records (`Switches`); `Ahead(i, op, bar)`, "from place i the
call op still comes, and nothing of bar before it", says so once for the gun, for the
join and for the belt's way back. The programs are written out by place (`SandCalls`,
`CubeCalls` and so on), their plan is checked place by place (`PlanAlways`), and the
steps (`ReturnKeeps`, `RaiseKeeps`, `EndKeeps`) argue from the plan for all programs.

*The legacy route*, from `LegacyAssumption` alone (`MaxParts` and `MaxTroubles` natural,
`FlashSeconds > 0`). `FeedIsWatched` needs only that the machine is neither faulted nor
paused inside a step (`FeedInv`), since a step's end may switch the belt on again;
`PausePasses` is its half about the pass of a paused loop. The other three need to know
where parts are, and the books alone do not say: a fault in mid-move leaves the belt one
beat ahead of them, a crash leaves the state file any number of beats behind, and the
operator then confirms what stands on the belt, perhaps in a beat that is not its own.
`PatternInv` therefore speaks of three pictures. `Belt` says what the belt really
carries in each beat (nobody at F1 but in P3, nobody at F2 in P3, and its parts in their
order of entry); `Fits`, said once for the books and once for the file, that the parts
on it have left the queue and not the line, and that whoever waits at F2 for the way out
has both coats, unless those books still have it in their queue; `Follows`, that books
whose parts stand on the belt are at most one beat behind it, which limits what a beat
that nobody sent can be; `Lag` and `CoatsSaved`, how far the file may be behind (a coat
is saved before the departure gate is read again, which is why a crash in the move that
follows cannot lose one); `Believed`, that a live machine's picture is the belt's, and
its beat too unless somebody was misled; `Pending`, who is at the staging eye; `Worked`
and `Gated`, what the earlier phases of the beat have done. `Shipped` asks both coats of
whoever is completed unless somebody was misled; order, identities and gates are claimed
even then. `Keep` covers the steps that leave the belt and its books alone,
`EntersKeeps` a new identity, `Moved`, `AdvancedFits` and `ShipsInOrder` a move of the
belt, `Ends` the faults and ends of a process. `LegacyTypeOK` bounds the lists of the
books by the identities ever handed out: they hold no identity twice, and a list without
repetition is no longer than its range.

*The belt verbs*, for every geometry that `FeedAssumption` admits, any number of cubes,
request ids, faults, failing pauses, dead loops, restarts and confirmations, with no
further hypothesis. `FeedInv` has two parts. `Core` holds however the cubes stand:
where each verb stands (`Places`), that a running coil has a watch or a chain to stop it
(`CoilInv`), that the id counter is the firmware's (`Requests`), types, the books as
far as they are the caller's own (`Books`, `Control`), and when Z2 is at rest
(`AtRest`). It carries `CoilWatched`, `RequestsFire` and `FeedTypeCorrect`.
`Placed` says where the cubes are, and holds while nobody is astray. For a line that works
it is `Sound`: the queue on Z1 is a row of which only the head (`Lead`) and the one
behind it (`Second`) matter (`Queue`); each chain lists the edges that still have to
pass, which fixes how far the cube that makes them has come (`Follows`, `Waits`, or
`Missed` if it was lifted off), verb by verb in `Feed`; the parts of the books stand on
Z2 at their station, less what is left of the move under way and with what a nudge
in vain has added (`Belt`, `Adrift`, `MadeUp`). For a faulted or deserted line it is
`Stopped`, which is much weaker: the queue is in order, Z1 is off, and the head of the
queue is before the junction or was being taken in, and cannot leave Z2's end in what is
left of its move. There is one lemma per action that keeps `Sound` (`ArmKeeps`,
`PollArrivalKeeps`, `StageKeeps` and so on); a fault takes `Sound` to `Stopped`
(`GiveUpKeeps`, `DiesKeeps`), and only the operator takes `Stopped` back to `Sound`:
`SweptSound` shows that his picture suffices, because it puts everybody of the books in
place and nobody else past the junction. `OnceAstray` shows that nobody but the operator
takes the flag back. A tick is proved in general (`Pushed`, `Ticked`: who moves, and that
nobody runs into anybody) and then for the queue, the feed and each verb
(`TickQueue`, `TickFeed`, `TickBelt`). TLC checked both parts as invariants of the run
`feed` before they were proved. The proof
found two flaws of the model: positions were computed by a CASE with overlapping guards,
of which TLC takes the first and TLA+ any, and the geometry has to leave a gap between
neighbouring stations, or the eye at O never goes dark between two parts and misses an
edge.

Only model-checked: under halts, the shutter's third of `SprayEnclosed` for an operator
who acknowledges while the worker is still at a shutter command (run `line_halt`, one
halt). The batch is then kept from the open shutter only by the schedule, which has no
coat due at O once the shutter was told to open, and a halt disturbs the schedule.
Liveness (`AllOutfed`, `EntrantsLeave`,
`AckAnswered`, `VerbsEnd`) is beyond the prover, with ENABLED. There are no RECURSIVE
operators.

## 5. Not modelled, and plan

1. *What an operator types*: `resume` and `ack_fault` check a confirmed occupancy
   against the presence sensors only; Machine lets him name parts the line still has,
   each at one station, and the legacy models what stands on the belt or what the
   books say.
2. *Restart*: the snapshot file of the rewrite (`persistence.py`), its throttle,
   `as_restored` and the recovery after it. The legacy route's state file, with
   crashes inside the write, is in LegacySequencer.
3. Debounce of the eyes; the dozen reads of one snapshot.
4. Proofs: the closed shutter during the burst for an operator who acknowledges at any
   time, with the part of the pattern that survives a halt.

Left out for good: pairing advice (a pure function whose answer nothing depends
on), the simulated twins' internals beyond what the firmware does, HTTP routing,
YAML parsing, the UR dashboard and upload protocol and the scripts, which are I/O
without state of their own that a property could relate.
