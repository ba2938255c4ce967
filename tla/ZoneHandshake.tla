---------------------------- MODULE ZoneHandshake ----------------------------
(***************************************************************************)
(* One conveyor zone between ClearCoreClient (devices/clearcore.py) and the *)
(* firmware loop (firmware.cpp): the client writes and polls one register   *)
(* at a time, the firmware runs whole loops, at least one after each write  *)
(* (a request waits for its response, and a loop serves one request of a    *)
(* connection). Between any two of these steps Executor.halt may idle the   *)
(* zone from another thread, heartbeats may fail and come back, or the      *)
(* orchestrator process may be restarted.                                   *)
(*                                                                         *)
(* Abstractions: one zone with one eye; a sensor target is the edge it      *)
(* stops on, a distance "far" or unset; request ids wrap at MaxId (65535 in *)
(* the code). MODE_CONTINUOUS has no caller and is left out. The eye is the *)
(* debounced value, which changes in the firmware's loop only.              *)
(***************************************************************************)
EXTENDS Naturals, Sequences

CONSTANTS
  MaxId,        \* largest request id
  Kinds,        \* the disturbances that may happen: "halt", "trip", "restart"
  MaxTroubles   \* bound on their number

ASSUME ZoneAssumption ==
  MaxId \in Nat \ {0, 1} /\ Kinds \subseteq {"halt", "trip", "restart"} /\ MaxTroubles \in Nat

VARIABLES
  pc,         \* next register step of the client's call; "idle" between calls
  call,       \* the move it asks for
  outcome,    \* how the last call ended
  id,         \* ClearCoreClient._request_id
  reg,        \* the registers the client writes
  due,        \* a write of the client awaits its loop
  last,       \* ZoneBlock.lastReqId
  ack, state, \* the registers the firmware writes
  move,       \* the last move the firmware started
  running,    \* the motor executes it (edgeArmed, or moveActive)
  finished,   \* it ran to its own end
  eye, prev,  \* the debounced eye, and edgePrev
  fresh,      \* the heartbeat register differs from lastHeartbeat
  watched,    \* watchdogArmed
  tripped,    \* REG_WATCHDOG_TRIPPED
  mine,       \* the firmware started the call in progress on its own id
  disturbed,  \* halted or tripped since a move last began
  restarted,  \* this is not the first process
  troubles

client   == <<pc, call, outcome, id>>
motor    == <<move, running, finished>>
loop     == <<last, ack, state, motor, eye, prev, fresh, watched, tripped>>
firmware == <<due, loop>>
zvars    == <<client, reg, firmware, mine, disturbed, restarted, troubles>>

-----------------------------------------------------------------------------
Move(k, d, a) == [kind |-> k, down |-> d, arg |-> a]

NoMove == Move("none", TRUE, "none")

\* A move to each edge, and one by a distance.
Calls == {Move("until", TRUE, "rising"), Move("until", FALSE, "falling"), Move("mm", TRUE, "far")}

\* The order in which move_zone_until and move_zone_mm write their registers.
Order_IdBeforeDistance(k) ==
  IF k = "until" THEN <<"dir", "target", "mode", "reqid">> ELSE <<"dir", "mode", "reqid", "dist">>

Order(k) ==
  IF k = "until" THEN <<"dir", "target", "mode", "reqid">> ELSE <<"dir", "mode", "dist", "reqid">>

After(k, r) ==
  LET i == CHOOSE n \in 1 .. 4 : Order(k)[n] = r
  IN  IF i = 4 THEN "ack" ELSE Order(k)[i + 1]

NextId_Reused(n) == IF n = 0 THEN 1 ELSE n

NextId(n) == (n % MaxId) + 1

-----------------------------------------------------------------------------
(***************************************************************************)
(* The client.                                                              *)
(***************************************************************************)
\* Bound: MaxId calls in a row are never all left without an ack.
IdsLeft == NextId(id) # ack \/ restarted

Call(c) ==
  /\ pc = "idle" /\ IdsLeft
  /\ call' = c /\ pc' = "dir" /\ outcome' = "none" /\ mine' = FALSE
  /\ UNCHANGED <<id, reg, firmware, disturbed, restarted, troubles>>

Written(r) ==
  IF r = "dir" THEN call.down
  ELSE IF r = "mode" THEN call.kind
  ELSE IF r = "reqid" THEN NextId(id)
  ELSE call.arg

Write ==
  /\ pc \in DOMAIN reg /\ ~due
  /\ due' = TRUE
  /\ reg' = [reg EXCEPT ![pc] = Written(pc)]
  /\ id' = IF pc = "reqid" THEN NextId(id) ELSE id
  /\ pc' = After(call.kind, pc)
  /\ UNCHANGED <<call, outcome, loop, mine, disturbed, restarted, troubles>>

AckSeen ==
  /\ pc = "ack" /\ ~due /\ ack = id
  /\ pc' = "ready"
  /\ UNCHANGED <<call, outcome, id, reg, firmware, mine, disturbed, restarted, troubles>>

\* wait_zone_ready. After a sensor-stop move TrainMover idles the zone.
ReadySeen ==
  /\ pc = "ready" /\ state = "ready"
  /\ pc' = IF call.kind = "until" THEN "release" ELSE "idle"
  /\ outcome' = "ok"
  /\ UNCHANGED <<call, id, reg, firmware, mine, disturbed, restarted, troubles>>

\* Two seconds without an ack are many firmware loops: only a firmware that
\* does not look at the request lets them pass. A sensor edge may not come at
\* all. Either way the exception idles the zone, in TrainMover or Executor.
TimeOut ==
  /\ \/ pc = "ack" /\ ~due /\ ack # id /\ (tripped \/ reg.mode = "idle")
     \/ pc = "ready" /\ state = "moving" /\ move.kind = "until"
  /\ pc' = "release" /\ outcome' = "error"
  /\ UNCHANGED <<call, id, reg, firmware, mine, disturbed, restarted, troubles>>

Release ==
  /\ pc = "release" /\ ~due
  /\ due' = TRUE
  /\ reg' = [reg EXCEPT !.mode = "idle"]
  /\ pc' = "idle"
  /\ UNCHANGED <<call, outcome, id, loop, mine, disturbed, restarted, troubles>>

Trouble(k) ==
  /\ k \in Kinds /\ troubles < MaxTroubles
  /\ troubles' = troubles + 1

\* Executor.halt, from another thread.
Halt ==
  /\ Trouble("halt")
  /\ reg' = [reg EXCEPT !.mode = "idle"]
  /\ disturbed' = TRUE
  /\ UNCHANGED <<client, firmware, mine, restarted>>

\* A new process starts to count at 0; the firmware runs on. Bound: once.
Restart ==
  /\ ~restarted /\ Trouble("restart")
  /\ pc' = "idle" /\ call' = NoMove /\ id' = 0 /\ outcome' = "none"
  /\ mine' = FALSE /\ disturbed' = TRUE /\ restarted' = TRUE
  /\ UNCHANGED <<reg, firmware>>

\* Supervisor.tick and idle_tick, on the loop thread.
Heartbeat ==
  /\ ~fresh
  /\ fresh' = TRUE
  /\ UNCHANGED <<client, reg, due, last, ack, state, motor, eye, prev, watched, tripped,
                 mine, disturbed, restarted, troubles>>

-----------------------------------------------------------------------------
(***************************************************************************)
(* The firmware: one whole loop a step, sensors first, then the watchdog,   *)
(* then the zone.                                                           *)
(***************************************************************************)
Armed  == running /\ move.kind = "until"
Active == running /\ move.kind = "mm"

\* Tripped, or idled: whatever the request says, the belt stops.
Disarm_EatsRequest ==
  /\ running' = FALSE /\ state' = "ready" /\ last' = reg.reqid
  /\ UNCHANGED <<ack, move, finished, prev, mine>>

Disarm_StaysMoving ==
  /\ running' = FALSE
  /\ UNCHANGED <<last, ack, state, move, finished, prev, mine>>

Disarm ==
  /\ running' = FALSE /\ state' = "ready"
  /\ UNCHANGED <<last, ack, move, finished, prev, mine>>

\* A request id that differs from the last one seen starts a move on whatever
\* the other registers hold.
Start(arg) ==
  /\ reg.reqid # last
  /\ last' = reg.reqid /\ ack' = reg.reqid /\ state' = "moving"
  /\ move' = Move(reg.mode, reg.dir, arg) /\ running' = TRUE /\ finished' = FALSE
  /\ mine' = (pc = "ack" /\ reg.reqid = id)

SensorStop_StaleLevel ==
  /\ reg.mode = "until"
  /\ \/ Start(reg.target) /\ UNCHANGED prev
     \/ /\ reg.reqid = last /\ Armed /\ eye' # prev /\ eye' = (move.arg = "rising")
        /\ running' = FALSE /\ state' = "ready" /\ finished' = TRUE /\ prev' = eye'
        /\ UNCHANGED <<last, ack, move, mine>>
     \/ /\ reg.reqid = last /\ ~(Armed /\ eye' # prev /\ eye' = (move.arg = "rising"))
        /\ prev' = IF Armed THEN eye' ELSE prev
        /\ UNCHANGED <<last, ack, state, motor, mine>>

EdgeSeen == Armed /\ eye' # prev /\ eye' = (move.arg = "rising")

SensorStop ==
  /\ reg.mode = "until"
  /\ \/ Start(reg.target) /\ prev' = eye'
     \/ /\ reg.reqid = last /\ EdgeSeen
        /\ running' = FALSE /\ state' = "ready" /\ finished' = TRUE /\ prev' = eye'
        /\ UNCHANGED <<last, ack, move, mine>>
     \/ /\ reg.reqid = last /\ ~EdgeSeen
        /\ prev' = IF Armed THEN eye' ELSE prev
        /\ UNCHANGED <<last, ack, state, motor, mine>>

\* StepsComplete comes at some loop after the start.
Distance ==
  /\ reg.mode = "mm"
  /\ UNCHANGED prev
  /\ \/ Start(reg.dist)
     \/ /\ reg.reqid = last /\ Active
        /\ running' = FALSE /\ state' = "ready" /\ finished' = TRUE
        /\ UNCHANGED <<last, ack, move, mine>>
     \/ reg.reqid = last /\ UNCHANGED <<last, ack, state, motor, mine>>

Loop(late) ==
  LET trip == ~fresh /\ (tripped \/ late)
  IN  /\ late => watched
      /\ eye' \in BOOLEAN
      /\ due' = FALSE /\ fresh' = FALSE /\ watched' = (watched \/ fresh) /\ tripped' = trip
      /\ IF trip /\ ~tripped THEN Trouble("trip") ELSE troubles' = troubles
      /\ IF trip \/ reg.mode = "idle" THEN Disarm ELSE SensorStop \/ Distance
      /\ disturbed' = (trip \/ (disturbed /\ ~(mine' /\ ~mine)))
      /\ UNCHANGED <<client, reg, restarted>>

FirmwareLoop == \E late \in BOOLEAN : Loop(late)

-----------------------------------------------------------------------------
Init ==
  /\ pc = "idle" /\ call = NoMove /\ outcome = "none" /\ id = 0
  /\ reg = [dir |-> FALSE, target |-> "none", dist |-> "none", mode |-> "idle", reqid |-> 0]
  /\ due = FALSE /\ last = 0 /\ ack = 0 /\ state = "ready"
  /\ move = NoMove /\ running = FALSE /\ finished = FALSE
  /\ eye \in BOOLEAN /\ prev = FALSE
  /\ fresh = FALSE /\ watched = FALSE /\ tripped = FALSE
  /\ mine = FALSE /\ disturbed = FALSE
  /\ restarted = FALSE /\ troubles = 0

CallGoesOn == Write \/ AckSeen \/ ReadySeen \/ TimeOut \/ Release

Next == \/ \E c \in Calls : Call(c)
        \/ CallGoesOn \/ Halt \/ Restart \/ Heartbeat \/ FirmwareLoop

Spec == Init /\ [][Next]_zvars

\* The firmware loops for ever and a call that has begun is carried on.
FairSpec == Spec /\ WF_zvars(FirmwareLoop) /\ WF_zvars(CallGoesOn)

-----------------------------------------------------------------------------
ZoneTypeOK ==
  /\ pc \in {"idle", "dir", "target", "mode", "dist", "reqid", "ack", "ready", "release"}
  /\ call \in Calls \cup {NoMove} /\ outcome \in {"none", "ok", "error"}
  /\ id \in 0 .. MaxId /\ last \in 0 .. MaxId /\ ack \in 0 .. MaxId
  /\ reg.reqid \in 0 .. MaxId /\ reg.mode \in {"idle", "until", "mm"}
  /\ state \in {"ready", "moving"} /\ (state = "moving" <=> running)

(***************************************************************************)
(* "poll ack == id (move accepted and running)" (devices/clearcore.py): a   *)
(* client that has seen its ack knows that the firmware started this very   *)
(* call's move, on this call's registers, whatever halts and trips left     *)
(* behind. Within one process: after a restart the first id may equal the   *)
(* one the firmware remembers, whose ack still stands.                      *)
(***************************************************************************)
AckMeansStarted == pc = "ready" /\ ~restarted => mine /\ move = call

(***************************************************************************)
(* EDGES, not levels (devices/registers.py, SensorTarget): a sensor-stop    *)
(* move ends itself only at a change of the eye to the wanted side, never   *)
(* at a level it finds or at one left over from an earlier move.            *)
(***************************************************************************)
StopsOnEdge ==
  [][Armed /\ finished' /\ ~finished
       => eye' # eye /\ eye' = (move.arg = "rising")]_zvars

(***************************************************************************)
(* The handshake keeps the contract of a zone, with halts, trips and         *)
(* restarts as its disturbances: the next move that begins heals them.      *)
(***************************************************************************)
Contract == INSTANCE ZoneContract WITH
  asked <- IF pc \in {"idle", "release"} THEN NoMove ELSE call,
  begun <- mine,
  belt <- IF running THEN move ELSE NoMove

KeepsContract == Contract!Spec

(***************************************************************************)
(* A client never waits in vain for an ack: it comes, unless the zone is    *)
(* idled or the watchdog has tripped, and then the time-out does.           *)
(***************************************************************************)
AckAnswered == pc = "ack" ~> pc # "ack"
=============================================================================
