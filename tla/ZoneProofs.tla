------------------------------ MODULE ZoneProofs ------------------------------
(***************************************************************************)
(* Proofs about ZoneHandshake, for every range of request ids, every set of *)
(* disturbances and every number of them: the acknowledgement means what    *)
(* the client takes it for, a sensor move ends on an edge, and the          *)
(* handshake implements ZoneContract.                                       *)
(***************************************************************************)
EXTENDS ZoneHandshake, TLAPS

Registers == {"dir", "target", "mode", "dist", "reqid"}

\* What the firmware can be made to execute.
Started == [kind : {"until", "mm"}, down : BOOLEAN, arg : {"none", "rising", "falling", "far"}]

\* The values of all variables, in more detail than ZoneTypeOK.
Values ==
  /\ ZoneTypeOK
  /\ reg \in [dir : BOOLEAN, target : {"none", "rising", "falling"}, dist : {"none", "far"},
              mode : {"idle", "until", "mm"}, reqid : 0 .. MaxId]
  /\ move \in Started \cup {NoMove} /\ (running => move \in Started)
  /\ due \in BOOLEAN /\ running \in BOOLEAN /\ finished \in BOOLEAN
  /\ eye \in BOOLEAN /\ prev \in BOOLEAN
  /\ fresh \in BOOLEAN /\ watched \in BOOLEAN /\ tripped \in BOOLEAN
  /\ mine \in BOOLEAN /\ disturbed \in BOOLEAN /\ restarted \in BOOLEAN
  /\ troubles \in Nat

\* The client is at a register its call writes, and the registers behind it
\* hold the call, but for the mode a halt may have idled.
Programmed ==
  /\ pc \in Registers \cup {"ack", "ready"} => call \in Calls
  /\ pc = "target" => call.kind = "until"
  /\ pc = "dist" => call.kind = "mm"
  /\ pc \in {"target", "mode", "dist", "reqid", "ack"} => reg.dir = call.down
  /\ pc \in {"mode", "reqid", "ack"} /\ call.kind = "until" => reg.target = call.arg
  /\ pc \in {"reqid", "ack"} /\ call.kind = "mm" => reg.dist = call.arg
  /\ pc \in {"dist", "reqid", "ack"} => reg.mode = call.kind \/ (reg.mode = "idle" /\ disturbed)

\* Which request the firmware has answered. A request left unanswered, or an
\* answer that is not to this call, is the work of a disturbance.
Requested ==
  /\ ack = last
  /\ mine => last = reg.reqid /\ move = call /\ pc \notin Registers
  /\ pc = "ack" => reg.reqid = id
  /\ pc = "ready" => reg.reqid = last
  /\ pc # "ack" /\ reg.reqid # last => disturbed
  /\ ~restarted \/ ~disturbed => reg.reqid = id
  /\ ~restarted /\ pc \in Registers => NextId(id) # last
  /\ pc = "ready" \/ (pc = "ack" /\ last = id) => mine \/ (restarted /\ disturbed)
  /\ tripped => disturbed

\* The zone is released: nothing runs, or the loop that stops it comes before
\* the next write.
Releasing == reg.mode = "idle" /\ due /\ pc \in {"idle", "dir"}

\* The edge memory is that of the last loop. Only a distance call of a second
\* process, made while a sensor move of the first still runs, lets it go
\* stale, and that call times out and releases the zone.
Watching ==
  /\ Armed /\ (reg.mode = "mm" \/ prev # eye)
       => restarted /\ reg.mode # "until"
            /\ (Releasing \/ (/\ call.kind = "mm"
                              /\ pc \in {"dist", "reqid", "ack", "ready", "release"}))
  /\ ~restarted /\ pc \in {"idle", "dir", "target", "mode"}
       => (running => Releasing) /\ (reg.mode = "idle" \/ reg.reqid = last)

ZInv == Values /\ Programmed /\ Requested /\ Watching

-----------------------------------------------------------------------------
(***************************************************************************)
(* Request ids: the next one is in range, and is another one.               *)
(***************************************************************************)
LEMMA NextIdDiffers ==
  ASSUME NEW n \in 0 .. MaxId
  PROVE  NextId(n) \in 1 .. MaxId /\ NextId(n) # n
<1>1. MaxId \in Nat /\ MaxId >= 2
  BY ZoneAssumption
<1>2. CASE n = MaxId
  <2>1. n % MaxId = 0
    BY <1>1, <1>2
  <2> QED
    BY <1>1, <1>2, <2>1 DEF NextId
<1>3. CASE n < MaxId
  <2>1. n % MaxId = n
    BY <1>1, <1>3
  <2> QED
    BY <1>1, <1>3, <2>1 DEF NextId
<1> QED
  BY <1>1, <1>2, <1>3

(***************************************************************************)
(* The register that follows in each of the two orders of writing.          *)
(***************************************************************************)
LEMMA AfterRegister ==
  /\ After("until", "dir") = "target" /\ After("until", "target") = "mode"
  /\ After("until", "mode") = "reqid" /\ After("until", "reqid") = "ack"
  /\ After("mm", "dir") = "mode" /\ After("mm", "mode") = "dist"
  /\ After("mm", "dist") = "reqid" /\ After("mm", "reqid") = "ack"
<1>1. \A k \in {"until", "mm"}, i \in 1 .. 4 :
        (CHOOSE n \in 1 .. 4 : Order(k)[n] = Order(k)[i]) = i
  BY DEF Order
<1>2. ASSUME NEW k \in {"until", "mm"}, NEW i \in 1 .. 4
      PROVE  After(k, Order(k)[i]) = IF i = 4 THEN "ack" ELSE Order(k)[i + 1]
  <2> DEFINE place == CHOOSE n \in 1 .. 4 : Order(k)[n] = Order(k)[i]
  <2>1. place = i
    BY <1>1
  <2>2. After(k, Order(k)[i]) = IF place = 4 THEN "ack" ELSE Order(k)[place + 1]
    BY Zenon DEF After
  <2> HIDE DEF place
  <2> QED
    BY <2>1, <2>2
<1>3. \A k \in {"until", "mm"} : /\ Order(k)[1] = "dir" /\ Order(k)[4] = "reqid"
                                 /\ Order(k)[2] = IF k = "until" THEN "target" ELSE "mode"
                                 /\ Order(k)[3] = IF k = "until" THEN "mode" ELSE "dist"
  BY DEF Order
<1>4. /\ After("until", Order("until")[1]) = Order("until")[2]
      /\ After("until", Order("until")[2]) = Order("until")[3]
      /\ After("until", Order("until")[3]) = Order("until")[4]
      /\ After("until", Order("until")[4]) = "ack"
      /\ After("mm", Order("mm")[1]) = Order("mm")[2]
      /\ After("mm", Order("mm")[2]) = Order("mm")[3]
      /\ After("mm", Order("mm")[3]) = Order("mm")[4]
      /\ After("mm", Order("mm")[4]) = "ack"
  BY <1>2
<1> QED
  BY <1>3, <1>4

(***************************************************************************)
(* Every call names a direction, and what its kind of move needs.           *)
(***************************************************************************)
LEMMA CallFields ==
  /\ NoMove \notin Calls /\ NoMove \notin Started /\ Calls \subseteq Started
  /\ \A c \in Calls : /\ c.down \in BOOLEAN /\ c.kind \in {"until", "mm"}
                      /\ c.kind = "until" => c.arg \in {"rising", "falling"}
                      /\ c.kind = "mm" => c.arg = "far"
                      /\ c = Move(c.kind, c.down, c.arg)
BY DEF Calls, NoMove, Move, Started

(***************************************************************************)
(* The invariant holds at the start.                                        *)
(***************************************************************************)
LEMMA InitKeeps == Init => ZInv
<1> SUFFICES ASSUME Init PROVE ZInv
  OBVIOUS
<1>1. NextId(0) # 0 /\ MaxId \in Nat
  BY NextIdDiffers, ZoneAssumption
<1>2. ZoneTypeOK
  BY <1>1 DEF Init, ZoneTypeOK
<1>3. reg \in [dir : BOOLEAN, target : {"none", "rising", "falling"}, dist : {"none", "far"},
              mode : {"idle", "until", "mm"}, reqid : 0 .. MaxId]
  BY <1>1 DEF Init
<1>4. Values
  BY <1>2, <1>3 DEF Init, Values
<1>5. Programmed
  BY DEF Init, Programmed, Registers
<1>6. Requested
  BY <1>1 DEF Init, Requested, Registers
<1>7. Watching
  BY DEF Init, Watching, Armed
<1> QED
  BY <1>4, <1>5, <1>6, <1>7 DEF ZInv

-----------------------------------------------------------------------------
(***************************************************************************)
(* The client's steps but Write leave the firmware alone.                   *)
(***************************************************************************)
LEMMA CallKeeps == ASSUME ZInv, NEW c \in Calls, Call(c) PROVE ZInv'
<1>0. /\ UNCHANGED <<id, reg, due, last, ack, state, move, running, finished, eye, prev>>
      /\ UNCHANGED <<fresh, watched, tripped, disturbed, restarted, troubles>>
      /\ pc' = "dir" /\ call' = c /\ outcome' = "none" /\ mine' = FALSE
  BY DEF Call, firmware, loop, motor
<1>1. Values'
  <2>1. mine' \in BOOLEAN
    BY <1>0
  <2>2. ZoneTypeOK'
    BY <1>0 DEF ZInv, Values, ZoneTypeOK
  <2> QED
    BY <1>0, <2>1, <2>2 DEF ZInv, Values
<1>2. Programmed' /\ Requested' /\ Watching'
  BY DEF Call, ZInv, Values, ZoneTypeOK, Programmed, Requested, Watching, Releasing, IdsLeft,
         Armed, Registers, firmware, loop, motor
<1> QED
  BY <1>1, <1>2 DEF ZInv

\* Writing one register of the call.
LEMMA WriteKeeps == ASSUME ZInv, Write PROVE ZInv'
<1>1. pc \in Registers /\ call \in Calls
  BY DEF Write, ZInv, Values, Programmed, Registers
<1>2. /\ UNCHANGED <<call, outcome, last, ack, state, move, running, finished, eye, prev>>
      /\ UNCHANGED <<fresh, watched, tripped, mine, disturbed, restarted, troubles>>
      /\ ~due /\ due' = TRUE
      /\ pc' = After(call.kind, pc)
      /\ id' = IF pc = "reqid" THEN NextId(id) ELSE id
  BY DEF Write, loop, motor
<1>3. NextId(id) \in 0 .. MaxId /\ NextId(id) # id
  BY NextIdDiffers DEF ZInv, Values, ZoneTypeOK
<1>4. ~mine
  BY <1>1 DEF ZInv, Requested
<1>5. CASE pc = "dir"
  <2>1. reg' = [reg EXCEPT !.dir = call.down]
    BY <1>5 DEF Write, Written
  <2>2. pc' = IF call.kind = "until" THEN "target" ELSE "mode"
    BY <1>1, <1>2, <1>5, CallFields, AfterRegister
  <2>3. Values'
    BY <1>1, <1>2, <1>5, <2>1, <2>2, CallFields DEF ZInv, Values, ZoneTypeOK
  <2>4. Programmed' /\ Requested' /\ Watching'
    BY <1>1, <1>2, <1>4, <1>5, <2>1, <2>2, CallFields
       DEF ZInv, Values, ZoneTypeOK, Programmed, Requested, Watching, Releasing, Armed, Registers
  <2> QED
    BY <2>3, <2>4 DEF ZInv
<1>6. CASE pc = "target"
  <2>1. reg' = [reg EXCEPT !.target = call.arg]
    BY <1>6 DEF Write, Written
  <2>2. pc' = "mode" /\ call.kind = "until"
    BY <1>1, <1>2, <1>6, AfterRegister DEF ZInv, Programmed
  <2>3. Values'
    BY <1>1, <1>2, <1>6, <2>1, <2>2, CallFields DEF ZInv, Values, ZoneTypeOK
  <2>4. Programmed' /\ Requested' /\ Watching'
    BY <1>1, <1>2, <1>4, <1>6, <2>1, <2>2, CallFields
       DEF ZInv, Values, ZoneTypeOK, Programmed, Requested, Watching, Releasing, Armed, Registers
  <2> QED
    BY <2>3, <2>4 DEF ZInv
<1>7. CASE pc = "mode"
  <2>1. reg' = [reg EXCEPT !.mode = call.kind]
    BY <1>7 DEF Write, Written
  <2>2. pc' = IF call.kind = "until" THEN "reqid" ELSE "dist"
    BY <1>1, <1>2, <1>7, CallFields, AfterRegister
  <2>3. Values'
    BY <1>1, <1>2, <1>7, <2>1, <2>2, CallFields DEF ZInv, Values, ZoneTypeOK
  <2>4. Programmed' /\ Requested' /\ Watching'
    BY <1>1, <1>2, <1>4, <1>7, <2>1, <2>2, CallFields
       DEF ZInv, Values, ZoneTypeOK, Programmed, Requested, Watching, Releasing, Armed, Registers
  <2> QED
    BY <2>3, <2>4 DEF ZInv
<1>8. CASE pc = "dist"
  <2>1. reg' = [reg EXCEPT !.dist = call.arg]
    BY <1>8 DEF Write, Written
  <2>2. pc' = "reqid" /\ call.kind = "mm"
    BY <1>1, <1>2, <1>8, AfterRegister DEF ZInv, Programmed
  <2>3. Values'
    BY <1>1, <1>2, <1>8, <2>1, <2>2, CallFields DEF ZInv, Values, ZoneTypeOK
  <2>4. Programmed' /\ Requested' /\ Watching'
    BY <1>1, <1>2, <1>4, <1>8, <2>1, <2>2, CallFields
       DEF ZInv, Values, ZoneTypeOK, Programmed, Requested, Watching, Releasing, Armed, Registers
  <2> QED
    BY <2>3, <2>4 DEF ZInv
<1>9. CASE pc = "reqid"
  <2>1. reg' = [reg EXCEPT !.reqid = NextId(id)]
    BY <1>9 DEF Write, Written
  <2>2. pc' = "ack" /\ id' = NextId(id)
    BY <1>1, <1>2, <1>9, CallFields, AfterRegister
  <2>3. Values'
    BY <1>1, <1>2, <1>3, <1>9, <2>1, <2>2, CallFields DEF ZInv, Values, ZoneTypeOK
  <2>4. Programmed' /\ Requested' /\ Watching'
    BY <1>1, <1>2, <1>3, <1>4, <1>9, <2>1, <2>2, CallFields
       DEF ZInv, Values, ZoneTypeOK, Programmed, Requested, Watching, Releasing, Armed, Registers
  <2> QED
    BY <2>3, <2>4 DEF ZInv
<1> QED
  BY <1>1, <1>5, <1>6, <1>7, <1>8, <1>9 DEF Registers

\* What the client sees moves it on, and changes no register.
LEMMA SeenKeeps == ASSUME ZInv, AckSeen \/ ReadySeen \/ TimeOut PROVE ZInv'
<1>1. /\ UNCHANGED <<call, id, reg, due, last, ack, state, move, running, finished, eye, prev>>
      /\ UNCHANGED <<fresh, watched, tripped, mine, disturbed, restarted, troubles>>
      /\ outcome' \in {outcome, "ok", "error"}
  BY DEF AckSeen, ReadySeen, TimeOut, firmware, loop, motor
<1>2. \/ pc = "ack" /\ ack = id /\ pc' = "ready"
      \/ pc = "ready" /\ state = "ready" /\ pc' = IF call.kind = "until" THEN "release" ELSE "idle"
      \/ pc \in {"ack", "ready"} /\ pc' = "release" /\ (pc = "ack" => tripped \/ reg.mode = "idle")
  BY DEF AckSeen, ReadySeen, TimeOut
<1>3. Values'
  <2>1. ZoneTypeOK'
    BY <1>1, <1>2 DEF ZInv, Values, ZoneTypeOK
  <2> QED
    BY <1>1, <2>1 DEF ZInv, Values
<1>4. Programmed'
  BY <1>1, <1>2 DEF ZInv, Programmed, Registers
<1>5. Requested'
  BY <1>1, <1>2, CallFields DEF ZInv, Values, Programmed, Requested, Registers
<1>6. Watching'
  BY <1>1, <1>2, CallFields
     DEF ZInv, Values, ZoneTypeOK, Programmed, Requested, Watching, Releasing, Armed, Registers
<1> QED
  BY <1>3, <1>4, <1>5, <1>6 DEF ZInv

\* After a sensor move, or a time-out, the client idles the zone; a halt does so
\* at any time and leaves the client's call where it is.
LEMMA IdledKeeps == ASSUME ZInv, Release \/ Halt PROVE ZInv'
<1>1. /\ UNCHANGED <<call, outcome, id, last, ack, state, move, running, finished, eye, prev>>
      /\ UNCHANGED <<fresh, watched, tripped, mine, restarted>>
      /\ reg' = [reg EXCEPT !.mode = "idle"]
  BY DEF Release, Halt, client, firmware, loop, motor
<1>2. \/ pc = "release" /\ pc' = "idle" /\ due' = TRUE /\ disturbed' = disturbed /\ troubles' = troubles
      \/ pc' = pc /\ due' = due /\ disturbed' = TRUE /\ troubles' = troubles + 1
  BY DEF Release, Halt, Trouble, client, firmware
<1>3. Values'
  <2>1. ZoneTypeOK'
    BY <1>1, <1>2 DEF ZInv, Values, ZoneTypeOK
  <2>2. due' \in BOOLEAN
    BY <1>2 DEF ZInv, Values
  <2>3. disturbed' \in BOOLEAN
    BY <1>2 DEF ZInv, Values
  <2>4. troubles' \in Nat
    BY <1>2 DEF ZInv, Values
  <2>5. reg' \in [dir : BOOLEAN, target : {"none", "rising", "falling"}, dist : {"none", "far"},
                  mode : {"idle", "until", "mm"}, reqid : 0 .. MaxId]
    BY <1>1 DEF ZInv, Values
  <2> QED
    BY <1>1, <2>1, <2>2, <2>3, <2>4, <2>5 DEF ZInv, Values
<1>4. reg'.mode = "idle" /\ reg'.dir = reg.dir /\ reg'.target = reg.target
      /\ reg'.dist = reg.dist /\ reg'.reqid = reg.reqid
  BY <1>1 DEF ZInv, Values
<1>5. Programmed'
  BY <1>1, <1>2, <1>4 DEF ZInv, Programmed, Registers
<1>6. Requested'
  BY <1>1, <1>2, <1>4 DEF ZInv, Values, Requested, Registers
<1>7. Watching'
  BY <1>1, <1>2, <1>4 DEF ZInv, Values, Watching, Releasing, Armed
<1> QED
  BY <1>3, <1>5, <1>6, <1>7 DEF ZInv

\* A new process knows nothing of the last one's call.
LEMMA RestartKeeps == ASSUME ZInv, Restart PROVE ZInv'
<1>1. /\ UNCHANGED <<reg, due, last, ack, state, move, running, finished, eye, prev>>
      /\ UNCHANGED <<fresh, watched, tripped>>
      /\ pc' = "idle" /\ call' = NoMove /\ id' = 0 /\ outcome' = "none"
      /\ mine' = FALSE /\ disturbed' = TRUE /\ restarted' = TRUE /\ troubles' = troubles + 1
      /\ ~restarted
  BY DEF Restart, Trouble, firmware, loop, motor
<1>2. Values'
  <2>1. ZoneTypeOK'
    BY <1>1, ZoneAssumption DEF ZInv, Values, ZoneTypeOK
  <2>2. mine' \in BOOLEAN
    BY <1>1
  <2>3. disturbed' \in BOOLEAN
    BY <1>1
  <2>4. restarted' \in BOOLEAN
    BY <1>1
  <2>5. troubles' \in Nat
    BY <1>1 DEF ZInv, Values
  <2> QED
    BY <1>1, <2>1, <2>2, <2>3, <2>4, <2>5 DEF ZInv, Values
<1>3. Programmed'
  BY <1>1 DEF ZInv, Programmed, Registers
<1>4. Requested'
  BY <1>1 DEF ZInv, Requested, Registers
<1>5. Watching'
  BY <1>1 DEF ZInv, Watching, Armed
<1> QED
  BY <1>2, <1>3, <1>4, <1>5 DEF ZInv

\* A heartbeat is for the watchdog only; a stuttering step changes nothing.
LEMMA HeartbeatKeeps == ASSUME ZInv, Heartbeat \/ UNCHANGED zvars PROVE ZInv'
<1>1. /\ UNCHANGED <<pc, call, outcome, id, reg, due, last, ack, state, move, running, finished>>
      /\ UNCHANGED <<eye, prev, watched, tripped, mine, disturbed, restarted, troubles>>
      /\ fresh' \in BOOLEAN
  BY DEF Heartbeat, ZInv, Values, zvars, client, firmware, loop, motor
<1>2. Values'
  <2>1. ZoneTypeOK'
    BY <1>1 DEF ZInv, Values, ZoneTypeOK
  <2> QED
    BY <1>1, <2>1 DEF ZInv, Values
<1>3. Programmed' /\ Requested' /\ Watching'
  BY <1>1 DEF ZInv, Programmed, Requested, Watching, Releasing, Armed
<1> QED
  BY <1>2, <1>3 DEF ZInv

-----------------------------------------------------------------------------
(***************************************************************************)
(* What one loop of the firmware comes to.                                  *)
(***************************************************************************)
LoopLeaves ==
  /\ UNCHANGED <<pc, call, outcome, id, reg, restarted>>
  /\ due' = FALSE /\ fresh' = FALSE
  /\ eye' \in BOOLEAN /\ prev' \in BOOLEAN /\ watched' \in BOOLEAN /\ tripped' \in BOOLEAN
  /\ troubles' \in Nat

\* Tripped or idled.
Disarms ==
  /\ tripped' \/ reg.mode = "idle"
  /\ running' = FALSE /\ state' = "ready"
  /\ UNCHANGED <<last, ack, move, finished, prev, mine>>
  /\ disturbed' = (tripped' \/ disturbed)

Starts ==
  /\ ~tripped' /\ reg.mode # "idle" /\ reg.reqid # last
  /\ last' = reg.reqid /\ ack' = reg.reqid /\ state' = "moving"
  /\ running' = TRUE /\ finished' = FALSE
  /\ move' = Move(reg.mode, reg.dir, IF reg.mode = "until" THEN reg.target ELSE reg.dist)
  /\ mine' = (pc = "ack" /\ reg.reqid = id)
  /\ reg.mode = "until" => prev' = eye'
  /\ disturbed' = (disturbed /\ ~(mine' /\ ~mine))

Ends ==
  /\ ~tripped' /\ reg.reqid = last /\ running /\ reg.mode = move.kind
  /\ running' = FALSE /\ state' = "ready" /\ finished' = TRUE
  /\ move.kind = "until" => eye' # prev /\ eye' = (move.arg = "rising")
  /\ UNCHANGED <<last, ack, move, mine, disturbed>>

RunsOn ==
  /\ ~tripped' /\ reg.mode # "idle" /\ reg.reqid = last
  /\ UNCHANGED <<last, ack, state, move, running, finished, mine, disturbed>>
  /\ Armed /\ reg.mode = "until" => prev' = eye'

(***************************************************************************)
(* A loop stops the belt, starts a move, sees one end or lets it run.       *)
(***************************************************************************)
LEMMA LoopDoes ==
  ASSUME Values, FirmwareLoop
  PROVE  LoopLeaves /\ (Disarms \/ Starts \/ Ends \/ RunsOn)
<1> PICK late \in BOOLEAN : Loop(late)
  BY DEF FirmwareLoop
<1> DEFINE trip == ~fresh /\ (tripped \/ late)
<1>1. /\ UNCHANGED <<pc, call, outcome, id, reg, restarted>>
      /\ due' = FALSE /\ fresh' = FALSE /\ watched' = (watched \/ fresh) /\ tripped' = trip
      /\ eye' \in BOOLEAN
  BY DEF Loop, client
<1>2. disturbed' = (tripped' \/ (disturbed /\ ~(mine' /\ ~mine)))
  BY DEF Loop
<1>3. IF tripped' \/ reg.mode = "idle" THEN Disarm ELSE SensorStop \/ Distance
  BY DEF Loop
<1>4. troubles' \in Nat
  BY DEF Loop, Trouble, Values
<1>5. watched' \in BOOLEAN /\ tripped' \in BOOLEAN
  BY <1>1 DEF Values
<1> HIDE DEF trip
<1>6. CASE tripped' \/ reg.mode = "idle"
  <2>1. /\ running' = FALSE /\ state' = "ready"
        /\ UNCHANGED <<last, ack, move, finished, prev, mine>>
    BY <1>3, <1>6 DEF Disarm
  <2>2. Disarms
    BY <1>2, <1>6, <2>1 DEF Disarms
  <2>3. prev' \in BOOLEAN
    BY <2>1 DEF Values
  <2> QED
    BY <1>1, <1>4, <1>5, <2>2, <2>3 DEF LoopLeaves
<1>7. CASE ~tripped' /\ reg.mode # "idle"
  <2>1. CASE SensorStop
    <3>1. CASE Start(reg.target) /\ prev' = eye'
      <4>1. Starts
        BY <1>2, <1>7, <2>1, <3>1 DEF Starts, Start, SensorStop
      <4> QED
        BY <1>1, <1>4, <1>5, <3>1, <4>1 DEF LoopLeaves
    <3>2. CASE /\ reg.reqid = last /\ EdgeSeen
               /\ running' = FALSE /\ state' = "ready" /\ finished' = TRUE /\ prev' = eye'
               /\ UNCHANGED <<last, ack, move, mine>>
      <4>0. disturbed' = disturbed
        BY <1>2, <1>7, <3>2 DEF Values
      <4>1. Ends
        BY <1>7, <2>1, <3>2, <4>0 DEF Ends, SensorStop, EdgeSeen, Armed
      <4> QED
        BY <1>1, <1>4, <1>5, <3>2, <4>1 DEF LoopLeaves
    <3>3. CASE /\ reg.reqid = last /\ ~EdgeSeen
               /\ prev' = IF Armed THEN eye' ELSE prev
               /\ UNCHANGED <<last, ack, state, motor, mine>>
      <4>0. disturbed' = disturbed
        BY <1>2, <1>7, <3>3 DEF Values
      <4>1. RunsOn
        BY <1>7, <3>3, <4>0 DEF RunsOn, motor
      <4>2. prev' \in BOOLEAN
        BY <1>1, <3>3 DEF Values
      <4> QED
        BY <1>1, <1>4, <1>5, <4>1, <4>2 DEF LoopLeaves
    <3> QED
      BY <2>1, <3>1, <3>2, <3>3 DEF SensorStop
  <2>2. CASE Distance
    <3>0. reg.mode = "mm" /\ prev' = prev /\ prev' \in BOOLEAN
      BY <2>2 DEF Distance, Values
    <3>1. CASE Start(reg.dist)
      <4>1. Starts
        BY <1>2, <1>7, <3>0, <3>1 DEF Starts, Start
      <4> QED
        BY <1>1, <1>4, <1>5, <3>0, <4>1 DEF LoopLeaves
    <3>2. CASE /\ reg.reqid = last /\ Active
               /\ running' = FALSE /\ state' = "ready" /\ finished' = TRUE
               /\ UNCHANGED <<last, ack, move, mine>>
      <4>0. disturbed' = disturbed
        BY <1>2, <1>7, <3>2 DEF Values
      <4>1. Ends
        BY <1>7, <3>0, <3>2, <4>0 DEF Ends, Active
      <4> QED
        BY <1>1, <1>4, <1>5, <3>0, <4>1 DEF LoopLeaves
    <3>3. CASE reg.reqid = last /\ UNCHANGED <<last, ack, state, motor, mine>>
      <4>0. disturbed' = disturbed
        BY <1>2, <1>7, <3>3 DEF Values
      <4>1. RunsOn
        BY <1>7, <3>0, <3>3, <4>0 DEF RunsOn, motor
      <4> QED
        BY <1>1, <1>4, <1>5, <3>0, <4>1 DEF LoopLeaves
    <3> QED
      BY <2>2, <3>1, <3>2, <3>3 DEF Distance
  <2> QED
    BY <1>3, <1>7, <2>1, <2>2
<1> QED
  BY <1>5, <1>6, <1>7

\* The firmware's loop, whatever it finds.
LEMMA LoopKeeps == ASSUME ZInv, FirmwareLoop PROVE ZInv'
<1>0. Values
  BY DEF ZInv
<1>1. LoopLeaves /\ (Disarms \/ Starts \/ Ends \/ RunsOn)
  BY <1>0, LoopDoes
<1>2. CASE Disarms
  <2>1. ZoneTypeOK'
    BY <1>0, <1>1, <1>2 DEF LoopLeaves, Disarms, Values, ZoneTypeOK
  <2>2. disturbed' \in BOOLEAN
    BY <1>2 DEF Disarms
  <2>3. due' \in BOOLEAN /\ fresh' \in BOOLEAN
    BY <1>1 DEF LoopLeaves
  <2>4. running' \in BOOLEAN
    BY <1>2 DEF Disarms
  <2>5. Values'
    BY <1>0, <1>1, <1>2, <2>1, <2>2, <2>3, <2>4 DEF LoopLeaves, Disarms, Values
  <2>6. Programmed'
    BY <1>0, <1>1, <1>2 DEF LoopLeaves, Disarms, ZInv, Values, Programmed
  <2>7. Requested'
    BY <1>0, <1>1, <1>2 DEF LoopLeaves, Disarms, ZInv, Values, Requested
  <2>8. Watching'
    BY <1>0, <1>1, <1>2 DEF LoopLeaves, Disarms, ZInv, Values, Watching, Armed
  <2> QED
    BY <2>5, <2>6, <2>7, <2>8 DEF ZInv
<1>3. CASE Starts
  <2>1. ZoneTypeOK'
    BY <1>0, <1>1, <1>3 DEF LoopLeaves, Starts, Values, ZoneTypeOK
  <2>2. disturbed' \in BOOLEAN /\ mine' \in BOOLEAN
    BY <1>3 DEF Starts
  <2>3. due' \in BOOLEAN /\ fresh' \in BOOLEAN
    BY <1>1 DEF LoopLeaves
  <2>4. running' \in BOOLEAN /\ finished' \in BOOLEAN
    BY <1>3 DEF Starts
  <2>5. move' \in Started
    BY <1>0, <1>3 DEF Starts, Started, Move, Values
  <2>6. Values'
    BY <1>0, <1>1, <1>3, <2>1, <2>2, <2>3, <2>4, <2>5 DEF LoopLeaves, Values
  <2>7. Programmed'
    BY <1>0, <1>1, <1>3 DEF LoopLeaves, Starts, ZInv, Values, Programmed
  <2>8. mine' => move' = call
    <3> SUFFICES ASSUME mine' PROVE move' = call
      OBVIOUS
    <3>1. pc = "ack" /\ call \in Calls
      BY <1>3 DEF Starts, ZInv, Programmed
    <3>2. reg.mode = call.kind /\ reg.dir = call.down
      BY <1>3, <3>1 DEF Starts, ZInv, Programmed
    <3>3. (IF reg.mode = "until" THEN reg.target ELSE reg.dist) = call.arg
      BY <3>1, <3>2, CallFields DEF ZInv, Programmed
    <3>4. move' = Move(call.kind, call.down, call.arg)
      BY <1>3, <3>2, <3>3 DEF Starts
    <3>5. call = Move(call.kind, call.down, call.arg)
      BY <3>1, CallFields, Zenon
    <3> QED
      BY <3>4, <3>5, Zenon
  <2>9. Requested'
    <3>1. /\ UNCHANGED <<pc, call, id, reg, restarted>>
          /\ last' = reg.reqid /\ ack' = last' /\ ~tripped' /\ reg.reqid # last
          /\ mine' <=> pc = "ack" /\ reg.reqid = id
      BY <1>1, <1>3 DEF LoopLeaves, Starts
    <3>2. ~disturbed' => mine' \/ ~disturbed
      BY <1>3 DEF Starts
    <3>3. ~restarted' \/ ~disturbed' => reg'.reqid = id'
      BY <3>1, <3>2 DEF ZInv, Requested
    <3>4. ~restarted' /\ pc' \in Registers => NextId(id') # last'
      <4>1. id \in 0 .. MaxId
        BY <1>0 DEF Values, ZoneTypeOK
      <4> QED
        BY <3>1, <4>1, NextIdDiffers DEF ZInv, Requested
    <3>5. pc' = "ready" \/ (pc' = "ack" /\ last' = id') => mine' \/ (restarted' /\ disturbed')
      BY <3>1 DEF ZInv, Requested
    <3>6. ack' = last' /\ last' = reg'.reqid /\ ~tripped'
      BY <3>1
    <3>7. mine' => pc' \notin Registers
      BY <3>1 DEF Registers
    <3>8. pc' = "ack" => reg'.reqid = id'
      BY <3>1 DEF ZInv, Requested
    <3> QED
      BY <2>8, <3>1, <3>3, <3>4, <3>5, <3>6, <3>7, <3>8 DEF Requested
  <2>10. Watching'
    BY <1>0, <1>1, <1>3 DEF LoopLeaves, Starts, ZInv, Values, Requested, Watching, Armed, Move, Releasing
  <2> QED
    BY <2>6, <2>7, <2>9, <2>10 DEF ZInv
<1>4. CASE Ends
  <2>1. ZoneTypeOK'
    BY <1>0, <1>1, <1>4 DEF LoopLeaves, Ends, Values, ZoneTypeOK
  <2>2. finished' \in BOOLEAN
    BY <1>4 DEF Ends
  <2>3. due' \in BOOLEAN /\ fresh' \in BOOLEAN
    BY <1>1 DEF LoopLeaves
  <2>4. running' \in BOOLEAN
    BY <1>4 DEF Ends
  <2>5. Values'
    BY <1>0, <1>1, <1>4, <2>1, <2>2, <2>3, <2>4 DEF LoopLeaves, Ends, Values
  <2>6. Programmed'
    BY <1>0, <1>1, <1>4 DEF LoopLeaves, Ends, ZInv, Values, Programmed
  <2>7. Requested'
    BY <1>0, <1>1, <1>4 DEF LoopLeaves, Ends, ZInv, Values, Requested
  <2>8. Watching'
    BY <1>0, <1>1, <1>4 DEF LoopLeaves, Ends, ZInv, Values, Watching, Armed
  <2> QED
    BY <2>5, <2>6, <2>7, <2>8 DEF ZInv
<1>5. CASE RunsOn
  <2>1. ZoneTypeOK'
    BY <1>0, <1>1, <1>5 DEF LoopLeaves, RunsOn, Values, ZoneTypeOK
  <2>2. due' \in BOOLEAN /\ fresh' \in BOOLEAN
    BY <1>1 DEF LoopLeaves
  <2>3. Values'
    BY <1>0, <1>1, <1>5, <2>1, <2>2 DEF LoopLeaves, RunsOn, Values
  <2>4. Programmed'
    BY <1>0, <1>1, <1>5 DEF LoopLeaves, RunsOn, ZInv, Values, Programmed
  <2>5. Requested'
    BY <1>0, <1>1, <1>5 DEF LoopLeaves, RunsOn, ZInv, Values, Requested
  <2>6. Watching'
    BY <1>0, <1>1, <1>5 DEF LoopLeaves, RunsOn, ZInv, Values, Watching, Armed, Releasing
  <2> QED
    BY <2>3, <2>4, <2>5, <2>6 DEF ZInv
<1> QED
  BY <1>1, <1>2, <1>3, <1>4, <1>5

(***************************************************************************)
(* Every step of the client, the firmware or a disturbance keeps the        *)
(* invariant, so it holds always.                                           *)
(***************************************************************************)
LEMMA NextKeeps == ZInv /\ [Next]_zvars => ZInv'
BY CallKeeps, WriteKeeps, SeenKeeps, IdledKeeps, RestartKeeps, HeartbeatKeeps, LoopKeeps
   DEF Next, CallGoesOn

(***************************************************************************)
(* Theorem: the invariant holds in every reachable state of the handshake,  *)
(* for every width of the request id and any number of faults and halts.    *)
(***************************************************************************)
THEOREM ZoneInvariant == Spec => []ZInv
<1>1. Init => ZInv
  BY InitKeeps
<1>2. ZInv /\ [Next]_zvars => ZInv'
  BY NextKeeps
<1> QED
  BY <1>1, <1>2, PTL DEF Spec

(***************************************************************************)
(* The type invariant: the zone reads moving exactly while its motor runs,  *)
(* and ids stay in the register's range.                                    *)
(***************************************************************************)
THEOREM ZoneTypeCorrect == Spec => []ZoneTypeOK
<1>1. ZInv => ZoneTypeOK
  BY DEF ZInv, Values
<1> QED
  BY <1>1, ZoneInvariant, PTL

(***************************************************************************)
(* "poll ack == id" (devices/clearcore.py): within one process, a client    *)
(* that has seen its ack has its own move, on its own registers, for every  *)
(* number of request ids and through any number of halts and watchdog       *)
(* trips. Nothing is said of a client that was restarted: its first id may  *)
(* be the one whose ack still stands (clearcore.py:127).                    *)
(***************************************************************************)
THEOREM AcksAreOwn == Spec => []AckMeansStarted
<1>1. ZInv => AckMeansStarted
  BY DEF ZInv, Requested, AckMeansStarted
<1> QED
  BY <1>1, ZoneInvariant, PTL

(***************************************************************************)
(* "EDGES, not levels" (devices/registers.py): a sensor move ends itself    *)
(* only in the very loop in which the eye changes to the wanted side.       *)
(***************************************************************************)
LEMMA NextStopsOnEdge ==
  ASSUME ZInv, [Next]_zvars
  PROVE  Armed /\ finished' /\ ~finished => eye' # eye /\ eye' = (move.arg = "rising")
<1> SUFFICES ASSUME Armed, finished', ~finished
             PROVE  eye' # eye /\ eye' = (move.arg = "rising")
  OBVIOUS
<1>1. FirmwareLoop
  BY DEF Next, Call, CallGoesOn, Write, AckSeen, ReadySeen, TimeOut, Release, Halt, Restart,
         Heartbeat, zvars, firmware, loop, motor
<1>2. LoopLeaves /\ (Disarms \/ Starts \/ Ends \/ RunsOn)
  BY <1>1, LoopDoes DEF ZInv
<1>3. Ends /\ reg.mode = "until"
  BY <1>2 DEF Disarms, Starts, RunsOn, Ends, Armed
<1>4. eye' # prev /\ eye' = (move.arg = "rising")
  BY <1>3 DEF Ends, Armed
<1>5. prev = eye
  BY <1>3 DEF ZInv, Watching, Armed, Releasing
<1> QED
  BY <1>4, <1>5

(***************************************************************************)
(* Theorem: "EDGES, not levels": a sensor-stop move ends itself only at a   *)
(* change of its own eye to the wanted side (firmware, devices/registers.py).*)
(***************************************************************************)
THEOREM EdgesStop == Spec => StopsOnEdge
<1>1. ZInv /\ [Next]_zvars
        => [Armed /\ finished' /\ ~finished => eye' # eye /\ eye' = (move.arg = "rising")]_zvars
  BY NextStopsOnEdge
<1> QED
  BY <1>1, ZoneInvariant, PTL DEF Spec, StopsOnEdge

-----------------------------------------------------------------------------
(***************************************************************************)
(* The handshake implements ZoneContract: its initial state is one of the   *)
(* contract's, and every step is a step of the contract or leaves what it   *)
(* speaks of alone.                                                         *)
(***************************************************************************)
Asked == IF pc \in {"idle", "release"} THEN NoMove ELSE call
Belt  == IF running THEN move ELSE NoMove

\* At first the contract's zone is idle too.
LEMMA InitImplements == Init => Contract!Init
BY DEF Init, Contract!Init

\* The client's steps: asking, returning, giving up, and those in between.
LEMMA ClientImplements ==
  ASSUME ZInv, (\E c \in Calls : Call(c)) \/ CallGoesOn
  PROVE  Contract!Next \/ UNCHANGED <<Asked, mine, Belt, outcome, disturbed>>
<1>1. CASE \E c \in Calls : Call(c)
  <2> PICK c \in Calls : Call(c)
    BY <1>1
  <2>1. Contract!Ask(c)
    BY DEF Call, Contract!Ask, firmware, loop, motor
  <2> QED
    BY <2>1 DEF Contract!Next
<1>2. CASE Write
  <2>1. UNCHANGED <<call, mine, running, move, outcome, disturbed>> /\ pc \in Registers
        /\ pc' = After(call.kind, pc)
    BY <1>2 DEF Write, loop, motor, ZInv, Values, Registers
  <2>2. pc' \in Registers \cup {"ack"}
    BY <2>1, CallFields, AfterRegister DEF ZInv, Programmed, Registers
  <2> QED
    BY <2>1, <2>2 DEF Asked, Belt, Registers
<1>3. CASE AckSeen \/ Release
  BY <1>3 DEF AckSeen, Release, Asked, Belt, firmware, loop, motor
<1>4. CASE ReadySeen
  <2>1. pc = "ready" /\ ~running /\ call \in Calls
    BY <1>4 DEF ReadySeen, ZInv, Values, ZoneTypeOK, Programmed
  <2>2. disturbed \/ mine
    BY <2>1 DEF ZInv, Requested
  <2>3. Contract!Return
    BY <1>4, <2>1, <2>2, CallFields DEF ReadySeen, Contract!Return, firmware, loop, motor
  <2> QED
    BY <2>3 DEF Contract!Next
<1>5. CASE TimeOut
  <2>1. pc \in {"ack", "ready"} /\ call \in Calls
    BY <1>5 DEF TimeOut, ZInv, Programmed
  <2>2. disturbed \/ mine
    BY <1>5, <2>1, CallFields DEF TimeOut, ZInv, Requested, Programmed
  <2>3. Contract!GiveUp
    BY <1>5, <2>1, <2>2, CallFields DEF TimeOut, Contract!GiveUp, firmware, loop, motor
  <2> QED
    BY <2>3 DEF Contract!Next
<1> QED
  BY <1>1, <1>2, <1>3, <1>4, <1>5 DEF CallGoesOn

\* The disturbances.
LEMMA DisturbancesImplement ==
  ASSUME ZInv, Halt \/ Restart \/ Heartbeat
  PROVE  Contract!Next \/ UNCHANGED <<Asked, mine, Belt, outcome, disturbed>>
<1>1. CASE Halt
  <2>1. Contract!Disturb
    BY <1>1 DEF Halt, Contract!Disturb, client, firmware, loop, motor
  <2> QED
    BY <2>1 DEF Contract!Next
<1>2. CASE Restart
  <2>1. Contract!Abandon
    BY <1>2 DEF Restart, Contract!Abandon, firmware, loop, motor
  <2> QED
    BY <2>1 DEF Contract!Next
<1>3. CASE Heartbeat
  BY <1>3 DEF Heartbeat, Asked, Belt, client, motor
<1> QED
  BY <1>1, <1>2, <1>3

\* The firmware: it begins the move asked for, or an earlier, disturbed one,
\* stops the belt, or lets it run.
LEMMA LoopImplements ==
  ASSUME ZInv, FirmwareLoop
  PROVE  Contract!Next \/ UNCHANGED <<Asked, mine, Belt, outcome, disturbed>>
<1>1. LoopLeaves /\ (Disarms \/ Starts \/ Ends \/ RunsOn)
  BY LoopDoes DEF ZInv
<1>2. /\ UNCHANGED <<pc, call, outcome>>
      /\ Asked' = Asked
  BY <1>1 DEF LoopLeaves, Asked
<1>3. CASE Disarms
  <2>1. Belt' = NoMove /\ mine' = mine
    BY <1>3 DEF Disarms, Belt
  <2>2. CASE tripped'
    <3>0. disturbed' = TRUE
      <4>1. disturbed'
        BY <1>3, <2>2 DEF Disarms
      <4>2. disturbed' \in BOOLEAN
        BY LoopKeeps DEF ZInv, Values
      <4> QED
        BY <4>1, <4>2
    <3>1. Contract!Disturb
      BY <1>2, <2>1, <3>0 DEF Contract!Disturb, Asked, Belt
    <3> QED
      BY <3>1 DEF Contract!Next
  <2>3. CASE ~tripped'
    <3>1. disturbed' = disturbed
      BY <1>3, <2>3 DEF Disarms, ZInv, Values
    <3>2. CASE Belt = NoMove
      BY <1>2, <2>1, <3>1, <3>2
    <3>3. CASE Belt # NoMove
      <4>1. Contract!Stop
        BY <1>2, <2>1, <3>1, <3>3 DEF Contract!Stop, Asked, Belt
      <4> QED
        BY <4>1 DEF Contract!Next
    <3> QED
      BY <3>2, <3>3
  <2> QED
    BY <2>2, <2>3
<1>4. CASE Starts
  <2>1. ZInv'
    BY LoopKeeps
  <2>2. ~mine
    BY <1>4 DEF Starts, ZInv, Requested
  <2>3. Belt' = move' /\ move' \in Started
    BY <1>4, <2>1 DEF Starts, Belt, ZInv, Values
  <2>4. CASE mine'
    <3>1. pc = "ack" /\ call \in Calls /\ move' = call /\ disturbed' = FALSE
      BY <1>2, <1>4, <2>1, <2>2, <2>4 DEF Starts, ZInv, Programmed, Requested
    <3>2. Asked = call /\ Asked # NoMove
      BY <3>1, CallFields DEF Asked
    <3>3. Contract!Begin
      BY <1>2, <2>2, <2>3, <2>4, <3>1, <3>2 DEF Contract!Begin, Asked, Belt
    <3> QED
      BY <3>3 DEF Contract!Next
  <2>5. CASE ~mine'
    <3>1. disturbed /\ disturbed'
      <4>1. pc # "ack" /\ reg.reqid # last
        BY <1>4, <2>5 DEF Starts, ZInv, Requested
      <4>2. disturbed
        BY <4>1 DEF ZInv, Requested
      <4> QED
        BY <1>4, <2>5, <4>2 DEF Starts
    <3>2. mine' = mine /\ disturbed' = disturbed
      BY <2>1, <2>2, <2>5, <3>1 DEF ZInv, Values
    <3>3. Contract!Stray
      BY <1>2, <2>3, <3>1, <3>2 DEF Contract!Stray, Asked, Belt, Started
    <3> QED
      BY <3>3 DEF Contract!Next
  <2> QED
    BY <2>4, <2>5
<1>5. CASE Ends
  <2>1. Belt' = NoMove /\ Belt # NoMove /\ mine' = mine /\ disturbed' = disturbed
    BY <1>5, CallFields DEF Ends, Belt, ZInv, Values
  <2>2. Contract!Stop
    BY <1>2, <2>1 DEF Contract!Stop, Asked, Belt
  <2> QED
    BY <2>2 DEF Contract!Next
<1>6. CASE RunsOn
  BY <1>2, <1>6 DEF RunsOn, Belt
<1> QED
  BY <1>1, <1>3, <1>4, <1>5, <1>6

(***************************************************************************)
(* A move asked for begins once, as asked, and a call returns well only     *)
(* after the belt has stopped, unless a halt, a trip or a restart disturbed *)
(* the zone since a move last began: the HANDSHAKE MODEL of                 *)
(* devices/clearcore.py, for every range of ids.                            *)
(***************************************************************************)
THEOREM ContractKept == Spec => KeepsContract
<1>1. Init => Contract!Init
  BY InitImplements
<1>2. ZInv /\ [Next]_zvars => [Contract!Next]_<<Asked, mine, Belt, outcome, disturbed>>
  <2>1. ASSUME ZInv, UNCHANGED zvars
        PROVE  UNCHANGED <<Asked, mine, Belt, outcome, disturbed>>
    BY <2>1 DEF zvars, client, firmware, loop, motor, Asked, Belt
  <2> QED
    BY <2>1, ClientImplements, DisturbancesImplement, LoopImplements DEF Next
<1>3. <<Asked, mine, Belt, outcome, disturbed>> = Contract!zone
  BY DEF Asked, Belt, Contract!zone
<1> QED
  BY <1>1, <1>2, ZoneInvariant, PTL DEF Spec, KeepsContract, Contract!Spec, Contract!zone, Asked, Belt
=============================================================================
