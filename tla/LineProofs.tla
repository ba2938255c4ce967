------------------------------ MODULE LineProofs ------------------------------
(***************************************************************************)
(* Proofs about Line, for every number of parts, halts and pauses and every *)
(* flash time: the machine waits for exactly what the worker still has to   *)
(* do, and no zone runs unless shutter, robot and gun are out of the way;   *)
(* and what is painted is a part that stands at O, with nobody on the move. *)
(***************************************************************************)
EXTENDS Line, MachineProofs

-----------------------------------------------------------------------------
(***************************************************************************)
(* The inductive invariant.                                                 *)
(***************************************************************************)
Intents ==
  {SetFan(st, on) : st \in FanStations, on \in BOOLEAN}
  \cup {SetShutter(to) : to \in {"open", "closed"}}
  \cup {AdvanceTrain(b, m) : b \in Beats, m \in SUBSET Stations}
  \cup {Prep, SprayPart, MoveToSafePose}

Queued == {queue[i] : i \in 1 .. Len(queue)}

Books ==
  /\ TypeOK /\ LineTypeOK
  /\ queue \in Seq(Intents) /\ cur \in Intents \cup {Idle}
  /\ snap \in {Nothing} \cup [read : {TRUE}, s : Snapshots]
  /\ transit \in SUBSET (Stations \X Parts)

Waited == IF live THEN 1 ELSE 0

Counted ==
  /\ done + Waited <= 5
  /\ live => cur # Idle
  /\ latch => queue = <<>>
  /\ phase = "faulted" => latch
  /\ inflight # {} => phase \in {"moving", "faulted"}
  /\ WaitsForWhatRuns

\* What the machine may be waiting for in each phase.
Expected(i) ==
  CASE phase = "robot_work"    -> i.op \in {"fan", "safe"}
    [] phase = "await_guards"  -> i.op \in {"prep", "fan", "spray", "safe"}
    [] phase = "moving"        -> IF inflight = {} THEN i = SetShutter("open")
                                                   ELSE i.op = "train"
    [] phase = "shutter_close" -> i.op = "safe"
    [] phase = "set_fans"      -> i = SetShutter("closed")
    [] OTHER                   -> FALSE

\* Before the fault is over the worker may still be at what the fault overtook; the
\* safe pose, queued behind it, then holds the machine.
OnTask ==
  ~latch =>
    /\ \A i \in Queued : Expected(i)
    /\ live => Expected(cur)
    /\ cur # Idle /\ ~live => queue = <<MoveToSafePose>> /\ done = 0

\* The shutter moves only while the worker waits for it.
ShutterObeys ==
  /\ cur.op = "shutter" /\ at = "wait" => shutterTo = cur.to
  /\ shutter # shutterTo => cur.op = "shutter" /\ at = "wait"

Clearance == shutter = "open" /\ shutterTo = "open" /\ clear /\ ~gun

\* A zone runs for a train move alone, and nothing else happens from the moment the
\* move is submitted.
Moving ==
  /\ belts \cap {"Z1", "Z2"} # {} => cur.op = "train"
  /\ cur.op = "train" => Clearance
  /\ \A i \in Queued : i.op = "train" => cur = Idle /\ Len(queue) = 1 /\ Clearance

\* While the machine waits to move the train, an open shutter stays open, so that the
\* older picture the tick acts on still tells the truth.
ShutterSeen ==
  snap.read /\ ~latch /\ phase = "moving" /\ inflight = {} /\ snap.s.shutter = "open" =>
    shutter = "open" /\ shutterTo = "open"

LInv == Books /\ Counted /\ OnTask /\ ShutterObeys /\ Moving /\ ShutterSeen

-----------------------------------------------------------------------------
(***************************************************************************)
(* Intents and queues.                                                      *)
(***************************************************************************)
\* An intent says what it is, and carries what its device call needs.
LEMMA IntentKinds ==
  /\ \A i \in Intents :
       /\ i.op \in {"fan", "shutter", "train", "prep", "spray", "safe"}
       /\ i # Idle
       /\ i.op = "fan" => i.st \in FanStations
       /\ i.op = "shutter" => i.to \in {"open", "closed"}
  /\ Idle.op = "none"
<1>1. ASSUME NEW st \in FanStations, NEW on \in BOOLEAN
      PROVE  SetFan(st, on).op = "fan" /\ SetFan(st, on).st = st
  BY DEF SetFan
<1>2. ASSUME NEW to \in {"open", "closed"}
      PROVE  SetShutter(to).op = "shutter" /\ SetShutter(to).to = to
  BY DEF SetShutter
<1>3. ASSUME NEW b \in Beats, NEW m \in SUBSET Stations
      PROVE  AdvanceTrain(b, m).op = "train"
  BY DEF AdvanceTrain
<1>4. Prep.op = "prep" /\ SprayPart.op = "spray" /\ MoveToSafePose.op = "safe"
  BY DEF Prep, SprayPart, MoveToSafePose
<1>5. Idle.op = "none"
  BY DEF Idle
<1>6. ASSUME NEW i \in Intents
      PROVE  /\ i.op \in {"fan", "shutter", "train", "prep", "spray", "safe"}
             /\ i.op = "fan" => i.st \in FanStations
             /\ i.op = "shutter" => i.to \in {"open", "closed"}
  <2>1. CASE \E st \in FanStations, on \in BOOLEAN : i = SetFan(st, on)
    BY <1>1, <2>1
  <2>2. CASE \E to \in {"open", "closed"} : i = SetShutter(to)
    BY <1>2, <2>2
  <2>3. CASE \E b \in Beats, m \in SUBSET Stations : i = AdvanceTrain(b, m)
    BY <1>3, <2>3
  <2>4. CASE i \in {Prep, SprayPart, MoveToSafePose}
    BY <1>4, <2>4
  <2> QED
    BY <1>6, <2>1, <2>2, <2>3, <2>4 DEF Intents
<1> QED
  BY <1>5, <1>6

\* The worker takes the head of the queue; the rest stays.
LEMMA QueueTaken ==
  ASSUME queue \in Seq(Intents), queue # <<>>
  PROVE  /\ Head(queue) \in Intents /\ Head(queue) \in Queued
         /\ Tail(queue) \in Seq(Intents)
         /\ Len(Tail(queue)) = Len(queue) - 1 /\ Len(queue) \in Nat \ {0}
         /\ queue' = Tail(queue) => Queued' \subseteq Queued
<1>1. Len(queue) \in Nat \ {0} /\ Head(queue) = queue[1]
  OBVIOUS
<1>2. /\ Tail(queue) \in Seq(Intents) /\ Len(Tail(queue)) = Len(queue) - 1
      /\ \A i \in 1 .. Len(queue) - 1 : Tail(queue)[i] = queue[i + 1]
  OBVIOUS
<1>3. Head(queue) \in Intents /\ Head(queue) \in Queued
  BY <1>1 DEF Queued
<1>4. ASSUME queue' = Tail(queue), NEW q \in Queued'
      PROVE  q \in Queued
  <2>1. PICK i \in 1 .. Len(queue') : q = queue'[i]
    BY DEF Queued
  <2>2. i + 1 \in 1 .. Len(queue) /\ q = queue[i + 1]
    BY <1>1, <1>2, <1>4, <2>1
  <2> QED
    BY <2>2 DEF Queued
<1> QED
  BY <1>1, <1>2, <1>3, <1>4

\* A tick submits to an empty queue: what is queued is what was submitted.
LEMMA QueueFilled ==
  ASSUME NEW s \in Seq(Intents), queue = <<>>, queue' = queue \o s
  PROVE  queue' = s /\ queue' \in Seq(Intents)
OBVIOUS

\* An unchanged queue holds what it held.
LEMMA QueueSame ==
  ASSUME queue' = queue
  PROVE  Queued' = Queued
BY DEF Queued

\* Nothing is in an empty queue.
LEMMA QueueEmpty ==
  /\ queue = <<>> => Queued = {}
  /\ queue' = <<>> => Queued' = {}
BY DEF Queued

-----------------------------------------------------------------------------
(***************************************************************************)
(* What a tick submits.                                                     *)
(***************************************************************************)
\* The batch at O: five intents with the F1 fan's bracket, three without.
LEMMA BatchSubmitted ==
  /\ WorkBatch \in Seq(Intents)
  /\ Len(WorkBatch) = IF PausesFan THEN 5 ELSE 3
  /\ \A i \in 1 .. Len(WorkBatch) : WorkBatch[i].op \in {"prep", "fan", "spray", "safe"}
<1> DEFINE Batch == {i \in Intents : i.op \in {"prep", "fan", "spray", "safe"}}
<1>1. /\ <<Prep>> \in Seq(Batch) /\ Len(<<Prep>>) = 1
      /\ <<SprayPart>> \in Seq(Batch) /\ Len(<<SprayPart>>) = 1
      /\ <<MoveToSafePose>> \in Seq(Batch) /\ Len(<<MoveToSafePose>>) = 1
  BY DEF Intents, Prep, SprayPart, MoveToSafePose
<1>2. ASSUME NEW on \in BOOLEAN
      PROVE  <<SetFan("F1", on)>> \in Seq(Batch) /\ Len(<<SetFan("F1", on)>>) = 1
  BY <1>2 DEF Intents, SetFan, FanStations
<1>3. <<>> \in Seq(Batch) /\ Len(<<>>) = 0
  OBVIOUS
<1>4. ASSUME NEW s \in Seq(Batch), NEW t \in Seq(Batch)
      PROVE  s \o t \in Seq(Batch) /\ Len(s \o t) = Len(s) + Len(t)
  OBVIOUS
<1>5. ASSUME NEW s \in Seq(Batch)
      PROVE  /\ s \in Seq(Intents)
             /\ \A i \in 1 .. Len(s) : s[i].op \in {"prep", "fan", "spray", "safe"}
  BY <1>5
<1> HIDE DEF Batch
<1>6. CASE PausesFan
  <2>1. WorkBatch = <<Prep>> \o <<SetFan("F1", ~TRUE)>> \o <<SprayPart>>
                      \o <<SetFan("F1", ~FALSE)>> \o <<MoveToSafePose>>
    BY <1>6 DEF WorkBatch
  <2> DEFINE a == <<Prep>>
             b == <<SetFan("F1", ~TRUE)>>
             c == <<SprayPart>>
             d == <<SetFan("F1", ~FALSE)>>
             e == <<MoveToSafePose>>
  <2>2. /\ a \in Seq(Batch) /\ b \in Seq(Batch) /\ c \in Seq(Batch)
        /\ d \in Seq(Batch) /\ e \in Seq(Batch)
        /\ Len(a) = 1 /\ Len(b) = 1 /\ Len(c) = 1 /\ Len(d) = 1 /\ Len(e) = 1
    BY <1>1, <1>2
  <2>3. WorkBatch = a \o b \o c \o d \o e
    BY <2>1
  <2> HIDE DEF a, b, c, d, e
  <2>4. a \o b \in Seq(Batch) /\ Len(a \o b) = 1 + 1
    <3>1. a \o b \in Seq(Batch) /\ Len(a \o b) = Len(a) + Len(b)
      BY <1>4, <2>2
    <3> QED
      BY <2>2, <3>1
  <2>5. a \o b \o c \in Seq(Batch) /\ Len(a \o b \o c) = 1 + 1 + 1
    BY <1>4, <2>2, <2>4
  <2>6. a \o b \o c \o d \in Seq(Batch) /\ Len(a \o b \o c \o d) = 1 + 1 + 1 + 1
    BY <1>4, <2>2, <2>5
  <2>7. /\ a \o b \o c \o d \o e \in Seq(Batch)
        /\ Len(a \o b \o c \o d \o e) = 1 + 1 + 1 + 1 + 1
    BY <1>4, <2>2, <2>6
  <2>8. WorkBatch \in Seq(Batch) /\ Len(WorkBatch) = 5
    BY <2>3, <2>7
  <2>9. /\ WorkBatch \in Seq(Intents)
        /\ \A i \in 1 .. Len(WorkBatch) : WorkBatch[i].op \in {"prep", "fan", "spray", "safe"}
    BY <1>5, <2>8
  <2> QED
    BY <1>6, <2>8, <2>9
<1>7. CASE ~PausesFan
  <2>1. WorkBatch = <<Prep>> \o <<>> \o <<SprayPart>> \o <<>> \o <<MoveToSafePose>>
    BY <1>7 DEF WorkBatch
  <2> DEFINE a == <<Prep>>
             b == <<>>
             c == <<SprayPart>>
             e == <<MoveToSafePose>>
  <2>2. /\ a \in Seq(Batch) /\ b \in Seq(Batch) /\ c \in Seq(Batch) /\ e \in Seq(Batch)
        /\ Len(a) = 1 /\ Len(b) = 0 /\ Len(c) = 1 /\ Len(e) = 1
    BY <1>1, <1>3
  <2>3. WorkBatch = a \o b \o c \o b \o e
    BY <2>1
  <2> HIDE DEF a, b, c, e
  <2>4. a \o b \in Seq(Batch) /\ Len(a \o b) = 1 + 0
    BY <1>4, <2>2
  <2>5. a \o b \o c \in Seq(Batch) /\ Len(a \o b \o c) = 1 + 0 + 1
    BY <1>4, <2>2, <2>4
  <2>6. a \o b \o c \o b \in Seq(Batch) /\ Len(a \o b \o c \o b) = 1 + 0 + 1 + 0
    BY <1>4, <2>2, <2>5
  <2>7. /\ a \o b \o c \o b \o e \in Seq(Batch)
        /\ Len(a \o b \o c \o b \o e) = 1 + 0 + 1 + 0 + 1
    BY <1>4, <2>2, <2>6
  <2>8. WorkBatch \in Seq(Batch) /\ Len(WorkBatch) = 3
    BY <2>3, <2>7
  <2>9. /\ WorkBatch \in Seq(Intents)
        /\ \A i \in 1 .. Len(WorkBatch) : WorkBatch[i].op \in {"prep", "fan", "spray", "safe"}
    BY <1>5, <2>8
  <2> QED
    BY <1>7, <2>8, <2>9
<1> QED
  BY <1>6, <1>7

\* The two fan intents of a beat.
LEMMA FansSubmitted ==
  ASSUME NEW b
  PROVE  /\ FanIntents(b) \in Seq(Intents) /\ Len(FanIntents(b)) = 2
         /\ \A i \in 1 .. Len(FanIntents(b)) : FanIntents(b)[i].op = "fan"
<1> DEFINE f1 == SetFan("F1", "F1" \in FanOn(b) /\ occ["F1"] # NoPart)
           f2 == SetFan("F2", "F2" \in FanOn(b) /\ occ["F2"] # NoPart)
<1>1. f1 \in Intents /\ f2 \in Intents /\ f1.op = "fan" /\ f2.op = "fan"
  <2>1. \A st \in FanStations, on \in BOOLEAN : SetFan(st, on) \in Intents
    BY DEF Intents
  <2>2. \A st, on : SetFan(st, on).op = "fan"
    BY DEF SetFan
  <2>3. ("F1" \in FanOn(b) /\ occ["F1"] # NoPart) \in BOOLEAN
    OBVIOUS
  <2>4. ("F2" \in FanOn(b) /\ occ["F2"] # NoPart) \in BOOLEAN
    OBVIOUS
  <2> QED
    BY <2>1, <2>3, <2>4, <2>2 DEF FanStations
<1>2. FanIntents(b) = <<f1, f2>>
  BY DEF FanIntents
<1> HIDE DEF f1, f2
<1> QED
  BY <1>1, <1>2

\* One intent alone.
LEMMA OneSubmitted ==
  ASSUME NEW i \in Intents
  PROVE  <<i>> \in Seq(Intents) /\ Len(<<i>>) = 1 /\ \A n \in 1 .. Len(<<i>>) : <<i>>[n] = i
OBVIOUS

\* The shutter commands and the train move are intents.
LEMMA AreIntents ==
  /\ SetShutter("open") \in Intents /\ SetShutter("closed") \in Intents
  /\ MoveToSafePose \in Intents
  /\ \A b \in Beats, m \in SUBSET Stations :
       AdvanceTrain(b, m) \in Intents /\ AdvanceTrain(b, m).op = "train"
  /\ MoveToSafePose.op = "safe"
BY DEF Intents, AdvanceTrain, MoveToSafePose

-----------------------------------------------------------------------------
(***************************************************************************)
(* The tick's outcomes.                                                     *)
(***************************************************************************)
\* What a tick hands over: the intents e, all of which the machine then waits for, a
\* train move alone and only past its guards.
Submits(e, s) ==
  /\ queue' = queue \o e
  /\ phase' # "faulted" /\ pending' = Len(e)
  /\ inflight' # {} => phase' = "moving"
  /\ \A i \in 1 .. Len(e) : Expected(e[i])'
  /\ \A i \in 1 .. Len(e) :
       e[i].op = "train" => /\ Len(e) = 1 /\ phase = "moving" /\ inflight = {}
                            /\ s.shutter = "open" /\ s.clear /\ ~s.gun

\* A tick that changes neither phase, coats nor cargo submits nothing.
LEMMA NothingEmitted ==
  ASSUME phase' = phase, coats' = coats, inflight' = inflight
  PROVE  Emitted = <<>>
BY DEF Emitted

\* Nothing submitted, nothing waited for.
LEMMA SubmitsNothing ==
  ASSUME NEW s, queue' = queue \o <<>>, phase' # "faulted", pending' = 0,
         inflight' # {} => phase' = "moving"
  PROVE  Submits(<<>>, s)
<1>1. Len(<<>>) = 0 /\ 1 .. 0 = {}
  OBVIOUS
<1> QED
  BY <1>1 DEF Submits

\* One intent submitted and waited for.
LEMMA SubmitsOne ==
  ASSUME NEW s, NEW q \in Intents, queue' = queue \o <<q>>,
         phase' # "faulted", pending' = 1, inflight' # {} => phase' = "moving",
         Expected(q)',
         q.op = "train" => /\ phase = "moving" /\ inflight = {}
                           /\ s.shutter = "open" /\ s.clear /\ ~s.gun
  PROVE  Submits(<<q>>, s)
<1>1. Len(<<q>>) = 1 /\ 1 .. 1 = {1} /\ <<q>>[1] = q
  OBVIOUS
<1> QED
  BY <1>1 DEF Submits

\* Once the completions match, a dispatch that raises no fault submits what its phase
\* calls for.
LEMMA DispatchSubmits ==
  ASSUME LInv, ~latch, NEW s, done = pending, Dispatch(s, 1, done), phase' # "faulted",
         queue' = queue \o Emitted
  PROVE  \E e \in Seq(Intents) : Submits(e, s)
<1>1. phase # "moving" => inflight = {} \/ phase = "faulted"
  BY DEF LInv, Counted
<1>2. pending \in 0 .. 5 /\ beat \in Beats /\ inflight \in SUBSET Stations /\ phase \in Phases
  BY DEF LInv, Books, TypeOK
<1>e. <<>> \in Seq(Intents)
  OBVIOUS
<1>q. ASSUME phase # "faulted", pending' = 0, Emitted = <<>>, inflight' # {} => phase' = "moving"
      PROVE  \E e \in Seq(Intents) : Submits(e, s)
  <2>1. Submits(<<>>, s)
    BY <1>q, SubmitsNothing
  <2> QED
    BY <1>e, <2>1
<1>o. ASSUME NEW q \in Intents, Emitted = <<q>>, pending' = 1,
             inflight' # {} => phase' = "moving", Expected(q)',
             q.op = "train" => /\ phase = "moving" /\ inflight = {}
                               /\ s.shutter = "open" /\ s.clear /\ ~s.gun
      PROVE  \E e \in Seq(Intents) : Submits(e, s)
  <2>1. Submits(<<q>>, s)
    BY <1>o, SubmitsOne
  <2>2. <<q>> \in Seq(Intents)
    OBVIOUS
  <2> QED
    BY <2>1, <2>2
<1>3. CASE MismatchFault(s, 1)
  BY <1>3 DEF MismatchFault, EnterFault
<1>4. CASE AwaitCompletions(s, 1, done)
  BY <1>4, <1>2 DEF AwaitCompletions
<1>5. CASE RoleFault(s, 1, done)
  BY <1>5 DEF RoleFault, EnterFault
<1>6. CASE SkipWork(s, 1, done)
  <2>1. /\ phase = "robot_work" /\ phase' = "await_guards" /\ pending' = 0
        /\ coats' = coats /\ inflight' = inflight
    BY <1>6 DEF SkipWork, Ready, Goto, Bank
  <2>2. Emitted = <<>>
    BY <2>1 DEF Emitted
  <2> QED
    BY <1>1, <1>q, <2>1, <2>2
<1>7. CASE StartWork(s, 1, done)
  <2>1. /\ phase = "robot_work" /\ phase' = "await_guards" /\ inflight' = inflight
        /\ pending' = IF PausesFan THEN 5 ELSE 3
        /\ coats' = [coats EXCEPT ![occ["O"]] = WorkCoat(beat)]
        /\ coats[occ["O"]] < WorkCoat(beat)
        /\ occ["O"] # NoPart
    BY <1>7 DEF StartWork, WorkDue, Ready, Goto
  <2>2. coats' # coats
    <3>1. occ["O"] \in Parts /\ coats \in [Parts -> 0 .. 2]
      BY <2>1 DEF LInv, Books, TypeOK, Tracked
    <3>2. WorkCoat(beat) \in 1 .. 2
      BY DEF WorkCoat
    <3>3. coats'[occ["O"]] = WorkCoat(beat)
      BY <2>1, <3>1
    <3> QED
      BY <2>1, <3>1, <3>2, <3>3
  <2>3. Emitted = WorkBatch
    BY <2>1, <2>2 DEF Emitted
  <2>4. inflight' = {}
    BY <1>1, <2>1
  <2>5. WorkBatch \in Seq(Intents) /\ pending' = Len(WorkBatch)
    BY <2>1, BatchSubmitted
  <2>6. \A i \in 1 .. Len(WorkBatch) : WorkBatch[i].op \in {"prep", "fan", "spray", "safe"}
    BY BatchSubmitted
  <2>7. PICK e \in Seq(Intents) : e = WorkBatch
    BY <2>5
  <2>8. queue' = queue \o e
    BY <2>7, <2>3
  <2>9. pending' = Len(e)
    BY <2>7, <2>5
  <2>10. \A i \in 1 .. Len(e) : e[i].op \in {"prep", "fan", "spray", "safe"}
    BY <2>7, <2>6
  <2>11. \A i \in 1 .. Len(e) : Expected(e[i])'
    BY <2>1, <2>10 DEF Expected
  <2>12. Submits(e, s)
    BY <2>1, <2>4, <2>8, <2>9, <2>10, <2>11 DEF Submits
  <2> QED
    BY <2>9, <2>12
<1>8. CASE GuardsPass(s, 1, done)
  <2>1. /\ phase = "await_guards" /\ phase' = "shutter_open" /\ pending' = 0
        /\ inflight' = inflight
    BY <1>8 DEF GuardsPass, Ready, Goto
  <2>2. Emitted = <<>>
    BY <1>1, <2>1 DEF Emitted
  <2> QED
    BY <1>1, <1>q, <2>1, <2>2
<1>9. CASE CommandShutter(s, 1, done, "shutter_open", "moving")
  <2>1. /\ phase = "shutter_open" /\ phase' = "moving" /\ pending' = 1
        /\ inflight' = inflight
    BY <1>9 DEF CommandShutter, Ready, Goto
  <2>2. inflight' = {}
    BY <1>1, <2>1
  <2>3. Emitted = <<SetShutter("open")>>
    BY <2>1 DEF Emitted
  <2>4. Expected(SetShutter("open"))'
    BY <2>1, <2>2 DEF Expected
  <2>5. SetShutter("open") \in Intents /\ SetShutter("open").op # "train"
    BY AreIntents DEF SetShutter
  <2> QED
    BY <1>o, <2>1, <2>2, <2>3, <2>4, <2>5
<1>10. CASE NothingToMove(s, 1, done)
  <2>1. /\ phase = "moving" /\ phase' = "shutter_close" /\ pending' = 0
        /\ inflight' = {}
    BY <1>10 DEF NothingToMove, Ready, Goto
  <2>2. Emitted = <<>>
    BY <2>1 DEF Emitted
  <2> QED
    BY <1>q, <2>1, <2>2
<1>11. CASE Advance(s, 1, done)
  <2>1. /\ phase = "moving" /\ phase' = "moving" /\ pending' = 1
        /\ inflight = {} /\ inflight' = LiveMoves /\ LiveMoves # {}
        /\ s.shutter = "open" /\ s.clear /\ ~s.gun
    BY <1>11 DEF Advance, Ready, Goto, ZoneMotionClear, DepartureClear
  <2>2. Emitted = <<AdvanceTrain(beat, LiveMoves)>>
    BY <2>1 DEF Emitted
  <2>3. LiveMoves \in SUBSET Stations
    BY DEF LiveMoves, Sources, Feeder, Stations, Tracked
  <2>4. AdvanceTrain(beat, LiveMoves) \in Intents /\ AdvanceTrain(beat, LiveMoves).op = "train"
    BY <1>2, <2>3, AreIntents
  <2>5. PICK q \in Intents : q = AdvanceTrain(beat, LiveMoves)
    BY <2>4
  <2>6. q.op = "train" /\ Emitted = <<q>>
    BY <2>5, <2>2, <2>4
  <2>7. Expected(q)'
    BY <2>1, <2>6 DEF Expected
  <2> QED
    BY <1>o, <2>1, <2>6, <2>7
<1>12. CASE ArrivalFault(s, 1, done)
  BY <1>12 DEF ArrivalFault, EnterFault
<1>13. CASE Arrive(s, 1, done)
  <2>1. /\ phase = "moving" /\ phase' = "shutter_close" /\ pending' = 0
        /\ inflight' = {}
    BY <1>13 DEF Arrive, Ready, Goto
  <2>2. Emitted = <<>>
    BY <2>1 DEF Emitted
  <2> QED
    BY <1>q, <2>1, <2>2
<1>14. CASE CommandShutter(s, 1, done, "shutter_close", "set_fans")
  <2>1. /\ phase = "shutter_close" /\ phase' = "set_fans" /\ pending' = 1
        /\ inflight' = inflight
    BY <1>14 DEF CommandShutter, Ready, Goto
  <2>2. inflight' = {}
    BY <1>1, <2>1
  <2>3. Emitted = <<SetShutter("closed")>>
    BY <2>1, <2>2 DEF Emitted
  <2>4. Expected(SetShutter("closed"))'
    BY <2>1, <2>2 DEF Expected
  <2>5. SetShutter("closed") \in Intents /\ SetShutter("closed").op # "train"
    BY AreIntents DEF SetShutter
  <2> QED
    BY <1>o, <2>1, <2>2, <2>3, <2>4, <2>5
<1>15. CASE SetFans(s, 1, done)
  <2>1. /\ phase = "set_fans" /\ phase' = "robot_work" /\ pending' = 2
        /\ inflight' = inflight
    BY <1>15 DEF SetFans, Ready
  <2>2. inflight' = {}
    BY <1>1, <2>1
  <2>3. Emitted = FanIntents(beat')
    BY <2>1, <2>2 DEF Emitted
  <2>4. PICK e \in Seq(Intents) : e = FanIntents(beat')
    BY FansSubmitted
  <2>5. Len(e) = 2 /\ \A i \in 1 .. Len(e) : e[i].op = "fan"
    BY <2>4, FansSubmitted
  <2>6. queue' = queue \o e
    BY <2>4, <2>3
  <2>7. \A i \in 1 .. Len(e) : Expected(e[i])'
    BY <2>1, <2>5 DEF Expected
  <2>8. Submits(e, s)
    BY <2>1, <2>2, <2>5, <2>6, <2>7 DEF Submits
  <2> QED
    BY <2>5, <2>8
<1>16. CASE Blocked(s, 1, done)
  <2>1. phase' = phase /\ pending' = 0 /\ coats' = coats /\ inflight' = inflight
    BY <1>16 DEF Blocked, Goto, Bank
  <2>2. Emitted = <<>>
    BY <2>1, NothingEmitted
  <2> QED
    BY <1>1, <1>q, <2>1, <2>2
<1> QED
  BY <1>3, <1>4, <1>5, <1>6, <1>7, <1>8, <1>9, <1>10, <1>11, <1>12, <1>13, <1>14, <1>15,
     <1>16 DEF Dispatch

-----------------------------------------------------------------------------
(***************************************************************************)
(* The tick keeps the invariant.                                            *)
(***************************************************************************)
\* A tick acts on the snapshot's shutter and on the current flags of robot and gun.
LEMMA InputsSeen ==
  ASSUME Books, snap.read
  PROVE  Inputs.shutter = snap.s.shutter /\ Inputs.clear = clear /\ Inputs.gun = gun
<1>1. ~Nothing.read
  BY DEF Nothing
<1>2. snap \in [read : {TRUE}, s : Snapshots]
  BY <1>1 DEF Books
<1>3. snap.s \in Snapshots
  BY <1>2
<1> QED
  BY <1>3 DEF Inputs, Snapshots

\* The machine's types, for any tick that retires no more than is waited for.
LEMMA TickTypeOK ==
  ASSUME TypeOK, NEW s, NEW dt \in 0 .. MaxDt, NEW k, NEW flt, Tick(s, dt, k, flt),
         ~flt => k \in 0 .. pending
  PROVE  TypeOK'
<1>t. TimerType
  BY DEF TypeOK, TimerType
<1>1. CASE StayFaulted(s, dt)
  <2>1. TimerType'
    BY <1>1, <1>t, BankType DEF StayFaulted
  <2> QED
    BY <1>1, <2>1 DEF StayFaulted, TypeOK, TimerType, ctlVars, bookVars
<1>2. CASE ExternalFault(s, dt)
  <2>1. TimerType'
    BY <1>2, <1>t, BankType DEF ExternalFault
  <2> QED
    BY <1>2, <2>1 DEF ExternalFault, EnterFault, TypeOK, TimerType, bookVars, Phases
<1>3. CASE ~flt /\ Dispatch(s, dt, k)
  BY <1>3, DispatchTypeOK
<1> QED
  BY <1>1, <1>2, <1>3 DEF Tick

Faults ==
  /\ phase' = "faulted" /\ inflight' = inflight
  /\ latch' = TRUE /\ queue' = <<>> /\ belts' = belts \cap {"feed"} /\ live' = FALSE

Waits ==
  /\ phase' = phase /\ inflight' = inflight /\ queue' = queue
  /\ UNCHANGED <<latch, belts, live>>
  /\ ~latch => pending' = pending - done

Submitted ==
  /\ ~latch /\ queue = <<>> /\ cur = Idle /\ ~live
  /\ UNCHANGED <<latch, belts, live>>
  /\ \E e \in Seq(Intents) : Submits(e, Inputs)

\* Without the latch, what was not yet collected is all the machine waits for once the
\* count matches.
LEMMA AllCollected ==
  ASSUME LInv, ~latch
  PROVE  /\ done \in 0 .. pending
         /\ done = pending => queue = <<>> /\ cur = Idle /\ ~live
<1>1. Len(queue) \in Nat /\ (Len(queue) = 0 => queue = <<>>)
  BY DEF LInv, Books
<1>2. pending = Len(queue) + done + Waited /\ Waited \in {0, 1} /\ done \in 0 .. 5
  BY DEF LInv, Counted, WaitsForWhatRuns, Waited, Books, LineTypeOK
<1>3. done \in 0 .. pending /\ (done = pending => Len(queue) = 0 /\ Waited = 0)
  BY <1>1, <1>2
<1>4. done = pending => queue = <<>> /\ ~live
  BY <1>1, <1>3 DEF Waited
<1>5. cur # Idle /\ ~live => queue = <<MoveToSafePose>>
  BY DEF LInv, OnTask
<1>6. <<MoveToSafePose>> # <<>>
  OBVIOUS
<1> QED
  BY <1>3, <1>4, <1>5, <1>6

\* Every tick either raises a fault, or waits, or submits to a worker that has nothing
\* left to do.
LEMMA ActOutcome ==
  ASSUME LInv, Act
  PROVE  Faults \/ Waits \/ Submitted
<1>1. /\ Tick(Inputs, 1, done, latch)
      /\ IF NewFault
         THEN HaltExecutor /\ live' = FALSE
         ELSE queue' = queue \o Emitted /\ UNCHANGED <<latch, belts, live>>
  BY DEF Act
<1>2. queue \in Seq(Intents) /\ (phase = "faulted" => latch) /\ pending \in 0 .. 5
      /\ done \in 0 .. 5
  BY DEF LInv, Books, Counted, TypeOK, LineTypeOK
<1>3. queue \o <<>> = queue
  BY <1>2
<1>4. CASE StayFaulted(Inputs, 1)
  <2>1. /\ phase = "faulted" /\ phase' = phase /\ coats' = coats /\ inflight' = inflight
    BY <1>4 DEF StayFaulted, ctlVars, Bank
  <2>2. Emitted = <<>> /\ ~NewFault
    BY <2>1, NothingEmitted DEF NewFault
  <2> QED
    BY <1>1, <1>2, <1>3, <2>1, <2>2 DEF Waits
<1>5. CASE EnterFault /\ phase # "faulted"
  BY <1>1, <1>5 DEF EnterFault, NewFault, HaltExecutor, Faults
<1>6. CASE ~latch /\ Dispatch(Inputs, 1, done) /\ phase' # "faulted"
  <2>1. ~NewFault /\ queue' = queue \o Emitted /\ UNCHANGED <<latch, belts, live>>
    BY <1>1, <1>6 DEF NewFault
  <2>2. CASE done = pending
    <3>1. \E e \in Seq(Intents) : Submits(e, Inputs)
      BY <1>6, <2>1, <2>2, DispatchSubmits
    <3>2. queue = <<>> /\ cur = Idle /\ ~live
      BY <1>6, <2>2, AllCollected
    <3> QED
      BY <1>6, <2>1, <3>1, <3>2 DEF Submitted
  <2>3. CASE done # pending
    <3>1. AwaitCompletions(Inputs, 1, done)
      BY <1>6, <2>3 DEF Dispatch, MismatchFault, EnterFault, RoleFault, SkipWork, StartWork,
         GuardsPass, CommandShutter, NothingToMove, Advance, ArrivalFault, Arrive, SetFans,
         Blocked, Ready
    <3>2. phase' = phase /\ inflight' = inflight /\ coats' = coats /\ pending' = pending - done
      BY <3>1 DEF AwaitCompletions, Bank
    <3>3. Emitted = <<>>
      BY <3>2, NothingEmitted
    <3> QED
      BY <1>3, <2>1, <3>2, <3>3 DEF Waits
  <2> QED
    BY <2>2, <2>3
<1>7. CASE ~latch /\ Dispatch(Inputs, 1, done) /\ phase' = "faulted"
  <2>1. phase # "faulted"
    BY <1>2, <1>7
  <2>2. EnterFault
    BY <1>7, <2>1 DEF Dispatch, MismatchFault, AwaitCompletions, RoleFault, SkipWork, StartWork,
       GuardsPass, CommandShutter, NothingToMove, Advance, ArrivalFault, Arrive, SetFans,
       Blocked, Goto
  <2> QED
    BY <1>5, <2>1, <2>2
<1>8. CASE ExternalFault(Inputs, 1)
  BY <1>5, <1>8 DEF ExternalFault
<1> QED
  BY <1>1, <1>4, <1>6, <1>7, <1>8 DEF Tick

\* What is queued after the tick, and for what it is waited.
LEMMA ActQueue ==
  ASSUME LInv, Act
  PROVE  /\ TypeOK'
         /\ queue' \in Seq(Intents) /\ Len(queue') <= 5
         /\ Counted'
<1>1. 1 \in 0 .. MaxDt /\ Tick(Inputs, 1, done, latch) /\ done' = 0 /\ cur' = cur
  BY LineAssumption, MachineAssumption DEF Act
<1>2. TypeOK'
  <2>1. TypeOK /\ (~latch => done \in 0 .. pending)
    BY AllCollected DEF LInv, Books
  <2> QED
    BY <1>1, <2>1, TickTypeOK
<1>3. /\ queue \in Seq(Intents) /\ Len(queue) \in Nat /\ Len(queue) <= 5 /\ done \in 0 .. 5
      /\ live \in BOOLEAN /\ latch \in BOOLEAN /\ pending' \in 0 .. 5 /\ pending \in 0 .. 5
  BY <1>2 DEF LInv, Books, LineTypeOK, TypeOK
<1>4. /\ done + Waited <= 5 /\ (live => cur # Idle) /\ (latch => queue = <<>>)
      /\ (phase = "faulted" => latch)
      /\ (inflight # {} => phase \in {"moving", "faulted"})
      /\ (~latch => pending = Len(queue) + done + (IF live THEN 1 ELSE 0))
  BY DEF LInv, Counted, WaitsForWhatRuns
<1>e. <<>> \in Seq(Intents) /\ Len(<<>>) = 0
  OBVIOUS
<1>5. CASE Faults
  <2>1. queue' \in Seq(Intents) /\ Len(queue') <= 5
    BY <1>5, <1>e DEF Faults
  <2>2. Counted'
    BY <1>1, <1>4, <1>5 DEF Faults, Counted, Waited, WaitsForWhatRuns
  <2> QED
    BY <1>2, <2>1, <2>2
<1>6. CASE Waits
  <2>1. queue' \in Seq(Intents) /\ Len(queue') <= 5
    BY <1>3, <1>6 DEF Waits
  <2>2. (done + Waited <= 5)'
    BY <1>1, <1>6 DEF Waits, Waited
  <2>3. WaitsForWhatRuns'
    BY <1>1, <1>3, <1>4, <1>6 DEF Waits, WaitsForWhatRuns
  <2>4. Counted'
    BY <1>1, <1>4, <1>6, <2>2, <2>3 DEF Waits, Counted
  <2> QED
    BY <1>2, <2>1, <2>4
<1>7. CASE Submitted
  <2>1. PICK e \in Seq(Intents) : Submits(e, Inputs)
    BY <1>7 DEF Submitted
  <2>2. queue' = e
    BY <1>7, <2>1, QueueFilled DEF Submitted, Submits
  <2>3. Len(queue') = pending'
    BY <2>1, <2>2 DEF Submits
  <2>4. queue' \in Seq(Intents) /\ Len(queue') <= 5
    BY <1>3, <2>2, <2>3
  <2>5. ~live' /\ ~latch'
    BY <1>7 DEF Submitted
  <2>6. (done + Waited <= 5)'
    BY <1>1, <2>5 DEF Waited
  <2>7. WaitsForWhatRuns'
    <3>1. (IF live' THEN 1 ELSE 0) = 0 /\ done' = 0
      BY <1>1, <2>5
    <3>2. \A n \in 0 .. 5 : n = n + 0 + 0
      OBVIOUS
    <3>3. pending' = pending' + 0 + 0
      BY <1>3, <3>2, Zenon
    <3> QED
      BY <2>3, <3>1, <3>3 DEF WaitsForWhatRuns
  <2>8. phase' # "faulted" /\ (inflight' # {} => phase' = "moving")
    BY <2>1 DEF Submits
  <2>9. Counted'
    BY <2>5, <2>6, <2>7, <2>8 DEF Counted
  <2> QED
    BY <1>2, <2>4, <2>9
<1> QED
  BY <1>5, <1>6, <1>7, ActOutcome

\* The tick keeps the types of the line.
LEMMA ActBooks ==
  ASSUME LInv, Act
  PROVE  Books'
<1>1. /\ TypeOK' /\ queue' \in Seq(Intents) /\ Len(queue') <= 5
  BY ActQueue
<1>2. Books
  BY DEF LInv
<1>3. /\ done' = 0 /\ snap' = Nothing
      /\ UNCHANGED <<enabled, halts, pauses, cur, at, phys, transit, fed, outfeed,
                     shutter, shutterTo, clear, gun>>
  BY DEF Act, operVars, partsAt
<1>4. latch' \in BOOLEAN /\ live' \in BOOLEAN
  BY <1>2, ActOutcome DEF Books, LineTypeOK, Faults, Waits, Submitted
<1>5. belts' \subseteq {"Z1", "Z2", "feed"}
  BY <1>2, ActOutcome DEF Books, LineTypeOK, Faults, Waits, Submitted
<1>6. fans' \subseteq FanStations
  BY <1>2 DEF Act, Books, LineTypeOK
<1>7. declared' = declared /\ declared \in Nat
  BY <1>2 DEF Act, Tick, StayFaulted, ExternalFault, Dispatch, MismatchFault, AwaitCompletions,
     RoleFault, SkipWork, StartWork, GuardsPass, CommandShutter, NothingToMove, Advance,
     ArrivalFault, Arrive, SetFans, Blocked, EnterFault, bookVars, Books, TypeOK
<1>8. LineTypeOK'
  BY <1>1, <1>2, <1>3, <1>4, <1>5, <1>6, <1>7 DEF Books, LineTypeOK
<1> QED
  BY <1>1, <1>2, <1>3, <1>8 DEF Books

\* What the tick submits is what the new phase expects; nothing moves under it.
LEMMA ActRest ==
  ASSUME LInv, Act
  PROVE  OnTask' /\ ShutterObeys' /\ Moving' /\ ShutterSeen'
<1>1. /\ snap.read /\ done' = 0 /\ snap' = Nothing
      /\ UNCHANGED <<cur, at, shutter, shutterTo, clear, gun>>
  BY DEF Act
<1>2. ShutterObeys'
  BY <1>1 DEF LInv, ShutterObeys
<1>3. ShutterSeen'
  <2>1. ~Nothing.read
    BY DEF Nothing
  <2> QED
    BY <1>1, <2>1 DEF ShutterSeen
<1>4. Books /\ Moving /\ OnTask /\ ShutterSeen /\ Counted
  BY DEF LInv
<1>c. Clearance' <=> Clearance
  BY <1>1 DEF Clearance
<1>5. CASE Faults
  <2>1. Queued' = {} /\ latch' = TRUE /\ belts' \cap {"Z1", "Z2"} = {}
    BY <1>5, QueueEmpty DEF Faults
  <2>2. OnTask'
    BY <2>1 DEF OnTask
  <2>3. Moving'
    BY <1>1, <1>4, <1>c, <2>1 DEF Moving
  <2> QED
    BY <1>2, <1>3, <2>2, <2>3
<1>6. CASE Waits
  <2>1. /\ Queued' = Queued /\ queue' = queue /\ phase' = phase /\ inflight' = inflight
        /\ UNCHANGED <<latch, belts, live>>
    BY <1>6, QueueSame DEF Waits
  <2>2. \A i : Expected(i)' <=> Expected(i)
    BY <2>1 DEF Expected
  <2>3. live => (Expected(cur)' <=> Expected(cur))
    BY <1>1, <2>1 DEF Expected
  <2>4. OnTask'
    BY <1>1, <1>4, <2>1, <2>2, <2>3 DEF OnTask
  <2>5. Moving'
    BY <1>1, <1>4, <1>c, <2>1 DEF Moving
  <2> QED
    BY <1>2, <1>3, <2>4, <2>5
<1>7. CASE Submitted
  <2>1. PICK e \in Seq(Intents) : Submits(e, Inputs)
    BY <1>7 DEF Submitted
  <2>2. queue' = e
    BY <1>7, <2>1, QueueFilled DEF Submitted, Submits
  <2>3. Queued' = {e[i] : i \in 1 .. Len(e)}
    BY <2>2 DEF Queued
  <2>4. cur' = Idle /\ ~live' /\ ~latch /\ UNCHANGED belts /\ ~latch'
    BY <1>1, <1>7 DEF Submitted
  <2>5. OnTask'
    <3>1. \A i \in 1 .. Len(e) : Expected(e[i])'
      BY <2>1 DEF Submits
    <3>2. \A i \in Queued' : Expected(i)'
      BY <2>3, <3>1
    <3> QED
      BY <2>4, <3>2 DEF OnTask
  <2>6. ASSUME NEW i \in 1 .. Len(e), e[i].op = "train"
        PROVE  Len(e) = 1 /\ Clearance
    <3>1. /\ Len(e) = 1 /\ phase = "moving" /\ inflight = {}
          /\ Inputs.shutter = "open" /\ Inputs.clear /\ ~Inputs.gun
      BY <2>1, <2>6 DEF Submits
    <3>2. snap.s.shutter = "open" /\ clear /\ ~gun
      BY <1>1, <1>4, <3>1, InputsSeen
    <3> QED
      BY <1>1, <1>4, <2>4, <3>1, <3>2 DEF ShutterSeen, Clearance
  <2>7. cur.op # "train" /\ belts' \cap {"Z1", "Z2"} = {}
    <3>1. cur = Idle /\ Idle.op = "none"
      BY <1>1, <2>4, IntentKinds
    <3> QED
      BY <1>4, <2>4, <3>1 DEF Moving
  <2>8. \A i \in Queued' : i.op = "train" => Len(queue') = 1 /\ Clearance'
    BY <1>c, <2>2, <2>3, <2>6
  <2>9. Moving'
    BY <1>1, <2>4, <2>7, <2>8 DEF Moving
  <2> QED
    BY <1>2, <1>3, <2>5, <2>9
<1> QED
  BY <1>5, <1>6, <1>7, ActOutcome

\* Together: the tick keeps the invariant.
LEMMA ActKeeps ==
  ASSUME LInv, Act
  PROVE  LInv'
BY ActQueue, ActBooks, ActRest DEF LInv

-----------------------------------------------------------------------------
(***************************************************************************)
(* The worker keeps the invariant.                                          *)
(***************************************************************************)
\* What the machine waits for decides what the worker's shutter command can be.
LEMMA OnlyOpens ==
  ASSUME LInv, ~latch, phase = "moving", inflight = {}, cur # Idle
  PROVE  cur = SetShutter("open")
<1>1. OnTask
  BY DEF LInv
<1>2. CASE live
  BY <1>1, <1>2 DEF OnTask, Expected
<1>3. CASE ~live
  <2>1. queue = <<MoveToSafePose>>
    BY <1>1, <1>3 DEF OnTask
  <2>2. MoveToSafePose \in Queued
    BY <2>1 DEF Queued
  <2>3. MoveToSafePose = SetShutter("open")
    BY <1>1, <2>2 DEF OnTask, Expected
  <2> QED
    BY <2>3 DEF MoveToSafePose, SetShutter
<1> QED
  BY <1>2, <1>3

\* The loop thread reads a picture: an open shutter stays open while the machine waits
\* to move the train.
LEMMA ReadKeeps ==
  ASSUME LInv, ReadInputs
  PROVE  LInv'
<1>1. /\ snap' = [read |-> TRUE, s |-> Sensed]
      /\ UNCHANGED <<vars, operVars, execVars, partsAt, devices>>
  BY DEF ReadInputs
<1>2. /\ UNCHANGED <<beat, phase, faultPhase, pending, inflight, occ, declared, infed, shipped,
                     coats, flash1, flash2, wet>>
      /\ UNCHANGED <<enabled, halts, pauses, queue, cur, at, latch, done, live>>
      /\ UNCHANGED <<phys, transit, fed, outfeed, shutter, shutterTo, fans, clear, gun, belts>>
  BY <1>1 DEF vars, ctlVars, bookVars, partVars, operVars, execVars, partsAt, devices
<1>3. Books /\ Counted /\ OnTask /\ ShutterObeys /\ Moving /\ ShutterSeen
  BY DEF LInv
<1>4. snap' \in [read : {TRUE}, s : Snapshots]
  <2>1. Sensed \in Snapshots
    <3>1. /\ shutter \in {"open", "closed", "unknown"} /\ fans \subseteq FanStations
          /\ clear \in BOOLEAN /\ gun \in BOOLEAN /\ outfeed \in BOOLEAN
      BY <1>3 DEF Books, LineTypeOK
    <3>2. {st \in Tracked : phys[st] # NoPart} \in SUBSET Tracked /\ (fed < declared) \in BOOLEAN
      OBVIOUS
    <3> QED
      BY <3>1, <3>2 DEF Sensed, Snapshots
  <2> QED
    BY <1>1, <2>1
<1>5. Queued' = Queued
  BY <1>2, QueueSame
<1>6. Books'
  <2>1. TypeOK' /\ LineTypeOK'
    BY <1>2, <1>3 DEF Books, TypeOK, LineTypeOK
  <2> QED
    BY <1>2, <1>3, <1>4, <2>1 DEF Books
<1>7. Counted'
  BY <1>2, <1>3 DEF Counted, Waited, WaitsForWhatRuns
<1>8. OnTask'
  BY <1>2, <1>3, <1>5 DEF OnTask, Expected
<1>9. ShutterObeys'
  BY <1>2, <1>3 DEF ShutterObeys
<1>10. Moving'
  BY <1>2, <1>3, <1>5 DEF Moving, Clearance
<1>11. ShutterSeen'
  <2> SUFFICES ASSUME ~latch, phase = "moving", inflight = {}, Sensed.shutter = "open"
               PROVE  shutter = "open" /\ shutterTo = "open"
    BY <1>1, <1>2 DEF ShutterSeen
  <2>1. shutter = "open"
    BY DEF Sensed
  <2>2. CASE shutterTo # "open"
    <3>1. cur.op = "shutter" /\ at = "wait" /\ shutterTo = cur.to
      BY <1>3, <2>1, <2>2 DEF ShutterObeys
    <3>2. cur # Idle
      BY <3>1, IntentKinds
    <3>3. cur = SetShutter("open")
      BY <3>2, OnlyOpens
    <3> QED
      BY <2>2, <3>1, <3>3 DEF SetShutter
  <2> QED
    BY <2>1, <2>2
<1> QED
  BY <1>6, <1>7, <1>8, <1>9, <1>10, <1>11 DEF LInv

DeviceTypes ==
  /\ shutter \in {"open", "closed", "unknown"} /\ shutterTo \in {"open", "closed"}
  /\ fans \subseteq FanStations /\ belts \subseteq {"Z1", "Z2", "feed"}
  /\ clear \in BOOLEAN /\ gun \in BOOLEAN

\* While the worker is at something, no train move is queued.
LEMMA NoTrainQueued ==
  ASSUME LInv, cur # Idle
  PROVE  \A i \in Queued : i.op # "train"
BY DEF LInv, Moving

\* A device call that returns or goes on keeps the count and the order of the work,
\* whatever it does to its device.
LEMMA WorkerKeeps ==
  ASSUME LInv, Still, cur # Idle, Complete \/ GoesOn("armed") \/ GoesOn("wait"), DeviceTypes'
  PROVE  Books' /\ Counted' /\ OnTask'
<1>1. /\ UNCHANGED <<beat, phase, faultPhase, pending, inflight, occ, declared, infed, shipped,
                     coats, flash1, flash2, wet>>
      /\ UNCHANGED <<enabled, halts, pauses, snap, phys, transit, fed, outfeed>>
  BY DEF Still, vars, ctlVars, bookVars, partVars, operVars, partsAt
<1>2. Books /\ Counted /\ OnTask
  BY DEF LInv
<1>3. queue' = queue /\ latch' = latch
  BY DEF Complete, GoesOn
<1>4. /\ done \in 0 .. 5 /\ live \in BOOLEAN /\ done + Waited <= 5 /\ Len(queue) \in Nat
      /\ pending \in 0 .. 5
  BY <1>2 DEF Books, LineTypeOK, Counted, TypeOK
<1>5. Queued' = Queued
  BY <1>3, QueueSame
<1>6. CASE Complete
  <2>1. cur' = Idle /\ at' = "idle" /\ live' = FALSE /\ done' = IF live THEN done + 1 ELSE done
    BY <1>6 DEF Complete
  <2>2. done' \in 0 .. 5 /\ (done + Waited <= 5)'
    BY <1>4, <2>1 DEF Waited
  <2>3. TypeOK' /\ LineTypeOK'
    BY <1>1, <1>2, <1>3, <2>1, <2>2 DEF Books, TypeOK, LineTypeOK, DeviceTypes
  <2>4. Books'
    BY <1>1, <1>2, <1>3, <2>1, <2>3 DEF Books
  <2>5. WaitsForWhatRuns'
    <3>1. ~latch => pending = Len(queue) + done + (IF live THEN 1 ELSE 0)
      BY <1>2 DEF Counted, WaitsForWhatRuns
    <3>2. ~latch => pending = Len(queue) + done' + 0
      BY <1>4, <2>1, <3>1
    <3> QED
      BY <1>1, <1>3, <2>1, <3>2 DEF WaitsForWhatRuns
  <2>6. Counted'
    BY <1>1, <1>2, <1>3, <2>1, <2>2, <2>5 DEF Counted
  <2>7. OnTask'
    BY <1>1, <1>2, <1>3, <1>5, <2>1 DEF OnTask, Expected
  <2> QED
    BY <2>4, <2>6, <2>7
<1>7. CASE GoesOn("armed") \/ GoesOn("wait")
  <2>1. at' \in {"armed", "wait"} /\ UNCHANGED <<cur, done, live>>
    BY <1>7 DEF GoesOn
  <2>2. at' # "idle"
    BY <2>1
  <2>3. TypeOK' /\ LineTypeOK'
    BY <1>1, <1>2, <1>3, <2>1, <2>2 DEF Books, TypeOK, LineTypeOK, DeviceTypes
  <2>4. Books'
    BY <1>1, <1>2, <1>3, <2>1, <2>3 DEF Books
  <2>5. Counted'
    BY <1>1, <1>2, <1>3, <2>1 DEF Counted, Waited, WaitsForWhatRuns
  <2>6. OnTask'
    BY <1>1, <1>2, <1>3, <1>5, <2>1 DEF OnTask, Expected
  <2> QED
    BY <2>4, <2>5, <2>6
<1> QED
  BY <1>6, <1>7

\* A call that is neither a shutter command nor a train move leaves shutter and zones
\* alone.
LEMMA OtherCallKeeps ==
  ASSUME LInv, Still, cur.op \in {"fan", "prep", "spray", "safe"},
         Complete \/ GoesOn("wait"), DeviceTypes', UNCHANGED <<shutter, shutterTo, belts>>
  PROVE  LInv'
<1>1. cur # Idle
  BY IntentKinds
<1>2. Books' /\ Counted' /\ OnTask'
  BY <1>1, WorkerKeeps
<1>3. /\ snap' = snap /\ phase' = phase /\ inflight' = inflight
      /\ queue' = queue /\ latch' = latch /\ (cur' = cur \/ cur' = Idle)
  BY DEF Still, vars, ctlVars, Complete, GoesOn
<1>4. ShutterObeys /\ Moving /\ ShutterSeen
  BY DEF LInv
<1>5. cur'.op \notin {"shutter", "train"}
  BY <1>3, IntentKinds
<1>6. ShutterObeys'
  BY <1>4, <1>5 DEF ShutterObeys
<1>7. Moving'
  <2>1. \A i \in Queued' : i.op # "train"
    BY <1>1, <1>3, NoTrainQueued, QueueSame
  <2> QED
    BY <1>4, <1>5, <2>1 DEF Moving
<1>8. ShutterSeen'
  BY <1>3, <1>4 DEF ShutterSeen
<1> QED
  BY <1>2, <1>6, <1>7, <1>8 DEF LInv

\* The fan, the robot programs and the safe pose are such calls.
LEMMA DeviceCallsKeep ==
  ASSUME LInv, DoFan \/ DoPrep \/ DoSpray \/ DoSafePose
  PROVE  LInv'
<1>1. DeviceTypes /\ cur \in Intents \cup {Idle}
  BY DEF LInv, Books, LineTypeOK, DeviceTypes
<1>2. CASE DoFan
  <2>1. cur.op = "fan" /\ Still /\ Complete /\ UNCHANGED <<shutter, shutterTo, clear, gun, belts>>
        /\ fans' = IF cur.on THEN fans \cup {cur.st} ELSE fans \ {cur.st}
    BY <1>2 DEF DoFan
  <2>2. cur.st \in FanStations
    <3>1. cur \in Intents
      BY <1>1, <2>1, IntentKinds
    <3> QED
      BY <2>1, <3>1, IntentKinds
  <2>3. DeviceTypes'
    BY <1>1, <2>1, <2>2 DEF DeviceTypes
  <2> QED
    BY <2>1, <2>3, OtherCallKeeps
<1>3. CASE DoPrep
  <2>1. /\ cur.op = "prep" /\ Still /\ (Complete \/ GoesOn("wait"))
        /\ clear' = FALSE /\ UNCHANGED <<shutter, shutterTo, fans, gun, belts>>
    BY <1>3 DEF DoPrep
  <2>2. DeviceTypes'
    BY <1>1, <2>1 DEF DeviceTypes
  <2> QED
    BY <2>1, <2>2, OtherCallKeeps
<1>4. CASE DoSpray
  <2>1. /\ cur.op = "spray" /\ Still /\ (Complete \/ GoesOn("wait"))
        /\ clear' = FALSE /\ gun' \in BOOLEAN /\ UNCHANGED <<shutter, shutterTo, fans, belts>>
    BY <1>4 DEF DoSpray
  <2>2. DeviceTypes'
    BY <1>1, <2>1 DEF DeviceTypes
  <2> QED
    BY <2>1, <2>2, OtherCallKeeps
<1>5. CASE DoSafePose
  <2>1. /\ cur.op = "safe" /\ Still /\ Complete
        /\ clear' = TRUE /\ UNCHANGED <<shutter, shutterTo, fans, gun, belts>>
    BY <1>5 DEF DoSafePose
  <2>2. DeviceTypes'
    BY <1>1, <2>1 DEF DeviceTypes
  <2> QED
    BY <2>1, <2>2, OtherCallKeeps
<1> QED
  BY <1>2, <1>3, <1>4, <1>5

\* A shutter command, too: it opens while the train waits to move.
LEMMA ShutterCallKeeps ==
  ASSUME LInv, DoShutter
  PROVE  LInv'
<1>1. cur.op = "shutter" /\ Still /\ UNCHANGED <<shutter, fans, clear, gun, belts>>
  BY DEF DoShutter
<1>2. cur # Idle /\ cur \in Intents
  BY <1>1, IntentKinds DEF LInv, Books
<1>3. cur.to \in {"open", "closed"}
  BY <1>1, <1>2, IntentKinds
<1>4. \/ at = "start" /\ shutterTo' = cur.to /\ GoesOn("wait")
      \/ at = "wait" /\ shutter = cur.to /\ Complete /\ shutterTo' = shutterTo
  BY DEF DoShutter
<1>5. DeviceTypes'
  BY <1>1, <1>3, <1>4 DEF LInv, Books, LineTypeOK, DeviceTypes
<1>6. Books' /\ Counted' /\ OnTask'
  BY <1>1, <1>2, <1>4, <1>5, WorkerKeeps
<1>7. /\ snap' = snap /\ phase' = phase /\ inflight' = inflight
      /\ queue' = queue /\ latch' = latch
  BY <1>1, <1>4 DEF Still, vars, ctlVars, Complete, GoesOn
<1>8. ShutterObeys /\ Moving /\ ShutterSeen
  BY DEF LInv
<1>9. ShutterObeys'
  <2>1. CASE at = "start" /\ shutterTo' = cur.to /\ GoesOn("wait")
    BY <1>1, <2>1 DEF GoesOn, ShutterObeys
  <2>2. CASE at = "wait" /\ shutter = cur.to /\ Complete /\ shutterTo' = shutterTo
    <3>1. shutterTo = cur.to /\ cur' = Idle
      BY <1>1, <1>8, <2>2 DEF Complete, ShutterObeys
    <3>2. cur'.op # "shutter"
      BY <3>1, IntentKinds
    <3> QED
      BY <1>1, <2>2, <3>1, <3>2 DEF ShutterObeys
  <2> QED
    BY <1>4, <2>1, <2>2
<1>10. Moving'
  <2>1. \A i \in Queued' : i.op # "train"
    BY <1>2, <1>7, NoTrainQueued, QueueSame
  <2>2. cur' = cur \/ cur' = Idle
    BY <1>4 DEF Complete, GoesOn
  <2>3. cur'.op # "train"
    BY <1>1, <2>2, IntentKinds
  <2>4. belts' \cap {"Z1", "Z2"} = {}
    BY <1>1, <1>8 DEF Moving
  <2> QED
    BY <2>1, <2>3, <2>4 DEF Moving
<1>11. ShutterSeen'
  <2> SUFFICES ASSUME snap.read, ~latch, phase = "moving", inflight = {},
                      snap.s.shutter = "open"
               PROVE  shutter = "open" /\ shutterTo' = "open"
    BY <1>1, <1>7 DEF ShutterSeen
  <2>1. shutter = "open" /\ shutterTo = "open"
    BY <1>8 DEF ShutterSeen
  <2>2. cur.to = "open"
    BY <1>2, OnlyOpens DEF SetShutter
  <2> QED
    BY <1>4, <2>1, <2>2
<1> QED
  BY <1>6, <1>9, <1>10, <1>11 DEF LInv

\* The worker takes what the machine waits for.
LEMMA TakeKeeps ==
  ASSUME LInv, Take
  PROVE  LInv'
<1>1. /\ cur = Idle /\ queue # <<>> /\ queue' = Tail(queue)
      /\ UNCHANGED <<vars, operVars, snap, latch, done, partsAt, devices>>
  BY DEF Take
<1>2. Books /\ Counted /\ OnTask /\ ShutterObeys /\ Moving /\ ShutterSeen
  BY DEF LInv
<1>3. ~latch /\ ~live
  BY <1>1, <1>2 DEF Counted
<1>4. cur' = Head(queue) /\ at' = "start" /\ live' = TRUE
  BY <1>3 DEF Take
<1>5. /\ UNCHANGED <<beat, phase, faultPhase, pending, inflight, occ, declared, infed, shipped,
                     coats, flash1, flash2, wet>>
      /\ UNCHANGED <<enabled, halts, pauses, phys, transit, fed, outfeed>>
      /\ UNCHANGED <<shutter, shutterTo, fans, clear, gun, belts, snap, latch, done>>
  BY <1>1 DEF vars, ctlVars, bookVars, partVars, operVars, partsAt, devices
<1>6. queue \in Seq(Intents)
  BY <1>2 DEF Books
<1>7. /\ Head(queue) \in Intents /\ Head(queue) \in Queued
      /\ Tail(queue) \in Seq(Intents) /\ Len(Tail(queue)) = Len(queue) - 1
      /\ Len(queue) \in Nat \ {0} /\ Queued' \subseteq Queued
  BY <1>1, <1>6, QueueTaken
<1>8. PICK h \in Intents : h = Head(queue)
  BY <1>7
<1>9. cur' = h /\ h \in Queued /\ h # Idle /\ Len(queue') = Len(queue) - 1
  BY <1>1, <1>4, <1>7, <1>8, IntentKinds
<1>10. Len(queue) <= 5 /\ pending \in 0 .. 5 /\ done \in 0 .. 5
  BY <1>2 DEF Books, LineTypeOK, TypeOK
<1>11. pending = Len(queue) + done
  <2>1. pending = Len(queue) + done + (IF live THEN 1 ELSE 0)
    BY <1>2, <1>3 DEF Counted, WaitsForWhatRuns
  <2> QED
    BY <1>3, <1>7, <1>10, <2>1
<1>12. Books'
  <2>1. Len(queue') <= 5
    BY <1>7, <1>9, <1>10
  <2>2. TypeOK' /\ LineTypeOK'
    BY <1>2, <1>4, <1>5, <1>9, <2>1 DEF Books, TypeOK, LineTypeOK
  <2> QED
    BY <1>1, <1>2, <1>5, <1>7, <1>9, <2>2 DEF Books
<1>13. Counted'
  <2>1. (done + Waited <= 5)'
    BY <1>4, <1>5, <1>7, <1>10, <1>11 DEF Waited
  <2>2. pending = Len(queue) - 1 + done + 1
    BY <1>7, <1>10, <1>11
  <2>3. WaitsForWhatRuns'
    BY <1>4, <1>5, <1>9, <2>2 DEF WaitsForWhatRuns
  <2>4. (live => cur # Idle)' /\ (latch => queue = <<>>)' /\ (phase = "faulted" => latch)'
    BY <1>2, <1>3, <1>5, <1>9 DEF Counted
  <2> QED
    BY <1>2, <1>5, <2>1, <2>3, <2>4 DEF Counted
<1>14. OnTask'
  <2>1. \A i \in Queued : Expected(i)
    BY <1>2, <1>3 DEF OnTask
  <2>2. \A i : Expected(i)' <=> Expected(i)
    BY <1>5 DEF Expected
  <2>3. Expected(h)'
    BY <1>9, <2>1, <2>2
  <2>4. Expected(cur)'
    BY <1>9, <2>3 DEF Expected
  <2> QED
    BY <1>4, <1>7, <2>1, <2>2, <2>4 DEF OnTask
<1>15. ShutterObeys'
  <2>1. shutter = shutterTo
    BY <1>1, <1>2, IntentKinds DEF ShutterObeys
  <2> QED
    BY <1>4, <1>5, <2>1 DEF ShutterObeys
<1>16. Moving'
  <2>1. Clearance' <=> Clearance
    BY <1>5 DEF Clearance
  <2>2. belts' \cap {"Z1", "Z2"} = {}
    BY <1>1, <1>2, <1>5, IntentKinds DEF Moving
  <2>3. \A i \in Queued : i.op = "train" => Len(queue) = 1 /\ Clearance
    BY <1>2 DEF Moving
  <2>4. Len(queue) = 1 => Queued' = {}
    <3>1. Len(queue) = 1 => Len(queue') = 0 /\ queue' \in Seq(Intents)
      BY <1>1, <1>7
    <3>2. Len(queue) = 1 => queue' = <<>>
      BY <3>1
    <3> QED
      BY <3>2, QueueEmpty
  <2>5. \A i \in Queued' : i.op # "train"
    BY <1>7, <2>3, <2>4
  <2> QED
    BY <1>9, <2>1, <2>2, <2>3, <2>5 DEF Moving
<1>17. ShutterSeen'
  BY <1>2, <1>5 DEF ShutterSeen
<1> QED
  BY <1>12, <1>13, <1>14, <1>15, <1>16, <1>17 DEF LInv

\* The train mover's calls run zones only for the move at hand.
LEMMA TrainCallsKeep ==
  ASSUME LInv, ArmZones \/ TrainArrived
  PROVE  LInv'
<1>1. /\ cur.op = "train" /\ Still /\ UNCHANGED <<shutter, shutterTo, fans, clear, gun>>
      /\ Complete \/ GoesOn("armed") \/ GoesOn("wait")
      /\ GoesOn("armed") \/ GoesOn("wait") \/ belts' = {}
  BY DEF ArmZones, TrainArrived
<1>2. cur # Idle
  BY <1>1, IntentKinds
<1>3. DeviceTypes'
  <2>1. DeviceTypes
    BY DEF LInv, Books, LineTypeOK, DeviceTypes
  <2>2. belts' \subseteq {"Z1", "Z2", "feed"}
    BY <2>1 DEF ArmZones, TrainArrived, Feeding, Armed, DeviceTypes
  <2> QED
    BY <1>1, <2>1, <2>2 DEF DeviceTypes
<1>4. Books' /\ Counted' /\ OnTask'
  BY <1>1, <1>2, <1>3, WorkerKeeps
<1>5. /\ snap' = snap /\ phase' = phase /\ inflight' = inflight
      /\ queue' = queue /\ latch' = latch
  BY <1>1 DEF Still, vars, ctlVars, Complete, GoesOn
<1>6. ShutterObeys /\ Moving /\ ShutterSeen
  BY DEF LInv
<1>7. (cur' = Idle /\ belts' = {}) \/ cur' = cur
  BY <1>1 DEF Complete, GoesOn
<1>8. cur'.op # "shutter"
  BY <1>1, <1>7, IntentKinds
<1>9. ShutterObeys'
  BY <1>1, <1>6, <1>8 DEF ShutterObeys
<1>10. Moving'
  <2>1. \A i \in Queued' : i.op # "train"
    BY <1>2, <1>5, NoTrainQueued, QueueSame
  <2>2. Clearance'
    BY <1>1, <1>6 DEF Moving, Clearance
  <2>3. belts' \cap {"Z1", "Z2"} # {} => cur'.op = "train"
    BY <1>1, <1>7
  <2> QED
    BY <2>1, <2>2, <2>3 DEF Moving
<1>11. ShutterSeen'
  BY <1>1, <1>5, <1>6 DEF ShutterSeen
<1> QED
  BY <1>4, <1>9, <1>10, <1>11 DEF LInv

\* Giving up a move stops the belts and latches the executor.
LEMMA TrainErrorKeeps ==
  ASSUME LInv, TrainError
  PROVE  LInv'
<1>1. /\ cur.op = "train" /\ Still
      /\ latch' = TRUE /\ queue' = <<>> /\ belts' = {}
      /\ cur' = Idle /\ at' = "idle" /\ live' = FALSE
      /\ UNCHANGED <<done, shutter, shutterTo, fans, clear, gun>>
  BY DEF TrainError
<1>2. /\ UNCHANGED <<beat, phase, faultPhase, pending, inflight, occ, declared, infed, shipped,
                     coats, flash1, flash2, wet>>
      /\ UNCHANGED <<enabled, halts, pauses, snap, phys, transit, fed, outfeed>>
  BY <1>1 DEF Still, vars, ctlVars, bookVars, partVars, operVars, partsAt
<1>3. Books /\ Counted /\ ShutterObeys /\ Moving /\ ShutterSeen
  BY DEF LInv
<1>e. <<>> \in Seq(Intents) /\ Len(<<>>) = 0
  OBVIOUS
<1>4. Books'
  <2>1. TypeOK'
    BY <1>2, <1>3 DEF Books, TypeOK
  <2>2. Len(queue') <= 5
    BY <1>1, <1>e
  <2>3. latch' \in BOOLEAN /\ live' \in BOOLEAN /\ belts' \subseteq {"Z1", "Z2", "feed"}
    BY <1>1
  <2>4. at' \in {"idle", "start", "armed", "wait"} /\ (at' = "idle" <=> cur' = Idle)
    BY <1>1
  <2>5. LineTypeOK'
    BY <1>1, <1>2, <1>3, <2>2, <2>3, <2>4 DEF Books, LineTypeOK
  <2> QED
    BY <1>1, <1>2, <1>3, <1>e, <2>1, <2>5 DEF Books
<1>5. Counted'
  <2>1. done' + 0 <= 5
    BY <1>1, <1>3 DEF Books, LineTypeOK
  <2>2. (done + Waited <= 5)'
    BY <1>1, <2>1 DEF Waited
  <2> QED
    BY <1>1, <1>2, <1>3, <2>2 DEF Counted, WaitsForWhatRuns
<1>6. OnTask' /\ ShutterSeen'
  BY <1>1 DEF OnTask, ShutterSeen
<1>7. ShutterObeys'
  BY <1>1, <1>3, IntentKinds DEF ShutterObeys
<1>8. Moving'
  <2>1. Queued' = {} /\ cur'.op = "none"
    BY <1>1, QueueEmpty, IntentKinds
  <2> QED
    BY <1>1, <2>1 DEF Moving
<1> QED
  BY <1>4, <1>5, <1>6, <1>7, <1>8 DEF LInv

-----------------------------------------------------------------------------
(***************************************************************************)
(* The plant and the operator keep the invariant.                           *)
(***************************************************************************)
\* Whoever leaves a station is a part, and goes to a station.
LEMMA LeavingKeepsBooks ==
  ASSUME Books, NEW st \in Leaving
  PROVE  /\ Ahead(st) \in Stations
         /\ (IF st = "IN" THEN fed + 1 ELSE phys[st]) \in Parts
<1>1. st \in {"IN", "F1", "O", "F2"} /\ Leaves(st)
  BY DEF Leaving, Stations, Tracked
<1>2. Ahead(st) \in Stations
  <2>1. CASE Down
    BY <1>1, <2>1 DEF Ahead, Stations, Tracked
  <2>2. CASE ~Down
    <3>1. st \in {"O", "F2"}
      BY <1>1, <2>2 DEF Leaves
    <3> QED
      BY <2>2, <3>1 DEF Ahead, Stations, Tracked
  <2> QED
    BY <2>1, <2>2
<1>3. CASE st = "IN"
  <2>1. fed < declared
    <3>1. CASE Down
      BY <1>1, <1>3, <3>1 DEF Leaves
    <3>2. CASE ~Down
      BY <1>1, <1>3, <3>2 DEF Leaves
    <3> QED
      BY <3>1, <3>2
  <2>2. fed \in Nat /\ declared \in 0 .. MaxParts
    BY DEF Books, TypeOK, LineTypeOK
  <2>3. fed + 1 \in Parts
    BY <2>1, <2>2, MachineAssumption DEF Parts
  <2> QED
    BY <1>2, <1>3, <2>3
<1>4. CASE st # "IN"
  <2>1. st \in Tracked /\ phys[st] # NoPart
    <3>1. CASE Down
      BY <1>1, <1>4, <3>1 DEF Leaves, Tracked
    <3>2. CASE ~Down
      BY <1>1, <1>4, <3>2 DEF Leaves, Tracked
    <3> QED
      BY <3>1, <3>2
  <2>2. phys[st] \in Parts
    BY <2>1 DEF Books, LineTypeOK
  <2> QED
    BY <1>2, <1>4, <2>2
<1> QED
  BY <1>3, <1>4

\* Parts moving on a belt touch neither the machine, nor the worker, nor the shutter,
\* and can only stop belts.
LEMMA BeltsOnlyStop ==
  ASSUME LInv, UNCHANGED <<vars, operVars, snap, execVars, shutter, shutterTo, fans, clear, gun>>,
         belts' \subseteq belts,
         phys' \in [Tracked -> Parts \cup {NoPart}], fed' \in 0 .. declared, outfeed' \in BOOLEAN,
         transit' \in SUBSET (Stations \X Parts)
  PROVE  LInv'
<1>1. /\ UNCHANGED <<beat, phase, faultPhase, pending, inflight, occ, declared, infed, shipped,
                     coats, flash1, flash2, wet>>
      /\ UNCHANGED <<enabled, halts, pauses, snap, queue, cur, at, latch, done, live>>
      /\ UNCHANGED <<shutter, shutterTo, fans, clear, gun>>
  BY DEF vars, ctlVars, bookVars, partVars, operVars, execVars
<1>2. Books /\ Counted /\ OnTask /\ ShutterObeys /\ Moving /\ ShutterSeen
  BY DEF LInv
<1>3. Queued' = Queued
  BY <1>1, QueueSame
<1>4. Books'
  <2>1. TypeOK' /\ LineTypeOK'
    BY <1>1, <1>2 DEF Books, TypeOK, LineTypeOK
  <2> QED
    BY <1>1, <1>2, <2>1 DEF Books
<1>5. Counted'
  BY <1>1, <1>2 DEF Counted, Waited, WaitsForWhatRuns
<1>6. OnTask'
  BY <1>1, <1>2, <1>3 DEF OnTask, Expected
<1>7. ShutterObeys' /\ ShutterSeen'
  BY <1>1, <1>2 DEF ShutterObeys, ShutterSeen
<1>8. Moving'
  BY <1>1, <1>2, <1>3 DEF Moving, Clearance
<1> QED
  BY <1>4, <1>5, <1>6, <1>7, <1>8 DEF LInv

\* Parts leave their stations.
LEMMA DepartKeeps ==
  ASSUME LInv, Depart
  PROVE  LInv'
<1>1. Books
  BY DEF LInv
<1>2. transit' \in SUBSET (Stations \X Parts)
  BY <1>1, LeavingKeepsBooks DEF Depart
<1>3. phys' \in [Tracked -> Parts \cup {NoPart}]
  BY <1>1 DEF Depart, Books, LineTypeOK
<1>4. fed' \in 0 .. declared
  <2>1. CASE "IN" \in Leaving
    <3>1. Leaves("IN")
      BY <2>1 DEF Leaving
    <3>2. fed < declared
      <4>1. CASE Down
        BY <3>1, <4>1 DEF Leaves
      <4>2. CASE ~Down
        BY <3>1, <4>2 DEF Leaves
      <4> QED
        BY <4>1, <4>2
    <3>3. fed \in 0 .. declared /\ declared \in Nat /\ fed' = fed + 1
      BY <1>1, <2>1 DEF Depart, Books, TypeOK, LineTypeOK
    <3> QED
      BY <3>2, <3>3
  <2>2. CASE "IN" \notin Leaving
    BY <1>1, <2>2 DEF Depart, Books, LineTypeOK
  <2> QED
    BY <2>1, <2>2
<1>5. outfeed' \in BOOLEAN /\ belts' \subseteq belts
  BY <1>1 DEF Depart, Books, LineTypeOK
<1>6. UNCHANGED <<vars, operVars, snap, execVars, shutter, shutterTo, fans, clear, gun>>
  BY DEF Depart
<1> QED
  BY <1>2, <1>3, <1>4, <1>5, <1>6, BeltsOnlyStop

\* Parts arrive.
LEMMA LandKeeps ==
  ASSUME LInv, Land
  PROVE  LInv'
<1>1. Books
  BY DEF LInv
<1>2. phys' \in [Tracked -> Parts \cup {NoPart}]
  <2>1. ASSUME NEW st \in Tracked
        PROVE  (IF \E t \in transit : t[1] = st
                THEN (CHOOSE t \in transit : t[1] = st)[2] ELSE phys[st]) \in Parts \cup {NoPart}
    <3>1. CASE \E t \in transit : t[1] = st
      <4>1. (CHOOSE t \in transit : t[1] = st) \in transit
        BY <3>1
      <4> QED
        BY <1>1, <3>1, <4>1 DEF Books
    <3>2. CASE ~\E t \in transit : t[1] = st
      BY <1>1, <3>2 DEF Books, LineTypeOK
    <3> QED
      BY <3>1, <3>2
  <2> QED
    BY <2>1 DEF Land
<1>3. transit' \in SUBSET (Stations \X Parts) /\ fed' = fed
  BY DEF Land
<1>4. fed' \in 0 .. declared
  BY <1>1, <1>3 DEF Books, LineTypeOK
<1>5. outfeed' \in BOOLEAN
  BY <1>1 DEF Land, Books, LineTypeOK
<1>6. /\ UNCHANGED <<vars, operVars, snap, execVars, shutter, shutterTo, fans, clear, gun>>
      /\ belts' \subseteq belts
  BY DEF Land
<1> QED
  BY <1>2, <1>3, <1>4, <1>5, <1>6, BeltsOnlyStop

\* A finished part is taken off the outfeed.
LEMMA TakeOffKeeps ==
  ASSUME LInv, TakeOffOutfeed
  PROVE  LInv'
<1>1. /\ UNCHANGED <<vars, operVars, snap, execVars, phys, transit, fed>>
      /\ UNCHANGED <<shutter, shutterTo, fans, clear, gun, belts>> /\ outfeed' = FALSE
  BY DEF TakeOffOutfeed, devices
<1>2. /\ phys' \in [Tracked -> Parts \cup {NoPart}] /\ fed' \in 0 .. declared
      /\ transit' \in SUBSET (Stations \X Parts)
  BY <1>1 DEF LInv, Books, LineTypeOK
<1> QED
  BY <1>1, <1>2, BeltsOnlyStop

\* The shutter moves only while its command waits, so no train and no picture of an
\* open shutter depends on it.
LEMMA ShutterMovesKeeps ==
  ASSUME LInv, ShutterMoves
  PROVE  LInv'
<1>1. /\ shutter # shutterTo /\ shutter' \in {shutterTo, "unknown"}
      /\ UNCHANGED <<vars, operVars, snap, execVars, partsAt, shutterTo, fans, clear, gun, belts>>
  BY DEF ShutterMoves
<1>2. /\ UNCHANGED <<beat, phase, faultPhase, pending, inflight, occ, declared, infed, shipped,
                     coats, flash1, flash2, wet>>
      /\ UNCHANGED <<enabled, halts, pauses, snap, queue, cur, at, latch, done, live>>
      /\ UNCHANGED <<phys, transit, fed, outfeed, shutterTo, fans, clear, gun, belts>>
  BY <1>1 DEF vars, ctlVars, bookVars, partVars, operVars, execVars, partsAt
<1>3. Books /\ Counted /\ OnTask /\ ShutterObeys /\ Moving /\ ShutterSeen
  BY DEF LInv
<1>4. cur.op = "shutter" /\ at = "wait" /\ cur # Idle
  BY <1>1, <1>3, IntentKinds DEF ShutterObeys
<1>5. Queued' = Queued
  BY <1>2, QueueSame
<1>6. Books'
  <2>1. shutter' \in {"open", "closed", "unknown"}
    BY <1>1, <1>3 DEF Books, LineTypeOK
  <2>2. TypeOK' /\ LineTypeOK'
    BY <1>2, <1>3, <2>1 DEF Books, TypeOK, LineTypeOK
  <2> QED
    BY <1>2, <1>3, <2>2 DEF Books
<1>7. Counted'
  BY <1>2, <1>3 DEF Counted, Waited, WaitsForWhatRuns
<1>8. OnTask'
  BY <1>2, <1>3, <1>5 DEF OnTask, Expected
<1>9. ShutterObeys'
  BY <1>2, <1>3, <1>4 DEF ShutterObeys
<1>10. Moving'
  <2>1. \A i \in Queued' : i.op # "train"
    BY <1>4, <1>5, NoTrainQueued
  <2> QED
    BY <1>2, <1>3, <1>4, <2>1 DEF Moving
<1>11. ShutterSeen'
  BY <1>1, <1>2, <1>3 DEF ShutterSeen
<1> QED
  BY <1>6, <1>7, <1>8, <1>9, <1>10, <1>11 DEF LInv

\* While the loop holds the line at a boundary, only timers run.
LEMMA IdleLoopKeeps ==
  ASSUME LInv, IdleLoop
  PROVE  LInv'
<1>1. /\ UNCHANGED <<operVars, snap, execVars, partsAt, devices>> /\ IdleTick(Sensed, 1)
  BY DEF IdleLoop
<1>2. /\ UNCHANGED <<beat, phase, faultPhase, pending, inflight, occ, declared, infed, shipped>>
      /\ UNCHANGED <<enabled, halts, pauses, snap, queue, cur, at, latch, done, live>>
      /\ UNCHANGED <<phys, transit, fed, outfeed, shutter, shutterTo, fans, clear, gun, belts>>
  BY <1>1 DEF IdleTick, ctlVars, bookVars, operVars, execVars, partsAt, devices
<1>3. Books /\ Counted /\ OnTask /\ ShutterObeys /\ Moving /\ ShutterSeen
  BY DEF LInv
<1>4. Queued' = Queued
  BY <1>2, QueueSame
<1>5. Books'
  <2>1. TimerType /\ 1 \in 0 .. MaxDt
    BY <1>3, LineAssumption, MachineAssumption DEF Books, TypeOK, TimerType
  <2>2. TimerType'
    BY <1>1, <2>1, BankType DEF IdleTick
  <2>3. TypeOK'
    BY <1>2, <1>3, <2>2 DEF Books, TypeOK, TimerType
  <2>4. LineTypeOK'
    BY <1>2, <1>3 DEF Books, LineTypeOK
  <2> QED
    BY <1>2, <1>3, <2>3, <2>4 DEF Books
<1>6. Counted'
  BY <1>2, <1>3 DEF Counted, Waited, WaitsForWhatRuns
<1>7. OnTask'
  BY <1>2, <1>3, <1>4 DEF OnTask, Expected
<1>8. ShutterObeys' /\ ShutterSeen'
  BY <1>2, <1>3 DEF ShutterObeys, ShutterSeen
<1>9. Moving'
  BY <1>2, <1>3, <1>4 DEF Moving, Clearance
<1> QED
  BY <1>5, <1>6, <1>7, <1>8, <1>9 DEF LInv

\* A batch changes nothing but the queue at IN; a pause and a run nothing but the
\* switch.
LEMMA OperatorKeeps ==
  ASSUME LInv, (\E n \in Parts : DeclareBatch(n)) \/ Pause \/ Run
  PROVE  LInv'
<1>1. /\ UNCHANGED <<snap, execVars, partsAt, devices, partVars, ctlVars>>
      /\ UNCHANGED <<occ, infed, shipped>>
  BY DEF DeclareBatch, SteadyDeclare, Declare, Pause, Run, vars, bookVars
<1>2. /\ UNCHANGED <<beat, phase, faultPhase, pending, inflight, occ, infed, shipped,
                     coats, flash1, flash2, wet>>
      /\ UNCHANGED <<snap, queue, cur, at, latch, done, live>>
      /\ UNCHANGED <<phys, transit, fed, outfeed, shutter, shutterTo, fans, clear, gun, belts>>
  BY <1>1 DEF ctlVars, partVars, execVars, partsAt, devices
<1>3. Books /\ Counted /\ OnTask /\ ShutterObeys /\ Moving /\ ShutterSeen
  BY DEF LInv
<1>4. Queued' = Queued
  BY <1>2, QueueSame
<1>5. Books'
  <2>1. TypeOK' /\ declared' \in Nat /\ declared \in Nat /\ declared <= declared'
    <3>1. CASE \E n \in Parts : DeclareBatch(n)
      <4>1. PICK n \in Parts : Declare(n)
        BY <3>1 DEF DeclareBatch, SteadyDeclare
      <4>2. TypeOK'
        BY <1>3, <4>1, DeclareTypeOK DEF Books
      <4> QED
        BY <1>3, <4>1, <4>2 DEF Books, TypeOK, Declare, Parts
    <3>2. CASE Pause \/ Run
      <4>1. UNCHANGED <<beat, phase, faultPhase, pending, inflight, occ, declared, infed,
                        shipped, coats, flash1, flash2, wet>>
        BY <3>2 DEF Pause, Run, vars, ctlVars, bookVars, partVars
      <4> QED
        BY <1>3, <4>1 DEF Books, TypeOK
    <3> QED
      BY <3>1, <3>2
  <2>2. enabled' \in BOOLEAN /\ halts' \in 0 .. MaxHalts /\ pauses' \in 0 .. MaxPauses
    <3>1. enabled \in BOOLEAN /\ halts \in 0 .. MaxHalts /\ pauses \in 0 .. MaxPauses
      BY <1>3 DEF Books, LineTypeOK
    <3>2. CASE \E n \in Parts : DeclareBatch(n)
      BY <3>1, <3>2 DEF DeclareBatch, operVars
    <3>3. CASE Pause
      <4>1. enabled' = FALSE /\ halts' = halts /\ pauses < MaxPauses /\ pauses' = pauses + 1
        BY <3>3 DEF Pause
      <4>2. pauses' \in 0 .. MaxPauses
        BY <3>1, <4>1, LineAssumption
      <4> QED
        BY <3>1, <4>1, <4>2
    <3>4. CASE Run
      BY <3>1, <3>4 DEF Run
    <3> QED
      BY <3>2, <3>3, <3>4
  <2>3. LineTypeOK'
    <3>1. fed \in 0 .. declared
      BY <1>3 DEF Books, LineTypeOK
    <3>2. fed' \in 0 .. declared'
      BY <1>2, <2>1, <3>1
    <3> QED
      BY <1>2, <1>3, <2>2, <3>2 DEF Books, LineTypeOK
  <2> QED
    BY <1>2, <1>3, <2>1, <2>3 DEF Books
<1>6. Counted'
  BY <1>2, <1>3 DEF Counted, Waited, WaitsForWhatRuns
<1>7. OnTask'
  BY <1>2, <1>3, <1>4 DEF OnTask, Expected
<1>8. ShutterObeys' /\ ShutterSeen'
  BY <1>2, <1>3 DEF ShutterObeys, ShutterSeen
<1>9. Moving'
  BY <1>2, <1>3, <1>4 DEF Moving, Clearance
<1> QED
  BY <1>5, <1>6, <1>7, <1>8, <1>9 DEF LInv

\* A halt latches the executor and idles the zones, whatever the worker is at.
LEMMA HaltKeeps ==
  ASSUME LInv, Halt
  PROVE  LInv'
<1>1. /\ halts < MaxHalts /\ halts' = halts + 1
      /\ latch' = TRUE /\ queue' = <<>> /\ belts' = belts \cap {"feed"}
      /\ UNCHANGED <<vars, enabled, pauses, snap, cur, at, done, live, partsAt,
                     shutter, shutterTo, fans, clear, gun>>
  BY DEF Halt, HaltExecutor
<1>2. /\ UNCHANGED <<beat, phase, faultPhase, pending, inflight, occ, declared, infed, shipped,
                     coats, flash1, flash2, wet>>
      /\ UNCHANGED <<enabled, pauses, snap, cur, at, done, live, phys, transit, fed, outfeed>>
      /\ UNCHANGED <<shutter, shutterTo, fans, clear, gun>>
  BY <1>1 DEF vars, ctlVars, bookVars, partVars, partsAt
<1>3. Books /\ Counted /\ ShutterObeys /\ Moving
  BY DEF LInv
<1>e. <<>> \in Seq(Intents) /\ Len(<<>>) = 0
  OBVIOUS
<1>4. Books'
  <2>1. TypeOK'
    BY <1>2, <1>3 DEF Books, TypeOK
  <2>2. halts' \in 0 .. MaxHalts
    BY <1>1, <1>3, LineAssumption DEF Books, LineTypeOK
  <2>3. Len(queue') <= 5 /\ queue' \in Seq(Intents)
    BY <1>1, <1>e
  <2>4. latch' \in BOOLEAN
    BY <1>1
  <2>5. belts' \subseteq {"Z1", "Z2", "feed"}
    BY <1>1
  <2>6. LineTypeOK'
    BY <1>2, <1>3, <2>2, <2>3, <2>4, <2>5 DEF Books, LineTypeOK
  <2> QED
    BY <1>2, <1>3, <2>1, <2>3, <2>6 DEF Books
<1>5. Counted'
  BY <1>1, <1>2, <1>3 DEF Counted, Waited, WaitsForWhatRuns
<1>6. OnTask' /\ ShutterSeen'
  BY <1>1 DEF OnTask, ShutterSeen
<1>7. ShutterObeys'
  BY <1>2, <1>3 DEF ShutterObeys
<1>8. Moving'
  <2>1. Queued' = {} /\ belts' \cap {"Z1", "Z2"} = {}
    BY <1>1, QueueEmpty
  <2> QED
    BY <1>2, <1>3, <2>1 DEF Moving, Clearance
<1> QED
  BY <1>4, <1>5, <1>6, <1>7, <1>8 DEF LInv

\* An acknowledgement clears the latch with the safe pose queued: the machine waits for
\* that, and not for what the worker may still be at.
LEMMA AckKeeps ==
  ASSUME LInv, AckFault
  PROVE  LInv'
<1>1. /\ ~snap.read /\ Resume(phys, beat, Sensed.occupied)
      /\ latch' = FALSE /\ done' = 0 /\ live' = FALSE
      /\ queue' = <<MoveToSafePose>>
      /\ UNCHANGED <<operVars, snap, cur, at, partsAt, devices>>
  BY DEF AckFault
<1>2. /\ UNCHANGED <<enabled, halts, pauses, snap, cur, at, phys, transit, fed, outfeed>>
      /\ UNCHANGED <<shutter, shutterTo, fans, clear, gun, belts>>
  BY <1>1 DEF operVars, partsAt, devices
<1>3. Books /\ Counted /\ ShutterObeys /\ Moving
  BY DEF LInv
<1>4. MoveToSafePose \in Intents /\ MoveToSafePose.op = "safe"
  BY AreIntents
<1>5. /\ queue' \in Seq(Intents) /\ Len(queue') = 1
      /\ \A i \in Queued' : i.op = "safe"
  <2>1. PICK q \in Intents : q = MoveToSafePose
    BY <1>4
  <2>2. queue' = <<q>> /\ q.op = "safe"
    BY <1>1, <1>4, <2>1
  <2>3. <<q>> \in Seq(Intents) /\ Len(<<q>>) = 1 /\ \A n \in 1 .. Len(<<q>>) : <<q>>[n] = q
    BY OneSubmitted
  <2> QED
    BY <2>2, <2>3 DEF Queued
<1>6. /\ phase' \in {"shutter_close", "await_guards", "robot_work"} /\ pending' = 1
      /\ inflight' = {}
  BY <1>1 DEF Resume, ReentryPhase
<1>7. Books'
  <2>1. TypeOK'
    <3>1. /\ TypeOK /\ phys \in [Tracked -> Parts \cup {NoPart}] /\ beat \in Beats
      BY <1>3 DEF Books, TypeOK, LineTypeOK
    <3> QED
      BY <1>1, <3>1, ResumeTypeOK
  <2>2. declared' = declared
    BY <1>1 DEF Resume
  <2>3. done' \in 0 .. 5
    BY <1>1
  <2>4. latch' \in BOOLEAN /\ live' \in BOOLEAN
    BY <1>1
  <2>5. Len(queue') <= 5
    BY <1>5
  <2>6. LineTypeOK'
    BY <1>2, <1>3, <2>2, <2>3, <2>5, <2>4 DEF Books, LineTypeOK
  <2> QED
    BY <1>2, <1>3, <1>5, <2>1, <2>6 DEF Books
<1>8. Counted'
  <2>1. (done + Waited <= 5)'
    BY <1>1 DEF Waited
  <2>2. WaitsForWhatRuns'
    BY <1>1, <1>5, <1>6 DEF WaitsForWhatRuns
  <2> QED
    BY <1>1, <1>6, <2>1, <2>2 DEF Counted
<1>9. OnTask'
  <2>1. \A i \in Queued' : Expected(i)'
    BY <1>5, <1>6 DEF Expected
  <2> QED
    BY <1>1, <2>1 DEF OnTask
<1>10. ShutterObeys' /\ ShutterSeen'
  BY <1>1, <1>2, <1>3 DEF ShutterObeys, ShutterSeen
<1>11. Moving'
  BY <1>2, <1>3, <1>5 DEF Moving, Clearance
<1> QED
  BY <1>7, <1>8, <1>9, <1>10, <1>11 DEF LInv

\* The line starts empty, with nothing queued and nothing running.
LEMMA LInitially == LineInit => LInv
<1> SUFFICES ASSUME LineInit PROVE LInv
  OBVIOUS
<1>1. /\ Init /\ enabled = TRUE /\ halts = 0 /\ pauses = 0 /\ snap = Nothing
      /\ queue = <<>> /\ cur = Idle /\ at = "idle" /\ latch = FALSE /\ done = 0 /\ live = FALSE
      /\ phys = [st \in Tracked |-> NoPart] /\ transit = {} /\ fed = 0 /\ outfeed = FALSE
      /\ shutter = "closed" /\ shutterTo = "closed" /\ fans = {}
      /\ clear = TRUE /\ gun = FALSE /\ belts = {}
  BY DEF LineInit
<1>e. <<>> \in Seq(Intents) /\ Len(<<>>) = 0
  OBVIOUS
<1>2. TypeOK
  BY <1>1, InitTypeOK
<1>3. Books
  <2>1. enabled \in BOOLEAN /\ halts \in 0 .. MaxHalts /\ pauses \in 0 .. MaxPauses
    BY <1>1, LineAssumption
  <2>2. Len(queue) <= 5 /\ done \in 0 .. 5
    BY <1>1, <1>e
  <2>3. latch \in BOOLEAN /\ live \in BOOLEAN /\ outfeed \in BOOLEAN
    BY <1>1
  <2>4. at \in {"idle", "start", "armed", "wait"} /\ (at = "idle" <=> cur = Idle)
    BY <1>1
  <2>5. phys \in [Tracked -> Parts \cup {NoPart}]
    BY <1>1
  <2>6. fed \in 0 .. declared
    BY <1>1 DEF Init
  <2>7. /\ shutter \in {"open", "closed", "unknown"} /\ shutterTo \in {"open", "closed"}
        /\ fans \subseteq FanStations /\ belts \subseteq {"Z1", "Z2", "feed"}
        /\ clear \in BOOLEAN /\ gun \in BOOLEAN
    BY <1>1
  <2>8. LineTypeOK
    BY <2>1, <2>2, <2>4, <2>5, <2>7, <2>3, <2>6 DEF LineTypeOK
  <2>9. queue \in Seq(Intents) /\ cur = Idle /\ snap = Nothing /\ transit = {}
    BY <1>1, <1>e
  <2> QED
    BY <1>2, <2>8, <2>9 DEF Books
<1>4. pending = 0 /\ phase = "robot_work" /\ inflight = {}
  BY <1>1 DEF Init
<1>5. Counted
  <2>1. (IF live THEN 1 ELSE 0) = 0
    BY <1>1
  <2>2. Len(queue) = 0
    BY <1>1, <1>e
  <2>3. WaitsForWhatRuns
    BY <1>1, <1>4, <2>1, <2>2 DEF WaitsForWhatRuns
  <2>4. done + Waited <= 5
    BY <1>1, <2>1 DEF Waited
  <2> QED
    BY <1>1, <1>4, <2>3, <2>4 DEF Counted
<1>6. Queued = {} /\ cur.op = "none"
  BY <1>1, QueueEmpty, IntentKinds
<1>7. OnTask
  BY <1>1, <1>6 DEF OnTask
<1>8. ShutterObeys /\ Moving
  BY <1>1, <1>6 DEF ShutterObeys, Moving
<1>9. ShutterSeen
  BY <1>4 DEF ShutterSeen
<1> QED
  BY <1>3, <1>5, <1>7, <1>8, <1>9 DEF LInv

\* Every step of the loop thread, the worker, the plant and the operator keeps it.
LEMMA LNextKeeps == LInv /\ [LineNext]_lineVars => LInv'
<1> SUFFICES ASSUME LInv, [LineNext]_lineVars PROVE LInv'
  OBVIOUS
<1>1. CASE ReadInputs \/ Act \/ IdleLoop
  BY <1>1, ReadKeeps, ActKeeps, IdleLoopKeeps
<1>2. CASE Worker
  <2>1. CASE Take
    BY <2>1, TakeKeeps
  <2>2. CASE DoFan \/ DoPrep \/ DoSpray \/ DoSafePose
    BY <2>2, DeviceCallsKeep
  <2>3. CASE DoShutter
    BY <2>3, ShutterCallKeeps
  <2>4. CASE ArmZones \/ TrainArrived
    BY <2>4, TrainCallsKeep
  <2>5. CASE TrainError
    BY <2>5, TrainErrorKeeps
  <2> QED
    BY <1>2, <2>1, <2>2, <2>3, <2>4, <2>5 DEF Worker
<1>3. CASE Plant
  BY <1>3, DepartKeeps, LandKeeps, ShutterMovesKeeps, TakeOffKeeps DEF Plant
<1>4. CASE Operator
  BY <1>4, OperatorKeeps, HaltKeeps DEF Operator
<1>5. CASE AckFault
  BY <1>5, AckKeeps
<1>6. CASE UNCHANGED lineVars
  <2>1. /\ UNCHANGED <<vars, operVars, snap, execVars>>
        /\ UNCHANGED <<phys, transit, fed, outfeed, shutter, shutterTo, fans, clear, gun, belts>>
    BY <1>6 DEF lineVars, partsAt, devices
  <2>2. /\ phys' \in [Tracked -> Parts \cup {NoPart}] /\ fed' \in 0 .. declared
        /\ outfeed' \in BOOLEAN /\ transit' \in SUBSET (Stations \X Parts)
    BY <2>1 DEF LInv, Books, LineTypeOK
  <2> QED
    BY <2>1, <2>2, BeltsOnlyStop
<1> QED
  BY <1>1, <1>2, <1>3, <1>4, <1>5, <1>6 DEF LineNext, Automatic

-----------------------------------------------------------------------------
(***************************************************************************)
(* The inductive invariant of the closed loop, for every number of parts,   *)
(* pauses and halts, every flash time, and an operator who acknowledges at  *)
(* any time.                                                                *)
(***************************************************************************)
THEOREM LineInvariant == LineSpec => []LInv
BY LInitially, LNextKeeps, PTL DEF LineSpec

(***************************************************************************)
(* Type correctness of the line (executor, plant and controller).           *)
(***************************************************************************)
THEOREM LineTypeCorrect == LineSpec => []LineTypeOK
<1>1. LInv => LineTypeOK
  BY DEF LInv, Books
<1> QED
  BY <1>1, LineInvariant, PTL

(***************************************************************************)
(* The machine waits for exactly what is queued, executing or finished and  *)
(* not yet collected, whatever the halts, train errors and acknowledgements *)
(* threw away in between (executor.Executor, machine.step).                 *)
(***************************************************************************)
THEOREM WaitsRight == LineSpec => []WaitsForWhatRuns
<1>1. LInv => WaitsForWhatRuns
  BY DEF LInv, Counted
<1> QED
  BY <1>1, LineInvariant, PTL

(***************************************************************************)
(* The transfer interlock at the device (guards.zone_motion_blocked): no    *)
(* zone runs unless the shutter is open, the robot clear and the gun off,   *)
(* although the guard saw an older picture of them.                         *)
(***************************************************************************)
THEOREM NoZoneUnlocked == LineSpec => []MotionInterlock
<1>1. LInv => MotionInterlock
  BY DEF LInv, Moving, Clearance, MotionInterlock
<1> QED
  BY <1>1, LineInvariant, PTL

-----------------------------------------------------------------------------
(***************************************************************************)
(* Paint, under any number of halts: no burst meets an empty station O or a *)
(* part between stations. What follows needs nothing of the pattern.        *)
(***************************************************************************)
ZonesStand == belts \cap {"Z1", "Z2"} = {}

Present == {st \in Tracked : phys[st] # NoPart}

\* Unless a fault stopped it, a belt runs until its parts have arrived.
Settled == ~latch /\ ZonesStand => Crossing = {}

\* A move of which the zone stops as soon as the part at F2 has left.
Lone(t) == t.op = "train" /\ ~Upstream(t.beat) /\ "F2" \in t.moves /\ "O" \notin t.moves

\* Such a move leaves nobody between O and F2: there is nobody at O, and the part at F2
\* is the first that leaves.
OutAlone ==
  /\ "Z2" \in belts => at = "wait"
  /\ \A t \in Queued : Lone(t) => phys["F2"] # NoPart /\ phys["O"] = NoPart /\ Crossing = {}
  /\ Lone(cur) /\ (at # "wait" \/ "Z2" \in belts) =>
       /\ phys["F2"] # NoPart /\ phys["O"] = NoPart
       /\ \A t \in transit : t[1] \in {"F1", "OUT"}

\* The picture by which a move is planned is true, and so are the books while the
\* shutter opens for it.
PictureTrue == snap.read /\ ~latch /\ phase = "shutter_open" => snap.s.occupied = Present
BooksAgree  == ~latch /\ phase = "moving" /\ inflight = {} => ~Mismatch(occ, Present)

\* The picture by which a batch is submitted may be old, but no train ran since.
SeenClosed ==
  snap.read /\ ~latch /\ phase = "robot_work" /\ snap.s.shutter = "closed" =>
    cur.op # "train" /\ ("O" \in snap.s.occupied => phys["O"] # NoPart)

Spraying == cur.op = "spray" \/ \E i \in Queued : i.op = "spray"

\* From its submission to the end of the burst the part to be sprayed stays at O.
SprayHeld ==
  Spraying => /\ cur.op # "train" /\ \A i \in Queued : i.op # "train"
              /\ phys["O"] # NoPart /\ Crossing = {}

GunHeld == gun => cur.op = "spray"

PlaceInv == Settled /\ OutAlone /\ PictureTrue /\ BooksAgree /\ SeenClosed /\ SprayHeld /\ GunHeld

-----------------------------------------------------------------------------
(***************************************************************************)
(* Who may be moving, and who may not.                                      *)
(***************************************************************************)
\* Zones stand while the worker is not at a train move.
LEMMA NoTrainNoZones ==
  ASSUME LInv, cur.op # "train"
  PROVE  ZonesStand
BY DEF LInv, Moving, ZonesStand

\* A machine that is about to open the shutter has a worker with nothing to do.
LEMMA OpensAtRest ==
  ASSUME LInv, ~latch, phase = "shutter_open"
  PROVE  cur = Idle
<1>1. OnTask
  BY DEF LInv
<1>2. ~live
  BY <1>1 DEF OnTask, Expected
<1>3. ASSUME cur # Idle
      PROVE  FALSE
  <2>1. queue = <<MoveToSafePose>>
    BY <1>1, <1>2, <1>3 DEF OnTask
  <2>2. MoveToSafePose \in Queued
    BY <2>1 DEF Queued
  <2> QED
    BY <1>1, <2>2 DEF OnTask, Expected
<1> QED
  BY <1>3

\* While the machine plans a move, no train runs.
LEMMA PlansAtRest ==
  ASSUME LInv, ~latch, phase = "shutter_open" \/ (phase = "moving" /\ inflight = {})
  PROVE  cur.op # "train" /\ ZonesStand
<1>1. cur.op # "train"
  <2>1. CASE cur = Idle
    BY <2>1, IntentKinds
  <2>2. CASE cur # Idle
    <3>1. cur = SetShutter("open")
      BY <2>2, OpensAtRest, OnlyOpens
    <3> QED
      BY <3>1 DEF SetShutter
  <2> QED
    BY <2>1, <2>2
<1> QED
  BY <1>1, NoTrainNoZones

\* While the robot is due, the worker takes no train move and no shutter command.
LEMMA RobotExpects ==
  ASSUME LInv, ~latch, phase = "robot_work"
  PROVE  /\ \A i \in Queued : i.op \in {"fan", "safe"}
         /\ live => cur.op \in {"fan", "safe"}
BY DEF LInv, OnTask, Expected

\* A step that touches none of the invariant's variables keeps it.
LEMMA PlaceSame ==
  ASSUME PlaceInv,
         UNCHANGED <<phase, inflight, occ, snap, queue, cur, at, latch, phys, transit, gun, belts>>
  PROVE  PlaceInv'
<1>1. Queued' = Queued
  BY QueueSame
<1>2. Present' = Present /\ Crossing' = Crossing /\ (ZonesStand' <=> ZonesStand)
  BY DEF Present, Crossing, ZonesStand
<1>3. Settled' /\ PictureTrue' /\ SeenClosed' /\ GunHeld'
  BY <1>2 DEF PlaceInv, Settled, PictureTrue, SeenClosed, GunHeld
<1>4. OutAlone' /\ SprayHeld'
  BY <1>1, <1>2 DEF PlaceInv, OutAlone, SprayHeld, Spraying, Lone
<1>5. BooksAgree'
  BY <1>2 DEF PlaceInv, BooksAgree, Mismatch
<1> QED
  BY <1>3, <1>4, <1>5 DEF PlaceInv

\* A picture is true when it is taken.
LEMMA ReadPlace ==
  ASSUME LInv, PlaceInv, ReadInputs
  PROVE  PlaceInv'
<1>1. /\ snap' = [read |-> TRUE, s |-> Sensed]
      /\ UNCHANGED <<phase, inflight, occ, queue, cur, at, latch, phys, transit, gun, belts>>
      /\ UNCHANGED <<shutter, shutterTo>>
  BY DEF ReadInputs, vars, ctlVars, bookVars, execVars, partsAt, devices
<1>2. Queued' = Queued
  BY <1>1, QueueSame
<1>3. Present' = Present /\ Crossing' = Crossing /\ (ZonesStand' <=> ZonesStand)
  BY <1>1 DEF Present, Crossing, ZonesStand
<1>4. snap'.s.occupied = Present /\ snap'.s.shutter = shutter
  BY <1>1 DEF Sensed, Present
<1>5. PictureTrue'
  BY <1>3, <1>4 DEF PictureTrue
<1>6. SeenClosed'
  <2>1. shutter = "closed" => cur.op # "train"
    BY DEF LInv, Moving, Clearance
  <2>2. "O" \in Present => phys["O"] # NoPart
    BY DEF Present
  <2> QED
    BY <1>1, <1>4, <2>1, <2>2 DEF SeenClosed
<1>7. Settled' /\ GunHeld'
  BY <1>1, <1>3 DEF PlaceInv, Settled, GunHeld
<1>8. OutAlone' /\ SprayHeld'
  BY <1>1, <1>2, <1>3 DEF PlaceInv, OutAlone, SprayHeld, Spraying, Lone
<1>9. BooksAgree'
  BY <1>1, <1>3 DEF PlaceInv, BooksAgree, Mismatch
<1> QED
  BY <1>5, <1>6, <1>7, <1>8, <1>9 DEF PlaceInv

-----------------------------------------------------------------------------
(***************************************************************************)
(* The tick.                                                                *)
(***************************************************************************)
\* A tick acts on the snapshot's presence picture.
LEMMA OccupiedSeen ==
  ASSUME Books, snap.read
  PROVE  Inputs.occupied = snap.s.occupied
<1>1. ~Nothing.read
  BY DEF Nothing
<1>2. snap \in [read : {TRUE}, s : Snapshots]
  BY <1>1 DEF Books
<1>3. snap.s \in Snapshots
  BY <1>2
<1> QED
  BY <1>3 DEF Inputs, Snapshots

\* A tick that submits has dispatched; what it has submitted is all that is queued.
LEMMA SubmittedBy ==
  ASSUME LInv, Act, Submitted
  PROVE  /\ Dispatch(Inputs, 1, done) /\ ~latch /\ phase' # "faulted"
         /\ queue' = Emitted /\ Emitted \in Seq(Intents)
<1>1. ~latch /\ queue = <<>>
  BY DEF Submitted
<1>2. PICK e \in Seq(Intents) : Submits(e, Inputs)
  BY DEF Submitted
<1>3. phase' # "faulted" /\ queue' = e
  BY <1>1, <1>2, QueueFilled DEF Submits
<1>4. phase # "faulted"
  <2>1. phase = "faulted" => latch
    BY DEF LInv, Counted
  <2> QED
    BY <1>1, <2>1
<1>5. Dispatch(Inputs, 1, done)
  <2>1. Tick(Inputs, 1, done, latch)
    BY DEF Act
  <2> QED
    BY <1>1, <1>4, <2>1 DEF Tick, StayFaulted
<1>6. queue' = queue \o Emitted
  BY <1>3 DEF Act, NewFault
<1>7. Emitted = <<>> \/ Emitted = WorkBatch \/ Emitted = <<SetShutter("open")>>
      \/ Emitted = <<AdvanceTrain(beat, inflight')>> \/ Emitted = <<SetShutter("closed")>>
      \/ Emitted = FanIntents(beat')
  BY DEF Emitted
<1>8. Emitted \in Seq(Intents)
  <2>1. beat \in Beats /\ inflight' \in SUBSET Stations
    BY ActBooks DEF LInv, Books, TypeOK
  <2>2. AdvanceTrain(beat, inflight') \in Intents
    BY <2>1, AreIntents
  <2>3. <<AdvanceTrain(beat, inflight')>> \in Seq(Intents)
    BY <2>2
  <2>4. <<SetShutter("open")>> \in Seq(Intents) /\ <<SetShutter("closed")>> \in Seq(Intents)
    BY AreIntents
  <2>5. <<>> \in Seq(Intents)
    OBVIOUS
  <2>6. WorkBatch \in Seq(Intents) /\ FanIntents(beat') \in Seq(Intents)
    BY BatchSubmitted, FansSubmitted
  <2> QED
    BY <1>7, <2>3, <2>4, <2>5, <2>6
<1>9. \A s \in Seq(Intents) : <<>> \o s = s
  OBVIOUS
<1>10. queue' = Emitted
  BY <1>1, <1>6, <1>8, <1>9
<1> QED
  BY <1>1, <1>3, <1>5, <1>8, <1>10

\* Paint is submitted onto a part seen at O behind a shutter seen closed, and with it
\* nothing that moves train or shutter.
LEMMA SprayOnlyWhenReady ==
  ASSUME LInv, Act, Submitted, NEW q \in Queued', q.op = "spray"
  PROVE  /\ phase = "robot_work" /\ SprayStationReady(Inputs)
         /\ \A i \in Queued' : i.op \in {"prep", "fan", "spray", "safe"}
<1>1. Dispatch(Inputs, 1, done) /\ phase' # "faulted" /\ queue' = Emitted
  BY SubmittedBy
<1>2. PICK n \in 1 .. Len(queue') : q = queue'[n]
  BY DEF Queued
<1>3. phase = "robot_work" /\ coats' # coats
  <2> SUFFICES ASSUME ~(phase = "robot_work" /\ coats' # coats)
               PROVE  FALSE
    OBVIOUS
  <2>1. ASSUME NEW i, Emitted = <<i>>
        PROVE  q = i
    BY <1>1, <1>2, <2>1
  <2>2. CASE Emitted = <<SetShutter("open")>>
    BY <2>1, <2>2 DEF SetShutter
  <2>3. CASE Emitted = <<SetShutter("closed")>>
    BY <2>1, <2>3 DEF SetShutter
  <2>4. CASE Emitted = <<AdvanceTrain(beat, inflight')>>
    BY <2>1, <2>4 DEF AdvanceTrain
  <2>5. CASE Emitted = FanIntents(beat')
    BY <1>1, <1>2, <2>5, FansSubmitted
  <2>6. CASE Emitted = <<>>
    BY <1>1, <1>2, <2>6
  <2> QED
    BY <2>2, <2>3, <2>4, <2>5, <2>6 DEF Emitted
<1>4. SprayStationReady(Inputs)
  BY <1>1, <1>3 DEF Dispatch, MismatchFault, AwaitCompletions, RoleFault, SkipWork, StartWork,
     GuardsPass, CommandShutter, NothingToMove, Advance, ArrivalFault, Arrive, SetFans,
     Blocked, Bank, Ready, EnterFault
<1>5. queue' = WorkBatch
  BY <1>1, <1>3 DEF Emitted
<1> QED
  BY <1>3, <1>4, <1>5, BatchSubmitted DEF Queued

\* A train move is submitted alone, for the moves that the books call for.
LEMMA TrainAsPlanned ==
  ASSUME LInv, Act, Submitted, NEW q \in Queued', q.op = "train"
  PROVE  phase = "moving" /\ inflight = {} /\ q = AdvanceTrain(beat, LiveMoves)
<1>1. Dispatch(Inputs, 1, done) /\ phase' # "faulted" /\ queue' = Emitted
  BY SubmittedBy
<1>2. PICK n \in 1 .. Len(queue') : q = queue'[n]
  BY DEF Queued
<1>3. inflight = {} /\ inflight' # {} /\ Emitted = <<AdvanceTrain(beat, inflight')>>
  <2> SUFFICES ASSUME ~(inflight = {} /\ inflight' # {} /\ Emitted = <<AdvanceTrain(beat, inflight')>>)
               PROVE  FALSE
    OBVIOUS
  <2>1. ASSUME NEW i, Emitted = <<i>>
        PROVE  q = i
    BY <1>1, <1>2, <2>1
  <2>2. CASE Emitted = <<SetShutter("open")>>
    BY <2>1, <2>2 DEF SetShutter
  <2>3. CASE Emitted = <<SetShutter("closed")>>
    BY <2>1, <2>3 DEF SetShutter
  <2>4. CASE Emitted = WorkBatch
    BY <1>1, <1>2, <2>4, BatchSubmitted
  <2>5. CASE Emitted = FanIntents(beat')
    BY <1>1, <1>2, <2>5, FansSubmitted
  <2>6. CASE Emitted = <<>>
    BY <1>1, <1>2, <2>6
  <2> QED
    BY <2>2, <2>3, <2>4, <2>5, <2>6 DEF Emitted
<1>4. phase = "moving" /\ inflight' = LiveMoves
  BY <1>1, <1>3 DEF Dispatch, MismatchFault, AwaitCompletions, RoleFault, SkipWork, StartWork,
     GuardsPass, CommandShutter, NothingToMove, Advance, ArrivalFault, Arrive, SetFans,
     Blocked, Ready, EnterFault
<1>5. q = AdvanceTrain(beat, LiveMoves)
  BY <1>1, <1>2, <1>3, <1>4
<1> QED
  BY <1>3, <1>4, <1>5

\* The books enter the move with the presence that the picture showed.
LEMMA ActBooksAgree ==
  ASSUME LInv, PlaceInv, Act
  PROVE  BooksAgree'
<1> SUFFICES ASSUME ~latch', phase' = "moving", inflight' = {}
             PROVE  ~Mismatch(occ, Present)'
  BY DEF BooksAgree
<1>1. snap.read /\ Tick(Inputs, 1, done, latch) /\ phys' = phys /\ ~latch
  BY DEF Act, NewFault, HaltExecutor, partsAt
<1>2. Dispatch(Inputs, 1, done)
  <2>1. phase # "faulted"
    BY <1>1 DEF LInv, Counted
  <2> QED
    BY <1>1, <2>1 DEF Tick, StayFaulted
<1>3. Inputs.occupied = snap.s.occupied
  BY <1>1, OccupiedSeen DEF LInv
<1>4. Present' = Present
  BY <1>1 DEF Present
<1>5. CASE phase = "shutter_open" /\ ~Mismatch(occ, Inputs.occupied) /\ occ' = occ
  BY <1>1, <1>3, <1>4, <1>5 DEF PlaceInv, PictureTrue, Mismatch
<1>6. CASE phase = "moving" /\ inflight = {} /\ occ' = occ
  BY <1>1, <1>4, <1>6 DEF PlaceInv, BooksAgree, Mismatch
<1> QED
  BY <1>2, <1>5, <1>6 DEF Dispatch, MismatchFault, AwaitCompletions, RoleFault, SkipWork,
     StartWork, GuardsPass, CommandShutter, NothingToMove, Advance, ArrivalFault, Arrive,
     SetFans, Blocked, Ready, Sound, Goto, EnterFault, bookVars

\* A fault drops the queue and stops the zones; the part to be sprayed stays.
LEMMA FaultPlace ==
  ASSUME LInv, PlaceInv, queue' = <<>>, latch' = TRUE, belts' \subseteq belts,
         belts' \cap {"Z1", "Z2"} = {}, UNCHANGED <<cur, at, phys, transit, gun>>
  PROVE  PlaceInv'
<1>1. Queued' = {}
  BY QueueEmpty
<1>2. Settled' /\ PictureTrue' /\ BooksAgree' /\ SeenClosed'
  BY DEF Settled, PictureTrue, BooksAgree, SeenClosed
<1>3. OutAlone' /\ SprayHeld' /\ GunHeld'
  BY <1>1 DEF PlaceInv, OutAlone, Lone, SprayHeld, Spraying, GunHeld, Crossing
<1> QED
  BY <1>2, <1>3 DEF PlaceInv

\* A move that leaves O out finds nobody there.
LEMMA PlannedAlone ==
  ASSUME LInv, PlaceInv, ~latch, phase = "moving", inflight = {},
         NEW q, q = AdvanceTrain(beat, LiveMoves), Lone(q)
  PROVE  phys["F2"] # NoPart /\ phys["O"] = NoPart
<1>1. q.beat = beat /\ q.moves = LiveMoves
  BY DEF AdvanceTrain
<1>2. beat \in {"P1", "P3", "P4"} /\ "F2" \in LiveMoves /\ "O" \notin LiveMoves
  BY <1>1 DEF Lone, Upstream, LInv, Books, TypeOK, Beats
<1>3. occ["F2"] # NoPart
  BY <1>2 DEF LiveMoves, Loaded
<1>4. "O" \in Sources(beat)
  <2>1. Feeder(beat, "F2") = "O"
    BY <1>2 DEF Feeder
  <2> QED
    BY <2>1 DEF Sources, Stations, Tracked
<1>5. occ["O"] = NoPart
  BY <1>2, <1>4 DEF LiveMoves, Loaded, Tracked
<1>6. ~Mismatch(occ, Present)
  BY DEF PlaceInv, BooksAgree
<1> QED
  BY <1>3, <1>5, <1>6 DEF Mismatch, Present, Tracked

\* The tick submits nothing to move or to spray that has no place to do it.
LEMMA ActPlace ==
  ASSUME LInv, PlaceInv, Act
  PROVE  PlaceInv'
<1>1. UNCHANGED <<cur, at, phys, transit, gun>> /\ snap.read /\ snap' = Nothing
  BY DEF Act, partsAt
<1>2. ~snap'.read
  BY <1>1 DEF Nothing
<1>3. PictureTrue' /\ SeenClosed'
  BY <1>2 DEF PictureTrue, SeenClosed
<1>4. GunHeld'
  BY <1>1 DEF PlaceInv, GunHeld
<1>5. BooksAgree'
  BY ActBooksAgree
<1>6. Crossing' = Crossing
  BY <1>1 DEF Crossing
<1>7. CASE Faults
  <2>1. /\ queue' = <<>> /\ latch' = TRUE /\ belts' \subseteq belts
        /\ belts' \cap {"Z1", "Z2"} = {}
    BY <1>7 DEF Faults
  <2> QED
    BY <1>1, <2>1, FaultPlace
<1>8. CASE Waits
  <2>1. UNCHANGED <<queue, latch, belts>>
    BY <1>8 DEF Waits
  <2>2. Queued' = Queued
    BY <2>1, QueueSame
  <2>3. Settled'
    BY <1>6, <2>1 DEF PlaceInv, Settled, ZonesStand
  <2>4. OutAlone' /\ SprayHeld'
    BY <1>1, <1>6, <2>1, <2>2 DEF PlaceInv, OutAlone, SprayHeld, Spraying, Lone
  <2> QED
    BY <1>3, <1>4, <1>5, <2>3, <2>4 DEF PlaceInv
<1>9. CASE Submitted
  <2>1. ~latch /\ cur = Idle /\ UNCHANGED <<latch, belts>>
    BY <1>9 DEF Submitted
  <2>2. cur.op = "none"
    BY <2>1, IntentKinds
  <2>3. ZonesStand /\ Crossing = {}
    <3>1. ZonesStand
      BY <2>2, NoTrainNoZones
    <3> QED
      BY <2>1, <3>1 DEF PlaceInv, Settled
  <2>4. Settled'
    BY <1>6, <2>3 DEF Settled
  <2>5. OutAlone'
    <3>1. ASSUME NEW t \in Queued', Lone(t)
          PROVE  phys["F2"] # NoPart /\ phys["O"] = NoPart
      <4>1. t.op = "train"
        BY <3>1 DEF Lone
      <4> QED
        BY <1>9, <2>1, <3>1, <4>1, TrainAsPlanned, PlannedAlone
    <3>2. "Z2" \notin belts'
      BY <2>1, <2>3 DEF ZonesStand
    <3>3. ~Lone(cur')
      BY <1>1, <2>2 DEF Lone
    <3>4. \A t : Lone(t)' <=> Lone(t)
      BY DEF Lone
    <3> QED
      BY <1>1, <1>6, <2>3, <3>1, <3>2, <3>3, <3>4 DEF OutAlone
  <2>6. SprayHeld'
    <3> SUFFICES ASSUME Spraying'
                 PROVE  /\ \A i \in Queued' : i.op # "train"
                        /\ phys["O"] # NoPart
      BY <1>1, <1>6, <2>2, <2>3 DEF SprayHeld
    <3>1. PICK q \in Queued' : q.op = "spray"
      BY <1>1, <2>2 DEF Spraying
    <3>2. /\ phase = "robot_work" /\ SprayStationReady(Inputs)
          /\ \A i \in Queued' : i.op \in {"prep", "fan", "spray", "safe"}
      BY <1>9, <3>1, SprayOnlyWhenReady
    <3>3. snap.s.shutter = "closed" /\ "O" \in snap.s.occupied
      BY <1>1, <3>2, InputsSeen, OccupiedSeen DEF SprayStationReady, LInv
    <3>4. phys["O"] # NoPart
      BY <1>1, <2>1, <3>2, <3>3 DEF PlaceInv, SeenClosed
    <3> QED
      BY <3>2, <3>4
  <2> QED
    BY <1>3, <1>4, <1>5, <2>4, <2>5, <2>6 DEF PlaceInv
<1> QED
  BY <1>7, <1>8, <1>9, ActOutcome

-----------------------------------------------------------------------------
(***************************************************************************)
(* The worker.                                                              *)
(***************************************************************************)
\* Whoever is taken from the queue was in it.
LEMMA TakePlace ==
  ASSUME LInv, PlaceInv, Take
  PROVE  PlaceInv'
<1>1. /\ cur = Idle /\ queue # <<>> /\ queue' = Tail(queue)
      /\ UNCHANGED <<phase, inflight, occ, snap, latch, phys, transit, gun, belts>>
      /\ \/ latch /\ UNCHANGED <<cur, at>>
         \/ ~latch /\ cur' = Head(queue) /\ at' = "start"
  BY DEF Take, vars, ctlVars, bookVars, partsAt, devices
<1>2. Head(queue) \in Queued /\ Queued' \subseteq Queued
  BY <1>1, QueueTaken DEF LInv, Books
<1>3. cur.op = "none" /\ ZonesStand
  BY <1>1, IntentKinds, NoTrainNoZones
<1>4. Present' = Present /\ Crossing' = Crossing /\ (ZonesStand' <=> ZonesStand)
  BY <1>1 DEF Present, Crossing, ZonesStand
<1>5. "Z2" \notin belts'
  BY <1>1, <1>3 DEF ZonesStand
<1>6. Settled' /\ PictureTrue'
  BY <1>1, <1>4 DEF PlaceInv, Settled, PictureTrue
<1>7. BooksAgree'
  BY <1>1, <1>4 DEF PlaceInv, BooksAgree, Mismatch
<1>8. OutAlone'
  <2>1. \A t : Lone(t)' <=> Lone(t)
    BY DEF Lone
  <2>2. \A t \in Queued' : Lone(t) => phys["F2"] # NoPart /\ phys["O"] = NoPart /\ Crossing = {}
    BY <1>2 DEF PlaceInv, OutAlone
  <2>3. ASSUME Lone(cur')
        PROVE  /\ phys["F2"] # NoPart /\ phys["O"] = NoPart
               /\ \A t \in transit : t[1] \in {"F1", "OUT"}
    <3>1. cur' = Head(queue)
      BY <1>1, <1>3, <2>3 DEF Lone
    <3>2. phys["F2"] # NoPart /\ phys["O"] = NoPart /\ Crossing = {}
      BY <1>2, <2>3, <3>1 DEF PlaceInv, OutAlone
    <3> QED
      BY <3>2 DEF Crossing
  <2> QED
    BY <1>1, <1>4, <1>5, <2>1, <2>2, <2>3 DEF OutAlone
<1>9. SeenClosed'
  <2> SUFFICES ASSUME snap.read, ~latch, phase = "robot_work", snap.s.shutter = "closed"
               PROVE  cur'.op # "train" /\ ("O" \in snap.s.occupied => phys["O"] # NoPart)
    BY <1>1 DEF SeenClosed
  <2>1. Head(queue).op \in {"fan", "safe"}
    BY <1>2, RobotExpects
  <2> QED
    BY <1>1, <2>1 DEF PlaceInv, SeenClosed
<1>10. SprayHeld'
  <2> SUFFICES ASSUME Spraying' PROVE SprayHeld'
    BY DEF SprayHeld
  <2>1. Spraying
    BY <1>1, <1>2, <1>3 DEF Spraying
  <2>2. cur'.op # "train"
    BY <1>1, <1>2, <1>3, <2>1 DEF PlaceInv, SprayHeld
  <2> QED
    BY <1>1, <1>2, <1>4, <2>1, <2>2 DEF PlaceInv, SprayHeld
<1>11. GunHeld'
  BY <1>1, <1>3 DEF PlaceInv, GunHeld
<1> QED
  BY <1>6, <1>7, <1>8, <1>9, <1>10, <1>11 DEF PlaceInv

\* A device call that is no train move leaves train, belts and queue alone.
LEMMA CallPlace ==
  ASSUME LInv, PlaceInv, cur.op # "train", cur.op # "none",
         UNCHANGED <<phase, inflight, occ, snap, queue, latch, phys, transit, belts>>,
         cur' = cur \/ cur' = Idle,
         gun' => gun \/ (cur' = cur /\ cur.op = "spray"), cur' = cur \/ ~gun' \/ cur.op # "spray"
  PROVE  PlaceInv'
<1>1. Queued' = Queued
  BY QueueSame
<1>2. Present' = Present /\ Crossing' = Crossing /\ (ZonesStand' <=> ZonesStand)
  BY DEF Present, Crossing, ZonesStand
<1>3. "Z2" \notin belts'
  BY NoTrainNoZones DEF ZonesStand
<1>4. cur'.op # "train" /\ (cur'.op = "spray" => cur.op = "spray")
  BY IntentKinds
<1>5. Settled' /\ PictureTrue' /\ SeenClosed'
  BY <1>2, <1>4 DEF PlaceInv, Settled, PictureTrue, SeenClosed
<1>6. BooksAgree'
  BY <1>2 DEF PlaceInv, BooksAgree, Mismatch
<1>7. OutAlone'
  BY <1>1, <1>2, <1>3, <1>4 DEF PlaceInv, OutAlone, Lone
<1>8. SprayHeld'
  BY <1>1, <1>2, <1>4 DEF PlaceInv, SprayHeld, Spraying
<1>9. GunHeld'
  BY DEF PlaceInv, GunHeld
<1> QED
  BY <1>5, <1>6, <1>7, <1>8, <1>9 DEF PlaceInv

LEMMA DevicePlace ==
  ASSUME LInv, PlaceInv, DoFan \/ DoShutter \/ DoPrep \/ DoSpray \/ DoSafePose
  PROVE  PlaceInv'
<1>1. /\ cur.op \in {"fan", "shutter", "prep", "spray", "safe"} /\ Still
      /\ Complete \/ GoesOn("wait")
      /\ belts' = belts
      /\ cur.op # "spray" => gun' = gun
  BY DEF DoFan, DoShutter, DoPrep, DoSpray, DoSafePose
<1>2. /\ UNCHANGED <<phase, inflight, occ, snap, phys, transit>>
  BY <1>1 DEF Still, vars, ctlVars, bookVars, partsAt
<1>3. UNCHANGED <<queue, latch>> /\ (cur' = cur \/ cur' = Idle)
  BY <1>1 DEF Complete, GoesOn
<1>4. cur.op = "spray" => (gun' /\ cur' = cur) \/ ~gun'
  BY <1>1 DEF DoFan, DoShutter, DoPrep, DoSpray, DoSafePose, GoesOn
<1>5. gun' => gun \/ (cur' = cur /\ cur.op = "spray")
  BY <1>1, <1>4
<1>6. cur' = cur \/ ~gun' \/ cur.op # "spray"
  BY <1>4
<1>7. cur.op # "train" /\ cur.op # "none"
  BY <1>1
<1> QED
  BY <1>1, <1>2, <1>3, <1>5, <1>6, <1>7, CallPlace

\* Z2 is armed last, and whoever is at F2 is still there.
LEMMA ArmPlace ==
  ASSUME LInv, PlaceInv, ArmZones
  PROVE  PlaceInv'
<1>1. /\ cur.op = "train" /\ Still /\ UNCHANGED <<queue, cur, latch, gun>>
      /\ belts \subseteq belts'
      /\ \/ at = "start" /\ at' = "armed" /\ ("Z2" \in belts' => "Z2" \in belts)
         \/ at = "armed" /\ at' = "wait"
  BY DEF ArmZones, GoesOn, Armed, Feeding
<1>2. UNCHANGED <<phase, inflight, occ, snap, phys, transit>>
  BY <1>1 DEF Still, vars, ctlVars, bookVars, partsAt
<1>3. Queued' = Queued
  BY <1>1, QueueSame
<1>4. Present' = Present /\ Crossing' = Crossing /\ (ZonesStand' => ZonesStand)
  BY <1>1, <1>2 DEF Present, Crossing, ZonesStand
<1>5. Settled' /\ PictureTrue' /\ SeenClosed' /\ GunHeld'
  BY <1>1, <1>2, <1>4 DEF PlaceInv, Settled, PictureTrue, SeenClosed, GunHeld
<1>6. BooksAgree'
  BY <1>1, <1>2, <1>4 DEF PlaceInv, BooksAgree, Mismatch
<1>7. OutAlone'
  BY <1>1, <1>2, <1>3, <1>4 DEF PlaceInv, OutAlone, Lone
<1>8. SprayHeld'
  BY <1>1, <1>2, <1>3, <1>4 DEF PlaceInv, SprayHeld, Spraying
<1> QED
  BY <1>5, <1>6, <1>7, <1>8 DEF PlaceInv

\* A move ends with the zones at rest.
LEMMA ArrivedPlace ==
  ASSUME LInv, PlaceInv, TrainArrived
  PROVE  PlaceInv'
<1>1. /\ cur.op = "train" /\ Still /\ UNCHANGED <<queue, latch, gun>> /\ cur' = Idle
      /\ ZonesStand /\ belts' = {}
  BY DEF TrainArrived, Complete, ZonesStand
<1>2. UNCHANGED <<phase, inflight, occ, snap, phys, transit>>
  BY <1>1 DEF Still, vars, ctlVars, bookVars, partsAt
<1>3. Queued' = Queued /\ cur'.op = "none" /\ ZonesStand'
  BY <1>1, QueueSame, IntentKinds DEF ZonesStand
<1>4. Present' = Present /\ Crossing' = Crossing
  BY <1>2 DEF Present, Crossing
<1>5. Settled' /\ PictureTrue' /\ SeenClosed' /\ GunHeld'
  BY <1>1, <1>2, <1>3, <1>4 DEF PlaceInv, Settled, PictureTrue, SeenClosed, GunHeld
<1>6. BooksAgree'
  BY <1>1, <1>2, <1>4 DEF PlaceInv, BooksAgree, Mismatch
<1>7. OutAlone'
  BY <1>1, <1>2, <1>3, <1>4 DEF PlaceInv, OutAlone, Lone
<1>8. SprayHeld'
  BY <1>1, <1>2, <1>3, <1>4 DEF PlaceInv, SprayHeld, Spraying
<1> QED
  BY <1>5, <1>6, <1>7, <1>8 DEF PlaceInv

LEMMA ErrorPlace ==
  ASSUME LInv, PlaceInv, TrainError
  PROVE  PlaceInv'
<1>1. /\ cur.op = "train" /\ Still /\ gun' = gun
      /\ queue' = <<>> /\ latch' = TRUE /\ belts' = {} /\ cur' = Idle
  BY DEF TrainError
<1>2. Queued' = {} /\ cur'.op = "none"
  BY <1>1, QueueEmpty, IntentKinds
<1>3. Settled' /\ PictureTrue' /\ BooksAgree' /\ SeenClosed'
  BY <1>1 DEF Settled, PictureTrue, BooksAgree, SeenClosed
<1>4. OutAlone' /\ SprayHeld' /\ GunHeld'
  BY <1>1, <1>2 DEF PlaceInv, OutAlone, Lone, SprayHeld, Spraying, GunHeld
<1> QED
  BY <1>3, <1>4 DEF PlaceInv

-----------------------------------------------------------------------------
(***************************************************************************)
(* The plant and the operator.                                              *)
(***************************************************************************)
\* Whoever leaves needs a zone: Z2, but for a newcomer.
LEMMA LeavingNeeds ==
  ASSUME NEW st \in Leaving
  PROVE  /\ st \in {"IN", "F1", "O", "F2"}
         /\ "Z2" \in belts \/ (st = "IN" /\ "Z1" \in belts)
         /\ st \in {"IN", "F1"} => "Z1" \in belts
         /\ st \in Tracked => phys[st] # NoPart
BY DEF Leaving, Leaves, Stations, Tracked

\* Parts leave. Only the lone outfeed stops its zone before its part has arrived.
LEMMA DepartPlace ==
  ASSUME LInv, PlaceInv, Depart
  PROVE  PlaceInv'
<1>1. /\ Leaving # {} /\ transit = {}
      /\ UNCHANGED <<phase, inflight, occ, snap, queue, cur, at, latch, gun>>
      /\ transit' = {<<Ahead(st), IF st = "IN" THEN fed + 1 ELSE phys[st]>> : st \in Leaving}
      /\ phys' = [st \in Tracked |-> IF st \in Leaving THEN NoPart ELSE phys[st]]
      /\ belts' = {z \in belts : z = "feed" \/ cur.op # "train"
                                  \/ "F2" \notin Leaving \/ StopAt(cur, z) # "F2_clears"}
  BY DEF Depart, vars, ctlVars, bookVars, execVars
<1>2. ~ZonesStand
  BY <1>1, LeavingNeeds DEF ZonesStand
<1>3. cur.op = "train"
  BY <1>2, NoTrainNoZones
<1>4. cur # Idle /\ (\A i \in Queued : i.op # "train")
  BY <1>3, IntentKinds, NoTrainQueued
<1>5. Queued' = Queued
  BY <1>1, QueueSame
<1>6. PictureTrue' /\ BooksAgree'
  BY <1>1, <1>3, PlansAtRest DEF PictureTrue, BooksAgree
<1>7. SeenClosed' /\ SprayHeld' /\ GunHeld'
  BY <1>1, <1>3, <1>5 DEF PlaceInv, SeenClosed, SprayHeld, Spraying, GunHeld
<1>8. Lone(cur) => Down /\ Ahead("F2") = "OUT" /\ Ahead("IN") = "F1" /\ Ahead("F1") = "O"
  BY DEF Lone, Down, Ahead
<1>9. StopAt(cur, "Z1") # "F2_clears" /\ (StopAt(cur, "Z2") = "F2_clears" <=> Lone(cur))
  BY <1>3 DEF StopAt, Lone
<1>10. Settled'
  <2> SUFFICES ASSUME ~latch, ZonesStand'
               PROVE  Crossing' = {}
    BY <1>1 DEF Settled
  <2>1. "Z1" \notin belts
    BY <1>1, <1>9 DEF ZonesStand
  <2>2. "Z2" \in belts /\ "Z2" \notin belts'
    BY <1>2, <2>1 DEF ZonesStand
  <2>3. "F2" \in Leaving /\ Lone(cur)
    BY <1>1, <1>9, <2>2
  <2>4. phys["O"] = NoPart
    BY <2>2, <2>3 DEF PlaceInv, OutAlone
  <2>5. Leaving \subseteq {"F2"}
    BY <2>1, <2>4, LeavingNeeds DEF Tracked
  <2>6. ASSUME NEW t \in transit'
        PROVE  t[1] = "OUT"
    <3>1. PICK st \in Leaving : t = <<Ahead(st), IF st = "IN" THEN fed + 1 ELSE phys[st]>>
      BY <1>1
    <3>2. t[1] = Ahead(st)
      BY <3>1
    <3> QED
      BY <1>8, <2>3, <2>5, <3>2
  <2> QED
    BY <2>6 DEF Crossing
<1>11. OutAlone'
  <2>1. "Z2" \in belts' => "Z2" \in belts /\ at' = "wait"
    BY <1>1 DEF PlaceInv, OutAlone
  <2>2. ASSUME Lone(cur), at # "wait" \/ "Z2" \in belts'
        PROVE  /\ phys'["F2"] # NoPart /\ phys'["O"] = NoPart
               /\ \A t \in transit' : t[1] \in {"F1", "OUT"}
    <3>1. phys["F2"] # NoPart /\ phys["O"] = NoPart
      BY <2>1, <2>2 DEF PlaceInv, OutAlone
    <3>2. "Z2" \notin belts
      <4>1. CASE at # "wait"
        BY <4>1 DEF PlaceInv, OutAlone
      <4>2. CASE "Z2" \in belts'
        <5>1. "F2" \notin Leaving
          BY <1>1, <1>3, <1>9, <2>2, <4>2
        <5>2. "Z2" \in belts => Leaves("F2")
          BY <1>8, <2>2, <3>1 DEF Leaves
        <5> QED
          BY <5>1, <5>2 DEF Leaving, Stations, Tracked
      <4> QED
        BY <2>2, <4>1, <4>2
    <3>3. Leaving \subseteq {"IN"}
      BY <3>2, LeavingNeeds
    <3>4. phys'["F2"] # NoPart /\ phys'["O"] = NoPart
      BY <1>1, <3>1, <3>3 DEF Tracked
    <3>5. \A t \in transit' : t[1] = "F1"
      BY <1>1, <1>8, <2>2, <3>3
    <3> QED
      BY <3>4, <3>5
  <2>3. \A t : Lone(t)' <=> Lone(t)
    BY DEF Lone
  <2>4. \A t \in Queued' : ~Lone(t)'
    BY <1>4, <1>5 DEF Lone
  <2> QED
    BY <1>1, <2>1, <2>2, <2>3, <2>4 DEF OutAlone
<1> QED
  BY <1>6, <1>7, <1>10, <1>11 DEF PlaceInv

\* Parts arrive: nobody goes, and where nobody was on the way nobody comes.
LEMMA LandPlace ==
  ASSUME LInv, PlaceInv, Land
  PROVE  PlaceInv'
<1>1. /\ UNCHANGED <<phase, inflight, occ, snap, queue, cur, at, latch, gun>>
      /\ transit' = {} /\ belts' \subseteq belts
      /\ phys' = [st \in Tracked |-> IF \E t \in transit : t[1] = st
                                     THEN (CHOOSE t \in transit : t[1] = st)[2] ELSE phys[st]]
  BY DEF Land, vars, ctlVars, bookVars, execVars
<1>2. Queued' = Queued /\ Crossing' = {}
  BY <1>1, QueueSame DEF Crossing
<1>3. \A st \in Tracked : (\A t \in transit : t[1] # st) => phys'[st] = phys[st]
  BY <1>1
<1>4. \A st \in Tracked : phys[st] # NoPart => phys'[st] # NoPart
  <2> SUFFICES ASSUME NEW st \in Tracked, phys[st] # NoPart, \E t \in transit : t[1] = st
               PROVE  phys'[st] # NoPart
    BY <1>3
  <2>1. PICK u \in transit : u = CHOOSE t \in transit : t[1] = st
    OBVIOUS
  <2>2. phys'[st] = u[2]
    BY <1>1, <2>1
  <2>3. transit \in SUBSET (Stations \X Parts)
    BY DEF LInv, Books
  <2>4. u[2] \in Parts
    BY <2>3
  <2> QED
    BY <2>2, <2>4 DEF Parts, NoPart
<1>5. Crossing = {} => \A st \in Tracked : phys'[st] = phys[st]
  <2>1. \A st \in Tracked : st # "OUT"
    BY DEF Tracked
  <2> QED
    BY <1>3, <2>1 DEF Crossing
<1>6. ~latch /\ (phase = "shutter_open" \/ (phase = "moving" /\ inflight = {})) => Present' = Present
  BY <1>5, PlansAtRest DEF PlaceInv, Settled, Present
<1>7. Settled'
  BY <1>2 DEF Settled
<1>8. PictureTrue'
  BY <1>1, <1>6 DEF PlaceInv, PictureTrue
<1>9. BooksAgree'
  BY <1>1, <1>6 DEF PlaceInv, BooksAgree, Mismatch
<1>10. SeenClosed' /\ GunHeld'
  BY <1>1, <1>4 DEF PlaceInv, SeenClosed, GunHeld, Tracked
<1>11. SprayHeld'
  BY <1>1, <1>2, <1>4 DEF PlaceInv, SprayHeld, Spraying, Tracked
<1>12. OutAlone'
  <2>1. \A t : Lone(t)' <=> Lone(t)
    BY DEF Lone
  <2>2. "Z2" \in belts' => "Z2" \in belts /\ at' = "wait"
    BY <1>1 DEF PlaceInv, OutAlone
  <2>3. \A t \in Queued' : Lone(t) => phys'["F2"] # NoPart /\ phys'["O"] = NoPart
    BY <1>2, <1>5 DEF PlaceInv, OutAlone, Tracked
  <2>4. Lone(cur) /\ (at # "wait" \/ "Z2" \in belts') => phys'["F2"] # NoPart /\ phys'["O"] = NoPart
    BY <1>3, <2>2 DEF PlaceInv, OutAlone, Tracked
  <2> QED
    BY <1>1, <1>2, <2>1, <2>2, <2>3, <2>4 DEF OutAlone
<1> QED
  BY <1>7, <1>8, <1>9, <1>10, <1>11, <1>12 DEF PlaceInv

\* Once nothing moves, a recovery leaves everybody where he stands.
LEMMA AckPlace ==
  ASSUME LInv, PlaceInv, AckFault
  PROVE  PlaceInv'
<1>1. /\ ~snap.read /\ transit = {} /\ queue' = <<MoveToSafePose>>
      /\ UNCHANGED <<snap, cur, at, phys, transit, gun, belts>>
      /\ phase' # "moving"
  BY DEF AckFault, Resume, ReentryPhase, partsAt, devices
<1>2. Queued' \subseteq {MoveToSafePose}
  BY <1>1 DEF Queued
<1>3. \A i \in Queued' : i.op = "safe"
  BY <1>2, AreIntents
<1>4. Crossing' = {} /\ Crossing = {}
  BY <1>1 DEF Crossing
<1>5. Settled' /\ PictureTrue' /\ BooksAgree' /\ SeenClosed' /\ GunHeld'
  BY <1>1, <1>4 DEF PlaceInv, Settled, PictureTrue, BooksAgree, SeenClosed, GunHeld
<1>6. OutAlone' /\ SprayHeld'
  BY <1>1, <1>3, <1>4 DEF PlaceInv, OutAlone, Lone, SprayHeld, Spraying
<1> QED
  BY <1>5, <1>6 DEF PlaceInv

LEMMA InitPlace == LineInit => PlaceInv
<1> SUFFICES ASSUME LineInit PROVE PlaceInv
  OBVIOUS
<1>1. /\ ~snap.read /\ queue = <<>> /\ cur = Idle /\ transit = {} /\ belts = {} /\ ~gun
      /\ phase = "robot_work"
  BY DEF LineInit, Init, Nothing
<1>2. Queued = {} /\ cur.op = "none"
  BY <1>1, QueueEmpty, IntentKinds
<1>3. Settled /\ PictureTrue /\ BooksAgree /\ SeenClosed /\ GunHeld
  BY <1>1 DEF Settled, Crossing, PictureTrue, BooksAgree, SeenClosed, GunHeld
<1>4. OutAlone /\ SprayHeld
  BY <1>1, <1>2 DEF OutAlone, Lone, SprayHeld, Spraying
<1> QED
  BY <1>3, <1>4 DEF PlaceInv

LEMMA PlaceKept == LInv /\ PlaceInv /\ [LineNext]_lineVars => PlaceInv'
<1> SUFFICES ASSUME LInv, PlaceInv, [LineNext]_lineVars PROVE PlaceInv'
  OBVIOUS
<1>1. CASE ReadInputs \/ Act
  BY <1>1, ReadPlace, ActPlace
<1>2. CASE Worker
  <2>1. CASE Take
    BY <2>1, TakePlace
  <2>2. CASE DoFan \/ DoShutter \/ DoPrep \/ DoSpray \/ DoSafePose
    BY <2>2, DevicePlace
  <2>3. CASE ArmZones \/ TrainArrived \/ TrainError
    BY <2>3, ArmPlace, ArrivedPlace, ErrorPlace
  <2> QED
    BY <1>2, <2>1, <2>2, <2>3 DEF Worker
<1>3. CASE Depart \/ Land
  BY <1>3, DepartPlace, LandPlace
<1>4. CASE Halt
  <2>1. /\ queue' = <<>> /\ latch' = TRUE /\ belts' = belts \cap {"feed"}
        /\ UNCHANGED <<cur, at, phys, transit, gun>>
    BY <1>4 DEF Halt, HaltExecutor, partsAt
  <2> QED
    BY <2>1, FaultPlace
<1>5. CASE AckFault
  BY <1>5, AckPlace
<1>6. CASE \/ IdleLoop \/ ShutterMoves \/ TakeOffOutfeed \/ Pause \/ Run
           \/ (\E n \in Parts : DeclareBatch(n)) \/ UNCHANGED lineVars
  <2>1. UNCHANGED <<phase, inflight, occ, snap, queue, cur, at, latch, phys, transit, gun, belts>>
    BY <1>6 DEF IdleLoop, IdleTick, ShutterMoves, TakeOffOutfeed, Pause, Run, DeclareBatch,
       SteadyDeclare, Declare, lineVars, vars, ctlVars, bookVars, operVars, execVars, partsAt,
       devices
  <2> QED
    BY <2>1, PlaceSame
<1> QED
  BY <1>1, <1>2, <1>3, <1>4, <1>5, <1>6 DEF LineNext, Automatic, Plant, Operator

LEMMA PlaceHolds == LineSpec => []PlaceInv
BY InitPlace, PlaceKept, LineInvariant, PTL DEF LineSpec

(***************************************************************************)
(* The two conditions of SprayEnclosed about parts, for any number of       *)
(* halts, any plant step in between and an operator who acknowledges while  *)
(* the worker is still busy: the gun is on only over a part that stands at  *)
(* O, with nobody between stations (guards.spray_blocked is asked once,     *)
(* before the batch is queued).                                             *)
(***************************************************************************)
THEOREM SpraysAtStation == LineSpec => [](gun => phys["O"] # NoPart /\ Crossing = {})
<1>1. PlaceInv => (gun => phys["O"] # NoPart /\ Crossing = {})
  BY DEF PlaceInv, GunHeld, SprayHeld, Spraying
<1> QED
  BY <1>1, PlaceHolds, PTL

-----------------------------------------------------------------------------
(***************************************************************************)
(* The shutter half of SprayEnclosed, for an operator who lets the worker   *)
(* come to rest before acknowledging.                                       *)
(***************************************************************************)
\* Nobody is left at a command that the fault overtook.
NoStraggler == ~latch /\ cur # Idle => live

Shut == shutter = "closed" /\ shutterTo = "closed"

\* The picture by which a batch is submitted may be old, but the shutter stayed closed.
SeenShut ==
  snap.read /\ ~latch /\ phase = "robot_work" /\ snap.s.shutter = "closed" => Shut

\* From its submission to the end of the burst nothing opens the shutter.
SprayShut ==
  Spraying => /\ Shut /\ cur.op # "shutter"
              /\ \A i \in Queued : i.op # "shutter"

BarrierInv == NoStraggler /\ SeenShut /\ SprayShut

\* While the robot is due, a patient operator's worker commands no shutter.
LEMMA RobotAlone ==
  ASSUME LInv, NoStraggler, ~latch, phase = "robot_work"
  PROVE  cur.op # "shutter" /\ shutter = shutterTo
<1>1. ASSUME cur.op = "shutter"
      PROVE  FALSE
  <2>1. live
    BY <1>1, IntentKinds DEF NoStraggler
  <2> QED
    BY <1>1, <2>1, RobotExpects
<1> QED
  BY <1>1 DEF LInv, ShutterObeys

\* Whoever commands no shutter and submits nothing keeps the barrier.
LEMMA BarrierSame ==
  ASSUME BarrierInv, UNCHANGED <<shutter, shutterTo, phase, snap>>, latch => latch',
         Queued' \subseteq Queued, (cur' = cur /\ live' = live) \/ cur' = Idle
  PROVE  BarrierInv'
<1>1. Idle.op = "none" /\ Shut' = Shut
  BY IntentKinds DEF Shut
<1>2. NoStraggler'
  BY DEF BarrierInv, NoStraggler
<1>3. SeenShut'
  BY <1>1 DEF BarrierInv, SeenShut
<1>4. SprayShut'
  BY <1>1 DEF BarrierInv, SprayShut, Spraying
<1> QED
  BY <1>2, <1>3, <1>4 DEF BarrierInv

LEMMA ReadBarrier ==
  ASSUME LInv, BarrierInv, ReadInputs
  PROVE  BarrierInv'
<1>1. /\ snap' = [read |-> TRUE, s |-> Sensed]
      /\ UNCHANGED <<phase, queue, cur, latch, live, shutter, shutterTo>>
  BY DEF ReadInputs, vars, ctlVars, execVars, devices
<1>2. Queued' = Queued /\ Shut' = Shut
  BY <1>1, QueueSame DEF Shut
<1>3. snap'.s.shutter = shutter
  BY <1>1 DEF Sensed
<1>4. NoStraggler' /\ SprayShut'
  BY <1>1, <1>2 DEF BarrierInv, NoStraggler, SprayShut, Spraying
<1>5. SeenShut'
  BY <1>1, <1>2, <1>3, RobotAlone DEF BarrierInv, SeenShut, Shut
<1> QED
  BY <1>4, <1>5 DEF BarrierInv

LEMMA ActBarrier ==
  ASSUME LInv, BarrierInv, Act
  PROVE  BarrierInv'
<1>1. UNCHANGED <<cur, shutter, shutterTo>> /\ snap.read /\ snap' = Nothing
  BY DEF Act
<1>2. ~snap'.read /\ Shut' = Shut
  BY <1>1 DEF Nothing, Shut
<1>3. SeenShut'
  BY <1>2 DEF SeenShut
<1>4. CASE Faults
  <2>1. queue' = <<>> /\ latch' = TRUE
    BY <1>4 DEF Faults
  <2>2. NoStraggler' /\ SprayShut'
    BY <1>1, <1>2, <2>1, QueueEmpty DEF BarrierInv, NoStraggler, SprayShut, Spraying
  <2> QED
    BY <1>3, <2>2 DEF BarrierInv
<1>5. CASE Waits
  <2>1. UNCHANGED <<queue, latch, live>>
    BY <1>5 DEF Waits
  <2>2. NoStraggler' /\ SprayShut'
    BY <1>1, <1>2, <2>1, QueueSame DEF BarrierInv, NoStraggler, SprayShut, Spraying
  <2> QED
    BY <1>3, <2>2 DEF BarrierInv
<1>6. CASE Submitted
  <2>1. ~latch /\ cur = Idle
    BY <1>6 DEF Submitted
  <2>2. cur'.op = "none" /\ NoStraggler'
    BY <1>1, <2>1, IntentKinds DEF NoStraggler
  <2>3. SprayShut'
    <3> SUFFICES ASSUME Spraying'
                 PROVE  Shut /\ \A i \in Queued' : i.op # "shutter"
      BY <1>2, <2>2 DEF SprayShut
    <3>1. PICK q \in Queued' : q.op = "spray"
      BY <2>2 DEF Spraying
    <3>2. /\ phase = "robot_work" /\ SprayStationReady(Inputs)
          /\ \A i \in Queued' : i.op \in {"prep", "fan", "spray", "safe"}
      BY <1>6, <3>1, SprayOnlyWhenReady
    <3>3. snap.s.shutter = "closed"
      BY <1>1, <3>2, InputsSeen DEF SprayStationReady, LInv
    <3>4. Shut
      BY <1>1, <2>1, <3>2, <3>3 DEF BarrierInv, SeenShut
    <3> QED
      BY <3>2, <3>4
  <2> QED
    BY <1>3, <2>2, <2>3 DEF BarrierInv
<1> QED
  BY <1>4, <1>5, <1>6, ActOutcome

LEMMA TakeBarrier ==
  ASSUME LInv, BarrierInv, Take
  PROVE  BarrierInv'
<1>1. /\ cur = Idle /\ queue # <<>> /\ queue' = Tail(queue)
      /\ UNCHANGED <<phase, snap, latch, shutter, shutterTo>>
      /\ \/ latch /\ UNCHANGED <<cur, live>>
         \/ ~latch /\ cur' = Head(queue) /\ live' = TRUE
  BY DEF Take, vars, ctlVars, devices
<1>2. Head(queue) \in Queued /\ Queued' \subseteq Queued
  BY <1>1, QueueTaken DEF LInv, Books
<1>3. Shut' = Shut /\ cur.op = "none"
  BY <1>1, IntentKinds DEF Shut
<1>4. NoStraggler' /\ SeenShut'
  BY <1>1, <1>3 DEF BarrierInv, NoStraggler, SeenShut
<1>5. SprayShut'
  <2>1. Spraying' => Spraying
    BY <1>1, <1>2, <1>3 DEF Spraying
  <2>2. cur' = cur \/ cur' \in Queued
    BY <1>1, <1>2
  <2> QED
    BY <1>2, <1>3, <2>1, <2>2 DEF BarrierInv, SprayShut
<1> QED
  BY <1>4, <1>5 DEF BarrierInv

LEMMA DoShutterBarrier ==
  ASSUME LInv, BarrierInv, DoShutter
  PROVE  BarrierInv'
<1>1. /\ cur.op = "shutter" /\ UNCHANGED <<phase, snap, queue, latch>>
      /\ (cur' = cur /\ live' = live) \/ cur' = Idle
  BY DEF DoShutter, Still, Complete, GoesOn, vars, ctlVars
<1>2. Queued' = Queued
  BY <1>1, QueueSame
<1>3. NoStraggler'
  BY <1>1 DEF BarrierInv, NoStraggler
<1>4. SeenShut'
  BY <1>1, RobotAlone DEF BarrierInv, SeenShut
<1>5. ~Spraying
  BY <1>1 DEF BarrierInv, SprayShut
<1>6. ~Spraying'
  BY <1>1, <1>2, <1>5, IntentKinds DEF Spraying
<1> QED
  BY <1>3, <1>4, <1>6 DEF BarrierInv, SprayShut

LEMMA MovesBarrier ==
  ASSUME LInv, BarrierInv, ShutterMoves
  PROVE  BarrierInv'
<1>1. shutter # shutterTo /\ UNCHANGED <<phase, snap, queue, cur, latch, live>>
  BY DEF ShutterMoves, vars, ctlVars, execVars
<1>2. Queued' = Queued /\ ~Shut
  BY <1>1, QueueSame DEF Shut
<1>3. NoStraggler' /\ SeenShut'
  BY <1>1, <1>2 DEF BarrierInv, NoStraggler, SeenShut
<1>4. ~Spraying'
  BY <1>1, <1>2 DEF BarrierInv, SprayShut, Spraying
<1> QED
  BY <1>3, <1>4 DEF BarrierInv, SprayShut

LEMMA AckBarrier ==
  ASSUME BarrierInv, cur = Idle, AckFault
  PROVE  BarrierInv'
<1>1. ~snap.read /\ snap' = snap /\ cur' = Idle /\ queue' = <<MoveToSafePose>>
  BY DEF AckFault
<1>2. \A i \in Queued' : i.op = "safe"
  <2>1. Queued' \subseteq {MoveToSafePose}
    BY <1>1 DEF Queued
  <2> QED
    BY <2>1, AreIntents
<1>3. ~Spraying'
  BY <1>1, <1>2, IntentKinds DEF Spraying
<1> QED
  BY <1>1, <1>3 DEF BarrierInv, NoStraggler, SeenShut, SprayShut

LEMMA InitBarrier == LineInit => BarrierInv
<1> SUFFICES ASSUME LineInit PROVE BarrierInv
  OBVIOUS
<1>1. ~snap.read /\ queue = <<>> /\ cur = Idle
  BY DEF LineInit, Nothing
<1>2. ~Spraying
  BY <1>1, QueueEmpty, IntentKinds DEF Spraying
<1> QED
  BY <1>1, <1>2 DEF BarrierInv, NoStraggler, SeenShut, SprayShut

LEMMA BarrierKept == LInv /\ BarrierInv /\ [PatientNext]_lineVars => BarrierInv'
<1> SUFFICES ASSUME LInv, BarrierInv, [PatientNext]_lineVars PROVE BarrierInv'
  OBVIOUS
<1>1. CASE ReadInputs \/ Act
  BY <1>1, ReadBarrier, ActBarrier
<1>2. CASE Worker
  <2>1. CASE Take \/ DoShutter
    BY <2>1, TakeBarrier, DoShutterBarrier
  <2>2. CASE DoFan \/ DoPrep \/ DoSpray \/ DoSafePose \/ ArmZones \/ TrainArrived
    <3>1. Still /\ (Complete \/ \E next : GoesOn(next)) /\ UNCHANGED <<shutter, shutterTo>>
      BY <2>2 DEF DoFan, DoPrep, DoSpray, DoSafePose, ArmZones, TrainArrived
    <3>2. /\ UNCHANGED <<shutter, shutterTo, phase, snap, queue, latch>>
          /\ (cur' = cur /\ live' = live) \/ cur' = Idle
      BY <3>1 DEF Still, vars, ctlVars, Complete, GoesOn
    <3> QED
      BY <3>2, QueueSame, BarrierSame
  <2>3. CASE TrainError
    <3>1. UNCHANGED <<shutter, shutterTo, phase, snap>> /\ latch' /\ queue' = <<>> /\ cur' = Idle
      BY <2>3 DEF TrainError, Still, vars, ctlVars
    <3> QED
      BY <3>1, QueueEmpty, BarrierSame
  <2> QED
    BY <1>2, <2>1, <2>2, <2>3 DEF Worker
<1>3. CASE ShutterMoves
  BY <1>3, MovesBarrier
<1>4. CASE Halt
  <2>1. /\ UNCHANGED <<shutter, shutterTo, phase, snap, cur, live>>
        /\ latch' /\ queue' = <<>>
    BY <1>4 DEF Halt, HaltExecutor, vars, ctlVars
  <2> QED
    BY <2>1, QueueEmpty, BarrierSame
<1>5. CASE cur = Idle /\ AckFault
  BY <1>5, AckBarrier
<1>6. CASE \/ IdleLoop \/ Depart \/ Land \/ TakeOffOutfeed \/ Pause \/ Run
           \/ (\E n \in Parts : DeclareBatch(n)) \/ UNCHANGED lineVars
  <2>1. UNCHANGED <<shutter, shutterTo, phase, snap, queue, cur, latch, live>>
    BY <1>6 DEF IdleLoop, IdleTick, Depart, Land, TakeOffOutfeed, Pause, Run, DeclareBatch,
       SteadyDeclare, Declare, lineVars, vars, ctlVars, operVars, execVars, devices
  <2> QED
    BY <2>1, QueueSame, BarrierSame
<1> QED
  BY <1>1, <1>2, <1>3, <1>4, <1>5, <1>6 DEF PatientNext, Automatic, Plant, Operator

(***************************************************************************)
(* The spray interlock's primary barrier at the device, for any number of   *)
(* halts, train errors and recoveries, when the operator acknowledges with  *)
(* the worker at rest: guards.spray_blocked is asked once, on an older      *)
(* picture, and the gun comes on several device calls later.                *)
(***************************************************************************)
THEOREM PatientSpraysEnclosed == PatientSpec => []SprayEnclosed
<1>1. PatientSpec => LineSpec
  <2>1. [PatientNext]_lineVars => [LineNext]_lineVars
    BY DEF PatientNext, LineNext
  <2> QED
    BY <2>1, PTL DEF PatientSpec, LineSpec
<1>2. PatientSpec => []BarrierInv
  BY <1>1, InitBarrier, BarrierKept, LineInvariant, PTL DEF PatientSpec
<1>3. BarrierInv /\ PlaceInv => SprayEnclosed
  BY DEF BarrierInv, SprayShut, Shut, PlaceInv, GunHeld, SprayHeld, Spraying, SprayEnclosed
<1> QED
  BY <1>1, <1>2, <1>3, PlaceHolds, PTL

=============================================================================
