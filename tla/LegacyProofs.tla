---------------------------- MODULE LegacyProofs ----------------------------
(***************************************************************************)
(* Theorems of the legacy route, for every number of parts, flash time and  *)
(* number of troubles.                                                      *)
(***************************************************************************)
EXTENDS LegacySequencer, FiniteSetTheorems, SequenceTheorems, TLAPS

-----------------------------------------------------------------------------
(***************************************************************************)
(* The queue belt. While a step or a composite is in progress the machine   *)
(* is neither faulted nor paused: that is what makes it right to switch the *)
(* belt on at the end of one.                                               *)
(***************************************************************************)
InStep == pc \in {"step", "sand", "spray", "safe", "clean"}

\* The two halves of FeedIsWatched.
WatchedFeed ==
  coil => /\ watch
          /\ pc \notin {"sand", "spray", "safe", "clean", "closed"}
          /\ phase # "faulted" /\ ~feedPaused

PauseStops ==
  pc = "top" /\ ~Runs /\ pc' \in {"save", "dead"} => ~coil' \/ troubles' # troubles

FeedInv ==
  /\ coil \in BOOLEAN /\ watch \in BOOLEAN
  /\ WatchedFeed
  /\ InStep => phase # "faulted" /\ ~feedPaused

\* The feed invariant holds at first,
LEMMA FeedInit == Init => FeedInv
BY DEF Init, FeedInv, WatchedFeed, InStep

\* and every step keeps it.
LEMMA FeedStep == FeedInv /\ [Next]_vars => FeedInv'
<1> SUFFICES ASSUME FeedInv, [Next]_vars PROVE FeedInv'
  OBVIOUS
<1> USE DEF FeedInv, WatchedFeed, InStep
<1>1. CASE UNCHANGED vars
  BY <1>1 DEF vars, modeVars, bookVars, seqVars, feedVars, flagVars, diskVars
<1> USE DEF seqVars, feedVars, flagVars
<1>2. CASE LoopExit
  BY <1>2 DEF LoopExit
<1>3. CASE LoopHalt
  BY <1>3 DEF LoopHalt
<1>4. CASE LoopSaves
  BY <1>4 DEF LoopSaves
<1>5. ASSUME NEW dt \in 0 .. 1, StepBegins(dt) PROVE FeedInv'
  <2>1. phase # "faulted" /\ feedPaused' = FALSE
    BY <1>5 DEF StepBegins, Runs
  <2>2. CASE UNCHANGED <<watch, phase>> /\ pc' = "step"
             /\ (watch => coil' = (coil \/ feedPaused)) /\ (~watch => UNCHANGED coil)
    BY <2>1, <2>2
  <2>3. CASE UNCHANGED <<watch, coil, phase>> /\ pc' = "step"
    BY <2>1, <2>3
  <2>4. CASE watch' = FALSE /\ coil' = FALSE /\ (UNCHANGED phase \/ pc' = "save")
    BY <2>1, <2>4
  <2>5. QED
    BY <1>5, <2>2, <2>3, <2>4 DEF StepBegins, Fault, GiveUp, Done
<1>6. ASSUME NEW dt \in 0 .. 1, LoopWaits(dt) PROVE FeedInv'
  <2>1. pc = "top" /\ pc' \in {"save", "dead"} /\ UNCHANGED <<watch, phase>>
    BY <1>6 DEF LoopWaits
  <2>2. CASE UNCHANGED <<coil, feedPaused>>
    BY <2>1, <2>2
  <2>3. CASE coil' = (coil /\ ~watch) /\ feedPaused' = watch
    BY <2>1, <2>3
  <2>4. QED
    BY <1>6, <2>2, <2>3 DEF LoopWaits, PauseEdge
<1>7. ASSUME NEW dt \in 0 .. 1, Sanded(dt) \/ Sprayed(dt) PROVE FeedInv'
  <2>1. UNCHANGED <<watch, coil, feedPaused, phase>> /\ pc \in {"sand", "spray"}
        /\ pc' \in {"spray", "safe"}
    BY <1>7 DEF Sanded, Sprayed
  <2>2. QED
    BY <2>1
<1>8. CASE IdleWaits \/ IntakeWaits
  BY <1>8 DEF IdleWaits, IntakeWaits, At, Done, FeedLeft
<1>9. CASE FirstEntry
  BY <1>9 DEF FirstEntry, At, Done, Die, FeedLeft
<1>10. CASE IntakeFails \/ RobotFails \/ StageFails
  BY <1>10 DEF IntakeFails, RobotFails, StageFails, Fault, GiveUp, Done
<1>11. CASE RobotSkips
  BY <1>11 DEF RobotSkips, At, Done
<1>12. CASE RobotStarts
  <2>1. InStep /\ UNCHANGED <<phase, feedPaused>>
    BY <1>12 DEF RobotStarts, At
  <2>2. CASE pc' = "sand" /\ coil' = (coil /\ ~watch) /\ UNCHANGED watch
    BY <2>1, <2>2
  <2>3. CASE pc' = "dead" /\ UNCHANGED <<watch, coil>>
    BY <2>1, <2>3
  <2>4. QED
    BY <1>12, <2>2, <2>3 DEF RobotStarts, Suspend, Die
<1>13. CASE Retracted
  BY <1>13 DEF Retracted, Resume, Done, Die
<1>14. CASE CleanStarts
  <2>1. InStep /\ UNCHANGED <<phase, feedPaused>>
    BY <1>14 DEF CleanStarts, At
  <2>2. CASE pc' = "clean" /\ coil' = (coil /\ ~watch) /\ UNCHANGED watch
    BY <2>1, <2>2
  <2>3. CASE pc' = "dead" /\ UNCHANGED <<watch, coil>>
    BY <2>1, <2>3
  <2>4. QED
    BY <1>14, <2>2, <2>3 DEF CleanStarts, Suspend, Die
<1>15. CASE Cleaned
  BY <1>15 DEF Cleaned, Resume, Die, Fault, GiveUp, Done
<1>16. ASSUME NEW offload \in BOOLEAN, Gate(offload) PROVE FeedInv'
  BY <1>16 DEF Gate, At, Done, Departs, Die
<1>17. CASE EntrySkipped
  BY <1>17 DEF EntrySkipped, At, Done, FeedLeft
<1>18. CASE Staged
  BY <1>18 DEF Staged, At, Done, FeedLeft
<1>19. CASE Transition
  <2>1. InStep /\ UNCHANGED feedPaused /\ pc' \in {"save", "dead"}
        /\ phase' \in {"transition", "idle", "robot"}
    BY <1>19 DEF Transition, At, Done, Die
  <2>2. UNCHANGED <<watch, coil>> \/ (watch' = FALSE /\ coil' = FALSE)
    BY <1>19 DEF Transition, FeedInherited
  <2>3. CASE UNCHANGED <<watch, coil>>
    BY <2>1, <2>3
  <2>4. CASE watch' = FALSE /\ coil' = FALSE
    BY <2>1, <2>4
  <2>5. QED
    BY <2>2, <2>3, <2>4
<1>20. CASE TransitionFails
  BY <1>20 DEF TransitionFails, GiveUp, Fault, Done
<1>21. CASE Declare \/ ClearParts
  BY <1>21 DEF Declare, ClearParts, Resized, Die
<1>22. CASE Halt \/ Confirm \/ ClearLine
  BY <1>22 DEF Halt, Confirm, ClearLine
<1>23. ASSUME NEW on \in BOOLEAN, SetRunning(on) PROVE FeedInv'
  BY <1>23 DEF SetRunning
<1>24. CASE CloseBegins \/ CloseEnds
  <2>1. watch' = FALSE /\ coil' = FALSE /\ UNCHANGED <<phase, feedPaused>>
        /\ (UNCHANGED pc \/ pc' = "closed")
    BY <1>24 DEF CloseBegins, CloseEnds
  <2>2. QED
    BY <2>1
<1>25. CASE Crash
  BY <1>25 DEF Crash
<1>26. CASE Restart
  BY <1>26 DEF Restart
<1>27. CASE RestartRaises
  BY <1>1, <1>27 DEF RestartRaises
<1>28. QED
  BY <1>1, <1>2, <1>3, <1>4, <1>5, <1>6, <1>7, <1>8, <1>9, <1>10, <1>11, <1>12, <1>13,
     <1>14, <1>15, <1>16, <1>17, <1>18, <1>19, <1>20, <1>21, <1>22, <1>23, <1>24, <1>25,
     <1>26, <1>27
     DEF Next, Loop, Operator, Process

-----------------------------------------------------------------------------
(***************************************************************************)
(* The pattern. What the belt really carries is what four beats in a row    *)
(* leave there; while the machine is live, it is what the books say. The    *)
(* books are those of the process or of its state file: the parts dict P,   *)
(* the queue q, the ids handed out u, those completed c, the occupants o.   *)
(***************************************************************************)
Members(s) == {s[i] : i \in 1 .. Len(s)}
Rising(s)  == s \in Seq(Nat) /\ \A i, j \in 1 .. Len(s) : i < j => s[i] < s[j]

Ids(P, u) == u \in Nat /\ DOMAIN P \subseteq 1 .. u /\ P \in [DOMAIN P -> Records]

Queued(P, q) == Rising(q) /\ Members(q) \subseteq DOMAIN P

Shipped(P, q, u, c) ==
  /\ Rising(c)
  /\ \A x \in Members(c) : /\ x <= u
                           /\ x \in DOMAIN P => P[x].coats = 2 \/ misled
                           /\ \A y \in Members(q) : x < y

Standing(q, u, o) == o \in [Tracked -> 0 .. u] /\ \A st \in Tracked : o[st] \notin Members(q)

Books(P, q, u, c, o) == Ids(P, u) /\ Queued(P, q) /\ Shipped(P, q, u, c) /\ Standing(q, u, o)

\* x has left the queue, or is a part these books still have in it.
Ahead(x, P, q) == x \in DOMAIN P => x \in Members(q) \/ \A y \in Members(q) : x < y

\* What the belt carries, in its order, with nobody where a beat expects none.
Belt(r) ==
  /\ r \in [occ : [Tracked -> Nat], staged : Nat, beat : Beats]
  /\ r.beat # "P3" => r.occ["F1"] = NoPart
  /\ r.beat = "P3" => r.occ["F2"] = NoPart
  /\ r.beat # "P3" /\ r.occ["F2"] # NoPart /\ r.occ["O"] # NoPart => r.occ["F2"] < r.occ["O"]
  /\ r.beat = "P3" /\ r.occ["F1"] # NoPart /\ r.occ["O"] # NoPart => r.occ["O"] < r.occ["F1"]

\* The belt against books: its parts have left the queue and not the line, and
\* whoever waits at F2 for the way out has both coats.
Fits(r, P, q, c) ==
  /\ \A st \in Tracked : r.occ[st] # NoPart =>
       Ahead(r.occ[st], P, q) /\ \A x \in Members(c) : x < r.occ[st]
  /\ r.beat \in {"P1", "P4"} /\ r.occ["F2"] \in DOMAIN P
       => P[r.occ["F2"]].coats = 2 \/ r.occ["F2"] \in Members(q)

\* Books whose parts stand on the belt are at most one beat behind it.
Follows(b, P, q) ==
  \/ real.beat \in {b, NextBeat(b)}
  \/ \A st \in Tracked : real.occ[st] \notin DOMAIN P \ Members(q)

\* The state file lags, but never contradicts.
Lag ==
  /\ DOMAIN disk = {"ok", "parts", "queue", "used", "occ", "completed", "beat"}
  /\ disk.beat \in Beats
  /\ disk.used <= used
  /\ Members(disk.completed) \subseteq Members(completed)
  /\ Members(queue) \cap DOMAIN disk.parts \subseteq Members(disk.queue)

Consistent ==
  /\ Books(parts, queue, used, completed, occ)
  /\ Books(disk.parts, disk.queue, disk.used, disk.completed, disk.occ)
  /\ Belt(real)
  /\ Fits(real, parts, queue, completed)
  /\ Fits(real, disk.parts, disk.queue, disk.completed)
  /\ Follows(beat, parts, queue)
  /\ Follows(disk.beat, disk.parts, disk.queue)
  /\ Lag

Running == pc \notin {"dead", "closed", "down"}
Live    == Running /\ phase # "faulted"

\* The coats and the beat in the file are those of the books, once they have been saved.
Saved ==
  \/ ~dirty
  \/ phase \in {"flash", "stage", "transition"} /\ pc \in {"top", "step", "clean"}

CoatsSaved ==
  Running /\ Saved =>
    /\ disk.beat = beat
    /\ \A p \in Known \cap DOMAIN disk.parts : disk.parts[p].coats = parts[p].coats

\* Where the loop thread can be in which phase.
Control ==
  /\ phase \in {"idle", "robot", "flash", "stage", "transition", "faulted"}
  /\ beat \in Beats /\ entering \in Nat /\ dirty \in BOOLEAN
  /\ InStep => phase # "faulted"
  /\ pc \in {"sand", "spray", "safe"} => phase = "robot"
  /\ pc = "clean" => phase = "flash"
  /\ clearing => phase = "faulted"

\* A live machine believes what is so, but for the beat it may have been misled about.
Believed ==
  Live => IF phase = "idle" THEN occ = Empty
          ELSE /\ real.occ = occ /\ OnLine \subseteq Known
               /\ real.beat = beat \/ (misled /\ real.beat = NextBeat(beat))

\* The pending enterer, from the staging eye to the end of the entry.
Enterer(e) ==
  /\ e \in Known
  /\ Ahead(e, disk.parts, disk.queue)
  /\ \A y \in Members(queue) : e < y
  /\ \A x \in Members(completed) : x < e
  /\ \A st \in Tracked : occ[st] < e

Pending ==
  /\ Live /\ phase \in {"robot", "flash", "stage"} => real.staged = NoPart
  /\ Live /\ phase = "transition" /\ real.staged # NoPart =>
       real.staged = entering /\ Enterer(entering)

\* What the phases of the beat have done.
Worked ==
  Live /\ phase \in {"flash", "stage", "transition"} /\ occ["O"] # NoPart
    => parts[occ["O"]].coats >= WorkCoat(beat)

Gated ==
  Live /\ phase \in {"stage", "transition"} =>
    /\ beat = "P2" => ~NeedsFlash(occ["F2"])
    /\ beat = "P3" => ~NeedsFlash(occ["F1"])

PatternInv == Consistent /\ CoatsSaved /\ Control /\ Believed /\ Pending /\ Worked /\ Gated

-----------------------------------------------------------------------------
(***************************************************************************)
(* What the operators on queues and part records do.                        *)
(***************************************************************************)
LEMMA MembersOfTail ==
  ASSUME NEW q, Rising(q), q # << >>
  PROVE  /\ Head(q) \in Nat /\ Rising(Tail(q))
         /\ Members(q) = {Head(q)} \cup Members(Tail(q))
         /\ \A y \in Members(Tail(q)) : Head(q) < y
<1>1. q \in Seq(Nat) /\ Len(q) \in Nat /\ Len(q) > 0
  BY DEF Rising
<1>2. Head(q) = q[1] /\ q[1] \in Nat
  BY <1>1
<1>3. /\ Tail(q) \in Seq(Nat) /\ Len(Tail(q)) = Len(q) - 1
      /\ \A i \in 1 .. Len(q) - 1 : Tail(q)[i] = q[i + 1]
  BY <1>1
<1>4. Rising(Tail(q))
  BY <1>1, <1>3 DEF Rising
<1>5. \A y \in Members(Tail(q)) : \E i \in 2 .. Len(q) : y = q[i]
  BY <1>1, <1>3 DEF Members
<1>6. \A i \in 2 .. Len(q) : q[i] \in Members(Tail(q))
  <2>1. SUFFICES ASSUME NEW i \in 2 .. Len(q) PROVE q[i] \in Members(Tail(q))
    OBVIOUS
  <2>2. i - 1 \in 1 .. Len(q) - 1 /\ Tail(q)[i - 1] = q[i]
    BY <1>1, <1>3
  <2>3. QED
    BY <1>3, <2>2 DEF Members
<1>7. Members(q) = {Head(q)} \cup Members(Tail(q))
  BY <1>1, <1>2, <1>5, <1>6 DEF Members
<1>8. \A y \in Members(Tail(q)) : Head(q) < y
  BY <1>1, <1>2, <1>5 DEF Rising
<1>9. QED
  BY <1>2, <1>4, <1>7, <1>8

\* A later identity at the end keeps a queue rising.
LEMMA MembersOfAppend ==
  ASSUME NEW q, Rising(q), NEW x \in Nat, \A y \in Members(q) : y < x
  PROVE  Rising(Append(q, x)) /\ Members(Append(q, x)) = Members(q) \cup {x}
<1>1. q \in Seq(Nat) /\ Len(q) \in Nat
  BY DEF Rising
<1>2. /\ Append(q, x) \in Seq(Nat) /\ Len(Append(q, x)) = Len(q) + 1
      /\ \A i \in 1 .. Len(q) : Append(q, x)[i] = q[i]
      /\ Append(q, x)[Len(q) + 1] = x
  BY <1>1
<1>3. \A i \in 1 .. Len(q) : q[i] < x
  BY DEF Members
<1>4. Rising(Append(q, x))
  BY <1>1, <1>2, <1>3 DEF Rising
<1>5. Members(Append(q, x)) = Members(q) \cup {x}
  BY <1>1, <1>2 DEF Members
<1>6. QED
  BY <1>4, <1>5

\* The empty queue has no members.
LEMMA MembersOfNone == Rising(<< >>) /\ Members(<< >>) = {}
BY DEF Rising, Members

\* Members of a rising queue are identities.
LEMMA MembersAreNats == ASSUME NEW q, Rising(q) PROVE Members(q) \subseteq Nat
BY DEF Rising, Members

\* Banked time never touches a coat and never takes away the right to leave a fan.
Owes(q) == q.coats > 0 /\ ActiveFlash(q) < FlashSeconds

Kept(P) ==
  /\ P \in [Known -> Records]
  /\ \A p \in Known : P[p].coats = parts[p].coats /\ (Owes(P[p]) => Owes(parts[p]))

\* That is what banking does, for any fan command and any time.
LEMMA BankKeeps ==
  ASSUME parts \in [Known -> Records], NEW on, NEW dt
  PROVE  Kept(Banked(on, dt))
<1>1. SUFFICES ASSUME NEW q \in Records, q.coats > 0
               PROVE  /\ Flashed(q) \in Records /\ Flashed(q).coats = q.coats
                      /\ Owes(Flashed(q)) => Owes(q)
  <2>1. \A p \in Known :
          /\ parts[p] \in Records
          /\ \/ Banked(on, dt)[p] = parts[p]
             \/ parts[p].coats > 0 /\ Banked(on, dt)[p] = Flashed(parts[p])
    BY DEF Banked
  <2>2. Banked(on, dt) = [p \in Known |-> Banked(on, dt)[p]]
    BY DEF Banked
  <2>3. \A p \in Known : Banked(on, dt)[p] \in Records
    BY <1>1, <2>1
  <2>4. \A p \in Known : Banked(on, dt)[p].coats = parts[p].coats
    BY <1>1, <2>1
  <2>5. \A p \in Known : Owes(Banked(on, dt)[p]) => Owes(parts[p])
    BY <1>1, <2>1
  <2>6. QED
    BY <2>2, <2>3, <2>4, <2>5 DEF Kept
<1>2. FlashSeconds \in Nat /\ FlashSeconds > 0
  BY LegacyAssumption
<1>3. /\ q.coats \in 0 .. 2 /\ q.flash1 \in 0 .. FlashSeconds
      /\ q.flash2 \in 0 .. FlashSeconds /\ q.wet \in BOOLEAN
  BY DEF Records
<1>4. /\ Aired(q) \in Records /\ Aired(q).coats = q.coats
      /\ ActiveFlash(Aired(q)) >= ActiveFlash(q)
  BY <1>2, <1>3 DEF Aired, Records, Capped, ActiveFlash
<1>5. DEFINE w == Aired(q).wet /\ ActiveFlash(Aired(q)) < FlashSeconds
<1>6. Flashed(q) = [Aired(q) EXCEPT !.wet = w]
  BY <1>4 DEF Flashed, Records
<1>7. w \in BOOLEAN
  OBVIOUS
<1> HIDE DEF w
<1>8. Flashed(q) \in Records /\ Flashed(q).coats = q.coats
      /\ ActiveFlash(Flashed(q)) = ActiveFlash(Aired(q))
  BY <1>4, <1>6, <1>7 DEF Records, ActiveFlash
<1>9. ActiveFlash(q) \in Nat /\ ActiveFlash(Aired(q)) \in Nat
  BY <1>2, <1>3, <1>4 DEF ActiveFlash, Records
<1>10. QED
  BY <1>2, <1>3, <1>4, <1>8, <1>9 DEF Owes

-----------------------------------------------------------------------------
(***************************************************************************)
(* Steps that leave the books of the belt alone: whatever the loop thread   *)
(* does inside a beat but coat a part.                                      *)
(***************************************************************************)
\* From one phase to the same or, inside a beat, to the next but never to "robot".
StaysInBeat ==
  Live' =>
    /\ Live
    /\ \/ phase' = phase /\ entering' = entering
       \/ /\ phase \in {"robot", "flash", "stage"} /\ phase' \in {"flash", "stage", "transition"}
          /\ Worked' /\ Gated'

StillSaved == Running' /\ Saved' => Running /\ Saved

\* Such a step keeps the whole invariant.
LEMMA Keep ==
  ASSUME PatternInv, UNCHANGED <<queue, used, occ, completed, real, disk, beat, misled>>,
         Kept(parts'), Control', StaysInBeat, StillSaved
  PROVE  PatternInv'
<1>1. /\ Known' = Known /\ parts' \in [Known -> Records]
      /\ \A p \in Known : parts'[p].coats = parts[p].coats
      /\ \A p \in Known : Owes(parts'[p]) => Owes(parts[p])
  BY DEF Kept, Known
<1>2. Consistent'
  <2>1. Books(parts, queue, used, completed, occ)'
    BY <1>1 DEF PatternInv, Consistent, Books, Ids, Queued, Shipped, Standing, Known
  <2>2. Fits(real, parts, queue, completed)'
    BY <1>1 DEF PatternInv, Consistent, Fits, Ahead, Known
  <2>3. /\ Books(disk.parts, disk.queue, disk.used, disk.completed, disk.occ)'
        /\ Belt(real)' /\ Fits(real, disk.parts, disk.queue, disk.completed)' /\ Lag'
        /\ Follows(disk.beat, disk.parts, disk.queue)'
    BY DEF PatternInv, Consistent, Lag, Follows, Shipped, Books
  <2>4. Follows(beat, parts, queue)'
    BY <1>1 DEF PatternInv, Consistent, Follows, Known
  <2>5. QED
    BY <2>1, <2>2, <2>3, <2>4 DEF Consistent
<1>3. CoatsSaved'
  BY <1>1 DEF PatternInv, CoatsSaved, StillSaved
<1>4. Believed'
  BY <1>1 DEF PatternInv, Believed, StaysInBeat, OnLine
<1>5. Pending'
  BY <1>1 DEF PatternInv, Pending, StaysInBeat, Enterer, Ahead
<1>6. Live' /\ phase' # "idle" => \A st \in Tracked : occ[st] # NoPart => occ[st] \in Known
  BY DEF PatternInv, Believed, StaysInBeat, OnLine
<1>7. Worked'
  BY <1>1, <1>6 DEF PatternInv, Worked, StaysInBeat, Tracked
<1>8. Gated'
  <2>1. SUFFICES ASSUME Live', phase' \in {"stage", "transition"},
                        NEW b \in {"P2", "P3"}, beat' = b
                 PROVE  ~NeedsFlash(occ[IF b = "P2" THEN "F2" ELSE "F1"])'
    BY DEF Gated
  <2>2. CASE phase' # phase
    BY <2>1, <2>2 DEF StaysInBeat, Gated
  <2>3. CASE phase' = phase
    <3>1. ~NeedsFlash(occ[IF b = "P2" THEN "F2" ELSE "F1"])
      BY <2>1, <2>3 DEF PatternInv, Gated, StaysInBeat
    <3>2. QED
      BY <1>1, <1>6, <2>1, <3>1 DEF NeedsFlash, Owes, Tracked
  <2>4. QED
    BY <2>2, <2>3
<1>9. QED
  BY <1>2, <1>3, <1>4, <1>5, <1>7, <1>8 DEF PatternInv

\* Nothing happened to the part records.
LEMMA SameIsKept == Consistent => Kept(parts)
BY DEF Consistent, Books, Ids, Kept, Known

\* Nor did anything but drying, if time was banked.
LEMMA BankedIsKept ==
  ASSUME Consistent, NEW on, NEW dt PROVE Kept(Banked(on, dt))
BY BankKeeps DEF Consistent, Books, Ids, Known

\* The steps of the loop thread that are of this kind.
LEMMA LoopStepsKeep ==
  ASSUME PatternInv, NEW dt \in 0 .. 1, NEW offload \in BOOLEAN,
         \/ LoopExit \/ LoopHalt \/ StepBegins(dt) \/ LoopWaits(dt) \/ IdleWaits \/ IntakeWaits
         \/ IntakeFails \/ RobotSkips \/ RobotStarts \/ Sanded(dt) \/ Sprayed(dt) \/ RobotFails
         \/ CleanStarts \/ Cleaned \/ Gate(offload) \/ EntrySkipped \/ StageFails
  PROVE  PatternInv'
<1> USE DEF PatternInv
<1>1. SUFFICES /\ UNCHANGED <<queue, used, occ, completed, real, disk, beat, misled>>
               /\ Kept(parts') /\ Control' /\ StaysInBeat /\ StillSaved
  BY Keep
<1> USE DEF Control, InStep, Running, Live, Saved, StaysInBeat, StillSaved, seqVars, flagVars,
            bookVars, diskVars, Done, GiveUp, Fault, Die, At
<1>2. CASE LoopExit
  BY <1>2, SameIsKept DEF LoopExit
<1>3. CASE LoopHalt
  BY <1>3, SameIsKept DEF LoopHalt
<1>4. CASE StepBegins(dt)
  <2>1. Kept(parts')
    BY <1>4, BankedIsKept DEF StepBegins
  <2>2. /\ pc = "top" /\ phase # "faulted"
        /\ UNCHANGED <<queue, used, occ, completed, real, disk, beat, misled, entering, clearing>>
        /\ \/ pc' = "step" /\ UNCHANGED <<phase, dirty>>
           \/ pc' = "save" /\ phase' = "faulted" /\ dirty' = TRUE
    BY <1>4 DEF StepBegins, Runs
  <2>3. CASE pc' = "step" /\ UNCHANGED <<phase, dirty>>
    BY <2>1, <2>2, <2>3
  <2>4. CASE pc' = "save" /\ phase' = "faulted" /\ dirty' = TRUE
    BY <2>1, <2>2, <2>4
  <2>5. QED
    BY <2>2, <2>3, <2>4
<1>5. CASE LoopWaits(dt)
  <2>1. Kept(parts')
    BY <1>5, SameIsKept, BankedIsKept DEF LoopWaits
  <2>2. /\ pc = "top" /\ pc' \in {"dead", "save"}
        /\ UNCHANGED <<queue, used, occ, completed, real, disk, beat, misled, entering, clearing,
                       phase, dirty>>
    BY <1>5 DEF LoopWaits
  <2>3. QED
    BY <2>1, <2>2
<1>6. CASE IdleWaits \/ IntakeWaits
  BY <1>6, SameIsKept DEF IdleWaits, IntakeWaits
<1>7. CASE IntakeFails \/ RobotFails \/ StageFails
  BY <1>7, SameIsKept DEF IntakeFails, RobotFails, StageFails
<1>8. CASE RobotSkips
  <2>1. occ["O"] # NoPart => parts[occ["O"]].coats \in 0 .. 2
    BY <1>8 DEF RobotSkips, Consistent, Books, Ids, Known, Believed, OnLine, Records, Tracked
  <2>2. WorkCoat(beat) \in 1 .. 2
    BY DEF WorkCoat
  <2>3. UNCHANGED <<occ, parts, beat>> /\ phase' = "flash" /\ phase = "robot" /\ pc = "step"
    BY <1>8 DEF RobotSkips
  <2>4. occ["O"] # NoPart => ~(parts[occ["O"]].coats < WorkCoat(beat))
    BY <1>8 DEF RobotSkips, WorkDue
  <2>5. Worked' /\ Gated'
    BY <2>1, <2>2, <2>3, <2>4 DEF Worked, Gated, WorkCoat
  <2>6. QED
    BY <1>8, <2>5, SameIsKept DEF RobotSkips
<1>9. CASE RobotStarts
  BY <1>9, SameIsKept DEF RobotStarts
<1>10. CASE Sanded(dt) \/ Sprayed(dt)
  <2>1. Kept(parts')
    BY <1>10, BankedIsKept DEF Sanded, Sprayed
  <2>2. /\ pc \in {"sand", "spray"} /\ pc' \in {"spray", "safe"}
        /\ UNCHANGED <<queue, used, occ, completed, real, disk, beat, misled, entering, clearing,
                       phase, dirty>>
    BY <1>10 DEF Sanded, Sprayed
  <2>3. QED
    BY <2>1, <2>2
<1>11. CASE CleanStarts
  BY <1>11, SameIsKept DEF CleanStarts
<1>12. CASE Cleaned
  BY <1>12, SameIsKept DEF Cleaned
<1>13. CASE Gate(offload)
  <2>1. phase' \in {"stage", "transition"} => Worked' /\ Gated'
    BY <1>13 DEF Gate, Worked, Gated, Departs, DepartureBlocked, EntryBeat, NeedsFlash
  <2>2. phase' = "flash" \/ pc' = "dead" => phase' = phase
    BY <1>13 DEF Gate
  <2>3. QED
    BY <1>13, <2>1, <2>2, SameIsKept DEF Gate, Departs
<1>14. CASE EntrySkipped
  <2>1. Worked' /\ Gated'
    BY <1>14 DEF EntrySkipped, Worked, Gated, NeedsFlash
  <2>2. QED
    BY <1>14, <2>1, SameIsKept DEF EntrySkipped, NoPart
<1>15. QED
  BY <1>2, <1>3, <1>4, <1>5, <1>6, <1>7, <1>8, <1>9, <1>10, <1>11, <1>12, <1>13, <1>14

-----------------------------------------------------------------------------
(***************************************************************************)
(* One move of the belt, from a picture that is so to the next one.         *)
(***************************************************************************)
LEMMA Before ==
  ASSUME PatternInv, At("transition")
  PROVE  /\ real.occ = occ /\ beat \in Beats
         /\ real.beat = beat \/ (misled /\ real.beat = NextBeat(beat))
         /\ occ \in [Tracked -> Nat] /\ real.staged \in Nat
         /\ \A st \in Tracked : occ[st] # NoPart => occ[st] \in Known
         /\ Belt(real) /\ Worked /\ Gated
         /\ EntryBeat => real.beat # "P3"
         /\ real.beat # "P3" => occ["F1"] = NoPart
         /\ real.beat = "P3" => occ["F2"] = NoPart
         /\ real.staged # NoPart => real.staged = entering /\ Enterer(entering)
<1>1. /\ real.occ = occ /\ beat \in Beats /\ Belt(real) /\ OnLine \subseteq Known
      /\ real.beat = beat \/ (misled /\ real.beat = NextBeat(beat))
      /\ real.staged # NoPart => real.staged = entering /\ Enterer(entering)
      /\ Worked /\ Gated
  BY DEF PatternInv, Consistent, At, Live, Running, Believed, Control, Pending
<1>2. EntryBeat => real.beat # "P3"
  BY <1>1 DEF EntryBeat, NextBeat
<1>3. QED
  BY <1>1, <1>2 DEF Belt, OnLine

\* Who stands where after the move.
LEMMA Moved ==
  ASSUME PatternInv, At("transition")
  PROVE  LET a == Advanced.occ IN
         /\ a \in [Tracked -> Nat]
         /\ EntryBeat => a["F1"] = NoPart /\ a["F2"] = occ["O"] /\ a["O"] = real.staged
         /\ beat = "P2" => /\ a["F2"] = NoPart
                           /\ \/ /\ a["F1"] = occ["O"] /\ a["O"] = occ["F2"]
                                 /\ occ["F2"] # NoPart /\ real.beat # "P3"
                              \/ /\ a["F1"] = occ["F1"] /\ a["O"] = occ["O"]
                                 /\ occ["F2"] = NoPart
         /\ beat = "P3" => a["F1"] = NoPart /\ a["F2"] = occ["O"] /\ a["O"] = occ["F1"]
<1> DEFINE a == Advanced.occ
<1>1. a = Picture(real.staged)
  BY DEF Advanced
<1>2. a \in [Tracked -> Nat]
  BY <1>1, Before DEF Picture, Shifted, Retreated, Returned, Tracked, NoPart
<1>3. OnLine = {} => \A st \in Tracked : occ[st] = NoPart
  BY DEF OnLine
<1>4. CASE EntryBeat
  <2>1. CASE BeltMoves
    BY <1>1, <1>2, <1>4, <2>1, Before DEF Picture, Shifted, EntryBeat, Tracked
  <2>2. CASE ~BeltMoves
    <3>1. entering = NoPart /\ \A st \in Tracked : occ[st] = NoPart
      BY <1>3, <1>4, <2>2 DEF BeltMoves
    <3>2. a = occ /\ real.staged = NoPart
      BY <1>1, <2>2, <3>1, Before DEF Picture
    <3>3. QED
      BY <1>2, <1>4, <3>1, <3>2 DEF EntryBeat, Tracked
  <2>3. QED
    BY <2>1, <2>2
<1>5. CASE beat = "P2"
  <2>1. ~EntryBeat
    BY <1>5 DEF EntryBeat
  <2>2. CASE BeltMoves
    <3>1. occ["F2"] # NoPart
      BY <1>5, <2>1, <2>2 DEF BeltMoves
    <3>2. real.beat # "P3" /\ occ["F1"] = NoPart
      BY <3>1, Before
    <3>3. a = Retreated
      BY <1>1, <1>5, <2>1, <2>2 DEF Picture
    <3>4. a["F2"] = NoPart /\ a["F1"] = occ["O"] /\ a["O"] = occ["F2"]
      BY <3>2, <3>3 DEF Retreated
    <3>5. QED
      BY <1>2, <1>5, <2>1, <3>1, <3>2, <3>4
  <2>3. CASE ~BeltMoves
    <3>1. occ["F2"] = NoPart
      BY <1>5, <2>1, <2>3 DEF BeltMoves
    <3>2. a = occ
      BY <1>1, <2>3 DEF Picture
    <3>3. QED
      BY <1>2, <1>5, <2>1, <3>1, <3>2
  <2>4. QED
    BY <1>5, <2>1, <2>2, <2>3
<1>6. CASE beat = "P3"
  <2>1. ~EntryBeat
    BY <1>6 DEF EntryBeat
  <2>2. CASE BeltMoves
    BY <1>1, <1>2, <1>6, <2>1, <2>2, Before DEF Picture, Returned, Shifted, Tracked
  <2>3. CASE ~BeltMoves
    <3>1. OnLine = {}
      BY <1>6, <2>1, <2>3, Zenon DEF BeltMoves
    <3>2. QED
      BY <1>1, <1>2, <1>3, <1>6, <2>1, <2>3, <3>1 DEF Picture, Tracked
  <2>4. QED
    BY <1>6, <2>1, <2>2, <2>3
<1>7. QED
  BY <1>2, <1>4, <1>5, <1>6, Before DEF Beats, EntryBeat

\* Whoever stands on the belt after the move stood there before, or was staged.
LEMMA NobodyNew ==
  ASSUME PatternInv, At("transition"), NEW st \in Tracked, Advanced.occ[st] # NoPart
  PROVE  \/ Advanced.occ[st] = entering /\ Enterer(entering)
         \/ \E s \in Tracked : Advanced.occ[st] = occ[s] /\ occ[s] # NoPart
<1>1. EntryBeat \/ beat = "P2" \/ beat = "P3"
  BY Before DEF Beats, EntryBeat
<1>2. CASE EntryBeat
  BY <1>2, Moved, Before DEF Tracked
<1>3. CASE beat = "P2"
  BY <1>3, Moved DEF Tracked
<1>4. CASE beat = "P3"
  BY <1>4, Moved DEF Tracked
<1>5. QED
  BY <1>1, <1>2, <1>3, <1>4

\* The next picture is a legal one, for the books and for the file.
LEMMA AdvancedFits ==
  ASSUME PatternInv, At("transition")
  PROVE  /\ Belt(Advanced)
         /\ Fits(Advanced, parts, queue, completed)
         /\ Fits(Advanced, disk.parts, disk.queue, disk.completed)
         /\ disk.beat = beat /\ Advanced.beat = NextBeat(beat)
<1> DEFINE a == Advanced.occ
<1>1. a \in [Tracked -> Nat] /\ Advanced.staged = NoPart /\ Advanced.beat = NextBeat(beat)
      /\ Advanced \in [occ : [Tracked -> Nat], staged : Nat, beat : Beats]
  BY Moved DEF Advanced, NoPart, NextBeat, Beats
<1>2. Belt(Advanced)
  <2>1. /\ real.beat # "P3" /\ occ["F2"] # NoPart /\ occ["O"] # NoPart => occ["F2"] < occ["O"]
        /\ real.beat = "P3" /\ occ["F1"] # NoPart /\ occ["O"] # NoPart => occ["O"] < occ["F1"]
    BY Before DEF Belt
  <2>2. CASE EntryBeat
    <3>1. real.staged # NoPart => occ["O"] < real.staged
      BY Before DEF Enterer, Tracked
    <3>2. Advanced.beat # "P3"
      BY <1>1, <2>2 DEF EntryBeat, NextBeat
    <3>3. QED
      BY <1>1, <2>2, <3>1, <3>2, Moved DEF Belt
  <2>3. CASE beat = "P2"
    <3>1. Advanced.beat = "P3"
      BY <1>1, <2>3 DEF NextBeat
    <3>2. CASE real.beat # "P3" /\ a["F1"] = occ["O"] /\ a["O"] = occ["F2"] /\ a["F2"] = NoPart
      BY <1>1, <2>1, <3>1, <3>2 DEF Belt
    <3>3. CASE a["F1"] = occ["F1"] /\ a["O"] = occ["O"] /\ a["F2"] = NoPart
      <4>1. occ["F1"] # NoPart => real.beat = "P3"
        BY Before
      <4>2. QED
        BY <1>1, <2>1, <3>1, <3>3, <4>1 DEF Belt
    <3>4. QED
      BY <2>3, <3>2, <3>3, Moved
  <2>4. CASE beat = "P3"
    <3>1. Advanced.beat = "P4"
      BY <1>1, <2>4 DEF NextBeat
    <3>2. QED
      BY <1>1, <2>1, <2>4, <3>1, Before, Moved DEF Belt
  <2>5. QED
    BY <2>2, <2>3, <2>4, Before DEF Beats, EntryBeat
<1>3. ASSUME NEW st \in Tracked, a[st] # NoPart
      PROVE  /\ Ahead(a[st], parts, queue) /\ \A x \in Members(completed) : x < a[st]
             /\ Ahead(a[st], disk.parts, disk.queue)
             /\ \A x \in Members(disk.completed) : x < a[st]
  <2>1. CASE a[st] = entering /\ Enterer(entering)
    BY <2>1 DEF Enterer, Ahead, PatternInv, Consistent, Lag
  <2>2. CASE \E s \in Tracked : a[st] = occ[s] /\ occ[s] # NoPart
    BY <2>2, Before DEF PatternInv, Consistent, Fits
  <2>3. QED
    BY <1>3, <2>1, <2>2, NobodyNew
<1>4. Advanced.beat \in {"P1", "P4"} => beat \in {"P3", "P4"} /\ a["F2"] = occ["O"]
  BY <1>1, Before, Moved DEF NextBeat, Beats, EntryBeat
<1>5. beat \in {"P3", "P4"} /\ occ["O"] \in DOMAIN parts => parts[occ["O"]].coats = 2
  <2>1. DOMAIN parts \subseteq 1 .. used /\ used \in Nat
        /\ \A p \in DOMAIN parts : parts[p].coats \in 0 .. 2
    BY DEF PatternInv, Consistent, Books, Ids, Records
  <2>2. Live
    BY DEF At, Live, Running
  <2>3. occ["O"] \in DOMAIN parts => parts[occ["O"]].coats >= WorkCoat(beat)
    BY <2>1, <2>2, Before DEF Worked, At, NoPart
  <2>4. QED
    BY <2>1, <2>3 DEF WorkCoat
<1>6. occ["O"] \in DOMAIN disk.parts =>
        occ["O"] \in DOMAIN parts /\ disk.parts[occ["O"]].coats = parts[occ["O"]].coats
  <2>1. \A p \in Known \cap DOMAIN disk.parts : disk.parts[p].coats = parts[p].coats
    BY DEF PatternInv, CoatsSaved, Saved, Running, At
  <2>2. occ["O"] \in DOMAIN disk.parts => occ["O"] # NoPart
    BY DEF PatternInv, Consistent, Books, Ids, NoPart
  <2>3. QED
    BY <2>1, <2>2, Before DEF Known, Tracked
<1>7. disk.beat = beat
  BY DEF PatternInv, CoatsSaved, Saved, Running, At
<1>8. QED
  BY <1>1, <1>2, <1>3, <1>4, <1>5, <1>6, <1>7 DEF Fits

\* What leaves the line is finished, unless somebody was misled, and it leaves first.
LEMMA ShipsInOrder ==
  ASSUME PatternInv, At("transition"), Ships
  PROVE  /\ occ["F2"] \in Known
         /\ Shipped(parts, queue, used, Append(completed, occ["F2"]))
         /\ Members(Append(completed, occ["F2"])) = Members(completed) \cup {occ["F2"]}
         /\ \A st \in Tracked : Advanced.occ[st] # NoPart => occ["F2"] < Advanced.occ[st]
<1>1. /\ occ["F2"] # NoPart /\ occ["F2"] \in Known /\ occ["F2"] \in Nat
      /\ real.beat # "P3" /\ (EntryBeat \/ beat = "P3")
  BY Before DEF Ships, Tracked, EntryBeat
<1>2. /\ Ahead(occ["F2"], parts, queue) /\ \A x \in Members(completed) : x < occ["F2"]
      /\ occ["F2"] \notin Members(queue)
  BY <1>1, Before DEF PatternInv, Consistent, Fits, Books, Standing, Tracked
<1>3. parts[occ["F2"]].coats = 2 \/ misled
  BY <1>1, <1>2, Before DEF PatternInv, Consistent, Fits, EntryBeat, Known
<1>4. \A y \in Members(queue) : occ["F2"] < y
  BY <1>1, <1>2 DEF Ahead, Known
<1>5. Rising(completed) /\ occ["F2"] <= used
  BY <1>1 DEF PatternInv, Consistent, Books, Shipped, Ids, Known
<1>6. /\ Rising(Append(completed, occ["F2"]))
      /\ Members(Append(completed, occ["F2"])) = Members(completed) \cup {occ["F2"]}
  BY <1>1, <1>2, <1>5, MembersOfAppend
<1>7. Shipped(parts, queue, used, Append(completed, occ["F2"]))
  BY <1>3, <1>4, <1>5, <1>6 DEF PatternInv, Consistent, Books, Shipped
<1>8. occ["O"] # NoPart => occ["F2"] < occ["O"]
  BY <1>1, Before DEF Belt
<1>9. real.staged # NoPart => occ["F2"] < real.staged
  BY Before DEF Enterer, Tracked
<1>10. occ["F1"] = NoPart
  BY <1>1, Before
<1>11. QED
  BY <1>1, <1>6, <1>7, <1>8, <1>9, <1>10, Moved DEF Tracked

-----------------------------------------------------------------------------
(***************************************************************************)
(* An identity for the part the sensors delivered: it comes after all that  *)
(* entered before it, in the books and in the state file.                   *)
(***************************************************************************)
LEMMA EntersKeeps ==
  ASSUME Consistent, NEW p \in Parts, Enters(p)
  PROVE  /\ Ids(parts', used') /\ Queued(parts', queue')
         /\ UNCHANGED completed => Shipped(parts', queue', used', completed')
         /\ p \in Nat \ {NoPart} /\ p \in DOMAIN parts' /\ p <= used' /\ used <= used'
         /\ Members(queue') \subseteq Members(queue)
         /\ p \notin Members(queue') /\ \A y \in Members(queue') : p < y
         /\ \A x \in Members(completed) : x < p
         /\ \A x \in 0 .. used : (x \in Members(queue) \/ \A y \in Members(queue) : x < y)
              => x < p \/ x \in Members(queue)
         /\ Ahead(p, disk.parts, disk.queue) /\ p \notin DOMAIN disk.parts \ Members(disk.queue)
         /\ Members(queue') \cap DOMAIN disk.parts \subseteq Members(disk.queue)
         /\ \A q \in Known : q \in DOMAIN parts' /\ parts'[q] = parts[q]
         /\ queue # << >> => UNCHANGED parts
<1>1. /\ Ids(parts, used) /\ Queued(parts, queue) /\ Shipped(parts, queue, used, completed) /\ Lag
      /\ Ids(disk.parts, disk.used)
  BY DEF Consistent, Books
<1>2. p \in Nat \ {NoPart}
  BY LegacyAssumption DEF Parts, NoPart
<1>3. CASE queue # << >> /\ p = Head(queue) /\ queue' = Tail(queue) /\ UNCHANGED <<parts, used>>
  <2>1. /\ Rising(queue') /\ Members(queue) = {p} \cup Members(queue')
        /\ \A y \in Members(queue') : p < y
    BY <1>1, <1>3, MembersOfTail DEF Queued
  <2>2. Queued(parts', queue') /\ Ids(parts', used') /\ p \in DOMAIN parts'
        /\ p <= used' /\ used <= used'
    BY <1>1, <1>2, <1>3, <2>1 DEF Queued, Ids
  <2>3. UNCHANGED completed => Shipped(parts', queue', used', completed')
    BY <1>1, <1>3, <2>1 DEF Shipped
  <2>4. p \notin Members(queue')
    BY <1>2, <2>1
  <2>5. \A x \in Members(completed) : x < p
    BY <1>1, <2>1 DEF Shipped
  <2>6. /\ Ahead(p, disk.parts, disk.queue) /\ p \notin DOMAIN disk.parts \ Members(disk.queue)
        /\ Members(queue') \cap DOMAIN disk.parts \subseteq Members(disk.queue)
    BY <1>1, <2>1 DEF Lag, Ahead
  <2>7. QED
    BY <1>2, <1>3, <2>1, <2>2, <2>3, <2>4, <2>5, <2>6 DEF Known
<1>4. CASE queue = << >> /\ p = used + 1 /\ used' = p /\ Mint(p) /\ UNCHANGED queue
  <2>1. used \in Nat /\ used <= used' /\ p <= used' /\ Members(queue) = {} /\ Rising(queue)
    BY <1>1, <1>2, <1>4, MembersOfNone DEF Ids
  <2>2. parts' = [q \in Known \cup {p} |-> IF q = p THEN Raw ELSE parts[q]]
    BY <1>4 DEF Mint
  <2>3. p \notin Known /\ p \notin DOMAIN disk.parts
    BY <1>1, <1>4, <2>1 DEF Ids, Lag, Known
  <2>4. Raw \in Records
    BY LegacyAssumption DEF Raw, Records
  <2>5. Ids(parts', used')
    BY <1>1, <1>4, <2>1, <2>2, <2>4 DEF Ids, Known
  <2>6. \A q \in Known : q \in DOMAIN parts' /\ parts'[q] = parts[q]
    BY <2>2, <2>3
  <2>7. \A x \in Members(completed) : x < p /\ x <= used'
    BY <1>1, <1>4, <2>1, MembersAreNats DEF Shipped
  <2>8. UNCHANGED completed => Shipped(parts', queue', used', completed')
    BY <1>1, <1>4, <2>1, <2>2, <2>7 DEF Shipped, Known
  <2>9. QED
    BY <1>2, <1>4, <2>1, <2>2, <2>3, <2>5, <2>6, <2>7, <2>8 DEF Queued, Ahead
<1>5. QED
  BY <1>3, <1>4 DEF Enters

\* The first part of a pattern, onto an empty line.
LEMMA FirstEntryKeeps == ASSUME PatternInv, FirstEntry PROVE PatternInv'
<1>1. PICK p \in Parts : /\ Enters(p) /\ occ' = [occ EXCEPT !["O"] = p]
                         /\ real' = [occ |-> occ', staged |-> NoPart, beat |-> "P1"]
  BY DEF FirstEntry
<1>2. /\ At("idle") /\ OnLine = {} /\ beat' = "P1" /\ phase' = "robot" /\ pc' \in {"save", "dead"}
      /\ UNCHANGED <<completed, entering, disk, misled, clearing>>
      /\ pc' = "save" => dirty' = TRUE
      /\ dirty' \in BOOLEAN
  BY DEF FirstEntry, Done, Die, flagVars, diskVars, EntryMarks, PatternInv, Control
<1>3. Consistent
  BY DEF PatternInv
<1>4. occ = Empty /\ occ \in [Tracked -> Nat] /\ used \in Nat
  <2>1. occ \in [Tracked -> 0 .. used] /\ used \in Nat
    BY <1>3 DEF Consistent, Books, Standing, Ids
  <2>2. \A st \in Tracked : occ[st] = NoPart
    BY <1>2 DEF OnLine
  <2>3. QED
    BY <2>1, <2>2 DEF Empty, NoPart
<1>5. /\ occ' \in [Tracked -> Nat] /\ occ'["O"] = p /\ occ'["F1"] = NoPart /\ occ'["F2"] = NoPart
      /\ p \in Nat \ {NoPart}
  BY <1>1, <1>4, EntersKeeps, <1>3 DEF Empty, Tracked, NoPart
<1>6. Books(parts, queue, used, completed, occ)'
  <2>1. Standing(queue', used', occ')
    <3>1. \A y \in Members(queue') : y # NoPart
      BY <1>1, <1>3, EntersKeeps DEF Queued, Ids, NoPart
    <3>2. used' \in Nat /\ p <= used' /\ p \notin Members(queue')
      BY <1>1, <1>3, EntersKeeps DEF Ids
    <3>3. QED
      BY <1>5, <3>1, <3>2 DEF Standing, Tracked, NoPart
  <2>2. QED
    BY <1>1, <1>2, <1>3, <2>1, EntersKeeps DEF Books, Shipped
<1>7. Belt(real)'
  BY <1>1, <1>5 DEF Belt, Beats, NoPart
<1>8. Fits(real, parts, queue, completed)' /\ Fits(real, disk.parts, disk.queue, disk.completed)'
  <2>1. \A x \in Members(completed) : x < p
    BY <1>1, <1>3, EntersKeeps
  <2>2. \A y \in Members(queue') : p < y
    BY <1>1, <1>3, EntersKeeps
  <2>3. Ahead(p, disk.parts, disk.queue)
    BY <1>1, <1>3, EntersKeeps
  <2>4. NoPart \notin DOMAIN parts' /\ NoPart \notin DOMAIN disk.parts
    BY <1>1, <1>3, EntersKeeps DEF Ids, Consistent, Books, NoPart
  <2>5. Members(disk.completed) \subseteq Members(completed)
    BY <1>3 DEF Consistent, Lag
  <2>6. \A st \in Tracked : real'.occ[st] # NoPart => real'.occ[st] = p
    BY <1>1, <1>5 DEF Tracked
  <2>7. real'.occ["F2"] = NoPart
    BY <1>1, <1>5
  <2>8. QED
    BY <1>2, <2>1, <2>2, <2>3, <2>4, <2>5, <2>6, <2>7 DEF Fits, Ahead
<1>9. Consistent'
  <2>1. Lag'
    <3>1. used <= used' /\ disk.used <= used /\ used \in Nat /\ disk.used \in Nat /\ used' \in Nat
      BY <1>1, <1>3, EntersKeeps DEF Consistent, Lag, Books, Ids
    <3>2. Members(queue') \cap DOMAIN disk.parts \subseteq Members(disk.queue)
      BY <1>1, <1>3, EntersKeeps
    <3>3. QED
      BY <1>2, <1>3, <3>1, <3>2 DEF Consistent, Lag
  <2>2. Follows(beat, parts, queue)'
    BY <1>1, <1>2 DEF Follows
  <2>3. Follows(disk.beat, disk.parts, disk.queue)'
    <3>1. p \notin DOMAIN disk.parts \ Members(disk.queue)
      BY <1>1, <1>3, EntersKeeps
    <3>2. NoPart \notin DOMAIN disk.parts
      BY <1>3 DEF Consistent, Books, Ids, NoPart
    <3>3. \A st \in Tracked : real'.occ[st] \in {p, NoPart}
      BY <1>1, <1>5 DEF Tracked
    <3>4. QED
      BY <1>2, <3>1, <3>2, <3>3 DEF Follows
  <2>4. QED
    BY <1>2, <1>3, <1>6, <1>7, <1>8, <2>1, <2>2, <2>3 DEF Consistent, Books, Shipped
<1>10. CoatsSaved'
  BY <1>2 DEF CoatsSaved, Running, Saved
<1>11. Control'
  BY <1>2 DEF PatternInv, Control, InStep, At, Beats
<1>12. Believed'
  <2>1. p \in Known'
    BY <1>1, <1>3, EntersKeeps DEF Known
  <2>2. OnLine' \subseteq {p}
    BY <1>5 DEF OnLine, Tracked
  <2>3. QED
    BY <1>1, <1>2, <2>1, <2>2 DEF Believed
<1>13. Pending' /\ Worked' /\ Gated'
  BY <1>1, <1>2 DEF Pending, Worked, Gated
<1>14. QED
  BY <1>9, <1>10, <1>11, <1>12, <1>13 DEF PatternInv

\* The next one, to the staging eye.
LEMMA StagedKeeps == ASSUME PatternInv, Staged PROVE PatternInv'
<1>1. PICK p \in Parts : Enters(p) /\ entering' = p
  BY DEF Staged
<1>2. /\ At("stage") /\ phase' = "transition" /\ pc' = "save"
      /\ UNCHANGED <<occ, completed, beat, disk, misled, clearing>>
      /\ real' = [real EXCEPT !.staged = p]
      /\ dirty' = (dirty \/ queue = << >>)
  BY <1>1 DEF Staged, Done, flagVars, diskVars, EntryMarks
<1>3. Consistent /\ Live
  BY <1>2 DEF PatternInv, At, Live, Running
<1>4. /\ real.occ = occ /\ used \in Nat
      /\ real.beat = beat \/ (misled /\ real.beat = NextBeat(beat))
      /\ \A st \in Tracked : /\ occ[st] \in 0 .. used
                             /\ occ[st] # NoPart => occ[st] \in Known
                             /\ occ[st] \notin Members(queue)
                             /\ occ[st] # NoPart => Ahead(occ[st], parts, queue)
  BY <1>2, <1>3 DEF PatternInv, Believed, At, OnLine, Consistent, Books, Ids, Standing, Fits
<1>5. ASSUME NEW st \in Tracked PROVE occ[st] < p
  <2>2. CASE occ[st] = NoPart
    BY <1>1, <1>3, <2>2, EntersKeeps DEF NoPart
  <2>3. CASE occ[st] # NoPart
    <3>1. \A y \in Members(queue) : occ[st] < y
      BY <1>4, <2>3 DEF Ahead, Known
    <3>2. QED
      BY <1>1, <1>3, <1>4, <3>1, EntersKeeps
  <2>4. QED
    BY <2>2, <2>3
<1>6. Books(parts, queue, used, completed, occ)'
  <2>1. Standing(queue', used', occ')
    <3>1. /\ used' \in Nat /\ used <= used' /\ Members(queue') \subseteq Members(queue)
      BY <1>1, <1>3, EntersKeeps DEF Ids
    <3>2. QED
      BY <1>2, <1>3, <1>4, <3>1 DEF Standing, Consistent, Books
  <2>2. QED
    BY <1>1, <1>2, <1>3, <2>1, EntersKeeps DEF Books, Shipped
<1>7. /\ real'.occ = occ /\ real'.beat = real.beat /\ real'.staged = p /\ Belt(real')
      /\ p \in Nat \ {NoPart}
  BY <1>1, <1>2, <1>3, <1>4, EntersKeeps DEF Consistent, Belt
<1>8. Fits(real, parts, queue, completed)' /\ Fits(real, disk.parts, disk.queue, disk.completed)'
  <2>1. /\ \A q \in Known : q \in DOMAIN parts' /\ parts'[q] = parts[q]
        /\ Members(queue') \subseteq Members(queue) /\ Ids(parts', used')
    BY <1>1, <1>3, EntersKeeps
  <2>2. \A st \in Tracked : occ[st] # NoPart => Ahead(occ[st], parts', queue')
    BY <1>4, <2>1 DEF Ahead, Known
  <2>3. NoPart \notin DOMAIN parts'
    BY <2>1 DEF Ids, NoPart
  <2>4. occ["F2"] \in DOMAIN parts' /\ real.beat \in {"P1", "P4"} => parts'[occ["F2"]].coats = 2
    BY <1>3, <1>4, <2>1, <2>3 DEF Consistent, Fits, Tracked, Known
  <2>5. QED
    BY <1>2, <1>3, <1>4, <1>7, <2>2, <2>4 DEF Consistent, Fits
<1>9. Consistent'
  <2>1. Lag'
    <3>1. used <= used' /\ disk.used <= used /\ used \in Nat /\ disk.used \in Nat /\ used' \in Nat
      BY <1>1, <1>3, EntersKeeps DEF Consistent, Lag, Books, Ids
    <3>2. Members(queue') \cap DOMAIN disk.parts \subseteq Members(disk.queue)
      BY <1>1, <1>3, EntersKeeps
    <3>3. QED
      BY <1>2, <1>3, <3>1, <3>2 DEF Consistent, Lag
  <2>2. Follows(beat, parts, queue)'
    BY <1>2, <1>4, <1>7 DEF Follows
  <2>3. Follows(disk.beat, disk.parts, disk.queue)'
    BY <1>2, <1>3, <1>4, <1>7 DEF Consistent, Follows
  <2>4. QED
    BY <1>2, <1>3, <1>6, <1>7, <1>8, <2>1, <2>2, <2>3 DEF Consistent, Books, Shipped
<1>10. CoatsSaved'
  <2>1. CASE queue = << >>
    BY <1>2, <2>1 DEF CoatsSaved, Saved
  <2>2. CASE queue # << >>
    <3>1. UNCHANGED parts
      BY <1>1, <1>3, <2>2, EntersKeeps
    <3>2. Running /\ (Saved' => ~dirty)
      BY <1>2, <2>2 DEF Running, At, Saved
    <3>3. QED
      BY <1>2, <3>1, <3>2 DEF PatternInv, CoatsSaved, Saved, Known
  <2>3. QED
    BY <2>1, <2>2
<1>11. Control'
  BY <1>1, <1>2, <1>7 DEF PatternInv, Control, InStep, At
<1>12. \A q \in Known : q \in Known' /\ parts'[q] = parts[q]
  BY <1>1, <1>3, EntersKeeps DEF Known
<1>13. Believed'
  BY <1>2, <1>4, <1>7, <1>12 DEF Believed, OnLine
<1>14. Pending'
  <2>1. Enterer(p)'
    BY <1>1, <1>2, <1>3, <1>5, EntersKeeps DEF Enterer, Known
  <2>2. QED
    BY <1>1, <1>2, <1>7, <2>1 DEF Pending
<1>15. Worked' /\ Gated'
  <2>1. Worked /\ Gated /\ phase = "stage"
    BY <1>2 DEF PatternInv, At
  <2>2. QED
    BY <1>2, <1>3, <1>4, <1>12, <2>1 DEF Worked, Gated, NeedsFlash, Tracked
<1>16. QED
  BY <1>9, <1>10, <1>11, <1>13, <1>14, <1>15 DEF PatternInv

-----------------------------------------------------------------------------
(***************************************************************************)
(* The coat, the move, and the two that fail half-way.                      *)
(***************************************************************************)
LEMMA RetractedKeeps == ASSUME PatternInv, Retracted PROVE PatternInv'
<1>1. /\ pc = "safe" /\ UNCHANGED <<queue, used, occ, entering, completed, beat, disk, misled, clearing,
                              real>>
      /\ \/ parts' = Coated /\ pc' = "save" /\ phase' = "flash" /\ dirty' = TRUE
         \/ pc' = "dead" /\ UNCHANGED <<parts, phase, dirty>>
  BY DEF Retracted, Done, Die, flagVars, diskVars
<1>2. CASE pc' = "dead" /\ UNCHANGED <<parts, phase, dirty>>
  <2>1. Control' /\ StaysInBeat /\ StillSaved
    BY <1>1, <1>2 DEF PatternInv, Control, InStep, StaysInBeat, Live, Running, StillSaved
  <2>2. Kept(parts')
    BY <1>2, SameIsKept DEF PatternInv
  <2>3. QED
    BY <1>1, <2>1, <2>2, Keep
<1>3. CASE parts' = Coated /\ pc' = "save" /\ phase' = "flash" /\ dirty' = TRUE
  <2> DEFINE o == occ["O"]
  <2>1. Consistent /\ Live /\ phase = "robot"
    BY <1>1 DEF PatternInv, Control, Live, Running
  <2>2. /\ real.occ = occ /\ real.staged = NoPart
        /\ real.beat = beat \/ (misled /\ real.beat = NextBeat(beat))
        /\ \A st \in Tracked : occ[st] # NoPart => occ[st] \in Known
    BY <2>1 DEF PatternInv, Believed, Pending, OnLine
  <2>3. parts \in [Known -> Records]
    BY <2>1 DEF Consistent, Books, Ids, Known
  <2>4. \A p \in Known : p \in Nat \ {NoPart}
    BY <2>1 DEF Consistent, Books, Ids, Known, NoPart
  <2>5. WorkCoat(beat) \in 1 .. 2
    BY DEF WorkCoat
  <2>6. /\ parts' \in [Known -> Records]
        /\ \A p \in Known : p # o => parts'[p] = parts[p]
        /\ o \in Known => parts'[o].coats = WorkCoat(beat)
    <3>1. CASE o \notin Known
      <4>1. parts' = parts
        BY <1>3, <2>3, <3>1 DEF Coated
      <4>2. QED
        BY <2>3, <3>1, <4>1
    <3>2. CASE o \in Known
      <4> DEFINE m == [parts[o] EXCEPT !.coats = WorkCoat(beat)]
                 n == [m EXCEPT !.wet = TRUE]
      <4>1. parts[o] \in Records
        BY <2>3, <3>2
      <4>2. m \in Records /\ m.coats = WorkCoat(beat)
        BY <2>5, <4>1 DEF Records
      <4>3. parts' = [parts EXCEPT ![o] = n]
        BY <1>3, <2>3, <3>2 DEF Coated
      <4> HIDE DEF m
      <4>4. n \in Records /\ n.coats = WorkCoat(beat)
        BY <4>2 DEF Records
      <4> HIDE DEF n
      <4>5. QED
        BY <2>3, <3>2, <4>3, <4>4
    <3>3. QED
      BY <3>1, <3>2
  <2>7. Known' = Known
    BY <2>6 DEF Known
  <2>8. o \in Known => \A x \in Members(completed) : x # o
    <3>1. o \in Known => o # NoPart /\ o \in Nat
      BY <2>4
    <3>2. o # NoPart => \A x \in Members(completed) : x < o
      BY <2>1, <2>2 DEF Consistent, Fits, Tracked
    <3>3. QED
      BY <3>1, <3>2
  <2>9. Books(parts, queue, used, completed, occ)'
    <3>1. Ids(parts', used')
      BY <1>1, <2>1, <2>3, <2>6, <2>7 DEF Ids, Known, Consistent, Books
    <3>2. Shipped(parts', queue', used', completed')
      BY <1>1, <2>1, <2>6, <2>7, <2>8 DEF Consistent, Books, Shipped, Known
    <3>3. QED
      BY <1>1, <2>1, <2>7, <3>1, <3>2 DEF Consistent, Books, Queued, Standing, Known, Shipped
  <2>10. Fits(real, parts, queue, completed)'
    <3>1. occ["F2"] \in Known /\ real.beat \in {"P1", "P4"} /\ o \in Known => occ["F2"] # o
      BY <2>1, <2>2, <2>4 DEF Consistent, Belt, Tracked
    <3>2. occ["F2"] \in Known /\ real.beat \in {"P1", "P4"} => parts'[occ["F2"]] = parts[occ["F2"]]
      BY <2>2, <2>6, <3>1 DEF Tracked
    <3>3. QED
      BY <1>1, <2>1, <2>2, <2>7, <3>2 DEF Consistent, Fits, Ahead, Known
  <2>11. Consistent'
    <3>1. Follows(beat, parts, queue)' /\ Follows(disk.beat, disk.parts, disk.queue)'
      BY <1>1, <2>1, <2>7 DEF Consistent, Follows, Known
    <3>2. QED
      BY <1>1, <2>1, <2>9, <2>10, <3>1 DEF Consistent, Lag, Books, Shipped
  <2>12. CoatsSaved' /\ Control' /\ Pending' /\ Gated'
    BY <1>1, <1>3, <2>1, <2>2 DEF PatternInv, CoatsSaved, Saved, Control, InStep, Pending, Gated
  <2>13. Believed'
    BY <1>1, <1>3, <2>1, <2>2, <2>7 DEF Believed, OnLine
  <2>14. Worked'
    BY <1>1, <1>3, <2>2, <2>5, <2>6 DEF Worked, WorkCoat, Tracked
  <2>15. QED
    BY <2>11, <2>12, <2>13, <2>14 DEF PatternInv
<1>4. QED
  BY <1>1, <1>2, <1>3, Zenon

\* The move and its books.
LEMMA TransitionKeeps == ASSUME PatternInv, Transition PROVE PatternInv'
<1>1. /\ At("transition") /\ ~NobodyStaged /\ Moves
      /\ UNCHANGED <<parts, queue, used, disk, misled, clearing>>
      /\ \/ pc' = "save" /\ phase' \in {"idle", "robot"} /\ beat' = NextBeat(beat) /\ dirty' = TRUE
            /\ (phase' = "idle" => occ' = Empty)
         \/ pc' = "dead" /\ beat' \in {beat, NextBeat(beat)} /\ UNCHANGED <<phase, dirty>>
  BY DEF Transition, Done, Die, flagVars, diskVars
<1>2. Consistent /\ used \in Nat /\ Known \subseteq 1 .. used /\ Members(queue) \subseteq Known
  BY DEF PatternInv, Consistent, Books, Ids, Queued, Known
<1>3. occ' = Advanced.occ /\ real' = Advanced
  <2>1. EntryBeat => real.staged = entering
    BY <1>1, Before DEF NobodyStaged
  <2>2. Picture(entering) = Picture(real.staged)
    BY <2>1 DEF Picture
  <2>3. QED
    BY <1>1, <2>2 DEF Moves, Advanced
<1>4. \A st \in Tracked : /\ occ'[st] \in {NoPart} \cup Known
                          /\ occ'[st] \notin Members(queue)
  <2>1. \A x \in Members(queue) : x # NoPart
    BY <1>2 DEF NoPart
  <2>2. \A s \in Tracked : occ[s] \notin Members(queue)
    BY <1>2 DEF Consistent, Books, Standing
  <2>3. Enterer(entering) => entering \in Known /\ entering \notin Members(queue)
    <3>1. entering \in Known => entering \in Nat
      BY <1>2
    <3>2. QED
      BY <3>1 DEF Enterer
  <2>4. QED
    BY <1>1, <1>3, <2>1, <2>2, <2>3, NobodyNew, Before
<1>5. completed' = IF Ships THEN Append(completed, occ["F2"]) ELSE completed
  BY <1>1 DEF Moves
<1>6. /\ Shipped(parts', queue', used', completed')
      /\ Members(completed) \subseteq Members(completed')
      /\ \A st \in Tracked : occ'[st] # NoPart => \A x \in Members(completed') : x < occ'[st]
  <2>1. \A st \in Tracked : occ'[st] # NoPart => \A x \in Members(completed) : x < occ'[st]
    BY <1>1, <1>3, AdvancedFits DEF Fits
  <2>2. CASE Ships
    BY <1>1, <1>3, <1>5, <2>1, <2>2, ShipsInOrder
  <2>3. CASE ~Ships
    BY <1>1, <1>2, <1>5, <2>1, <2>3 DEF Consistent, Books
  <2>4. QED
    BY <2>2, <2>3
<1>7. Consistent'
  <2>1. Books(parts, queue, used, completed, occ)'
    <3>1. occ' \in [Tracked -> 0 .. used]
      <4>1. occ' \in [Tracked -> Nat]
        BY <1>1, <1>3, Moved
      <4>2. \A x \in {NoPart} \cup Known : x \in 0 .. used
        BY <1>2 DEF Consistent, Books, Ids, Known, NoPart
      <4>3. \A st \in Tracked : occ'[st] \in 0 .. used
        BY <1>4, <4>2
      <4>4. QED
        BY <4>1, <4>3
    <3>2. QED
      BY <1>1, <1>2, <1>4, <1>6, <3>1 DEF Consistent, Books, Standing, Shipped
  <2>2. Fits(real, parts, queue, completed)'
    BY <1>1, <1>3, <1>6, AdvancedFits DEF Fits
  <2>3. Belt(real)' /\ Fits(real, disk.parts, disk.queue, disk.completed)'
    BY <1>1, <1>3, AdvancedFits
  <2>4. Lag'
    BY <1>1, <1>2, <1>6 DEF Consistent, Lag
  <2>5. Follows(beat, parts, queue)'
    <3>1. real'.beat = NextBeat(beat) /\ beat' \in {beat, NextBeat(beat)}
      BY <1>1, <1>3, AdvancedFits
    <3>2. QED
      BY <3>1 DEF Follows
  <2>6. Follows(disk.beat, disk.parts, disk.queue)'
    <3>1. real'.beat = NextBeat(disk.beat)
      BY <1>1, <1>3, AdvancedFits
    <3>2. QED
      BY <1>1, <3>1 DEF Follows
  <2>7. QED
    BY <1>1, <1>2, <2>1, <2>2, <2>3, <2>4, <2>5, <2>6 DEF Consistent, Books, Shipped
<1>8. real'.staged = NoPart /\ real'.beat = NextBeat(beat) /\ NextBeat(beat) \in Beats
  BY <1>3 DEF Advanced, NextBeat, Beats
<1>9. CASE pc' = "dead" /\ beat' \in {beat, NextBeat(beat)} /\ UNCHANGED <<phase, dirty>>
  <2>1. ~Running' /\ ~Live'
    BY <1>9 DEF Running, Live
  <2>2. Control'
    BY <1>1, <1>8, <1>9 DEF PatternInv, Control, InStep, At, Moves, NoPart
  <2>3. QED
    BY <1>7, <2>1, <2>2 DEF PatternInv, CoatsSaved, Believed, Pending, Worked, Gated
<1>10. CASE pc' = "save" /\ phase' \in {"idle", "robot"} /\ beat' = NextBeat(beat) /\ dirty' = TRUE
            /\ (phase' = "idle" => occ' = Empty)
  <2>1. Control'
    BY <1>1, <1>8, <1>10 DEF PatternInv, Control, InStep, At, Moves, NoPart
  <2>2. OnLine' \subseteq Known'
    BY <1>1, <1>4 DEF OnLine, Known
  <2>3. Believed'
    BY <1>3, <1>8, <1>10, <2>2 DEF Believed
  <2>4. CoatsSaved' /\ Pending' /\ Worked' /\ Gated'
    BY <1>8, <1>10 DEF CoatsSaved, Saved, Pending, Worked, Gated
  <2>5. QED
    BY <1>7, <2>1, <2>3, <2>4 DEF PatternInv
<1>11. QED
  BY <1>1, <1>9, <1>10, Zenon

-----------------------------------------------------------------------------
(***************************************************************************)
(* Steps after which nobody believes anything: faults in mid-move, the end  *)
(* of the process, and what is written then.                                *)
(***************************************************************************)
LEMMA SnapshotFits ==
  ASSUME PatternInv, UNCHANGED <<parts, queue, used, occ, completed, misled>>,
         disk' = Snapshot
  PROVE  /\ Books(disk.parts, disk.queue, disk.used, disk.completed, disk.occ)' /\ Lag'
         /\ disk'.parts = parts /\ disk'.queue = queue /\ disk'.completed = completed
         /\ disk'.beat = beat
<1>1. /\ DOMAIN disk' = {"ok", "parts", "queue", "used", "occ", "completed", "beat"}
      /\ disk'.parts = parts /\ disk'.queue = queue /\ disk'.completed = completed
      /\ disk'.used = used /\ disk'.occ = occ /\ disk'.beat = beat
  BY DEF Snapshot
<1>2. used \in Nat /\ beat \in Beats /\ Books(parts, queue, used, completed, occ)
  BY DEF PatternInv, Consistent, Books, Ids, Control
<1>3. Books(disk.parts, disk.queue, disk.used, disk.completed, disk.occ)'
  BY <1>1, <1>2 DEF Books, Shipped
<1>4. Lag'
  BY <1>1, <1>2 DEF Lag
<1>5. QED
  BY <1>1, <1>3, <1>4

\* Wherever the end of the process catches a move, the belt shows a legal picture.
LEMMA CutFits ==
  ASSUME PatternInv, NEW r \in Cut
  PROVE  /\ Belt(r) /\ Fits(r, parts, queue, completed)
         /\ Fits(r, disk.parts, disk.queue, disk.completed)
         /\ r = real \/ (r.beat = NextBeat(beat) /\ disk.beat = beat)
BY AdvancedFits DEF Cut, PatternInv, Consistent

\* A step after which the machine is not live keeps the invariant if the belt fits.
LEMMA Ends ==
  ASSUME PatternInv, UNCHANGED <<parts, queue, used, occ, completed, beat, misled>>,
         Control', ~Live', Running' => ~Saved',
         Belt(real'), Fits(real', parts, queue, completed),
         real' = real \/ (real'.beat = NextBeat(beat) /\ disk.beat = beat),
         \/ disk' = Snapshot
         \/ /\ \/ disk' = disk \/ disk' = [disk EXCEPT !.ok = FALSE]
            /\ Fits(real', disk.parts, disk.queue, disk.completed)
  PROVE  PatternInv'
<1>1. Consistent
  BY DEF PatternInv
<1>2. /\ Books(parts, queue, used, completed, occ)' /\ Fits(real, parts, queue, completed)'
      /\ Follows(beat, parts, queue)'
  <2>1. Follows(beat, parts, queue)'
    BY <1>1 DEF Consistent, Follows
  <2>2. QED
    BY <1>1, <2>1 DEF Consistent, Books, Shipped
<1>3. /\ Books(disk.parts, disk.queue, disk.used, disk.completed, disk.occ)' /\ Lag'
      /\ Fits(real, disk.parts, disk.queue, disk.completed)'
      /\ Follows(disk.beat, disk.parts, disk.queue)'
  <2>1. CASE disk' = Snapshot
    <3>1. /\ disk'.parts = parts' /\ disk'.queue = queue' /\ disk'.completed = completed'
          /\ disk'.beat = beat'
      BY <2>1, SnapshotFits
    <3>2. Follows(disk.beat, disk.parts, disk.queue)'
      BY <1>2, <3>1 DEF Follows
    <3>3. QED
      BY <1>2, <2>1, <3>2, SnapshotFits
  <2>2. CASE disk' = disk /\ Fits(real', disk.parts, disk.queue, disk.completed)
    <3>1. Follows(disk.beat, disk.parts, disk.queue)'
      BY <1>1, <2>2 DEF Consistent, Follows
    <3>2. QED
      BY <1>1, <2>2, <3>1 DEF Consistent, Lag, Books, Shipped
  <2>3. CASE disk' = [disk EXCEPT !.ok = FALSE]
             /\ Fits(real', disk.parts, disk.queue, disk.completed)
    <3>1. DOMAIN disk = {"ok", "parts", "queue", "used", "occ", "completed", "beat"}
      BY <1>1 DEF Consistent, Lag
    <3>2. DOMAIN disk' = DOMAIN disk
          /\ disk'.parts = disk.parts /\ disk'.queue = disk.queue /\ disk'.used = disk.used
          /\ disk'.completed = disk.completed /\ disk'.occ = disk.occ /\ disk'.beat = disk.beat
      BY <2>3, <3>1
    <3>3. Follows(disk.beat, disk.parts, disk.queue)'
      BY <1>1, <3>2 DEF Consistent, Follows
    <3>4. QED
      BY <1>1, <2>3, <3>2, <3>3 DEF Consistent, Lag, Books, Shipped
  <2>4. QED
    BY <2>1, <2>2, <2>3
<1>4. Consistent'
  BY <1>2, <1>3 DEF Consistent
<1>5. CoatsSaved' /\ Believed' /\ Pending' /\ Worked' /\ Gated'
  BY DEF CoatsSaved, Believed, Pending, Worked, Gated
<1>6. QED
  BY <1>4, <1>5 DEF PatternInv

\* A fault in mid-move, an orderly end and a crash are such steps.
LEMMA EndsKeep ==
  ASSUME PatternInv, TransitionFails \/ CloseEnds \/ Crash PROVE PatternInv'
<1>1. CASE TransitionFails
  <2>1. /\ At("transition") /\ real' \in {real, Advanced}
        /\ UNCHANGED <<parts, queue, used, occ, completed, entering, beat, clearing, disk, misled>>
        /\ pc' = "save" /\ phase' = "faulted" /\ dirty' = TRUE
    BY <1>1 DEF TransitionFails, GiveUp, Fault, Done, bookVars, flagVars, diskVars
  <2>2. /\ Belt(real') /\ Fits(real', parts, queue, completed)
        /\ Fits(real', disk.parts, disk.queue, disk.completed)
        /\ real' = real \/ (real'.beat = NextBeat(beat) /\ disk.beat = beat)
    BY <2>1, AdvancedFits DEF PatternInv, Consistent
  <2>3. Control' /\ ~Live' /\ ~Saved'
    BY <2>1 DEF PatternInv, Control, InStep, At, Live, Saved
  <2>4. QED
    BY <2>1, <2>2, <2>3, Ends
<1>2. CASE CloseEnds
  <2>1. /\ real' \in Cut /\ pc' = "closed" /\ disk' = Snapshot
        /\ UNCHANGED <<parts, queue, used, occ, completed, entering, beat, clearing, phase, dirty,
                       misled>>
    BY <1>2 DEF CloseEnds, bookVars, flagVars, seqVars
  <2>2. Control' /\ ~Live' /\ ~Running'
    BY <2>1 DEF PatternInv, Control, InStep, Live, Running
  <2>3. QED
    BY <2>1, <2>2, CutFits, Ends
<1>3. CASE Crash
  <2>1. /\ real' \in Cut /\ pc' = "down"
        /\ disk' = disk \/ disk' = [disk EXCEPT !.ok = FALSE]
        /\ UNCHANGED <<parts, queue, used, occ, completed, entering, beat, clearing, phase, dirty,
                       misled>>
    BY <1>3 DEF Crash, bookVars, flagVars, seqVars
  <2>2. Control' /\ ~Live' /\ ~Running'
    BY <2>1 DEF PatternInv, Control, InStep, Live, Running
  <2>3. QED
    BY <2>1, <2>2, CutFits, Ends
<1>4. QED
  BY <1>1, <1>2, <1>3

-----------------------------------------------------------------------------
(***************************************************************************)
(* The state file, the operator, and the next process.                      *)
(***************************************************************************)
LEMMA LoopSavesKeeps == ASSUME PatternInv, LoopSaves PROVE PatternInv'
<1>1. /\ pc = "save" /\ pc' = "top" /\ dirty' = FALSE
      /\ UNCHANGED <<parts, queue, used, occ, entering, completed, beat, phase, clearing, real,
                     misled>>
      /\ disk' = Snapshot \/ (disk' = disk /\ ~dirty)
  BY DEF LoopSaves, bookVars, seqVars, flagVars
<1>2. Control'
  BY <1>1 DEF PatternInv, Control, InStep
<1>3. CASE disk' = disk /\ ~dirty
  <2>1. StaysInBeat
    BY <1>1 DEF StaysInBeat, Live, Running
  <2>2. StillSaved
    BY <1>1, <1>3 DEF StillSaved, Running, Saved
  <2>3. Kept(parts')
    BY <1>1, SameIsKept DEF PatternInv
  <2>4. QED
    BY <1>1, <1>2, <1>3, <2>1, <2>2, <2>3, Keep
<1>4. CASE disk' = Snapshot
  <2>1. Live' = Live
    BY <1>1 DEF Live, Running
  <2>2. /\ Books(disk.parts, disk.queue, disk.used, disk.completed, disk.occ)' /\ Lag'
        /\ disk'.parts = parts /\ disk'.queue = queue /\ disk'.completed = completed
        /\ disk'.beat = beat
    BY <1>1, <1>4, SnapshotFits
  <2>3. Consistent'
    <3>1. Follows(beat, parts, queue)' /\ Follows(disk.beat, disk.parts, disk.queue)'
      BY <1>1, <2>2 DEF PatternInv, Consistent, Follows
    <3>2. QED
      BY <1>1, <2>2, <3>1 DEF PatternInv, Consistent, Books, Shipped
  <2>4. CoatsSaved'
    BY <1>1, <2>2 DEF CoatsSaved
  <2>5. Believed'
    BY <1>1, <2>1 DEF PatternInv, Believed, OnLine, Known
  <2>6. Pending'
    BY <1>1, <2>1, <2>2 DEF PatternInv, Pending, Enterer, Ahead, Known
  <2>7. Worked' /\ Gated'
    BY <1>1, <2>1 DEF PatternInv, Worked, Gated, NeedsFlash
  <2>8. QED
    BY <1>2, <2>3, <2>4, <2>5, <2>6, <2>7 DEF PatternInv
<1>5. QED
  BY <1>1, <1>3, <1>4

\* A declared part comes last in the queue.
LEMMA DeclareKeeps == ASSUME PatternInv, Declare PROVE PatternInv'
<1> DEFINE n == used + 1
<1>1. /\ used' = n /\ parts' = [q \in Known \cup {n} |-> IF q = n THEN Raw ELSE parts[q]]
      /\ queue' = Append(queue, n) /\ dirty' = TRUE
      /\ UNCHANGED <<occ, entering, completed, beat, phase, clearing, disk, real, misled>>
      /\ UNCHANGED pc \/ (pc = "save" /\ pc' = "dead")
  BY DEF Declare, Mint, Resized, Die, seqVars, flagVars, diskVars
<1>2. /\ Consistent /\ Ids(parts, used) /\ Queued(parts, queue)
      /\ Shipped(parts, queue, used, completed) /\ Lag /\ Ids(disk.parts, disk.used)
      /\ Standing(queue, used, occ)
  BY DEF PatternInv, Consistent, Books
<1>3. /\ n \in Nat \ {NoPart} /\ used \in Nat /\ disk.used \in Nat /\ disk.used <= used
      /\ \A q \in Known : q \in Nat /\ q < n
      /\ n \notin DOMAIN disk.parts
  BY <1>2 DEF Ids, Lag, Known, NoPart
<1>4. /\ Known' = Known \cup {n}
      /\ \A q \in Known : parts'[q] = parts[q]
  BY <1>1, <1>3 DEF Known
<1>5. Rising(queue') /\ Members(queue') = Members(queue) \cup {n}
  BY <1>1, <1>2, <1>3, MembersOfAppend DEF Queued, Known
<1>6. Books(parts, queue, used, completed, occ)'
  <2>1. Ids(parts', used')
    <3>1. Raw \in Records
      BY LegacyAssumption DEF Raw, Records
    <3>2. Known' \subseteq 1 .. n
      BY <1>2, <1>3, <1>4 DEF Ids, Known
    <3>3. parts' \in [Known' -> Records]
      BY <1>1, <1>2, <1>4, <3>1 DEF Ids, Known
    <3>4. QED
      BY <1>1, <1>3, <3>2, <3>3 DEF Ids, Known
  <2>2. Queued(parts', queue')
    BY <1>2, <1>4, <1>5 DEF Queued, Known
  <2>3. Shipped(parts', queue', used', completed')
    <3>1. \A x \in Members(completed) : x \in Nat /\ x < n /\ x <= n
      BY <1>2, <1>3, MembersAreNats DEF Shipped
    <3>2. QED
      BY <1>1, <1>2, <1>3, <1>4, <1>5, <3>1 DEF Shipped, Known
  <2>4. Standing(queue', used', occ')
    <3>1. ASSUME NEW st \in Tracked PROVE occ[st] \in 0 .. n /\ occ[st] # n
      BY <1>2, <1>3 DEF Standing
    <3>2. QED
      BY <1>1, <1>2, <1>5, <3>1 DEF Standing
  <2>5. QED
    BY <1>1, <2>1, <2>2, <2>3, <2>4 DEF Books, Shipped
<1>7. Fits(real, parts, queue, completed)'
  <2>1. ASSUME NEW x, Ahead(x, parts, queue) PROVE Ahead(x, parts', queue')
    BY <1>3, <1>4, <1>5, <2>1 DEF Ahead, Known
  <2>2. QED
    BY <1>1, <1>2, <1>4, <1>5, <2>1 DEF Consistent, Fits, Known
<1>8. Consistent'
  <2>1. Lag'
    <3>1. disk.used <= used'
      BY <1>1, <1>3
    <3>2. QED
      BY <1>1, <1>2, <1>3, <1>5, <3>1 DEF Lag
  <2>2. Follows(beat, parts, queue)'
    <3>1. Known' \ Members(queue') \subseteq Known \ Members(queue)
      BY <1>4, <1>5
    <3>2. QED
      BY <1>1, <1>2, <3>1 DEF Consistent, Follows, Known
  <2>3. Follows(disk.beat, disk.parts, disk.queue)'
    BY <1>1, <1>2 DEF Consistent, Follows
  <2>4. QED
    BY <1>1, <1>2, <1>6, <1>7, <2>1, <2>2, <2>3 DEF Consistent, Books, Shipped
<1>9. CoatsSaved'
  <2>1. Running' /\ Saved' => Running /\ Saved
    BY <1>1 DEF Running, Saved
  <2>2. QED
    BY <1>1, <1>3, <1>4, <2>1 DEF PatternInv, CoatsSaved, Known
<1>10. Control'
  BY <1>1 DEF PatternInv, Control, InStep
<1>11. Live' => Live
  BY <1>1 DEF Live, Running
<1>12. Believed'
  BY <1>1, <1>4, <1>11 DEF PatternInv, Believed, OnLine
<1>13. Pending'
  <2>1. ASSUME Enterer(entering) PROVE Enterer(entering)'
    <3>1. entering < n
      BY <1>3, <2>1 DEF Enterer
    <3>2. QED
      BY <1>1, <1>4, <1>5, <2>1, <3>1 DEF Enterer, Ahead
  <2>2. QED
    BY <1>1, <1>11, <2>1 DEF PatternInv, Pending
<1>14. Live' /\ phase' # "idle" =>
         \A st \in Tracked : occ[st] # NoPart => parts'[occ[st]] = parts[occ[st]]
  BY <1>1, <1>4, <1>11 DEF PatternInv, Believed, OnLine
<1>15. Worked' /\ Gated'
  BY <1>1, <1>11, <1>14 DEF PatternInv, Worked, Gated, NeedsFlash, Tracked
<1>16. QED
  BY <1>8, <1>9, <1>10, <1>12, <1>13, <1>15 DEF PatternInv

\* The operator confirms the picture that stands there.
LEMMA ConfirmKeeps == ASSUME PatternInv, Confirm PROVE PatternInv'
<1>1. /\ Up /\ phase = "faulted" /\ ~clearing /\ Confirmable
      /\ occ' = real.occ /\ phase' = "robot" /\ dirty' = TRUE
      /\ beat' \in {beat, real.beat} /\ misled' = (misled \/ beat' # real.beat)
      /\ real' = [real EXCEPT !.staged = NoPart]
      /\ UNCHANGED <<parts, queue, used, entering, completed, pc, clearing, disk>>
  BY DEF Confirm, Resumes, flagVars
<1>2. Consistent /\ Belt(real) /\ Books(parts, queue, used, completed, occ)
  BY DEF PatternInv, Consistent
<1>3. /\ real'.occ = real.occ /\ real'.beat = real.beat /\ real'.staged = NoPart /\ Belt(real')
  BY <1>1, <1>2 DEF Belt, NoPart
<1>4. \A st \in Tracked : real.occ[st] \in {NoPart} \cup Known
                         /\ (real.occ[st] # NoPart => real.occ[st] \notin Members(queue))
  BY <1>1 DEF Confirmable, Members
<1>5. real.beat \in {beat', NextBeat(beat')}
  <2>1. \E st \in Tracked : real.occ[st] # NoPart
    <3>1. real.occ # Empty /\ real.occ \in [Tracked -> Nat]
      BY <1>1, <1>2 DEF Confirmable, Belt
    <3>2. QED
      BY <3>1 DEF Empty
  <2>2. real.beat \in {beat, NextBeat(beat)}
    BY <1>2, <1>4, <2>1 DEF PatternInv, Consistent, Follows, Known
  <2>3. QED
    BY <1>1, <2>2
<1>6. Books(parts, queue, used, completed, occ)'
  <2>1. \A x \in {NoPart} \cup Known : x \in 0 .. used
    BY <1>2 DEF Books, Ids, Known, NoPart
  <2>2. NoPart \notin Members(queue)
    BY <1>2 DEF Books, Ids, Queued, NoPart
  <2>3. real.occ \in [Tracked -> 0 .. used]
    BY <1>2, <1>4, <2>1 DEF Belt
  <2>4. QED
    BY <1>1, <1>2, <1>4, <2>2, <2>3 DEF Books, Standing, Shipped
<1>7. Consistent'
  <2>1. Follows(beat, parts, queue)' /\ Follows(disk.beat, disk.parts, disk.queue)'
    BY <1>1, <1>2, <1>3, <1>5 DEF PatternInv, Consistent, Follows
  <2>2. QED
    BY <1>1, <1>2, <1>3, <1>6, <2>1 DEF PatternInv, Consistent, Fits, Lag, Books, Shipped
<1>8. CoatsSaved' /\ Pending' /\ Worked' /\ Gated'
  BY <1>1, <1>3 DEF CoatsSaved, Saved, Pending, Worked, Gated
<1>9. Control'
  BY <1>1, <1>2 DEF PatternInv, Control, InStep, Belt
<1>10. Believed'
  BY <1>1, <1>3, <1>4, <1>5 DEF Believed, OnLine, Known
<1>11. QED
  BY <1>7, <1>8, <1>9, <1>10 DEF PatternInv

\* The operator clears the line: the parts, then the occupancy.
LEMMA ClearKeeps == ASSUME PatternInv, ClearParts \/ ClearLine PROVE PatternInv'
<1>1. /\ Consistent /\ Belt(real) /\ Books(parts, queue, used, completed, occ) /\ Lag
      /\ NoPart \notin DOMAIN parts /\ NoPart \notin DOMAIN disk.parts
      /\ NoPart \notin Members(queue) /\ used \in Nat
  BY DEF PatternInv, Consistent, Books, Ids, Queued, NoPart
<1>2. CASE ClearParts
  <2>1. /\ Up /\ phase = "faulted" /\ clearing'
        /\ real' = [real EXCEPT !.occ = Empty, !.staged = NoPart]
        /\ parts' = [p \in Known \ OnLine |-> parts[p]]
        /\ UNCHANGED <<queue, used, occ, entering, completed, beat, phase, dirty, disk, misled>>
        /\ UNCHANGED pc \/ (pc = "save" /\ pc' = "dead")
    BY <1>2 DEF ClearParts, Resized, Die, seqVars, diskVars
  <2>2. /\ real'.occ = Empty /\ real'.beat = real.beat /\ real'.staged = NoPart
        /\ real' \in [occ : [Tracked -> Nat], staged : Nat, beat : Beats]
    BY <1>1, <2>1 DEF Belt, Empty, NoPart
  <2>3. \A st \in Tracked : Empty[st] = NoPart
    BY DEF Empty
  <2>4. Belt(real')
    BY <2>2, <2>3 DEF Belt, Tracked
  <2>5. Known' \subseteq Known /\ \A p \in Known' : parts'[p] = parts[p]
    BY <2>1 DEF Known
  <2>6. Books(parts, queue, used, completed, occ)'
    <3>1. Ids(parts', used')
      <4>1. parts' \in [Known' -> Records]
        BY <1>1, <2>1, <2>5 DEF Books, Ids, Known
      <4>2. QED
        BY <1>1, <2>1, <2>5, <4>1 DEF Books, Ids, Known
    <3>2. Members(queue) \subseteq Known'
      BY <1>1, <2>1 DEF Books, Queued, Standing, OnLine, Known
    <3>3. Shipped(parts', queue', used', completed')
      BY <1>1, <2>1, <2>5 DEF Books, Shipped, Known
    <3>4. QED
      BY <1>1, <2>1, <3>1, <3>2, <3>3 DEF Books, Queued, Standing, Known, Shipped
  <2>7. Fits(real, parts, queue, completed)' /\ Fits(real, disk.parts, disk.queue, disk.completed)'
    BY <1>1, <2>1, <2>2, <2>3, <2>5 DEF Fits, Tracked, Known
  <2>8. Consistent'
    <3>1. Follows(beat, parts, queue)' /\ Follows(disk.beat, disk.parts, disk.queue)'
      BY <1>1, <2>1, <2>2, <2>3, <2>5 DEF Follows, Known
    <3>2. QED
      BY <1>1, <2>1, <2>4, <2>6, <2>7, <3>1 DEF Consistent, Lag, Books, Shipped
  <2>9. CoatsSaved'
    <3>1. Running' /\ Saved' => Running /\ Saved
      BY <2>1 DEF Running, Saved
    <3>2. QED
      BY <2>1, <2>5, <3>1 DEF PatternInv, CoatsSaved
  <2>10. Control' /\ ~Live'
    BY <2>1 DEF PatternInv, Control, InStep, Live
  <2>11. QED
    BY <2>8, <2>9, <2>10 DEF PatternInv, Believed, Pending, Worked, Gated
<1>3. CASE ClearLine
  <2>1. /\ clearing /\ ~clearing' /\ occ' = Empty /\ phase' = "idle" /\ dirty' = TRUE
        /\ UNCHANGED <<parts, queue, used, entering, completed, beat, pc, disk, real, misled>>
    BY <1>3 DEF ClearLine, diskVars
  <2>2. Empty \in [Tracked -> 0 .. used] /\ \A st \in Tracked : Empty[st] = NoPart
    BY <1>1 DEF Empty, NoPart
  <2>3. Consistent'
    <3>1. Follows(beat, parts, queue)' /\ Follows(disk.beat, disk.parts, disk.queue)'
      BY <1>1, <2>1 DEF Consistent, Follows
    <3>2. QED
      BY <1>1, <2>1, <2>2, <3>1 DEF Consistent, Books, Standing, Lag, Shipped
  <2>4. CoatsSaved' /\ Pending' /\ Worked' /\ Gated' /\ Believed'
    BY <2>1 DEF CoatsSaved, Saved, Pending, Worked, Gated, Believed
  <2>5. Control'
    BY <2>1 DEF PatternInv, Control, InStep
  <2>6. QED
    BY <2>3, <2>4, <2>5 DEF PatternInv
<1>4. QED
  BY <1>2, <1>3

\* The next process believes the file.
LEMMA RestartKeeps == ASSUME PatternInv, Restart PROVE PatternInv'
<1>1. /\ parts' = disk.parts /\ queue' = disk.queue /\ used' = disk.used
      /\ occ' = disk.occ /\ completed' = disk.completed /\ entering' = NoPart
      /\ beat' = disk.beat /\ pc' = "top" /\ dirty' = FALSE /\ clearing' = FALSE
      /\ UNCHANGED <<disk, real, misled>>
      /\ \/ occ' = Empty /\ phase' = "idle"
         \/ phase' = "faulted"
  BY DEF Restart
<1>2. Consistent /\ Lag /\ Books(disk.parts, disk.queue, disk.used, disk.completed, disk.occ)
      /\ disk.used \in Nat
  BY DEF PatternInv, Consistent, Books, Ids
<1>3. Lag'
  BY <1>1, <1>2 DEF Lag
<1>4. Consistent'
  <2>1. Follows(beat, parts, queue)' /\ Follows(disk.beat, disk.parts, disk.queue)'
    BY <1>1, <1>2 DEF Consistent, Follows
  <2>2. QED
    BY <1>1, <1>2, <1>3, <2>1 DEF Consistent, Books, Shipped
<1>5. CoatsSaved' /\ Believed' /\ Pending' /\ Worked' /\ Gated'
  BY <1>1 DEF CoatsSaved, Believed, Live, Pending, Worked, Gated
<1>6. Control'
  BY <1>1, <1>2 DEF Control, InStep, Lag, NoPart
<1>7. QED
  BY <1>4, <1>5, <1>6 DEF PatternInv

\* Switches and flags touch no books.
LEMMA OperatorKeeps ==
  ASSUME PatternInv, NEW on \in BOOLEAN, SetRunning(on) \/ Halt \/ CloseBegins
  PROVE  PatternInv'
<1>1. /\ UNCHANGED <<parts, queue, used, occ, completed, entering, real, disk, pc, phase, beat,
                     dirty, clearing, misled>>
  BY DEF SetRunning, Halt, CloseBegins, bookVars, seqVars, diskVars
<1>2. Kept(parts')
  BY <1>1, SameIsKept DEF PatternInv
<1>3. Control' /\ StaysInBeat /\ StillSaved
  BY <1>1 DEF PatternInv, Control, InStep, StaysInBeat, StillSaved, Live, Running, Saved
<1>4. QED
  BY <1>1, <1>2, <1>3, Keep

-----------------------------------------------------------------------------
(***************************************************************************)
(* The invariant holds at first and after every step, and what it gives.    *)
(***************************************************************************)
LEMMA PatternInit == Init => PatternInv
<1> SUFFICES ASSUME Init PROVE PatternInv
  OBVIOUS
<1>1. /\ parts = [p \in {} |-> Raw] /\ queue = << >> /\ used = 0 /\ completed = << >>
      /\ occ = Empty /\ entering = NoPart /\ beat = "P1" /\ phase = "idle" /\ pc = "top"
      /\ dirty = FALSE /\ clearing = FALSE /\ disk = Snapshot
      /\ real = [occ |-> Empty, staged |-> NoPart, beat |-> "P1"]
  BY DEF Init
<1>2. /\ DOMAIN parts = {} /\ parts \in [DOMAIN parts -> Records] /\ DOMAIN parts \subseteq 1 .. used
  BY <1>1
<1>3. /\ Rising(queue) /\ Members(queue) = {} /\ Rising(completed) /\ Members(completed) = {}
  BY <1>1, MembersOfNone
<1>4. occ \in [Tracked -> 0 .. used] /\ \A st \in Tracked : occ[st] = NoPart
  BY <1>1 DEF Empty, NoPart
<1>5. Books(parts, queue, used, completed, occ)
  BY <1>1, <1>2, <1>3, <1>4 DEF Books, Ids, Queued, Shipped, Standing
<1>6. /\ DOMAIN disk = {"ok", "parts", "queue", "used", "occ", "completed", "beat"}
      /\ disk.parts = parts /\ disk.queue = queue /\ disk.used = used /\ disk.occ = occ
      /\ disk.completed = completed /\ disk.beat = beat
  BY <1>1 DEF Snapshot
<1>7. Belt(real)
  BY <1>1 DEF Belt, Empty, NoPart, Beats, Tracked
<1>8. Fits(real, parts, queue, completed)
  BY <1>1, <1>2 DEF Fits, Empty
<1>9. Consistent
  <2>1. Follows(beat, parts, queue) /\ Follows(disk.beat, disk.parts, disk.queue)
    BY <1>1, <1>6 DEF Follows
  <2>2. QED
    BY <1>1, <1>3, <1>5, <1>6, <1>7, <1>8, <2>1 DEF Consistent, Lag, Beats
<1>10. CoatsSaved /\ Control /\ Believed /\ Pending /\ Worked /\ Gated
  BY <1>1, <1>2, <1>6 DEF CoatsSaved, Control, InStep, Believed, Pending, Worked, Gated, Beats, NoPart, Known
<1>11. QED
  BY <1>9, <1>10 DEF PatternInv

\* Every step keeps the invariant.
LEMMA PatternStep == PatternInv /\ [Next]_vars => PatternInv'
<1> SUFFICES ASSUME PatternInv, [Next]_vars PROVE PatternInv'
  OBVIOUS
<1>1. CASE UNCHANGED vars
  <2>1. UNCHANGED <<parts, queue, used, occ, completed, entering, real, disk, pc, phase, beat,
                    dirty, clearing, misled>>
    BY <1>1 DEF vars, bookVars, seqVars, flagVars, diskVars
  <2>2. Kept(parts')
    BY <2>1, SameIsKept DEF PatternInv
  <2>3. Control' /\ StaysInBeat /\ StillSaved
    BY <2>1 DEF PatternInv, Control, InStep, StaysInBeat, StillSaved, Live, Running, Saved
  <2>4. QED
    BY <2>1, <2>2, <2>3, Keep
<1>2. CASE Loop
  <2>1. \A dt \in 0 .. 1, offload \in BOOLEAN :
          \/ LoopExit \/ LoopHalt \/ StepBegins(dt) \/ LoopWaits(dt) \/ IdleWaits \/ IntakeWaits
          \/ IntakeFails \/ RobotSkips \/ RobotStarts \/ Sanded(dt) \/ Sprayed(dt) \/ RobotFails
          \/ CleanStarts \/ Cleaned \/ Gate(offload) \/ EntrySkipped \/ StageFails
          => PatternInv'
    BY LoopStepsKeep
  <2>2. LoopSaves \/ FirstEntry \/ Retracted \/ Staged \/ Transition \/ TransitionFails
          => PatternInv'
    BY LoopSavesKeeps, FirstEntryKeeps, RetractedKeeps, StagedKeeps, TransitionKeeps, EndsKeep
  <2>3. 0 \in 0 .. 1 /\ TRUE \in BOOLEAN
    OBVIOUS
  <2>4. QED
    BY <1>2, <2>1, <2>2, <2>3, Zenon DEF Loop
<1>3. CASE Operator
  BY <1>3, DeclareKeeps, ConfirmKeeps, ClearKeeps, OperatorKeeps DEF Operator
<1>4. CASE Process
  BY <1>1, <1>4, OperatorKeeps, EndsKeep, RestartKeeps DEF Process, RestartRaises
<1>5. QED
  BY <1>1, <1>2, <1>3, <1>4 DEF Next

(***************************************************************************)
(* The books and the state file agree with the belt, for any intake, fault, *)
(* crash and recovery: the inductive invariant of the legacy route.         *)
(***************************************************************************)
THEOREM BooksHold == Spec => []PatternInv
BY PatternInit, PatternStep, PTL DEF Spec

(***************************************************************************)
(* A part is booked as completed only with both coats on it, as long as     *)
(* every confirmed picture went with its beat.                              *)
(***************************************************************************)
THEOREM OnlyFinished == Spec => []OnlyFinishedComplete
<1>1. PatternInv => OnlyFinishedComplete
  BY DEF PatternInv, Consistent, Books, Shipped, Members, OnlyFinishedComplete, Known
<1>2. QED
  BY <1>1, BooksHold, PTL

(***************************************************************************)
(* Parts are completed in the order they entered.                           *)
(***************************************************************************)
THEOREM CompletedOrder == Spec => []CompletedInOrder
<1>1. PatternInv => CompletedInOrder
  BY DEF PatternInv, Consistent, Books, Shipped, Rising, CompletedInOrder
<1>2. QED
  BY <1>1, BooksHold, PTL

\* The action of FlashedBeforeReturn.
Returns ==
  \A st \in FanStations :
    At("transition") /\ occ[st] # NoPart /\ occ'["O"] = occ[st] => ~NeedsFlash(occ[st])

\* Only the belt moves a part to O in this phase, and the books knew who.
LEMMA ReturnsFlashed == PatternInv /\ [Next]_vars => [Returns]_vars
<1> SUFFICES ASSUME PatternInv, Next, At("transition"), NEW st \in FanStations,
                    occ[st] # NoPart, occ'["O"] = occ[st]
             PROVE  ~NeedsFlash(occ[st])
  BY DEF Returns
<1>1. st \in Tracked /\ (st = "F1" \/ st = "F2")
  BY DEF FanStations, Tracked
<1>2. /\ real.beat # "P3" => st = "F2" /\ (occ["O"] # NoPart => occ["F2"] < occ["O"])
      /\ real.beat = "P3" => st = "F1" /\ (occ["O"] # NoPart => occ["O"] < occ["F1"])
      /\ occ["F1"] \in Nat /\ occ["F2"] \in Nat /\ occ["O"] \in Nat
  BY <1>1, Before DEF Belt, Tracked
<1>3. occ["O"] # occ[st]
  BY <1>2
<1>4. occ' # occ
  BY <1>3
<1>5. Transition
  <2>1. pc = "step" /\ phase = "transition"
    BY DEF At
  <2>2. ~Operator \/ UNCHANGED occ
    BY <2>1 DEF Operator, Declare, SetRunning, Halt, Confirm, ClearParts, ClearLine, PatternInv,
                Control, bookVars
  <2>3. ~Process \/ UNCHANGED occ
    BY <2>1 DEF Process, CloseBegins, CloseEnds, Crash, Restart, RestartRaises, Up, bookVars, vars
  <2>4. Loop => Transition \/ TransitionFails
    BY <2>1 DEF Loop, LoopExit, LoopHalt, LoopSaves, StepBegins, LoopWaits, Sanded, Sprayed,
                IdleWaits, IntakeWaits, FirstEntry, IntakeFails, RobotSkips, RobotStarts, Retracted,
                RobotFails, CleanStarts, Cleaned, Gate, EntrySkipped, Staged, StageFails, At
  <2>5. TransitionFails => UNCHANGED occ
    BY DEF TransitionFails, bookVars
  <2>6. QED
    BY <1>4, <2>2, <2>3, <2>4, <2>5 DEF Next
<1>6. occ' = Advanced.occ
  <2>1. EntryBeat => real.staged = entering
    BY <1>5, Before DEF Transition, NobodyStaged
  <2>2. Picture(entering) = Picture(real.staged)
    BY <2>1 DEF Picture
  <2>3. QED
    BY <1>5, <2>2 DEF Transition, Moves, Advanced
<1>7. CASE EntryBeat
  <2>1. real.staged # NoPart => occ[st] < real.staged
    BY <1>1, Before DEF Enterer
  <2>2. occ'["O"] = real.staged
    BY <1>6, <1>7, Moved
  <2>3. occ[st] \in Nat
    BY <1>1, <1>2
  <2>4. real.staged = occ[st] /\ ~(occ[st] < occ[st])
    BY <2>2, <2>3
  <2>5. QED
    BY <2>1, <2>4
<1>8. CASE beat = "P2"
  <2>1. occ'["O"] = occ["F2"] \/ occ'["O"] = occ["O"]
    BY <1>6, <1>8, Moved
  <2>2. ~NeedsFlash(occ["F2"])
    BY <1>8, Before DEF Gated, At, Live, Running
  <2>3. QED
    BY <1>3, <2>1, <2>2
<1>9. CASE beat = "P3"
  <2>1. occ'["O"] = occ["F1"]
    BY <1>6, <1>9, Moved
  <2>2. ~NeedsFlash(occ["F1"])
    BY <1>9, Before DEF Gated, At, Live, Running
  <2>3. QED
    BY <2>1, <2>2
<1>10. QED
  BY <1>7, <1>8, <1>9, Before DEF Beats, EntryBeat

(***************************************************************************)
(* A part returns from a fan station to O only with its flash complete: the *)
(* gate ran one step before the belt, and what it saw still stands.         *)
(***************************************************************************)
THEOREM ReturnFlashed == Spec => FlashedBeforeReturn
<1>1. PatternInv /\ [Next]_vars => [Returns]_vars
  BY ReturnsFlashed
<1>2. Spec => [][Returns]_vars
  BY <1>1, BooksHold, PTL DEF Spec
<1>3. QED
  BY <1>2 DEF Returns, FlashedBeforeReturn
-----------------------------------------------------------------------------
(***************************************************************************)
(* Ranges. What the pattern does not bound by itself: the ids handed out,   *)
(* who stands on the belt, the flags and the place in the loop.             *)
(***************************************************************************)
Flags ==
  /\ continuous \in BOOLEAN /\ switched \in BOOLEAN /\ owesClean \in BOOLEAN
  /\ f1On \in BOOLEAN /\ pausing \in BOOLEAN /\ enabled \in BOOLEAN
  /\ haltAsked \in BOOLEAN /\ feedPaused \in BOOLEAN /\ stopping \in BOOLEAN
  /\ clearing \in BOOLEAN /\ restarted \in BOOLEAN /\ misled \in BOOLEAN
  /\ disk.ok \in BOOLEAN

Enterers == Parts \cup {NoPart}

Carried == real \in [occ : Pictures, staged : Enterers, beat : Beats]

RangeInv ==
  /\ Flags
  /\ Carried
  /\ used <= MaxParts /\ entering \in Enterers
  /\ NoPart \notin Members(completed)
  /\ pc \in {"top", "step", "sand", "spray", "safe", "clean", "save", "gone", "dead",
             "closed", "down"}
  /\ troubles \in 0 .. MaxTroubles

\* A sequence is one over any set that holds its elements.
LEMMA SeqOf ==
  ASSUME NEW S, NEW T, NEW s \in Seq(S), \A i \in 1 .. Len(s) : s[i] \in T
  PROVE  s \in Seq(T)
<1>1. Len(s) \in Nat /\ s \in [1 .. Len(s) -> S]
  BY LenProperties
<1>2. s \in [1 .. Len(s) -> T]
  BY <1>1
<1>3. s \in UNION {[1 .. n -> T] : n \in Nat}
  <2>1. [1 .. Len(s) -> T] \in {[1 .. n -> T] : n \in Nat}
    BY <1>1, Zenon
  <2> QED
    BY <1>2, <2>1, Zenon
<1> QED
  BY <1>3, SeqDef, Zenon

\* The books' occupants are among the parts, the ids handed out being so.
LEMMA BooksInRange ==
  ASSUME PatternInv, RangeInv
  PROVE  /\ used \in 0 .. MaxParts /\ Known \subseteq Parts /\ occ \in Pictures
         /\ queue \in Seq(Parts) /\ completed \in Seq(Parts)
         /\ \A st \in Tracked : occ[st] \in Enterers
<1>1. /\ used \in Nat /\ used <= MaxParts /\ MaxParts \in Nat
      /\ Known \subseteq 1 .. used /\ occ \in [Tracked -> 0 .. used]
  BY LegacyAssumption DEF PatternInv, Consistent, Books, Ids, Standing, RangeInv, Known
<1>2. /\ queue \in Seq(Nat) /\ \A i \in 1 .. Len(queue) : queue[i] \in Known
      /\ completed \in Seq(Nat)
      /\ \A i \in 1 .. Len(completed) : completed[i] <= used /\ completed[i] # NoPart
  BY DEF PatternInv, Consistent, Books, Queued, Shipped, Rising, Members, RangeInv, Known
<1>3. Known \subseteq Parts /\ \A st \in Tracked : occ[st] \in Enterers
  BY <1>1 DEF Parts, Enterers, NoPart
<1>4. occ \in Pictures
  BY <1>1, <1>3 DEF Pictures, Enterers
<1>5. \A i \in 1 .. Len(completed) : completed[i] \in Parts
  <2>1. \A i \in 1 .. Len(completed) : completed[i] \in Nat
    BY <1>2
  <2> QED
    BY <1>1, <1>2, <2>1 DEF Parts, NoPart
<1>6. queue \in Seq(Parts)
  BY <1>2, <1>3, SeqOf
<1>7. completed \in Seq(Parts)
  BY <1>2, <1>5, SeqOf
<1> QED
  BY <1>1, <1>3, <1>4, <1>6, <1>7

\* A rising list of parts is no longer than there are parts.
LEMMA RisingIsShort ==
  ASSUME NEW s \in Seq(Parts), \A i, j \in 1 .. Len(s) : i < j => s[i] < s[j]
  PROVE  Len(s) <= MaxParts
<1>1. Len(s) \in Nat /\ MaxParts \in Nat /\ \A i \in 1 .. Len(s) : s[i] \in 1 .. MaxParts
  BY LegacyAssumption DEF Parts
<1>2. SUFFICES ASSUME Len(s) > MaxParts PROVE FALSE
  BY <1>1
<1>3. /\ IsFiniteSet(1 .. Len(s)) /\ Cardinality(1 .. Len(s)) = Len(s)
      /\ IsFiniteSet(1 .. MaxParts) /\ Cardinality(1 .. MaxParts) = MaxParts
  <2>1. \A n \in Nat : IsFiniteSet(1 .. n) /\ Cardinality(1 .. n) = IF 1 > n THEN 0 ELSE n - 1 + 1
    BY FS_Interval
  <2>2. \A n \in Nat : (IF 1 > n THEN 0 ELSE n - 1 + 1) = n
    OBVIOUS
  <2> QED
    BY <1>1, <2>1, <2>2
<1>4. s \in [1 .. Len(s) -> 1 .. MaxParts]
  BY LenProperties DEF Parts
<1>5. Cardinality(1 .. MaxParts) < Cardinality(1 .. Len(s))
  BY <1>1, <1>2, <1>3
<1>6. PICK x, y \in 1 .. Len(s) : x # y /\ s[x] = s[y]
  BY <1>3, <1>4, <1>5, FS_PigeonHole
<1> QED
  BY <1>1, <1>6

\* What the belt carries after a move are parts again.
LEMMA AdvancedInRange ==
  ASSUME PatternInv, RangeInv
  PROVE  Advanced \in [occ : Pictures, staged : Enterers, beat : Beats]
<1>1. /\ \A st \in Tracked : occ[st] \in Enterers
      /\ occ \in Pictures
  BY BooksInRange
<1>2. real.staged \in Enterers /\ NoPart \in Enterers
  BY DEF RangeInv, Carried, Enterers
<1>3. /\ Shifted(real.staged) \in Pictures /\ Shifted(NoPart) \in Pictures
      /\ Retreated \in Pictures
  BY <1>1, <1>2 DEF Shifted, Retreated, Pictures, Tracked, Enterers
<1>4. Picture(real.staged) \in Pictures
  BY <1>1, <1>3 DEF Picture, Returned
<1>5. NextBeat(beat) \in Beats
  BY DEF NextBeat, Beats
<1> QED
  BY <1>2, <1>4, <1>5 DEF Advanced


\* The flags are flags after every step.
LEMMA FlagsKeep ==
  ASSUME PatternInv, Flags, FeedInv, [Next]_vars
  PROVE  Flags'
<1>1. CASE UNCHANGED vars
  BY <1>1 DEF Flags, vars, modeVars, bookVars, seqVars, feedVars, flagVars, diskVars
<1> USE DEF Flags, modeVars, seqVars, flagVars, diskVars
<1>2. CASE LoopExit
  BY <1>2 DEF LoopExit
<1>3. CASE LoopHalt
  <2>1. /\ haltAsked' = FALSE /\ enabled' = FALSE /\ feedPaused' = FALSE
        /\ UNCHANGED <<continuous, switched, owesClean, f1On, pausing, stopping,
                       clearing, restarted, misled, disk>>
    BY <1>3 DEF LoopHalt
  <2> QED
    BY <2>1
<1>4. CASE LoopSaves
  <2>1. disk' = disk \/ disk' = Snapshot
    BY <1>4 DEF LoopSaves
  <2>2. disk'.ok = disk.ok \/ disk'.ok = TRUE
    BY <2>1 DEF Snapshot
  <2>3. UNCHANGED <<continuous, switched, owesClean, f1On, pausing, enabled, haltAsked,
                    feedPaused, stopping, clearing, restarted, misled>>
    BY <1>4 DEF LoopSaves
  <2>4. disk'.ok \in BOOLEAN
    BY <2>2
  <2> QED
    BY <2>3, <2>4, Zenon
<1>5. ASSUME NEW dt \in 0 .. 1, StepBegins(dt)
      PROVE  Flags'
  BY <1>5 DEF StepBegins
<1>6. ASSUME NEW dt \in 0 .. 1, LoopWaits(dt)
      PROVE  Flags'
  <2>1. feedPaused' \in BOOLEAN
    BY <1>6 DEF LoopWaits, PauseEdge, FeedInv
  <2>2. /\ UNCHANGED <<owesClean, f1On, pausing, enabled, haltAsked, stopping, clearing>>
        /\ UNCHANGED <<continuous, switched, restarted, misled, disk>>
    BY <1>6 DEF LoopWaits
  <2> QED
    BY <2>1, <2>2
<1>7. ASSUME NEW dt \in 0 .. 1, Sanded(dt)
      PROVE  Flags'
  <2>1. /\ UNCHANGED <<continuous, switched, owesClean, enabled, haltAsked, feedPaused,
                       stopping, clearing, restarted, misled, disk>>
    BY <1>7 DEF Sanded
  <2>2. f1On' \in BOOLEAN /\ pausing' \in BOOLEAN
    BY <1>7 DEF Sanded, SetF1
  <2> QED
    BY <2>1, <2>2, Zenon
<1>8. ASSUME NEW dt \in 0 .. 1, Sprayed(dt)
      PROVE  Flags'
  <2>1. /\ UNCHANGED <<continuous, switched, owesClean, pausing, enabled, haltAsked, feedPaused,
                       stopping, clearing, restarted, misled, disk>>
    BY <1>8 DEF Sprayed
  <2>2. f1On' \in BOOLEAN
    BY <1>8 DEF Sprayed, SetF1
  <2> QED
    BY <2>1, <2>2, Zenon
<1>9. CASE IdleWaits \/ IntakeWaits \/ IntakeFails
  BY <1>9 DEF IdleWaits, IntakeWaits, IntakeFails
<1>10. CASE FirstEntry
  BY <1>10 DEF FirstEntry
<1>11. CASE RobotSkips \/ RobotStarts \/ RobotFails
  <2>1. /\ UNCHANGED <<continuous, switched, owesClean, pausing, enabled, haltAsked, feedPaused,
                       stopping, clearing, restarted, misled, disk>>
        /\ f1On' \in BOOLEAN
    BY <1>11 DEF RobotSkips, RobotStarts, RobotFails, SetF1
  <2> QED
    BY <2>1
<1>12. CASE Retracted
  BY <1>12 DEF Retracted
<1>13. CASE CleanStarts \/ Cleaned
  <2>1. /\ owesClean' \in BOOLEAN
        /\ UNCHANGED <<continuous, switched, f1On, pausing, enabled, haltAsked,
                       feedPaused, stopping, clearing, restarted, misled, disk>>
    <3>1. CASE CleanStarts
      BY <3>1 DEF CleanStarts
    <3>2. CASE Cleaned
      BY <3>2 DEF Cleaned
    <3> QED
      BY <1>13, <3>1, <3>2
  <2> QED
    BY <2>1
<1>14. ASSUME NEW offload \in BOOLEAN, Gate(offload)
      PROVE  Flags'
  BY <1>14 DEF Gate
<1>15. CASE EntrySkipped \/ StageFails
  BY <1>15 DEF EntrySkipped, StageFails
<1>16. CASE Staged
  BY <1>16 DEF Staged
<1>17. CASE Transition
  <2>1. /\ UNCHANGED <<continuous, switched, owesClean, pausing, enabled, haltAsked, feedPaused,
                       stopping, clearing, restarted, misled, disk>>
        /\ f1On' = FanWanted \/ UNCHANGED f1On
    BY <1>17 DEF Transition, SetF1
  <2>2. FanWanted \in BOOLEAN
    BY DEF FanWanted
  <2> QED
    BY <2>1, <2>2
<1>18. CASE TransitionFails
  BY <1>18 DEF TransitionFails
<1>19. CASE Declare \/ Halt
  <2>1. /\ haltAsked' \in BOOLEAN
        /\ UNCHANGED <<continuous, switched, owesClean, f1On, pausing, enabled,
                       feedPaused, stopping, clearing, restarted, misled, disk>>
    <3>1. CASE Declare
      BY <3>1 DEF Declare
    <3>2. CASE Halt
      BY <3>2 DEF Halt
    <3> QED
      BY <1>19, <3>1, <3>2
  <2> QED
    BY <2>1
<1>20. CASE Confirm \/ ClearParts \/ ClearLine
  <2>1. /\ clearing' \in BOOLEAN /\ misled' \in BOOLEAN
        /\ UNCHANGED <<continuous, switched, owesClean, f1On, pausing, enabled,
                       haltAsked, feedPaused, stopping, restarted, disk>>
    <3>1. CASE Confirm
      BY <3>1 DEF Confirm, Resumes
    <3>2. CASE ClearParts
      BY <3>2 DEF ClearParts
    <3>3. CASE ClearLine
      BY <3>3 DEF ClearLine
    <3> QED
      BY <1>20, <3>1, <3>2, <3>3
  <2> QED
    BY <2>1
<1>21. ASSUME NEW on \in BOOLEAN, SetRunning(on)
      PROVE  Flags'
  BY <1>21 DEF SetRunning
<1>22. CASE CloseBegins
  BY <1>22 DEF CloseBegins
<1>23. CASE CloseEnds
  BY <1>23 DEF CloseEnds, Snapshot
<1>24. CASE Crash
  <2>1. /\ UNCHANGED <<continuous, switched, owesClean, f1On, pausing, enabled, haltAsked, feedPaused,
                       stopping, clearing, restarted, misled>>
        /\ disk' = disk \/ disk' = [disk EXCEPT !.ok = FALSE]
    BY <1>24 DEF Crash
  <2>2. DOMAIN disk = {"ok", "parts", "queue", "used", "occ", "completed", "beat"}
    BY DEF PatternInv, Consistent, Lag
  <2>3. disk'.ok \in BOOLEAN
    BY <2>1, <2>2
  <2> QED
    BY <2>1, <2>3, Zenon
<1>25. CASE Restart
  BY <1>25 DEF Restart
<1>26. CASE RestartRaises
  BY <1>1, <1>26 DEF RestartRaises
<1> QED
  BY <1>1, <1>2, <1>3, <1>4, <1>5, <1>6, <1>7, <1>8, <1>9, <1>10, <1>11, <1>12, <1>13, <1>14,
     <1>15, <1>16, <1>17, <1>18, <1>19, <1>20, <1>21, <1>22, <1>23, <1>24, <1>25, <1>26
     DEF Next, Loop, Operator, Process

\* What the steps write stays in range.
LEMMA RangeKeep ==
  ASSUME PatternInv, RangeInv, FeedInv, [Next]_vars
  PROVE  RangeInv'
<1> DEFINE Rest == /\ Carried /\ used <= MaxParts /\ entering \in Enterers
                   /\ NoPart \notin Members(completed)
                   /\ pc \in {"top", "step", "sand", "spray", "safe", "clean", "save", "gone",
                              "dead", "closed", "down"}
                   /\ troubles \in 0 .. MaxTroubles
<1> SUFFICES Rest'
  BY FlagsKeep DEF RangeInv
<1>1. /\ used \in Nat /\ MaxParts \in Nat /\ MaxTroubles \in Nat /\ Cut \subseteq {real, Advanced}
      /\ Trouble => troubles' \in 0 .. MaxTroubles
  BY BooksInRange, LegacyAssumption DEF Cut, Trouble, RangeInv
<1>2. CASE UNCHANGED vars
  BY <1>2 DEF RangeInv, Carried, vars, bookVars
<1> USE <1>1 DEF RangeInv, Carried, bookVars, Fault
<1>3. CASE LoopExit \/ LoopHalt
  BY <1>3 DEF LoopExit, LoopHalt
<1>4. CASE LoopSaves
  BY <1>4 DEF LoopSaves
<1>5. ASSUME NEW dt \in 0 .. 1, StepBegins(dt)
      PROVE  Rest'
  BY <1>5 DEF StepBegins, Fault, GiveUp, Done
<1>6. ASSUME NEW dt \in 0 .. 1, LoopWaits(dt)
      PROVE  Rest'
  BY <1>6 DEF LoopWaits, PauseEdge
<1>7. ASSUME NEW dt \in 0 .. 1, Sanded(dt)
      PROVE  Rest'
  BY <1>7 DEF Sanded
<1>8. ASSUME NEW dt \in 0 .. 1, Sprayed(dt)
      PROVE  Rest'
  BY <1>8 DEF Sprayed
<1>9. CASE IdleWaits \/ IntakeWaits \/ IntakeFails
  BY <1>9 DEF IdleWaits, IntakeWaits, IntakeFails, Fault, GiveUp, Done
<1>10. CASE FirstEntry
  <2>1. PICK p \in Parts : /\ Enters(p) /\ occ' = [occ EXCEPT !["O"] = p]
                           /\ real' = [occ |-> occ', staged |-> NoPart, beat |-> "P1"]
    BY <1>10 DEF FirstEntry
  <2>2. Carried'
    BY <2>1, BooksInRange DEF Carried, Pictures, Enterers, Beats
  <2>3. used' <= MaxParts
    BY <2>1 DEF Enters, Parts
  <2> QED
    BY <1>10, <2>2, <2>3 DEF FirstEntry, Done, Die, Fault
<1>11. CASE RobotSkips \/ RobotStarts \/ RobotFails
  BY <1>11 DEF RobotSkips, RobotStarts, RobotFails, Fault, GiveUp, Done, Die
<1>12. CASE Retracted
  BY <1>12 DEF Retracted, Done, Die
<1>13. CASE CleanStarts \/ Cleaned
  BY <1>13 DEF CleanStarts, Cleaned, Fault, GiveUp, Done, Die
<1>14. ASSUME NEW offload \in BOOLEAN, Gate(offload)
      PROVE  Rest'
  BY <1>14 DEF Gate, Done, Die
<1>15. CASE EntrySkipped
  BY <1>15 DEF EntrySkipped, Done, Enterers
<1>16. CASE StageFails
  BY <1>16 DEF StageFails, GiveUp, Done
<1>17. CASE Staged
  <2>1. PICK p \in Parts : Enters(p) /\ entering' = p
    BY <1>17 DEF Staged
  <2>2. Carried' /\ entering' \in Enterers
    BY <1>17, <2>1 DEF Staged, Carried, Enterers
  <2>3. used' <= MaxParts
    BY <2>1 DEF Enters, Parts
  <2> QED
    BY <1>17, <2>2, <2>3 DEF Staged, Done
<1>18. CASE Transition
  <2>1. Carried'
    BY <1>18, AdvancedInRange DEF Transition, Moves, Carried
  <2>2. entering' \in Enterers
    BY <1>18 DEF Transition, Moves, Enterers
  <2>3. NoPart \notin Members(completed')
    <3>1. Rising(completed) /\ occ["F2"] \in Nat
      BY BooksInRange, LegacyAssumption
         DEF PatternInv, Consistent, Books, Shipped, Enterers, Parts, NoPart, Tracked
    <3>2. Members(Append(completed, occ["F2"])) \subseteq Members(completed) \cup {occ["F2"]}
      BY <3>1 DEF Rising, Members
    <3> QED
      BY <1>18, <3>2 DEF Transition, Moves, Ships
  <2> QED
    BY <1>18, <2>1, <2>2, <2>3 DEF Transition, Done, Die
<1>19. CASE TransitionFails
  <2>1. real' = real \/ real' = Advanced
    BY <1>19 DEF TransitionFails
  <2>2. Carried'
    BY <2>1, AdvancedInRange
  <2> QED
    BY <1>19, <2>2 DEF TransitionFails, GiveUp, Done
<1>20. CASE Declare \/ Halt
  BY <1>20 DEF Declare, Halt, Resized, Die
<1>21. CASE Confirm \/ ClearParts \/ ClearLine
  <2>1. Carried'
    <3>1. /\ real.occ \in Pictures /\ real.beat \in Beats /\ NoPart \in Enterers
          /\ Empty \in Pictures
      BY DEF Pictures, Enterers, Empty
    <3>2. real = [occ |-> real.occ, staged |-> real.staged, beat |-> real.beat]
      OBVIOUS
    <3>3. \/ real' = real
          \/ real' = [occ |-> real.occ, staged |-> NoPart, beat |-> real.beat]
          \/ real' = [occ |-> Empty, staged |-> NoPart, beat |-> real.beat]
      BY <1>21, <3>2 DEF Confirm, ClearParts, ClearLine
    <3> QED
      BY <3>1, <3>3
  <2> QED
    BY <1>21, <2>1 DEF Confirm, ClearParts, ClearLine, Resized, Die
<1>22. ASSUME NEW on \in BOOLEAN, SetRunning(on)
      PROVE  Rest'
  BY <1>22 DEF SetRunning
<1>23. CASE CloseBegins
  BY <1>23 DEF CloseBegins
<1>24. CASE CloseEnds
  <2>1. Carried'
    BY <1>24, AdvancedInRange DEF CloseEnds
  <2> QED
    BY <1>24, <2>1 DEF CloseEnds
<1>25. CASE Crash
  <2>1. Carried'
    BY <1>25, AdvancedInRange DEF Crash
  <2> QED
    BY <1>25, <2>1 DEF Crash
<1>26. CASE Restart
  <2>1. used' <= MaxParts /\ Members(completed') \subseteq Members(completed)
    BY <1>26 DEF Restart, PatternInv, Consistent, Lag, Books, Ids
  <2> QED
    BY <1>26, <2>1 DEF Restart, Enterers
<1>27. CASE RestartRaises
  BY <1>2, <1>27 DEF RestartRaises
<1> QED
  BY <1>2, <1>3, <1>4, <1>5, <1>6, <1>7, <1>8, <1>9, <1>10, <1>11, <1>12, <1>13, <1>14,
     <1>15, <1>16, <1>17, <1>18, <1>19, <1>20, <1>21, <1>22, <1>23, <1>24, <1>25, <1>26, <1>27
     DEF Next, Loop, Operator, Process

\* The ranges hold at first.
LEMMA RangeInit == Init => RangeInv
<1> SUFFICES ASSUME Init PROVE RangeInv
  OBVIOUS
<1>1. Flags
  <2>1. disk.ok = TRUE
    BY DEF Init, Snapshot
  <2>2. continuous \in BOOLEAN
    BY LegacyAssumption DEF Init
  <2> QED
    BY <2>1, <2>2 DEF Init, Flags
<1>2. Carried
  BY DEF Init, Carried, Empty, Pictures, Enterers, Beats
<1>3. used <= MaxParts /\ troubles \in 0 .. MaxTroubles
  BY LegacyAssumption DEF Init
<1>4. NoPart \notin Members(completed)
  BY MembersOfNone DEF Init
<1> QED
  BY <1>1, <1>2, <1>3, <1>4 DEF Init, RangeInv, Enterers

\* The pattern, the ranges and the feed together bound every variable.
LEMMA RangesGiveTypes == PatternInv /\ RangeInv /\ FeedInv => LegacyTypeOK
<1> SUFFICES ASSUME PatternInv, RangeInv, FeedInv PROVE LegacyTypeOK
  OBVIOUS
<1>1. Known \subseteq 1 .. used /\ parts \in [Known -> Records]
  BY DEF PatternInv, Consistent, Books, Ids, Known
<1>2. \A p \in Known : parts[p] \in Records
  BY <1>1
<1>3. used \in 0 .. MaxParts /\ occ \in Pictures
  BY BooksInRange
<1>4. real \in [occ : Pictures, staged : Parts \cup {NoPart}, beat : Beats]
      /\ entering \in Parts \cup {NoPart} /\ troubles \in 0 .. MaxTroubles
  BY DEF RangeInv, Carried, Enterers
<1>5. queue \in Seq(Parts) /\ Len(queue) <= MaxParts
  <2>1. \A i, j \in 1 .. Len(queue) : i < j => queue[i] < queue[j]
    BY DEF PatternInv, Consistent, Books, Queued, Rising
  <2> QED
    BY <2>1, BooksInRange, RisingIsShort
<1>6. completed \in Seq(Parts) /\ Len(completed) <= MaxParts
  <2>1. \A i, j \in 1 .. Len(completed) : i < j => completed[i] < completed[j]
    BY DEF PatternInv, Consistent, Books, Shipped, Rising
  <2> QED
    BY <2>1, BooksInRange, RisingIsShort
<1>7. \A s \in {queue, completed} : s \in Seq(Parts) /\ Len(s) <= MaxParts
  BY <1>5, <1>6
<1>8. {continuous, switched, owesClean, f1On, watch, coil, pausing, enabled, haltAsked,
       feedPaused, stopping, dirty, clearing, restarted, misled, disk.ok} \subseteq BOOLEAN
  <2>1. watch \in BOOLEAN /\ coil \in BOOLEAN /\ dirty \in BOOLEAN
    BY DEF FeedInv, PatternInv, Control
  <2> QED
    BY <2>1, Zenon DEF RangeInv, Flags
<1>9. /\ beat \in Beats
      /\ phase \in {"idle", "robot", "flash", "stage", "transition", "faulted"}
      /\ pc \in {"top", "step", "sand", "spray", "safe", "clean", "save", "gone", "dead",
                 "closed", "down"}
  BY DEF PatternInv, Control, RangeInv
<1> QED
  BY <1>1, <1>2, <1>3, <1>4, <1>7, <1>8, <1>9 DEF LegacyTypeOK

\* The three invariants hold together.
LEMMA AllHold == Spec => [](PatternInv /\ RangeInv /\ FeedInv)
<1>1. Init => PatternInv /\ RangeInv /\ FeedInv
  BY PatternInit, RangeInit, FeedInit
<1>2. PatternInv /\ RangeInv /\ FeedInv /\ [Next]_vars => (PatternInv /\ RangeInv /\ FeedInv)'
  BY PatternStep, RangeKeep, FeedStep
<1> QED
  BY <1>1, <1>2, PTL DEF Spec

(***************************************************************************)
(* Type correctness: among other things, no list of the books grows beyond  *)
(* the ids handed out, and no restart brings back a part that never was.    *)
(***************************************************************************)
THEOREM LegacyTypeCorrect == Spec => []LegacyTypeOK
BY AllHold, RangesGiveTypes, PTL

\* A pass of a paused loop stops Z1, or the suspension failed in it.
LEMMA PausePasses == FeedInv /\ RangeInv /\ [Next]_vars => [PauseStops]_vars
<1> SUFFICES ASSUME FeedInv, RangeInv, Next, pc = "top", ~Runs, pc' \in {"save", "dead"}
             PROVE  ~coil' \/ troubles' # troubles
  BY DEF PauseStops
<1>1. PICK dt \in 0 .. 1 : LoopWaits(dt)
  <2>1. ~Operator
    BY DEF Operator, Declare, SetRunning, Halt, Confirm, ClearParts, ClearLine, Resized
  <2>2. ~Process
    BY DEF Process, CloseBegins, CloseEnds, Crash, Restart, RestartRaises, Up, vars
  <2>3. QED
    BY <2>1, <2>2 DEF Next, Loop, LoopExit, LoopHalt, LoopSaves, StepBegins, Sanded, Sprayed,
       IdleWaits, IntakeWaits, FirstEntry, IntakeFails, RobotSkips, RobotStarts, Retracted,
       RobotFails, CleanStarts, Cleaned, Gate, EntrySkipped, Staged, StageFails, Transition,
       TransitionFails, At
<1>2. CASE feedPaused
  BY <1>1, <1>2 DEF LoopWaits, PauseEdge, FeedInv, WatchedFeed
<1>3. CASE ~feedPaused /\ coil' = (coil /\ ~watch)
  BY <1>3 DEF FeedInv, WatchedFeed
<1>4. CASE Trouble
  BY <1>4 DEF Trouble, RangeInv
<1>5. QED
  BY <1>1, <1>2, <1>3, <1>4 DEF LoopWaits, PauseEdge

(***************************************************************************)
(* The queue belt runs only under a live watch, never in a composite, a     *)
(* fault or after close, and no pass of a paused loop leaves it running     *)
(* unless the suspension failed in that pass.                               *)
(***************************************************************************)
THEOREM FeedWatched == Spec => FeedIsWatched
<1>1. Spec => []WatchedFeed
  <2>1. FeedInv => WatchedFeed
    BY DEF FeedInv
  <2>2. QED
    BY <2>1, AllHold, PTL
<1>2. Spec => [][PauseStops]_vars
  BY PausePasses, AllHold, PTL DEF Spec
<1>3. QED
  BY <1>1, <1>2 DEF WatchedFeed, PauseStops, FeedIsWatched
=============================================================================
