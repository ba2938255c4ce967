----------------------------- MODULE FeedProofs -----------------------------
(***************************************************************************)
(* Theorems of the belt verbs, for every geometry that obeys the placement  *)
(* rule, any number of cubes, and any number of faults, failing pauses,     *)
(* dead loops, restarts and confirmations.                                  *)
(***************************************************************************)
EXTENDS LegacyFeed, FiniteSetTheorems, SequenceTheorems, TLAPS

-----------------------------------------------------------------------------
(***************************************************************************)
(* Lengths, and the chains of edges the verbs wait for.                     *)
(***************************************************************************)
Slide == StagingEye - Width - 1      \* the longest way a nudge carries the line

\* What the numbers of the geometry are to each other.
LEMMA Lengths ==
  /\ Width \in Nat /\ StagingEye \in Nat /\ WorkZero \in Nat /\ Spacing \in Nat
  /\ Slide \in Nat /\ Gone \in Nat /\ MaxCubes \in Nat /\ MaxTroubles \in Nat /\ Gap \in Nat
  /\ Width >= 3 /\ Gap >= 1 /\ MaxCubes >= 1
  /\ Spacing > StagingEye /\ Spacing > Width /\ Slide >= 1 /\ Slide < Width - 1
  /\ StagingEye = Width + 1 + Slide
  /\ WorkZero = StagingEye + Spacing
  /\ Gone = WorkZero + 2 * Spacing
  /\ Away = -2 /\ NoPart = 0
BY FeedAssumption DEF Spacing, Slide, Gone, Away, NoPart

Whole    == <<"hi", "lo", "hi">>
FromTail == <<"lo", "hi">>
LastNose == <<"hi">>
Twice    == <<"hi", "lo", "hi", "lo">>
Leaving  == <<"lo", "hi", "lo">>
Passing  == <<"hi", "lo">>
Clearing == <<"lo">>

Chains == {Whole, FromTail, LastNose, << >>}
Edges  == Chains \cup {Twice, Leaving, Passing, Clearing}

\* The chains are different ones, and short.
LEMMA ChainsDiffer ==
  /\ Whole # << >> /\ FromTail # << >> /\ LastNose # << >> /\ Twice # << >>
  /\ Leaving # << >> /\ Passing # << >> /\ Clearing # << >>
  /\ Whole # FromTail /\ Whole # LastNose /\ Whole # Twice /\ Whole # Leaving
  /\ Whole # Passing /\ Whole # Clearing
  /\ FromTail # LastNose /\ FromTail # Twice /\ FromTail # Leaving /\ FromTail # Passing
  /\ FromTail # Clearing
  /\ LastNose # Twice /\ LastNose # Leaving /\ LastNose # Passing /\ LastNose # Clearing
  /\ Twice # Leaving /\ Twice # Passing /\ Twice # Clearing
  /\ Leaving # Passing /\ Leaving # Clearing /\ Passing # Clearing
BY DEF Whole, FromTail, LastNose, Twice, Leaving, Passing, Clearing

\* A poll takes the head off a chain when the level fits it.
LEMMA Polled ==
  ASSUME NEW level \in BOOLEAN
  PROVE  /\ Advance(<< >>, level) = << >>
         /\ Advance(Whole, level) = IF level THEN FromTail ELSE Whole
         /\ Advance(FromTail, level) = IF level THEN FromTail ELSE LastNose
         /\ Advance(LastNose, level) = IF level THEN << >> ELSE LastNose
         /\ Advance(Twice, level) = IF level THEN Leaving ELSE Twice
         /\ Advance(Leaving, level) = IF level THEN Leaving ELSE Passing
         /\ Advance(Passing, level) = IF level THEN Clearing ELSE Passing
         /\ Advance(Clearing, level) = IF level THEN Clearing ELSE << >>
BY DEF Advance, Whole, FromTail, LastNose, Twice, Leaving, Passing, Clearing

\* Two chains one after the other.
LEMMA Joined ==
  /\ Passing \o LastNose = Whole /\ Passing \o Passing = Twice
  /\ << >> \o LastNose = LastNose /\ << >> \o Passing = Passing
<1> DEFINE E == {"hi", "lo"}
           a == Passing \o LastNose
           b == Passing \o Passing
<1>1. /\ Passing \in Seq(E) /\ LastNose \in Seq(E) /\ Whole \in Seq(E) /\ Twice \in Seq(E)
      /\ a \in Seq(E) /\ b \in Seq(E)
  BY DEF Passing, LastNose, Whole, Twice
<1>2. << >> \o LastNose = LastNose /\ << >> \o Passing = Passing
  <2> HIDE DEF E
  <2> QED
    BY <1>1, ConcatEmptySeq, Zenon
<1>3. /\ Len(a) = 3 /\ Len(Whole) = 3 /\ \A i \in 1 .. 3 : a[i] = Whole[i]
  BY DEF Passing, LastNose, Whole
<1>4. /\ Len(b) = 4 /\ Len(Twice) = 4 /\ \A i \in 1 .. 4 : b[i] = Twice[i]
  BY DEF Passing, Twice
<1> HIDE DEF E, a, b
<1>5. a = Whole
  BY <1>1, <1>3, SeqEqual
<1>6. b = Twice
  BY <1>1, <1>4, SeqEqual
<1> QED
  BY <1>2, <1>5, <1>6 DEF a, b

\* The chain a feeding verb starts from, and those of the other verbs.
LEMMA Armed ==
  /\ JunctionChain = IF Onload THEN FromTail ELSE Whole
  /\ WorkZeroChain("intake") = << >> /\ WorkZeroChain("blind") = << >>
  /\ WorkZeroChain("entry") = IF occ["O"] # NoPart THEN Whole ELSE LastNose
  /\ WorkZeroChain("return") = IF occ["O"] # NoPart THEN Whole ELSE LastNose
  /\ WorkZeroChain("retreat") = IF occ["O"] # NoPart THEN Twice ELSE Passing
<1>1. \A v \in {"entry", "return"} :
        WorkZeroChain(v) = (IF occ["O"] # NoPart THEN Passing ELSE << >>) \o LastNose
  BY DEF WorkZeroChain, Passing, LastNose
<1>2. WorkZeroChain("retreat") = (IF occ["O"] # NoPart THEN Passing ELSE << >>) \o Passing
  BY DEF WorkZeroChain, Passing
<1> QED
  BY <1>1, <1>2, Joined DEF JunctionChain, WorkZeroChain, FromTail, Whole

-----------------------------------------------------------------------------
(***************************************************************************)
(* The kept watch. In a verb that hunts, Z1 follows the verb's own chain;   *)
(* everywhere else it runs only under the kept watch; it is off through     *)
(* what nobody polls, except where a suspension failed or the loop died.    *)
(***************************************************************************)
InVerb == pc \notin {"free", "held", "lapse", "faulted", "down"}
Hunts  == InVerb /\ verb \in {"intake", "stage"}

\* Which verbs come to which place in the driver.
Places ==
  /\ verb \in {"intake", "stage", "entry", "retreat", "return", "blind", "stay"}
  /\ \/ pc \in {"free", "held", "return", "lapse", "faulted", "down"}
     \/ pc = "arm" /\ verb \in {"intake", "entry", "retreat", "return", "blind"}
     \/ pc = "sample" /\ verb \in {"intake", "stage"}
     \/ pc = "poll" /\ verb \in {"intake", "entry", "retreat", "return"}
     \/ pc \in {"turn", "back"} /\ verb = "retreat"
     \/ pc \in {"feed", "nudge"} /\ verb = "stage"
     \/ pc = "blind" /\ verb = "blind"

Unpolled == pc \in {"held", "blind", "faulted"} \/ (pc = "arm" /\ verb = "blind")

CoilInv ==
  /\ coil \in BOOLEAN
  /\ Unpolled => ~coil
  /\ ~Hunts /\ pc # "down" /\ coil => watch # << >>
  /\ Hunts => watch = << >>
  /\ Hunts /\ pc \in {"arm", "sample"} => coil
  /\ Hunts /\ pc \notin {"arm", "sample"} => (coil <=> chain # << >>)

Requests == lastId \in 0 .. IdMax /\ reqId = lastId /\ slide \in {0, StagingEye}

WatchInv == Places /\ CoilInv /\ Requests

\* The next request id is in range, and is another one.
LEMMA NextIdDiffers ==
  ASSUME Requests
  PROVE  NextId \in 1 .. IdMax /\ NextId # lastId
<1>1. IdMax \in Nat /\ IdMax >= 2 /\ reqId \in 0 .. IdMax /\ reqId = lastId
  BY FeedAssumption DEF Requests
<1>2. CASE reqId = IdMax
  <2>1. reqId % IdMax = 0
    BY <1>1, <1>2
  <2> QED
    BY <1>1, <1>2, <2>1 DEF NextId
<1>3. CASE reqId < IdMax
  <2>1. reqId % IdMax = reqId
    BY <1>1, <1>3
  <2> QED
    BY <1>1, <1>3, <2>1 DEF NextId
<1> QED
  BY <1>1, <1>2, <1>3

\* A request starts its move.
LEMMA MoveStarts ==
  ASSUME Requests, NEW len, StartMove(len)
  PROVE  reqId' \in 0 .. IdMax /\ lastId' = reqId' /\ run' = len /\ reqId' # reqId
BY NextIdDiffers DEF StartMove, Requests

\* Every move is asked for with a length.
LEMMA CapsAreMoves ==
  /\ Caps["intake"] = StagingEye + 3 /\ Caps["entry"] = 2 * Spacing - 1
  /\ Caps["return"] = 2 * Spacing - 1 /\ Caps["retreat"] = 1 - 2 * Spacing
  /\ Caps["blind"] = Spacing /\ Caps["nudge"] = StagingEye /\ Caps["back"] = Width
  /\ \A v \in {"intake", "entry", "return", "retreat", "blind", "nudge", "back"} :
       Caps[v] \in Int \ {0}
<1>1. /\ Caps["intake"] = StagingEye + 3 /\ Caps["entry"] = 2 * Spacing - 1
      /\ Caps["return"] = 2 * Spacing - 1 /\ Caps["retreat"] = 1 - 2 * Spacing
      /\ Caps["blind"] = Spacing /\ Caps["nudge"] = StagingEye /\ Caps["back"] = Width
  BY DEF Caps
<1>2. /\ StagingEye + 3 # 0 /\ 2 * Spacing - 1 # 0 /\ 1 - 2 * Spacing # 0
      /\ Spacing # 0 /\ StagingEye # 0 /\ Width # 0
  BY Lengths
<1>3. {StagingEye + 3, 2 * Spacing - 1, 1 - 2 * Spacing, Spacing, StagingEye, Width} \subseteq Int
  BY Lengths
<1> HIDE DEF Caps
<1> QED
  BY <1>1, <1>2, <1>3

\* At first nothing hunts,
LEMMA WatchInit == Init => WatchInv
BY FeedAssumption DEF Init, WatchInv, Places, CoilInv, Requests, Unpolled, Hunts, InVerb

\* and the watch, the place and the ids are kept right by every step, which fires the
\* move it requests.
LEMMA WatchStep ==
  ASSUME WatchInv, [Next]_vars
  PROVE  WatchInv' /\ (reqId' # reqId /\ pc' # "free" => run' # 0)
<1> DEFINE Good == WatchInv' /\ (reqId' # reqId /\ pc' # "free" => run' # 0)
           Same == UNCHANGED <<lastId, reqId>> /\ slide' \in {0, StagingEye}
<1>1. ASSUME Same, Places', CoilInv'
      PROVE  Good
  BY <1>1 DEF WatchInv, Requests
<1> USE DEF WatchInv, Requests, Places, CoilInv, Unpolled, Hunts, InVerb, idVars, verbVars,
            callerVars, plantVars
<1>2. \A level : Advance(<< >>, level) = << >>
  BY DEF Advance
<1>3. CASE UNCHANGED vars
  <2>1. Same
    BY <1>3 DEF vars
  <2>2. Places'
    BY <1>3 DEF vars
  <2>3. CoilInv'
    BY <1>3 DEF vars
  <2> QED
    BY <1>1, <2>1, <2>2, <2>3
<1>4. CASE Tick
  <2>1. Same
    BY <1>4 DEF Tick
  <2>2. Places'
    BY <1>4 DEF Tick
  <2>3. CoilInv'
    BY <1>4 DEF Tick
  <2> QED
    BY <1>1, <2>1, <2>2, <2>3
<1>5. ASSUME NEW c \in Cubes, Place(c)
      PROVE  Good
  <2>1. Same
    BY <1>5 DEF Place
  <2>2. Places'
    BY <1>5 DEF Place
  <2>3. CoilInv'
    BY <1>5 DEF Place
  <2> QED
    BY <1>1, <2>1, <2>2, <2>3
<1>6. CASE Sample
  <2>1. Same
    BY <1>6 DEF Sample
  <2>2. Places'
    BY <1>6 DEF Sample
  <2>3. CoilInv'
    BY Armed, ChainsDiffer, <1>6 DEF Sample
  <2> QED
    BY <1>1, <2>1, <2>2, <2>3
<1>7. CASE Poll
  <2>1. Same
    BY <1>7 DEF Poll
  <2>2. Places'
    <3>1. /\ verb' = verb /\ verb \in {"intake", "entry", "retreat", "return"}
          /\ pc' \in {"poll", "turn", "return"} /\ (pc' = "turn" => verb = "retreat")
      BY <1>7 DEF Poll
    <3> QED
      BY <3>1
  <2>3. CoilInv'
    <3>1. /\ verb' = verb /\ verb \in {"intake", "entry", "retreat", "return"}
          /\ pc = "poll" /\ pc' \in {"poll", "turn", "return"}
      BY <1>7 DEF Poll
    <3>2. CASE verb = "intake"
      <4>1. /\ coil' = (coil /\ (chain # << >> => chain' # << >>))
            /\ (chain = << >> => chain' = << >>) /\ watch' = watch
        BY <1>2, <1>7, <3>2 DEF Poll, ChainPoll
      <4> QED
        BY <3>1, <3>2, <4>1
    <3>3. CASE verb # "intake"
      <4>1. /\ coil' = (coil /\ (watch # << >> => watch' # << >>))
            /\ (watch = << >> => watch' = << >>) /\ chain' = chain
        BY <1>2, <1>7, <3>3 DEF Poll, FeedPoll
      <4> QED
        BY <3>1, <3>3, <4>1
    <3> QED
      BY <3>2, <3>3
  <2> QED
    BY <1>1, <2>1, <2>2, <2>3
<1>8. CASE PollBack
  <2>1. Same
    BY <1>8 DEF PollBack
  <2>2. Places'
    <3>1. verb' = verb /\ verb = "retreat" /\ pc' \in {"back", "return"}
      BY <1>8 DEF PollBack
    <3> QED
      BY <3>1
  <2>3. CoilInv'
    <3>1. /\ coil' = (coil /\ (watch # << >> => watch' # << >>))
          /\ (watch = << >> => watch' = << >>) /\ chain' = chain
      BY <1>2, <1>8 DEF PollBack, FeedPoll
    <3>2. pc = "back" /\ verb = "retreat" /\ verb' = verb /\ pc' \in {"back", "return"}
      BY <1>8 DEF PollBack
    <3> QED
      BY <3>1, <3>2
  <2> QED
    BY <1>1, <2>1, <2>2, <2>3
<1>9. CASE FeedPhase
  <2>1. Same
    BY <1>9 DEF FeedPhase
  <2>2. Places'
    <3>1. verb' = verb /\ verb = "stage" /\ pc' \in {"feed", "return"}
      BY <1>9 DEF FeedPhase
    <3> QED
      BY <3>1
  <2>3. CoilInv'
    <3>1. /\ coil' = (coil /\ (chain # << >> => chain' # << >>))
          /\ (chain = << >> => chain' = << >>) /\ watch' = watch
      BY <1>2, <1>9 DEF FeedPhase, ChainPoll
    <3>2. pc = "feed" /\ verb = "stage" /\ verb' = verb /\ pc' \in {"feed", "return"}
      BY <1>9 DEF FeedPhase
    <3> QED
      BY <3>1, <3>2
  <2> QED
    BY <1>1, <2>1, <2>2, <2>3
<1>10. CASE PollNudge
  <2>1. Same
    BY <1>10 DEF PollNudge
  <2>2. Places'
    <3>1. verb' = verb /\ verb = "stage" /\ pc' \in {"nudge", "return"}
      BY <1>10 DEF PollNudge
    <3> QED
      BY <3>1
  <2>3. CoilInv'
    <3>1. /\ coil' = (coil /\ (chain # << >> => chain' # << >>))
          /\ (chain = << >> => chain' = << >>) /\ watch' = watch
      BY <1>2, <1>10 DEF PollNudge, ChainPoll
    <3>2. pc = "nudge" /\ verb = "stage" /\ verb' = verb /\ pc' \in {"nudge", "return"}
      BY <1>10 DEF PollNudge
    <3> QED
      BY <3>1, <3>2
  <2> QED
    BY <1>1, <2>1, <2>2, <2>3
<1>11. CASE Returns
  <2>1. Same
    BY <1>11, CapsAreMoves DEF Returns
  <2>2. Places'
    BY <1>11 DEF Returns, KeepWatch, Forgets
  <2>3. CoilInv'
    BY <1>11 DEF Returns, KeepWatch, Forgets
  <2> QED
    BY <1>1, <2>1, <2>2, <2>3
<1>12. CASE Concludes
  <2>1. Same
    BY <1>12 DEF Concludes, Arrives, GiveUp, Forgets
  <2>2. Places'
    BY <1>12 DEF Concludes, Arrives, GiveUp, Forgets
  <2>3. CoilInv'
    BY <1>12 DEF Concludes, Arrives, GiveUp, Forgets
  <2> QED
    BY <1>1, <2>1, <2>2, <2>3
<1>13. CASE FeedTick
  <2>1. Same
    BY <1>13 DEF FeedTick
  <2>2. Places'
    BY <1>13 DEF FeedTick, FeedPoll
  <2>3. CoilInv'
    BY <1>13 DEF FeedTick, FeedPoll
  <2> QED
    BY <1>1, <2>1, <2>2, <2>3
<1>14. CASE Intake
  <2>1. Same
    BY <1>14 DEF Intake, Begin
  <2>2. Places'
    BY <1>14 DEF Intake, Begin
  <2>3. CoilInv'
    BY <1>14 DEF Intake, Begin
  <2> QED
    BY <1>1, <2>1, <2>2, <2>3
<1>15. CASE FirstEntry
  <2>1. Same
    BY <1>15 DEF FirstEntry, Begin
  <2>2. Places'
    BY <1>15 DEF FirstEntry, Begin, Ready
  <2>3. CoilInv'
    BY <1>15 DEF FirstEntry, Begin, Ready
  <2> QED
    BY <1>1, <2>1, <2>2, <2>3
<1>16. CASE StageSkipped
  <2>1. Same
    BY <1>16 DEF StageSkipped
  <2>2. Places'
    BY <1>16 DEF StageSkipped, Ready
  <2>3. CoilInv'
    BY <1>16 DEF StageSkipped, Ready
  <2> QED
    BY <1>1, <2>1, <2>2, <2>3
<1>17. CASE Stage
  <2>1. Same
    BY <1>17 DEF Stage, Begin
  <2>2. Places'
    BY <1>17 DEF Stage, Begin, Ready
  <2>3. CoilInv'
    BY <1>17 DEF Stage, Begin, Ready
  <2> QED
    BY <1>1, <2>1, <2>2, <2>3
<1>18. CASE Transition
  <2>1. Same
    BY <1>18 DEF Transition, Begin
  <2>2. Places'
    BY <1>18 DEF Transition, TransitionVerb, Begin, Ready
  <2>3. CoilInv'
    BY <1>18 DEF Transition, TransitionVerb, Begin, Ready
  <2> QED
    BY <1>1, <2>1, <2>2, <2>3
<1>19. CASE Stays
  <2>1. Same
    BY <1>19 DEF Stays, Begin
  <2>2. Places'
    BY <1>19 DEF Stays, TransitionVerb, Begin, Ready
  <2>3. CoilInv'
    BY <1>19 DEF Stays, TransitionVerb, Begin, Ready
  <2> QED
    BY <1>1, <2>1, <2>2, <2>3
<1>20. CASE BlindEnds
  <2>1. Same
    BY <1>20 DEF BlindEnds
  <2>2. Places'
    BY <1>20 DEF BlindEnds
  <2>3. CoilInv'
    BY <1>20 DEF BlindEnds
  <2> QED
    BY <1>1, <2>1, <2>2, <2>3
<1>21. CASE Suspend
  <2>1. Same
    BY <1>21 DEF Suspend
  <2>2. Places'
    BY <1>21 DEF Suspend
  <2>3. CoilInv'
    BY <1>21 DEF Suspend
  <2> QED
    BY <1>1, <2>1, <2>2, <2>3
<1>22. CASE Resume
  <2>1. Same
    BY <1>22 DEF Resume
  <2>2. Places'
    BY <1>22 DEF Resume
  <2>3. CoilInv'
    BY <1>22 DEF Resume
  <2> QED
    BY <1>1, <2>1, <2>2, <2>3
<1>23. CASE Fails
  <2>1. Same
    BY <1>23 DEF Fails, GiveUp
  <2>2. Places'
    BY <1>23 DEF Fails, GiveUp, Forgets
  <2>3. CoilInv'
    BY <1>23 DEF Fails, GiveUp, Forgets
  <2> QED
    BY <1>1, <2>1, <2>2, <2>3
<1>24. CASE Arm
  <2>1. Requests' /\ run' = Reach /\ reqId' # reqId
    BY <1>24, MoveStarts DEF Arm
  <2>2. Reach # 0
    <3>1. /\ Caps[verb] \in Int \ {0} /\ (verb = "blind" => Caps[verb] = Spacing)
          /\ Spacing \in Nat /\ Spacing > StagingEye /\ StagingEye \in Nat
      BY <1>24, CapsAreMoves, Lengths DEF Arm
    <3>2. CASE verb = "blind" /\ EntryBeat
      BY <3>1, <3>2 DEF Reach
    <3>3. CASE ~(verb = "blind" /\ EntryBeat)
      <4>1. Reach = Caps[verb] - 0
        BY <3>3 DEF Reach
      <4>2. Caps[verb] \in Int
        BY <1>24, CapsAreMoves, Lengths DEF Arm
      <4> QED
        BY <3>1, <4>1, <4>2
    <3> QED
      BY <3>2, <3>3
  <2>3. Places' /\ CoilInv'
    BY <1>24 DEF Arm
  <2> QED
    BY <2>1, <2>2, <2>3
<1>25. CASE TurnBack
  <2>1. Requests' /\ run' = Caps["back"]
    BY <1>25, MoveStarts DEF TurnBack
  <2>2. Places' /\ CoilInv'
    BY <1>25 DEF TurnBack
  <2> QED
    BY <2>1, <2>2, CapsAreMoves
<1>26. CASE Nudge
  <2>1. Requests' /\ run' = Caps["nudge"]
    BY <1>26, MoveStarts DEF Nudge
  <2>2. Places' /\ CoilInv'
    BY <1>26 DEF Nudge
  <2> QED
    BY <2>1, <2>2, CapsAreMoves
<1>27. CASE Restart
  <2>1. Requests' /\ reqId' = reqId
    BY <1>27 DEF Restart, Seeded
  <2>2. Places' /\ CoilInv'
    BY <1>27 DEF Restart
  <2> QED
    BY <2>1, <2>2
<1>28. ASSUME NEW c \in Cubes, TakeOff(c)
       PROVE  Good
  <2>1. Same /\ Places' /\ CoilInv'
    BY <1>28 DEF TakeOff
  <2> QED
    BY <1>1, <2>1
<1>29. CASE PauseFails
  <2>1. Same
    BY <1>29 DEF PauseFails
  <2>2. Places'
    BY <1>29 DEF PauseFails
  <2>3. CoilInv'
    BY <1>29 DEF PauseFails
  <2> QED
    BY <1>1, <2>1, <2>2, <2>3
<1>30. CASE Dies
  <2>1. Same
    BY <1>30 DEF Dies
  <2>2. Places'
    BY <1>30 DEF Dies, Forgets
  <2>3. CoilInv'
    BY <1>30 DEF Dies, Forgets
  <2> QED
    BY <1>1, <2>1, <2>2, <2>3
<1>31. CASE Clear
  <2>1. Same /\ Places' /\ CoilInv'
    BY <1>31 DEF Clear
  <2> QED
    BY <1>1, <2>1
<1>32. CASE Confirm
  <2>1. Same /\ Places' /\ CoilInv'
    BY <1>32 DEF Confirm
  <2> QED
    BY <1>1, <2>1
<1> QED
  BY <1>3, <1>4, <1>5, <1>6, <1>7, <1>8, <1>9, <1>10, <1>11, <1>12, <1>13, <1>14, <1>15,
     <1>16, <1>17, <1>18, <1>19, <1>20, <1>21, <1>22, <1>23, <1>24, <1>25, <1>26, <1>27,
     <1>28, <1>29, <1>30, <1>31, <1>32
     DEF Next, Driver, Caller

\* Between two verbs Z1 runs only under a watch, and it is off through a composite, a pause
\* whose suspension got through, a shuffle and a fault.
THEOREM CoilWatched == Spec => []LiveCoilIsWatched
<1>1. WatchInv => LiveCoilIsWatched
  BY DEF WatchInv, CoilInv, Unpolled, Hunts, InVerb, LiveCoilIsWatched
<1>2. WatchInv /\ [Next]_vars => WatchInv'
  BY WatchStep
<1> QED
  BY <1>1, <1>2, WatchInit, PTL DEF Spec

\* A request always starts its move, the first one of a new client included: it never
\* carries the id the firmware saw last.
THEOREM RequestsFire == Spec => EveryRequestFires
<1>1. WatchInv /\ [Next]_vars => WatchInv'
  BY WatchStep
<1>2. WatchInv /\ [Next]_vars => [reqId' # reqId /\ pc' # "free" => run' # 0]_vars
  BY WatchStep
<1> QED
  BY <1>1, <1>2, WatchInit, PTL DEF Spec, EveryRequestFires

-----------------------------------------------------------------------------
(***************************************************************************)
(* Where everybody stands. Lead is the next cube to enter and Second the    *)
(* one behind it (Away if there is none); AtO, AtF1 and AtF2 are the cubes  *)
(* of the books.                                                            *)
(***************************************************************************)
Nose(c) == IF c \in Cubes THEN nose[c] ELSE Away
Lead    == Nose(next)
Second  == Nose(next + 1)

TakenO  == occ["O"] # NoPart
TakenF1 == occ["F1"] # NoPart
TakenF2 == occ["F2"] # NoPart
AtO     == nose[occ["O"]]
AtF1    == nose[occ["F1"]]
AtF2    == nose[occ["F2"]]

Calm     == {Away, -1, 0}              \* not past the junction
Doing(v) == InVerb /\ verb = v
Idle     == turn = "idle"

-----------------------------------------------------------------------------
(***************************************************************************)
(* What holds however the cubes stand, astray or not.                       *)
(***************************************************************************)
Types ==
  /\ nose \in [Cubes -> Away .. Gone]
  /\ run \in 1 - 2 * Spacing .. 2 * Spacing + StagingEye
  /\ coil \in BOOLEAN /\ arrived \in BOOLEAN /\ seen \in BOOLEAN /\ staged \in BOOLEAN
  /\ astray \in BOOLEAN
  /\ watch \in Chains /\ chain \in Chains /\ wz \in Edges
  /\ turn \in {"idle", "work", "stage", "move"} /\ beat \in Beats
  /\ next \in 1 .. MaxCubes + 1 /\ troubles \in 0 .. MaxTroubles

\* The books go with the beat, and the caller with the books.
Books ==
  /\ occ \in [Tracked -> 0 .. next - 1]
  /\ \A s, t \in Tracked : occ[s] = occ[t] /\ occ[s] # NoPart => s = t
  /\ TakenF1 => TakenO /\ ~TakenF2 /\ ~EntryBeat
  /\ Idle <=> ~TakenO /\ ~TakenF1 /\ ~TakenF2
  /\ turn = "stage" => EntryBeat
  /\ staged => turn = "move" /\ EntryBeat

\* When which verb is under way.
Control ==
  /\ Doing("stage") => turn = "stage"
  /\ Doing("intake") => Idle
  /\ Doing("entry") => next \in Cubes /\ (Idle \/ staged)
  /\ InVerb /\ verb \in {"retreat", "return", "blind", "stay"} => turn = "move" /\ ~staged
  /\ Doing("retreat") => beat = "P2" /\ TakenF2
  /\ Doing("return") => beat = "P3" /\ TakenF1
  /\ Doing("blind") => beat # "P2" /\ ~TakenF1
  /\ Doing("stay") => beat = "P2" /\ ~TakenF2

\* When Z2 is at rest, and what a verb has seen so far.
AtRest ==
  /\ pc \in {"free", "held", "lapse", "faulted", "arm", "turn", "return", "feed"} => run = 0
  /\ pc = "sample" => run = IF verb = "intake" THEN StagingEye + 3 ELSE 0
  /\ pc \in {"sample", "poll"} /\ verb = "intake" => wz = << >>
  /\ pc = "sample" /\ verb = "intake" => ~seen
  /\ pc \in {"poll", "back"} => ~arrived
  /\ pc = "return" /\ verb \in {"blind", "stay"} => arrived
  /\ pc = "faulted" => watch = << >>

Core == WatchInv /\ Types /\ Books /\ Control /\ AtRest

-----------------------------------------------------------------------------
(***************************************************************************)
(* The queue and the feed: who crosses the junction, and what the watch     *)
(* still waits for.                                                         *)
(***************************************************************************)
\* Who entered is in the books or gone; who did not waits, at most two of them at the junction.
Queue ==
  /\ \A c \in Cubes : c < next => nose[c] = Gone \/ \E st \in Tracked : occ[st] = c
  /\ \A c \in Cubes : c > next => nose[c] \in Calm
  /\ \A c \in Cubes : c > next + 1 => nose[c] = Away
  /\ Second # Away => Lead >= Width
  /\ Second = 0 => Lead >= Width + 1

\* A cube at n waits: only the kept watch's last edge is to come, before it is aboard.
Waits(n) ==
  /\ n \in Calm
  /\ watch \in {LastNose, << >>}
  /\ coil => watch = LastNose
  /\ coil /\ seen => n # 0

\* The chain of edges w follows the crossing of the cube at the head.
Follows(w) ==
  /\ coil => w # << >>
  /\ w = Whole => Lead \in Calm /\ (coil /\ seen => Lead # 0)
  /\ w = FromTail => Lead \in 0 .. Width /\ (coil /\ seen => Lead # Width)
  /\ w = LastNose => Lead >= Width /\ (coil /\ seen => Second # 0)
  /\ w = << >> => Lead >= Width + 1

\* The cube being staged is lifted off: the chain waits for the one behind it.
Missed ==
  /\ Lead \in Calm
  /\ chain \in {FromTail, LastNose, << >>}
  /\ chain = FromTail => ~seen /\ Lead # 0
  /\ chain = LastNose /\ seen => Lead # 0

LeadWaits == ~Idle /\ ~staged /\ ~Doing("stage") => Waits(Lead)

NextWaits ==
  staged \/ Doing("entry") =>
    /\ Waits(Second)
    /\ ~(Doing("entry") /\ pc \in {"poll", "return"}) => Lead = StagingEye

IdleFeed ==
  Idle /\ ~InVerb =>
    /\ Lead <= StagingEye
    /\ Follows(watch) \/ (Lead \in Calm /\ (coil /\ seen => Lead # 0))

Intakes ==
  Doing("intake") =>
    /\ pc = "arm" => Lead <= Width /\ (seen => Lead < Width)
    /\ pc = "sample" => Lead <= Width
    /\ pc = "poll" => /\ Follows(chain) /\ Lead <= StagingEye /\ (seen => Lead # StagingEye)
                      /\ run \in 0 .. StagingEye + 3 /\ (seen => run # 0)
    /\ pc = "return" => Follows(chain) /\ Lead <= StagingEye /\ (arrived => Lead = StagingEye)

Stages ==
  Doing("stage") =>
    /\ pc = "sample" => Lead \in {0, 1} /\ (seen => Lead = 0)
    /\ pc # "sample" => Missed \/ (Follows(chain) /\ chain # Whole /\ Lead \in 0 .. StagingEye)
    /\ pc \in {"feed", "nudge"} => (seen => Lead # StagingEye)
    /\ pc = "nudge" /\ Missed => run \in 0 .. StagingEye /\ (seen => run # 0)
    /\ pc = "nudge" /\ ~Missed => /\ run \in 1 .. StagingEye
                                  /\ Lead + run \in StagingEye + Width + 1 .. 2 * StagingEye
    /\ pc = "return" => IF arrived THEN Lead = StagingEye ELSE Missed /\ chain # FromTail

Feed == LeadWaits /\ NextWaits /\ IdleFeed /\ Intakes /\ Stages

-----------------------------------------------------------------------------
(***************************************************************************)
(* The line: how far the cubes of the books have come in the move.          *)
(***************************************************************************)
Slid == staged \/ (Doing("stage") /\ pc = "return" /\ arrived)

\* How far a nudge in vain has carried the line, or one under way.
Adrift == IF pc = "nudge" THEN StagingEye - run
          ELSE IF Doing("stage") /\ pc = "return" /\ ~arrived THEN StagingEye ELSE slide

Standing ==
  (pc \in {"free", "held", "lapse", "arm", "sample", "feed", "nudge"}
     \/ verb \in {"intake", "stage", "stay"}) =>
    /\ TakenO  => AtO - Adrift \in WorkZero .. WorkZero + Slide
                  /\ (~Slid => AtO - Adrift = WorkZero)
    /\ TakenF1 => AtF1 \in Width + 1 .. StagingEye
    /\ TakenF2 => AtF2 >= WorkZero + Spacing
                  /\ (AtF2 = Gone \/ AtF2 - Adrift >= WorkZero + Spacing)
    /\ TakenF2 /\ beat = "P2" => AtF2 <= WorkZero + Spacing + Slide

\* A nudge in vain is made up for by the shuffle that follows.
MadeUp == slide # 0 => turn = "move" /\ EntryBeat /\ ~staged

\* The cube that comes to O in an entry or a return.
Arriver == IF verb = "entry" THEN Lead ELSE AtF1

Arriving ==
  verb \in {"entry", "return"} /\ pc = "poll" =>
    /\ Arriver \in Width + 1 .. WorkZero /\ (seen => Arriver # WorkZero)
    /\ verb = "entry" => Arriver >= StagingEye
    /\ run + Arriver \in 2 * Spacing + Width .. 2 * Spacing - 1 + StagingEye
    /\ TakenO => AtO - Arriver \in Spacing .. Spacing + Slide
    /\ TakenF2 => AtF2 = Gone \/ AtF2 - Arriver >= 2 * Spacing
    /\ ~TakenO => wz = LastNose
    /\ TakenO =>
         /\ wz \in {Whole, FromTail, LastNose}
         /\ wz = Whole => ~seen /\ AtO \in WorkZero .. WorkZero + Slide
         /\ wz = FromTail => AtO \in WorkZero .. WorkZero + Width
                             /\ (seen => AtO # WorkZero + Width)
         /\ wz = LastNose => AtO >= WorkZero + Width

Arrived ==
  verb \in {"entry", "return"} /\ pc = "return" =>
    /\ Arriver = WorkZero /\ arrived
    /\ TakenO => AtO \in WorkZero + Spacing .. WorkZero + Spacing + Slide
    /\ TakenF2 => AtF2 = Gone

Retreating ==
  verb = "retreat" /\ pc = "poll" =>
    /\ AtF2 \in WorkZero - 1 .. WorkZero + Spacing + Slide /\ (seen => AtF2 # WorkZero - 1)
    /\ AtF2 + run \in WorkZero - Spacing + 1 .. WorkZero - Spacing + 1 + Slide
    /\ TakenO => AtF2 - AtO \in Spacing .. Spacing + Slide
    /\ wz \in {Twice, Leaving, Passing, Clearing}
    /\ wz = Twice => TakenO /\ ~seen /\ AtO = WorkZero
    /\ wz = Leaving => TakenO /\ AtO \in WorkZero - 1 .. WorkZero /\ (seen => AtO = WorkZero)
    /\ wz = Passing => /\ AtF2 >= WorkZero + Width - 1 /\ (seen => AtF2 >= WorkZero + Width)
                       /\ TakenO => AtO < WorkZero
    /\ wz = Clearing => AtF2 <= WorkZero + Width - 1 /\ (TakenO => AtO < WorkZero)

TurningBack ==
  verb = "retreat" =>
    /\ pc = "turn" => AtF2 = WorkZero - 1 /\ (TakenO => AtO \in Width .. StagingEye - 1)
    /\ pc = "back" => /\ run \in Width - 1 .. Width /\ (seen => run = Width)
                      /\ AtF2 + run = WorkZero - 1 + Width
                      /\ TakenO => AtO + run \in 2 * Width .. StagingEye - 1 + Width
    /\ pc = "return" => /\ AtF2 = WorkZero /\ arrived
                        /\ TakenO => AtO \in Width + 1 .. StagingEye

MovingBlind ==
  verb = "blind" /\ pc \in {"blind", "return"} =>
    /\ run \in 0 .. Spacing
    /\ TakenO => AtO + run \in WorkZero + Spacing .. WorkZero + Spacing + Slide
    /\ TakenF2 => AtF2 = Gone \/ AtF2 + run >= WorkZero + 2 * Spacing

Belt == MadeUp /\ Standing /\ Arriving /\ Arrived /\ Retreating /\ TurningBack /\ MovingBlind

\* Where everybody is while the line works,
Sound == (pc = "lapse" => ~coil) /\ Queue /\ Feed /\ Belt

\* and while it is faulted, or nobody is there to poll.
Stopped ==
  /\ Queue
  /\ ~coil
  /\ \/ Lead \in Calm
     \/ run >= 0 /\ Lead + run < Gone /\ (Idle \/ staged \/ verb = "stage")

Placed == IF pc \in {"faulted", "down"} THEN Stopped ELSE Sound

FeedInv == Core /\ (astray \/ Placed)

\* The line works, and nobody is astray.
Going == Core /\ Sound /\ pc \notin {"faulted", "down"}

-----------------------------------------------------------------------------
(***************************************************************************)
(* Every step keeps the core.                                               *)
(***************************************************************************)
\* A poll leaves a chain a chain.
LEMMA PolledChains ==
  ASSUME NEW level \in BOOLEAN
  PROVE  /\ \A c \in Chains : Advance(c, level) \in Chains
         /\ \A w \in Edges : Advance(w, level) \in Edges
         /\ Advance(<< >>, level) = << >>
BY Polled DEF Chains, Edges

\* The eyes are lit or dark.
LEMMA Levels == Onload \in BOOLEAN /\ Staging \in BOOLEAN /\ WorkAtZero \in BOOLEAN
BY DEF Onload, Staging, WorkAtZero, Eye

\* A poll of the kept watch, and of a verb's own chain.
LEMMA FeedPolled ==
  ASSUME Types
  PROVE  /\ FeedPoll => watch' \in Chains /\ coil' \in BOOLEAN
         /\ ChainPoll => chain' \in Chains /\ coil' \in BOOLEAN
BY Levels, PolledChains DEF FeedPoll, ChainPoll, Types

\* What the caller keeps.
LEMMA SameBooks ==
  ASSUME UNCHANGED <<turn, beat, occ, next, staged>>
  PROVE  /\ Books => Books'
         /\ (TakenO' <=> TakenO) /\ (TakenF1' <=> TakenF1) /\ (TakenF2' <=> TakenF2)
         /\ (Idle' <=> Idle) /\ (EntryBeat' <=> EntryBeat)
BY DEF Books, TakenO, TakenF1, TakenF2, Idle, EntryBeat

\* The stations of the books.
LEMMA InBooks ==
  ASSUME Types, Books
  PROVE  /\ occ["O"] \in 0 .. next - 1 /\ occ["F1"] \in 0 .. next - 1
         /\ occ["F2"] \in 0 .. next - 1
         /\ MaxCubes \in Nat /\ next \in 1 .. MaxCubes + 1 /\ NoPart = 0
         /\ TakenO  => occ["O"] \in Cubes /\ occ["O"] < next /\ AtO \in Away .. Gone
         /\ TakenF1 => occ["F1"] \in Cubes /\ occ["F1"] < next /\ AtF1 \in Away .. Gone
         /\ TakenF2 => occ["F2"] \in Cubes /\ occ["F2"] < next /\ AtF2 \in Away .. Gone
         /\ TakenO /\ TakenF1 => occ["O"] # occ["F1"]
         /\ TakenO /\ TakenF2 => occ["O"] # occ["F2"]
<1>1. {"O", "F1", "F2"} \subseteq Tracked /\ NoPart = 0 /\ MaxCubes \in Nat
  BY Lengths DEF Tracked
<1>2. /\ occ["O"] \in 0 .. next - 1 /\ occ["F1"] \in 0 .. next - 1
      /\ occ["F2"] \in 0 .. next - 1 /\ next \in 1 .. MaxCubes + 1
  BY <1>1 DEF Books, Types
<1>3. /\ TakenO  => occ["O"] \in Cubes /\ occ["O"] < next
      /\ TakenF1 => occ["F1"] \in Cubes /\ occ["F1"] < next
      /\ TakenF2 => occ["F2"] \in Cubes /\ occ["F2"] < next
  BY <1>1, <1>2 DEF TakenO, TakenF1, TakenF2, Cubes
<1>4. \A c \in Cubes : nose[c] \in Away .. Gone
  BY DEF Types
<1>5. /\ TakenO /\ TakenF1 => occ["O"] # occ["F1"]
      /\ TakenO /\ TakenF2 => occ["O"] # occ["F2"]
  BY <1>1 DEF Books, TakenO, TakenF1, TakenF2
<1> QED
  BY <1>1, <1>2, <1>3, <1>4, <1>5 DEF AtO, AtF1, AtF2

\* Nobody is aboard when no station of the books is taken.
LEMMA NobodyAboard ==
  ASSUME NEW S, NEW o \in [Tracked -> S]
  PROVE  o = Empty <=> o["O"] = NoPart /\ o["F1"] = NoPart /\ o["F2"] = NoPart
BY DEF Tracked, Empty

\* The belts move.
LEMMA TickCore ==
  ASSUME Core, Tick
  PROVE  Types' /\ Books' /\ Control' /\ AtRest'
<1>1. /\ Types /\ Books /\ Control /\ AtRest
      /\ UNCHANGED <<coil, watch, pc, verb, wz, chain, arrived, turn, beat, occ, next, staged,
                     astray, troubles>>
      /\ run' = run - Sign(run) /\ seen' = FALSE
      /\ seen \/ pc \in {"blind", "lapse", "down"}
  BY DEF Core, Tick, idVars, verbVars, callerVars, history
<1>2. PICK push \in BOOLEAN : nose' = [c \in Cubes |-> Moved(c, push)]
  BY DEF Tick
<1>3. run \in Int /\ Sign(run) \in {-1, 0, 1} /\ (run = 0 => Sign(run) = 0)
      /\ (run > 0 => Sign(run) = 1) /\ (run < 0 => Sign(run) = -1)
  BY <1>1, Lengths DEF Types, Sign
<1>4. run' \in 1 - 2 * Spacing .. 2 * Spacing + StagingEye /\ (run = 0 => run' = 0)
  BY <1>1, <1>3, Lengths DEF Types
<1>5. \A c \in Cubes : Moved(c, push) \in Away .. Gone
  <2> SUFFICES ASSUME NEW c \in Cubes
               PROVE  Moved(c, push) \in Away .. Gone
    OBVIOUS
  <2> DEFINE n == nose[c]
             Z1 == coil /\ (n <= Width \/ (push /\ c >= next /\ n < StagingEye))
  <2>1. n \in Away .. Gone
    BY <1>1 DEF Types
  <2>2. Moved(c, push) = IF n \in {Away, Gone} THEN n
                         ELSE IF run # 0 /\ n >= 1 THEN n + Sign(run)
                         ELSE IF Z1 THEN n + 1 ELSE n
    BY DEF Moved
  <2> HIDE DEF Z1, n
  <2> QED
    BY <1>3, <2>1, <2>2, Lengths
<1>6. Types'
  BY <1>1, <1>2, <1>4, <1>5 DEF Types
<1>7. Books' /\ Control'
  BY <1>1, SameBooks DEF Control, Doing, InVerb
<1>8. AtRest'
  BY <1>1, <1>4 DEF AtRest
<1> QED
  BY <1>6, <1>7, <1>8

\* The driver polls and asks.
LEMMA DriverCore ==
  ASSUME Core, Arm \/ Sample \/ Poll \/ TurnBack \/ PollBack \/ FeedPhase \/ Nudge \/ PollNudge
               \/ BlindEnds
  PROVE  Types' /\ Books' /\ Control' /\ AtRest'
<1>1. /\ Types /\ Books /\ Control /\ AtRest /\ Places /\ Requests
      /\ MaxTroubles \in Nat
  BY Lengths DEF Core, WatchInv
<1>2. UNCHANGED <<nose, turn, beat, occ, next, staged, troubles, verb>>
  BY DEF Arm, Sample, Poll, TurnBack, PollBack, FeedPhase, Nudge, PollNudge, BlindEnds,
         callerVars, history, verbVars, plantVars
<1>3. Books' /\ (TakenF1' <=> TakenF1) /\ (TakenF2' <=> TakenF2) /\ (Idle' <=> Idle)
  BY <1>1, <1>2, SameBooks
<1>4. ASSUME run' \in 1 - 2 * Spacing .. 2 * Spacing + StagingEye, coil' \in BOOLEAN,
             arrived' \in BOOLEAN, seen' \in BOOLEAN, watch' \in Chains, chain' \in Chains,
             wz' \in Edges, astray' \in BOOLEAN
      PROVE  Types'
  BY <1>1, <1>2, <1>4 DEF Types
<1>5. pc \notin {"free", "held", "lapse", "faulted", "down"}
  BY DEF Arm, Sample, Poll, TurnBack, PollBack, FeedPhase, Nudge, PollNudge, BlindEnds
<1>6. Control'
  BY <1>1, <1>2, <1>3, <1>5 DEF Control, Doing, InVerb
<1>7. ASSUME Types', AtRest'
      PROVE  Types' /\ Books' /\ Control' /\ AtRest'
  BY <1>3, <1>6, <1>7
<1> HIDE <1>1
<1>8. CASE Arm
  <2>1. /\ pc = "arm" /\ verb \in {"intake", "entry", "retreat", "return", "blind"}
        /\ verb = "intake" => pc' = "sample"
        /\ verb = "blind" => pc' = "blind"
        /\ verb \in {"entry", "retreat", "return"} => pc' = "poll"
        /\ seen' = FALSE /\ arrived' = FALSE
        /\ UNCHANGED <<coil, watch, chain, astray>>
    BY <1>1, <1>8 DEF Arm, StartMove, Places, history
  <2>2. wz' = WorkZeroChain(verb) /\ run' = Reach
    BY <1>1, <1>8, MoveStarts DEF Arm
  <2>3. wz' \in Edges /\ (verb = "intake" => wz' = << >>)
    BY <2>1, <2>2, Armed DEF Edges, Chains
  <2>4. run' \in 1 - 2 * Spacing .. 2 * Spacing + StagingEye
        /\ (verb = "intake" => run' = StagingEye + 3)
    <3>1. slide \in {0, StagingEye}
      BY <1>1 DEF Requests
    <3>2. /\ verb # "blind" => run' = Caps[verb] - 0
          /\ verb = "blind" => run' = Caps[verb] - slide \/ run' = Caps[verb] - 0
      BY <2>2 DEF Reach
    <3> QED
      BY <2>1, <3>1, <3>2, CapsAreMoves, Lengths
  <2>5. Types'
    BY <1>1, <1>4, <2>1, <2>3, <2>4 DEF Types
  <2>6. AtRest'
    BY <1>2, <2>1, <2>3, <2>4 DEF AtRest
  <2> QED
    BY <1>7, <2>5, <2>6
<1>9. CASE Sample
  <2>1. /\ pc = "sample" /\ verb \in {"intake", "stage"}
        /\ verb = "intake" => pc' = "poll"
        /\ verb = "stage" => pc' = "feed"
        /\ chain' = JunctionChain /\ seen' = TRUE /\ arrived' = FALSE
        /\ UNCHANGED <<coil, run, watch, wz>>
        /\ astray' = (astray \/ (verb = "intake" /\ PastEye))
    BY <1>1, <1>9 DEF Sample, Places, plantVars
  <2>2. chain' \in Chains
    BY <2>1, Armed DEF Chains
  <2>3. astray' \in BOOLEAN
    BY <1>1, <2>1 DEF Types
  <2>4. Types'
    BY <1>1, <1>4, <2>1, <2>2, <2>3 DEF Types
  <2>5. AtRest'
    BY <1>1, <1>2, <2>1 DEF AtRest
  <2> QED
    BY <1>7, <2>4, <2>5
<1>10. CASE Poll
  <2> DEFINE hit == IF verb = "intake" THEN Staging ELSE wz # << >> /\ wz' = << >>
  <2>1. /\ pc = "poll" /\ verb \in {"intake", "entry", "retreat", "return"}
        /\ wz' = Advance(wz, WorkAtZero) /\ seen' = TRUE /\ astray' = astray
        /\ arrived' = (arrived \/ hit) /\ run' = IF hit THEN 0 ELSE run
        /\ pc' = IF run' # 0 THEN "poll"
                 ELSE IF verb = "retreat" /\ arrived' THEN "turn" ELSE "return"
    BY <1>1, <1>10 DEF Poll, Places, history
  <2>2. /\ verb = "intake" => ChainPoll /\ watch' = watch
        /\ verb # "intake" => FeedPoll /\ chain' = chain
    BY <1>10 DEF Poll
  <2>3. hit \in BOOLEAN
    BY Levels
  <2> HIDE DEF hit
  <2>4. /\ coil' \in BOOLEAN /\ watch' \in Chains /\ chain' \in Chains
    BY <1>1, <2>2, FeedPolled DEF Types
  <2>5. /\ wz' \in Edges /\ (verb = "intake" => wz' = << >>)
    BY <1>1, <2>1, Levels, PolledChains DEF Types, AtRest
  <2>6. ~arrived /\ arrived' \in BOOLEAN /\ (arrived' <=> hit)
    BY <1>1, <2>1, <2>3 DEF AtRest
  <2>7. run' \in 1 - 2 * Spacing .. 2 * Spacing + StagingEye /\ (hit => run' = 0)
    BY <1>1, <2>1, Lengths DEF Types
  <2>8. Types'
    BY <1>1, <1>4, <2>1, <2>4, <2>5, <2>6, <2>7 DEF Types
  <2>9. pc' \in {"poll", "turn", "return"} /\ (pc' # "poll" => run' = 0) /\ (pc' = "poll" => ~hit)
    BY <2>1, <2>7
  <2>10. AtRest'
    BY <1>2, <2>1, <2>5, <2>6, <2>9 DEF AtRest
  <2> QED
    BY <1>7, <2>8, <2>10
<1>11. CASE TurnBack
  <2>1. /\ pc' = "back" /\ arrived' = FALSE /\ seen' = FALSE
        /\ UNCHANGED <<coil, watch, wz, chain, astray>>
    BY <1>11 DEF TurnBack, StartMove, history
  <2>2. run' \in 1 - 2 * Spacing .. 2 * Spacing + StagingEye
    BY <1>1, <1>11, MoveStarts, CapsAreMoves, Lengths DEF TurnBack
  <2>3. Types'
    BY <1>1, <1>4, <2>1, <2>2 DEF Types
  <2>4. AtRest'
    BY <2>1 DEF AtRest
  <2> QED
    BY <1>7, <2>3, <2>4
<1>12. CASE PollBack
  <2>1. /\ pc = "back" /\ verb = "retreat"
        /\ arrived' = (arrived \/ WorkAtZero) /\ seen' = TRUE /\ FeedPoll
        /\ run' = IF WorkAtZero THEN 0 ELSE run
        /\ pc' = IF run' # 0 THEN "back" ELSE "return"
        /\ UNCHANGED <<wz, chain, astray>>
    BY <1>1, <1>12 DEF PollBack, Places, history
  <2>2. run' \in 1 - 2 * Spacing .. 2 * Spacing + StagingEye
    BY <1>1, <2>1, Lengths DEF Types
  <2>3. arrived' \in BOOLEAN /\ watch' \in Chains /\ coil' \in BOOLEAN
    BY <1>1, <2>1, Levels, FeedPolled DEF Types
  <2>4. Types'
    BY <1>1, <1>4, <2>1, <2>2, <2>3 DEF Types
  <2>5. ~arrived /\ (run' # 0 => ~arrived')
    BY <1>1, <2>1 DEF AtRest
  <2>6. AtRest'
    BY <1>2, <2>1, <2>5 DEF AtRest
  <2> QED
    BY <1>7, <2>4, <2>6
<1>13. CASE FeedPhase
  <2>1. /\ pc = "feed" /\ verb = "stage" /\ arrived' = Staging /\ seen' = TRUE /\ ChainPoll
        /\ pc' \in {"return", "feed"} /\ UNCHANGED <<run, watch, wz, astray>>
    BY <1>1, <1>13 DEF FeedPhase, Places, history
  <2>2. arrived' \in BOOLEAN /\ chain' \in Chains /\ coil' \in BOOLEAN
    BY <1>1, <2>1, Levels, FeedPolled
  <2>3. Types'
    BY <1>1, <1>4, <2>1, <2>2 DEF Types
  <2>4. AtRest'
    BY <1>1, <1>2, <2>1 DEF AtRest
  <2> QED
    BY <1>7, <2>3, <2>4
<1>14. CASE Nudge
  <2>1. /\ pc = "feed" /\ verb = "stage" /\ seen' = FALSE /\ pc' = "nudge"
        /\ UNCHANGED <<coil, watch, arrived, wz, chain, astray>>
    BY <1>1, <1>14 DEF Nudge, StartMove, Places, history, verbVars
  <2>2. run' \in 1 - 2 * Spacing .. 2 * Spacing + StagingEye
    BY <1>1, <1>14, MoveStarts, CapsAreMoves, Lengths DEF Nudge
  <2>3. Types'
    BY <1>1, <1>4, <2>1, <2>2 DEF Types
  <2>4. AtRest'
    BY <2>1 DEF AtRest
  <2> QED
    BY <1>7, <2>3, <2>4
<1>15. CASE PollNudge
  <2>1. /\ pc = "nudge" /\ verb = "stage" /\ arrived' = Staging /\ seen' = TRUE /\ ChainPoll
        /\ run' = (IF Staging THEN 0 ELSE run)
        /\ pc' = (IF Staging \/ run = 0 THEN "return" ELSE "nudge")
        /\ UNCHANGED <<watch, wz, astray>>
    BY <1>1, <1>15 DEF PollNudge, Places, history
  <2>2. arrived' \in BOOLEAN /\ chain' \in Chains /\ coil' \in BOOLEAN
    BY <1>1, <2>1, Levels, FeedPolled
  <2>3. run' \in 1 - 2 * Spacing .. 2 * Spacing + StagingEye
    BY <1>1, <2>1, Lengths DEF Types
  <2>4. Types'
    BY <1>1, <1>4, <2>1, <2>2, <2>3 DEF Types
  <2>5. AtRest'
    BY <1>2, <2>1 DEF AtRest
  <2> QED
    BY <1>7, <2>4, <2>5
<1>16. CASE BlindEnds
  <2>1. /\ pc' = "return" /\ run = 0 /\ seen' = FALSE /\ arrived' = TRUE
        /\ coil' = (watch # << >>) /\ UNCHANGED <<run, watch, wz, chain, astray>>
    BY <1>16 DEF BlindEnds, history
  <2>2. Types'
    BY <1>1, <1>4, <2>1 DEF Types
  <2>3. AtRest'
    BY <2>1 DEF AtRest
  <2> QED
    BY <1>7, <2>2, <2>3
<1> QED
  BY <1>8, <1>9, <1>10, <1>11, <1>12, <1>13, <1>14, <1>15, <1>16

\* The caller's steps, and what ends a verb of the feed.
LEMMA CallerCore ==
  ASSUME Core, Caller \/ Returns
  PROVE  Types' /\ Books' /\ Control' /\ AtRest'
<1>1. /\ Types /\ Books /\ Control /\ AtRest /\ Places
  BY DEF Core, WatchInv
<1>2. UNCHANGED <<nose, beat, occ, next, troubles>>
  BY DEF Caller, Returns, FeedTick, Intake, FirstEntry, StageSkipped, Stage, Transition, Stays,
         Suspend, Resume, Begin, callerVars, history, plantVars
<1>3. (TakenO' <=> TakenO) /\ (TakenF1' <=> TakenF1) /\ (TakenF2' <=> TakenF2)
      /\ (EntryBeat' <=> EntryBeat)
  BY <1>2 DEF TakenO, TakenF1, TakenF2, EntryBeat
<1>4. ASSUME coil' \in BOOLEAN, arrived' \in BOOLEAN, seen' \in BOOLEAN, watch' \in Chains,
             wz' \in Edges, chain' \in Chains, astray' \in BOOLEAN, run' = run,
             turn' \in {"idle", "work", "stage", "move"}, staged' \in BOOLEAN
      PROVE  Types'
  BY <1>1, <1>2, <1>4 DEF Types
<1>5. ASSUME UNCHANGED <<turn, staged>>
      PROVE  Books' /\ (Idle' <=> Idle)
  BY <1>1, <1>2, <1>5, SameBooks
<1>6. ASSUME turn' # "idle", turn # "idle", turn' = "stage" => EntryBeat,
             staged' => turn' = "move" /\ EntryBeat
      PROVE  Books'
  BY <1>1, <1>2, <1>3, <1>6 DEF Books, Idle
<1>7. << >> \in Chains /\ << >> \in Edges
  BY DEF Edges, Chains
<1>8. CASE FeedTick
  <2>1. /\ pc = "free" /\ pc' = pc /\ FeedPoll /\ seen' = TRUE
        /\ UNCHANGED <<run, verb, wz, chain, arrived, turn, staged, astray>>
    BY <1>8 DEF FeedTick, verbVars, callerVars, history
  <2>2. Types' /\ Books'
    BY <1>1, <1>4, <1>5, <2>1, FeedPolled DEF Types
  <2>3. Control' /\ AtRest'
    BY <1>1, <2>1 DEF Control, AtRest, Doing, InVerb
  <2> QED
    BY <2>2, <2>3
<1>9. CASE Intake
  <2>1. /\ pc = "free" /\ pc' = "arm" /\ verb' = "intake" /\ turn = "idle"
        /\ seen' = TRUE /\ watch' = << >> /\ coil' = TRUE /\ arrived' = FALSE
        /\ UNCHANGED <<run, wz, chain, turn, staged>> /\ astray' = (astray \/ PastEye)
    BY <1>9 DEF Intake, Begin, callerVars
  <2>2. astray' \in BOOLEAN
    BY <1>1, <2>1 DEF Types, PastEye
  <2>3. Types' /\ Books'
    BY <1>1, <1>4, <1>5, <1>7, <2>1, <2>2 DEF Types
  <2>4. Control' /\ AtRest'
    BY <1>1, <2>1 DEF Control, AtRest, Doing, InVerb, Idle
  <2> QED
    BY <2>3, <2>4
<1>10. CASE FirstEntry
  <2>1. /\ pc = "free" /\ pc' = "arm" /\ verb' = "entry" /\ turn = "idle" /\ next \in Cubes
        /\ UNCHANGED <<run, watch, coil, seen, arrived, wz, chain, turn, staged, astray>>
    BY <1>10 DEF FirstEntry, Ready, Begin, callerVars
  <2>2. Types' /\ Books'
    BY <1>1, <1>4, <1>5, <2>1 DEF Types
  <2>3. Control' /\ AtRest'
    BY <1>1, <1>2, <2>1 DEF Control, AtRest, Doing, InVerb, Idle
  <2> QED
    BY <2>2, <2>3
<1>11. CASE StageSkipped
  <2>1. /\ pc = "free" /\ pc' = pc /\ turn = "stage" /\ turn' = "move" /\ staged' = FALSE
        /\ UNCHANGED <<run, watch, coil, seen, verb, arrived, wz, chain, astray>>
    BY <1>11 DEF StageSkipped, Ready, plantVars, verbVars, history
  <2>2. Types' /\ Books'
    BY <1>1, <1>4, <1>6, <2>1 DEF Types
  <2>3. Control' /\ AtRest'
    BY <1>1, <2>1 DEF Control, AtRest, Doing, InVerb
  <2> QED
    BY <2>2, <2>3
<1>12. CASE Stage
  <2>1. /\ pc = "free" /\ pc' = "sample" /\ verb' = "stage" /\ turn = "stage"
        /\ seen' = TRUE /\ watch' = << >> /\ coil' = TRUE /\ arrived' = FALSE
        /\ UNCHANGED <<run, wz, chain, turn, staged, astray>>
    BY <1>12 DEF Stage, Ready, Begin, callerVars
  <2>2. Types' /\ Books'
    BY <1>1, <1>4, <1>5, <1>7, <2>1 DEF Types
  <2>3. Control' /\ AtRest'
    BY <1>1, <2>1 DEF Control, AtRest, Doing, InVerb, Idle
  <2> QED
    BY <2>2, <2>3
<1>13. CASE Transition \/ Stays
  <2>1. /\ pc = "free" /\ turn = "move" /\ verb' = TransitionVerb
        /\ verb' = "stay" => pc' = "return" /\ arrived' = TRUE /\ coil' = coil
        /\ verb' # "stay" => pc' = "arm" /\ arrived' = arrived
                             /\ coil' = (coil /\ TransitionVerb # "blind")
        /\ verb' = "entry" => next \in Cubes
        /\ UNCHANGED <<run, watch, wz, chain, seen, turn, staged, astray>>
    BY <1>13 DEF Transition, Stays, Ready, Begin, callerVars
  <2>2. coil' \in BOOLEAN
    BY <1>1, <2>1 DEF Types
  <2>3. Types' /\ Books' /\ (Idle' <=> Idle)
    BY <1>1, <1>4, <1>5, <2>1, <2>2 DEF Types
  <2>4. /\ verb' \in {"entry", "retreat", "stay", "return", "blind"}
        /\ verb' = "entry" => staged
        /\ verb' # "entry" => ~(EntryBeat /\ staged)
        /\ verb' = "retreat" => beat = "P2" /\ TakenF2
        /\ verb' = "stay" => beat = "P2" /\ ~TakenF2
        /\ verb' = "return" => beat = "P3" /\ TakenF1
        /\ verb' = "blind" => beat # "P2" /\ (beat = "P3" => ~TakenF1)
    BY <2>1 DEF TransitionVerb, TakenF1, TakenF2
  <2>5. /\ verb' # "entry" => ~staged
        /\ verb' = "blind" => ~TakenF1
    BY <1>1, <2>4 DEF Books, Types, Beats, EntryBeat
  <2>6. Control'
    BY <1>1, <1>2, <1>3, <2>1, <2>3, <2>4, <2>5 DEF Control, Doing, InVerb
  <2>7. AtRest'
    BY <1>1, <2>1, <2>4 DEF AtRest
  <2> QED
    BY <2>3, <2>6, <2>7
<1>14. CASE Suspend
  <2>1. /\ pc \in {"free", "lapse"} /\ pc' = "held" /\ coil' = FALSE
        /\ UNCHANGED <<run, watch, wz, chain, seen, verb, arrived, turn, staged, astray>>
    BY <1>14 DEF Suspend, verbVars, callerVars, history
  <2>2. Types' /\ Books'
    BY <1>1, <1>4, <1>5, <2>1 DEF Types
  <2>3. Control' /\ AtRest'
    BY <1>1, <2>1 DEF Control, AtRest, Doing, InVerb
  <2> QED
    BY <2>2, <2>3
<1>15. CASE Resume
  <2>1. /\ pc \in {"held", "lapse"} /\ pc' = "free" /\ seen' = FALSE
        /\ coil' \in {watch # << >>, coil}
        /\ turn' \in {turn} \cup (IF turn # "work" THEN {}
                                  ELSE {IF EntryBeat THEN "stage" ELSE "move"})
        /\ UNCHANGED <<run, watch, wz, chain, verb, arrived, staged, astray>>
    BY <1>15 DEF Resume, verbVars, history
  <2>2. coil' \in BOOLEAN
    BY <1>1, <2>1 DEF Types
  <2>3. \/ turn' = turn
        \/ turn = "work" /\ turn' \in {"stage", "move"} /\ (turn' = "stage" => EntryBeat)
    BY <2>1
  <2>4. Types'
    BY <1>1, <1>4, <2>1, <2>2, <2>3 DEF Types
  <2>5. Books'
    <3>1. CASE turn' = turn
      BY <1>5, <2>1, <3>1
    <3>2. CASE turn' # turn
      <4>1. staged' => turn' = "move" /\ EntryBeat
        BY <1>1, <2>1, <2>3, <3>2 DEF Books
      <4> QED
        BY <1>6, <2>3, <3>2, <4>1
    <3> QED
      BY <3>1, <3>2
  <2>6. Control' /\ AtRest'
    BY <1>1, <2>1 DEF Control, AtRest, Doing, InVerb
  <2> QED
    BY <2>4, <2>5, <2>6
<1>16. CASE Returns
  <2>1. /\ pc = "return" /\ pc' = "free" /\ verb \in {"intake", "stage"} /\ verb' = verb
        /\ staged' = (verb = "stage" /\ arrived)
        /\ turn' = (IF verb = "stage" THEN "move" ELSE turn)
        /\ watch' = (IF chain # << >> THEN chain ELSE watch) /\ coil' = (coil /\ watch' # << >>)
        /\ wz' = << >> /\ chain' = << >> /\ arrived' = FALSE
        /\ UNCHANGED <<run, seen, astray>>
    BY <1>16 DEF Returns, KeepWatch, Forgets, history
  <2>2. coil' \in BOOLEAN /\ staged' \in BOOLEAN /\ watch' \in Chains
    BY <1>1, <2>1 DEF Types
  <2>3. Types'
    BY <1>1, <1>4, <1>7, <2>1, <2>2 DEF Types
  <2>4. verb = "stage" => turn = "stage" /\ EntryBeat
    BY <1>1, <2>1 DEF Control, Books, Doing, InVerb
  <2>5. verb = "intake" => turn = "idle" /\ staged = FALSE
    BY <1>1, <2>1 DEF Control, Books, Doing, InVerb, Idle, Types
  <2>6. Books'
    <3>1. CASE verb = "stage"
      BY <1>6, <2>1, <2>4, <3>1
    <3>2. CASE verb = "intake"
      <4>1. turn' = turn /\ staged' = staged
        BY <2>1, <2>5, <3>2
      <4> QED
        BY <1>5, <4>1
    <3> QED
      BY <2>1, <3>1, <3>2
  <2>7. Control' /\ AtRest'
    BY <1>1, <2>1 DEF Control, AtRest, Doing, InVerb
  <2> QED
    BY <2>3, <2>6, <2>7
<1> QED
  BY <1>8, <1>9, <1>10, <1>11, <1>12, <1>13, <1>14, <1>15, <1>16 DEF Caller

\* A cube comes onto Z1, or is lifted off.
LEMMA HandCore ==
  ASSUME Core, NEW c \in Cubes, Place(c) \/ TakeOff(c)
  PROVE  Types' /\ Books' /\ Control' /\ AtRest'
<1>1. /\ Types /\ Books /\ Control /\ AtRest /\ Places
      /\ -1 \in Away .. Gone /\ Gone \in Away .. Gone /\ MaxCubes \in Nat
  BY Lengths DEF Core, WatchInv
<1>2. CASE Place(c)
  <2>1. /\ nose' = [nose EXCEPT ![c] = -1]
        /\ UNCHANGED <<coil, run, watch, pc, verb, wz, chain, arrived, seen, turn, beat, occ, next,
                       staged, astray, troubles>>
    BY <1>2 DEF Place, verbVars, callerVars, history
  <2>2. Types' /\ Books' /\ Control'
    BY <1>1, <2>1, SameBooks DEF Types, Control, Doing, InVerb
  <2>3. AtRest'
    BY <1>1, <2>1 DEF AtRest
  <2> QED
    BY <2>2, <2>3
<1>3. CASE TakeOff(c)
  <2>1. /\ nose' = [nose EXCEPT ![c] = Gone] /\ pc = "feed" /\ c = next
        /\ next' = next + 1 /\ seen' = FALSE
        /\ UNCHANGED <<coil, run, watch, pc, verb, wz, chain, arrived, turn, beat, occ, staged,
                       astray, troubles>>
    BY <1>3 DEF TakeOff, verbVars, history
  <2>2. /\ next \in 1 .. MaxCubes + 1 /\ next' \in 1 .. MaxCubes + 1
        /\ 0 .. next - 1 \subseteq 0 .. next' - 1
    BY <1>1, <2>1 DEF Types, Cubes
  <2>3. Types'
    BY <1>1, <2>1, <2>2 DEF Types
  <2>4. Books'
    BY <1>1, <2>1, <2>2 DEF Books, Idle, EntryBeat, TakenO, TakenF1, TakenF2
  <2>5. verb = "stage"
    BY <1>1, <2>1 DEF Places
  <2>6. Control' /\ AtRest'
    BY <1>1, <2>1, <2>5 DEF Control, AtRest, Doing, InVerb, Idle, TakenF1, TakenF2
  <2> QED
    BY <2>3, <2>4, <2>6
<1> QED
  BY <1>2, <1>3

\* The cubes before a later one.
LEMMA LongerRange ==
  ASSUME NEW m \in Int, NEW n \in Int, m <= n
  PROVE  0 .. m - 1 \subseteq 0 .. n - 1
OBVIOUS

\* A range that begins at nobody holds nobody.
LEMMA FirstOfRange ==
  ASSUME NEW n \in Int, 1 <= n
  PROVE  0 \in 0 .. n - 1
<1>1. 0 <= n - 1
  OBVIOUS
<1> QED
  BY <1>1

\* The books a transition leaves.
LEMMA NewBooks ==
  ASSUME Types, Books, NEW v \in {"entry", "retreat", "return", "blind", "stay"},
         v = "entry" => ~TakenF1,
         v = "retreat" => TakenF2,
         v = "blind" => ~TakenF1,
         occ' = Occupancy(v), NEW n \in Int,
         n >= next, v = "entry" => n >= next + 1
  PROVE  /\ occ' \in [Tracked -> 0 .. n - 1]
         /\ \A s, t \in Tracked : occ'[s] = occ'[t] /\ occ'[s] # NoPart => s = t
         /\ TakenF1' => TakenO' /\ ~TakenF2' /\ (v = "retreat" \/ (v = "stay" /\ TakenF1))
         /\ v = "entry" => occ'["O"] = next /\ occ'["F1"] = NoPart /\ occ'["F2"] = occ["O"]
         /\ v \in {"return", "blind"} =>
              occ'["O"] = occ["F1"] /\ occ'["F1"] = NoPart /\ occ'["F2"] = occ["O"]
         /\ v = "retreat" => occ'["O"] = occ["F2"] /\ occ'["F1"] = occ["O"] /\ occ'["F2"] = NoPart
         /\ v = "stay" => occ' = occ
<1>1. /\ occ["O"] \in 0 .. next - 1 /\ occ["F1"] \in 0 .. next - 1 /\ occ["F2"] \in 0 .. next - 1
      /\ next \in 1 .. MaxCubes + 1 /\ MaxCubes \in Nat /\ NoPart = 0
      /\ TakenO /\ TakenF1 => occ["O"] # occ["F1"]
      /\ TakenO /\ TakenF2 => occ["O"] # occ["F2"]
  BY InBooks
<1>2. Tracked = {"O", "F1", "F2"}
  BY DEF Tracked
<1>3. TakenF1 => TakenO /\ ~TakenF2
  BY DEF Books
<1>4. CASE v = "entry"
  <2>1. occ' = [F1 |-> NoPart, F2 |-> occ["O"], O |-> next]
    BY <1>1, <1>4 DEF Occupancy, Shifted
  <2> QED
    BY <1>1, <1>2, <1>4, <2>1 DEF TakenF1
<1>5. CASE v \in {"return", "blind"}
  <2>1. occ' = [F1 |-> NoPart, F2 |-> occ["O"], O |-> occ["F1"]]
    BY <1>5 DEF Occupancy, Shifted
  <2>2. occ["F1"] # NoPart => occ["F1"] # occ["O"]
    BY <1>1, <1>3 DEF TakenF1, TakenO
  <2> QED
    BY <1>1, <1>2, <1>5, <2>1, <2>2 DEF TakenF1
<1>6. CASE v = "retreat"
  <2>1. occ' = [F1 |-> occ["O"], O |-> occ["F2"], F2 |-> NoPart]
    BY <1>6 DEF Occupancy, Retreated
  <2>2. occ["F2"] # NoPart /\ (occ["O"] # NoPart => occ["O"] # occ["F2"])
    BY <1>1, <1>6 DEF TakenF2, TakenO
  <2> QED
    BY <1>1, <1>2, <1>6, <2>1, <2>2 DEF TakenF1, TakenO, TakenF2
<1>7. CASE v = "stay"
  <2>1. occ' = occ
    BY <1>7 DEF Occupancy
  <2>2. occ' \in [Tracked -> 0 .. n - 1]
    <3>1. occ \in [Tracked -> 0 .. next - 1]
      BY DEF Books
    <3>2. next \in Int /\ n \in Int /\ next <= n
      BY <1>1
    <3>3. 0 .. next - 1 \subseteq 0 .. n - 1
      BY <3>2, LongerRange
    <3> QED
      BY <2>1, <3>1, <3>3
  <2> QED
    BY <1>3, <1>7, <2>1, <2>2 DEF Books, TakenF1, TakenO, TakenF2
<1> QED
  BY <1>4, <1>5, <1>6, <1>7

\* What a transition is asked for.
LEMMA VerbAsked ==
  ASSUME Types, Books
  PROVE  /\ TransitionVerb \in {"entry", "retreat", "return", "blind", "stay"}
         /\ TransitionVerb = "entry" => EntryBeat /\ staged /\ ~TakenF1
         /\ TransitionVerb = "retreat" => beat = "P2" /\ TakenF2
         /\ TransitionVerb = "return" => beat = "P3" /\ TakenF1
         /\ TransitionVerb = "blind" => beat # "P2" /\ ~TakenF1
         /\ TransitionVerb = "stay" => beat = "P2" /\ ~TakenF2
         /\ TransitionVerb # "entry" => ~staged
BY DEF TransitionVerb, TakenF1, TakenF2, EntryBeat, Books, Types, Beats

\* A cube moved by hand to a station of the books.
LEMMA Stood ==
  ASSUME Types, NEW c \in Cubes
  PROVE  /\ Stands(c, "O") \in WorkZero .. WorkZero + Slide
         /\ Stands(c, "F1") \in Width + 1 .. StagingEye
         /\ Stands(c, "F2") \in WorkZero + Spacing .. WorkZero + Spacing + Slide
<1>1. nose[c] \in Int
  BY Lengths DEF Types
<1>2. /\ Spot["O"] = WorkZero /\ Spot["F1"] = StagingEye /\ Spot["F2"] = WorkZero + Spacing
  BY DEF Spot
<1>3. /\ Fits(nose[c], "O") <=> nose[c] \in WorkZero .. WorkZero + Width - 1
      /\ Fits(nose[c], "F1") <=> nose[c] \in Width + 1 .. StagingEye
      /\ Fits(nose[c], "F2") <=> nose[c] >= WorkZero + Spacing
  BY DEF Fits
<1>4. /\ Stands(c, "O") = IF Fits(nose[c], "O") /\ nose[c] < WorkZero + StagingEye - Width
                          THEN nose[c] ELSE WorkZero
      /\ Stands(c, "F1") = IF Fits(nose[c], "F1") /\ nose[c] < StagingEye + StagingEye - Width
                           THEN nose[c] ELSE StagingEye
      /\ Stands(c, "F2") =
           IF Fits(nose[c], "F2") /\ nose[c] < WorkZero + Spacing + StagingEye - Width
           THEN nose[c] ELSE WorkZero + Spacing
  BY <1>2 DEF Stands
<1>5. Stands(c, "O") \in WorkZero .. WorkZero + Slide
  BY <1>1, <1>3, <1>4, Lengths
<1>6. Stands(c, "F1") \in Width + 1 .. StagingEye
  BY <1>1, <1>3, <1>4, Lengths
<1>7. Stands(c, "F2") \in WorkZero + Spacing .. WorkZero + Spacing + Slide
  BY <1>1, <1>3, <1>4, Lengths
<1> QED
  BY <1>5, <1>6, <1>7

\* Where a sweep puts a cube: the books name it once at most.
LEMMA OneBranch ==
  ASSUME NEW c, NEW o, NEW f, NEW g, NEW a, NEW b, NEW d, NEW e, NEW r,
         c = o => c # f /\ c # g,
         c = f => c # g,
         r = CASE c = o -> a [] c = f -> b [] c = g -> d [] OTHER -> e
  PROVE  /\ c = o => r = a
         /\ c = f => r = b
         /\ c = g => r = d
         /\ c # o /\ c # f /\ c # g => r = e
<1>1. CASE c = o
  <2>1. c # f /\ c # g
    BY <1>1
  <2> QED
    BY <1>1, <2>1
<1>2. CASE c = f
  <2>1. c # o /\ c # g
    BY <1>2
  <2> QED
    BY <1>2, <2>1
<1>3. CASE c = g
  <2>1. c # o /\ c # f
    BY <1>3
  <2> QED
    BY <1>3, <2>1
<1>4. CASE c # o /\ c # f /\ c # g
  BY <1>4
<1> QED
  BY <1>1, <1>2, <1>3, <1>4

\* The operator's sweep of the belts.
LEMMA Swept ==
  ASSUME Types, NEW books \in [Tracked -> Nat], NEW first \in Int, Sweep(books, first),
         \A s, t \in Tracked : books[s] = books[t] /\ books[s] # NoPart => s = t
  PROVE  /\ next' \in first .. MaxCubes + 1 /\ astray' \in BOOLEAN
         /\ nose' \in [Cubes -> Away .. Gone]
         /\ \A c \in Cubes : c >= next' => nose[c] <= 0
         /\ next' > first => nose[next' - 1] # Away
         /\ \A c \in Cubes : c = books["O"] => nose'[c] \in WorkZero .. WorkZero + Slide
         /\ \A c \in Cubes : c = books["F1"] => nose'[c] \in Width + 1 .. StagingEye
         /\ \A c \in Cubes : c = books["F2"] =>
              nose'[c] \in WorkZero + Spacing .. WorkZero + Spacing + Slide
         /\ \A c \in Cubes : c # books["O"] /\ c # books["F1"] /\ c # books["F2"] =>
              nose'[c] = IF c < next' THEN Gone ELSE nose[c]
         /\ ~astray' => /\ slide = 0
                        /\ books["O"] # NoPart => nose'[books["O"]] = WorkZero
                        /\ astray => \A c \in Cubes : c >= next' => nose[c] = Away
<1>1. PICK n \in first .. MaxCubes + 1 :
        /\ \A c \in Cubes : c >= n => nose[c] <= 0
        /\ n > first => nose[n - 1] # Away
        /\ next' = n
        /\ nose' = [c \in Cubes |->
                     CASE c = books["O"]  -> Stands(c, "O")
                       [] c = books["F1"] -> Stands(c, "F1")
                       [] c = books["F2"] -> Stands(c, "F2")
                       [] OTHER           -> IF c < n THEN Gone ELSE nose[c]]
        /\ astray' = \/ slide # 0
                     \/ books["O"] # NoPart /\ nose'[books["O"]] # WorkZero
                     \/ astray /\ \E c \in Cubes : c >= n /\ nose[c] # Away
  BY DEF Sweep
<1>2. PICK o : o = books["O"]
  OBVIOUS
<1>3. PICK f : f = books["F1"]
  OBVIOUS
<1>4. PICK g : g = books["F2"]
  OBVIOUS
<1>5. \A c \in Cubes : c # NoPart
  BY Lengths DEF Cubes, NoPart
<1>6. ASSUME NEW c \in Cubes
      PROVE  /\ nose'[c] \in Away .. Gone
             /\ c = o => nose'[c] \in WorkZero .. WorkZero + Slide
             /\ c = f => nose'[c] \in Width + 1 .. StagingEye
             /\ c = g => nose'[c] \in WorkZero + Spacing .. WorkZero + Spacing + Slide
             /\ c # o /\ c # f /\ c # g => nose'[c] = IF c < n THEN Gone ELSE nose[c]
  <2>1. PICK a : a = Stands(c, "O")
    OBVIOUS
  <2>2. PICK b : b = Stands(c, "F1")
    OBVIOUS
  <2>3. PICK d : d = Stands(c, "F2")
    OBVIOUS
  <2>4. PICK e : e = IF c < n THEN Gone ELSE nose[c]
    OBVIOUS
  <2>5. PICK r : r = nose'[c]
    OBVIOUS
  <2>6. r = CASE c = o -> a [] c = f -> b [] c = g -> d [] OTHER -> e
    BY <1>1, <1>2, <1>3, <1>4, <2>1, <2>2, <2>3, <2>4, <2>5
  <2>7. c = o => c # f /\ c # g
    BY <1>2, <1>3, <1>4, <1>5 DEF Tracked
  <2>8. c = f => c # g
    BY <1>2, <1>3, <1>4, <1>5 DEF Tracked
  <2>9. /\ c = o => r = a
        /\ c = f => r = b
        /\ c = g => r = d
        /\ c # o /\ c # f /\ c # g => r = e
    BY <2>6, <2>7, <2>8, OneBranch
  <2>10. /\ a \in WorkZero .. WorkZero + Slide /\ b \in Width + 1 .. StagingEye
         /\ d \in WorkZero + Spacing .. WorkZero + Spacing + Slide
    BY <2>1, <2>2, <2>3, Stood
  <2>11. e \in Away .. Gone
    BY <2>4, Lengths DEF Types
  <2>12. r \in Away .. Gone
    <3>1. r = a \/ r = b \/ r = d \/ r = e
      BY <2>9
    <3> QED
      BY <2>10, <2>11, <3>1, Lengths
  <2> QED
    BY <2>4, <2>5, <2>9, <2>10, <2>12
<1>7. nose' \in [Cubes -> Away .. Gone]
  <2>1. nose' = [c \in Cubes |-> nose'[c]]
    BY <1>1
  <2> QED
    BY <1>6, <2>1
<1>8. astray' \in BOOLEAN
  <2>1. astray \in BOOLEAN
    BY DEF Types
  <2> QED
    BY <1>1, <2>1
<1>9. ~astray' => /\ slide = 0
                  /\ o # NoPart => nose'[o] = WorkZero
                  /\ astray => \A c \in Cubes : c >= next' => nose[c] = Away
  BY <1>1, <1>2
<1>10. /\ next' \in first .. MaxCubes + 1
       /\ \A c \in Cubes : c >= next' => nose[c] <= 0
       /\ next' > first => nose[next' - 1] # Away
       /\ next' = n
  BY <1>1
<1> QED
  BY <1>2, <1>3, <1>4, <1>6, <1>7, <1>8, <1>9, <1>10

\* A transition is over.
LEMMA ConcludesCore ==
  ASSUME Core, Concludes
  PROVE  Types' /\ Books' /\ Control' /\ AtRest'
<1>1. /\ Types /\ Books /\ Control /\ AtRest /\ Places
      /\ MaxCubes \in Nat /\ << >> \in Chains /\ << >> \in Edges
  BY Lengths DEF Core, WatchInv, Chains, Edges
<1>2. /\ pc = "return" /\ verb \notin {"intake", "stage"} /\ run = 0
      /\ wz' = << >> /\ chain' = << >> /\ arrived' = FALSE /\ verb' = verb /\ seen' = seen
      /\ astray' = astray /\ troubles' = troubles
  BY <1>1 DEF Concludes, Forgets, AtRest, history
<1>3. CASE arrived
  <2>1. /\ pc' = "free" /\ occ' = Occupancy(verb)
        /\ next' = IF verb = "entry" THEN next + 1 ELSE next
        /\ beat' = IF turn = "idle" THEN "P1" ELSE NextBeat(beat)
        /\ turn' = IF occ' = Empty THEN "idle" ELSE "work"
        /\ staged' = FALSE
        /\ nose' = nose /\ coil' = coil /\ run' = run /\ watch' = watch
    BY <1>3 DEF Concludes, Arrives, plantVars
  <2>2. verb \in {"entry", "retreat", "return", "blind", "stay"}
    BY <1>1, <1>2 DEF Places
  <2>3. /\ verb = "entry" => ~TakenF1 /\ next \in Cubes
        /\ verb = "retreat" => beat = "P2" /\ TakenF2 /\ turn = "move"
        /\ verb = "return" => TakenF1 /\ beat = "P3"
        /\ verb = "blind" => ~TakenF1 /\ beat # "P2"
        /\ verb = "stay" => beat = "P2" /\ ~TakenF2 /\ turn = "move"
    <3>1. InVerb
      BY <1>2 DEF InVerb
    <3>2. /\ verb = "entry" => next \in Cubes /\ (Idle \/ staged)
          /\ verb = "retreat" => beat = "P2" /\ TakenF2 /\ turn = "move"
          /\ verb = "return" => beat = "P3" /\ TakenF1
          /\ verb = "blind" => beat # "P2" /\ ~TakenF1
          /\ verb = "stay" => beat = "P2" /\ ~TakenF2 /\ turn = "move"
      BY <1>1, <3>1 DEF Control, Doing
    <3>3. (Idle => ~TakenF1) /\ (staged => EntryBeat) /\ (TakenF1 => ~EntryBeat)
      BY <1>1 DEF Books
    <3> QED
      BY <3>2, <3>3
  <2>4. next' \in 1 .. MaxCubes + 1 /\ next' >= next /\ (verb = "entry" => next' >= next + 1)
    BY <1>1, <2>1, <2>3 DEF Types, Cubes
  <2>5. /\ occ' \in [Tracked -> 0 .. next' - 1]
        /\ \A s, t \in Tracked : occ'[s] = occ'[t] /\ occ'[s] # NoPart => s = t
        /\ TakenF1' => TakenO' /\ ~TakenF2' /\ (verb = "retreat" \/ (verb = "stay" /\ TakenF1))
    BY <1>1, <2>1, <2>2, <2>3, <2>4, NewBooks
  <2>6. beat \in Beats /\ NextBeat("P1") = "P2" /\ NextBeat("P2") = "P3" /\ NextBeat("P3") = "P4"
        /\ NextBeat("P4") = "P1"
    BY <1>1 DEF Types, NextBeat
  <2>7. beat' \in Beats
    BY <2>1, <2>6 DEF Beats
  <2>8. TakenF1' => ~EntryBeat'
    <3>1. SUFFICES ASSUME TakenF1'
                   PROVE  beat' \notin {"P1", "P4"}
      BY DEF EntryBeat
    <3>2. beat' = "P3"
      BY <2>1, <2>3, <2>5, <2>6, <3>1
    <3> QED
      BY <3>2
  <2>9. Idle' <=> ~TakenO' /\ ~TakenF1' /\ ~TakenF2'
    <3>1. occ' = Empty <=> occ'["O"] = NoPart /\ occ'["F1"] = NoPart /\ occ'["F2"] = NoPart
      BY <2>5, NobodyAboard
    <3>2. turn' = "idle" <=> occ' = Empty
      BY <2>1
    <3> QED
      BY <3>1, <3>2 DEF Idle, TakenO, TakenF1, TakenF2
  <2>10. Books'
    BY <2>1, <2>5, <2>8, <2>9 DEF Books
  <2>11. Types'
    BY <1>1, <1>2, <2>1, <2>4, <2>7 DEF Types
  <2>12. Control' /\ AtRest'
    BY <1>2, <2>1 DEF Control, AtRest, Doing, InVerb
  <2> QED
    BY <2>10, <2>11, <2>12
<1>4. CASE ~arrived
  <2>1. /\ watch' = << >> /\ coil' = FALSE /\ run' = 0 /\ pc' = "faulted" /\ nose' = nose
        /\ UNCHANGED <<turn, beat, occ, next, staged>>
    BY <1>4 DEF Concludes, GiveUp, callerVars
  <2>2. Types'
    BY <1>1, <1>2, <2>1, Lengths DEF Types
  <2>3. Books'
    BY <1>1, <2>1, SameBooks
  <2>4. Control' /\ AtRest'
    BY <2>1 DEF Control, AtRest, Doing, InVerb
  <2> QED
    BY <2>2, <2>3, <2>4
<1> QED
  BY <1>3, <1>4

\* Faults, deaths and the next process.
LEMMA TroubleCore ==
  ASSUME Core, Fails \/ PauseFails \/ Dies \/ Restart
  PROVE  Types' /\ Books' /\ Control' /\ AtRest'
<1>1. /\ Types /\ Books /\ Control /\ AtRest /\ Places
      /\ MaxTroubles \in Nat /\ << >> \in Chains /\ << >> \in Edges
      /\ 0 \in 1 - 2 * Spacing .. 2 * Spacing + StagingEye
  BY Lengths DEF Core, WatchInv, Chains, Edges
<1>2. /\ nose' = nose /\ UNCHANGED <<turn, beat, occ, next, staged>>
  BY DEF Fails, PauseFails, Dies, Restart, GiveUp, callerVars, plantVars
<1>3. Books' /\ (TakenF1' <=> TakenF1) /\ (TakenF2' <=> TakenF2) /\ (Idle' <=> Idle)
  BY <1>1, <1>2, SameBooks
<1>4. troubles' \in 0 .. MaxTroubles
  BY <1>1 DEF Fails, PauseFails, Dies, Restart, Trouble, Types
<1>5. CASE Fails
  <2>1. /\ watch' = << >> /\ coil' = FALSE /\ run' = 0 /\ pc' = "faulted"
        /\ wz' = << >> /\ chain' = << >> /\ arrived' = FALSE /\ UNCHANGED <<seen, astray>>
    BY <1>5 DEF Fails, GiveUp, Forgets
  <2>2. Types'
    BY <1>1, <1>2, <1>4, <2>1 DEF Types
  <2>3. Control' /\ AtRest'
    BY <2>1 DEF Control, AtRest, Doing, InVerb
  <2> QED
    BY <1>3, <2>2, <2>3
<1>6. CASE PauseFails
  <2>1. /\ pc \in {"free", "held"} /\ pc' \in {"lapse", "free"} /\ seen' = FALSE
        /\ astray' = (astray \/ coil)
        /\ UNCHANGED <<coil, run, watch, verb, wz, chain, arrived>>
    BY <1>6 DEF PauseFails, plantVars, verbVars
  <2>2. Types'
    BY <1>1, <1>2, <1>4, <2>1 DEF Types
  <2>3. Control' /\ AtRest'
    BY <1>1, <2>1 DEF Control, AtRest, Doing, InVerb
  <2> QED
    BY <1>3, <2>2, <2>3
<1>7. CASE Dies
  <2>1. /\ pc' = "down" /\ astray' = (astray \/ coil)
        /\ wz' = << >> /\ chain' = << >> /\ arrived' = FALSE
        /\ UNCHANGED <<coil, run, watch, seen>>
    BY <1>7 DEF Dies, Forgets, plantVars
  <2>2. Types'
    BY <1>1, <1>2, <1>4, <2>1 DEF Types
  <2>3. Control' /\ AtRest'
    BY <2>1 DEF Control, AtRest, Doing, InVerb
  <2> QED
    BY <1>3, <2>2, <2>3
<1>8. CASE Restart
  <2>1. /\ pc' \in {"free", "faulted"} /\ watch' = << >> /\ coil' = FALSE /\ run' = 0
        /\ astray' = (astray \/ (occ = Empty /\ \E c \in Cubes : nose[c] \in 1 .. Gone - 1))
        /\ UNCHANGED <<seen, verb, wz, chain, arrived>>
    BY <1>8 DEF Restart, verbVars
  <2>2. Types'
    BY <1>1, <1>2, <1>4, <2>1 DEF Types
  <2>3. Control' /\ AtRest'
    BY <2>1 DEF Control, AtRest, Doing, InVerb
  <2> QED
    BY <1>3, <2>2, <2>3
<1> QED
  BY <1>5, <1>6, <1>7, <1>8

\* The operator clears a faulted line.
LEMMA ClearCore ==
  ASSUME Core, Clear
  PROVE  Types' /\ Books' /\ Control' /\ AtRest'
<1>1. /\ Types /\ Books /\ AtRest /\ MaxCubes \in Nat
  BY Lengths DEF Core
<1>2. /\ pc = "faulted" /\ pc' = "free" /\ Sweep(Empty, next)
      /\ occ' = Empty /\ turn' = "idle" /\ staged' = FALSE
      /\ UNCHANGED <<coil, run, watch, verb, wz, chain, arrived, seen, beat, troubles>>
  BY DEF Clear, verbVars
<1>3. /\ Empty \in [Tracked -> Nat] /\ next \in Int
      /\ \A s, t \in Tracked : Empty[s] = Empty[t] /\ Empty[s] # NoPart => s = t
  BY <1>1, Lengths DEF Empty, Types, NoPart
<1>4. /\ next' \in next .. MaxCubes + 1 /\ astray' \in BOOLEAN
      /\ nose' \in [Cubes -> Away .. Gone]
  BY <1>1, <1>2, <1>3, Swept
<1>5. next' \in 1 .. MaxCubes + 1
  BY <1>1, <1>4 DEF Types
<1>6. Types'
  BY <1>1, <1>2, <1>4, <1>5 DEF Types
<1>7. /\ occ' \in [Tracked -> 0 .. next' - 1] /\ ~TakenO' /\ ~TakenF1' /\ ~TakenF2'
      /\ \A s \in Tracked : occ'[s] = NoPart
  <2>1. \A s \in Tracked : occ'[s] = NoPart
    BY <1>2 DEF Empty
  <2>2. 0 \in 0 .. next' - 1
    <3>1. next' \in Int /\ 1 <= next'
      BY <1>1, <1>5
    <3> QED
      BY <3>1, FirstOfRange, Zenon
  <2>3. occ' \in [Tracked -> 0 .. next' - 1]
    BY <1>2, <2>2 DEF Empty, NoPart
  <2>4. {"O", "F1", "F2"} \subseteq Tracked
    BY DEF Tracked
  <2> QED
    BY <2>1, <2>3, <2>4 DEF TakenO, TakenF1, TakenF2
<1>8. Books'
  BY <1>2, <1>7 DEF Books, Idle
<1>9. Control' /\ AtRest'
  BY <1>1, <1>2 DEF Control, AtRest, Doing, InVerb
<1> QED
  BY <1>6, <1>8, <1>9

\* The operator's confirmation: what is confirmed, and what becomes of it.
LEMMA Confirmed ==
  ASSUME Core, Confirm
  PROVE  \E v \in {"entry", "retreat", "return", "blind", "stay"} :
           /\ v = "entry" => ~TakenF1 /\ EntryBeat /\ turn = "move" /\ staged
           /\ v = "retreat" => beat = "P2" /\ TakenF2
           /\ v = "return" => beat = "P3" /\ TakenF1
           /\ v = "blind" => beat # "P2" /\ ~TakenF1
           /\ occ' = Occupancy(v) /\ beat' \in Beats
           /\ Sweep(Occupancy(v), IF v = "entry" THEN next + 1 ELSE next)
           /\ v = "stay" /\ beat' # beat => beat = "P2"
           /\ beat' \in {beat, NextBeat(beat)}
<1>1. Types /\ Books
  BY DEF Core
<1>2. PICK done \in {FALSE, turn = "move"} :
        LET v == IF done THEN TransitionVerb ELSE "stay"
        IN /\ occ' = Occupancy(v)
           /\ Sweep(Occupancy(v), IF v = "entry" THEN next + 1 ELSE next)
           /\ beat' \in {beat, IF done THEN NextBeat(beat) ELSE beat}
  BY DEF Confirm
<1>3. beat \in Beats /\ NextBeat(beat) \in Beats
  BY <1>1 DEF Types, NextBeat, Beats
<1>4. CASE done
  <2>1. PICK v : v = TransitionVerb
    OBVIOUS
  <2>2. /\ occ' = Occupancy(v) /\ beat' \in {beat, NextBeat(beat)}
        /\ Sweep(Occupancy(v), IF v = "entry" THEN next + 1 ELSE next)
    BY <1>2, <1>4, <2>1
  <2>3. /\ v \in {"entry", "retreat", "return", "blind", "stay"}
        /\ v = "entry" => EntryBeat /\ staged /\ ~TakenF1
        /\ v = "retreat" => beat = "P2" /\ TakenF2
        /\ v = "return" => beat = "P3" /\ TakenF1
        /\ v = "blind" => beat # "P2" /\ ~TakenF1
        /\ v = "stay" => beat = "P2"
    BY <1>1, <2>1, VerbAsked
  <2>4. turn = "move"
    BY <1>2, <1>4
  <2> QED
    BY <1>3, <2>2, <2>3, <2>4
<1>5. CASE ~done
  BY <1>1, <1>2, <1>3, <1>5
<1> QED
  BY <1>4, <1>5

\* The operator confirms the occupancy of a faulted line.
LEMMA ConfirmCore ==
  ASSUME Core, Confirm
  PROVE  Types' /\ Books' /\ Control' /\ AtRest'
<1>1. /\ Types /\ Books /\ AtRest /\ MaxCubes \in Nat
  BY Lengths DEF Core
<1>2. PICK v \in {"entry", "retreat", "return", "blind", "stay"} :
           /\ v = "entry" => ~TakenF1 /\ EntryBeat /\ turn = "move" /\ staged
           /\ v = "retreat" => beat = "P2" /\ TakenF2
           /\ v = "return" => beat = "P3" /\ TakenF1
           /\ v = "blind" => beat # "P2" /\ ~TakenF1
           /\ occ' = Occupancy(v) /\ beat' \in Beats
           /\ Sweep(Occupancy(v), IF v = "entry" THEN next + 1 ELSE next)
           /\ v = "stay" /\ beat' # beat => beat = "P2"
           /\ beat' \in {beat, NextBeat(beat)}
  BY Confirmed
<1>3. /\ pc = "faulted" /\ pc' = "free" /\ occ' # Empty /\ turn' = "work" /\ staged' = FALSE
      /\ UNCHANGED <<coil, run, watch, verb, wz, chain, arrived, seen, troubles>>
  BY DEF Confirm, verbVars
<1>4. PICK first \in Int : first = IF v = "entry" THEN next + 1 ELSE next
  BY <1>1 DEF Types
<1>5. /\ first >= next /\ (v = "entry" => first >= next + 1)
      /\ first >= 1 /\ next \in 1 .. MaxCubes + 1
  BY <1>1, <1>4 DEF Types
<1>6. /\ occ' \in [Tracked -> Nat]
      /\ \A s, t \in Tracked : occ'[s] = occ'[t] /\ occ'[s] # NoPart => s = t
  <2>1. /\ occ' \in [Tracked -> 0 .. first - 1]
        /\ \A s, t \in Tracked : occ'[s] = occ'[t] /\ occ'[s] # NoPart => s = t
    BY <1>1, <1>2, <1>5, NewBooks
  <2>2. 0 .. first - 1 \subseteq Nat
    OBVIOUS
  <2> QED
    BY <2>1, <2>2
<1>7. /\ next' \in first .. MaxCubes + 1 /\ astray' \in BOOLEAN
      /\ nose' \in [Cubes -> Away .. Gone]
  <2>1. Sweep(occ', first)
    BY <1>2, <1>4
  <2> QED
    BY <1>1, <1>6, <2>1, Swept
<1>8. next' \in 1 .. MaxCubes + 1 /\ next' >= next /\ (v = "entry" => next' >= next + 1)
  BY <1>1, <1>5, <1>7
<1>9. /\ occ' \in [Tracked -> 0 .. next' - 1]
      /\ TakenF1' => TakenO' /\ ~TakenF2' /\ (v = "retreat" \/ (v = "stay" /\ TakenF1))
  BY <1>1, <1>2, <1>8, NewBooks
<1>10. Types'
  BY <1>1, <1>2, <1>3, <1>7, <1>8 DEF Types
<1>11. TakenF1' => ~EntryBeat'
  <2>1. NextBeat("P2") = "P3"
    BY DEF NextBeat
  <2>2. TakenF1 => ~EntryBeat
    BY <1>1 DEF Books
  <2>3. EntryBeat <=> beat \in {"P1", "P4"}
    BY DEF EntryBeat
  <2>4. EntryBeat' <=> beat' \in {"P1", "P4"}
    BY DEF EntryBeat
  <2> QED
    BY <1>2, <1>9, <2>1, <2>2, <2>3, <2>4
<1>12. ~Idle' /\ (TakenO' \/ TakenF1' \/ TakenF2')
  <2>1. occ' = Empty <=> occ'["O"] = NoPart /\ occ'["F1"] = NoPart /\ occ'["F2"] = NoPart
    BY <1>6, NobodyAboard
  <2> QED
    BY <1>2, <1>3, <2>1 DEF Idle, TakenO, TakenF1, TakenF2
<1>13. Books'
  BY <1>3, <1>6, <1>9, <1>11, <1>12 DEF Books
<1>14. Control' /\ AtRest'
  BY <1>1, <1>3 DEF Control, AtRest, Doing, InVerb
<1> QED
  BY <1>10, <1>13, <1>14

\* The core holds in the beginning
LEMMA CoreInit ==
  ASSUME Init
  PROVE  Core
<1>1. /\ nose = [c \in Cubes |-> Away] /\ coil = FALSE /\ run = 0 /\ watch = << >> /\ pc = "free"
      /\ verb = "stay" /\ wz = << >> /\ chain = << >> /\ arrived = FALSE /\ seen = FALSE
      /\ turn = "idle" /\ beat = "P1" /\ occ = Empty /\ next = 1 /\ staged = FALSE
      /\ astray = FALSE /\ troubles = 0
  BY DEF Init
<1>2. /\ MaxCubes \in Nat /\ MaxTroubles \in Nat /\ Away \in Away .. Gone
      /\ 0 \in 1 - 2 * Spacing .. 2 * Spacing + StagingEye
      /\ 0 \in 0 .. MaxTroubles /\ 1 \in 1 .. MaxCubes + 1
  <2>1. /\ MaxCubes \in Nat /\ MaxTroubles \in Nat /\ Away \in Away .. Gone
    BY Lengths
  <2>2. 0 \in 1 - 2 * Spacing .. 2 * Spacing + StagingEye
    BY Lengths
  <2> QED
    BY <2>1, <2>2
<1>3. Types
  BY <1>1, <1>2 DEF Types, Chains, Edges, Beats
<1>4. /\ occ \in [Tracked -> 0 .. next - 1] /\ ~TakenO /\ ~TakenF1 /\ ~TakenF2
      /\ \A s \in Tracked : occ[s] = NoPart
  <2>1. \A s \in Tracked : occ[s] = NoPart
    BY <1>1 DEF Empty
  <2>2. {"O", "F1", "F2"} \subseteq Tracked /\ next - 1 = 0
    BY <1>1 DEF Tracked
  <2>3. occ \in [Tracked -> {0}] /\ 0 .. 0 = {0}
    BY <1>1 DEF Empty, NoPart
  <2> QED
    BY <2>1, <2>2, <2>3 DEF TakenO, TakenF1, TakenF2
<1>5. Books
  BY <1>1, <1>4 DEF Books, Idle
<1>6. Control /\ AtRest
  BY <1>1 DEF Control, AtRest, Doing, InVerb
<1> QED
  BY <1>3, <1>5, <1>6, WatchInit DEF Core

\* and is kept by every step.
LEMMA CoreStep ==
  ASSUME Core, [Next]_vars
  PROVE  Core'
<1>1. WatchInv'
  BY WatchStep DEF Core
<1>2. CASE UNCHANGED vars
  <2>1. UNCHANGED <<nose, coil, run, watch, pc, verb, wz, chain, arrived, seen, turn, beat, occ, next,
                    staged, astray, troubles>>
    BY <1>2 DEF vars, plantVars, verbVars, callerVars, history
  <2>2. Types' /\ Books' /\ Control' /\ AtRest'
    <3>1. Types /\ Books /\ Control /\ AtRest
      BY DEF Core
    <3>2. Types'
      BY <2>1, <3>1 DEF Types
    <3>3. Books' /\ Control'
      BY <2>1, <3>1, SameBooks DEF Control, Doing, InVerb
    <3>4. AtRest'
      BY <2>1, <3>1 DEF AtRest
    <3> QED
      BY <3>2, <3>3, <3>4
  <2> QED
    BY <1>1, <2>2 DEF Core
<1>3. CASE Next
  <2>1. Types' /\ Books' /\ Control' /\ AtRest'
    <3>1. CASE Tick
      BY <3>1, TickCore
    <3>2. CASE \E c \in Cubes : Place(c) \/ TakeOff(c)
      BY <3>2, HandCore
    <3>3. CASE Driver
      BY <3>3, DriverCore, CallerCore, ConcludesCore DEF Driver
    <3>4. CASE Caller
      BY <3>4, CallerCore
    <3>5. CASE Fails \/ PauseFails \/ Dies \/ Restart
      BY <3>5, TroubleCore
    <3>6. CASE Clear
      BY <3>6, ClearCore
    <3>7. CASE Confirm
      BY <3>7, ConfirmCore
    <3> QED
      BY <1>3, <3>1, <3>2, <3>3, <3>4, <3>5, <3>6, <3>7 DEF Next
  <2> QED
    BY <1>1, <2>1 DEF Core
<1> QED
  BY <1>2, <1>3

-----------------------------------------------------------------------------
(***************************************************************************)
(* What the invariant says of positions and eyes while the line works.      *)
(***************************************************************************)
\* Everybody's position is on the line.
LEMMA Positions ==
  ASSUME Types, Queue, Books
  PROVE  /\ \A c \in Cubes : nose[c] \in Away .. Gone
         /\ Lead \in Away .. Gone /\ Second \in Calm
         /\ Lead # Away => next \in Cubes /\ Lead = nose[next]
         /\ TakenO  => occ["O"] \in Cubes /\ occ["O"] < next /\ AtO \in Away .. Gone
         /\ TakenF1 => occ["F1"] \in Cubes /\ occ["F1"] < next /\ AtF1 \in Away .. Gone
         /\ TakenF2 => occ["F2"] \in Cubes /\ occ["F2"] < next /\ AtF2 \in Away .. Gone
<1>1. \A c \in Cubes : nose[c] \in Away .. Gone
  BY DEF Types
<1>2. next \in 1 .. MaxCubes + 1 /\ MaxCubes \in Nat
  BY Lengths DEF Types
<1>3. Lead \in Away .. Gone
  BY <1>1, Lengths DEF Lead, Nose
<1>4. Second \in Calm
  <2>1. CASE next + 1 \in Cubes
    BY <2>1, <1>2 DEF Queue, Second, Nose
  <2> QED
    BY <2>1 DEF Second, Nose, Calm
<1>5. Lead # Away => next \in Cubes /\ Lead = nose[next]
  BY DEF Lead, Nose
<1> QED
  BY <1>1, <1>3, <1>4, <1>5, InBooks

\* What is left of a nudge in vain is made up for in the shuffle that follows.
LEMMA Drifting ==
  ASSUME Going
  PROVE  /\ slide \in {0, StagingEye}
         /\ slide # 0 => turn = "move" /\ EntryBeat /\ ~staged
         /\ Adrift \in 0 .. StagingEye
         /\ pc # "nudge" /\ ~(Doing("stage") /\ pc = "return") => Adrift = slide
         /\ Doing("stage") \/ Doing("intake") \/ Doing("entry") \/ Idle => slide = 0
<1>1. Places /\ Requests /\ Types /\ Control /\ Books /\ Stages /\ MadeUp
  BY DEF Going, Core, WatchInv, Sound, Feed, Belt
<1>2. slide \in {0, StagingEye} /\ (slide # 0 => turn = "move" /\ EntryBeat /\ ~staged)
  BY <1>1 DEF Requests, MadeUp
<1>3. pc = "nudge" => run \in 0 .. StagingEye
  <2>1. pc = "nudge" => Doing("stage")
    BY <1>1 DEF Places, Doing, InVerb
  <2> QED
    BY <1>1, <2>1, Lengths DEF Stages
<1>4. Adrift \in 0 .. StagingEye
  BY <1>2, <1>3, Lengths DEF Adrift
<1>5. pc # "nudge" /\ ~(Doing("stage") /\ pc = "return") => Adrift = slide
  BY DEF Adrift
<1>6. Doing("stage") \/ Doing("intake") \/ Doing("entry") \/ Idle => slide = 0
  BY <1>1, <1>2 DEF Control, Idle
<1> QED
  BY <1>2, <1>4, <1>5, <1>6

\* Nobody who has not entered is past O.
LEMMA LeadBehind ==
  ASSUME Going
  PROVE  Lead \in Away .. WorkZero
<1>1. /\ Places /\ Types /\ Queue /\ Books /\ Control /\ Feed /\ Belt
      /\ pc \notin {"faulted", "down"}
  BY DEF Going, Core, WatchInv, Sound
<1>2. Lead \in Away .. Gone
  BY <1>1, Positions
<1>3. CASE ~InVerb
  <2>1. (Idle => Lead <= StagingEye) /\ (staged => Lead = StagingEye)
        /\ (~Idle /\ ~staged => Lead \in Calm)
    BY <1>1, <1>3 DEF Feed, LeadWaits, NextWaits, IdleFeed, Waits, Doing
  <2>2. \A n \in Away .. Gone : n <= StagingEye \/ n \in Calm => n \in Away .. WorkZero
    BY Lengths DEF Calm
  <2>3. StagingEye <= StagingEye
    BY Lengths
  <2>4. Lead <= StagingEye \/ Lead \in Calm
    BY <2>1, <2>3
  <2> QED
    BY <1>2, <2>2, <2>4, Zenon
<1>4. CASE Doing("stage") \/ Doing("intake")
  <2>1. \A n \in Away .. Gone : n <= StagingEye \/ n \in Calm => n \in Away .. WorkZero
    BY Lengths DEF Calm
  <2>2. Width <= StagingEye /\ \A n \in Away .. Gone : n <= Width => n <= StagingEye
    BY Lengths
  <2>3. CASE Doing("intake")
    <3>1. Lead <= Width \/ Lead <= StagingEye
      BY <1>1, <2>3 DEF Feed, Intakes, Doing, InVerb, Places
    <3> QED
      BY <1>2, <2>1, <2>2, <3>1, Zenon
  <2>4. CASE Doing("stage")
    <3>1. Lead \in {0, 1} \/ Lead \in Calm \/ Lead \in 0 .. StagingEye
      BY <1>1, <2>4 DEF Feed, Stages, Missed, Doing
    <3>2. Lead <= StagingEye \/ Lead \in Calm
      BY <3>1, Lengths
    <3> QED
      BY <1>2, <2>1, <3>2, Zenon
  <2> QED
    BY <1>4, <2>3, <2>4
<1>5. CASE Doing("entry")
  BY <1>1, <1>2, <1>5, Lengths
     DEF Feed, NextWaits, Belt, Arriving, Arrived, Arriver, Doing, Places
<1>6. CASE InVerb /\ verb \in {"retreat", "return", "blind", "stay"}
  BY <1>1, <1>2, <1>6, Lengths DEF Feed, LeadWaits, Waits, Calm, Doing, Control, Idle
<1> QED
  BY <1>1, <1>3, <1>4, <1>5, <1>6 DEF Doing, Places

\* Who entered is clear of the junction.
LEMMA ClearOfJunction ==
  ASSUME Going
  PROVE  /\ TakenO  => AtO \in Width .. Gone
         /\ TakenF1 => AtF1 \in Width .. Gone
         /\ TakenF2 => AtF2 \in Width .. Gone
<1>1. /\ Places /\ Types /\ Queue /\ Books /\ Control /\ Belt
      /\ pc \notin {"faulted", "down"}
  BY DEF Going, Core, WatchInv, Sound
<1>2. /\ Lead \in Int /\ run \in Int
      /\ TakenO => AtO \in Int /\ AtO <= Gone
      /\ TakenF1 => AtF1 \in Int /\ AtF1 <= Gone
      /\ TakenF2 => AtF2 \in Int /\ AtF2 <= Gone
  BY <1>1, Positions, Lengths DEF Types
<1> DEFINE Still == pc \in {"free", "held", "lapse", "arm", "sample", "feed", "nudge"}
                    \/ verb \in {"intake", "stage", "stay"}
<1>3. CASE Still
  <2>1. Standing /\ Adrift \in 0 .. StagingEye
    BY <1>1, Drifting DEF Belt
  <2> QED
    BY <1>2, <1>3, <2>1, Lengths DEF Standing
<1>4. CASE verb \in {"entry", "return"} /\ pc = "poll"
  <2>1. Arriving
    BY <1>1 DEF Belt
  <2>2. /\ verb = "entry" => ~TakenF1 /\ Arriver = Lead
        /\ verb = "return" => TakenF1 /\ Arriver = AtF1
    BY <1>1, <1>4 DEF Types, Control, Books, Doing, InVerb, EntryBeat, Arriver
  <2> QED
    BY <1>2, <1>4, <2>1, <2>2, Lengths DEF Arriving
<1>5. CASE verb \in {"entry", "return"} /\ pc = "return"
  <2>1. Arrived
    BY <1>1 DEF Belt
  <2>2. /\ verb = "entry" => ~TakenF1 /\ Arriver = Lead
        /\ verb = "return" => TakenF1 /\ Arriver = AtF1
    BY <1>1, <1>5 DEF Types, Control, Books, Doing, InVerb, EntryBeat, Arriver
  <2> QED
    BY <1>2, <1>5, <2>1, <2>2, Lengths DEF Arrived
<1>6. CASE verb = "retreat" /\ pc \in {"poll", "turn", "back", "return"}
  <2>1. Retreating /\ TurningBack
    BY <1>1 DEF Belt
  <2>2. ~TakenF1 /\ TakenF2
    BY <1>1, <1>6 DEF Control, Books, Doing, InVerb
  <2> QED
    BY <1>2, <1>6, <2>1, <2>2, Lengths DEF Retreating, TurningBack
<1>7. CASE verb = "blind" /\ pc \in {"blind", "return"}
  <2>1. MovingBlind
    BY <1>1 DEF Belt
  <2>2. ~TakenF1
    BY <1>1, <1>7 DEF Control, Doing, InVerb
  <2> QED
    BY <1>2, <1>7, <2>1, <2>2, Lengths DEF MovingBlind
<1> QED
  BY <1>1, <1>3, <1>4, <1>5, <1>6, <1>7 DEF Places

\* An eye sees the cube at the head, the one behind it, and those of the books.
LEMMA Sees ==
  ASSUME Going, NEW e \in {0, StagingEye, WorkZero}
  PROVE  /\ Eye(e) \in BOOLEAN
         /\ Eye(e) <=> \/ Lead \in e .. e + Width - 1 \/ Second \in e .. e + Width - 1
                       \/ TakenO /\ AtO \in e .. e + Width - 1
                       \/ TakenF1 /\ AtF1 \in e .. e + Width - 1
                       \/ TakenF2 /\ AtF2 \in e .. e + Width - 1
<1> DEFINE Dark(n) == n \notin e .. e + Width - 1
<1>1. Types /\ Queue /\ Books
  BY DEF Going, Core, Sound
<1>2. e \in Nat /\ Dark(Away) /\ Dark(Gone)
  BY Lengths
<1>3. Eye(e) <=> \E c \in Cubes : ~Dark(nose[c])
  BY DEF Eye
<1>4. /\ ~Dark(Lead) => next \in Cubes /\ Lead = nose[next]
      /\ ~Dark(Second) => next + 1 \in Cubes /\ Second = nose[next + 1]
  BY <1>2 DEF Lead, Second, Nose
<1>5. \A c \in Cubes : ~Dark(nose[c]) =>
        ~Dark(Lead) \/ ~Dark(Second) \/ \E st \in Tracked : occ[st] = c
  <2> SUFFICES ASSUME NEW c \in Cubes, ~Dark(nose[c])
               PROVE  ~Dark(Lead) \/ ~Dark(Second) \/ \E st \in Tracked : occ[st] = c
    OBVIOUS
  <2>1. next \in Nat /\ c \in Nat
    BY <1>1, Lengths DEF Types, Cubes
  <2>2. CASE c < next
    BY <1>1, <1>2, <2>2 DEF Queue
  <2>3. CASE c = next
    BY <2>3 DEF Lead, Nose
  <2>4. CASE c = next + 1
    BY <2>4 DEF Second, Nose
  <2>5. CASE c > next + 1
    BY <1>1, <1>2, <2>5 DEF Queue
  <2> QED
    BY <2>1, <2>2, <2>3, <2>4, <2>5
<1>6. \A c \in Cubes : \A st \in Tracked : occ[st] = c =>
        (TakenO /\ AtO = nose[c]) \/ (TakenF1 /\ AtF1 = nose[c]) \/ (TakenF2 /\ AtF2 = nose[c])
  BY DEF Tracked, Cubes, NoPart, TakenO, TakenF1, TakenF2, AtO, AtF1, AtF2
<1>7. /\ TakenO  => occ["O"] \in Cubes
      /\ TakenF1 => occ["F1"] \in Cubes
      /\ TakenF2 => occ["F2"] \in Cubes
  BY <1>1, Positions
<1>8. (\E c \in Cubes : ~Dark(nose[c])) <=>
        \/ ~Dark(Lead) \/ ~Dark(Second) \/ (TakenO /\ ~Dark(AtO))
        \/ (TakenF1 /\ ~Dark(AtF1)) \/ (TakenF2 /\ ~Dark(AtF2))
  <2> HIDE DEF Dark
  <2>1. ASSUME NEW c \in Cubes, ~Dark(nose[c])
        PROVE  \/ ~Dark(Lead) \/ ~Dark(Second) \/ (TakenO /\ ~Dark(AtO))
               \/ (TakenF1 /\ ~Dark(AtF1)) \/ (TakenF2 /\ ~Dark(AtF2))
    BY <1>5, <1>6, <2>1
  <2> QED
    BY <1>4, <1>7, <2>1 DEF AtO, AtF1, AtF2
<1>9. Eye(e) \in BOOLEAN
  BY DEF Eye
<1> QED
  BY <1>3, <1>8, <1>9

\* The eye at the junction sees only who is about to board.
LEMMA OnloadSees ==
  ASSUME Going
  PROVE  Onload \in BOOLEAN /\ (Onload <=> Lead \in 0 .. Width - 1 \/ Second = 0)
<1>1. Second \in Calm /\ Lead \in Away .. WorkZero
  BY Positions, LeadBehind DEF Going, Core, Sound
<1>2. Onload \in BOOLEAN
  BY Sees DEF Onload
<1>3. Onload <=> \/ Lead \in 0 .. 0 + Width - 1 \/ Second \in 0 .. 0 + Width - 1
                 \/ TakenO /\ AtO \in 0 .. 0 + Width - 1
                 \/ TakenF1 /\ AtF1 \in 0 .. 0 + Width - 1
                 \/ TakenF2 /\ AtF2 \in 0 .. 0 + Width - 1
  BY Sees DEF Onload
<1> QED
  BY <1>1, <1>2, <1>3, ClearOfJunction, Lengths DEF Calm

\* The eye at the staging line in the verbs that wait for it.
LEMMA StagingSees ==
  ASSUME Going, Idle \/ Doing("stage"), Lead <= StagingEye
  PROVE  Staging \in BOOLEAN /\ (Staging <=> Lead = StagingEye)
<1>1. Second \in Calm /\ Lead \in Away .. WorkZero
  BY Positions, LeadBehind DEF Going, Core, Sound
<1>2. Places /\ Books /\ Control /\ Standing
  BY DEF Going, Core, WatchInv, Sound, Belt
<1>3. ~TakenF1
  BY <1>2 DEF Books, Control, EntryBeat
<1>4. Doing("stage") => (TakenO => AtO >= WorkZero) /\ (TakenF2 => AtF2 >= WorkZero)
  <2>1. Adrift \in 0 .. StagingEye
    BY Drifting
  <2> QED
    BY <1>2, <2>1, Lengths, ClearOfJunction DEF Standing, Doing
<1>5. Idle => ~TakenO /\ ~TakenF2
  BY <1>2 DEF Books
<1>6. Staging \in BOOLEAN
  BY Sees DEF Staging
<1>7. Staging <=> \/ Lead \in StagingEye .. StagingEye + Width - 1
                  \/ Second \in StagingEye .. StagingEye + Width - 1
                  \/ TakenO /\ AtO \in StagingEye .. StagingEye + Width - 1
                  \/ TakenF1 /\ AtF1 \in StagingEye .. StagingEye + Width - 1
                  \/ TakenF2 /\ AtF2 \in StagingEye .. StagingEye + Width - 1
  BY Sees DEF Staging
<1> QED
  BY <1>1, <1>3, <1>4, <1>5, <1>6, <1>7, Lengths, ClearOfJunction DEF Calm

\* The eye at O.
LEMMA WorkSees ==
  ASSUME Going
  PROVE  /\ WorkAtZero \in BOOLEAN
         /\ WorkAtZero <=> \/ Lead = WorkZero
                           \/ TakenO /\ AtO \in WorkZero .. WorkZero + Width - 1
                           \/ TakenF1 /\ AtF1 \in WorkZero .. WorkZero + Width - 1
                           \/ TakenF2 /\ AtF2 \in WorkZero .. WorkZero + Width - 1
<1>1. Second \in Calm /\ Lead \in Away .. WorkZero
  BY Positions, LeadBehind DEF Going, Core, Sound
<1>2. WorkAtZero \in BOOLEAN
  BY Sees DEF WorkAtZero
<1>3. WorkAtZero <=> \/ Lead \in WorkZero .. WorkZero + Width - 1
                     \/ Second \in WorkZero .. WorkZero + Width - 1
                     \/ TakenO /\ AtO \in WorkZero .. WorkZero + Width - 1
                     \/ TakenF1 /\ AtF1 \in WorkZero .. WorkZero + Width - 1
                     \/ TakenF2 /\ AtF2 \in WorkZero .. WorkZero + Width - 1
  BY Sees DEF WorkAtZero
<1> QED
  BY <1>1, <1>2, <1>3, Lengths DEF Calm

-----------------------------------------------------------------------------
(***************************************************************************)
(* The driver's steps: nobody moves, the driver looks and asks.             *)
(***************************************************************************)
\* Nobody moves while cubes, books and queue stay as they are.
LEMMA Unmoved ==
  ASSUME Queue, UNCHANGED <<nose, occ, next>>
  PROVE  /\ Queue'
         /\ Lead' = Lead /\ Second' = Second /\ AtO' = AtO /\ AtF1' = AtF1 /\ AtF2' = AtF2
         /\ (TakenO' <=> TakenO) /\ (TakenF1' <=> TakenF1) /\ (TakenF2' <=> TakenF2)
BY DEF Queue, Lead, Second, Nose, AtO, AtF1, AtF2, TakenO, TakenF1, TakenF2

\* A move is asked for; Z2 has not moved yet.
LEMMA ArmKeeps ==
  ASSUME Going, Arm
  PROVE  Sound'
<1>1. /\ Types /\ Queue /\ Books /\ Control /\ AtRest /\ Feed /\ Belt /\ Places /\ Requests
      /\ pc # "down"
  BY DEF Going, Core, Sound, WatchInv
<1>2. /\ pc = "arm" /\ verb' = verb /\ verb \in {"intake", "entry", "retreat", "return", "blind"}
      /\ verb = "intake" => pc' = "sample"
      /\ verb = "blind" => pc' = "blind"
      /\ verb \in {"entry", "retreat", "return"} => pc' = "poll"
      /\ seen' = FALSE /\ arrived' = FALSE
      /\ UNCHANGED <<nose, coil, watch, chain, turn, beat, occ, next, staged, slide>>
  BY <1>1 DEF Arm, StartMove, Places, callerVars
<1>3. wz' = WorkZeroChain(verb) /\ run' = Reach
  <2>1. Reach \in Int /\ Reach # 0
    BY <1>1, <1>2, CapsAreMoves, Lengths DEF Reach, Requests
  <2> QED
    BY <1>1, <2>1, MoveStarts DEF Arm
<1>4. /\ verb = "intake" => run' = StagingEye + 3
      /\ verb \in {"entry", "return"} => run' = 2 * Spacing - 1
      /\ verb = "retreat" => run' = 1 - 2 * Spacing
      /\ verb = "blind" => run' = Spacing - slide
  <2>1. verb = "blind" /\ ~EntryBeat => slide = 0
    BY Drifting
  <2>2. slide \in Int
    BY Drifting, Lengths
  <2> QED
    BY <1>3, <2>1, <2>2, CapsAreMoves, Lengths DEF Reach
<1>5. /\ verb \in {"intake", "blind"} => wz' = << >>
      /\ verb \in {"entry", "return"} => (TakenO => wz' = Whole) /\ (~TakenO => wz' = LastNose)
      /\ verb = "retreat" => (TakenO => wz' = Twice) /\ (~TakenO => wz' = Passing)
  BY <1>3, Armed DEF TakenO
<1>6. /\ Queue' /\ Lead' = Lead /\ Second' = Second
      /\ AtO' = AtO /\ AtF1' = AtF1 /\ AtF2' = AtF2
      /\ (TakenO' <=> TakenO) /\ (TakenF1' <=> TakenF1) /\ (TakenF2' <=> TakenF2)
  BY <1>1, <1>2, Unmoved
<1>7. Feed'
  <2>1. LeadWaits' /\ NextWaits'
    BY <1>1, <1>2, <1>6 DEF Feed, LeadWaits, NextWaits, Waits, Doing, InVerb, Idle, Control
  <2>2. IdleFeed' /\ Stages'
    BY <1>1, <1>2 DEF IdleFeed, Stages, Doing, InVerb
  <2>3. Intakes'
    BY <1>1, <1>2, <1>6 DEF Feed, Intakes, Doing, InVerb
  <2> QED
    BY <2>1, <2>2, <2>3 DEF Feed
<1>8. Belt'
  <2>1. /\ Lead \in Int /\ slide \in {0, StagingEye}
        /\ TakenO => AtO \in Int
        /\ TakenF1 => AtF1 \in Int
        /\ TakenF2 => AtF2 \in Int
    BY <1>1, Positions, Lengths, Drifting
  <2>2. MadeUp'
    BY <1>1, <1>2 DEF Belt, MadeUp, EntryBeat
  <2>3. Adrift = slide /\ Adrift' = slide
    BY <1>2, Drifting DEF Adrift, Doing
  <2>4. Slid = staged /\ Slid' = staged
    BY <1>1, <1>2 DEF Slid, Types, Doing
  <2>5. /\ TakenO => AtO - slide \in WorkZero .. WorkZero + Slide
                     /\ (~staged => AtO - slide = WorkZero)
        /\ TakenF1 => AtF1 \in Width + 1 .. StagingEye
        /\ TakenF2 => AtF2 >= WorkZero + Spacing
                      /\ (AtF2 = Gone \/ AtF2 - slide >= WorkZero + Spacing)
        /\ TakenF2 /\ beat = "P2" => AtF2 <= WorkZero + Spacing + Slide
    BY <1>1, <1>2, <2>3, <2>4 DEF Belt, Standing
  <2>6. Standing'
    BY <1>1, <1>2, <1>6, <2>3, <2>4, <2>5 DEF Standing
  <2>7. CASE verb \in {"entry", "return"}
    <3>1. /\ verb = "entry" => ~TakenF1 /\ Arriver' = Lead /\ Lead = StagingEye
          /\ verb = "return" => /\ TakenF1 /\ TakenO /\ ~TakenF2 /\ Arriver' = AtF1 /\ ~staged
      BY <1>1, <1>2, <1>6, <2>7
         DEF Arriver, Feed, NextWaits, Control, Books, Doing, InVerb, EntryBeat
    <3>2. slide = 0
      BY <1>1, <1>2, <2>7, Drifting DEF Control, Doing, InVerb, EntryBeat
    <3>3. Arriving'
      BY <1>2, <1>4, <1>5, <1>6, <2>1, <2>5, <2>7, <3>1, <3>2, Lengths, ChainsDiffer DEF Arriving
    <3> QED
      BY <1>2, <2>2, <2>6, <2>7, <3>3
         DEF Belt, Arrived, Retreating, TurningBack, MovingBlind
  <2>8. CASE verb = "retreat"
    <3>1. TakenF2 /\ beat = "P2" /\ ~staged
      BY <1>1, <1>2, <2>8 DEF Control, Doing, InVerb
    <3>2. slide = 0
      BY <3>1, Drifting DEF EntryBeat
    <3>3. Retreating'
      BY <1>2, <1>4, <1>5, <1>6, <2>1, <2>5, <2>8, <3>1, <3>2, Lengths, ChainsDiffer DEF Retreating
    <3> QED
      BY <1>2, <2>2, <2>6, <2>8, <3>3
         DEF Belt, Arrived, Arriving, TurningBack, MovingBlind
  <2>9. CASE verb = "blind"
    <3>1. ~staged
      BY <1>1, <1>2, <2>9 DEF Control, Doing, InVerb
    <3>2. MovingBlind'
      BY <1>2, <1>4, <1>6, <2>1, <2>5, <2>9, <3>1, Lengths DEF MovingBlind
    <3> QED
      BY <1>2, <2>2, <2>6, <2>9, <3>2
         DEF Belt, Arrived, Arriving, Retreating, TurningBack
  <2>10. CASE verb = "intake"
    BY <1>2, <2>2, <2>6, <2>10 DEF Belt, Arrived, Arriving, Retreating, TurningBack, MovingBlind
  <2> QED
    BY <1>2, <2>7, <2>8, <2>9, <2>10
<1> QED
  BY <1>2, <1>6, <1>7, <1>8 DEF Sound

\* A poll of a chain w follows the crossing, whether Z1 runs or not.
LEMMA CrossingPolled ==
  ASSUME Going, NEW w \in Chains, Follows(w), NEW x, x = Advance(w, Onload)
  PROVE  /\ x \in Chains
         /\ x = Whole => Lead \in Calm /\ Lead # 0
         /\ x = FromTail => Lead \in 0 .. Width /\ Lead # Width
         /\ x = LastNose => Lead >= Width /\ Second # 0
         /\ x = << >> => Lead >= Width + 1
         /\ x = Whole => w = Whole
<1>1. /\ Second \in Calm /\ Lead \in Away .. WorkZero
      /\ Second # Away => Lead >= Width
      /\ Second = 0 => Lead >= Width + 1
  BY Positions, LeadBehind DEF Going, Core, Sound, Queue
<1>2. Onload \in BOOLEAN /\ (Onload <=> Lead \in 0 .. Width - 1 \/ Second = 0)
  BY OnloadSees
<1>3. CASE w = Whole
  <2>1. x = IF Onload THEN FromTail ELSE Whole
    BY <1>2, <1>3, Polled
  <2>2. Lead \in Calm /\ (Onload <=> Lead = 0)
    <3>1. \A n \in Calm : (n \in 0 .. Width - 1 <=> n = 0) /\ ~(n >= Width + 1)
      BY Lengths DEF Calm
    <3>2. Lead \in Calm
      BY <1>3 DEF Follows
    <3>3. Second # 0
      BY <1>1, <3>1, <3>2, Zenon
    <3>4. Lead \in 0 .. Width - 1 <=> Lead = 0
      BY <3>1, <3>2, Zenon
    <3> QED
      BY <1>2, <3>2, <3>3, <3>4
  <2> QED
    BY <1>3, <2>1, <2>2, Lengths, ChainsDiffer DEF Calm, Chains
<1>4. CASE w = FromTail
  <2>1. x = IF Onload THEN FromTail ELSE LastNose
    BY <1>2, <1>4, Polled
  <2>2. Lead \in 0 .. Width /\ (Onload <=> Lead # Width) /\ Second # 0
    BY <1>1, <1>2, <1>4, Lengths, ChainsDiffer DEF Follows
  <2>3. CASE Onload
    <3>1. x = FromTail
      BY <2>1, <2>3
    <3> QED
      BY <2>2, <2>3, <3>1, ChainsDiffer DEF Chains
  <2>4. CASE ~Onload
    <3>1. x = LastNose
      BY <2>1, <2>4
    <3>2. Lead = Width /\ Lead >= Width
      BY <2>2, <2>4, Lengths
    <3> QED
      BY <2>2, <3>1, <3>2, ChainsDiffer DEF Chains
  <2> QED
    BY <2>3, <2>4
<1>5. CASE w = LastNose
  <2>1. x = IF Onload THEN << >> ELSE LastNose
    BY <1>2, <1>5, Polled
  <2>2. Lead >= Width /\ (Onload <=> Second = 0) /\ (Second = 0 => Lead >= Width + 1)
    BY <1>1, <1>2, <1>5, Lengths, ChainsDiffer DEF Follows
  <2> QED
    BY <2>1, <2>2, Lengths, ChainsDiffer DEF Chains
<1>6. CASE w = << >>
  <2>1. x = << >>
    BY <1>2, <1>3, <1>6, Polled
  <2> QED
    BY <1>6, <2>1, ChainsDiffer DEF Follows, Chains
<1> QED
  BY <1>3, <1>4, <1>5, <1>6 DEF Chains

\* A poll of the chain of a stage whose cube was lifted off.
LEMMA MissPolled ==
  ASSUME Going, Missed, ChainPoll
  PROVE  /\ chain' \in {LastNose, << >>}
         /\ chain' = LastNose => Lead # 0
<1>1. /\ Second \in Calm /\ Lead \in Away .. WorkZero
      /\ Second # Away => Lead >= Width
  BY Positions, LeadBehind DEF Going, Core, Sound, Queue
<1>2. Onload \in BOOLEAN /\ (Onload <=> Lead = 0)
  <2>1. Onload \in BOOLEAN /\ (Onload <=> Lead \in 0 .. Width - 1 \/ Second = 0)
    BY OnloadSees
  <2> QED
    BY <1>1, <2>1, Lengths DEF Missed, Calm
<1>3. chain' = Advance(chain, Onload)
  BY DEF ChainPoll
<1>4. /\ chain = FromTail => chain' = IF Onload THEN FromTail ELSE LastNose
      /\ chain = LastNose => chain' = IF Onload THEN << >> ELSE LastNose
      /\ chain = << >> => chain' = << >>
  BY <1>2, <1>3, Polled
<1> QED
  BY <1>2, <1>4, ChainsDiffer DEF Missed

\* A poll of the kept watch cuts the feed for the cube that waits.
LEMMA WatchPolled ==
  ASSUME Going, FeedPoll, NEW n, Waits(n), Onload <=> n = 0
  PROVE  /\ watch' \in {LastNose, << >>} /\ watch' \in Chains /\ coil' \in BOOLEAN
         /\ n \in Calm /\ (coil' => watch' = LastNose /\ n # 0)
<1>1. Types /\ Onload \in BOOLEAN
  BY OnloadSees DEF Going, Core
<1>2. watch' = Advance(watch, Onload) /\ coil' = (coil /\ (watch # << >> => watch' # << >>))
  BY DEF FeedPoll
<1>3. n \in Calm /\ watch \in {LastNose, << >>} /\ (coil => watch = LastNose)
  BY DEF Waits
<1>4. /\ watch = LastNose => watch' = IF Onload THEN << >> ELSE LastNose
      /\ watch = << >> => watch' = << >>
  BY <1>1, <1>2, Polled
<1> QED
  BY <1>1, <1>2, <1>3, <1>4, ChainsDiffer DEF Types, Chains

\* ONLOAD is sampled: the chain begins with the cube on the eye, or before it.
LEMMA SampleKeeps ==
  ASSUME Going, Sample, ~astray'
  PROVE  Sound'
<1>1. /\ Types /\ Queue /\ Books /\ Control /\ AtRest /\ Feed /\ Belt /\ Places /\ CoilInv
  BY DEF Going, Core, Sound, WatchInv
<1>2. /\ pc = "sample" /\ verb \in {"intake", "stage"} /\ verb' = verb
      /\ verb = "intake" => pc' = "poll"
      /\ verb = "stage" => pc' = "feed"
      /\ chain' = JunctionChain /\ seen' = TRUE /\ arrived' = FALSE
      /\ UNCHANGED <<nose, coil, run, watch, wz, turn, beat, occ, next, staged, slide>>
      /\ verb = "intake" => ~PastEye
  <2>1. /\ pc = "sample" /\ verb \in {"intake", "stage"} /\ verb' = verb
        /\ pc' = IF verb = "stage" THEN "feed" ELSE "poll"
        /\ chain' = JunctionChain /\ seen' = TRUE /\ arrived' = FALSE
        /\ UNCHANGED <<nose, coil, run, watch, wz, turn, beat, occ, next, staged, slide>>
    BY <1>1 DEF Sample, Places, callerVars, plantVars
  <2>2. astray' = (astray \/ (verb = "intake" /\ PastEye))
    BY DEF Sample
  <2>3. verb = "intake" => ~PastEye
    BY <2>2, Zenon
  <2> QED
    BY <2>1, <2>3
<1>3. /\ Queue' /\ Lead' = Lead /\ Second' = Second
      /\ AtO' = AtO /\ AtF1' = AtF1 /\ AtF2' = AtF2
      /\ (TakenO' <=> TakenO) /\ (TakenF1' <=> TakenF1) /\ (TakenF2' <=> TakenF2)
  BY <1>1, <1>2, Unmoved
<1>4. /\ Lead \in Away .. Width - 1 /\ (verb = "stage" => Lead \in {0, 1})
      /\ Second = Away
  <2>1. Lead \in Away .. WorkZero /\ (Second # Away => Lead >= Width)
        /\ (Lead # Away => next \in Cubes /\ Lead = nose[next])
    BY <1>1, Positions, LeadBehind DEF Queue
  <2>2. verb = "stage" => Lead \in {0, 1}
    BY <1>1, <1>2 DEF Feed, Stages, Doing, InVerb
  <2>3. verb = "intake" => Lead <= Width
    BY <1>1, <1>2 DEF Feed, Intakes, Doing, InVerb
  <2>4. verb = "intake" /\ Lead # Away => Lead \notin Width .. StagingEye
    BY <1>2, <2>1 DEF PastEye
  <2>5. Lead \in Away .. Width - 1
    BY <1>2, <2>1, <2>2, <2>3, <2>4, Lengths
  <2> QED
    BY <2>1, <2>2, <2>5, Lengths
<1>5. IF Lead \in 0 .. Width - 1 THEN chain' = FromTail ELSE chain' = Whole
  <2>1. Onload <=> Lead \in 0 .. Width - 1
    BY <1>4, OnloadSees, Lengths
  <2> QED
    BY <1>2, <2>1, Armed
<1>6. Follows(chain)'
  BY <1>2, <1>3, <1>4, <1>5, Lengths, ChainsDiffer DEF Follows, Calm
<1>7. Feed'
  <2>1. LeadWaits' /\ NextWaits'
    BY <1>1, <1>2, <1>3
       DEF Feed, LeadWaits, NextWaits, Waits, Doing, InVerb, Idle, Control, Books
  <2>2. IdleFeed'
    BY <1>2 DEF IdleFeed, InVerb
  <2>3. Intakes'
    <3>1. CASE verb = "intake"
      <4>1. run = StagingEye + 3 /\ run' = run /\ pc' = "poll" /\ Lead' = Lead
        BY <1>1, <1>2, <1>3, <3>1 DEF AtRest
      <4>2. Lead <= StagingEye /\ Lead # StagingEye
        BY <1>4, Lengths
      <4>3. run \in 0 .. StagingEye + 3 /\ run # 0
        BY <4>1, Lengths
      <4> QED
        BY <1>6, <4>1, <4>2, <4>3 DEF Intakes
    <3>2. CASE verb # "intake"
      BY <1>2, <3>2 DEF Intakes, Doing
    <3> QED
      BY <3>1, <3>2
  <2>4. Stages'
    BY <1>2, <1>3, <1>4, <1>5, <1>6, Lengths, ChainsDiffer DEF Stages, Doing
  <2> QED
    BY <2>1, <2>2, <2>3, <2>4 DEF Feed
<1>8. Belt'
  <2>1. MadeUp' /\ Adrift' = Adrift
    BY <1>1, <1>2 DEF Belt, MadeUp, EntryBeat, Adrift, Doing
  <2>2. Standing'
    BY <1>1, <1>2, <1>3, <2>1 DEF Belt, Standing, Slid, Doing
  <2> QED
    BY <1>2, <2>1, <2>2 DEF Belt, Arrived, Arriving, Retreating, TurningBack, MovingBlind
<1> QED
  BY <1>2, <1>3, <1>7, <1>8 DEF Sound

\* A poll of an intake: the first cube stops at STAGING, or the cap runs out.
LEMMA PollIntakeKeeps ==
  ASSUME Going, Poll, verb = "intake"
  PROVE  Sound'
<1>1. /\ Types /\ Queue /\ Books /\ Control /\ AtRest /\ Feed /\ Belt
  BY DEF Going, Core, Sound
<1>2. /\ pc = "poll" /\ verb' = verb
      /\ arrived' = (arrived \/ Staging) /\ (Staging => run' = 0) /\ (~Staging => run' = run)
      /\ run' # 0 => pc' = "poll"
      /\ run' = 0 => pc' = "return"
      /\ seen' = TRUE /\ ChainPoll
      /\ UNCHANGED <<nose, watch, turn, beat, occ, next, staged, slide>>
  BY DEF Poll, callerVars
<1>3. /\ Queue' /\ Lead' = Lead /\ Second' = Second
      /\ AtO' = AtO /\ AtF1' = AtF1 /\ AtF2' = AtF2
      /\ (TakenO' <=> TakenO) /\ (TakenF1' <=> TakenF1) /\ (TakenF2' <=> TakenF2)
  BY <1>1, <1>2, Unmoved
<1>4. /\ Follows(chain) /\ Idle /\ ~arrived
      /\ run \in 0 .. StagingEye + 3 /\ Lead <= StagingEye
  BY <1>1, <1>2 DEF Feed, Intakes, Doing, InVerb, Control, AtRest
<1>5. Follows(chain)'
  <2>1. chain' = Advance(chain, Onload) /\ coil' = (coil /\ (chain # << >> => chain' # << >>))
    BY <1>2 DEF ChainPoll
  <2>2. coil => chain # << >>
    BY <1>4 DEF Follows
  <2> QED
    BY <1>1, <1>3, <1>4, <2>1, <2>2, CrossingPolled DEF Follows, Types
<1>6. Staging \in BOOLEAN /\ (Staging <=> Lead = StagingEye)
  BY <1>2, <1>4, StagingSees
<1>7. /\ arrived' <=> Lead = StagingEye
      /\ run' \in 0 .. StagingEye + 3
      /\ pc' \in {"poll", "return"} /\ (pc' = "poll" => ~arrived' /\ run' # 0)
  BY <1>2, <1>4, <1>6, Lengths
<1>8. Feed'
  <2>1. LeadWaits' /\ NextWaits'
    BY <1>1, <1>2, <1>4 DEF LeadWaits, NextWaits, Doing, Idle, Books
  <2>2. IdleFeed' /\ Stages'
    BY <1>2, <1>7 DEF IdleFeed, Stages, Doing, InVerb
  <2>3. Intakes'
    BY <1>2, <1>3, <1>4, <1>5, <1>7, Lengths DEF Intakes
  <2> QED
    BY <2>1, <2>2, <2>3 DEF Feed
<1>9. Belt'
  <2>1. Standing' /\ MadeUp'
    BY <1>1, <1>2, <1>3, <1>4 DEF Standing, Books, Belt, MadeUp, Idle
  <2> QED
    BY <1>2, <2>1 DEF Belt, Arrived, Arriving, Retreating, TurningBack, MovingBlind
<1> QED
  BY <1>3, <1>7, <1>8, <1>9 DEF Sound

\* The line stands while the next cube is staged.
LEMMA StagingRests ==
  ASSUME Going, Doing("stage")
  PROVE  /\ slide = 0 /\ turn = "stage" /\ ~staged /\ ~TakenF1 /\ ~Idle /\ Standing
         /\ Lead <= StagingEye /\ (Missed \/ Lead \in 0 .. StagingEye)
<1>1. /\ Places /\ Types /\ Queue /\ Books /\ Control /\ Feed /\ Belt
  BY DEF Going, Core, WatchInv, Sound
<1>2. turn = "stage" /\ ~staged /\ ~TakenF1 /\ ~Idle
  BY <1>1 DEF Control, Books, Idle
<1>3. Missed \/ Lead \in 0 .. StagingEye
  <2>1. Lead \in {0, 1} \/ Missed \/ Lead \in 0 .. StagingEye
    BY <1>1 DEF Feed, Stages
  <2> QED
    BY <2>1, Lengths
<1>4. Lead <= StagingEye
  BY <1>3, Lengths DEF Missed, Calm
<1> QED
  BY <1>1, <1>2, <1>3, <1>4, Drifting DEF Belt

\* A poll of the chain that is the crossing's own.
LEMMA ChainFollows ==
  ASSUME Going, ChainPoll, Follows(chain), UNCHANGED <<nose, next>>
  PROVE  Follows(chain)' /\ (chain' = Whole => chain = Whole)
<1>1. Types
  BY DEF Going, Core
<1>2. Lead' = Lead /\ Second' = Second
  BY DEF Lead, Second, Nose
<1>3. chain' = Advance(chain, Onload) /\ coil' = (coil /\ (chain # << >> => chain' # << >>))
  BY DEF ChainPoll
<1>4. coil' => chain' # << >>
  BY <1>3 DEF Follows
<1>5. /\ chain' \in Chains
      /\ chain' = Whole => Lead \in Calm /\ Lead # 0
      /\ chain' = FromTail => Lead \in 0 .. Width /\ Lead # Width
      /\ chain' = LastNose => Lead >= Width /\ Second # 0
      /\ chain' = << >> => Lead >= Width + 1
      /\ chain' = Whole => chain = Whole
  BY <1>1, <1>3, CrossingPolled DEF Types
<1> QED
  BY <1>2, <1>4, <1>5 DEF Follows

\* A poll of the feed alone.
LEMMA FeedPhaseKeeps ==
  ASSUME Going, FeedPhase
  PROVE  Sound'
<1>1. /\ Types /\ Queue /\ Books /\ Control /\ AtRest /\ Feed /\ Belt /\ Places
  BY DEF Going, Core, Sound, WatchInv
<1>2. /\ pc = "feed" /\ verb = "stage" /\ verb' = verb
      /\ arrived' = Staging /\ seen' = TRUE /\ ChainPoll
      /\ Staging => pc' = "return"
      /\ ~Staging => pc' = "feed"
      /\ UNCHANGED <<nose, run, watch, wz, turn, beat, occ, next, staged, slide>>
  BY <1>1 DEF FeedPhase, Places, callerVars
<1>3. /\ Queue' /\ Lead' = Lead /\ Second' = Second
      /\ AtO' = AtO /\ AtF1' = AtF1 /\ AtF2' = AtF2
      /\ (TakenO' <=> TakenO) /\ (TakenF1' <=> TakenF1) /\ (TakenF2' <=> TakenF2)
  BY <1>1, <1>2, Unmoved
<1>4. /\ Doing("stage") /\ slide = 0 /\ turn = "stage" /\ ~staged /\ ~Idle /\ Standing
      /\ Lead <= StagingEye
  BY <1>2, StagingRests DEF Doing, InVerb
<1>5. Staging \in BOOLEAN /\ (Staging <=> Lead = StagingEye)
  BY <1>4, StagingSees
<1>6. /\ pc' \in {"feed", "return"} /\ (pc' = "feed" <=> Lead # StagingEye)
      /\ arrived' \in BOOLEAN /\ (arrived' <=> pc' = "return")
  BY <1>2, <1>5
<1>7. Missed \/ (Follows(chain) /\ chain # Whole /\ Lead \in 0 .. StagingEye)
  BY <1>1, <1>2, <1>4 DEF Feed, Stages
<1>8. Stages'
  <2>1. CASE Missed
    <3>1. Missed' /\ Lead # StagingEye
      BY <1>2, <1>3, <2>1, MissPolled, Lengths, ChainsDiffer DEF Missed, Calm
    <3> QED
      BY <1>3, <1>6, <3>1 DEF Stages
  <2>2. CASE Follows(chain) /\ chain # Whole /\ Lead \in 0 .. StagingEye
    <3>1. Follows(chain)' /\ chain' # Whole
      BY <1>2, <2>2, ChainFollows
    <3> QED
      BY <1>3, <1>6, <2>2, <3>1 DEF Stages
  <2> QED
    BY <1>7, <2>1, <2>2
<1>9. Feed'
  <2>1. LeadWaits' /\ NextWaits'
    BY <1>1, <1>2, <1>4, <1>6 DEF LeadWaits, NextWaits, Doing, InVerb, Idle
  <2>2. IdleFeed' /\ Intakes'
    BY <1>2, <1>6 DEF IdleFeed, Intakes, Doing, InVerb
  <2> QED
    BY <1>8, <2>1, <2>2 DEF Feed
<1>10. Belt'
  <2>1. Adrift = slide /\ Adrift' = slide
    BY <1>2, <1>6, Drifting DEF Adrift, Doing
  <2>2. MadeUp'
    BY <1>2, <1>4 DEF MadeUp
  <2>3. ~Slid
    BY <1>2, <1>4 DEF Slid
  <2>4. Standing'
    BY <1>2, <1>3, <1>4, <2>1, <2>3 DEF Standing
  <2> QED
    BY <1>2, <1>6, <2>2, <2>4 DEF Belt, Arrived, Arriving, Retreating, TurningBack, MovingBlind
<1> QED
  BY <1>3, <1>6, <1>9, <1>10 DEF Sound

\* A crossing that stalled is carried on by Z2, with everybody aboard; or nobody is there.
LEMMA NudgeKeeps ==
  ASSUME Going, Nudge
  PROVE  Sound'
<1>1. /\ Types /\ Queue /\ Books /\ Control /\ AtRest /\ Feed /\ Belt /\ Places /\ Requests
      /\ CoilInv
  BY DEF Going, Core, Sound, WatchInv
<1>2. /\ pc = "feed" /\ pc' = "nudge" /\ verb = "stage" /\ verb' = verb /\ seen' = FALSE
      /\ coil /\ next \in Cubes => nose[next] \notin 0 .. Width
      /\ UNCHANGED <<nose, coil, watch, wz, chain, arrived, turn, beat, occ, next, staged, slide>>
  BY <1>1 DEF Nudge, StartMove, Places, callerVars, verbVars
<1>3. run' = StagingEye
  BY <1>1, MoveStarts, CapsAreMoves DEF Nudge
<1>4. /\ Queue' /\ Lead' = Lead /\ Second' = Second
      /\ AtO' = AtO /\ AtF1' = AtF1 /\ AtF2' = AtF2
      /\ (TakenO' <=> TakenO) /\ (TakenF1' <=> TakenF1) /\ (TakenF2' <=> TakenF2)
  BY <1>1, <1>2, Unmoved
<1>5. /\ Doing("stage") /\ slide = 0 /\ turn = "stage" /\ ~staged /\ ~Idle /\ Standing
  BY <1>2, StagingRests DEF Doing, InVerb
<1>6. /\ Missed \/ (Follows(chain) /\ chain # Whole /\ Lead \in 0 .. StagingEye)
  BY <1>1, <1>2, <1>5 DEF Feed, Stages
<1>7. Stages'
  <2>1. CASE Missed
    <3>1. Missed'
      BY <1>2, <1>4, <2>1 DEF Missed
    <3>2. run' \in 0 .. StagingEye
      BY <1>3, Lengths
    <3> QED
      BY <1>2, <3>1, <3>2 DEF Stages
  <2>2. CASE ~Missed
    <3>1. Follows(chain) /\ chain # Whole /\ Lead \in 0 .. StagingEye /\ chain \in Chains
      BY <1>1, <1>6, <2>2 DEF Types
    <3>2. Follows(chain)'
      BY <1>2, <1>4, <3>1 DEF Follows
    <3>3. Lead \in Width + 1 .. StagingEye
      <4>1. Lead # Away => next \in Cubes /\ Lead = nose[next]
        BY <1>1, Positions
      <4>2. \A n \in 0 .. StagingEye : /\ n # Away
                                       /\ n \notin 0 .. Width => n \in Width + 1 .. StagingEye
                                       /\ n >= Width + 1 => n \in Width + 1 .. StagingEye
        BY Lengths
      <4>3. CASE coil
        <5>1. Lead \notin 0 .. Width
          BY <1>2, <3>1, <4>1, <4>2, <4>3, Zenon
        <5> QED
          BY <3>1, <4>2, <5>1, Zenon
      <4>4. CASE ~coil
        <5>1. chain = << >>
          BY <1>1, <1>2, <4>4 DEF CoilInv, Hunts, InVerb
        <5>2. Lead >= Width + 1
          BY <3>1, <5>1, Zenon DEF Follows
        <5> QED
          BY <3>1, <4>2, <5>2, Zenon
      <4> QED
        BY <4>3, <4>4
    <3>4. ~Missed'
      BY <1>4, <3>3, Lengths DEF Missed, Calm
    <3>5. run' \in 1 .. StagingEye /\ Lead + run' \in StagingEye + Width + 1 .. 2 * StagingEye
      BY <1>3, <3>3, Lengths
    <3> QED
      BY <1>2, <1>4, <3>1, <3>2, <3>4, <3>5 DEF Stages
  <2> QED
    BY <2>1, <2>2
<1>8. Feed'
  <2>1. LeadWaits' /\ NextWaits'
    BY <1>1, <1>2, <1>5 DEF LeadWaits, NextWaits, Doing, InVerb, Idle
  <2>2. IdleFeed' /\ Intakes'
    BY <1>2 DEF IdleFeed, Intakes, Doing, InVerb
  <2> QED
    BY <1>7, <2>1, <2>2 DEF Feed
<1>9. Belt'
  <2>1. Adrift = 0 /\ Adrift' = 0
    <3>1. Adrift = 0
      BY <1>2, <1>5, Drifting
    <3>2. StagingEye - StagingEye = 0
      BY Lengths
    <3> QED
      BY <1>2, <1>3, <3>1, <3>2 DEF Adrift
  <2>2. MadeUp'
    BY <1>2, <1>5 DEF MadeUp
  <2>3. ~Slid
    BY <1>2, <1>5 DEF Slid
  <2>4. Standing'
    BY <1>2, <1>4, <1>5, <2>1, <2>3 DEF Standing
  <2> QED
    BY <1>2, <2>2, <2>4 DEF Belt, Arrived, Arriving, Retreating, TurningBack, MovingBlind
<1> QED
  BY <1>2, <1>4, <1>8, <1>9 DEF Sound

\* A poll of the nudge: nobody at O has left the eye when the cube is at STAGING; a nudge in
\* vain runs out with the junction clear.
LEMMA PollNudgeKeeps ==
  ASSUME Going, PollNudge
  PROVE  Sound'
<1>1. /\ Types /\ Queue /\ Books /\ Control /\ AtRest /\ Feed /\ Belt /\ Places
  BY DEF Going, Core, Sound, WatchInv
<1>2. /\ pc = "nudge" /\ verb = "stage" /\ verb' = verb
      /\ arrived' = Staging /\ seen' = TRUE /\ ChainPoll
      /\ Staging => run' = 0 /\ pc' = "return"
      /\ ~Staging => run' = run
      /\ ~Staging /\ run = 0 => pc' = "return"
      /\ ~Staging /\ run # 0 => pc' = "nudge"
      /\ UNCHANGED <<nose, watch, wz, turn, beat, occ, next, staged, slide>>
  BY <1>1 DEF PollNudge, Places, callerVars
<1>3. /\ Queue' /\ Lead' = Lead /\ Second' = Second
      /\ AtO' = AtO /\ AtF1' = AtF1 /\ AtF2' = AtF2
      /\ (TakenO' <=> TakenO) /\ (TakenF1' <=> TakenF1) /\ (TakenF2' <=> TakenF2)
  BY <1>1, <1>2, Unmoved
<1>4. /\ Doing("stage") /\ slide = 0 /\ turn = "stage" /\ ~staged /\ ~Idle /\ Standing
      /\ Lead <= StagingEye
  BY <1>2, StagingRests DEF Doing, InVerb
<1>5. Staging \in BOOLEAN /\ (Staging <=> Lead = StagingEye)
  BY <1>4, StagingSees
<1>6. Missed => Lead # StagingEye /\ run \in 0 .. StagingEye
  BY <1>1, <1>2, <1>4, Lengths DEF Feed, Stages, Missed, Calm
<1>7. ~Missed => /\ Follows(chain) /\ chain # Whole /\ Lead \in 0 .. StagingEye
                 /\ run \in 1 .. StagingEye
                 /\ Lead + run \in StagingEye + Width + 1 .. 2 * StagingEye
  BY <1>1, <1>2, <1>4 DEF Feed, Stages
<1>8. run \in 0 .. StagingEye
  BY <1>6, <1>7, Lengths
<1>9. Stages' /\ Standing' /\ pc' \in {"nudge", "return"}
  <2>1. ~Slid
    BY <1>2, <1>4 DEF Slid
  <2>2. Adrift = StagingEye - run
    BY <1>2 DEF Adrift
  <2>3. pc' = "nudge" => Adrift' = StagingEye - run'
    BY DEF Adrift
  <2>4. ASSUME Adrift' = Adrift
        PROVE  Standing'
    BY <1>2, <1>3, <1>4, <2>1, <2>4 DEF Standing
  <2>5. CASE Missed
    <3>1. Missed' /\ chain' # FromTail
      BY <1>2, <1>3, <2>5, MissPolled, ChainsDiffer DEF Missed
    <3>2. ~Staging
      BY <1>5, <1>6, <2>5
    <3>3. /\ ~arrived' /\ run' = run /\ pc' \in {"nudge", "return"}
          /\ pc' = "return" => run = 0
          /\ pc' = "nudge" => run # 0
      BY <1>2, <3>2
    <3>4. Stages'
      BY <1>3, <1>6, <1>8, <2>5, <3>1, <3>3 DEF Stages
    <3>5. Adrift' = Adrift
      <4>1. pc' = "return" => Adrift' = StagingEye
        BY <1>2, <3>3 DEF Adrift, Doing, InVerb
      <4>2. StagingEye - 0 = StagingEye
        BY Lengths
      <4> QED
        BY <2>2, <2>3, <3>3, <4>1, <4>2
    <3> QED
      BY <2>4, <3>3, <3>4, <3>5
  <2>6. CASE ~Missed
    <3>1. Follows(chain)' /\ chain' # Whole
      BY <1>2, <1>7, <2>6, ChainFollows
    <3>2. run # 0 /\ Lead >= Width + 1
      BY <1>7, <2>6, Lengths
    <3>3. /\ pc' \in {"nudge", "return"} /\ (pc' = "return" <=> Lead = StagingEye)
          /\ (arrived' <=> pc' = "return") /\ (pc' = "nudge" => run' = run)
      BY <1>2, <1>5, <3>2
    <3>4. ~Missed'
      BY <1>3, <3>2, Lengths DEF Missed, Calm
    <3>5. Stages'
      BY <1>3, <1>7, <2>6, <3>1, <3>3, <3>4 DEF Stages
    <3>6. CASE pc' = "nudge"
      BY <2>2, <2>3, <2>4, <3>3, <3>5, <3>6
    <3>7. CASE pc' = "return"
      <4>1. Adrift' = 0 /\ Slid'
        BY <1>2, <1>4, <3>3, <3>7 DEF Adrift, Slid, Doing, InVerb
      <4>2. Adrift \in 0 .. Slide
        <5>1. Lead = StagingEye /\ run \in 0 .. StagingEye /\ Lead + run >= StagingEye + Width + 1
          BY <1>7, <1>8, <2>6, <3>3, <3>7, Lengths
        <5> QED
          BY <2>2, <5>1, Lengths
      <4>3. /\ TakenO => AtO \in Int /\ AtO - Adrift = WorkZero
            /\ TakenF2 => AtF2 \in Int /\ AtF2 >= WorkZero + Spacing
            /\ TakenF1 => AtF1 \in Width + 1 .. StagingEye
            /\ TakenF2 /\ beat = "P2" => AtF2 <= WorkZero + Spacing + Slide
        BY <1>1, <1>2, <1>4, <2>1, Positions, Lengths DEF Standing
      <4>4. /\ TakenO => AtO - 0 \in WorkZero .. WorkZero + Slide
            /\ TakenF2 => AtF2 - 0 >= WorkZero + Spacing
        BY <4>2, <4>3, Lengths
      <4>5. Standing'
        BY <1>2, <1>3, <4>1, <4>3, <4>4 DEF Standing
      <4> QED
        BY <3>3, <3>5, <4>5
    <3> QED
      BY <3>3, <3>6, <3>7
  <2> QED
    BY <2>5, <2>6
<1>10. Feed'
  <2>1. LeadWaits' /\ NextWaits'
    BY <1>1, <1>2, <1>4, <1>9 DEF LeadWaits, NextWaits, Doing, InVerb, Idle
  <2>2. IdleFeed' /\ Intakes'
    BY <1>2, <1>9 DEF IdleFeed, Intakes, Doing, InVerb
  <2> QED
    BY <1>9, <2>1, <2>2 DEF Feed
<1>11. Belt'
  <2>1. MadeUp'
    BY <1>2, <1>4 DEF MadeUp
  <2> QED
    BY <1>2, <1>9, <2>1 DEF Belt, Arrived, Arriving, Retreating, TurningBack, MovingBlind
<1> QED
  BY <1>3, <1>9, <1>10, <1>11 DEF Sound

\* A poll of an entry or a return: the eye at O sees the occupant off before it sees the
\* one who comes, and the one who comes before the cap runs out.
LEMMA PollArrivalKeeps ==
  ASSUME Going, Poll, verb \in {"entry", "return"}
  PROVE  Sound'
<1>1. /\ Types /\ Queue /\ Books /\ Control /\ AtRest /\ Feed /\ Belt /\ Places
  BY DEF Going, Core, Sound, WatchInv
<1> DEFINE hit == wz # << >> /\ wz' = << >>
<1>2. /\ pc = "poll" /\ verb' = verb /\ wz' = Advance(wz, WorkAtZero)
      /\ arrived' = (arrived \/ hit) /\ (hit => run' = 0) /\ (~hit => run' = run)
      /\ run' # 0 => pc' = "poll"
      /\ run' = 0 => pc' = "return"
      /\ seen' = TRUE /\ FeedPoll
      /\ UNCHANGED <<nose, chain, turn, beat, occ, next, staged, slide>>
  BY DEF Poll, callerVars
<1>3. /\ Queue' /\ Lead' = Lead /\ Second' = Second
      /\ AtO' = AtO /\ AtF1' = AtF1 /\ AtF2' = AtF2
      /\ (TakenO' <=> TakenO) /\ (TakenF1' <=> TakenF1) /\ (TakenF2' <=> TakenF2)
  BY <1>1, <1>2, Unmoved
<1>4. /\ Lead \in Away .. WorkZero /\ Second \in Calm
      /\ TakenO => AtO \in Away .. Gone
      /\ TakenF1 => AtF1 \in Away .. Gone
      /\ TakenF2 => AtF2 \in Away .. Gone
  BY <1>1, Positions, LeadBehind
<1>5. /\ verb = "entry" => /\ ~TakenF1 /\ Arriver = Lead /\ Arriver' = Lead /\ Waits(Second)
                           /\ Doing("entry")
      /\ verb = "return" => /\ TakenF1 /\ TakenO /\ ~TakenF2 /\ Arriver = AtF1
                            /\ Arriver' = AtF1 /\ Waits(Lead) /\ Doing("return")
                            /\ ~Idle /\ ~staged
  BY <1>1, <1>2, <1>3 DEF Types, Arriver, Feed, NextWaits, LeadWaits, Control, Books, Doing,
                          InVerb, EntryBeat, Idle
<1>6. /\ Arriver \in Width + 1 .. WorkZero
      /\ verb = "entry" => Arriver >= StagingEye
      /\ run + Arriver \in 2 * Spacing + Width .. 2 * Spacing - 1 + StagingEye
      /\ TakenO => AtO - Arriver \in Spacing .. Spacing + Slide
      /\ TakenF2 => AtF2 = Gone \/ AtF2 - Arriver >= 2 * Spacing
      /\ run \in Int /\ ~arrived
  BY <1>1, <1>2 DEF Belt, Arriving, AtRest, Types
<1>7. Arriving
  BY <1>1 DEF Belt
<1>8. WorkAtZero \in BOOLEAN
      /\ (WorkAtZero <=> Arriver = WorkZero \/ (TakenO /\ AtO \in WorkZero .. WorkZero + Width - 1))
  <2>1. verb = "entry" /\ TakenF2 => AtF2 > WorkZero + Width
    BY <1>4, <1>6, Lengths
  <2>2. verb = "return" => Lead # WorkZero
    BY <1>5, Lengths DEF Waits, Calm
  <2>3. verb = "return" => (Arriver = WorkZero <=> AtF1 \in WorkZero .. WorkZero + Width - 1)
    BY <1>5, <1>6, Lengths
  <2> QED
    BY <1>4, <1>5, <2>1, <2>2, <2>3, WorkSees, Lengths
<1>9. \* the arrival's edge is seen, and it is the only one that stops the belt
      /\ wz' \in Edges /\ (hit <=> Arriver = WorkZero)
      /\ ~TakenO => (~hit => wz' = LastNose)
      /\ TakenO /\ ~hit =>
           /\ wz' \in {FromTail, LastNose}
           /\ wz' = FromTail => AtO \in WorkZero .. WorkZero + Width - 1
           /\ wz' = LastNose => AtO >= WorkZero + Width
  <2>1. CASE ~TakenO
    <3>1. wz = LastNose
      BY <1>2, <1>7, <2>1 DEF Arriving
    <3>2. wz' = IF WorkAtZero THEN << >> ELSE LastNose
      BY <1>2, <1>8, <3>1, Polled
    <3> QED
      BY <1>8, <2>1, <3>1, <3>2, ChainsDiffer DEF Edges, Chains
  <2>2. CASE TakenO /\ wz = Whole
    <3>1. AtO \in WorkZero .. WorkZero + Slide
      BY <1>2, <1>7, <2>2 DEF Arriving
    <3>2. WorkAtZero /\ Arriver # WorkZero
      BY <1>4, <1>6, <1>8, <2>2, <3>1, Lengths
    <3>3. wz' = FromTail
      BY <1>2, <1>8, <2>2, <3>2, Polled
    <3> QED
      BY <2>2, <3>1, <3>2, <3>3, ChainsDiffer, Lengths DEF Edges, Chains
  <2>3. CASE TakenO /\ wz = FromTail
    <3>1. AtO \in WorkZero .. WorkZero + Width
      BY <1>2, <1>7, <2>3 DEF Arriving
    <3>2. Arriver # WorkZero /\ (WorkAtZero <=> AtO # WorkZero + Width)
      BY <1>4, <1>6, <1>8, <2>3, <3>1, Lengths
    <3>3. wz' = IF WorkAtZero THEN FromTail ELSE LastNose
      BY <1>2, <1>8, <2>3, Polled
    <3> QED
      BY <1>8, <2>3, <3>1, <3>2, <3>3, ChainsDiffer, Lengths DEF Edges, Chains
  <2>4. CASE TakenO /\ wz = LastNose
    <3>1. AtO >= WorkZero + Width
      BY <1>2, <1>7, <2>4 DEF Arriving
    <3>2. WorkAtZero <=> Arriver = WorkZero
      BY <1>4, <1>6, <1>8, <2>4, <3>1, Lengths
    <3>3. wz' = IF WorkAtZero THEN << >> ELSE LastNose
      BY <1>2, <1>8, <2>4, Polled
    <3> QED
      BY <1>8, <2>4, <3>1, <3>2, <3>3, ChainsDiffer DEF Edges, Chains
  <2> QED
    BY <1>2, <1>7, <2>1, <2>2, <2>3, <2>4 DEF Arriving
<1> HIDE DEF hit
<1>10. /\ arrived' \in BOOLEAN /\ (arrived' <=> hit) /\ run' \in {0, run}
       /\ pc' \in {"poll", "return"} /\ (pc' = "return" <=> hit)
  <2>1. ~hit => run # 0
    BY <1>6, <1>9, Lengths
  <2>2. hit \in BOOLEAN
    BY DEF hit
  <2> QED
    BY <1>2, <1>6, <2>1, <2>2 DEF hit
<1>11. /\ watch' \in {LastNose, << >>} /\ watch' \in Chains /\ coil' \in BOOLEAN
       /\ verb = "entry" => Waits(Second)'
       /\ verb = "return" => Waits(Lead)'
  <2>1. verb = "entry" => (Onload <=> Second = 0)
    BY <1>4, <1>5, <1>6, OnloadSees, Lengths
  <2>2. verb = "return" => (Onload <=> Lead = 0)
    BY <1>1, <1>4, <1>5, OnloadSees, Lengths DEF Waits, Calm, Queue
  <2>3. CASE verb = "entry"
    BY <1>2, <1>3, <1>5, <2>1, <2>3, WatchPolled DEF Waits
  <2>4. CASE verb = "return"
    BY <1>2, <1>3, <1>5, <2>2, <2>4, WatchPolled DEF Waits
  <2> QED
    BY <2>3, <2>4
<1>12. Feed'
  <2>1. LeadWaits' /\ NextWaits'
    BY <1>1, <1>2, <1>5, <1>10, <1>11 DEF LeadWaits, NextWaits, Doing, Idle, Control, InVerb
  <2>2. IdleFeed' /\ Intakes' /\ Stages'
    BY <1>2, <1>10 DEF IdleFeed, Intakes, Stages, Doing, InVerb
  <2> QED
    BY <2>1, <2>2 DEF Feed
<1>13. Belt'
  <2>1. Arriving'
    <3>1. CASE hit
      BY <1>10, <3>1 DEF Arriving
    <3>2. CASE ~hit
      <4>1. Arriver' = Arriver /\ run' = run /\ Arriver # WorkZero
        BY <1>2, <1>5, <1>9, <3>2
      <4> QED
        BY <1>2, <1>3, <1>4, <1>6, <1>9, <3>2, <4>1, Lengths, ChainsDiffer DEF Arriving
    <3> QED
      BY <3>1, <3>2
  <2>2. Arrived'
    BY <1>2, <1>3, <1>4, <1>5, <1>6, <1>9, <1>10, Lengths DEF Arrived
  <2>3. Standing' /\ Retreating' /\ TurningBack' /\ MovingBlind' /\ MadeUp'
    BY <1>1, <1>2, <1>10 DEF Standing, Retreating, TurningBack, MovingBlind, Belt, MadeUp, EntryBeat
  <2> QED
    BY <2>1, <2>2, <2>3 DEF Belt
<1> QED
  BY <1>3, <1>10, <1>12, <1>13 DEF Sound

\* A poll of a retreat: the occupant of O leaves upstream, then the one from F2 passes.
LEMMA PollRetreatKeeps ==
  ASSUME Going, Poll, verb = "retreat"
  PROVE  Sound'
<1>1. /\ Types /\ Queue /\ Books /\ Control /\ AtRest /\ Feed /\ Belt /\ Places
  BY DEF Going, Core, Sound, WatchInv
<1> DEFINE hit == wz # << >> /\ wz' = << >>
<1>2. /\ pc = "poll" /\ verb' = verb /\ wz' = Advance(wz, WorkAtZero)
      /\ arrived' = (arrived \/ hit) /\ (hit => run' = 0) /\ (~hit => run' = run)
      /\ run' # 0 => pc' = "poll"
      /\ run' = 0 /\ arrived' => pc' = "turn"
      /\ seen' = TRUE /\ FeedPoll
      /\ UNCHANGED <<nose, chain, turn, beat, occ, next, staged, slide>>
  BY DEF Poll, callerVars
<1>3. /\ Queue' /\ Lead' = Lead /\ Second' = Second
      /\ AtO' = AtO /\ AtF1' = AtF1 /\ AtF2' = AtF2
      /\ (TakenO' <=> TakenO) /\ (TakenF1' <=> TakenF1) /\ (TakenF2' <=> TakenF2)
  BY <1>1, <1>2, Unmoved
<1>4. /\ Lead \in Away .. WorkZero /\ Second \in Calm
      /\ TakenO => AtO \in Away .. Gone
      /\ TakenF2 => AtF2 \in Away .. Gone
  BY <1>1, Positions, LeadBehind
<1>5. /\ Doing("retreat") /\ TakenF2 /\ ~TakenF1 /\ ~Idle /\ ~staged /\ Waits(Lead)
  BY <1>1, <1>2 DEF Types, Feed, LeadWaits, Control, Books, Doing, InVerb, EntryBeat, Idle
<1>6. /\ AtF2 \in WorkZero - 1 .. WorkZero + Spacing + Slide
      /\ AtF2 + run \in WorkZero - Spacing + 1 .. WorkZero - Spacing + 1 + Slide
      /\ TakenO => AtF2 - AtO \in Spacing .. Spacing + Slide
      /\ run \in Int /\ ~arrived
  BY <1>1, <1>2 DEF Belt, Retreating, AtRest, Types
<1>7. Retreating
  BY <1>1 DEF Belt
<1>8. WorkAtZero \in BOOLEAN
      /\ (WorkAtZero <=> \/ AtF2 \in WorkZero .. WorkZero + Width - 1
                         \/ TakenO /\ AtO \in WorkZero .. WorkZero + Width - 1)
  <2>1. Lead # WorkZero
    BY <1>5, Lengths DEF Waits, Calm
  <2> QED
    BY <1>5, <2>1, WorkSees
<1>9. \* the last edge is the passage of the cube from F2, one unit upstream of O
      /\ wz' \in Edges /\ (hit <=> AtF2 = WorkZero - 1)
      /\ hit /\ TakenO => AtO < WorkZero
      /\ ~hit =>
           /\ wz' \in {Leaving, Passing, Clearing}
           /\ wz' = Leaving => TakenO /\ AtO = WorkZero
           /\ wz' = Passing => AtF2 >= WorkZero + Width /\ (TakenO => AtO < WorkZero)
           /\ wz' = Clearing => AtF2 <= WorkZero + Width - 1 /\ (TakenO => AtO < WorkZero)
  <2>1. CASE wz = Twice
    <3>1. TakenO /\ AtO = WorkZero
      BY <1>2, <1>7, <2>1 DEF Retreating
    <3>2. WorkAtZero /\ AtF2 # WorkZero - 1
      BY <1>4, <1>6, <1>8, <3>1, Lengths
    <3>3. wz' = Leaving
      BY <1>2, <1>8, <2>1, <3>2, Polled
    <3> QED
      BY <2>1, <3>1, <3>2, <3>3, ChainsDiffer, Lengths DEF Edges, Chains
  <2>2. CASE wz = Leaving
    <3>1. TakenO /\ AtO \in WorkZero - 1 .. WorkZero
      BY <1>2, <1>7, <2>2 DEF Retreating
    <3>2. /\ AtF2 # WorkZero - 1 /\ (WorkAtZero <=> AtO = WorkZero)
          /\ AtO # WorkZero => AtF2 >= WorkZero + Width /\ AtO < WorkZero
      BY <1>4, <1>6, <1>8, <3>1, Lengths
    <3>3. wz' = IF WorkAtZero THEN Leaving ELSE Passing
      BY <1>2, <1>8, <2>2, Polled
    <3> QED
      BY <1>8, <2>2, <3>1, <3>2, <3>3, ChainsDiffer, Lengths DEF Edges, Chains
  <2>3. CASE wz = Passing
    <3>1. AtF2 >= WorkZero + Width - 1 /\ (TakenO => AtO < WorkZero)
      BY <1>2, <1>7, <2>3 DEF Retreating
    <3>2. AtF2 # WorkZero - 1 /\ (WorkAtZero <=> AtF2 <= WorkZero + Width - 1)
      BY <1>4, <1>6, <1>8, <3>1, Lengths
    <3>3. wz' = IF WorkAtZero THEN Clearing ELSE Passing
      BY <1>2, <1>8, <2>3, Polled
    <3> QED
      BY <1>6, <1>8, <2>3, <3>1, <3>2, <3>3, ChainsDiffer, Lengths DEF Edges, Chains
  <2>4. CASE wz = Clearing
    <3>1. AtF2 <= WorkZero + Width - 1 /\ (TakenO => AtO < WorkZero)
      BY <1>2, <1>7, <2>4 DEF Retreating
    <3>2. WorkAtZero <=> AtF2 # WorkZero - 1
      BY <1>4, <1>6, <1>8, <3>1, Lengths
    <3>3. wz' = IF WorkAtZero THEN Clearing ELSE << >>
      BY <1>2, <1>8, <2>4, Polled
    <3> QED
      BY <1>8, <2>4, <3>1, <3>2, <3>3, ChainsDiffer DEF Edges, Chains
  <2> QED
    BY <1>2, <1>7, <2>1, <2>2, <2>3, <2>4 DEF Retreating
<1> HIDE DEF hit
<1>10. /\ arrived' \in BOOLEAN /\ (arrived' <=> hit) /\ run' \in {0, run}
       /\ pc' \in {"poll", "turn"} /\ (pc' = "turn" <=> hit)
  <2>1. ~hit => run # 0
    BY <1>6, <1>9, Lengths
  <2>2. hit \in BOOLEAN
    BY DEF hit
  <2> QED
    BY <1>2, <1>6, <2>1, <2>2 DEF hit
<1>11. watch' \in Chains /\ coil' \in BOOLEAN /\ Waits(Lead)'
  <2>1. Onload <=> Lead = 0
    BY <1>1, <1>4, <1>5, OnloadSees, Lengths DEF Waits, Calm, Queue
  <2> QED
    BY <1>2, <1>3, <1>5, <2>1, WatchPolled DEF Waits
<1>12. Feed'
  <2>1. LeadWaits' /\ NextWaits'
    BY <1>1, <1>2, <1>5, <1>10, <1>11 DEF LeadWaits, NextWaits, Doing, Idle, Control, InVerb
  <2>2. IdleFeed' /\ Intakes' /\ Stages'
    BY <1>2, <1>10 DEF IdleFeed, Intakes, Stages, Doing, InVerb
  <2> QED
    BY <2>1, <2>2 DEF Feed
<1>13. Belt'
  <2>1. Retreating'
    <3>1. CASE hit
      BY <1>10, <3>1 DEF Retreating
    <3>2. CASE ~hit
      <4>1. run' = run /\ AtF2 # WorkZero - 1
        BY <1>2, <1>9, <3>2
      <4> QED
        BY <1>2, <1>3, <1>4, <1>6, <1>9, <3>2, <4>1, Lengths, ChainsDiffer DEF Retreating
    <3> QED
      BY <3>1, <3>2
  <2>2. TurningBack'
    <3>1. pc' = "turn" => AtF2 = WorkZero - 1 /\ (TakenO => AtO \in Width .. StagingEye - 1)
      BY <1>4, <1>6, <1>9, <1>10, Lengths
    <3> QED
      BY <1>3, <1>10, <3>1 DEF TurningBack
  <2>3. Standing' /\ Arriving' /\ Arrived' /\ MovingBlind' /\ MadeUp'
    BY <1>1, <1>2, <1>10 DEF Standing, Arriving, Arrived, MovingBlind, Belt, MadeUp, EntryBeat
  <2> QED
    BY <2>1, <2>2, <2>3 DEF Belt
<1> QED
  BY <1>3, <1>10, <1>12, <1>13 DEF Sound

\* The tail of the retreat is asked for.
LEMMA TurnBackKeeps ==
  ASSUME Going, TurnBack
  PROVE  Sound'
<1>1. /\ Types /\ Queue /\ Books /\ Control /\ AtRest /\ Feed /\ Belt /\ Places /\ Requests
  BY DEF Going, Core, Sound, WatchInv
<1>2. /\ pc = "turn" /\ pc' = "back" /\ verb = "retreat" /\ verb' = verb
      /\ seen' = FALSE /\ arrived' = FALSE
      /\ UNCHANGED <<nose, coil, watch, wz, chain, turn, beat, occ, next, staged, slide>>
  BY <1>1 DEF TurnBack, StartMove, Places, callerVars
<1>3. run' = Width
  BY <1>1, MoveStarts, CapsAreMoves DEF TurnBack
<1>4. /\ Queue' /\ Lead' = Lead /\ Second' = Second
      /\ AtO' = AtO /\ AtF1' = AtF1 /\ AtF2' = AtF2
      /\ (TakenO' <=> TakenO) /\ (TakenF1' <=> TakenF1) /\ (TakenF2' <=> TakenF2)
  BY <1>1, <1>2, Unmoved
<1>5. Feed'
  <2>1. LeadWaits' /\ NextWaits'
    BY <1>1, <1>2, <1>4 DEF Feed, LeadWaits, NextWaits, Waits, Doing, Idle, Control, InVerb
  <2>2. IdleFeed' /\ Intakes' /\ Stages'
    BY <1>2 DEF IdleFeed, Intakes, Stages, Doing, InVerb
  <2> QED
    BY <2>1, <2>2 DEF Feed
<1>6. Belt'
  <2>1. AtF2 = WorkZero - 1 /\ (TakenO => AtO \in Width .. StagingEye - 1)
    BY <1>1, <1>2 DEF Belt, TurningBack
  <2>2. TurningBack'
    BY <1>2, <1>3, <1>4, <2>1, Lengths DEF TurningBack
  <2>3. Standing' /\ Arriving' /\ Arrived' /\ Retreating' /\ MovingBlind' /\ MadeUp'
    BY <1>1, <1>2 DEF Standing, Arriving, Arrived, Retreating, MovingBlind, Belt, MadeUp, EntryBeat
  <2> QED
    BY <2>2, <2>3 DEF Belt
<1> QED
  BY <1>2, <1>4, <1>5, <1>6 DEF Sound

\* A poll of the tail: the part that passed O upstream comes back under the eye.
LEMMA PollBackKeeps ==
  ASSUME Going, PollBack
  PROVE  Sound'
<1>1. /\ Types /\ Queue /\ Books /\ Control /\ AtRest /\ Feed /\ Belt /\ Places
  BY DEF Going, Core, Sound, WatchInv
<1>2. /\ pc = "back" /\ verb = "retreat" /\ verb' = verb
      /\ arrived' = (arrived \/ WorkAtZero)
      /\ WorkAtZero => run' = 0
      /\ ~WorkAtZero => run' = run
      /\ run' # 0 => pc' = "back"
      /\ run' = 0 => pc' = "return"
      /\ seen' = TRUE /\ FeedPoll
      /\ UNCHANGED <<nose, wz, chain, turn, beat, occ, next, staged, slide>>
  BY <1>1 DEF PollBack, Places, callerVars
<1>3. /\ Queue' /\ Lead' = Lead /\ Second' = Second
      /\ AtO' = AtO /\ AtF1' = AtF1 /\ AtF2' = AtF2
      /\ (TakenO' <=> TakenO) /\ (TakenF1' <=> TakenF1) /\ (TakenF2' <=> TakenF2)
  BY <1>1, <1>2, Unmoved
<1>4. /\ Lead \in Away .. WorkZero /\ Second \in Calm
      /\ TakenO => AtO \in Away .. Gone
      /\ TakenF2 => AtF2 \in Away .. Gone
  BY <1>1, Positions, LeadBehind
<1>5. /\ Doing("retreat") /\ TakenF2 /\ ~TakenF1 /\ ~Idle /\ ~staged /\ Waits(Lead)
  BY <1>1, <1>2 DEF Types, Feed, LeadWaits, Control, Books, Doing, InVerb, EntryBeat, Idle
<1>6. /\ run \in Width - 1 .. Width /\ AtF2 + run = WorkZero - 1 + Width
      /\ TakenO => AtO + run \in 2 * Width .. StagingEye - 1 + Width
      /\ ~arrived
  BY <1>1, <1>2 DEF Belt, TurningBack, AtRest
<1>7. WorkAtZero \in BOOLEAN /\ (WorkAtZero <=> run = Width - 1)
  <2>1. Lead # WorkZero
    BY <1>5, Lengths DEF Waits, Calm
  <2>2. /\ AtF2 \in WorkZero .. WorkZero + Width - 1 <=> run = Width - 1
        /\ TakenO => AtO \notin WorkZero .. WorkZero + Width - 1
    BY <1>4, <1>5, <1>6, Lengths
  <2> QED
    BY <1>5, <2>1, <2>2, WorkSees
<1>8. /\ arrived' \in BOOLEAN /\ (arrived' <=> run = Width - 1)
      /\ run' = IF run = Width - 1 THEN 0 ELSE Width
      /\ pc' \in {"back", "return"} /\ (pc' = "return" <=> run = Width - 1)
  BY <1>2, <1>6, <1>7, Lengths
<1>9. watch' \in Chains /\ coil' \in BOOLEAN /\ Waits(Lead)'
  <2>1. Onload <=> Lead = 0
    BY <1>1, <1>4, <1>5, OnloadSees, Lengths DEF Waits, Calm, Queue
  <2> QED
    BY <1>2, <1>3, <1>5, <2>1, WatchPolled DEF Waits
<1>10. Feed'
  <2>1. LeadWaits' /\ NextWaits'
    BY <1>1, <1>2, <1>5, <1>8, <1>9 DEF LeadWaits, NextWaits, Doing, Idle, Control, InVerb
  <2>2. IdleFeed' /\ Intakes' /\ Stages'
    BY <1>2, <1>8 DEF IdleFeed, Intakes, Stages, Doing, InVerb
  <2> QED
    BY <2>1, <2>2 DEF Feed
<1>11. Belt'
  <2>1. TurningBack'
    BY <1>2, <1>3, <1>4, <1>5, <1>6, <1>8, Lengths DEF TurningBack
  <2>2. Standing' /\ Arriving' /\ Arrived' /\ Retreating' /\ MovingBlind' /\ MadeUp'
    BY <1>1, <1>2, <1>8
       DEF Standing, Arriving, Arrived, Retreating, MovingBlind, Belt, MadeUp, EntryBeat
  <2> QED
    BY <2>1, <2>2 DEF Belt
<1> QED
  BY <1>3, <1>8, <1>10, <1>11 DEF Sound

\* An intake or a feed returns: what is left of its chain becomes the kept watch.
LEMMA ReturnsKeeps ==
  ASSUME Going, Returns
  PROVE  Sound'
<1>1. /\ Types /\ Queue /\ Books /\ Control /\ AtRest /\ Feed /\ Belt /\ CoilInv
  BY DEF Going, Core, Sound, WatchInv
<1>2. /\ pc = "return" /\ pc' = "free" /\ verb \in {"intake", "stage"} /\ verb' = verb
      /\ staged' = (verb = "stage" /\ arrived)
      /\ turn' = IF verb = "stage" THEN "move" ELSE turn
      /\ slide' = IF verb = "stage" /\ ~arrived THEN StagingEye ELSE slide
      /\ watch' = (IF chain # << >> THEN chain ELSE watch) /\ coil' = (coil /\ watch' # << >>)
      /\ UNCHANGED <<nose, run, seen, beat, occ, next>>
  BY CapsAreMoves DEF Returns, KeepWatch, Forgets
<1>3. /\ Queue' /\ Lead' = Lead /\ Second' = Second
      /\ AtO' = AtO /\ AtF1' = AtF1 /\ AtF2' = AtF2
      /\ (TakenO' <=> TakenO) /\ (TakenF1' <=> TakenF1) /\ (TakenF2' <=> TakenF2)
  BY <1>1, <1>2, Unmoved
<1>4. /\ watch = << >> /\ Second \in Calm /\ chain \in Chains /\ coil \in BOOLEAN
      /\ Doing(verb) /\ InVerb
  BY <1>1, <1>2, Positions DEF CoilInv, Hunts, InVerb, Types, Doing
<1>5. Adrift' = slide' /\ ~InVerb'
  BY <1>2 DEF Adrift, Doing, InVerb
<1>6. Intakes' /\ Stages'
  BY <1>5 DEF Intakes, Stages, Doing
<1>7. Arriving' /\ Arrived' /\ Retreating' /\ TurningBack' /\ MovingBlind'
  BY <1>2 DEF Arriving, Arrived, Retreating, TurningBack, MovingBlind
<1>8. ASSUME LeadWaits', NextWaits', IdleFeed', MadeUp', Standing'
      PROVE  Sound'
  BY <1>2, <1>3, <1>6, <1>7, <1>8 DEF Sound, Feed, Belt
<1>9. CASE verb = "intake"
  <2>1. Idle /\ turn' = turn /\ ~staged /\ ~staged' /\ slide = 0 /\ slide' = 0
    BY <1>1, <1>2, <1>4, <1>9, Drifting DEF Control, Idle, Books
  <2>2. Follows(chain) /\ Lead <= StagingEye
    BY <1>1, <1>2, <1>4, <1>9 DEF Feed, Intakes
  <2>3. Follows(watch)'
    BY <1>2, <1>3, <1>4, <2>2 DEF Follows
  <2>4. IdleFeed'
    BY <1>3, <2>2, <2>3 DEF IdleFeed
  <2>5. LeadWaits' /\ NextWaits' /\ MadeUp'
    BY <1>5, <2>1 DEF LeadWaits, NextWaits, MadeUp, Doing, Idle
  <2>6. Standing'
    BY <1>1, <1>3, <2>1 DEF Books, Standing
  <2> QED
    BY <1>8, <2>4, <2>5, <2>6
<1>10. CASE verb = "stage"
  <2>1. /\ slide = 0 /\ turn' = "move" /\ EntryBeat' /\ ~Idle' /\ Standing
        /\ Missed \/ (Follows(chain) /\ chain # Whole /\ Lead \in 0 .. StagingEye)
        /\ IF arrived THEN Lead = StagingEye ELSE Missed /\ chain # FromTail
    BY <1>1, <1>2, <1>4, <1>10, StagingRests DEF Feed, Stages, Books, Idle, EntryBeat
  <2>2. IdleFeed'
    BY <2>1 DEF IdleFeed
  <2>3. CASE arrived
    <3>1. staged' /\ slide' = 0 /\ Lead = StagingEye /\ Slid /\ Slid' /\ Adrift = 0 /\ Adrift' = 0
      BY <1>2, <1>4, <1>5, <1>10, <2>1, <2>3 DEF Slid, Adrift
    <3>2. chain \in {LastNose, << >>} /\ (chain = LastNose /\ seen => Second # 0 \/ ~coil)
      <4>1. StagingEye \notin 0 .. Width /\ StagingEye \notin Calm
        BY Lengths DEF Calm
      <4>2. Follows(chain)
        BY <2>1, <3>1, <4>1 DEF Missed
      <4> QED
        BY <1>4, <3>1, <4>1, <4>2 DEF Follows, Chains
    <3>3. Waits(Second)'
      BY <1>2, <1>3, <1>4, <3>2 DEF Waits
    <3>4. LeadWaits' /\ NextWaits' /\ MadeUp'
      BY <1>3, <1>5, <3>1, <3>3 DEF LeadWaits, NextWaits, MadeUp, Doing
    <3>5. Standing'
      BY <1>2, <1>3, <1>10, <2>1, <3>1 DEF Standing
    <3> QED
      BY <1>8, <2>2, <3>4, <3>5
  <2>4. CASE ~arrived
    <3>1. /\ ~staged' /\ slide' = StagingEye /\ Missed /\ chain # FromTail
          /\ Adrift = StagingEye /\ Adrift' = StagingEye
      BY <1>2, <1>4, <1>5, <1>10, <2>1, <2>4 DEF Adrift
    <3>2. Waits(Lead)'
      BY <1>2, <1>3, <1>4, <3>1 DEF Waits, Missed
    <3>3. LeadWaits' /\ NextWaits' /\ MadeUp'
      BY <1>3, <1>5, <2>1, <3>1, <3>2 DEF LeadWaits, NextWaits, MadeUp, Doing
    <3>4. ~Slid
      BY <1>1, <1>2, <1>4, <1>10, <2>4, StagingRests DEF Slid
    <3>5. Standing'
      BY <1>2, <1>3, <1>10, <2>1, <3>1, <3>4 DEF Standing
    <3> QED
      BY <1>8, <2>2, <3>3, <3>5
  <2> QED
    BY <2>3, <2>4
<1> QED
  BY <1>2, <1>9, <1>10

\* A blind move is over: it went as far as it was told to.
LEMMA BlindEndsKeeps ==
  ASSUME Going, BlindEnds
  PROVE  Sound'
<1>1. /\ Types /\ Queue /\ Books /\ Control /\ AtRest /\ Feed /\ Belt /\ Places
  BY DEF Going, Core, Sound, WatchInv
<1>2. /\ pc = "blind" /\ pc' = "return" /\ verb = "blind" /\ verb' = verb /\ run = 0
      /\ coil' = (watch # << >>) /\ arrived' = TRUE /\ seen' = FALSE
      /\ UNCHANGED <<nose, run, watch, wz, chain, turn, beat, occ, next, staged, slide>>
  BY <1>1 DEF BlindEnds, Places, callerVars
<1>3. /\ Queue' /\ Lead' = Lead /\ Second' = Second
      /\ AtO' = AtO /\ AtF1' = AtF1 /\ AtF2' = AtF2
      /\ (TakenO' <=> TakenO) /\ (TakenF1' <=> TakenF1) /\ (TakenF2' <=> TakenF2)
  BY <1>1, <1>2, Unmoved
<1>4. ~Idle /\ ~staged /\ Waits(Lead)
  BY <1>1, <1>2 DEF Feed, LeadWaits, Control, Doing, InVerb, Idle
<1>5. Feed'
  <2>1. LeadWaits' /\ NextWaits'
    BY <1>2, <1>3, <1>4 DEF LeadWaits, NextWaits, Waits, Doing, InVerb, Idle
  <2>2. IdleFeed' /\ Intakes' /\ Stages'
    BY <1>2 DEF IdleFeed, Intakes, Stages, Doing, InVerb
  <2> QED
    BY <2>1, <2>2 DEF Feed
<1>6. Belt'
  <2>1. MovingBlind'
    BY <1>1, <1>2, <1>3 DEF Belt, MovingBlind
  <2>2. Standing' /\ Arriving' /\ Arrived' /\ Retreating' /\ TurningBack' /\ MadeUp'
    BY <1>1, <1>2 DEF Standing, Arriving, Arrived, Retreating, TurningBack, Belt, MadeUp, EntryBeat
  <2> QED
    BY <2>1, <2>2 DEF Belt
<1> QED
  BY <1>2, <1>3, <1>5, <1>6 DEF Sound

-----------------------------------------------------------------------------
(***************************************************************************)
(* The caller's steps between two verbs: nobody moves.                      *)
(***************************************************************************)
\* The line stays as it is while the caller begins a verb, holds or goes on.
LEMMA LineRests ==
  ASSUME Going, pc \in {"free", "held", "lapse"},
         UNCHANGED <<nose, occ, next, beat, slide, staged>>,
         pc' \in {"free", "held", "lapse", "arm", "sample"} \/ (pc' = "return" /\ verb' = "stay"),
         turn' = turn \/ slide = 0
  PROVE  Queue' /\ Belt'
<1>1. Types /\ Queue /\ Books /\ Belt
  BY DEF Going, Core, Sound
<1>2. /\ Queue' /\ Lead' = Lead /\ Second' = Second
      /\ AtO' = AtO /\ AtF1' = AtF1 /\ AtF2' = AtF2
      /\ (TakenO' <=> TakenO) /\ (TakenF1' <=> TakenF1) /\ (TakenF2' <=> TakenF2)
  BY <1>1, Unmoved
<1>3. Adrift = slide /\ Adrift' = slide
  BY DEF Adrift, Doing, InVerb
<1>4. Slid = staged /\ (staged => Slid') /\ staged \in BOOLEAN
  BY <1>1 DEF Slid, Types, Doing, InVerb
<1>5. /\ TakenO => AtO - slide \in WorkZero .. WorkZero + Slide
                   /\ (~staged => AtO - slide = WorkZero)
      /\ TakenF1 => AtF1 \in Width + 1 .. StagingEye
      /\ TakenF2 => AtF2 >= WorkZero + Spacing
                    /\ (AtF2 = Gone \/ AtF2 - slide >= WorkZero + Spacing)
      /\ TakenF2 /\ beat = "P2" => AtF2 <= WorkZero + Spacing + Slide
  BY <1>1, <1>3, <1>4 DEF Belt, Standing
<1>6. Standing'
  BY <1>2, <1>3, <1>4, <1>5 DEF Standing
<1>7. MadeUp'
  BY <1>1 DEF Belt, MadeUp, EntryBeat
<1>8. Arriving' /\ Arrived' /\ Retreating' /\ TurningBack' /\ MovingBlind'
  BY DEF Arriving, Arrived, Retreating, TurningBack, MovingBlind
<1> QED
  BY <1>2, <1>6, <1>7, <1>8 DEF Belt

\* With the cube at STAGING only the last edge of the watch is to come, from the one behind it.
LEMMA AtStaging ==
  ASSUME Types, Queue, Books, Lead = StagingEye
  PROVE  Follows(watch) <=> Waits(Second)
<1>1. Second \in Calm /\ watch \in Chains /\ coil \in BOOLEAN
  BY Positions DEF Types
<1>2. /\ StagingEye \notin Calm /\ StagingEye \notin 0 .. Width
      /\ StagingEye >= Width /\ StagingEye >= Width + 1
  BY Lengths DEF Calm
<1>3. ASSUME Follows(watch)
      PROVE  Waits(Second)
  <2>1. watch \in {LastNose, << >>}
    BY <1>1, <1>2, <1>3 DEF Follows, Chains
  <2> QED
    BY <1>1, <1>3, <2>1 DEF Follows, Waits
<1>4. ASSUME Waits(Second)
      PROVE  Follows(watch)
  BY <1>1, <1>2, <1>4, ChainsDiffer DEF Follows, Waits
<1> QED
  BY <1>3, <1>4

\* The first cube on the staging eye.
LEMMA FirstStaged ==
  ASSUME Going, Idle, pc = "free", Staging
  PROVE  Lead = StagingEye /\ Waits(Second) /\ ~staged /\ slide = 0
<1>1. Types /\ Queue /\ Books /\ Feed
  BY DEF Going, Core, Sound
<1>2. /\ Lead <= StagingEye
      /\ Follows(watch) \/ (Lead \in Calm /\ (coil /\ seen => Lead # 0))
  BY <1>1 DEF Feed, IdleFeed, InVerb
<1>3. Lead = StagingEye
  BY <1>2, StagingSees
<1>4. Lead \notin Calm
  BY <1>3, Lengths DEF Calm
<1>5. Waits(Second)
  BY <1>1, <1>2, <1>3, <1>4, AtStaging
<1>6. ~staged
  BY <1>1 DEF Books, Idle
<1> QED
  BY <1>3, <1>5, <1>6, Drifting

\* A poll of the kept watch between two verbs.
LEMMA FeedTickKeeps ==
  ASSUME Going, FeedTick
  PROVE  Sound'
<1>1. /\ Types /\ Queue /\ Books /\ Control /\ Feed
  BY DEF Going, Core, Sound
<1>2. /\ pc = "free" /\ pc' = "free" /\ (Idle => Staging) /\ FeedPoll /\ seen' = TRUE
      /\ UNCHANGED <<nose, turn, beat, occ, next, staged, slide, verb>>
  BY DEF FeedTick, verbVars, callerVars, Idle
<1>3. Queue' /\ Belt'
  BY <1>2, LineRests
<1>4. Lead' = Lead /\ Second' = Second /\ (Idle' <=> Idle)
  BY <1>1, <1>2, Unmoved DEF Idle
<1>5. Lead \in Away .. WorkZero /\ Second \in Calm
  BY <1>1, Positions, LeadBehind
<1>6. ASSUME Idle \/ staged
      PROVE  Lead = StagingEye /\ Waits(Second)'
  <2>1. Lead = StagingEye /\ Waits(Second)
    <3>1. CASE Idle
      BY <1>2, <3>1, FirstStaged
    <3>2. CASE staged
      BY <1>1, <1>2, <3>2 DEF Feed, NextWaits, Doing, InVerb
    <3> QED
      BY <1>6, <3>1, <3>2
  <2>2. Onload <=> Second = 0
    BY <2>1, OnloadSees, Lengths
  <2> QED
    BY <1>2, <1>4, <2>1, <2>2, WatchPolled DEF Waits
<1>7. ASSUME ~Idle, ~staged
      PROVE  Waits(Lead)'
  <2>1. Waits(Lead)
    BY <1>1, <1>2, <1>7 DEF Feed, LeadWaits, Doing, InVerb
  <2>2. Onload <=> Lead = 0
    BY <1>1, <1>5, <2>1, OnloadSees, Lengths DEF Waits, Calm, Queue
  <2> QED
    BY <1>2, <1>4, <2>1, <2>2, WatchPolled DEF Waits
<1>8. LeadWaits' /\ NextWaits'
  BY <1>2, <1>4, <1>6, <1>7 DEF LeadWaits, NextWaits, Doing, InVerb
<1>9. IdleFeed'
  <2> SUFFICES ASSUME Idle
               PROVE  Lead' <= StagingEye /\ Follows(watch)'
    BY <1>4 DEF IdleFeed
  <2>1. Lead' = StagingEye /\ Waits(Second)'
    BY <1>4, <1>6
  <2>2. StagingEye >= Width /\ StagingEye >= Width + 1 /\ StagingEye <= StagingEye
    BY Lengths
  <2>3. Follows(watch)'
    BY <2>1, <2>2, ChainsDiffer DEF Waits, Follows
  <2> QED
    BY <2>1, <2>2, <2>3
<1>10. Intakes' /\ Stages'
  BY <1>2 DEF Intakes, Stages, Doing, InVerb
<1> QED
  BY <1>2, <1>3, <1>8, <1>9, <1>10 DEF Sound, Feed

\* An intake begins, on an empty line.
LEMMA IntakeKeeps ==
  ASSUME Going, Intake, ~astray'
  PROVE  Sound'
<1>1. /\ Types /\ Queue /\ Books /\ Feed
  BY DEF Going, Core, Sound
<1>2. /\ pc = "free" /\ pc' = "arm" /\ Idle /\ verb' = "intake" /\ ~Staging
      /\ seen' = TRUE /\ watch' = << >> /\ coil' = TRUE /\ arrived' = FALSE
      /\ UNCHANGED <<nose, turn, beat, occ, next, staged, slide>>
  BY DEF Intake, Begin, Idle, callerVars
<1>3. ~PastEye
  BY Zenon DEF Intake
<1>4. Queue' /\ Belt'
  BY <1>2, LineRests
<1>5. Lead' = Lead /\ (Idle' <=> Idle) /\ ~staged
  BY <1>1, <1>2, Unmoved DEF Idle, Books
<1>6. Lead <= Width /\ Lead < Width
  <2>1. Lead <= StagingEye
    BY <1>1, <1>2 DEF Feed, IdleFeed, InVerb
  <2>2. Lead \in Away .. Gone /\ (Lead # Away => next \in Cubes /\ Lead = nose[next])
    BY <1>1, Positions
  <2>3. Lead # Away => Lead \notin Width .. StagingEye
    BY <1>3, <2>2 DEF PastEye
  <2> QED
    BY <2>1, <2>2, <2>3, Lengths
<1>7. LeadWaits' /\ NextWaits' /\ IdleFeed' /\ Stages'
  BY <1>2, <1>5 DEF LeadWaits, NextWaits, IdleFeed, Stages, Doing, InVerb
<1>8. Intakes'
  BY <1>2, <1>5, <1>6 DEF Intakes
<1> QED
  BY <1>2, <1>4, <1>7, <1>8 DEF Sound, Feed

\* The first entry begins, with the cube at STAGING.
LEMMA FirstEntryKeeps ==
  ASSUME Going, FirstEntry
  PROVE  Sound'
<1>1. /\ Types /\ Queue /\ Books
  BY DEF Going, Core, Sound
<1>2. /\ pc = "free" /\ pc' = "arm" /\ Idle /\ verb' = "entry" /\ Staging
      /\ UNCHANGED <<nose, coil, watch, seen, turn, beat, occ, next, staged, slide>>
  BY DEF FirstEntry, Ready, Begin, Idle, callerVars
<1>3. Queue' /\ Belt'
  BY <1>2, LineRests
<1>4. Lead' = Lead /\ Second' = Second /\ (Idle' <=> Idle)
  BY <1>1, <1>2, Unmoved DEF Idle
<1>5. Lead = StagingEye /\ Waits(Second)
  BY <1>2, FirstStaged
<1>6. LeadWaits' /\ NextWaits' /\ IdleFeed' /\ Intakes' /\ Stages'
  BY <1>2, <1>4, <1>5
     DEF LeadWaits, NextWaits, IdleFeed, Intakes, Stages, Waits, Doing, InVerb
<1> QED
  BY <1>2, <1>3, <1>6 DEF Sound, Feed

\* A feed begins with a cube on the junction eye.
LEMMA StageKeeps ==
  ASSUME Going, Stage
  PROVE  Sound'
<1>1. /\ Types /\ Queue /\ Books /\ Feed
  BY DEF Going, Core, Sound
<1>2. /\ pc = "free" /\ pc' = "sample" /\ turn = "stage" /\ verb' = "stage" /\ Onload
      /\ seen' = TRUE /\ UNCHANGED <<nose, turn, beat, occ, next, staged, slide>>
  BY DEF Stage, Ready, Begin, callerVars
<1>3. Queue' /\ Belt'
  BY <1>2, LineRests
<1>4. Lead' = Lead /\ ~Idle /\ ~Idle' /\ ~staged
  BY <1>1, <1>2, Unmoved DEF Idle, Books
<1>5. Lead = 0
  <2>1. Lead \in Calm
    BY <1>1, <1>2, <1>4 DEF Feed, LeadWaits, Waits, Doing, InVerb
  <2> QED
    BY <1>1, <1>2, <2>1, OnloadSees, Lengths DEF Calm, Queue
<1>6. LeadWaits' /\ NextWaits' /\ IdleFeed' /\ Intakes' /\ Stages'
  BY <1>2, <1>4, <1>5 DEF LeadWaits, NextWaits, IdleFeed, Intakes, Stages, Doing, InVerb
<1> QED
  BY <1>2, <1>3, <1>6 DEF Sound, Feed

\* A dark junction: nobody is staged.
LEMMA StageSkippedKeeps ==
  ASSUME Going, StageSkipped
  PROVE  Sound'
<1>1. /\ Types /\ Queue /\ Books /\ Feed
  BY DEF Going, Core, Sound
<1>2. /\ pc = "free" /\ pc' = "free" /\ turn = "stage" /\ turn' = "move" /\ staged' = FALSE
      /\ UNCHANGED <<nose, coil, watch, verb, seen, beat, occ, next, slide>>
  BY DEF StageSkipped, Ready, plantVars, verbVars
<1>3. ~Idle /\ ~Idle' /\ staged = FALSE /\ slide = 0
  BY <1>1, <1>2, Drifting DEF Books, Idle, Types
<1>4. Queue' /\ Belt'
  BY <1>2, <1>3, LineRests
<1>5. Lead' = Lead
  BY <1>1, <1>2, Unmoved
<1>6. LeadWaits' /\ NextWaits' /\ IdleFeed' /\ Intakes' /\ Stages'
  BY <1>1, <1>2, <1>3, <1>5
     DEF Feed, LeadWaits, NextWaits, IdleFeed, Intakes, Stages, Waits, Doing, InVerb
<1> QED
  BY <1>2, <1>4, <1>6 DEF Sound, Feed

\* The move of the beat begins.
LEMMA TransitionKeeps ==
  ASSUME Going, Transition \/ Stays
  PROVE  Sound'
<1>1. /\ Types /\ Queue /\ Books /\ Feed
  BY DEF Going, Core, Sound
<1>2. /\ pc = "free" /\ turn = "move" /\ verb' = TransitionVerb
      /\ verb' = "stay" => pc' = "return" /\ coil' = coil
      /\ verb' # "stay" => pc' = "arm" /\ coil' = (coil /\ TransitionVerb # "blind")
      /\ UNCHANGED <<nose, watch, seen, turn, beat, occ, next, staged, slide>>
  BY DEF Transition, Stays, Ready, Begin, callerVars
<1>3. /\ verb' \in {"entry", "retreat", "stay", "return", "blind"}
      /\ verb' = "entry" => staged
      /\ verb' # "entry" => ~staged
  BY <1>1, <1>2, VerbAsked
<1>4. Queue' /\ Belt'
  BY <1>2, LineRests
<1>5. Lead' = Lead /\ Second' = Second /\ ~Idle /\ ~Idle'
  BY <1>1, <1>2, Unmoved DEF Idle
<1>6. coil' \in BOOLEAN /\ (coil' => coil)
  <2>1. coil \in BOOLEAN
    BY <1>1 DEF Types
  <2>2. CASE verb' = "stay"
    BY <1>2, <2>1, <2>2
  <2>3. CASE verb' # "stay"
    BY <1>2, <2>1, <2>3
  <2> QED
    BY <2>2, <2>3
<1>7. /\ ~staged => Waits(Lead)
      /\ staged => Lead = StagingEye /\ Waits(Second)
  BY <1>1, <1>2, <1>5 DEF Feed, LeadWaits, NextWaits, Doing, InVerb
<1>8. /\ ~staged => Waits(Lead)'
      /\ staged => Lead' = StagingEye /\ Waits(Second)'
  BY <1>2, <1>5, <1>6, <1>7 DEF Waits
<1>9. LeadWaits' /\ NextWaits' /\ IdleFeed' /\ Intakes' /\ Stages'
  BY <1>2, <1>3, <1>5, <1>8 DEF LeadWaits, NextWaits, IdleFeed, Intakes, Stages, Doing
<1> QED
  BY <1>2, <1>4, <1>9 DEF Sound, Feed

\* A pause, its end and a pause that failed: the feed comes back only with the watch.
LEMMA PauseKeeps ==
  ASSUME Going, Suspend \/ Resume
  PROVE  Sound'
<1>1. /\ Types /\ Queue /\ Books /\ Feed /\ (pc = "lapse" => ~coil)
  BY DEF Going, Core, Sound
<1>2. /\ pc \in {"free", "held", "lapse"} /\ pc' \in {"free", "held"} /\ verb' = verb
      /\ turn' = turn \/ (turn = "work" /\ turn' \in {"stage", "move"})
      /\ coil' \in BOOLEAN /\ (coil' => watch # << >> /\ ~seen')
      /\ UNCHANGED <<nose, watch, beat, occ, next, staged, slide>>
  <2>1. CASE Suspend
    BY <1>1, <2>1 DEF Suspend, verbVars, callerVars
  <2>2. CASE Resume
    <3>1. coil' \in BOOLEAN /\ (coil' => watch # << >>)
      BY <1>1, <2>2 DEF Resume, Types
    <3> QED
      BY <2>2, <3>1 DEF Resume, verbVars
  <2> QED
    BY <2>1, <2>2
<1>3. turn' = turn \/ slide = 0
  BY <1>2, Drifting
<1>4. Queue' /\ Belt'
  BY <1>2, <1>3, LineRests
<1>5. Lead' = Lead /\ Second' = Second /\ (Idle' <=> Idle)
  BY <1>1, <1>2, Unmoved DEF Idle
<1>6. ~InVerb /\ ~InVerb'
  BY <1>2 DEF InVerb
<1>7. LeadWaits' /\ NextWaits' /\ Intakes' /\ Stages'
  BY <1>1, <1>2, <1>5, <1>6
     DEF Feed, LeadWaits, NextWaits, Intakes, Stages, Waits, Doing
<1>8. IdleFeed'
  BY <1>1, <1>2, <1>5, <1>6 DEF Feed, IdleFeed, Follows
<1> QED
  BY <1>2, <1>4, <1>7, <1>8 DEF Sound, Feed

\* A failed edge of a pause with Z1 at rest: the feed stays off, under its watch.
LEMMA PauseFailsKeeps ==
  ASSUME Going, PauseFails, ~astray'
  PROVE  Sound'
<1>1. /\ Types /\ Queue /\ Books /\ Feed
  BY DEF Going, Core, Sound
<1>2. /\ pc \in {"free", "held"} /\ pc' \in {"free", "lapse"} /\ verb' = verb /\ coil' = coil
      /\ UNCHANGED <<nose, watch, turn, beat, occ, next, staged, slide>>
  BY DEF PauseFails, plantVars, verbVars, callerVars
<1>3. ~coil
  BY Zenon DEF PauseFails
<1>4. Queue' /\ Belt'
  BY <1>2, LineRests
<1>5. Lead' = Lead /\ Second' = Second /\ (Idle' <=> Idle)
  BY <1>1, <1>2, Unmoved DEF Idle
<1>6. ~InVerb /\ ~InVerb'
  BY <1>2 DEF InVerb
<1>7. LeadWaits' /\ NextWaits' /\ IdleFeed' /\ Intakes' /\ Stages'
  BY <1>1, <1>2, <1>3, <1>5, <1>6
     DEF Feed, LeadWaits, NextWaits, IdleFeed, Intakes, Stages, Waits, Follows, Doing
<1> QED
  BY <1>2, <1>3, <1>4, <1>7 DEF Sound, Feed

-----------------------------------------------------------------------------
(***************************************************************************)
(* The end of a move, and everything that stops the line.                   *)
(***************************************************************************)
\* A verb that moved the belt has brought everybody where the next beat wants them.
LEMMA ArrivesKeeps ==
  ASSUME Going, Concludes, arrived
  PROVE  Sound'
<1>1. /\ Types /\ Queue /\ Books /\ Control /\ AtRest /\ Feed /\ Belt /\ Places
  BY DEF Going, Core, Sound, WatchInv
<1>2. /\ pc = "return" /\ pc' = "free" /\ occ' = Occupancy(verb) /\ staged' = FALSE
      /\ next' = (IF verb = "entry" THEN next + 1 ELSE next)
      /\ run = 0 /\ verb \in {"entry", "retreat", "return", "blind", "stay"}
      /\ UNCHANGED <<nose, coil, watch, verb, seen>>
  BY <1>1 DEF Concludes, Arrives, Forgets, plantVars, AtRest, Places
<1>3. slide' = 0
  <2>1. turn = "idle" => slide = 0
    BY Drifting DEF Idle
  <2> QED
    BY <2>1 DEF Concludes, Arrives
<1>4. /\ next \in 1 .. MaxCubes + 1 /\ MaxCubes \in Nat /\ NoPart = 0
      /\ \A c \in Cubes : c # NoPart /\ c \in Int
  BY <1>1, Lengths DEF Types, Cubes
<1>5. Adrift' = 0 /\ Intakes' /\ Stages' /\ MadeUp'
  BY <1>2, <1>3 DEF Adrift, Intakes, Stages, MadeUp, Doing, InVerb
<1>6. Arriving' /\ Arrived' /\ Retreating' /\ TurningBack' /\ MovingBlind'
  BY <1>2 DEF Arriving, Arrived, Retreating, TurningBack, MovingBlind
<1> DEFINE Covered == \A c \in Cubes :
                        c < next' => nose[c] = Gone \/ \E st \in Tracked : occ'[st] = c
           Stand == /\ TakenO' => AtO' = WorkZero
                    /\ TakenF1' => AtF1' \in Width + 1 .. StagingEye
                    /\ TakenF2' => AtF2' \in Int /\ AtF2' >= WorkZero + Spacing
                    /\ TakenF2' /\ beat' = "P2" => AtF2' <= WorkZero + Spacing + Slide
           Settled == Queue' /\ Waits(Lead)' /\ Stand
<1>7. ASSUME verb = "entry"
      PROVE  Settled
  <2>1. /\ Doing("entry") /\ next \in Cubes /\ ~TakenF1 /\ Waits(Second)
    BY <1>1, <1>2, <1>7 DEF Control, Doing, InVerb, Books, Feed, NextWaits, Idle
  <2>2. /\ Lead = WorkZero
        /\ TakenO => AtO \in WorkZero + Spacing .. WorkZero + Spacing + Slide
        /\ TakenF2 => AtF2 = Gone
    BY <1>1, <1>2, <1>7 DEF Belt, Arrived, Arriver
  <2>3. next' = next + 1
    BY <1>2, <1>7
  <2>4. occ'["O"] = next /\ occ'["F1"] = NoPart /\ occ'["F2"] = occ["O"]
    <3>1. next + 1 \in Int /\ next + 1 >= next /\ next + 1 >= next + 1
      BY <1>4
    <3> QED
      BY <1>1, <1>2, <1>7, <2>1, <3>1, NewBooks
  <2>5. Covered
    <3> SUFFICES ASSUME NEW c \in Cubes, c < next + 1
                 PROVE  nose[c] = Gone \/ \E st \in Tracked : occ'[st] = c
      BY <2>3
    <3>1. CASE c = next
      BY <2>4, <3>1 DEF Tracked
    <3>2. CASE c < next
      <4>1. nose[c] = Gone \/ occ["O"] = c \/ occ["F1"] = c \/ occ["F2"] = c
        BY <1>1, <3>2 DEF Queue, Tracked
      <4> QED
        BY <1>4, <2>1, <2>2, <2>4, <4>1 DEF Tracked, TakenF1, TakenF2, AtF2
    <3> QED
      BY <1>4, <3>1, <3>2
  <2>6. /\ TakenO' /\ ~TakenF1' /\ (TakenF2' <=> TakenO)
        /\ AtO' = Lead /\ AtF2' = AtO
    <3>1. TakenO' /\ ~TakenF1' /\ (TakenF2' <=> TakenO)
      BY <1>4, <2>1, <2>4 DEF TakenO, TakenF1, TakenF2
    <3>2. AtO' = Lead /\ AtF2' = AtO
      BY <1>2, <2>1, <2>4 DEF AtO, AtF2, Lead, Nose
    <3> QED
      BY <3>1, <3>2
  <2>7. Stand
    <3>1. TakenO => AtO \in Int
      BY <1>1, Positions, Lengths
    <3> QED
      BY <2>2, <2>6, <3>1, Lengths
  <2>8. /\ Lead' = Second /\ Second' = Away
        /\ \A c \in Cubes : c > next' => nose'[c] = Away
    <3>1. Lead' = Second
      BY <1>2, <2>3 DEF Lead, Second, Nose
    <3>2. \A c \in Cubes : c > next + 1 => nose[c] = Away
      BY <1>1 DEF Queue
    <3>3. \A c \in Cubes : c > next' => nose'[c] = Away
      BY <1>2, <2>3, <3>2
    <3>4. Second' = Away
      <4>1. CASE next' + 1 \in Cubes
        <5>1. next' + 1 > next'
          BY <1>4, <2>3
        <5> QED
          BY <3>3, <4>1, <5>1 DEF Second, Nose
      <4>2. CASE next' + 1 \notin Cubes
        BY <4>2 DEF Second, Nose
      <4> QED
        BY <4>1, <4>2
    <3> QED
      BY <3>1, <3>3, <3>4
  <2>9. Waits(Lead)'
    BY <1>2, <2>1, <2>8 DEF Waits
  <2>10. Queue'
    <3>1. Away # 0 /\ Away \in Calm
      BY Lengths DEF Calm
    <3>2. \A c \in Cubes : c > next' + 1 => c > next'
      BY <1>4, <2>3
    <3> QED
      BY <1>2, <2>5, <2>8, <3>1, <3>2 DEF Queue
  <2> QED
    BY <2>7, <2>9, <2>10
<1>8. ASSUME verb # "entry"
      PROVE  Settled
  <2>1. /\ ~Idle /\ Waits(Lead) /\ next' = next /\ ~staged
        /\ verb = "retreat" => beat = "P2" /\ TakenF2
        /\ verb = "return" => TakenF1
        /\ verb = "blind" => ~TakenF1
        /\ verb = "stay" => beat = "P2" /\ ~TakenF2
    BY <1>1, <1>2, <1>8 DEF Control, Doing, InVerb, Feed, LeadWaits, Idle
  <2>2. /\ TakenO => AtO \in Int
        /\ TakenF1 => AtF1 \in Int
        /\ TakenF2 => AtF2 \in Int
    BY <1>1, Positions, Lengths
  <2>3. Lead' = Lead /\ Second' = Second
    BY <1>2, <2>1 DEF Lead, Second, Nose
  <2>4. Waits(Lead)'
    BY <1>2, <2>1, <2>3 DEF Waits
  <2>5. Covered => Queue'
    BY <1>1, <1>2, <2>1, <2>3 DEF Queue
  <2>6. /\ verb \in {"return", "blind"} =>
             occ'["O"] = occ["F1"] /\ occ'["F1"] = NoPart /\ occ'["F2"] = occ["O"]
        /\ verb = "retreat" => occ'["O"] = occ["F2"] /\ occ'["F1"] = occ["O"] /\ occ'["F2"] = NoPart
        /\ verb = "stay" => occ' = occ
    <3>1. next \in Int /\ next >= next
      BY <1>4
    <3> QED
      BY <1>1, <1>2, <1>8, <2>1, <3>1, NewBooks
  <2>7. ASSUME NEW c \in Cubes, c < next
        PROVE  nose[c] = Gone \/ occ["O"] = c \/ occ["F1"] = c \/ occ["F2"] = c
    BY <1>1, <2>7 DEF Queue, Tracked
  <2>8. CASE verb \in {"return", "blind"}
    <3>1. /\ TakenO => AtO \in WorkZero + Spacing .. WorkZero + Spacing + Slide
          /\ TakenF1 => AtF1 = WorkZero
          /\ TakenF2 => AtF2 = Gone
      <4>1. CASE verb = "return"
        BY <1>1, <1>2, <2>1, <4>1 DEF Belt, Arrived, Arriver, Books
      <4>2. CASE verb = "blind"
        <5>1. /\ TakenO => AtO + run \in WorkZero + Spacing .. WorkZero + Spacing + Slide
              /\ TakenF2 => AtF2 = Gone \/ AtF2 + run >= WorkZero + 2 * Spacing
          BY <1>1, <1>2, <4>2 DEF Belt, MovingBlind
        <5>2. TakenF2 => AtF2 <= Gone
          BY <1>1, Positions, Lengths
        <5> QED
          BY <1>2, <2>1, <2>2, <4>2, <5>1, <5>2, Lengths
      <4> QED
        BY <2>8, <4>1, <4>2
    <3>2. Covered
      BY <1>4, <2>1, <2>6, <2>7, <2>8, <3>1 DEF Tracked, TakenF2, AtF2
    <3>3. /\ (TakenO' <=> TakenF1) /\ ~TakenF1' /\ (TakenF2' <=> TakenO)
          /\ AtO' = AtF1 /\ AtF2' = AtO
      BY <1>2, <2>6, <2>8 DEF TakenO, TakenF1, TakenF2, AtO, AtF1, AtF2
    <3>4. Stand
      BY <2>2, <3>1, <3>3, Lengths
    <3> QED
      BY <2>4, <2>5, <3>2, <3>4
  <2>9. CASE verb = "retreat"
    <3>1. AtF2 = WorkZero /\ (TakenO => AtO \in Width + 1 .. StagingEye) /\ ~TakenF1
      BY <1>1, <1>2, <2>1, <2>9 DEF Belt, TurningBack, Books
    <3>2. Covered
      BY <1>4, <2>1, <2>6, <2>7, <2>9, <3>1 DEF Tracked, TakenF1
    <3>3. /\ TakenO' /\ (TakenF1' <=> TakenO) /\ ~TakenF2'
          /\ AtO' = AtF2 /\ AtF1' = AtO
      BY <1>2, <2>1, <2>6, <2>9 DEF TakenO, TakenF1, TakenF2, AtO, AtF1, AtF2
    <3>4. Stand
      BY <3>1, <3>3
    <3> QED
      BY <2>4, <2>5, <3>2, <3>4
  <2>10. CASE verb = "stay"
    <3>1. /\ (TakenO' <=> TakenO) /\ (TakenF1' <=> TakenF1) /\ (TakenF2' <=> TakenF2)
          /\ AtO' = AtO /\ AtF1' = AtF1
      BY <1>2, <2>6, <2>10 DEF TakenO, TakenF1, TakenF2, AtO, AtF1
    <3>2. Adrift = 0 /\ ~Slid
      BY <1>2, <2>1, <2>10, Drifting DEF Slid, Doing, EntryBeat
    <3>3. TakenO => AtO - 0 = WorkZero
      BY <1>1, <2>10, <3>2 DEF Belt, Standing
    <3>4. TakenF1 => AtF1 \in Width + 1 .. StagingEye
      BY <1>1, <2>10 DEF Belt, Standing
    <3>5. TakenO => AtO = WorkZero
      BY <2>2, <3>3, Lengths
    <3>6. Stand
      BY <2>1, <2>10, <3>1, <3>4, <3>5
    <3>7. Covered
      BY <1>1, <2>1, <2>6, <2>10 DEF Queue
    <3> QED
      BY <2>4, <2>5, <3>6, <3>7
  <2> QED
    BY <1>2, <1>8, <2>8, <2>9, <2>10
<1>9. Settled
  BY <1>7, <1>8
<1> HIDE DEF Covered
<1>10. Feed'
  <2>1. \A n \in Calm : n <= StagingEye
    BY Lengths DEF Calm
  <2> QED
    BY <1>2, <1>5, <1>9, <2>1 DEF Feed, LeadWaits, NextWaits, IdleFeed, Waits, Doing, InVerb
<1>11. Standing'
  <2>1. /\ TakenO' => AtO' - 0 \in WorkZero .. WorkZero + Slide /\ AtO' - 0 = WorkZero
        /\ TakenF2' => AtF2' - 0 >= WorkZero + Spacing
    BY <1>9, Lengths
  <2> QED
    BY <1>5, <1>9, <2>1 DEF Standing
<1> QED
  BY <1>2, <1>5, <1>6, <1>9, <1>10, <1>11 DEF Sound, Belt

\* Where the line may be stopped: the next cube is at rest before the junction, or it is taken in.
LEMMA LineStops ==
  ASSUME Going
  PROVE  \/ Lead \in Calm
         \/ run >= 0 /\ Lead + run < Gone /\ (Idle \/ staged \/ verb = "stage")
<1>1. /\ Types /\ Control /\ AtRest /\ Feed /\ Belt /\ Places /\ pc \notin {"faulted", "down"}
  BY DEF Going, Core, Sound, WatchInv
<1>2. Lead \in Int /\ Lead <= WorkZero /\ WorkZero < Gone /\ run \in Int
  BY <1>1, LeadBehind, Lengths DEF Types
<1>3. CASE ~Doing("intake") /\ ~Doing("stage") /\ ~Doing("entry")
  <2>1. Lead \in Calm \/ Idle \/ staged
    BY <1>1, <1>3 DEF Feed, LeadWaits, Waits
  <2>2. CASE ~InVerb
    <3>1. run = 0
      BY <1>1, <2>2 DEF InVerb, AtRest
    <3> QED
      BY <1>2, <2>1, <3>1, Lengths
  <2>3. CASE InVerb
    <3>1. ~Idle /\ ~staged
      BY <1>1, <1>3, <2>3 DEF Doing, Control, Places, Idle
    <3> QED
      BY <2>1, <3>1
  <2> QED
    BY <2>2, <2>3
<1>4. CASE Doing("intake")
  <2>1. verb = "intake" /\ pc \in {"arm", "sample", "poll", "return"} /\ Idle
    BY <1>1, <1>4 DEF Doing, InVerb, Places, Control
  <2>2. /\ run = 0 \/ run = StagingEye + 3 \/ run \in 0 .. StagingEye + 3
        /\ Lead <= Width \/ Lead <= StagingEye
    BY <1>1, <1>4, <2>1 DEF Feed, Intakes, AtRest
  <2> QED
    BY <1>2, <2>1, <2>2, Lengths
<1>5. CASE Doing("stage")
  <2>1. verb = "stage" /\ pc \in {"sample", "feed", "nudge", "return"}
    BY <1>1, <1>5 DEF Doing, InVerb, Places
  <2>2. run = 0 \/ run \in 0 .. StagingEye \/ run \in 1 .. StagingEye
    BY <1>1, <1>5, <2>1 DEF Feed, Stages, AtRest
  <2> QED
    BY <1>2, <2>1, <2>2, Lengths
<1>6. CASE Doing("entry")
  <2>1. verb = "entry" /\ pc \in {"arm", "poll", "return"} /\ (Idle \/ staged)
    BY <1>1, <1>6 DEF Doing, InVerb, Places, Control
  <2>2. run = 0 \/ run + Lead \in 2 * Spacing + Width .. 2 * Spacing - 1 + StagingEye
    BY <1>1, <2>1 DEF Belt, Arriving, Arriver, AtRest
  <2> QED
    BY <1>2, <2>1, <2>2, Lengths
<1> QED
  BY <1>3, <1>4, <1>5, <1>6

\* A device error, a halt and a move that did not arrive stop the line where it is.
LEMMA GiveUpKeeps ==
  ASSUME Going, Fails \/ (Concludes /\ ~arrived)
  PROVE  Stopped'
<1>1. Types /\ Queue /\ Books /\ pc \notin {"faulted", "down"}
  BY DEF Going, Core, Sound
<1>2. /\ coil' = FALSE /\ run' = 0 /\ verb' = verb
      /\ UNCHANGED <<nose, turn, beat, occ, next, staged, slide>>
  BY DEF Fails, Concludes, GiveUp, Forgets, callerVars
<1>3. /\ Queue' /\ Lead' = Lead /\ (Idle' <=> Idle)
  BY <1>1, <1>2, Unmoved DEF Idle
<1>4. Lead \in Calm \/ (Lead < Gone /\ (Idle \/ staged \/ verb = "stage"))
  <2>1. run \in Int /\ Lead \in Int /\ Gone \in Int
    BY <1>1, LeadBehind, Lengths DEF Types
  <2> QED
    BY <2>1, LineStops
<1>5. Lead + 0 = Lead
  BY LeadBehind, Lengths
<1> QED
  BY <1>2, <1>3, <1>4, <1>5 DEF Stopped

\* The loop or the process ends with Z1 off; Z2 ends its move.
LEMMA DiesKeeps ==
  ASSUME Core, Going \/ (pc = "faulted" /\ Stopped), Dies, ~astray'
  PROVE  Stopped'
<1>1. Types /\ Books /\ Queue
  BY DEF Core, Going, Sound, Stopped
<1>2. /\ coil' = coil /\ run' = run /\ verb' = verb
      /\ UNCHANGED <<nose, turn, beat, occ, next, staged, slide>>
  BY DEF Dies, Forgets, plantVars, callerVars
<1>3. ~coil
  BY Zenon DEF Dies
<1>4. /\ Queue' /\ Lead' = Lead /\ (Idle' <=> Idle)
  BY <1>1, <1>2, Unmoved DEF Idle
<1>5. \/ Lead \in Calm
      \/ run >= 0 /\ Lead + run < Gone /\ (Idle \/ staged \/ verb = "stage")
  BY LineStops DEF Stopped
<1> QED
  BY <1>2, <1>3, <1>4, <1>5 DEF Stopped

-----------------------------------------------------------------------------
(***************************************************************************)
(* The hands: a cube is put on Z1, or lifted off the junction.              *)
(***************************************************************************)
\* A cube is put on Z1 as the next one to enter, or as the one behind it once that one has
\* left the junction eye.
LEMMA PutOn ==
  ASSUME Types, Queue, NEW c \in Cubes, Place(c)
  PROVE  /\ nose' \in [Cubes -> Away .. Gone]
         /\ Queue'
         /\ \A d \in Cubes : d # c => nose'[d] = nose[d]
         /\ \/ c < next /\ Lead' = Lead /\ Second' = Second
            \/ c = next /\ Lead = Away /\ Lead' = -1 /\ Second = Away /\ Second' = Away
            \/ c = next + 1 /\ Lead' = Lead /\ Lead >= Width /\ Second = Away /\ Second' = -1
<1>1. /\ nose[c] = Away /\ nose' = [nose EXCEPT ![c] = -1]
      /\ c > 1 => nose[c - 1] >= Width + Gap - 1
      /\ UNCHANGED <<occ, next>>
  BY DEF Place, callerVars
<1>2. /\ c \in Nat /\ c >= 1 /\ next \in 1 .. MaxCubes + 1 /\ MaxCubes \in Nat
      /\ nose \in [Cubes -> Away .. Gone]
  BY Lengths DEF Cubes, Types
<1>3. /\ nose'[c] = -1 /\ \A d \in Cubes : d # c => nose'[d] = nose[d]
      /\ nose' \in [Cubes -> Away .. Gone]
  <2>1. -1 \in Away .. Gone
    BY Lengths
  <2> QED
    BY <1>1, <1>2, <2>1
<1>4. \/ c < next /\ Lead' = Lead /\ Second' = Second
      \/ c = next /\ Lead = Away /\ Lead' = -1 /\ Second = Away /\ Second' = Away
      \/ c = next + 1 /\ Lead' = Lead /\ Lead >= Width /\ Second = Away /\ Second' = -1
  <2>1. CASE c < next
    BY <1>1, <1>2, <1>3, <2>1 DEF Lead, Second, Nose
  <2>2. CASE c = next
    <3>1. Lead = Away /\ Lead' = -1 /\ Second' = Second
      BY <1>1, <1>2, <1>3, <2>2 DEF Lead, Second, Nose
    <3>2. Second = Away
      BY <3>1, Lengths DEF Queue
    <3> QED
      BY <2>2, <3>1, <3>2
  <2>3. CASE c = next + 1
    <3>1. Second = Away /\ Second' = -1 /\ Lead' = Lead
      BY <1>1, <1>2, <1>3, <2>3 DEF Lead, Second, Nose
    <3>2. c - 1 = next /\ next \in Cubes
      BY <1>2, <2>3 DEF Cubes
    <3>3. Lead >= Width + Gap - 1 /\ Lead \in Int
      <4>1. c > 1
        BY <1>2, <2>3
      <4>2. nose[next] \in Int /\ nose[next] >= Width + Gap - 1
        BY <1>1, <1>2, <3>2, <4>1, Lengths
      <4> QED
        BY <3>2, <4>2 DEF Lead, Nose
    <3> QED
      BY <2>3, <3>1, <3>3, Lengths
  <2>4. CASE c > next + 1
    <3>1. c - 1 \in Cubes /\ c - 1 > next /\ c > 1
      BY <1>2, <2>4 DEF Cubes
    <3>2. nose[c - 1] \in Calm
      BY <3>1 DEF Queue
    <3>3. nose[c - 1] >= Width + Gap - 1
      BY <1>1, <3>1
    <3> QED
      BY <3>2, <3>3, Lengths DEF Calm
  <2> QED
    BY <1>2, <2>1, <2>2, <2>3, <2>4
<1>5. Lead \in Int
  BY <1>2, Lengths DEF Lead, Nose
<1>6. Queue'
  <2>1. \A d \in Cubes : d < next => nose'[d] = Gone \/ \E st \in Tracked : occ[st] = d
    <3> SUFFICES ASSUME NEW d \in Cubes, d < next
                 PROVE  nose'[d] = Gone \/ \E st \in Tracked : occ[st] = d
      OBVIOUS
    <3>1. nose[d] = Gone \/ \E st \in Tracked : occ[st] = d
      BY DEF Queue
    <3>2. Away # Gone
      BY Lengths
    <3> QED
      BY <1>1, <1>3, <3>1, <3>2
  <2>2. \A d \in Cubes : d > next => nose'[d] \in Calm
    BY <1>3 DEF Queue, Calm
  <2>3. \A d \in Cubes : d > next + 1 => nose'[d] = Away
    BY <1>2, <1>3, <1>4 DEF Queue, Cubes
  <2>4. (Second' # Away => Lead' >= Width) /\ (Second' = 0 => Lead' >= Width + 1)
    BY <1>4, <1>5, Lengths DEF Queue
  <2> QED
    BY <1>1, <2>1, <2>2, <2>3, <2>4 DEF Queue
<1> QED
  BY <1>3, <1>4, <1>6

\* Nobody looks where a cube is put on: the watches wait for it as they did.
LEMMA PlaceKeeps ==
  ASSUME Going, NEW c \in Cubes, Place(c)
  PROVE  Sound'
<1>1. /\ Types /\ Queue /\ Books /\ Control /\ AtRest /\ Feed /\ Belt /\ (pc = "lapse" => ~coil)
  BY DEF Going, Core, Sound
<1>2. /\ nose[c] = Away
      /\ UNCHANGED <<coil, run, watch, pc, verb, wz, chain, arrived, seen, turn, beat, occ, next,
                     staged, slide>>
  BY DEF Place, verbVars, callerVars
<1>3. c \in Nat /\ next \in Int
  BY <1>1, Lengths DEF Cubes, Types
<1>4. \A d \in Cubes : d # c => nose'[d] = nose[d]
  BY <1>1, PutOn
<1>5. c >= next
  <2> SUFFICES ASSUME c < next
               PROVE  FALSE
    BY <1>3
  <2>1. nose[c] = Gone \/ occ["O"] = c \/ occ["F1"] = c \/ occ["F2"] = c
    BY <1>1 DEF Queue, Tracked
  <2>2. c # NoPart /\ Away # Gone /\ \A n \in Width .. Gone : n # Away
    BY Lengths DEF Cubes, NoPart
  <2> QED
    BY <1>2, <2>1, <2>2, ClearOfJunction DEF TakenO, TakenF1, TakenF2, AtO, AtF1, AtF2
<1>6. /\ (TakenO' <=> TakenO) /\ (TakenF1' <=> TakenF1) /\ (TakenF2' <=> TakenF2)
      /\ TakenO => AtO' = AtO
      /\ TakenF1 => AtF1' = AtF1
      /\ TakenF2 => AtF2' = AtF2
  <2>1. /\ TakenO => occ["O"] \in Cubes /\ occ["O"] < next
        /\ TakenF1 => occ["F1"] \in Cubes /\ occ["F1"] < next
        /\ TakenF2 => occ["F2"] \in Cubes /\ occ["F2"] < next
    BY <1>1, Positions
  <2>2. \A d \in Cubes : d < next => nose'[d] = nose[d]
    BY <1>3, <1>4, <1>5 DEF Cubes
  <2> QED
    BY <1>2, <2>1, <2>2 DEF TakenO, TakenF1, TakenF2, AtO, AtF1, AtF2
<1>7. \/ Lead = Away /\ Lead' = -1 /\ Second = Away /\ Second' = Away
      \/ Lead' = Lead /\ Lead >= Width /\ Second = Away /\ Second' = -1
  BY <1>1, <1>3, <1>5, PutOn
<1>8. Lead \in Away .. WorkZero
  BY LeadBehind
<1>9. (Idle' <=> Idle) /\ (InVerb' <=> InVerb) /\ Adrift' = Adrift /\ (Slid' <=> Slid)
  BY <1>2 DEF Idle, InVerb, Adrift, Slid, Doing
<1>10. Queue'
  BY <1>1, PutOn
<1>11. /\ Waits(Lead) => Waits(Lead)'
       /\ Waits(Second) => Waits(Second)'
       /\ Missed => Missed'
  BY <1>2, <1>7, <1>8, Lengths DEF Waits, Missed, Calm
<1>12. ASSUME NEW w
       PROVE  Follows(w) => /\ w = Whole => Lead' \in Calm /\ (coil /\ seen => Lead' # 0)
                            /\ w = FromTail => Lead' \in 0 .. Width /\ (coil /\ seen => Lead' # Width)
                            /\ w = LastNose => Lead' >= Width /\ (coil /\ seen => Second' # 0)
                            /\ w = << >> => Lead' >= Width + 1
  BY <1>7, <1>8, Lengths DEF Follows, Calm
<1>13. (Follows(watch) => Follows(watch)') /\ (Follows(chain) => Follows(chain)')
  BY <1>2, <1>12 DEF Follows
<1>14. LeadWaits' /\ NextWaits' /\ IdleFeed'
  <2>1. LeadWaits'
    BY <1>1, <1>2, <1>9, <1>11 DEF Feed, LeadWaits, Doing
  <2>2. NextWaits'
    <3>1. StagingEye # Away
      BY Lengths
    <3> QED
      BY <1>1, <1>2, <1>7, <1>9, <1>11, <3>1 DEF Feed, NextWaits, Doing
  <2>3. IdleFeed'
    <3>1. Lead <= StagingEye => Lead' <= StagingEye
      BY <1>7, Lengths
    <3>2. Lead \in Calm /\ (coil /\ seen => Lead # 0) =>
            Lead' \in Calm /\ (coil' /\ seen' => Lead' # 0)
      BY <1>2, <1>7, Lengths DEF Calm
    <3> QED
      BY <1>1, <1>9, <1>13, <3>1, <3>2 DEF Feed, IdleFeed
  <2> QED
    BY <2>1, <2>2, <2>3
<1>15. Intakes'
  <2>1. /\ Lead <= Width => Lead' <= Width
        /\ Lead < Width => Lead' < Width
        /\ Lead <= StagingEye => Lead' <= StagingEye
        /\ Lead # StagingEye => Lead' # StagingEye
        /\ Lead = StagingEye => Lead' = StagingEye
    BY <1>7, <1>8, Lengths
  <2> QED
    BY <1>1, <1>2, <1>9, <1>13, <2>1 DEF Feed, Intakes, Doing
<1>16. Stages'
  <2>1. /\ Lead \in {0, 1} => Lead' = Lead
        /\ Lead \in 0 .. StagingEye => Lead' = Lead
        /\ Lead # StagingEye => Lead' # StagingEye
        /\ Lead = StagingEye => Lead' = StagingEye
    BY <1>7, <1>8, Lengths
  <2>2. Missed => Missed'
    BY <1>11
  <2>3. Missed' => Lead' \in Calm
    BY DEF Missed
  <2>4. Missed' => Missed
    <3>1. Lead' = -1 /\ Lead = Away => (Lead \in Calm /\ Lead # 0)
      BY Lengths DEF Calm
    <3> QED
      BY <1>2, <1>7, <3>1 DEF Missed
  <2> QED
    BY <1>1, <1>2, <1>9, <1>13, <2>1, <2>2, <2>4 DEF Feed, Stages, Doing
<1>17. Belt'
  <2>1. Standing' /\ MadeUp' /\ MovingBlind'
    BY <1>1, <1>2, <1>6, <1>9 DEF Belt, Standing, MadeUp, MovingBlind, EntryBeat
  <2>2. Retreating' /\ TurningBack'
    <3>1. verb = "retreat" /\ pc \in {"poll", "turn", "back", "return"} => TakenF2
      BY <1>1 DEF Control, Doing, InVerb
    <3> QED
      BY <1>1, <1>2, <1>6, <3>1 DEF Belt, Retreating, TurningBack
  <2>3. CASE pc \in {"poll", "return"} /\ verb \in {"entry", "return"}
    <3>1. verb = "return" => TakenF1
      BY <1>1, <2>3 DEF Control, Doing, InVerb
    <3>2. Arriver \in Width .. WorkZero
      BY <1>1, <2>3, Lengths DEF Belt, Arriving, Arrived
    <3>3. Arriver' = Arriver
      BY <1>2, <1>6, <1>7, <2>3, <3>1, <3>2, Lengths DEF Arriver
    <3> QED
      BY <1>1, <1>2, <1>6, <2>1, <2>2, <3>3 DEF Belt, Arriving, Arrived
  <2>4. CASE ~(pc \in {"poll", "return"} /\ verb \in {"entry", "return"})
    BY <1>2, <2>1, <2>2, <2>4 DEF Belt, Arriving, Arrived
  <2> QED
    BY <2>3, <2>4
<1> QED
  BY <1>1, <1>2, <1>10, <1>14, <1>15, <1>16, <1>17 DEF Sound, Feed

\* The same on a line that is stopped.
LEMMA PlaceStopped ==
  ASSUME Core, Stopped, NEW c \in Cubes, Place(c)
  PROVE  Stopped'
<1>1. Types /\ Queue
  BY DEF Core, Stopped
<1>2. UNCHANGED <<coil, run, verb, turn, staged>>
  BY DEF Place, verbVars, callerVars
<1>3. Queue' /\ (Lead' = Lead \/ Lead' = -1)
  BY <1>1, PutOn
<1> QED
  BY <1>2, <1>3 DEF Stopped, Calm, Idle

\* The cube being staged is lifted off: the feed waits for the one behind it.
LEMMA TakeOffKeeps ==
  ASSUME Going, NEW c \in Cubes, TakeOff(c)
  PROVE  Sound'
<1>1. /\ Types /\ Queue /\ Books /\ Control /\ Feed /\ Belt /\ Places
  BY DEF Going, Core, Sound, WatchInv
<1>2. /\ pc = "feed" /\ c = next /\ nose[c] \in 0 .. Width
      /\ nose' = [nose EXCEPT ![c] = Gone] /\ next' = next + 1 /\ seen' = FALSE
      /\ UNCHANGED <<coil, run, watch, pc, verb, wz, chain, arrived, turn, beat, occ, staged, slide>>
  BY DEF TakeOff, verbVars
<1>3. /\ verb = "stage" /\ Doing("stage") /\ ~Idle /\ ~staged
  BY <1>1, <1>2 DEF Places, Doing, InVerb, Control, Books, Idle
<1>4. /\ next \in 1 .. MaxCubes + 1 /\ MaxCubes \in Nat /\ next \in Int
      /\ Lead = nose[next] /\ Lead \in 0 .. Width
  BY <1>1, <1>2, Lengths DEF Types, Lead, Nose
<1>5. \A d \in Cubes : d # next => nose'[d] = nose[d]
  BY <1>1, <1>2 DEF Types
<1>6. nose'[next] = Gone
  BY <1>1, <1>2 DEF Types
<1>7. /\ Lead' = Second /\ Second' = Away
      /\ \A d \in Cubes : d > next + 1 => nose'[d] = Away
  <2>1. Lead' = Second
    BY <1>2, <1>4, <1>5 DEF Lead, Second, Nose
  <2>2. \A d \in Cubes : d > next + 1 => nose'[d] = Away
    BY <1>1, <1>4, <1>5 DEF Queue, Cubes
  <2>3. Second' = Away
    <3>1. next + 1 + 1 > next + 1
      BY <1>4
    <3> QED
      BY <1>2, <2>2, <3>1 DEF Second, Nose
  <2> QED
    BY <2>1, <2>2, <2>3
<1>8. Second \in Calm /\ Second # 0
  <2>1. Second = 0 => Lead >= Width + 1
    BY <1>1 DEF Queue
  <2> QED
    BY <1>1, <1>4, <2>1, Positions, Lengths
<1>9. Queue'
  <2>1. \A d \in Cubes : d < next + 1 => nose'[d] = Gone \/ \E st \in Tracked : occ[st] = d
    <3> SUFFICES ASSUME NEW d \in Cubes, d < next + 1
                 PROVE  nose'[d] = Gone \/ \E st \in Tracked : occ[st] = d
      OBVIOUS
    <3>1. CASE d = next
      BY <1>6, <3>1
    <3>2. CASE d < next
      BY <1>1, <1>4, <1>5, <3>2 DEF Queue
    <3> QED
      BY <1>4, <3>1, <3>2 DEF Cubes
  <2>2. \A d \in Cubes : d > next + 1 => nose'[d] \in Calm
    BY <1>7 DEF Calm
  <2>3. \A d \in Cubes : d > next + 1 + 1 => d > next + 1
    BY <1>4 DEF Cubes
  <2>4. Away # 0
    BY Lengths
  <2> QED
    BY <1>2, <1>7, <2>1, <2>2, <2>3, <2>4 DEF Queue
<1>10. Stages'
  <2>1. Missed \/ (Follows(chain) /\ chain # Whole)
    BY <1>1, <1>2, <1>3 DEF Feed, Stages
  <2>2. chain \in {FromTail, LastNose, << >>}
    BY <1>1, <2>1 DEF Missed, Types, Chains
  <2>3. Missed'
    BY <1>2, <1>7, <1>8, <2>2 DEF Missed
  <2>4. Lead' # StagingEye
    BY <1>7, <1>8, Lengths DEF Calm
  <2> QED
    BY <1>2, <2>3 DEF Stages
<1>11. Feed'
  BY <1>2, <1>3, <1>10 DEF Feed, LeadWaits, NextWaits, IdleFeed, Intakes, Doing, InVerb, Idle
<1>12. /\ (TakenO' <=> TakenO) /\ (TakenF1' <=> TakenF1) /\ (TakenF2' <=> TakenF2)
       /\ TakenO => AtO' = AtO
       /\ TakenF1 => AtF1' = AtF1
       /\ TakenF2 => AtF2' = AtF2
  <2>1. /\ TakenO => occ["O"] \in Cubes /\ occ["O"] < next
        /\ TakenF1 => occ["F1"] \in Cubes /\ occ["F1"] < next
        /\ TakenF2 => occ["F2"] \in Cubes /\ occ["F2"] < next
    BY <1>1, Positions
  <2>2. \A d \in Cubes : d < next => nose'[d] = nose[d]
    BY <1>4, <1>5 DEF Cubes
  <2> QED
    BY <1>2, <2>1, <2>2 DEF TakenO, TakenF1, TakenF2, AtO, AtF1, AtF2
<1>13. Belt'
  <2>1. Adrift' = Adrift /\ (Slid' <=> Slid)
    BY <1>2 DEF Adrift, Slid, Doing, InVerb
  <2>2. Standing' /\ MadeUp'
    BY <1>1, <1>2, <1>12, <2>1 DEF Belt, Standing, MadeUp, EntryBeat
  <2> QED
    BY <1>2, <1>3, <2>2 DEF Belt, Arriving, Arrived, Retreating, TurningBack, MovingBlind
<1> QED
  BY <1>2, <1>9, <1>11, <1>13 DEF Sound

-----------------------------------------------------------------------------
(***************************************************************************)
(* The belts move.                                                          *)
(***************************************************************************)
\* How one cube moves between two polls.
LEMMA Pushed ==
  ASSUME Types, Tick, NEW c \in Cubes
  PROVE  /\ nose'[c] \in Away .. Gone
         /\ nose[c] \in {Away, Gone} => nose'[c] = nose[c]
         /\ nose[c] \in {-1, 0} /\ coil => nose'[c] = nose[c] + 1
         /\ nose[c] \in {-1, 0} /\ ~coil => nose'[c] = nose[c]
         /\ nose[c] \in 1 .. Gone - 1 /\ run > 0 => nose'[c] = nose[c] + 1
         /\ nose[c] \in 1 .. Gone - 1 /\ run < 0 => nose'[c] = nose[c] - 1
         /\ nose[c] \in 1 .. Width /\ run = 0 => nose'[c] = nose[c] + 1
         /\ nose[c] \in Width + 1 .. Gone - 1 /\ run = 0 =>
              /\ nose'[c] \in {nose[c], nose[c] + 1}
              /\ c < next \/ nose[c] >= StagingEye => nose'[c] = nose[c]
<1>1. /\ nose[c] \in Away .. Gone /\ run \in Int /\ coil \in BOOLEAN
      /\ next \in Int /\ c \in Int
  BY Lengths DEF Types, Cubes
<1>2. PICK push \in BOOLEAN : nose'[c] = Moved(c, push)
  BY DEF Tick
<1>3. coil \/ run # 0
  BY DEF Tick
<1>4. /\ run > 0 => Sign(run) = 1
      /\ run < 0 => Sign(run) = -1
  BY <1>1 DEF Sign
<1> DEFINE n == nose[c]
           Z1 == coil /\ (n <= Width \/ (push /\ c >= next /\ n < StagingEye))
<1>5. /\ n \in {Away, Gone} => nose'[c] = n
      /\ n \notin {Away, Gone} /\ run # 0 /\ n >= 1 => nose'[c] = n + Sign(run)
      /\ n \notin {Away, Gone} /\ ~(run # 0 /\ n >= 1) /\ Z1 => nose'[c] = n + 1
      /\ n \notin {Away, Gone} /\ ~(run # 0 /\ n >= 1) /\ ~Z1 => nose'[c] = n
  BY <1>2 DEF Moved
<1>6. CASE n \in {Away, Gone}
  BY <1>1, <1>5, <1>6, Lengths
<1>7. CASE n \in {-1, 0}
  BY <1>1, <1>5, <1>7, Lengths
<1>8. CASE n \in 1 .. Gone - 1 /\ run # 0
  BY <1>1, <1>4, <1>5, <1>8, Lengths
<1>9. CASE n \in 1 .. Gone - 1 /\ run = 0
  <2>1. coil /\ (Z1 <=> n <= Width \/ (push /\ c >= next /\ n < StagingEye))
    BY <1>3, <1>9
  <2> HIDE DEF Z1
  <2> QED
    BY <1>1, <1>5, <1>9, <2>1, Lengths
<1> QED
  BY <1>1, <1>6, <1>7, <1>8, <1>9, Lengths

\* What a tick does to one who is aboard and to the one at the head; no one else is touched.
Carried(n, m) ==
  /\ m \in Away .. Gone
  /\ n = Gone => m = Gone
  /\ n \in Width .. Gone - 1 /\ run > 0 => m = n + 1
  /\ n \in Width .. Gone - 1 /\ run < 0 => m = n - 1
  /\ n \in Width + 1 .. Gone - 1 /\ run = 0 => m = n
  /\ n = Width /\ run = 0 => m = n + 1

Led(n, m) ==
  /\ m \in Away .. Gone
  /\ n = Away => m = Away
  /\ n \in {-1, 0} /\ coil => m = n + 1
  /\ n \in {-1, 0} /\ ~coil => m = n
  /\ n \in 1 .. WorkZero /\ run > 0 => m = n + 1
  /\ n \in 1 .. Width /\ run = 0 => m = n + 1
  /\ n \in Width + 1 .. StagingEye - 1 /\ run = 0 => m \in {n, n + 1}
  /\ n \in StagingEye .. WorkZero /\ run = 0 => m = n

\* Everybody, after a tick.
LEMMA Ticked ==
  ASSUME Going, Tick
  PROVE  /\ coil \/ run # 0
         /\ seen \/ pc = "blind"
         /\ run > 0 => run' = run - 1
         /\ run < 0 => run' = run + 1
         /\ run = 0 => run' = 0
         /\ run' \in Int
         /\ seen' = FALSE
         /\ UNCHANGED <<coil, watch, pc, verb, wz, chain, arrived, turn, beat, occ, next,
                        staged, slide>>
         /\ nose' \in [Cubes -> Away .. Gone]
         /\ (TakenO' <=> TakenO) /\ (TakenF1' <=> TakenF1) /\ (TakenF2' <=> TakenF2)
         /\ TakenO => Carried(AtO, AtO')
         /\ TakenF1 => Carried(AtF1, AtF1')
         /\ TakenF2 => Carried(AtF2, AtF2')
         /\ Led(Lead, Lead')
         /\ Second = Away => Second' = Away
         /\ Second # Away /\ coil => Second' = Second + 1
         /\ ~coil => Second' = Second
<1>1. Types /\ Queue /\ Books /\ AtRest /\ (pc = "lapse" => ~coil) /\ pc # "down"
  BY DEF Going, Core, Sound
<1>2. /\ coil \/ run # 0
      /\ seen \/ pc = "blind"
      /\ seen' = FALSE
      /\ UNCHANGED <<coil, watch, pc, verb, wz, chain, arrived, turn, beat, occ, next, staged,
                     slide>>
  BY <1>1 DEF Tick, AtRest, verbVars, callerVars
<1>3. run \in Int /\ run' = run - Sign(run)
  BY <1>1, Lengths DEF Types, Tick
<1>4. /\ run > 0 => run' = run - 1
      /\ run < 0 => run' = run + 1
      /\ run = 0 => run' = 0
      /\ run' \in Int
  BY <1>3 DEF Sign
<1>5. nose' \in [Cubes -> Away .. Gone]
  <2>1. \A c \in Cubes : nose'[c] \in Away .. Gone
    BY <1>1, Pushed
  <2>2. DOMAIN nose' = Cubes /\ nose' = [c \in DOMAIN nose' |-> nose'[c]]
    BY DEF Tick
  <2> QED
    BY <2>1, <2>2
<1>6. (TakenO' <=> TakenO) /\ (TakenF1' <=> TakenF1) /\ (TakenF2' <=> TakenF2)
  BY <1>2 DEF TakenO, TakenF1, TakenF2
<1>7. ASSUME NEW c \in Cubes, c < next
      PROVE  Carried(nose[c], nose'[c])
  <2> DEFINE n == nose[c]
             m == nose'[c]
  <2>1. /\ m \in Away .. Gone
        /\ n \in {Away, Gone} => m = n
        /\ n \in 1 .. Gone - 1 /\ run > 0 => m = n + 1
        /\ n \in 1 .. Gone - 1 /\ run < 0 => m = n - 1
        /\ n \in 1 .. Width /\ run = 0 => m = n + 1
        /\ n \in Width + 1 .. Gone - 1 /\ run = 0 => m = n
    BY <1>1, <1>7, Pushed
  <2> HIDE DEF n, m
  <2>2. Carried(n, m)
    BY <2>1, Lengths DEF Carried
  <2> QED
    BY <2>2 DEF n, m
<1>8. /\ TakenO => Carried(AtO, AtO')
      /\ TakenF1 => Carried(AtF1, AtF1')
      /\ TakenF2 => Carried(AtF2, AtF2')
  <2>1. /\ TakenO => occ["O"] \in Cubes /\ occ["O"] < next
        /\ TakenF1 => occ["F1"] \in Cubes /\ occ["F1"] < next
        /\ TakenF2 => occ["F2"] \in Cubes /\ occ["F2"] < next
    BY <1>1, Positions
  <2>2. occ' = occ
    BY <1>2
  <2> QED
    BY <1>7, <2>1, <2>2 DEF AtO, AtF1, AtF2
<1>9. Led(Lead, Lead')
  <2>1. CASE next \in Cubes
    <3> DEFINE n == nose[next]
               m == nose'[next]
    <3>1. /\ m \in Away .. Gone
          /\ n \in {Away, Gone} => m = n
          /\ n \in {-1, 0} /\ coil => m = n + 1
          /\ n \in {-1, 0} /\ ~coil => m = n
          /\ n \in 1 .. Gone - 1 /\ run > 0 => m = n + 1
          /\ n \in 1 .. Width /\ run = 0 => m = n + 1
          /\ n \in Width + 1 .. Gone - 1 /\ run = 0 =>
               m \in {n, n + 1} /\ (n >= StagingEye => m = n)
      BY <1>1, <2>1, Pushed
    <3> HIDE DEF n, m
    <3>2. Led(n, m)
      BY <3>1, Lengths DEF Led
    <3> QED
      BY <1>2, <2>1, <3>2 DEF n, m, Lead, Nose
  <2>2. CASE next \notin Cubes
    <3>1. Lead = Away /\ Lead' = Away
      BY <1>2, <2>2 DEF Lead, Nose
    <3> QED
      BY <3>1, Lengths DEF Led
  <2> QED
    BY <2>1, <2>2
<1>10. /\ Second = Away => Second' = Away
       /\ Second # Away /\ coil => Second' = Second + 1
       /\ ~coil => Second' = Second
  <2>1. CASE next + 1 \in Cubes
    <3>1. /\ nose[next + 1] \in {Away, Gone} => nose'[next + 1] = nose[next + 1]
          /\ nose[next + 1] \in {-1, 0} /\ coil => nose'[next + 1] = nose[next + 1] + 1
          /\ nose[next + 1] \in {-1, 0} /\ ~coil => nose'[next + 1] = nose[next + 1]
      BY <1>1, <2>1, Pushed
    <3>2. Second = nose[next + 1] /\ Second' = nose'[next + 1] /\ Second \in Calm
      BY <1>1, <1>2, <2>1, Positions DEF Second, Nose
    <3> QED
      BY <3>1, <3>2 DEF Calm
  <2>2. CASE next + 1 \notin Cubes
    BY <1>2, <2>2 DEF Second, Nose
  <2> QED
    BY <2>1, <2>2
<1> QED
  BY <1>2, <1>4, <1>5, <1>6, <1>8, <1>9, <1>10

\* Which way Z2 runs, and who is on the way while it is being polled.
LEMMA Running ==
  ASSUME Going, seen \/ pc = "blind"
  PROVE  /\ run # 0 => pc \in {"poll", "back", "nudge", "blind"}
         /\ run < 0 => pc = "poll" /\ verb = "retreat" /\ Lead \in Calm
         /\ pc = "poll" /\ verb = "retreat" => run < 0
<1>1. Types /\ Queue /\ Books /\ Control /\ AtRest /\ Feed /\ Belt /\ Places
      /\ pc \notin {"faulted", "down"}
  BY DEF Going, Core, Sound, WatchInv
<1>2. run \in Int /\ Lead \in Int
  BY <1>1, Lengths, Positions DEF Types
<1>3. pc = "sample" => run = 0
  <2>1. pc = "sample" /\ verb = "intake" => ~seen
    BY <1>1 DEF AtRest
  <2> QED
    BY <1>1, <2>1 DEF AtRest
<1>4. CASE pc = "poll" /\ verb = "intake"
  <2>1. run \in 0 .. StagingEye + 3
    BY <1>1, <1>4 DEF Feed, Intakes, Doing, InVerb
  <2> QED
    BY <1>4, <2>1, Lengths
<1>5. CASE pc = "poll" /\ verb \in {"entry", "return"}
  <2>1. /\ Arriver \in Width + 1 .. WorkZero
        /\ run + Arriver \in 2 * Spacing + Width .. 2 * Spacing - 1 + StagingEye
    BY <1>1, <1>5 DEF Belt, Arriving
  <2> QED
    BY <1>2, <1>5, <2>1, Lengths
<1>6. pc = "poll" /\ verb = "retreat" => Lead \in Calm
  BY <1>1 DEF Control, Feed, LeadWaits, Waits, Doing, InVerb, Idle
<1>7. CASE pc = "poll" /\ verb = "retreat"
  <2>1. /\ AtF2 \in WorkZero - 1 .. WorkZero + Spacing + Slide
        /\ AtF2 # WorkZero - 1
        /\ AtF2 + run \in WorkZero - Spacing + 1 .. WorkZero - Spacing + 1 + Slide
    BY <1>1, <1>7 DEF Belt, Retreating
  <2> QED
    BY <1>2, <1>7, <1>6, <2>1, Lengths
<1>8. CASE pc = "nudge"
  <2>1. run \in 1 .. StagingEye \/ run \in 0 .. StagingEye
    BY <1>1, <1>8 DEF Feed, Stages, Doing, InVerb, Places
  <2> QED
    BY <1>8, <2>1, Lengths
<1>9. CASE pc = "back"
  <2>1. run \in Width - 1 .. Width
    BY <1>1, <1>9 DEF Belt, TurningBack, Places
  <2> QED
    BY <1>9, <2>1, Lengths
<1>10. CASE pc = "blind"
  <2>1. run \in 0 .. Spacing
    BY <1>1, <1>10 DEF Belt, MovingBlind, Places
  <2> QED
    BY <1>10, <2>1, Lengths
<1>11. CASE pc \in {"free", "held", "lapse", "arm", "turn", "return", "feed", "sample"}
  BY <1>1, <1>3, <1>11 DEF AtRest
<1> QED
  BY <1>1, <1>4, <1>5, <1>7, <1>8, <1>9, <1>10, <1>6, <1>11 DEF Places

\* A live coil never pushes the one behind past the junction behind the driver's back.
LEMMA HeadSafe ==
  ASSUME Going, seen, coil
  PROVE  /\ Second # 0
         /\ Second # Away => run >= 0
<1>1. Types /\ Queue /\ Books /\ Control /\ AtRest /\ Feed /\ Belt /\ Places /\ CoilInv
      /\ pc \notin {"faulted", "down"}
  BY DEF Going, Core, Sound, WatchInv
<1>2. Lead \in Away .. WorkZero /\ Second \in Calm /\ run \in Int
  BY <1>1, LeadBehind, Lengths, Positions DEF Types
<1>3. (Second # Away => Lead >= Width) /\ (Second = 0 => Lead >= Width + 1)
  BY <1>1 DEF Queue
<1>4. Second # Away => run >= 0
  <2>1. run < 0 => Lead \in Calm
    BY Running
  <2> QED
    BY <1>2, <1>3, <2>1, Lengths DEF Calm
<1>5. (Lead \in Calm => Second # 0) /\ (Lead <= Width => Second # 0)
  BY <1>2, <1>3, Lengths DEF Calm
<1>6. ASSUME NEW w \in Chains, Follows(w)
      PROVE  Second # 0
  <2>1. Lead \in 0 .. Width => Lead <= Width
    BY <1>2, Lengths
  <2> QED
    BY <1>5, <1>6, <2>1 DEF Follows, Chains
<1>7. watch \in Chains /\ chain \in Chains
  BY <1>1 DEF Types
<1>8. CASE ~Idle /\ ~staged /\ ~Doing("stage")
  BY <1>1, <1>4, <1>5, <1>8 DEF Feed, LeadWaits, Waits
<1>9. CASE Doing("stage")
  <2>1. Lead \in {0, 1} => Lead <= Width
    BY Lengths
  <2> QED
    BY <1>1, <1>4, <1>5, <1>6, <1>7, <1>9, <2>1 DEF Feed, Stages, Missed
<1>10. CASE staged \/ Doing("entry")
  BY <1>1, <1>4, <1>10 DEF Feed, NextWaits, Waits
<1>11. CASE Doing("intake")
  <2>1. pc \in {"arm", "sample", "poll", "return"}
    BY <1>1, <1>11 DEF Doing, InVerb, Places
  <2> QED
    BY <1>1, <1>4, <1>5, <1>6, <1>7, <1>11, <2>1 DEF Feed, Intakes
<1>12. CASE Idle /\ ~InVerb
  BY <1>1, <1>4, <1>5, <1>6, <1>7, <1>12 DEF Feed, IdleFeed
<1>13. Idle /\ InVerb => Doing("intake") \/ Doing("entry")
  BY <1>1 DEF Control, Places, Doing, InVerb, Idle
<1> QED
  BY <1>4, <1>8, <1>9, <1>10, <1>11, <1>12, <1>13

\* A tick and the queue.
LEMMA TickQueue ==
  ASSUME Going, Tick
  PROVE  Queue'
<1>1. Types /\ Queue /\ Books /\ CoilInv
  BY DEF Going, Core, Sound, WatchInv
<1>2. /\ coil \/ run # 0
      /\ seen \/ pc = "blind"
      /\ UNCHANGED <<coil, occ, next>>
      /\ Led(Lead, Lead')
      /\ Second = Away => Second' = Away
      /\ Second # Away /\ coil => Second' = Second + 1
      /\ ~coil => Second' = Second
  BY Ticked
<1>3. /\ Lead \in Away .. WorkZero /\ Second \in Calm /\ run \in Int /\ coil \in BOOLEAN
  BY <1>1, Lengths, LeadBehind, Positions DEF Types
<1>4. /\ coil => Second # 0 /\ (Second # Away => run >= 0)
      /\ run < 0 => Lead \in Calm
  BY <1>1, <1>2, HeadSafe, Running DEF CoilInv, Unpolled
<1>5. next \in 1 .. MaxCubes + 1 /\ MaxCubes \in Nat
  BY <1>1, Lengths DEF Types
<1>6. \A c \in Cubes : c < next => nose'[c] = Gone \/ \E st \in Tracked : occ[st] = c
  BY <1>1, Pushed DEF Queue
<1>7. \A c \in Cubes : c > next + 1 => nose'[c] = Away
  BY <1>1, Pushed DEF Queue
<1>8. Second' \in Calm
  BY <1>2, <1>3, <1>4, Lengths DEF Calm
<1>9. \A c \in Cubes : c > next => nose'[c] \in Calm
  <2> SUFFICES ASSUME NEW c \in Cubes, c > next PROVE nose'[c] \in Calm
    OBVIOUS
  <2>1. CASE c = next + 1
    BY <1>2, <1>8, <2>1 DEF Second, Nose
  <2>2. CASE c > next + 1
    BY <1>7, <2>2 DEF Calm
  <2> QED
    BY <1>5, <2>1, <2>2 DEF Cubes
<1>10. /\ Second' # Away => Second # Away
       /\ Second # Away => Lead >= Width
       /\ Second = 0 => Lead >= Width + 1
  BY <1>1, <1>2 DEF Queue
<1>11. Second' # Away => Lead' >= Width
  <2>1. CASE run >= 0
    BY <1>2, <1>3, <1>10, <2>1, Lengths DEF Led
  <2>2. CASE run < 0
    BY <1>4, <1>10, <2>2, Lengths DEF Calm
  <2> QED
    BY <1>3, <2>1, <2>2
<1>12. Second' = 0 => Lead' >= Width + 1
  <2>1. CASE coil
    <3>1. Second' = 0 => run >= 0 /\ Lead >= Width
      BY <1>2, <1>3, <1>4, <1>10, <2>1, Lengths DEF Calm
    <3> QED
      BY <1>2, <1>3, <3>1, Lengths DEF Led
  <2>2. CASE ~coil
    <3>1. Second' = 0 => Second = 0 /\ Lead >= Width + 1 /\ run # 0
      BY <1>2, <1>10, <2>2
    <3>2. CASE run > 0
      BY <1>2, <1>3, <3>1, <3>2, Lengths DEF Led
    <3>3. CASE run < 0
      BY <1>4, <3>1, <3>3, Lengths DEF Calm
    <3> QED
      BY <1>3, <3>1, <3>2, <3>3
  <2> QED
    BY <1>3, <2>1, <2>2
<1> QED
  BY <1>2, <1>6, <1>7, <1>9, <1>11, <1>12 DEF Queue

\* A tick and a chain that follows the crossing: whoever is polled for has not been missed.
LEMMA TickFollows ==
  ASSUME Going, Tick, NEW w \in Chains, run >= 0, coil \/ w = << >>,
         Follows(w)
  PROVE  /\ coil' => w # << >>
         /\ w = Whole => Lead' \in Calm /\ (coil' /\ seen' => Lead' # 0)
         /\ w = FromTail => Lead' \in 0 .. Width /\ (coil' /\ seen' => Lead' # Width)
         /\ w = LastNose => Lead' >= Width /\ (coil' /\ seen' => Second' # 0)
         /\ w = << >> => Lead' >= Width + 1
<1>1. Types /\ Queue /\ Books /\ CoilInv
  BY DEF Going, Core, Sound, WatchInv
<1>2. /\ coil \/ run # 0
      /\ seen \/ pc = "blind"
      /\ run \in Int /\ seen' = FALSE /\ coil' = coil
      /\ Led(Lead, Lead')
  BY <1>1, Ticked, Lengths DEF Types
<1>3. Lead \in Away .. WorkZero /\ coil \in BOOLEAN
  BY <1>1, LeadBehind DEF Types
<1>4. coil => seen
  BY <1>1, <1>2 DEF CoilInv, Unpolled
<1>5. coil => w # << >>
  BY DEF Follows
<1>6. ASSUME w = Whole
      PROVE  Lead' \in Calm
  <2>1. Lead \in Calm /\ coil /\ Lead # 0
    BY <1>4, <1>6, ChainsDiffer DEF Follows
  <2> QED
    BY <1>2, <1>3, <2>1, Lengths DEF Calm, Led
<1>7. ASSUME w = FromTail
      PROVE  Lead' \in 0 .. Width
  <2>1. coil /\ Lead \in 0 .. Width /\ Lead # Width
    BY <1>4, <1>7, ChainsDiffer DEF Follows
  <2> QED
    BY <1>2, <1>3, <2>1, Lengths DEF Led
<1>8. ASSUME w = LastNose
      PROVE  Lead' >= Width
  <2>1. Lead >= Width
    BY <1>8 DEF Follows
  <2> QED
    BY <1>2, <1>3, <2>1, Lengths DEF Led
<1>9. ASSUME w = << >>
      PROVE  Lead' >= Width + 1
  <2>1. Lead >= Width + 1
    BY <1>9 DEF Follows
  <2> QED
    BY <1>2, <1>3, <2>1, Lengths DEF Led
<1> QED
  BY <1>2, <1>5, <1>6, <1>7, <1>8, <1>9

\* A tick and the feed.
LEMMA TickFeed ==
  ASSUME Going, Tick
  PROVE  Feed'
<1>1. Types /\ Queue /\ Books /\ Control /\ AtRest /\ Feed /\ Belt /\ Places /\ CoilInv
      /\ pc \notin {"faulted", "down"}
  BY DEF Going, Core, Sound, WatchInv
<1>2. /\ coil \/ run # 0
      /\ seen \/ pc = "blind"
      /\ run > 0 => run' = run - 1
      /\ run < 0 => run' = run + 1
      /\ run = 0 => run' = 0
      /\ run' \in Int /\ run \in Int
      /\ seen' = FALSE
      /\ UNCHANGED <<coil, watch, pc, verb, wz, chain, arrived, turn, beat, occ, next, staged, slide>>
      /\ Led(Lead, Lead')
      /\ Second = Away => Second' = Away
      /\ Second # Away /\ coil => Second' = Second + 1
      /\ ~coil => Second' = Second
  BY <1>1, Ticked, Lengths DEF Types
<1>3. /\ Lead \in Away .. WorkZero /\ Second \in Calm /\ coil \in BOOLEAN
      /\ watch \in Chains /\ chain \in Chains
  BY <1>1, LeadBehind, Positions DEF Types
<1>4. coil => seen
  BY <1>1, <1>2 DEF CoilInv, Unpolled
<1>5. run # 0 => pc \in {"poll", "back", "nudge", "blind"}
  BY <1>2, Running
<1>6. Waits(Lead) => Waits(Lead)'
  <2>1. Waits(Lead) => Lead' \in Calm
    BY <1>2, <1>3, <1>4, Lengths DEF Waits, Calm, Led
  <2> QED
    BY <1>2, <2>1 DEF Waits
<1>7. Waits(Second) => Waits(Second)'
  <2>1. Waits(Second) => Second' \in Calm
    BY <1>2, <1>3, <1>4, Lengths DEF Waits, Calm
  <2> QED
    BY <1>2, <2>1 DEF Waits
<1>8. ASSUME NEW w \in Chains, run >= 0, coil \/ w = << >>, Follows(w)
      PROVE  /\ coil' => w # << >>
             /\ w = Whole => Lead' \in Calm /\ (coil' /\ seen' => Lead' # 0)
             /\ w = FromTail => Lead' \in 0 .. Width /\ (coil' /\ seen' => Lead' # Width)
             /\ w = LastNose => Lead' >= Width /\ (coil' /\ seen' => Second' # 0)
             /\ w = << >> => Lead' >= Width + 1
  BY <1>8, TickFollows
<1>9. LeadWaits'
  BY <1>1, <1>2, <1>6 DEF Feed, LeadWaits, Doing, InVerb, Idle
<1>10. NextWaits'
  <2>1. staged \/ Doing("entry") => Waits(Second)'
    BY <1>1, <1>7 DEF Feed, NextWaits
  <2>2. ASSUME staged \/ Doing("entry"), ~(Doing("entry") /\ pc \in {"poll", "return"})
        PROVE  Lead' = StagingEye
    <3>1. Lead = StagingEye
      BY <1>1, <2>2 DEF Feed, NextWaits
    <3>2. run = 0
      <4>1. CASE Doing("entry")
        BY <1>1, <1>5, <2>2, <4>1 DEF Places, Doing, InVerb
      <4>2. CASE staged /\ ~Doing("entry")
        <5>1. turn = "move"
          BY <1>1, <4>2 DEF Books
        <5>2. ~InVerb
          BY <1>1, <4>2, <5>1 DEF Control, Places, Doing, InVerb, Idle
        <5> QED
          BY <1>5, <5>2 DEF InVerb
      <4> QED
        BY <2>2, <4>1, <4>2
    <3> QED
      BY <1>2, <3>1, <3>2, Lengths DEF Led
  <2> QED
    BY <1>2, <2>1, <2>2 DEF NextWaits, Doing, InVerb
<1>11. IdleFeed'
  <2> SUFFICES ASSUME Idle, ~InVerb
               PROVE  /\ Lead' <= StagingEye
                      /\ Follows(watch)' \/ (Lead' \in Calm /\ (coil' /\ seen' => Lead' # 0))
    BY <1>2 DEF IdleFeed, Idle, InVerb
  <2>1. run = 0 /\ coil /\ seen
    BY <1>2, <1>4, <1>5 DEF InVerb
  <2>2. Lead <= StagingEye
    BY <1>1 DEF Feed, IdleFeed
  <2>3. Lead' <= StagingEye
    BY <1>2, <1>3, <2>1, <2>2, Lengths DEF Led
  <2>4. CASE Follows(watch)
    <3>1. run >= 0
      BY <2>1
    <3>2. Follows(watch)'
      BY <1>2, <1>3, <1>8, <2>1, <2>4, <3>1 DEF Follows
    <3> QED
      BY <2>3, <3>2
  <2>5. CASE Lead \in Calm /\ Lead # 0
    <3>1. Lead' \in Calm
      BY <1>2, <1>3, <2>1, <2>5, Lengths DEF Calm, Led
    <3> QED
      BY <1>2, <2>3, <3>1
  <2> QED
    BY <1>1, <2>1, <2>4, <2>5 DEF Feed, IdleFeed
<1>12. Intakes'
  <2> SUFFICES ASSUME Doing("intake")
               PROVE  /\ pc = "arm" => Lead' <= Width
                      /\ pc # "sample"
                      /\ pc = "poll" => /\ Follows(chain)' /\ Lead' <= StagingEye
                                        /\ run' \in 0 .. StagingEye + 3
                      /\ pc = "return" => /\ Follows(chain)' /\ Lead' <= StagingEye
                                          /\ arrived => Lead' = StagingEye
    BY <1>2 DEF Intakes, Doing, InVerb
  <2>1. pc \in {"arm", "sample", "poll", "return"} /\ verb = "intake" /\ seen
        /\ (coil \/ chain = << >> \/ pc \in {"arm", "sample"})
    BY <1>1, <1>2 DEF Doing, InVerb, Places, CoilInv, Hunts
  <2>2. CASE pc = "arm"
    <3>1. run = 0 /\ coil /\ Lead < Width
      BY <1>1, <1>2, <1>5, <2>1, <2>2 DEF Feed, Intakes
    <3>2. Lead' <= Width
      BY <1>2, <1>3, <3>1, Lengths DEF Led
    <3> QED
      BY <2>2, <3>2
  <2>3. pc # "sample"
    BY <1>1, <2>1 DEF AtRest
  <2>4. CASE pc = "poll"
    <3>1. Follows(chain) /\ Lead <= StagingEye /\ Lead # StagingEye
          /\ run \in 0 .. StagingEye + 3 /\ run # 0
      BY <1>1, <2>1, <2>4 DEF Feed, Intakes
    <3>2. run >= 0 /\ run' \in 0 .. StagingEye + 3
      BY <1>2, <3>1, Lengths
    <3>3. Follows(chain)'
      BY <1>2, <1>3, <1>8, <2>1, <2>4, <3>1, <3>2 DEF Follows
    <3>4. Lead' <= StagingEye
      BY <1>2, <1>3, <3>1, <3>2, Lengths DEF Led
    <3> QED
      BY <2>4, <3>2, <3>3, <3>4
  <2>5. CASE pc = "return"
    <3>1. Follows(chain) /\ Lead <= StagingEye /\ (arrived => Lead = StagingEye) /\ run = 0 /\ coil
      BY <1>1, <1>2, <1>5, <2>1, <2>5 DEF Feed, Intakes
    <3>2. run >= 0
      BY <3>1
    <3>3. Follows(chain)'
      BY <1>2, <1>3, <1>8, <3>1, <3>2 DEF Follows
    <3>4. Lead' <= StagingEye /\ (arrived => Lead' = StagingEye)
      BY <1>2, <1>3, <3>1, Lengths DEF Led
    <3> QED
      BY <2>5, <3>3, <3>4
  <2> QED
    BY <2>1, <2>2, <2>3, <2>4, <2>5
<1>13. Stages'
  <2> SUFFICES ASSUME Doing("stage") PROVE Stages'
    BY <1>2 DEF Stages, Doing, InVerb
  <2>1. pc \in {"sample", "feed", "nudge", "return"} /\ verb = "stage" /\ seen
        /\ (pc # "sample" => (coil <=> chain # << >>))
    BY <1>1, <1>2 DEF Places, Doing, InVerb, CoilInv, Hunts
  <2>2. CASE pc = "sample"
    <3>1. Lead = 0 /\ run = 0 /\ coil
      BY <1>1, <1>2, <1>5, <2>1, <2>2 DEF Feed, Stages
    <3>2. Lead' = 1
      BY <1>2, <3>1, Lengths DEF Led
    <3> QED
      BY <1>2, <2>2, <3>2 DEF Stages
  <2>3. ASSUME Missed, pc # "sample"
        PROVE  Missed'
    <3>1. /\ Lead \in Calm /\ chain \in {LastNose, << >>}
          /\ chain = LastNose => Lead # 0
      BY <2>1, <2>3 DEF Missed
    <3>2. coil <=> chain = LastNose
      BY <2>1, <2>3, <3>1, ChainsDiffer
    <3>3. Lead' \in Calm
      BY <1>2, <1>3, <3>1, <3>2, Lengths DEF Calm, Led
    <3> QED
      BY <1>2, <3>1, <3>3, ChainsDiffer DEF Missed
  <2>4. CASE pc \in {"feed", "nudge"}
    <3>1. (Missed \/ (Follows(chain) /\ chain # Whole /\ Lead \in 0 .. StagingEye))
          /\ Lead # StagingEye
      BY <1>1, <2>1, <2>4 DEF Feed, Stages
    <3>2. pc = "nudge" => /\ run \in 0 .. StagingEye /\ run # 0
                          /\ ~Missed => Lead + run \in StagingEye + Width + 1 .. 2 * StagingEye
      <4>1. pc = "nudge" /\ Missed => run \in 0 .. StagingEye /\ run # 0
        BY <1>1, <2>1 DEF Feed, Stages
      <4>2. pc = "nudge" /\ ~Missed => /\ run \in 1 .. StagingEye
                                       /\ Lead + run \in StagingEye + Width + 1 .. 2 * StagingEye
        BY <1>1, <2>1 DEF Feed, Stages
      <4>3. 1 .. StagingEye \subseteq 0 .. StagingEye /\ 0 \notin 1 .. StagingEye
        BY Lengths
      <4> QED
        BY <4>1, <4>2, <4>3
    <3>3. pc = "feed" => run = 0
      BY <1>5
    <3>4. run >= 0 /\ (pc = "nudge" => run' = run - 1 /\ run' \in 0 .. StagingEye)
      BY <1>2, <2>4, <3>2, <3>3, Lengths
    <3>5. ASSUME ~Missed
          PROVE  /\ Follows(chain)' /\ chain' # Whole /\ Lead' \in 0 .. StagingEye
                 /\ pc = "nudge" => Lead' = Lead + 1
      <4>1. Follows(chain) /\ chain # Whole /\ Lead \in 0 .. StagingEye
        BY <3>1, <3>5
      <4>2. Follows(chain)'
        BY <1>2, <1>3, <1>8, <2>1, <2>4, <3>4, <4>1 DEF Follows
      <4>3. Lead = 0 => coil
        <5>1. Lead = 0 => chain \notin {LastNose, << >>}
          BY <4>1, Lengths DEF Follows
        <5> QED
          BY <1>3, <2>1, <2>4, <4>1, <5>1 DEF Chains
      <4>4. Lead' \in 0 .. StagingEye
        BY <1>2, <1>3, <3>1, <3>4, <4>1, Lengths DEF Led
      <4>5. pc = "nudge" => Lead' = Lead + 1
        BY <1>2, <1>3, <3>2, <4>1, <4>3, Lengths DEF Led
      <4> QED
        BY <1>2, <4>1, <4>2, <4>4, <4>5
    <3>6. Missed' \/ (Follows(chain)' /\ chain' # Whole /\ Lead' \in 0 .. StagingEye)
      BY <2>3, <2>4, <3>5
    <3>7. pc = "nudge" /\ ~Missed => /\ run' \in 1 .. StagingEye
                                     /\ Lead' + run' \in StagingEye + Width + 1 .. 2 * StagingEye
      <4> SUFFICES ASSUME pc = "nudge", ~Missed
                   PROVE  /\ run' \in 1 .. StagingEye
                          /\ Lead' + run' \in StagingEye + Width + 1 .. 2 * StagingEye
        OBVIOUS
      <4>1. Lead' = Lead + 1 /\ run' = run - 1 /\ Lead' \in 0 .. StagingEye
            /\ run \in 0 .. StagingEye
            /\ Lead + run \in StagingEye + Width + 1 .. 2 * StagingEye
        BY <3>2, <3>4, <3>5
      <4> QED
        BY <1>2, <1>3, <4>1, Lengths
    <3>8. ~Missed' => ~Missed
      BY <2>3, <2>4
    <3>9. pc = "nudge" /\ ~Missed' => /\ run' \in 1 .. StagingEye
                                      /\ Lead' + run' \in StagingEye + Width + 1 .. 2 * StagingEye
      BY <3>7, <3>8
    <3> QED
      BY <1>2, <2>4, <3>4, <3>6, <3>9 DEF Stages
  <2>5. CASE pc = "return"
    <3>1. run = 0 /\ coil
      BY <1>2, <1>5, <2>5
    <3>2. CASE arrived
      <4>1. Lead = StagingEye
        BY <1>1, <2>5, <3>2 DEF Feed, Stages
      <4>2. ~Missed
        BY <4>1, Lengths DEF Missed, Calm
      <4>3. Follows(chain) /\ chain # Whole
        BY <1>1, <2>5, <4>2 DEF Feed, Stages
      <4>4. Follows(chain)' /\ Lead' = StagingEye
        <5>1. Lead' = StagingEye
          BY <1>2, <3>1, <4>1, Lengths DEF Led
        <5>2. run >= 0
          BY <3>1
        <5>3. Follows(chain)'
          BY <1>2, <1>3, <1>8, <3>1, <4>3, <5>2 DEF Follows
        <5> QED
          BY <5>1, <5>3
      <4>5. StagingEye \in 0 .. StagingEye
        BY Lengths
      <4> QED
        BY <1>2, <2>5, <3>2, <4>3, <4>4, <4>5 DEF Stages
    <3>3. CASE ~arrived
      <4>1. Missed /\ chain # FromTail
        BY <1>1, <2>5, <3>3 DEF Feed, Stages
      <4> QED
        BY <1>2, <2>3, <2>5, <3>3, <4>1 DEF Stages
    <3> QED
      BY <3>2, <3>3
  <2> QED
    BY <2>1, <2>2, <2>4, <2>5
<1> QED
  BY <1>9, <1>10, <1>11, <1>12, <1>13 DEF Feed

\* A tick and the cubes of the books.
LEMMA TickBelt ==
  ASSUME Going, Tick
  PROVE  Belt'
<1>1. Types /\ Queue /\ Books /\ Control /\ AtRest /\ Feed /\ Belt /\ Places
      /\ pc \notin {"faulted", "down"}
  BY DEF Going, Core, Sound, WatchInv
<1>2. /\ coil \/ run # 0
      /\ seen \/ pc = "blind"
      /\ run > 0 => run' = run - 1
      /\ run < 0 => run' = run + 1
      /\ run = 0 => run' = 0
      /\ run' \in Int /\ run \in Int
      /\ seen' = FALSE
      /\ UNCHANGED <<coil, watch, pc, verb, wz, chain, arrived, turn, beat, occ, next, staged, slide>>
      /\ (TakenO' <=> TakenO) /\ (TakenF1' <=> TakenF1) /\ (TakenF2' <=> TakenF2)
      /\ TakenO => Carried(AtO, AtO')
      /\ TakenF1 => Carried(AtF1, AtF1')
      /\ TakenF2 => Carried(AtF2, AtF2')
      /\ Led(Lead, Lead')
  BY <1>1, Ticked, Lengths DEF Types
<1>3. /\ Lead \in Away .. WorkZero
      /\ TakenO  => AtO \in Width .. Gone /\ AtO' \in Away .. Gone
      /\ TakenF1 => AtF1 \in Width .. Gone /\ AtF1' \in Away .. Gone
      /\ TakenF2 => AtF2 \in Width .. Gone /\ AtF2' \in Away .. Gone
  BY <1>1, <1>2, ClearOfJunction, LeadBehind DEF Carried
<1>4. run # 0 => pc \in {"poll", "back", "nudge", "blind"}
  BY <1>2, Running
<1>5. Standing'
  <2>1. CASE pc = "nudge"
    <3>1. Doing("stage") /\ beat # "P2" /\ ~TakenF1 /\ ~staged /\ ~Slid /\ ~Slid'
      BY <1>1, <1>2, <2>1 DEF Places, Control, Books, Doing, InVerb, EntryBeat, Slid
    <3>2. run \in 0 .. StagingEye /\ run # 0
      <4>1. run \in 1 .. StagingEye \/ run \in 0 .. StagingEye
        BY <1>1, <2>1, <3>1 DEF Feed, Stages
      <4>2. run # 0
        <5>1. Missed => run # 0
          BY <1>1, <1>2, <2>1, <3>1 DEF Feed, Stages
        <5>2. ~Missed => run \in 1 .. StagingEye
          BY <1>1, <2>1, <3>1 DEF Feed, Stages
        <5> QED
          BY <5>1, <5>2, Lengths
      <4> QED
        BY <4>1, <4>2, Lengths
    <3>3. Adrift = StagingEye - run /\ Adrift' = StagingEye - run'
      BY <1>2, <2>1 DEF Adrift
    <3>4. run' = run - 1 /\ run > 0
      BY <1>2, <3>2, Lengths
    <3>5. /\ TakenO => AtO - (StagingEye - run) = WorkZero
          /\ TakenF2 => AtF2 >= WorkZero + Spacing
                        /\ (AtF2 = Gone \/ AtF2 - (StagingEye - run) >= WorkZero + Spacing)
      BY <1>1, <2>1, <3>1, <3>3 DEF Belt, Standing
    <3>6. /\ TakenO => AtO' - (StagingEye - run') = WorkZero
          /\ TakenF2 => AtF2' >= WorkZero + Spacing
                        /\ (AtF2' = Gone \/ AtF2' - (StagingEye - run') >= WorkZero + Spacing)
      BY <1>2, <1>3, <3>2, <3>4, <3>5, Lengths DEF Carried
    <3>7. WorkZero \in WorkZero .. WorkZero + Slide
      BY Lengths
    <3> QED
      BY <1>2, <2>1, <3>1, <3>3, <3>6, <3>7 DEF Standing
  <2>2. CASE \/ pc \in {"free", "held", "lapse", "arm", "sample", "feed"}
             \/ verb \in {"stage", "stay"} /\ pc # "nudge"
    <3>1. run = 0
      BY <1>1, <1>4, <2>2 DEF Places
    <3>2. Standing /\ Adrift \in 0 .. StagingEye
      BY <1>1, Drifting DEF Belt
    <3>3. /\ TakenO  => AtO >= WorkZero
          /\ TakenF1 => AtF1 \in Width + 1 .. StagingEye
          /\ TakenF2 => AtF2 >= WorkZero + Spacing
      BY <1>3, <2>2, <3>2, Lengths DEF Standing
    <3>4. /\ TakenO => AtO' = AtO
          /\ TakenF1 => AtF1' = AtF1
          /\ TakenF2 => AtF2' = AtF2
      BY <1>2, <1>3, <3>1, <3>3, Lengths DEF Carried
    <3>5. Adrift' = Adrift /\ (Slid' <=> Slid)
      BY <1>2, <2>2, <3>1 DEF Adrift, Slid, Doing, InVerb
    <3> QED
      BY <1>2, <2>2, <3>2, <3>4, <3>5 DEF Standing
  <2>3. CASE verb = "intake" /\ InVerb
    <3>1. ~TakenO /\ ~TakenF1 /\ ~TakenF2
      BY <1>1, <2>3 DEF Control, Books, Doing
    <3> QED
      BY <1>2, <3>1 DEF Standing
  <2> QED
    BY <1>1, <1>2, <2>1, <2>2, <2>3 DEF Standing, InVerb, Places
<1>6. Arriving'
  <2> SUFFICES ASSUME verb \in {"entry", "return"}, pc = "poll"
               PROVE  Arriving'
    BY <1>2 DEF Arriving
  <2>1. /\ verb = "entry" => ~TakenF1 /\ Arriver = Lead /\ Arriver' = Lead'
        /\ verb = "return" => TakenF1 /\ Arriver = AtF1 /\ Arriver' = AtF1'
    BY <1>1, <1>2 DEF Control, Books, Doing, InVerb, EntryBeat, Arriver
  <2>2. /\ Arriver \in Width + 1 .. WorkZero /\ Arriver # WorkZero
        /\ verb = "entry" => Arriver >= StagingEye
        /\ run + Arriver \in 2 * Spacing + Width .. 2 * Spacing - 1 + StagingEye
        /\ TakenO => AtO - Arriver \in Spacing .. Spacing + Slide
        /\ TakenF2 => AtF2 = Gone \/ AtF2 - Arriver >= 2 * Spacing
        /\ ~TakenO => wz = LastNose
        /\ TakenO =>
             /\ wz \in {FromTail, LastNose}
             /\ wz = FromTail => AtO \in WorkZero .. WorkZero + Width
                                 /\ AtO # WorkZero + Width
             /\ wz = LastNose => AtO >= WorkZero + Width
    BY <1>1, <1>2 DEF Belt, Arriving
  <2>3. Arriver \in Int /\ run > 0
    BY <1>2, <2>2, Lengths
  <2>4. run' = run - 1 /\ Arriver' = Arriver + 1
    BY <1>2, <1>3, <2>1, <2>2, <2>3, Lengths DEF Carried, Led
  <2>5. /\ TakenO => AtO' = AtO + 1
        /\ TakenF2 => (AtF2 = Gone /\ AtF2' = Gone) \/ AtF2' = AtF2 + 1
    BY <1>2, <1>3, <2>2, <2>3, Lengths DEF Carried
  <2>6. /\ Arriver' \in Width + 1 .. WorkZero
        /\ verb = "entry" => Arriver' >= StagingEye
        /\ run' + Arriver' \in 2 * Spacing + Width .. 2 * Spacing - 1 + StagingEye
        /\ TakenO => AtO' - Arriver' \in Spacing .. Spacing + Slide
        /\ TakenF2 => AtF2' = Gone \/ AtF2' - Arriver' >= 2 * Spacing
    BY <1>2, <1>3, <2>2, <2>3, <2>4, <2>5, Lengths
  <2>7. TakenO => /\ wz = FromTail => AtO' \in WorkZero .. WorkZero + Width
                  /\ wz = LastNose => AtO' >= WorkZero + Width
    BY <1>3, <2>2, <2>5, Lengths
  <2> QED
    BY <1>2, <2>2, <2>6, <2>7, ChainsDiffer DEF Arriving
<1>7. Arrived'
  <2> SUFFICES ASSUME verb \in {"entry", "return"}, pc = "return"
               PROVE  Arrived'
    BY <1>2 DEF Arrived
  <2>1. /\ verb = "entry" => ~TakenF1 /\ Arriver = Lead /\ Arriver' = Lead'
        /\ verb = "return" => TakenF1 /\ Arriver = AtF1 /\ Arriver' = AtF1'
    BY <1>1, <1>2 DEF Control, Books, Doing, InVerb, EntryBeat, Arriver
  <2>2. /\ Arriver = WorkZero /\ arrived /\ run = 0
        /\ TakenO => AtO \in WorkZero + Spacing .. WorkZero + Spacing + Slide
        /\ TakenF2 => AtF2 = Gone
    BY <1>1 DEF Belt, Arrived, AtRest
  <2>3. /\ Arriver' = WorkZero
        /\ TakenO => AtO' = AtO
        /\ TakenF2 => AtF2' = Gone
    BY <1>2, <1>3, <2>1, <2>2, Lengths DEF Carried, Led
  <2> QED
    BY <1>2, <2>2, <2>3 DEF Arrived
<1>8. Retreating'
  <2> SUFFICES ASSUME verb = "retreat", pc = "poll"
               PROVE  Retreating'
    BY <1>2 DEF Retreating
  <2>1. TakenF2
    BY <1>1 DEF Control, Doing, InVerb
  <2>2. /\ AtF2 \in WorkZero - 1 .. WorkZero + Spacing + Slide /\ AtF2 # WorkZero - 1
        /\ AtF2 + run \in WorkZero - Spacing + 1 .. WorkZero - Spacing + 1 + Slide
        /\ TakenO => AtF2 - AtO \in Spacing .. Spacing + Slide
        /\ wz \in {Leaving, Passing, Clearing}
        /\ wz = Leaving => TakenO /\ AtO = WorkZero
        /\ wz = Passing => AtF2 >= WorkZero + Width /\ (TakenO => AtO < WorkZero)
        /\ wz = Clearing => AtF2 <= WorkZero + Width - 1 /\ (TakenO => AtO < WorkZero)
    BY <1>1, <1>2 DEF Belt, Retreating
  <2>3. run < 0
    BY <1>2, Running
  <2>4. run' = run + 1 /\ AtF2' = AtF2 - 1 /\ (TakenO => AtO' = AtO - 1)
    BY <1>2, <1>3, <2>1, <2>2, <2>3, Lengths DEF Carried
  <2>5. /\ AtF2' \in WorkZero - 1 .. WorkZero + Spacing + Slide
        /\ AtF2' + run' \in WorkZero - Spacing + 1 .. WorkZero - Spacing + 1 + Slide
        /\ TakenO => AtF2' - AtO' \in Spacing .. Spacing + Slide
    BY <1>2, <1>3, <2>1, <2>2, <2>4, Lengths
  <2>6. /\ wz = Leaving => TakenO /\ AtO' \in WorkZero - 1 .. WorkZero
        /\ wz = Passing => AtF2' >= WorkZero + Width - 1 /\ (TakenO => AtO' < WorkZero)
        /\ wz = Clearing => AtF2' <= WorkZero + Width - 1 /\ (TakenO => AtO' < WorkZero)
    BY <1>3, <2>1, <2>2, <2>4, Lengths
  <2> QED
    BY <1>2, <2>2, <2>5, <2>6, ChainsDiffer DEF Retreating
<1>9. TurningBack'
  <2> SUFFICES ASSUME verb = "retreat", pc \in {"turn", "back", "return"}
               PROVE  TurningBack'
    BY <1>2 DEF TurningBack
  <2>1. TakenF2
    BY <1>1 DEF Control, Doing, InVerb
  <2>2. CASE pc = "turn"
    <3>1. run = 0 /\ AtF2 = WorkZero - 1 /\ (TakenO => AtO \in Width .. StagingEye - 1)
      BY <1>1, <2>2 DEF Belt, TurningBack, AtRest
    <3>2. AtF2' = WorkZero - 1 /\ (TakenO => AtO' \in Width .. StagingEye - 1)
      BY <1>2, <1>3, <2>1, <3>1, Lengths DEF Carried
    <3> QED
      BY <1>2, <2>2, <3>2 DEF TurningBack
  <2>3. CASE pc = "back"
    <3>1. /\ run = Width /\ AtF2 + run = WorkZero - 1 + Width
          /\ TakenO => AtO + run \in 2 * Width .. StagingEye - 1 + Width
      BY <1>1, <1>2, <2>3 DEF Belt, TurningBack
    <3>2. run' = Width - 1 /\ AtF2' = AtF2 + 1 /\ (TakenO => AtO' = AtO + 1)
      BY <1>2, <1>3, <2>1, <3>1, Lengths DEF Carried
    <3>3. /\ run' \in Width - 1 .. Width /\ AtF2' + run' = WorkZero - 1 + Width
          /\ TakenO => AtO' + run' \in 2 * Width .. StagingEye - 1 + Width
      BY <1>3, <2>1, <3>1, <3>2, Lengths
    <3> QED
      BY <1>2, <2>3, <3>3 DEF TurningBack
  <2>4. CASE pc = "return"
    <3>1. run = 0 /\ AtF2 = WorkZero /\ arrived /\ (TakenO => AtO \in Width + 1 .. StagingEye)
      BY <1>1, <2>4 DEF Belt, TurningBack, AtRest
    <3>2. AtF2' = WorkZero /\ (TakenO => AtO' \in Width + 1 .. StagingEye)
      BY <1>2, <1>3, <2>1, <3>1, Lengths DEF Carried
    <3> QED
      BY <1>2, <2>4, <3>1, <3>2 DEF TurningBack
  <2> QED
    BY <2>2, <2>3, <2>4
<1>10. MovingBlind'
  <2> SUFFICES ASSUME verb = "blind", pc \in {"blind", "return"}
               PROVE  MovingBlind'
    BY <1>2 DEF MovingBlind
  <2>1. /\ run \in 0 .. Spacing
        /\ TakenO => AtO + run \in WorkZero + Spacing .. WorkZero + Spacing + Slide
        /\ TakenF2 => AtF2 = Gone \/ AtF2 + run >= WorkZero + 2 * Spacing
    BY <1>1 DEF Belt, MovingBlind
  <2>2. CASE run > 0
    <3>1. /\ run' = run - 1 /\ (TakenO => AtO' = AtO + 1)
          /\ TakenF2 => (AtF2 = Gone /\ AtF2' = Gone) \/ AtF2' = AtF2 + 1
      BY <1>2, <1>3, <2>1, <2>2, Lengths DEF Carried
    <3>2. /\ run' \in 0 .. Spacing
          /\ TakenO => AtO' + run' \in WorkZero + Spacing .. WorkZero + Spacing + Slide
          /\ TakenF2 => AtF2' = Gone \/ AtF2' + run' >= WorkZero + 2 * Spacing
      BY <1>2, <1>3, <2>1, <2>2, <3>1, Lengths
    <3> QED
      BY <1>2, <3>2 DEF MovingBlind
  <2>3. CASE run = 0
    <3>1. TakenO => AtO' = AtO
      BY <1>2, <1>3, <2>1, <2>3, Lengths DEF Carried
    <3>2. TakenF2 => AtF2 = Gone /\ AtF2' = Gone
      BY <1>2, <1>3, <2>1, <2>3, Lengths DEF Carried
    <3> QED
      BY <1>2, <2>1, <2>3, <3>1, <3>2 DEF MovingBlind
  <2> QED
    BY <1>2, <2>1, <2>2, <2>3, Lengths
<1>11. MadeUp'
  BY <1>1, <1>2 DEF Belt, MadeUp, EntryBeat
<1> QED
  BY <1>5, <1>6, <1>7, <1>8, <1>9, <1>10, <1>11 DEF Belt

\* A tick of a line that works.
LEMMA TickKeeps ==
  ASSUME Going, Tick
  PROVE  Sound'
<1>1. Queue' /\ Feed' /\ Belt'
  BY TickQueue, TickFeed, TickBelt
<1>2. (pc = "lapse" => ~coil) /\ UNCHANGED <<pc, coil>>
  BY Ticked DEF Going, Sound
<1> QED
  BY <1>1, <1>2 DEF Sound

\* A tick of a line that is stopped: only a capped move still runs to its end.
LEMMA TickStopped ==
  ASSUME Core, Stopped, Tick
  PROVE  Stopped'
<1>1. Types /\ Queue /\ ~coil
  BY DEF Core, Stopped
<1>2. /\ run # 0 /\ run' = run - Sign(run)
      /\ UNCHANGED <<coil, verb, turn, occ, next, staged>>
  BY <1>1 DEF Tick, verbVars, callerVars
<1>3. run \in Int /\ next \in Int /\ \A c \in Cubes : nose[c] \in Away .. Gone
  BY <1>1, Lengths DEF Types
<1>4. (run > 0 => run' = run - 1) /\ (run < 0 => run' = run + 1)
  BY <1>2, <1>3 DEF Sign
<1>5. ASSUME NEW c \in Cubes
      PROVE  /\ nose[c] \in {Away, -1, 0, Gone} => nose'[c] = nose[c]
             /\ nose[c] \in 1 .. Gone - 1 /\ run > 0 => nose'[c] = nose[c] + 1
  <2>1. /\ nose[c] \in {Away, Gone} => nose'[c] = nose[c]
        /\ nose[c] \in {-1, 0} => nose'[c] = nose[c]
        /\ nose[c] \in 1 .. Gone - 1 /\ run > 0 => nose'[c] = nose[c] + 1
    BY <1>1, Pushed
  <2> QED
    BY <2>1
<1>6. \A c \in Cubes : nose[c] \in Calm => nose'[c] = nose[c]
  BY <1>5 DEF Calm
<1>7. Lead \in Calm => Lead' = Lead
  BY <1>2, <1>6 DEF Lead, Nose
<1>8. Second \in Calm /\ Second' = Second
  <2>1. CASE next + 1 \in Cubes
    <3>1. nose[next + 1] \in Calm
      <4>1. next + 1 > next
        BY <1>3
      <4> QED
        BY <1>1, <2>1, <4>1 DEF Queue
    <3> QED
      BY <1>2, <1>6, <2>1, <3>1 DEF Second, Nose
  <2>2. CASE next + 1 \notin Cubes
    BY <1>2, <2>2 DEF Second, Nose, Calm
  <2> QED
    BY <2>1, <2>2
<1>9. ASSUME Lead \notin Calm
      PROVE  /\ run > 0 /\ Lead + run < Gone /\ (Idle \/ staged \/ verb = "stage")
             /\ Lead \in Int /\ Lead' = Lead + 1
  <2>1. run >= 0 /\ Lead + run < Gone /\ (Idle \/ staged \/ verb = "stage")
    BY <1>9 DEF Stopped
  <2>2. next \in Cubes /\ Lead = nose[next] /\ Lead' = nose'[next]
    BY <1>2, <1>9 DEF Lead, Nose, Calm
  <2>3. run > 0
    BY <1>2, <1>3, <2>1
  <2>4. Lead \in 1 .. Gone - 1
    <3>1. Lead \in Away .. Gone
      BY <1>3, <2>2
    <3> QED
      BY <1>3, <1>9, <2>1, <3>1, Lengths DEF Calm
  <2> QED
    BY <1>5, <2>1, <2>2, <2>3, <2>4, Lengths
<1>10. Queue'
  <2>1. \A c \in Cubes : c < next => nose'[c] = Gone \/ \E st \in Tracked : occ[st] = c
    BY <1>1, <1>5 DEF Queue
  <2>2. \A c \in Cubes : c > next => nose'[c] \in Calm
    BY <1>1, <1>6 DEF Queue
  <2>3. \A c \in Cubes : c > next + 1 => nose'[c] = Away
    BY <1>1, <1>5 DEF Queue
  <2>4. (Second # Away => Lead >= Width) /\ (Second = 0 => Lead >= Width + 1)
    BY <1>1 DEF Queue
  <2>5. (Second' # Away => Lead' >= Width) /\ (Second' = 0 => Lead' >= Width + 1)
    BY <1>7, <1>8, <1>9, <2>4, Lengths
  <2> QED
    BY <1>2, <2>1, <2>2, <2>3, <2>5 DEF Queue
<1>11. Lead' \in Calm \/ (run' >= 0 /\ Lead' + run' < Gone /\ (Idle \/ staged \/ verb = "stage"))
  <2>1. CASE Lead \in Calm
    BY <1>7, <2>1
  <2>2. CASE Lead \notin Calm
    <3>1. run' = run - 1 /\ Lead' = Lead + 1
      BY <1>4, <1>9, <2>2
    <3>2. run' >= 0 /\ Lead' + run' < Gone
      BY <1>3, <1>9, <2>2, <3>1, Lengths
    <3> QED
      BY <1>9, <2>2, <3>2
  <2> QED
    BY <2>1, <2>2
<1> QED
  BY <1>1, <1>2, <1>10, <1>11 DEF Stopped, Idle

-----------------------------------------------------------------------------
(***************************************************************************)
(* The next process, and the operator of a faulted line.                    *)
(***************************************************************************)
\* The next process finds the line as it was left; with empty books nobody is aboard.
LEMMA RestartKeeps ==
  ASSUME Core, Stopped, Restart, ~astray'
  PROVE  IF pc' = "faulted" THEN Stopped' ELSE pc' = "free" /\ Sound'
<1>1. Types /\ Queue /\ Books
  BY DEF Core, Stopped
<1>2. /\ coil' = FALSE /\ run' = 0 /\ verb' = verb /\ slide' = 0
      /\ pc' = IF occ = Empty THEN "free" ELSE "faulted"
      /\ UNCHANGED <<nose, turn, beat, occ, next, staged>>
  BY DEF Restart, verbVars
<1>3. occ = Empty => \A c \in Cubes : nose[c] \notin 1 .. Gone - 1
  BY Zenon DEF Restart
<1>4. /\ Queue' /\ Lead' = Lead /\ (Idle' <=> Idle)
      /\ (TakenO' <=> TakenO) /\ (TakenF1' <=> TakenF1) /\ (TakenF2' <=> TakenF2)
  BY <1>1, <1>2, Unmoved DEF Idle
<1>5. /\ Lead \in Calm \/ (Lead < Gone /\ (Idle \/ staged \/ verb = "stage"))
      /\ Lead \in Away .. Gone
  BY <1>1, Positions, Lengths DEF Stopped, Types
<1>6. CASE occ # Empty
  <2>1. Lead + 0 = Lead
    BY <1>1, Positions, Lengths
  <2> QED
    BY <1>2, <1>4, <1>5, <1>6, <2>1 DEF Stopped
<1>7. CASE occ = Empty
  <2>1. Idle /\ ~staged /\ ~TakenO /\ ~TakenF1 /\ ~TakenF2
    BY <1>1, <1>7 DEF Books, Empty, Tracked, TakenO, TakenF1, TakenF2, Idle
  <2>2. Lead \in Calm
    <3>1. Lead \in Away .. Gone /\ (Lead # Away => next \in Cubes /\ Lead = nose[next])
      BY <1>1, Positions
    <3>2. Lead # Away => Lead \notin 1 .. Gone - 1
      BY <1>3, <1>7, <3>1
    <3>3. Lead # Gone
      BY <1>5, Lengths DEF Calm
    <3> QED
      BY <3>1, <3>2, <3>3, Lengths DEF Calm
  <2>3. Lead <= StagingEye
    BY <2>2, Lengths DEF Calm
  <2>4. Feed'
    BY <1>2, <1>4, <1>7, <2>1, <2>2, <2>3
       DEF Feed, LeadWaits, NextWaits, IdleFeed, Intakes, Stages, Doing, InVerb
  <2>5. Belt'
    BY <1>2, <1>4, <1>7, <2>1
       DEF Belt, MadeUp, Standing, Arriving, Arrived, Retreating, TurningBack, MovingBlind
  <2> QED
    BY <1>2, <1>4, <1>7, <2>4, <2>5 DEF Sound
<1> QED
  BY <1>6, <1>7

\* Who is behind the cube after the next one is behind the next one.
LEMMA Behind ==
  /\ \A n \in Int : n + 1 > n
  /\ \A n, m \in Int : m > n + 1 => m > n
OBVIOUS

\* Whoever entered is one of the cubes.
LEMMA Entered == \A n \in 1 .. MaxCubes + 1 : \A m \in 0 .. n - 1 : m # NoPart => m \in Cubes
BY Lengths DEF Cubes

\* The queue, from its parts.
LEMMA QueueAgain ==
  ASSUME /\ \A c \in Cubes : c < next' => nose'[c] = Gone \/ \E st \in Tracked : occ'[st] = c
         /\ \A c \in Cubes : c > next' => nose'[c] \in Calm
         /\ \A c \in Cubes : c > next' + 1 => nose'[c] = Away
         /\ Second' # Away => Lead' >= Width
         /\ Second' = 0 => Lead' >= Width + 1
  PROVE  Queue'
BY DEF Queue

\* After a sweep the head of the queue waits before the junction, alone, and everybody of
\* the books stands in place.
LEMMA SweptQueue ==
  ASSUME Types, astray \/ Queue, NEW first \in Int, first >= next, Types', Books',
         Sweep(occ', first), ~astray'
  PROVE  /\ Queue' /\ Lead' \in Calm /\ slide = 0
         /\ TakenO' => AtO' = WorkZero
         /\ TakenF1' => AtF1' \in Width + 1 .. StagingEye
         /\ TakenF2' => AtF2' \in WorkZero + Spacing .. WorkZero + Spacing + Slide
<1>1. /\ occ' \in [Tracked -> 0 .. next' - 1]
      /\ \A s, t \in Tracked : occ'[s] = occ'[t] /\ occ'[s] # NoPart => s = t
  BY DEF Books
<1>2. occ' \in [Tracked -> Nat]
  <2>1. 0 .. next' - 1 \subseteq Nat
    OBVIOUS
  <2> QED
    BY <1>1, <2>1
<1>3. PICK books \in [Tracked -> Nat] : books = occ'
  BY <1>2
<1>4. /\ next' \in first .. MaxCubes + 1
      /\ \A c \in Cubes : c >= next' => nose[c] <= 0
      /\ \A c \in Cubes : c = books["O"] => nose'[c] \in WorkZero .. WorkZero + Slide
      /\ \A c \in Cubes : c = books["F1"] => nose'[c] \in Width + 1 .. StagingEye
      /\ \A c \in Cubes : c = books["F2"] =>
           nose'[c] \in WorkZero + Spacing .. WorkZero + Spacing + Slide
      /\ \A c \in Cubes : c # books["O"] /\ c # books["F1"] /\ c # books["F2"] =>
           nose'[c] = IF c < next' THEN Gone ELSE nose[c]
      /\ ~astray' => /\ slide = 0
                     /\ books["O"] # NoPart => nose'[books["O"]] = WorkZero
                     /\ astray => \A c \in Cubes : c >= next' => nose[c] = Away
  <2>1. Sweep(books, first)
    BY <1>3
  <2>2. \A s, t \in Tracked : books[s] = books[t] /\ books[s] # NoPart => s = t
    BY <1>1, <1>3
  <2> QED
    BY <2>1, <2>2, Swept
<1>5. /\ next \in 1 .. MaxCubes + 1 /\ next' \in 1 .. MaxCubes + 1 /\ MaxCubes \in Nat /\ NoPart = 0
      /\ next' >= next
  BY <1>4, Lengths DEF Types
<1>6. PICK n \in Int : n = next'
  <2>1. next' \in Int
    BY Lengths DEF Types
  <2> QED
    BY <2>1
<1>7. {"O", "F1", "F2"} \subseteq Tracked /\ Tracked = {"O", "F1", "F2"}
  BY DEF Tracked
<1>8. /\ books["O"] \in 0 .. next' - 1 /\ books["F1"] \in 0 .. next' - 1
      /\ books["F2"] \in 0 .. next' - 1
  BY <1>1, <1>3, <1>7
<1>9. ASSUME NEW c \in Cubes, c >= next'
      PROVE  nose'[c] = nose[c] /\ nose[c] \in Calm
  <2>1. c \in Int /\ nose[c] \in Away .. Gone
    BY DEF Cubes, Types
  <2>2. c # books["O"] /\ c # books["F1"] /\ c # books["F2"] /\ ~(c < next')
    BY <1>5, <1>8, <1>9, <2>1
  <2>3. nose'[c] = nose[c]
    BY <1>4, <2>2
  <2>4. nose[c] \in Calm
    BY <1>4, <1>9, <2>1, Lengths DEF Calm
  <2> QED
    BY <2>3, <2>4
<1>10. ASSUME NEW c \in Cubes, c > next'
      PROVE  nose[c] = Away
  <2>1. c \in Int /\ c >= next'
    BY <1>5, <1>10 DEF Cubes
  <2>2. CASE astray
    BY <1>4, <2>1, <2>2
  <2>3. CASE Queue /\ c > next + 1
    BY <2>3 DEF Queue
  <2>4. CASE Queue /\ c <= next + 1
    <3>1. c = next + 1 /\ next' = next
      BY <1>5, <1>10, <2>1, <2>4
    <3>2. next \in Cubes
      BY <1>5, <2>1, <3>1 DEF Cubes
    <3>3. nose[next] \in Calm
      BY <1>5, <1>9, <3>1, <3>2
    <3>4. Lead \in Calm /\ Second = nose[c]
      BY <3>1, <3>2, <3>3 DEF Lead, Second, Nose
    <3>5. Second # Away => Lead >= Width
      BY <2>4 DEF Queue
    <3>6. \A l \in Calm : ~(l >= Width)
      BY Lengths DEF Calm
    <3>7. Second = Away
      BY <3>4, <3>5, <3>6
    <3> QED
      BY <3>4, <3>7, Zenon
  <2>5. c > next + 1 \/ c <= next + 1
    BY <1>5, <2>1
  <2> QED
    BY <2>2, <2>3, <2>4, <2>5, Zenon
<1>11. Lead' \in Calm
  <2>1. CASE next' \in Cubes
    <3>1. next' >= next'
      BY <1>5
    <3> QED
      BY <1>9, <2>1, <3>1 DEF Lead, Nose
  <2>2. CASE next' \notin Cubes
    BY <2>2 DEF Lead, Nose, Calm
  <2> QED
    BY <2>1, <2>2
<1>12. \A c \in Cubes : c > next' => nose'[c] = Away
  <2> SUFFICES ASSUME NEW c \in Cubes, c > next'
               PROVE  nose'[c] = Away
    OBVIOUS
  <2>1. c > n
    BY <1>6, Zenon
  <2>2. c >= n
    BY <2>1 DEF Cubes
  <2>3. c >= next'
    BY <1>6, <2>2, Zenon
  <2>4. nose'[c] = nose[c]
    BY <1>9, <2>3
  <2>5. nose[c] = Away
    BY <1>10
  <2> QED
    BY <2>4, <2>5
<1>13. Second' = Away
  <2>1. n + 1 > n
    BY <1>6, Behind, Zenon
  <2>2. next' + 1 > next'
    BY <1>6, <2>1, Zenon
  <2>3. next' + 1 \in Cubes => nose'[next' + 1] = Away
    BY <1>12, <2>2
  <2> QED
    BY <2>3, Zenon DEF Second, Nose
<1>14. Queue'
  <2>1. \A c \in Cubes : c < next' => nose'[c] = Gone \/ \E st \in Tracked : occ'[st] = c
    BY <1>3, <1>4, <1>7
  <2>2. \A c \in Cubes : c > next' => nose'[c] \in Calm
    <3>1. Away \in Calm
      BY DEF Calm
    <3> QED
      BY <1>12, <3>1, Zenon
  <2>3. \A c \in Cubes : c > next' + 1 => nose'[c] = Away
    <3>1. \A c \in Cubes : c \in Int
      BY DEF Cubes
    <3>2. \A c \in Cubes : c > n + 1 => c > n
      BY <1>6, <3>1, Behind, Zenon
    <3>3. \A c \in Cubes : c > next' + 1 => c > next'
      BY <1>6, <3>2, Zenon
    <3> QED
      BY <1>12, <3>3, Zenon
  <2>4. Away # 0
    BY DEF Away
  <2>5. (Second' # Away => Lead' >= Width) /\ (Second' = 0 => Lead' >= Width + 1)
    BY <1>13, <2>4
  <2>6. /\ \A c \in Cubes : c < next' => nose'[c] = Gone \/ \E st \in Tracked : occ'[st] = c
        /\ \A c \in Cubes : c > next' => nose'[c] \in Calm
        /\ \A c \in Cubes : c > next' + 1 => nose'[c] = Away
        /\ Second' # Away => Lead' >= Width
        /\ Second' = 0 => Lead' >= Width + 1
    BY <2>1, <2>2, <2>3, <2>5, Zenon
  <2> QED
    BY <2>6, QueueAgain
<1>15. \A m \in 0 .. next' - 1 : m # NoPart => m \in Cubes
  BY <1>5, Entered, Zenon
<1>16. TakenO' => AtO' = WorkZero
  BY <1>3, <1>4 DEF TakenO, AtO
<1>17. TakenF1' => AtF1' \in Width + 1 .. StagingEye
  BY <1>3, <1>4, <1>8, <1>15 DEF TakenF1, AtF1
<1>18. TakenF2' => AtF2' \in WorkZero + Spacing .. WorkZero + Spacing + Slide
  BY <1>3, <1>4, <1>8, <1>15 DEF TakenF2, AtF2
<1> QED
  BY <1>4, <1>11, <1>14, <1>16, <1>17, <1>18

\* The line starts again from what the operator cleared or confirmed.
LEMMA SweptSound ==
  ASSUME Core, Clear \/ Confirm, astray \/ Queue, ~astray'
  PROVE  Sound' /\ pc' = "free"
<1>1. /\ Types /\ Books /\ AtRest /\ CoilInv
      /\ Types' /\ Books'
  BY ClearCore, ConfirmCore DEF Core, WatchInv
<1>2. /\ pc = "faulted" /\ pc' = "free" /\ staged' = FALSE
      /\ UNCHANGED <<coil, run, watch, verb, seen, slide>>
      /\ turn' \in {"idle", "work"}
  BY DEF Clear, Confirm, verbVars
<1>3. \E first \in Int : first >= next /\ Sweep(occ', first)
  <2>1. next \in Int
    BY <1>1 DEF Types
  <2>2. CASE Clear
    <3>1. Sweep(occ', next) /\ next >= next
      BY <2>1, <2>2 DEF Clear
    <3> QED
      BY <2>1, <3>1
  <2>3. CASE Confirm
    <3>1. PICK v : Sweep(occ', IF v = "entry" THEN next + 1 ELSE next)
      <4>1. PICK v \in {"entry", "retreat", "return", "blind", "stay"} :
              /\ occ' = Occupancy(v)
              /\ Sweep(Occupancy(v), IF v = "entry" THEN next + 1 ELSE next)
        BY <2>3, Confirmed
      <4> QED
        BY <4>1
    <3>2. PICK first \in Int : first = (IF v = "entry" THEN next + 1 ELSE next) /\ first >= next
      BY <2>1
    <3> QED
      BY <3>1, <3>2
  <2> QED
    BY <2>2, <2>3
<1>4. /\ Queue' /\ Lead' \in Calm /\ slide = 0
      /\ TakenO' => AtO' = WorkZero
      /\ TakenF1' => AtF1' \in Width + 1 .. StagingEye
      /\ TakenF2' => AtF2' \in WorkZero + Spacing .. WorkZero + Spacing + Slide
  BY <1>1, <1>3, SweptQueue
<1>5. watch' = << >> /\ ~coil'
  BY <1>1, <1>2 DEF AtRest, CoilInv, Unpolled
<1>6. Lead' <= StagingEye
  BY <1>4, Lengths DEF Calm
<1>7. Feed'
  BY <1>2, <1>4, <1>5, <1>6
     DEF Feed, LeadWaits, NextWaits, IdleFeed, Intakes, Stages, Waits, Doing, InVerb
<1>8. Belt'
  <2>1. Adrift' = 0
    BY <1>2, <1>4 DEF Adrift, Doing, InVerb
  <2>2. TakenO' => AtO' - 0 \in WorkZero .. WorkZero + Slide /\ AtO' - 0 = WorkZero
    BY <1>4, Lengths
  <2>3. TakenF2' => /\ AtF2' >= WorkZero + Spacing /\ AtF2' - 0 >= WorkZero + Spacing
                    /\ AtF2' <= WorkZero + Spacing + Slide
    BY <1>4, Lengths
  <2>4. Standing'
    BY <1>4, <2>1, <2>2, <2>3 DEF Standing
  <2>5. MadeUp'
    BY <1>2, <1>4 DEF MadeUp
  <2> QED
    BY <1>2, <2>4, <2>5 DEF Belt, Arriving, Arrived, Retreating, TurningBack, MovingBlind
<1> QED
  BY <1>2, <1>4, <1>7, <1>8 DEF Sound

-----------------------------------------------------------------------------
(***************************************************************************)
(* The step and the theorems.                                               *)
(***************************************************************************)
\* At first everything is empty.
LEMMA FeedInit ==
  ASSUME Init
  PROVE  FeedInv
<1>1. /\ nose = [c \in Cubes |-> Away] /\ coil = FALSE /\ run = 0 /\ watch = << >> /\ pc = "free"
      /\ turn = "idle" /\ occ = Empty /\ next = 1 /\ staged = FALSE /\ slide = 0
  BY DEF Init
<1>2. Lead = Away /\ Second = Away /\ \A c \in Cubes : nose[c] = Away
  BY <1>1 DEF Lead, Second, Nose
<1>3. ~TakenO /\ ~TakenF1 /\ ~TakenF2
  BY <1>1 DEF Empty, Tracked, TakenO, TakenF1, TakenF2
<1>4. Away \in Calm /\ Away # 0 /\ Away <= StagingEye
  BY Lengths DEF Calm
<1>5. Queue
  <2>1. \A c \in Cubes : ~(c < 1)
    BY DEF Cubes
  <2> QED
    BY <1>1, <1>2, <1>4, <2>1 DEF Queue
<1>6. Feed
  BY <1>1, <1>2, <1>4
     DEF Feed, LeadWaits, NextWaits, IdleFeed, Intakes, Stages, Doing, InVerb, Idle
<1>7. Belt
  BY <1>1, <1>3
     DEF Belt, MadeUp, Standing, Arriving, Arrived, Retreating, TurningBack, MovingBlind
<1>8. Placed
  BY <1>1, <1>5, <1>6, <1>7 DEF Placed, Sound
<1> QED
  BY <1>8, CoreInit DEF FeedInv

\* Nothing moves where nobody does anything.
LEMMA StillPlaced ==
  ASSUME Core, Placed, UNCHANGED vars
  PROVE  Placed'
<1>1. UNCHANGED <<nose, coil, run, watch, pc, verb, wz, chain, arrived, seen, turn, beat, occ, next,
                  staged, slide>>
  BY DEF vars, plantVars, verbVars, callerVars
<1>2. Queue
  BY DEF Placed, Sound, Stopped
<1>3. /\ Queue'
      /\ Lead' = Lead /\ Second' = Second /\ AtO' = AtO /\ AtF1' = AtF1 /\ AtF2' = AtF2
      /\ (TakenO' <=> TakenO) /\ (TakenF1' <=> TakenF1) /\ (TakenF2' <=> TakenF2)
  BY <1>1, <1>2, Unmoved
<1>4. Stopped => Stopped'
  BY <1>1, <1>3 DEF Stopped, Idle
<1>5. Feed => Feed'
  <2> SUFFICES ASSUME Feed
               PROVE  Feed'
    OBVIOUS
  <2>1. LeadWaits' /\ NextWaits'
    BY <1>1, <1>3 DEF Feed, LeadWaits, NextWaits, Waits, Doing, InVerb, Idle
  <2>2. (Follows(watch) <=> Follows(watch)') /\ (Follows(chain) <=> Follows(chain)')
        /\ (Missed <=> Missed')
    BY <1>1, <1>3 DEF Follows, Missed
  <2>3. IdleFeed'
    BY <1>1, <1>3, <2>2 DEF Feed, IdleFeed, InVerb, Idle
  <2>4. Intakes'
    BY <1>1, <1>3, <2>2 DEF Feed, Intakes, Doing, InVerb
  <2>5. Stages'
    BY <1>1, <1>3, <2>2 DEF Feed, Stages, Doing, InVerb
  <2> QED
    BY <2>1, <2>3, <2>4, <2>5 DEF Feed
<1>6. Belt => Belt'
  <2> SUFFICES ASSUME Belt
               PROVE  Belt'
    OBVIOUS
  <2>1. Arriver' = Arriver /\ Adrift' = Adrift /\ (Slid' <=> Slid)
    BY <1>1, <1>3 DEF Arriver, Adrift, Slid, Doing, InVerb
  <2>2. MadeUp' /\ Standing'
    BY <1>1, <1>3, <2>1 DEF Belt, MadeUp, Standing, EntryBeat
  <2>3. Arriving' /\ Arrived'
    BY <1>1, <1>3, <2>1 DEF Belt, Arriving, Arrived
  <2>4. Retreating' /\ TurningBack' /\ MovingBlind'
    BY <1>1, <1>3 DEF Belt, Retreating, TurningBack, MovingBlind
  <2> QED
    BY <2>2, <2>3, <2>4 DEF Belt
<1>7. Sound => Sound'
  BY <1>1, <1>3, <1>5, <1>6 DEF Sound
<1> QED
  BY <1>1, <1>4, <1>7 DEF Placed

\* Only the operator of a faulted line finds again who went astray.
LEMMA OnceAstray ==
  ASSUME astray, Next, ~Clear, ~Confirm
  PROVE  astray'
<1>1. CASE Tick \/ \E c \in Cubes : Place(c) \/ TakeOff(c)
  BY <1>1 DEF Tick, Place, TakeOff, history
<1>2. CASE Arm \/ Poll \/ TurnBack \/ PollBack
  BY <1>2 DEF Arm, Poll, TurnBack, PollBack, history
<1>3. CASE Sample
  BY <1>3, Zenon DEF Sample
<1>4. CASE FeedPhase \/ Nudge \/ PollNudge \/ Returns \/ Concludes \/ BlindEnds
  BY <1>4 DEF FeedPhase, Nudge, PollNudge, Returns, Concludes, BlindEnds, history
<1>5. CASE Intake
  BY <1>5, Zenon DEF Intake
<1>6. CASE FeedTick \/ StageSkipped \/ Suspend \/ Resume
  BY <1>6 DEF FeedTick, StageSkipped, Suspend, Resume, history
<1>7. CASE FirstEntry \/ Stage \/ Transition \/ Stays
  BY <1>7 DEF FirstEntry, Stage, Transition, Stays
<1>8. CASE Fails
  BY <1>8 DEF Fails
<1>9. CASE PauseFails
  BY <1>9, Zenon DEF PauseFails
<1>10. CASE Dies
  BY <1>10, Zenon DEF Dies
<1>11. CASE Restart
  BY <1>11, Zenon DEF Restart
<1> QED
  BY <1>1, <1>2, <1>3, <1>4, <1>5, <1>6, <1>7, <1>8, <1>9, <1>10, <1>11 DEF Next, Driver, Caller

\* The driver's steps: everybody is where the verb has them, and where the fault left them
\* if it did not confirm.
LEMMA DriverKeeps ==
  ASSUME Going, Driver, ~astray'
  PROVE  Placed'
<1>1. Places
  BY DEF Going, Core, WatchInv
<1>2. CASE Poll
  <2>1. verb \in {"intake", "entry", "retreat", "return"}
    BY <1>1, <1>2 DEF Places, Poll
  <2>2. Sound'
    BY <1>2, <2>1, PollIntakeKeeps, PollArrivalKeeps, PollRetreatKeeps
  <2>3. pc' \notin {"faulted", "down"}
    BY <1>2 DEF Poll
  <2> QED
    BY <2>2, <2>3 DEF Placed
<1>3. CASE Arm \/ Sample \/ TurnBack \/ PollBack
  <2>1. Sound'
    BY <1>3, ArmKeeps, SampleKeeps, TurnBackKeeps, PollBackKeeps
  <2>2. pc' \notin {"faulted", "down"}
    BY <1>3 DEF Arm, Sample, TurnBack, PollBack
  <2> QED
    BY <2>1, <2>2 DEF Placed
<1>4. CASE FeedPhase \/ Nudge \/ PollNudge
  <2>1. Sound'
    BY <1>4, FeedPhaseKeeps, NudgeKeeps, PollNudgeKeeps
  <2>2. pc' \notin {"faulted", "down"}
    BY <1>4 DEF FeedPhase, Nudge, PollNudge
  <2> QED
    BY <2>1, <2>2 DEF Placed
<1>5. CASE Returns \/ BlindEnds
  <2>1. Sound'
    BY <1>5, ReturnsKeeps, BlindEndsKeeps
  <2>2. pc' \notin {"faulted", "down"}
    BY <1>5 DEF Returns, BlindEnds
  <2> QED
    BY <2>1, <2>2 DEF Placed
<1>6. CASE Concludes /\ arrived
  <2>1. Sound'
    BY <1>6, ArrivesKeeps
  <2>2. pc' = "free"
    BY <1>6 DEF Concludes, Arrives
  <2> QED
    BY <2>1, <2>2 DEF Placed
<1>7. CASE Concludes /\ ~arrived
  <2>1. Stopped'
    BY <1>7, GiveUpKeeps
  <2>2. pc' = "faulted"
    BY <1>7 DEF Concludes, GiveUp
  <2> QED
    BY <2>1, <2>2 DEF Placed
<1> QED
  BY <1>2, <1>3, <1>4, <1>5, <1>6, <1>7 DEF Driver

\* The caller's steps.
LEMMA CallerKeeps ==
  ASSUME Going, Caller, ~astray'
  PROVE  Placed'
<1>1. Sound'
  BY FeedTickKeeps, IntakeKeeps, FirstEntryKeeps, StageSkippedKeeps, StageKeeps, TransitionKeeps,
     PauseKeeps
     DEF Caller
<1>2. CASE FeedTick \/ StageSkipped
  <2>1. pc' = "free"
    BY <1>2 DEF FeedTick, StageSkipped, Ready
  <2> QED
    BY <1>1, <2>1 DEF Placed
<1>3. CASE Intake \/ FirstEntry \/ Stage \/ Transition \/ Stays
  <2>1. pc' \in {"arm", "sample", "return"}
    BY <1>3 DEF Intake, FirstEntry, Stage, Transition, Stays, Begin
  <2> QED
    BY <1>1, <2>1 DEF Placed
<1>4. CASE Suspend \/ Resume
  <2>1. pc' \in {"held", "free"}
    BY <1>4 DEF Suspend, Resume
  <2> QED
    BY <1>1, <2>1 DEF Placed
<1> QED
  BY <1>2, <1>3, <1>4 DEF Caller

\* Every step keeps the invariant.
LEMMA FeedStep ==
  ASSUME FeedInv, [Next]_vars
  PROVE  FeedInv'
<1>1. Core /\ Core'
  BY CoreStep DEF FeedInv
<1>2. astray \in BOOLEAN
  BY <1>1 DEF Core, Types
<1> SUFFICES ASSUME ~astray'
             PROVE  Placed'
  BY <1>1 DEF FeedInv
<1>3. ASSUME Next, ~Clear, ~Confirm
      PROVE  ~astray /\ Placed
  BY <1>3, OnceAstray DEF FeedInv
<1>4. CASE UNCHANGED vars
  <2>1. astray' = astray
    BY <1>4 DEF vars, history
  <2> QED
    BY <1>1, <1>4, <2>1, StillPlaced DEF FeedInv
<1>5. CASE Clear \/ Confirm
  <2>1. pc = "faulted"
    BY <1>5 DEF Clear, Confirm
  <2>2. astray \/ Queue
    BY <2>1 DEF FeedInv, Placed, Stopped
  <2> QED
    BY <1>1, <1>5, <2>2, SweptSound DEF Placed
<1>6. CASE Next /\ ~Clear /\ ~Confirm
  <2>1. Placed
    BY <1>3, <1>6
  <2>2. CASE pc \notin {"faulted", "down"}
    <3>1. Going
      BY <1>1, <2>1, <2>2 DEF Going, Placed
    <3>2. CASE Tick \/ \E c \in Cubes : Place(c) \/ TakeOff(c)
      <4>1. Sound'
        BY <3>1, <3>2, TickKeeps, PlaceKeeps, TakeOffKeeps
      <4>2. pc' = pc
        BY <3>2 DEF Tick, Place, TakeOff
      <4> QED
        BY <2>2, <4>1, <4>2 DEF Placed
    <3>3. CASE Driver
      BY <3>1, <3>3, DriverKeeps
    <3>4. CASE Caller
      BY <3>1, <3>4, CallerKeeps
    <3>5. CASE Fails
      <4>1. pc' = "faulted"
        BY <3>5 DEF Fails, GiveUp
      <4> QED
        BY <3>1, <3>5, <4>1, GiveUpKeeps DEF Placed
    <3>6. CASE PauseFails
      <4>1. pc' \in {"lapse", "free"}
        BY <3>6 DEF PauseFails
      <4> QED
        BY <3>1, <3>6, <4>1, PauseFailsKeeps DEF Placed
    <3>7. CASE Dies
      <4>1. pc' = "down"
        BY <3>7 DEF Dies
      <4> QED
        BY <1>1, <3>1, <3>7, <4>1, DiesKeeps DEF Placed
    <3>8. ~Restart
      BY <2>2 DEF Restart
    <3> QED
      BY <1>6, <3>2, <3>3, <3>4, <3>5, <3>6, <3>7, <3>8 DEF Next
  <2>3. CASE pc \in {"faulted", "down"}
    <3>1. Stopped
      BY <2>1, <2>3 DEF Placed
    <3>2. CASE Tick \/ \E c \in Cubes : Place(c)
      <4>1. Stopped'
        BY <1>1, <3>1, <3>2, TickStopped, PlaceStopped
      <4>2. pc' = pc
        BY <3>2 DEF Tick, Place
      <4> QED
        BY <2>3, <4>1, <4>2 DEF Placed
    <3>3. CASE Dies
      <4>1. pc' = "down" /\ pc = "faulted"
        BY <2>3, <3>3 DEF Dies
      <4> QED
        BY <1>1, <3>1, <3>3, <4>1, DiesKeeps DEF Placed
    <3>4. CASE Restart
      BY <1>1, <3>1, <3>4, RestartKeeps DEF Placed
    <3>5. /\ ~Arm /\ ~Sample /\ ~Poll /\ ~TurnBack /\ ~PollBack /\ ~FeedPhase /\ ~Nudge
          /\ ~PollNudge /\ ~Returns /\ ~Concludes /\ ~BlindEnds
      BY <2>3 DEF Arm, Sample, Poll, TurnBack, PollBack, FeedPhase, Nudge, PollNudge, Returns,
                  Concludes, BlindEnds
    <3>6. /\ ~FeedTick /\ ~Intake /\ ~FirstEntry /\ ~StageSkipped /\ ~Stage /\ ~Transition
          /\ ~Stays /\ ~Suspend /\ ~Resume
      BY <2>3 DEF FeedTick, Intake, FirstEntry, StageSkipped, Stage, Transition, Stays, Suspend,
                  Resume, Ready
    <3>7. ~Fails /\ ~PauseFails /\ \A c \in Cubes : ~TakeOff(c)
      BY <2>3 DEF Fails, PauseFails, TakeOff
    <3> QED
      BY <1>6, <3>2, <3>3, <3>4, <3>5, <3>6, <3>7 DEF Next, Driver, Caller
  <2> QED
    BY <2>2, <2>3
<1> QED
  BY <1>4, <1>5, <1>6

\* The invariant holds in every run of the line, with all its moves, stalls and troubles;
\* where the cubes stand it says as long as nobody is astray.
THEOREM FeedInvariant == Spec => []FeedInv
<1>1. Init => FeedInv
  BY FeedInit
<1>2. FeedInv /\ [Next]_vars => FeedInv'
  BY FeedStep
<1> QED
  BY <1>1, <1>2, PTL DEF Spec

\* The junction rule: past the ONLOAD eye there are only cubes that entered, and the one
\* that is being taken in, until somebody crosses it unwatched.
THEOREM FollowersKept == Spec => []FollowersWait
<1>1. ASSUME FeedInv
      PROVE  FollowersWait
  <2> SUFFICES ASSUME ~astray, NEW c \in Cubes, nose[c] \in 1 .. Gone - 1, ~(c < next)
               PROVE  c = next /\ (turn = "idle" \/ staged \/ (verb = "stage" /\ pc # "free"))
    BY Zenon DEF FollowersWait
  <2>1. Core /\ Placed
    BY <1>1 DEF FeedInv
  <2>2. Types /\ Queue /\ AtRest
    BY <2>1 DEF Core, Placed, Stopped, Sound
  <2>3. nose[c] \notin Calm
    BY Lengths DEF Calm
  <2>4. c = next
    <3>1. ~(c > next)
      BY <2>2, <2>3 DEF Queue
    <3> QED
      BY <2>2, <3>1 DEF Types, Cubes
  <2>5. Lead \notin Calm
    BY <2>3, <2>4 DEF Lead, Nose
  <2>6. CASE pc \in {"faulted", "down"}
    BY <2>1, <2>4, <2>5, <2>6 DEF Placed, Stopped, Idle
  <2>7. CASE pc \notin {"faulted", "down"}
    BY <2>1, <2>4, <2>5, <2>7 DEF Placed, Sound, Feed, LeadWaits, Waits, Doing, InVerb, Idle
  <2> QED
    BY <2>6, <2>7
<1> QED
  BY <1>1, FeedInvariant, PTL

\* Between two verbs everybody stands where the books say, a nudge in vain taken off.
THEOREM BooksTrue == Spec => []BooksMatchBelt
<1>1. ASSUME FeedInv
      PROVE  BooksMatchBelt
  <2> SUFFICES ASSUME ~astray, pc = "free"
               PROVE  /\ \A st \in Tracked : occ[st] # NoPart => Fits(nose[occ[st]] - slide, st)
                      /\ \A c \in Cubes : c < next => nose[c] = Gone
                                                      \/ \E st \in Tracked : occ[st] = c
                      /\ staged => nose[next] = StagingEye
    BY Zenon DEF BooksMatchBelt
  <2>1. /\ Core /\ Sound
        /\ Types /\ Books /\ Queue /\ Belt /\ Feed /\ WatchInv
    BY <1>1 DEF FeedInv, Core, Placed, Sound
  <2>2. Adrift = slide
    BY DEF Adrift, Doing, InVerb
  <2>3. /\ TakenO => AtO - slide \in WorkZero .. WorkZero + Slide
        /\ TakenF1 => AtF1 \in Width + 1 .. StagingEye
        /\ TakenF2 => AtF2 = Gone \/ AtF2 - slide >= WorkZero + Spacing
    BY <2>1, <2>2 DEF Belt, Standing
  <2>4. slide \in {0, StagingEye}
    BY <2>1 DEF WatchInv, Requests
  <2>5. /\ TakenO => Fits(AtO - slide, "O")
        /\ TakenF2 => Fits(AtF2 - slide, "F2")
    BY <2>3, <2>4, Lengths DEF Fits
  <2>6. TakenF1 => Fits(AtF1 - slide, "F1")
    <3>1. TakenF1 => slide = 0
      BY <2>1, <2>4 DEF Belt, MadeUp, Books
    <3> QED
      BY <2>3, <3>1, Lengths DEF Fits
  <2>7. \A st \in Tracked : occ[st] # NoPart => Fits(nose[occ[st]] - slide, st)
    BY <2>5, <2>6 DEF Tracked, TakenO, TakenF1, TakenF2, AtO, AtF1, AtF2
  <2>8. staged => nose[next] = StagingEye
    <3>1. staged => Lead = StagingEye
      BY <2>1 DEF Feed, NextWaits, Doing, InVerb
    <3> QED
      BY <2>1, <3>1, Positions, Lengths
  <2> QED
    BY <2>1, <2>7, <2>8 DEF Queue
<1> QED
  BY <1>1, FeedInvariant, PTL

\* No arrival is missed: a verb that an eye stops has seen it, and a stage says no only
\* when the next cube is not aboard.
THEOREM ArrivalsSeen == Spec => []EveryArrivalSeen
<1>1. ASSUME FeedInv
      PROVE  EveryArrivalSeen
  <2> SUFFICES ASSUME ~astray, pc = "return", verb # "intake"
               PROVE  arrived \/ (verb = "stage" /\ (next \in Cubes => nose[next] <= 0))
    BY Zenon DEF EveryArrivalSeen
  <2>1. Places /\ AtRest /\ Belt /\ Feed
    BY <1>1 DEF FeedInv, Core, WatchInv, Placed, Sound
  <2>2. CASE verb \in {"entry", "return"}
    BY <2>1, <2>2 DEF Belt, Arrived
  <2>3. CASE verb = "retreat"
    BY <2>1, <2>3 DEF Belt, TurningBack
  <2>4. CASE verb \in {"blind", "stay"}
    BY <2>1, <2>4 DEF AtRest
  <2>5. CASE verb = "stage"
    <3>1. ~arrived => Lead \in Calm
      BY <2>1, <2>5 DEF Feed, Stages, Missed, Doing, InVerb
    <3>2. \A n \in Calm : n <= 0
      BY Lengths DEF Calm
    <3> QED
      BY <2>5, <3>1, <3>2 DEF Lead, Nose
  <2> QED
    BY <2>1, <2>2, <2>3, <2>4, <2>5 DEF Places
<1> QED
  BY <1>1, FeedInvariant, PTL

\* The driver, its ids and chains, the belts and the books stay in range, whoever is astray.
THEOREM FeedTypeCorrect == Spec => []FeedTypeOK
<1>1. ASSUME Core
      PROVE  FeedTypeOK
  <2>1. /\ Types /\ Books /\ Places /\ Requests
    BY <1>1 DEF Core, WatchInv
  <2>2. \A s \in Edges : Len(s) <= 4 /\ \A i \in 1 .. Len(s) : s[i] \in {"hi", "lo"}
    <3> DEFINE Short(s) == Len(s) <= 4 /\ \A i \in 1 .. Len(s) : s[i] \in {"hi", "lo"}
    <3>1. Short(Whole) /\ Short(FromTail) /\ Short(LastNose) /\ Short(<< >>)
      BY DEF Whole, FromTail, LastNose
    <3>2. Short(Twice) /\ Short(Leaving) /\ Short(Passing) /\ Short(Clearing)
      BY DEF Twice, Leaving, Passing, Clearing
    <3> HIDE DEF Short
    <3>3. \A s \in Edges : Short(s)
      BY <3>1, <3>2 DEF Edges, Chains
    <3> QED
      BY <3>3 DEF Short
  <2>3. {watch, wz, chain} \subseteq Edges
    BY <2>1 DEF Types, Edges
  <2>4. nose \in [Cubes -> {Away, Gone} \cup -1 .. Gone]
    <3>1. Away .. Gone \subseteq {Away, Gone} \cup -1 .. Gone
      BY Lengths
    <3> QED
      BY <2>1, <3>1 DEF Types
  <2>5. occ \in [Tracked -> Cubes \cup {NoPart}]
    <3>1. 0 .. next - 1 \subseteq Cubes \cup {NoPart}
      BY <2>1, Lengths DEF Types, Cubes, NoPart
    <3> QED
      BY <2>1, <3>1 DEF Books
  <2>6. {lastId, reqId} \subseteq 0 .. IdMax /\ slide \in {0, Caps["nudge"]}
    BY <2>1 DEF Requests, Caps
  <2>7. /\ pc \in {"free", "held", "arm", "sample", "poll", "turn", "back", "feed", "nudge", "blind",
                   "return", "lapse", "faulted", "down"}
        /\ verb \in {"intake", "stage", "entry", "retreat", "return", "blind", "stay"}
    BY <2>1 DEF Places
  <2> QED
    BY <2>1, <2>2, <2>3, <2>4, <2>5, <2>6, <2>7 DEF FeedTypeOK, Types
<1>2. Core /\ [Next]_vars => Core'
  BY CoreStep
<1> QED
  BY <1>1, <1>2, CoreInit, PTL DEF Spec
=============================================================================
