--------------------------- MODULE CompositesProofs ---------------------------
(***************************************************************************)
(* Proofs about Composites, for any number of failing calls and halts:      *)
(* whatever fails, no composite leaves a tool on, and the duet of arm and   *)
(* belt keeps step.                                                         *)
(***************************************************************************)
EXTENDS Composites, TLAPS

Jobs == {"sand", "clean", "spray", "safe"}

Ops == {"pose", "touch", "zero", "toolOn", "toolOff", "press", "lift", "out", "back", "join",
        "rise", "lower", "defaultTcp", "sprayTcp", "brushOn", "brushOff", "hold", "standoff",
        "gunOn", "gunOff"}

Strokes == {"out", "back"}
Sweeps  == {"rise", "lower"}

\* From place i on, the call op still comes, and none of the calls in bar before it.
Ahead(i, op, bar) ==
  \E j \in i .. Len(Calls) : Calls[j] = op /\ \A k \in i .. j - 1 : Calls[k] \notin bar

\* The gun goes off before the next shot and before the arm travels.
GunOffAhead(i) == Ahead(i, "gunOff", {"gunOn", "pose"})
\* The belt is waited for before it is moved again and before the arm sweeps.
JoinAhead(i) == Ahead(i, "join", Strokes \cup Sweeps)
\* The belt is away from where the composite found it.
BackAhead(i) == Ahead(i, "back", {"out"})

-----------------------------------------------------------------------------
(***************************************************************************)
(* The inductive invariant: what is on is on for a reason the place in the  *)
(* program gives, or for a failure that history records.                    *)
(***************************************************************************)
Types ==
  /\ job \in Jobs \cup {"none"} /\ cube \in BOOLEAN /\ raising \in BOOLEAN
  /\ at \in 1 .. Len(Calls) + 1
  /\ tool \in BOOLEAN /\ pressing \in BOOLEAN /\ gun \in BOOLEAN /\ brush \in BOOLEAN
  /\ tcp \in {"default", "spray"}
  /\ belt \in Int /\ offset \in Int
  /\ failed \in Seq(Ops \cup {"halt"})

GunOn      == job = "spray" /\ 1 < at /\ GunOffAhead(at)
BrushOn    == job = "clean" /\ at \in {5, 6}
Pressing   == job = "sand" /\ at \in 6 .. 12
ToolOn     == job = "sand" /\ at \in 5 .. 13
SprayFrame == job = "spray" /\ at \in 2 .. Len(Calls)

Switches ==
  /\ gun           => Failed({"gunOff"}) \/ GunOn
  /\ brush         => Failed({"brushOn", "brushOff"}) \/ BrushOn
  /\ pressing      => Failed({"press", "lift"}) \/ Pressing
  /\ tool          => Failed({"toolOn", "press", "lift", "toolOff"}) \/ ToolOn
  /\ tcp = "spray" => Failed({"sprayTcp", "gunOff", "defaultTcp"}) \/ SprayFrame

Belt ==
  /\ job = "none" => belt = 0 /\ at = 1
  /\ job # "none" /\ raising => at >= Program.finally /\ failed # <<>>
  /\ job # "none" /\ ~raising /\ belt # 0 => JoinAhead(at)

Place == failed = <<>> =>
  IF job # "none" /\ BackAhead(at) THEN offset + belt = Pass ELSE offset + belt = 0

CInv == Types /\ Switches /\ Belt /\ Place

-----------------------------------------------------------------------------
(***************************************************************************)
(* The programs, written out place by place.                                *)
(***************************************************************************)
SandIs ==
  /\ Len(Calls) = 13 /\ Program.try = 6 /\ Program.finally = 12
  /\ Calls[1] = "pose" /\ Calls[2] = "touch" /\ Calls[3] = "zero" /\ Calls[4] = "toolOn"
  /\ Calls[5] = "press" /\ Calls[6] = "out" /\ Calls[7] = "join" /\ Calls[8] = "rise"
  /\ Calls[9] = "back" /\ Calls[10] = "join" /\ Calls[11] = "lower"
  /\ Calls[12] = "lift" /\ Calls[13] = "toolOff"

\* Sanding.
LEMMA SandCalls ==
  ASSUME job = "sand"
  PROVE  SandIs
BY DEF SandIs, Calls, Program, Sand

CleanIs ==
  /\ Len(Calls) = 6 /\ Program.try = 5 /\ Program.finally = 6
  /\ Calls[1] = "defaultTcp" /\ Calls[2] = "pose" /\ Calls[3] = "touch"
  /\ Calls[4] = "brushOn" /\ Calls[5] = "hold" /\ Calls[6] = "brushOff"

\* Gun cleaning.
LEMMA CleanCalls ==
  ASSUME job = "clean"
  PROVE  CleanIs
BY DEF CleanIs, Calls, Program, Clean

SafeIs ==
  Len(Calls) = 1 /\ Program.try = 1 /\ Program.finally = 2 /\ Calls[1] = "pose"

\* The move to the safe pose.
LEMMA SafeCalls ==
  ASSUME job \notin {"sand", "clean", "spray"}
  PROVE  SafeIs
BY DEF SafeIs, Calls, Program, SafePose

BrowserIs ==
  /\ Len(Calls) = 14 /\ Program.try = 2 /\ Program.finally = 13
  /\ Calls[1] = "sprayTcp" /\ Calls[2] = "pose" /\ Calls[3] = "standoff"
  /\ Calls[4] = "gunOn" /\ Calls[5] = "out" /\ Calls[6] = "join" /\ Calls[7] = "rise"
  /\ Calls[8] = "back" /\ Calls[9] = "join" /\ Calls[10] = "lower"
  /\ Calls[11] = "gunOff" /\ Calls[12] = "pose" /\ Calls[13] = "gunOff"
  /\ Calls[14] = "defaultTcp"

\* Spraying a browser.
LEMMA BrowserCalls ==
  ASSUME job = "spray", cube = FALSE
  PROVE  BrowserIs
BY DEF BrowserIs, Calls, Program, SprayBrowser

CubeIs ==
  /\ Len(Calls) = 28 /\ Program.try = 2 /\ Program.finally = 27
  /\ Calls[1] = "sprayTcp" /\ Calls[2] = "pose" /\ Calls[3] = "gunOn"
  /\ Calls[4] = "out" /\ Calls[5] = "join" /\ Calls[6] = "rise" /\ Calls[7] = "back"
  /\ Calls[8] = "join" /\ Calls[9] = "lower" /\ Calls[10] = "gunOff"
  /\ Calls[11] = "pose" /\ Calls[12] = "pose" /\ Calls[13] = "gunOn"
  /\ Calls[14] = "out" /\ Calls[15] = "join" /\ Calls[16] = "gunOff"
  /\ Calls[17] = "pose" /\ Calls[18] = "gunOn" /\ Calls[19] = "rise"
  /\ Calls[20] = "gunOff" /\ Calls[21] = "back" /\ Calls[22] = "pose"
  /\ Calls[23] = "join" /\ Calls[24] = "gunOn" /\ Calls[25] = "lower"
  /\ Calls[26] = "gunOff" /\ Calls[27] = "gunOff" /\ Calls[28] = "defaultTcp"

\* Spraying a cube.
LEMMA CubeCalls ==
  ASSUME job = "spray", cube = TRUE
  PROVE  CubeIs
BY DEF CubeIs, Calls, Program, SprayCube

-----------------------------------------------------------------------------
(***************************************************************************)
(* What the programs have in common.                                        *)
(***************************************************************************)
\* What follows each call, and where the calls that switch something stand.
Plan ==
  /\ Len(Calls) \in Nat /\ Program.try \in Nat /\ Program.finally \in Nat
  /\ 1 <= Program.try /\ Program.try < Program.finally /\ Program.finally <= Len(Calls) + 1
  /\ \A i \in 1 .. Len(Calls) : Calls[i] \in Ops

GunPlan ==
  /\ \A i \in 1 .. Len(Calls) : Calls[i] = "gunOn" =>
       /\ job = "spray" /\ Program.try <= i /\ i < Program.finally
       /\ GunOffAhead(i + 1)
  /\ job = "spray" =>
       /\ Program.try = 2 /\ Program.finally + 1 = Len(Calls) /\ Calls[1] = "sprayTcp"
       /\ Calls[Program.finally] = "gunOff" /\ Calls[Len(Calls)] = "defaultTcp"

BeltPlan ==
  /\ \A i \in 1 .. Len(Calls) : Calls[i] \in Strokes => JoinAhead(i + 1)
  /\ \A i \in 1 .. Len(Calls) : Calls[i] \in Strokes \cup Sweeps =>
       Program.try <= i /\ i < Program.finally
  /\ \A i \in 1 .. Len(Calls) : Calls[i] = "out" => BackAhead(i + 1)
  /\ \A i \in 1 .. Len(Calls) : Calls[i] = "back" => ~BackAhead(i + 1)
  /\ ~BackAhead(1)

ToolPlan ==
  /\ \A i \in 1 .. Len(Calls) :
       /\ Calls[i] = "toolOn"   => job = "sand" /\ i = 4
       /\ Calls[i] = "press"    => job = "sand" /\ i = 5
       /\ Calls[i] = "brushOn"  => job = "clean" /\ i = 4
       /\ Calls[i] = "sprayTcp" => job = "spray" /\ i = 1
  /\ job = "sand" =>
       /\ Program.try = 6 /\ Program.finally = 12 /\ Len(Calls) = 13
       /\ Calls[5] = "press" /\ Calls[12] = "lift" /\ Calls[13] = "toolOff"
  /\ job = "clean" =>
       /\ Program.try = 5 /\ Program.finally = 6 /\ Len(Calls) = 6 /\ Calls[6] = "brushOff"

\* Every program has a try with a finally after it, and calls the drivers know.
LEMMA PlanOk ==
  ASSUME cube \in BOOLEAN
  PROVE  Plan
<1>1. CASE job = "sand"
  <2>0. SandIs
    BY <1>1, SandCalls
  <2> QED
    BY <1>1, <2>0 DEF Plan, Ops, SandIs
<1>2. CASE job = "clean"
  <2>0. CleanIs
    BY <1>2, CleanCalls
  <2> QED
    BY <1>2, <2>0 DEF Plan, Ops, CleanIs
<1>3. CASE job = "spray" /\ cube = FALSE
  <2>0. BrowserIs
    BY <1>3, BrowserCalls
  <2> QED
    BY <1>3, <2>0 DEF Plan, Ops, BrowserIs
<1>4. CASE job = "spray" /\ cube = TRUE
  <2>0. CubeIs
    BY <1>4, CubeCalls
  <2> QED
    BY <1>4, <2>0 DEF Plan, Ops, CubeIs
<1>5. CASE job \notin {"sand", "clean", "spray"}
  <2>0. SafeIs
    BY <1>5, SafeCalls
  <2> QED
    BY <1>5, <2>0 DEF Plan, Ops, SafeIs
<1> QED
  BY <1>1, <1>2, <1>3, <1>4, <1>5

\* Every shot of the gun is ended before the next one and before the arm travels.
LEMMA GunPlanOk ==
  ASSUME cube \in BOOLEAN
  PROVE  GunPlan
<1>1. CASE job = "sand"
  <2>0. SandIs
    BY <1>1, SandCalls
  <2> QED
    BY <1>1, <2>0 DEF GunPlan, SandIs
<1>2. CASE job = "clean"
  <2>0. CleanIs
    BY <1>2, CleanCalls
  <2> QED
    BY <1>2, <2>0 DEF GunPlan, CleanIs
<1>3. CASE job = "spray" /\ cube = FALSE
  <2>0. BrowserIs
    BY <1>3, BrowserCalls
  <2>1. GunOffAhead(5)
    BY <1>3, <2>0 DEF GunOffAhead, Ahead, BrowserIs
  <2> QED
    BY <1>3, <2>1, <2>0 DEF GunPlan, BrowserIs
<1>4. CASE job = "spray" /\ cube = TRUE
  <2>0. CubeIs
    BY <1>4, CubeCalls
  <2>1. GunOffAhead(4)
    BY <1>4, <2>0 DEF GunOffAhead, Ahead, CubeIs
  <2>2. GunOffAhead(14)
    BY <1>4, <2>0 DEF GunOffAhead, Ahead, CubeIs
  <2>3. GunOffAhead(19)
    BY <1>4, <2>0 DEF GunOffAhead, Ahead, CubeIs
  <2>4. GunOffAhead(25)
    BY <1>4, <2>0 DEF GunOffAhead, Ahead, CubeIs
  <2> QED
    BY <1>4, <2>1, <2>2, <2>3, <2>4, <2>0 DEF GunPlan, CubeIs
<1>5. CASE job \notin {"sand", "clean", "spray"}
  <2>0. SafeIs
    BY <1>5, SafeCalls
  <2> QED
    BY <1>5, <2>0 DEF GunPlan, SafeIs
<1> QED
  BY <1>1, <1>2, <1>3, <1>4, <1>5

\* Every stroke of the belt is waited for before the next stroke and before the arm
\* sweeps, and every stroke out has its stroke back.
LEMMA BeltPlanOk ==
  ASSUME cube \in BOOLEAN
  PROVE  BeltPlan
<1>1. CASE job = "sand"
  <2>0. SandIs
    BY <1>1, SandCalls
  <2>1. JoinAhead(7) /\ JoinAhead(10)
    BY <2>0 DEF JoinAhead, Ahead, Strokes, Sweeps, SandIs
  <2>2. BackAhead(7)
    BY <2>0 DEF BackAhead, Ahead, SandIs
  <2>3. ~BackAhead(10) /\ ~BackAhead(1)
    BY <2>0 DEF BackAhead, Ahead, SandIs
  <2> QED
    BY <1>1, <2>1, <2>2, <2>3, <2>0 DEF BeltPlan, Strokes, Sweeps, SandIs
<1>2. CASE job = "clean"
  <2>0. CleanIs
    BY <1>2, CleanCalls
  <2>1. ~BackAhead(1)
    BY <1>2, <2>0 DEF BackAhead, Ahead, CleanIs
  <2> QED
    BY <1>2, <2>1, <2>0 DEF BeltPlan, Strokes, Sweeps, CleanIs
<1>3. CASE job = "spray" /\ cube = FALSE
  <2>0. BrowserIs
    BY <1>3, BrowserCalls
  <2>1. JoinAhead(6) /\ JoinAhead(9)
    BY <1>3, <2>0 DEF JoinAhead, Ahead, Strokes, Sweeps, BrowserIs
  <2>2. BackAhead(6)
    BY <1>3, <2>0 DEF BackAhead, Ahead, BrowserIs
  <2>3. ~BackAhead(9) /\ ~BackAhead(1)
    BY <1>3, <2>0 DEF BackAhead, Ahead, BrowserIs
  <2> QED
    BY <1>3, <2>1, <2>2, <2>3, <2>0 DEF BeltPlan, Strokes, Sweeps, BrowserIs
<1>4. CASE job = "spray" /\ cube = TRUE
  <2>0. CubeIs
    BY <1>4, CubeCalls
  <2>1. JoinAhead(5) /\ JoinAhead(8) /\ JoinAhead(15) /\ JoinAhead(22)
    BY <1>4, <2>0 DEF JoinAhead, Ahead, Strokes, Sweeps, CubeIs
  <2>2. BackAhead(5)
    BY <1>4, <2>0 DEF BackAhead, Ahead, CubeIs
  <2>3. BackAhead(15)
    BY <1>4, <2>0 DEF BackAhead, Ahead, CubeIs
  <2>4. ~BackAhead(8)
    BY <1>4, <2>0 DEF BackAhead, Ahead, CubeIs
  <2>5. ~BackAhead(22)
    BY <1>4, <2>0 DEF BackAhead, Ahead, CubeIs
  <2>6. ~BackAhead(1)
    BY <1>4, <2>0 DEF BackAhead, Ahead, CubeIs
  <2> QED
    BY <1>4, <2>1, <2>2, <2>3, <2>4, <2>5, <2>6, <2>0 DEF BeltPlan, Strokes, Sweeps, CubeIs
<1>5. CASE job \notin {"sand", "clean", "spray"}
  <2>0. SafeIs
    BY <1>5, SafeCalls
  <2>1. ~BackAhead(1)
    BY <1>5, <2>0 DEF BackAhead, Ahead, SafeIs
  <2> QED
    BY <1>5, <2>1, <2>0 DEF BeltPlan, Strokes, Sweeps, SafeIs
<1> QED
  BY <1>1, <1>2, <1>3, <1>4, <1>5

\* Sander, force mode, brush and spray frame: who switches them, and where.
LEMMA ToolPlanOk ==
  ASSUME cube \in BOOLEAN
  PROVE  ToolPlan
<1>1. CASE job = "sand"
  <2>0. SandIs
    BY <1>1, SandCalls
  <2> QED
    BY <1>1, <2>0 DEF ToolPlan, SandIs
<1>2. CASE job = "clean"
  <2>0. CleanIs
    BY <1>2, CleanCalls
  <2> QED
    BY <1>2, <2>0 DEF ToolPlan, CleanIs
<1>3. CASE job = "spray" /\ cube = FALSE
  <2>0. BrowserIs
    BY <1>3, BrowserCalls
  <2> QED
    BY <1>3, <2>0 DEF ToolPlan, BrowserIs
<1>4. CASE job = "spray" /\ cube = TRUE
  <2>0. CubeIs
    BY <1>4, CubeCalls
  <2> QED
    BY <1>4, <2>0 DEF ToolPlan, CubeIs
<1>5. CASE job \notin {"sand", "clean", "spray"}
  <2>0. SafeIs
    BY <1>5, SafeCalls
  <2> QED
    BY <1>5, <2>0 DEF ToolPlan, SafeIs
<1> QED
  BY <1>1, <1>2, <1>3, <1>4, <1>5

\* The same for whatever state the system is in, the next one included.
LEMMA PlanAlways == cube \in BOOLEAN => Plan /\ BeltPlan
BY PlanOk, BeltPlanOk

-----------------------------------------------------------------------------
(***************************************************************************)
(* Lemmas for the steps.                                                    *)
(***************************************************************************)
\* The program depends on the composite and on the part alone.
LEMMA SameProgram ==
  ASSUME UNCHANGED <<job, cube>>
  PROVE  Program' = Program /\ Calls' = Calls
BY DEF Program, Calls

\* A call that is still ahead stays ahead when another call is made, and that other call
\* is none of the barred ones.
LEMMA AheadOnward ==
  ASSUME Len(Calls) \in Nat, NEW i \in 1 .. Len(Calls) + 1, NEW op, NEW bar,
         Ahead(i, op, bar), Calls[i] # op
  PROVE  Ahead(i + 1, op, bar) /\ Calls[i] \notin bar
<1>1. PICK j \in i .. Len(Calls) : Calls[j] = op /\ \A k \in i .. j - 1 : Calls[k] \notin bar
  BY DEF Ahead
<1>2. j \in i + 1 .. Len(Calls)
  BY <1>1
<1>3. Calls[i] \notin bar
  BY <1>1, <1>2
<1>4. \A k \in i + 1 .. j - 1 : Calls[k] \notin bar
  BY <1>1
<1> QED
  BY <1>1, <1>2, <1>3, <1>4 DEF Ahead

\* A call that is ahead after some neutral call was ahead before it.
LEMMA AheadBack ==
  ASSUME Len(Calls) \in Nat, NEW i \in 1 .. Len(Calls), NEW op, NEW bar,
         Ahead(i + 1, op, bar), Calls[i] \notin bar
  PROVE  Ahead(i, op, bar)
<1>1. PICK j \in i + 1 .. Len(Calls) :
        Calls[j] = op /\ \A k \in i + 1 .. j - 1 : Calls[k] \notin bar
  BY DEF Ahead
<1>2. j \in i .. Len(Calls)
  BY <1>1
<1>3. \A k \in i .. j - 1 : Calls[k] \notin bar
  BY <1>1
<1> QED
  BY <1>1, <1>2, <1>3 DEF Ahead

\* Nothing is ahead at the end of a program.
LEMMA NothingAhead ==
  ASSUME Len(Calls) \in Nat, NEW op, NEW bar
  PROVE  ~Ahead(Len(Calls) + 1, op, bar)
BY DEF Ahead

\* History is only added to: a failure once recorded stays, and the new one is there.
LEMMA FailedGrows ==
  ASSUME failed \in Seq(Ops \cup {"halt"}), NEW x \in Ops \cup {"halt"},
         failed' = Append(failed, x)
  PROVE  /\ failed' \in Seq(Ops \cup {"halt"}) /\ failed' # <<>>
         /\ \A ops : Failed(ops) => Failed(ops)'
         /\ \A ops : x \in ops => Failed(ops)'
<1>1. /\ failed' \in Seq(Ops \cup {"halt"}) /\ Len(failed') = Len(failed) + 1
      /\ Len(failed) \in Nat
      /\ \A i \in 1 .. Len(failed) : failed'[i] = failed[i]
      /\ failed'[Len(failed) + 1] = x
  OBVIOUS
<1>2. failed' # <<>>
  BY <1>1
<1>3. ASSUME NEW ops, Failed(ops)
      PROVE  Failed(ops)'
  <2>1. PICK i \in 1 .. Len(failed) : failed[i] \in ops
    BY <1>3 DEF Failed
  <2>2. i \in 1 .. Len(failed') /\ failed'[i] \in ops
    BY <1>1, <2>1
  <2> QED
    BY <2>2 DEF Failed
<1>4. ASSUME NEW ops, x \in ops
      PROVE  Failed(ops)'
  <2>1. Len(failed) + 1 \in 1 .. Len(failed') /\ failed'[Len(failed) + 1] \in ops
    BY <1>1, <1>4
  <2> QED
    BY <2>1 DEF Failed
<1> QED
  BY <1>1, <1>2, <1>3, <1>4

\* Without a new failure the history reads as before.
LEMMA FailedSame ==
  ASSUME failed' = failed
  PROVE  \A ops : Failed(ops)' <=> Failed(ops)
BY DEF Failed

-----------------------------------------------------------------------------
(***************************************************************************)
(* Each action preserves the invariant.                                     *)
(***************************************************************************)
\* A composite begins: nothing of it has run, and whatever is on is on for a failure.
LEMMA BeginKeeps ==
  ASSUME CInv, NEW j \in Jobs, Begin(j)
  PROVE  CInv'
<1>1. /\ job = "none" /\ job' \in Jobs /\ at' = 1 /\ raising' = FALSE
      /\ belt' = belt /\ offset' = offset /\ failed' = failed
      /\ tool' = tool /\ pressing' = pressing /\ gun' = gun /\ brush' = brush /\ tcp' = tcp
  BY DEF Begin, devices
<1>a. job' # "none" /\ belt = 0
  BY <1>1 DEF CInv, Belt, Jobs
<1>b. (cube \in BOOLEAN)'
  BY DEF Begin
<1>2. Plan' /\ BeltPlan'
  <2>1. (cube \in BOOLEAN => Plan /\ BeltPlan)'
    BY PlanAlways, PTL
  <2> QED
    BY <1>b, <2>1
<1>3. Types'
  <2>1. job' \in Jobs \cup {"none"} /\ cube' \in BOOLEAN /\ raising' \in BOOLEAN
        /\ belt' \in Int /\ offset' \in Int /\ failed' \in Seq(Ops \cup {"halt"})
    BY <1>1, <1>b DEF CInv, Types
  <2>2. at' \in 1 .. Len(Calls)' + 1
    BY <1>1, <1>2 DEF Plan
  <2>3. tool' \in BOOLEAN /\ pressing' \in BOOLEAN
    BY <1>1, Zenon DEF CInv, Types
  <2>4. gun' \in BOOLEAN /\ brush' \in BOOLEAN
    BY <1>1, Zenon DEF CInv, Types
  <2>5. tcp' \in {"default", "spray"}
    BY <1>1 DEF CInv, Types
  <2> QED
    BY <2>1, <2>2, <2>3, <2>4, <2>5 DEF Types
<1>4. Switches'
  BY <1>1, FailedSame
  DEF CInv, Switches, GunOn, BrushOn, Pressing, ToolOn, SprayFrame
<1>5. Belt'
  BY <1>1, <1>a DEF Belt
<1>6. Place'
  BY <1>1, <1>a, <1>2 DEF CInv, Place, BeltPlan
<1> QED
  BY <1>3, <1>4, <1>5, <1>6 DEF CInv

\* A call returns: what it switched is switched for the place that follows it.
LEMMA ReturnKeeps ==
  ASSUME CInv, Return
  PROVE  CInv'
<1>1. /\ job # "none" /\ at \in 1 .. Len(Calls) /\ Op = Calls[at] /\ at' = at + 1
      /\ UNCHANGED <<job, cube, raising, offset, failed>>
      /\ cube \in BOOLEAN /\ Len(Calls) \in Nat
  <2>1. Plan
    BY PlanOk DEF CInv, Types
  <2> QED
    BY <2>1 DEF Return, Running, Op, CInv, Types, Plan
<1>2. Calls' = Calls /\ Program' = Program
  BY <1>1, SameProgram
<1>3. Plan /\ GunPlan /\ BeltPlan /\ ToolPlan
  BY <1>1, PlanOk, GunPlanOk, BeltPlanOk, ToolPlanOk
<1>4. /\ tool'     = IF Op = "toolOn" THEN TRUE ELSE IF Op = "toolOff" THEN FALSE ELSE tool
      /\ pressing' = IF Op = "press" THEN TRUE ELSE IF Op = "lift" THEN FALSE ELSE pressing
      /\ gun'      = IF Op = "gunOn" THEN TRUE ELSE IF Op = "gunOff" THEN FALSE ELSE gun
      /\ brush'    = IF Op = "brushOn" THEN TRUE ELSE IF Op = "brushOff" THEN FALSE ELSE brush
  BY DEF Return, Effect, Switch
<1>5. /\ Op = "sprayTcp" => tcp' = "spray"
      /\ Op = "defaultTcp" => tcp' = "default"
      /\ Op \notin {"sprayTcp", "defaultTcp"} => tcp' = tcp
  BY DEF Return, Effect
<1>6. /\ Op = "out" => belt' = Pass
      /\ Op = "back" => belt' = -Pass
      /\ Op \notin {"out", "back"} => belt' = belt
      /\ Op = "join" => belt = 0
  BY DEF Return, Effect
<1>7. Types'
  <2>1. job' \in Jobs \cup {"none"} /\ cube' \in BOOLEAN /\ raising' \in BOOLEAN
        /\ offset' \in Int /\ failed' \in Seq(Ops \cup {"halt"})
    BY <1>1 DEF CInv, Types
  <2>2. at' \in 1 .. Len(Calls)' + 1
    BY <1>1, <1>2
  <2>3. tool' \in BOOLEAN
    BY <1>4 DEF CInv, Types
  <2>4. pressing' \in BOOLEAN
    BY <1>4 DEF CInv, Types
  <2>5. gun' \in BOOLEAN
    BY <1>4 DEF CInv, Types
  <2>6. brush' \in BOOLEAN
    BY <1>4 DEF CInv, Types
  <2>7. tcp' \in {"default", "spray"}
    BY <1>5 DEF CInv, Types
  <2>8. belt' \in Int
    BY <1>6 DEF CInv, Types, Pass
  <2> QED
    BY <2>1, <2>2, <2>3, <2>4, <2>5, <2>6, <2>7, <2>8 DEF Types
<1>8. gun' => Failed({"gunOff"})' \/ GunOn'
  <2>1. CASE Op = "gunOn"
    <3>1. job = "spray" /\ GunOffAhead(at + 1)
      BY <1>1, <1>3, <2>1 DEF GunPlan
    <3>2. GunOffAhead(at)'
      BY <1>1, <1>2, <3>1 DEF GunOffAhead, Ahead
    <3> QED
      BY <1>1, <3>1, <3>2 DEF GunOn
  <2>2. CASE Op # "gunOn" /\ Op # "gunOff"
    <3>1. GunOn => GunOffAhead(at + 1)
      BY <1>1, <2>2, AheadOnward DEF GunOn, GunOffAhead
    <3>2. GunOffAhead(at + 1) => GunOffAhead(at)'
      BY <1>1, <1>2 DEF GunOffAhead, Ahead
    <3>3. GunOn => GunOn'
      BY <1>1, <3>1, <3>2 DEF GunOn
    <3> QED
      BY <1>1, <1>4, <2>2, <3>3, FailedSame DEF CInv, Switches
  <2> QED
    BY <1>4, <2>1, <2>2
<1>9. brush' => Failed({"brushOn", "brushOff"})' \/ BrushOn'
  <2>1. CASE Op = "brushOn"
    <3>1. job = "clean" /\ at = 4
      BY <1>1, <1>3, <2>1 DEF ToolPlan
    <3> QED
      BY <1>1, <3>1 DEF BrushOn
  <2>2. CASE Op = "brushOff"
    BY <1>4, <2>2
  <2>3. CASE Op # "brushOn" /\ Op # "brushOff"
    <3>1. BrushOn => BrushOn'
      BY <1>1, <1>3, <2>3 DEF BrushOn, ToolPlan
    <3> QED
      BY <1>1, <1>4, <2>3, <3>1, FailedSame DEF CInv, Switches
  <2> QED
    BY <2>1, <2>2, <2>3
<1>10. pressing' => Failed({"press", "lift"})' \/ Pressing'
  <2>1. CASE Op = "press"
    <3>1. job = "sand" /\ at = 5
      BY <1>1, <1>3, <2>1 DEF ToolPlan
    <3> QED
      BY <1>1, <3>1 DEF Pressing
  <2>2. CASE Op = "lift"
    BY <1>4, <2>2
  <2>3. CASE Op # "press" /\ Op # "lift"
    <3>1. Pressing => Pressing'
      BY <1>1, <1>3, <2>3 DEF Pressing, ToolPlan
    <3> QED
      BY <1>1, <1>4, <2>3, <3>1, FailedSame DEF CInv, Switches
  <2> QED
    BY <2>1, <2>2, <2>3
<1>11. tool' => Failed({"toolOn", "press", "lift", "toolOff"})' \/ ToolOn'
  <2>1. CASE Op = "toolOn"
    <3>1. job = "sand" /\ at = 4
      BY <1>1, <1>3, <2>1 DEF ToolPlan
    <3> QED
      BY <1>1, <3>1 DEF ToolOn
  <2>2. CASE Op = "toolOff"
    BY <1>4, <2>2
  <2>3. CASE Op # "toolOn" /\ Op # "toolOff"
    <3>1. ToolOn => ToolOn'
      BY <1>1, <1>3, <2>3 DEF ToolOn, ToolPlan
    <3> QED
      BY <1>1, <1>4, <2>3, <3>1, FailedSame DEF CInv, Switches
  <2> QED
    BY <2>1, <2>2, <2>3
<1>12. tcp' = "spray" => Failed({"sprayTcp", "gunOff", "defaultTcp"})' \/ SprayFrame'
  <2>1. CASE Op = "sprayTcp"
    <3>1. job = "spray" /\ at = 1
      BY <1>1, <1>3, <2>1 DEF ToolPlan
    <3>2. Len(Calls) >= 2
      BY <1>3, <3>1 DEF GunPlan, Plan
    <3> QED
      BY <1>1, <1>2, <3>1, <3>2 DEF SprayFrame
  <2>2. CASE Op = "defaultTcp"
    BY <1>5, <2>2
  <2>3. CASE Op \notin {"sprayTcp", "defaultTcp"}
    <3>1. SprayFrame => SprayFrame'
      BY <1>1, <1>2, <1>3, <2>3 DEF SprayFrame, GunPlan
    <3> QED
      BY <1>1, <1>5, <2>3, <3>1, FailedSame DEF CInv, Switches
  <2> QED
    BY <2>1, <2>2, <2>3
<1>13. Switches'
  BY <1>8, <1>9, <1>10, <1>11, <1>12 DEF Switches
<1>14. Belt'
  <2>1. ASSUME raising
        PROVE  at' >= Program.finally /\ failed # <<>>
    BY <1>1, <1>3, <2>1 DEF CInv, Belt, Plan
  <2>2. ASSUME ~raising, belt' # 0
        PROVE  JoinAhead(at + 1)
    <3>1. CASE Op \in Strokes
      BY <1>1, <1>3, <3>1 DEF BeltPlan
    <3>2. CASE Op \notin Strokes
      <4>1. belt # 0 /\ Op # "join" /\ JoinAhead(at)
        BY <1>1, <1>6, <2>2, <3>2 DEF CInv, Belt, Strokes
      <4> QED
        BY <1>1, <4>1, AheadOnward DEF JoinAhead
    <3> QED
      BY <3>1, <3>2
  <2>3. JoinAhead(at + 1) => JoinAhead(at)'
    BY <1>1, <1>2 DEF JoinAhead, Ahead
  <2> QED
    BY <1>1, <1>2, <2>1, <2>2, <2>3 DEF Belt
<1>15. Place'
  <2> SUFFICES ASSUME failed = <<>>
               PROVE  IF BackAhead(at)' THEN offset + belt' = Pass ELSE offset + belt' = 0
    BY <1>1 DEF Place
  <2>1. BackAhead(at)' <=> BackAhead(at + 1)
    BY <1>1, <1>2 DEF BackAhead, Ahead
  <2>2. ~raising /\ belt \in Int /\ offset \in Int
    BY <1>1 DEF CInv, Belt, Types
  <2>3. CASE Op \in Strokes
    <3>1. belt = 0
      <4>1. JoinAhead(at) => Op \notin Strokes
        BY <1>1, AheadOnward DEF JoinAhead, Strokes
      <4> QED
        BY <1>1, <2>2, <2>3, <4>1 DEF CInv, Belt
    <3>2. CASE Op = "out"
      <4>1. ~BackAhead(at)
        <5>1. Calls[at] = "out" /\ at \in 1 .. Len(Calls) + 1
          BY <1>1, <3>2
        <5>2. ASSUME Ahead(at, "back", {"out"})
              PROVE  Calls[at] \notin {"out"}
          BY <1>1, <5>1, <5>2, AheadOnward
        <5> QED
          BY <5>1, <5>2 DEF BackAhead
      <4>2. BackAhead(at + 1)
        BY <1>1, <1>3, <3>2 DEF BeltPlan
      <4> QED
        BY <1>1, <1>6, <2>1, <2>2, <3>1, <3>2, <4>1, <4>2 DEF CInv, Place, Pass
    <3>3. CASE Op = "back"
      <4>1. BackAhead(at)
        <5>1. at \in at .. Len(Calls) /\ Calls[at] = "back" /\ \A k \in at .. at - 1 : FALSE
          BY <1>1, <3>3
        <5> QED
          BY <5>1 DEF BackAhead, Ahead
      <4>2. ~BackAhead(at + 1)
        BY <1>1, <1>3, <3>3 DEF BeltPlan
      <4> QED
        BY <1>1, <1>6, <2>1, <2>2, <3>1, <3>3, <4>1, <4>2 DEF CInv, Place, Pass
    <3> QED
      BY <2>3, <3>2, <3>3 DEF Strokes
  <2>4. CASE Op \notin Strokes
    <3>1. BackAhead(at) <=> BackAhead(at + 1)
      BY <1>1, <2>4, AheadOnward, AheadBack DEF BackAhead, Strokes
    <3> QED
      BY <1>1, <1>6, <2>1, <2>4, <3>1 DEF CInv, Place, Strokes
  <2> QED
    BY <2>3, <2>4
<1> QED
  BY <1>7, <1>13, <1>14, <1>15 DEF CInv

\* A call raises, before or after it took effect: on to the finally, or out.
LEMMA RaiseKeeps ==
  ASSUME CInv, Raise
  PROVE  CInv'
<1>1. /\ job # "none" /\ at \in 1 .. Len(Calls) /\ Op = Calls[at]
      /\ UNCHANGED <<job, cube, offset>> /\ raising' = TRUE
      /\ at' = IF InTry THEN Program.finally ELSE Len(Calls) + 1
      /\ failed' = Append(failed, Op)
      /\ cube \in BOOLEAN /\ Len(Calls) \in Nat
  <2>1. Plan
    BY PlanOk DEF CInv, Types
  <2> QED
    BY <2>1 DEF Raise, Running, Op, CInv, Types, Plan
<1>2. Calls' = Calls /\ Program' = Program
  BY <1>1, SameProgram
<1>3. Plan /\ GunPlan /\ BeltPlan /\ ToolPlan
  BY <1>1, PlanOk, GunPlanOk, BeltPlanOk, ToolPlanOk
<1>4. /\ failed' \in Seq(Ops \cup {"halt"}) /\ failed' # <<>>
      /\ \A ops : Failed(ops) => Failed(ops)'
      /\ \A ops : Op \in ops => Failed(ops)'
  <2>1. Op \in Ops \cup {"halt"}
    BY <1>1, <1>3 DEF Plan
  <2> QED
    BY <1>1, <2>1, FailedGrows DEF CInv, Types
<1>5. /\ tool' => tool \/ Op = "toolOn"
      /\ pressing' => pressing \/ Op = "press"
      /\ gun' => gun \/ Op = "gunOn"
      /\ brush' => brush \/ Op = "brushOn"
  <2>1. CASE Effect
    BY <2>1 DEF Effect, Switch
  <2>2. CASE UNCHANGED <<devices, belt>>
    BY <2>2 DEF devices
  <2> QED
    BY <2>1, <2>2 DEF Raise
<1>6. tcp' = tcp \/ (tcp' = "spray" /\ Op = "sprayTcp") \/ tcp' = "default"
  BY DEF Raise, Effect, devices
<1>7. Types'
  <2>1. job' \in Jobs \cup {"none"} /\ cube' \in BOOLEAN /\ offset' \in Int
    BY <1>1 DEF CInv, Types
  <2>2. at' \in 1 .. Len(Calls)' + 1
    BY <1>1, <1>2, <1>3 DEF Plan
  <2>3. tool' \in BOOLEAN
    BY DEF CInv, Types, Raise, Effect, Switch, devices
  <2>4. pressing' \in BOOLEAN
    BY DEF CInv, Types, Raise, Effect, Switch, devices
  <2>5. gun' \in BOOLEAN
    BY DEF CInv, Types, Raise, Effect, Switch, devices
  <2>6. brush' \in BOOLEAN
    BY DEF CInv, Types, Raise, Effect, Switch, devices
  <2>7. tcp' \in {"default", "spray"}
    BY <1>6 DEF CInv, Types
  <2>8. belt' \in Int
    BY DEF CInv, Types, Raise, Effect, devices, Pass
  <2>9. raising' \in BOOLEAN
    BY <1>1
  <2> QED
    BY <1>4, <2>1, <2>2, <2>3, <2>4, <2>5, <2>6, <2>7, <2>8, <2>9 DEF Types
<1>8. gun' => Failed({"gunOff"})' \/ GunOn'
  <2>1. CASE InTry /\ job = "spray"
    <3>1. at' = Program.finally /\ Program.finally \in 2 .. Len(Calls)
      <4>1. at' = Program.finally
        BY <1>1, <2>1
      <4>2. Program.finally + 1 = Len(Calls) /\ Program.try = 2
        BY <1>3, <2>1 DEF GunPlan
      <4>3. Program.finally \in Nat /\ Program.try < Program.finally
        BY <1>3 DEF Plan
      <4>4. Program.finally \in 2 .. Len(Calls)
        BY <4>2, <4>3
      <4> QED
        BY <4>1, <4>4
    <3>2. Calls[Program.finally] = "gunOff"
      BY <1>3, <2>1 DEF GunPlan
    <3>3. GunOffAhead(at)'
      <4>1. at' \in at' .. Len(Calls') /\ Calls'[at'] = "gunOff"
            /\ \A k \in at' .. at' - 1 : FALSE
        BY <1>2, <3>1, <3>2
      <4> QED
        BY <4>1 DEF GunOffAhead, Ahead
    <3> QED
      BY <1>1, <2>1, <3>1, <3>3 DEF GunOn
  <2>2. CASE ~(InTry /\ job = "spray")
    <3>1. Op # "gunOn"
      BY <1>1, <1>3, <2>2 DEF GunPlan, InTry
    <3>2. GunOn => Op = "gunOff"
      <4> SUFFICES ASSUME GunOn, Op # "gunOff" PROVE FALSE
        OBVIOUS
      <4>1. at >= Program.finally
        <5>1. Program.try = 2 /\ Program.finally \in Nat /\ 1 < at /\ at \in Nat
          BY <1>1, <1>3 DEF GunOn, GunPlan, Plan
        <5>2. ~(Program.try <= at /\ at < Program.finally)
          BY <2>2 DEF InTry, GunOn
        <5> QED
          BY <5>1, <5>2
      <4>2. GunOffAhead(at + 1)
        BY <1>1, AheadOnward DEF GunOn, GunOffAhead
      <4>3. at # Program.finally
        BY <1>1, <1>3 DEF GunOn, GunPlan
      <4>4. at = Len(Calls)
        BY <1>1, <1>3, <4>1, <4>3 DEF GunOn, GunPlan, Plan
      <4> QED
        BY <1>1, <4>2, <4>4, NothingAhead DEF GunOffAhead
    <3>3. Op = "gunOff" => Failed({"gunOff"})'
      BY <1>4
    <3>4. Failed({"gunOff"}) => Failed({"gunOff"})'
      BY <1>4
    <3> QED
      BY <1>5, <3>1, <3>2, <3>3, <3>4 DEF CInv, Switches
  <2> QED
    BY <2>1, <2>2
<1>9. brush' => Failed({"brushOn", "brushOff"})' \/ BrushOn'
  <2>1. Failed({"brushOn", "brushOff"}) => Failed({"brushOn", "brushOff"})'
    BY <1>4
  <2>2. Op \in {"brushOn", "brushOff"} => Failed({"brushOn", "brushOff"})'
    BY <1>4
  <2>3. BrushOn => BrushOn' \/ Op = "brushOff"
    BY <1>1, <1>3 DEF BrushOn, ToolPlan, InTry
  <2> QED
    BY <1>5, <2>1, <2>2, <2>3 DEF CInv, Switches
<1>10. pressing' => Failed({"press", "lift"})' \/ Pressing'
  <2>1. Failed({"press", "lift"}) => Failed({"press", "lift"})'
    BY <1>4
  <2>2. Op \in {"press", "lift"} => Failed({"press", "lift"})'
    BY <1>4
  <2>3. Pressing => Pressing' \/ Op = "lift"
    BY <1>1, <1>3 DEF Pressing, ToolPlan, InTry
  <2> QED
    BY <1>5, <2>1, <2>2, <2>3 DEF CInv, Switches
<1>11. tool' => Failed({"toolOn", "press", "lift", "toolOff"})' \/ ToolOn'
  <2>1. Failed({"toolOn", "press", "lift", "toolOff"}) => Failed({"toolOn", "press", "lift", "toolOff"})'
    BY <1>4
  <2>2. Op \in {"toolOn", "press", "lift", "toolOff"} => Failed({"toolOn", "press", "lift", "toolOff"})'
    BY <1>4
  <2>3. ToolOn => ToolOn' \/ Op \in {"press", "lift", "toolOff"}
    BY <1>1, <1>3 DEF ToolOn, ToolPlan, InTry
  <2> QED
    BY <1>5, <2>1, <2>2, <2>3 DEF CInv, Switches
<1>12. tcp' = "spray" => Failed({"sprayTcp", "gunOff", "defaultTcp"})' \/ SprayFrame'
  <2>1. Failed({"sprayTcp", "gunOff", "defaultTcp"}) => Failed({"sprayTcp", "gunOff", "defaultTcp"})'
    BY <1>4
  <2>2. Op \in {"sprayTcp", "gunOff", "defaultTcp"} => Failed({"sprayTcp", "gunOff", "defaultTcp"})'
    BY <1>4
  <2>3. SprayFrame => SprayFrame' \/ Op \in {"gunOff", "defaultTcp"}
    <3> SUFFICES ASSUME SprayFrame PROVE SprayFrame' \/ Op \in {"gunOff", "defaultTcp"}
      OBVIOUS
    <3>1. /\ job = "spray" /\ Program.try = 2 /\ Program.finally + 1 = Len(Calls)
          /\ Calls[Program.finally] = "gunOff" /\ Calls[Len(Calls)] = "defaultTcp"
          /\ Program.finally \in Nat /\ 2 < Program.finally
      BY <1>3 DEF SprayFrame, GunPlan, Plan
    <3>2. CASE InTry
      <4>1. at' = Program.finally
        BY <1>1, <3>2
      <4>2. Program.finally \in 2 .. Len(Calls)
        BY <3>1
      <4> QED
        BY <1>1, <1>2, <3>1, <4>1, <4>2 DEF SprayFrame
    <3>3. CASE ~InTry
      <4>1. at \in 2 .. Len(Calls) /\ Len(Calls) \in Nat
        BY <1>1 DEF SprayFrame
      <4>2. ~(2 <= at /\ at < Program.finally)
        BY <3>1, <3>3 DEF InTry
      <4>3. at = Program.finally \/ at = Len(Calls)
        BY <3>1, <4>1, <4>2
      <4> QED
        BY <1>1, <3>1, <4>3
    <3> QED
      BY <3>2, <3>3
  <2> QED
    BY <1>6, <2>1, <2>2, <2>3 DEF CInv, Switches
<1>13. Switches'
  BY <1>8, <1>9, <1>10, <1>11, <1>12 DEF Switches
<1>14. Belt'
  BY <1>1, <1>2, <1>3, <1>4 DEF Belt, Plan
<1>15. Place'
  BY <1>4 DEF Place
<1> QED
  BY <1>7, <1>13, <1>14, <1>15 DEF CInv

\* Out of the composite: nothing of the program is left to give a reason.
LEMMA EndKeeps ==
  ASSUME CInv, End
  PROVE  CInv'
<1>1. /\ job # "none" /\ job' = "none" /\ at' = 1
      /\ UNCHANGED <<cube, raising, offset, failed>>
      /\ belt' = IF raising THEN 0 ELSE belt
      /\ cube \in BOOLEAN /\ Len(Calls) \in Nat /\ at = Len(Calls) + 1
  <2>1. Plan
    BY PlanOk DEF CInv, Types
  <2> QED
    BY <2>1 DEF End, Running, CInv, Types, Plan
<1>2. tool' = tool /\ pressing' = pressing /\ gun' = gun /\ brush' = brush /\ tcp' = tcp
  BY DEF End, devices
<1>3. \A op, bar : ~Ahead(at, op, bar)
  BY <1>1, NothingAhead
<1>4. belt' = 0
  BY <1>1, <1>3 DEF CInv, Belt, JoinAhead
<1>5. Types'
  <2>1. job' \in Jobs \cup {"none"} /\ cube' \in BOOLEAN /\ raising' \in BOOLEAN
        /\ belt' \in Int /\ offset' \in Int /\ failed' \in Seq(Ops \cup {"halt"})
    BY <1>1, <1>4 DEF CInv, Types
  <2>2. at' \in 1 .. Len(Calls)' + 1
    <3>1. Calls' = <<"pose">>
      BY <1>1 DEF Calls, Program, SafePose
    <3> QED
      BY <1>1, <3>1
  <2>3. tool' \in BOOLEAN /\ pressing' \in BOOLEAN
    BY <1>2, Zenon DEF CInv, Types
  <2>4. gun' \in BOOLEAN /\ brush' \in BOOLEAN
    BY <1>2, Zenon DEF CInv, Types
  <2>5. tcp' \in {"default", "spray"}
    BY <1>2 DEF CInv, Types
  <2> QED
    BY <2>1, <2>2, <2>3, <2>4, <2>5 DEF Types
<1>6. Switches'
  <2>1. ~GunOn /\ ~SprayFrame
    BY <1>1, <1>3 DEF GunOn, GunOffAhead, SprayFrame
  <2>2. ~BrushOn /\ ~Pressing /\ ~ToolOn
    BY <1>1, ToolPlanOk DEF BrushOn, Pressing, ToolOn, ToolPlan
  <2> QED
    BY <1>1, <1>2, <2>1, <2>2, FailedSame DEF CInv, Switches
<1>7. Belt'
  BY <1>1, <1>4 DEF Belt
<1>8. Place'
  <2> SUFFICES ASSUME failed = <<>> PROVE offset + belt' = 0
    BY <1>1 DEF Place
  <2>1. ~raising
    BY <1>1 DEF CInv, Belt
  <2>2. ~BackAhead(at)
    BY <1>3 DEF BackAhead
  <2> QED
    BY <1>1, <2>1, <2>2 DEF CInv, Place
<1> QED
  BY <1>5, <1>6, <1>7, <1>8 DEF CInv

\* What moves the belt, or the operator's hands, leaves program and devices alone.
LEMMA StayPut ==
  ASSUME CInv, UNCHANGED <<control, devices>>
  PROVE  /\ Calls' = Calls /\ Program' = Program
         /\ UNCHANGED <<job, cube, at, raising>>
         /\ \A op, bar : Ahead(at, op, bar)' <=> Ahead(at, op, bar)
         /\ GunOn' <=> GunOn
         /\ BrushOn' <=> BrushOn
         /\ Pressing' <=> Pressing
         /\ ToolOn' <=> ToolOn
         /\ SprayFrame' <=> SprayFrame
<1>1. UNCHANGED <<job, cube, at, raising>>
  BY DEF control
<1>2. Calls' = Calls /\ Program' = Program
  BY <1>1, SameProgram
<1>3. \A op, bar : Ahead(at, op, bar)' <=> Ahead(at, op, bar)
  BY <1>1, <1>2 DEF Ahead
<1>4. GunOn' <=> GunOn
  BY <1>1, <1>3 DEF GunOn, GunOffAhead
<1> QED
  BY <1>1, <1>2, <1>3, <1>4 DEF BrushOn, Pressing, ToolOn, SprayFrame

\* The types and the switches do not depend on where the belt is.
LEMMA SwitchesKept ==
  ASSUME CInv, UNCHANGED <<control, devices>>,
         belt' \in Int, offset' \in Int,
         \/ failed' = failed
         \/ failed' = Append(failed, "halt")
  PROVE  /\ Types' /\ Switches'
         /\ failed' = failed \/ failed' # <<>>
<1>1. /\ Calls' = Calls /\ UNCHANGED <<job, cube, at, raising>>
      /\ tool' = tool /\ pressing' = pressing /\ gun' = gun /\ brush' = brush /\ tcp' = tcp
  BY StayPut DEF devices
<1>2. /\ failed' \in Seq(Ops \cup {"halt"}) /\ (failed' = failed \/ failed' # <<>>)
      /\ \A ops : Failed(ops) => Failed(ops)'
  <2>1. CASE failed' = failed
    BY <2>1, FailedSame DEF CInv, Types
  <2>2. CASE failed' = Append(failed, "halt")
    <3>1. "halt" \in Ops \cup {"halt"}
      OBVIOUS
    <3> QED
      BY <2>2, <3>1, FailedGrows DEF CInv, Types
  <2> QED
    BY <2>1, <2>2
<1>3. Types'
  <2>1. job' \in Jobs \cup {"none"} /\ cube' \in BOOLEAN /\ raising' \in BOOLEAN
    BY <1>1 DEF CInv, Types
  <2>2. at' \in 1 .. Len(Calls)' + 1
    BY <1>1 DEF CInv, Types
  <2>3. tool' \in BOOLEAN /\ pressing' \in BOOLEAN
    BY <1>1, Zenon DEF CInv, Types
  <2>4. gun' \in BOOLEAN /\ brush' \in BOOLEAN
    BY <1>1, Zenon DEF CInv, Types
  <2>5. tcp' \in {"default", "spray"}
    BY <1>1 DEF CInv, Types
  <2> QED
    BY <1>2, <2>1, <2>2, <2>3, <2>4, <2>5 DEF Types
<1>4. Switches'
  BY <1>1, <1>2, StayPut DEF CInv, Switches
<1> QED
  BY <1>2, <1>3, <1>4

\* A halt, a step of the belt, the operator: the duet keeps its place.
LEMMA BeltKeeps ==
  ASSUME CInv, Halt \/ BeltMoves \/ Realign
  PROVE  CInv'
<1>1. UNCHANGED <<control, devices>>
  BY DEF Halt, BeltMoves, Realign
<1>2. belt \in Int /\ offset \in Int /\ belt' \in Int /\ offset' \in Int
  BY DEF CInv, Types, Halt, BeltMoves, Realign
<1>3. failed' = failed \/ failed' = Append(failed, "halt")
  BY DEF Halt, BeltMoves, Realign
<1>4. Types' /\ Switches' /\ (failed' = failed \/ failed' # <<>>)
  BY <1>1, <1>2, <1>3, SwitchesKept
<1>5. Program' = Program /\ UNCHANGED <<job, at, raising>>
  BY <1>1, StayPut
<1>6. (JoinAhead(at)' <=> JoinAhead(at)) /\ (BackAhead(at)' <=> BackAhead(at))
  BY <1>1, StayPut DEF JoinAhead, BackAhead
<1>7. belt' # 0 => belt # 0
  BY DEF Halt, BeltMoves, Realign
<1>8. Belt'
  BY <1>4, <1>5, <1>6, <1>7 DEF CInv, Belt
<1>9. Place'
  <2> SUFFICES ASSUME failed' = <<>> PROVE Place'
    BY DEF Place
  <2>1. failed' = failed /\ ~Halt
    <3>1. failed' = failed
      BY <1>4
    <3>2. failed # Append(failed, "halt")
      BY DEF CInv, Types
    <3> QED
      BY <3>1, <3>2 DEF Halt
  <2>2. CASE BeltMoves
    <3>1. offset' + belt' = offset + belt
      BY <1>2, <2>2 DEF BeltMoves
    <3> QED
      BY <1>5, <1>6, <2>1, <3>1 DEF CInv, Place
  <2>3. CASE Realign
    BY <1>5, <1>6, <2>1, <2>3 DEF CInv, Place, Realign
  <2> QED
    BY <2>1, <2>2, <2>3
<1> QED
  BY <1>4, <1>8, <1>9 DEF CInv

-----------------------------------------------------------------------------
\* Every step keeps the invariant.
LEMMA NextKeeps ==
  ASSUME CInv, [Next]_vars
  PROVE  CInv'
<1>1. ASSUME NEW j \in {"sand", "clean", "spray", "safe"}, Begin(j)
      PROVE  CInv'
  BY <1>1, BeginKeeps DEF Jobs
<1>2. CASE Return
  BY <1>2, ReturnKeeps
<1>3. CASE Raise
  BY <1>3, RaiseKeeps
<1>4. CASE End
  BY <1>4, EndKeeps
<1>5. CASE Halt \/ BeltMoves \/ Realign
  BY <1>5, BeltKeeps
<1>6. CASE UNCHANGED vars
  <2>1. UNCHANGED <<control, devices>> /\ belt' = belt /\ offset' = offset /\ failed' = failed
    BY <1>6 DEF vars
  <2>2. Types' /\ Switches'
    BY <2>1, SwitchesKept DEF CInv, Types
  <2>3. Belt' /\ Place'
    BY <2>1, StayPut DEF CInv, Belt, Place, JoinAhead, BackAhead
  <2> QED
    BY <2>2, <2>3 DEF CInv
<1> QED
  BY <1>1, <1>2, <1>3, <1>4, <1>5, <1>6 DEF Next

\* Nothing runs at first and nothing is on.
LEMMA InitKeeps ==
  ASSUME Init
  PROVE  CInv
<1>1. Calls = <<"pose">>
  BY DEF Init, Calls, Program, SafePose
<1>2. Types
  <2>1. at \in 1 .. Len(Calls) + 1
    BY <1>1 DEF Init
  <2>2. failed \in Seq(Ops \cup {"halt"})
    BY DEF Init
  <2>3. tool \in BOOLEAN /\ pressing \in BOOLEAN /\ gun \in BOOLEAN /\ brush \in BOOLEAN
    BY DEF Init
  <2>4. job \in Jobs \cup {"none"} /\ cube \in BOOLEAN /\ raising \in BOOLEAN
    BY DEF Init, Jobs
  <2>5. tcp \in {"default", "spray"} /\ belt \in Int /\ offset \in Int
    BY DEF Init
  <2> QED
    BY <2>1, <2>2, <2>3, <2>4, <2>5 DEF Types
<1> QED
  BY <1>2 DEF Init, CInv, Switches, Belt, Place

(***************************************************************************)
(* Theorem: the invariant holds in every reachable state.                   *)
(***************************************************************************)
THEOREM CompositesInvariant == Spec => []CInv
<1>1. Init => CInv
  BY InitKeeps
<1>2. CInv /\ [Next]_vars => CInv'
  BY NextKeeps
<1> QED
  BY <1>1, <1>2, PTL DEF Spec

(***************************************************************************)
(* Theorem: whatever calls fail, before or after their effect, those of the *)
(* finally included, and wherever the belt is halted, a composite that is   *)
(* over has left nothing on that a failed call does not account for.        *)
(***************************************************************************)
THEOREM NothingLeftOn == Spec => []OffOnExit
<1>1. CInv => OffOnExit
  BY DEF CInv, Switches, OffOnExit, GunOn, BrushOn, Pressing, ToolOn, SprayFrame
<1> QED
  BY <1>1, CompositesInvariant, PTL

(***************************************************************************)
(* Theorem: the arm never sweeps while the belt moves, the gun is off while *)
(* the arm travels unless switching it off failed, and an undisturbed       *)
(* composite leaves the belt where it found it.                             *)
(***************************************************************************)
THEOREM DuetInStep == Spec => []DuetKeepsStep
<1>1. ASSUME CInv
      PROVE  DuetKeepsStep
  <2>1. Plan /\ BeltPlan
    BY <1>1, PlanAlways DEF CInv, Types
  <2>2. ASSUME Running, Op \in Sweeps
        PROVE  belt = 0
    <3>1. /\ job # "none" /\ at \in 1 .. Len(Calls) /\ Calls[at] \in Sweeps
          /\ at < Program.finally
      BY <1>1, <2>1, <2>2 DEF Running, Op, CInv, Types, Plan, BeltPlan
    <3>2. ~raising
      BY <1>1, <2>1, <3>1 DEF CInv, Belt, Plan
    <3>3. ~JoinAhead(at)
      <4> SUFFICES ASSUME JoinAhead(at) PROVE FALSE
        OBVIOUS
      <4>1. Calls[at] # "join" /\ at \in 1 .. Len(Calls) + 1 /\ Len(Calls) \in Nat
        BY <2>1, <3>1 DEF Sweeps, Plan
      <4>2. Calls[at] \notin Strokes \cup Sweeps
        BY <4>1, AheadOnward DEF JoinAhead
      <4> QED
        BY <3>1, <4>2
    <3> QED
      BY <1>1, <3>1, <3>2, <3>3 DEF CInv, Belt
  <2>3. ASSUME Running, Op = "pose", gun
        PROVE  Failed({"gunOff"})
    <3>1. Calls[at] = "pose" /\ at \in 1 .. Len(Calls) + 1 /\ Len(Calls) \in Nat
      BY <1>1, <2>1, <2>3 DEF Running, Op, CInv, Types, Plan
    <3>2. GunOffAhead(at) => Calls[at] \notin {"gunOn", "pose"}
      BY <3>1, AheadOnward DEF GunOffAhead
    <3> QED
      BY <1>1, <2>3, <3>1, <3>2 DEF CInv, Switches, GunOn
  <2>4. ASSUME job = "none", failed = <<>>
        PROVE  belt = 0 /\ offset = 0
    BY <1>1, <2>4 DEF CInv, Belt, Place, Types
  <2> QED
    BY <2>2, <2>3, <2>4 DEF DuetKeepsStep, Sweeps
<1> QED
  BY <1>1, CompositesInvariant, PTL

=============================================================================
