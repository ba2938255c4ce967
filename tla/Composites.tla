----------------------------- MODULE Composites -----------------------------
(***************************************************************************)
(* The robot composites: sanding, spraying and gun cleaning as duets of     *)
(* robot and Z2 belt, run one at a time by the worker (process/sander.py,   *)
(* sprayer.py, gun_clean.py, robot_ur.py over devices/ur.py).               *)
(*                                                                         *)
(* A composite is a sequence of device calls with a try block and its       *)
(* finally. Any call may fail, after or before it took effect, those of the *)
(* finally included; another thread may idle the zone at any moment. How    *)
(* far and how fast a call moves is left out: the belt makes one pass, in   *)
(* two steps, and the arm one sweep. The F1 fan around the burst is Line's. *)
(***************************************************************************)
EXTENDS Integers, Sequences

CONSTANT MaxTroubles   \* failing calls and halts

ASSUME CompositesAssumption == MaxTroubles \in Nat

Pass == 2              \* belt steps in a pass

VARIABLES
  job,       \* the composite in progress, or "none"
  cube,      \* the part at O is a cube; a browser gets the vertical raster only
  at,        \* the next call
  raising,   \* an exception is on its way out
  tool, pressing, gun, brush,   \* sander, force mode, spray gun, gun brush
  tcp,       \* the tool frame
  belt,      \* what is left of the pass under way, downstream positive
  offset,    \* where the belt stands, relative to the part's place at O
  failed     \* history: the calls that have failed, and halts
devices == <<tool, pressing, gun, brush, tcp>>
control == <<job, cube, at, raising>>
vars == <<control, devices, belt, offset, failed>>

-----------------------------------------------------------------------------
\* A composite: its calls, the first of its try block, the first of the finally after it.
Sand_NoFinally ==
  [calls   |-> <<"pose", "touch", "zero", "toolOn", "press",
                 "out", "join", "rise", "back", "join", "lower", "lift", "toolOff">>,
   try     |-> 6, finally |-> 14]

\* The duet: belt axis, robot axis, belt axis, robot axis.
Sand ==
  [calls   |-> <<"pose", "touch", "zero", "toolOn", "press",
                 "out", "join", "rise", "back", "join", "lower", "lift", "toolOff">>,
   try     |-> 6, finally |-> 12]

Clean ==
  [calls   |-> <<"defaultTcp", "pose", "touch", "brushOn", "hold", "brushOff">>,
   try     |-> 5, finally |-> 6]

\* A browser gets the vertical raster, one duet.
SprayBrowser ==
  [calls   |-> <<"sprayTcp", "pose", "standoff", "gunOn",
                 "out", "join", "rise", "back", "join", "lower", "gunOff", "pose",
                 "gunOff", "defaultTcp">>,
   try     |-> 2, finally |-> 13]

SprayCube_NoJoin ==
  [calls   |-> <<"sprayTcp", "pose", "gunOn",
                 "out", "join", "rise", "back", "join", "lower", "gunOff", "pose",
                 "pose", "gunOn", "out", "join", "gunOff", "pose", "gunOn", "rise", "gunOff",
                 "back", "pose", "gunOn", "lower", "gunOff", "join",
                 "gunOff", "defaultTcp">>,
   try     |-> 2, finally |-> 27]

\* A cube the raster and then a pass along the waypoints: three strokes, the belt
\* returning while the arm moves to the third.
SprayCube ==
  [calls   |-> <<"sprayTcp", "pose", "gunOn",
                 "out", "join", "rise", "back", "join", "lower", "gunOff", "pose",
                 "pose", "gunOn", "out", "join", "gunOff", "pose", "gunOn", "rise", "gunOff",
                 "back", "pose", "join", "gunOn", "lower", "gunOff",
                 "gunOff", "defaultTcp">>,
   try     |-> 2, finally |-> 27]

SafePose == [calls |-> <<"pose">>, try |-> 1, finally |-> 2]

Program == CASE job = "sand"  -> Sand
             [] job = "clean" -> Clean
             [] job = "spray" -> IF cube THEN SprayCube ELSE SprayBrowser
             [] OTHER         -> SafePose

Calls   == Program.calls
InTry   == Program.try <= at /\ at < Program.finally
Running == job # "none" /\ at <= Len(Calls)
Op      == Calls[at]

-----------------------------------------------------------------------------
\* What the drivers do (URClient, ClearCoreClient.set_brush, move_zone_mm).
Switch(var, on, off) == IF Op = on THEN TRUE ELSE IF Op = off THEN FALSE ELSE var

Effect ==
  /\ tool'     = Switch(tool, "toolOn", "toolOff")
  /\ pressing' = Switch(pressing, "press", "lift")
  /\ gun'      = Switch(gun, "gunOn", "gunOff")
  /\ brush'    = Switch(brush, "brushOn", "brushOff")
  /\ tcp'      = CASE Op = "sprayTcp" -> "spray" [] Op = "defaultTcp" -> "default"
                   [] OTHER -> tcp
  /\ belt'     = CASE Op = "out" -> Pass [] Op = "back" -> -Pass [] OTHER -> belt

Begin(j) ==
  /\ job = "none"
  /\ job' = j /\ at' = 1 /\ raising' = FALSE
  /\ cube' \in BOOLEAN
  /\ UNCHANGED <<devices, belt, offset, failed>>

\* A call returns; wait_zone_ready only once the belt is at rest.
Return ==
  /\ Running
  /\ Op = "join" => belt = 0
  /\ Effect
  /\ at' = at + 1
  /\ UNCHANGED <<job, cube, raising, offset, failed>>

\* A call raises: the finally, if this was inside the try, and out.
Raise ==
  /\ Running /\ Len(failed) < MaxTroubles
  /\ Effect \/ UNCHANGED <<devices, belt>>
  /\ raising' = TRUE
  /\ at' = IF InTry THEN Program.finally ELSE Len(Calls) + 1
  /\ failed' = Append(failed, Op)
  /\ UNCHANGED <<job, cube, offset>>

\* Out of the composite. After an exception the worker idles the zones.
End ==
  /\ job # "none" /\ ~Running
  /\ job' = "none" /\ at' = 1
  /\ belt' = IF raising THEN 0 ELSE belt
  /\ UNCHANGED <<cube, raising, devices, offset, failed>>

\* A halt from another thread: the belt stops where it is, and reads READY.
Halt ==
  /\ belt # 0 /\ Len(failed) < MaxTroubles
  /\ belt' = 0 /\ failed' = Append(failed, "halt")
  /\ UNCHANGED <<control, devices, offset>>

BeltMoves ==
  /\ belt # 0
  /\ LET step == IF belt > 0 THEN 1 ELSE -1
     IN belt' = belt - step /\ offset' = offset + step
  /\ UNCHANGED <<control, devices, failed>>

\* The operator puts the parts back where they belong before acknowledging.
Realign ==
  /\ job = "none" /\ belt = 0 /\ offset # 0
  /\ offset' = 0
  /\ UNCHANGED <<control, devices, belt, failed>>

-----------------------------------------------------------------------------
Init ==
  /\ job = "none" /\ cube = TRUE /\ at = 1 /\ raising = FALSE
  /\ tool = FALSE /\ pressing = FALSE /\ gun = FALSE /\ brush = FALSE /\ tcp = "default"
  /\ belt = 0 /\ offset = 0
  /\ failed = <<>>

Next ==
  \/ \E j \in {"sand", "clean", "spray", "safe"} : Begin(j)
  \/ Return \/ Raise \/ End
  \/ Halt \/ BeltMoves \/ Realign

Spec == Init /\ [][Next]_vars

-----------------------------------------------------------------------------
Failed(ops) == \E i \in 1 .. Len(failed) : failed[i] \in ops

(***************************************************************************)
(* "On ANY exit": whatever call failed, no composite leaves sander, force   *)
(* mode, gun, brush or spray frame on, unless one of the calls that switch  *)
(* that very thing failed. The sander is the exception: it goes on before   *)
(* the try, and off after the call that ends force mode.                    *)
(***************************************************************************)
OffOnExit ==
  job = "none" =>
    /\ gun      => Failed({"gunOff"})
    /\ brush    => Failed({"brushOn", "brushOff"})
    /\ pressing => Failed({"press", "lift"})
    /\ tool     => Failed({"toolOn", "press", "lift", "toolOff"})
    /\ tcp = "spray" => Failed({"sprayTcp", "gunOff", "defaultTcp"})

(***************************************************************************)
(* The duet keeps step, through the overlap of the third stroke and through *)
(* halts: the arm sweeps only while the belt is at rest, no paint flows     *)
(* while the arm travels between waypoints, and a composite that nothing    *)
(* disturbed brings belt and part back to where it found them.              *)
(***************************************************************************)
DuetKeepsStep ==
  /\ Running /\ Op \in {"rise", "lower"} => belt = 0
  /\ Running /\ Op = "pose" /\ gun => Failed({"gunOff"})
  /\ job = "none" /\ failed = <<>> => belt = 0 /\ offset = 0
=============================================================================
