---------------------------- MODULE ZoneContract ----------------------------
(***************************************************************************)
(* What a zone promises the code that moves it (devices/clearcore.py,       *)
(* "HANDSHAKE MODEL"): a move asked for begins once, as asked, and the call *)
(* returns well only after the belt has stopped. A halt, a watchdog trip or *)
(* a restart disturbs the zone: until the next move begins, the belt may    *)
(* stop early, run on a request nobody waits for, and let a call return too *)
(* soon.                                                                    *)
(***************************************************************************)
CONSTANTS
  Calls,      \* the moves that can be asked for
  NoMove

VARIABLES
  asked,      \* the move of the call in progress, or NoMove
  begun,      \* that move has begun
  belt,       \* the move the belt executes, or NoMove
  outcome,    \* "none", "ok" or "error": how the last call ended
  disturbed

zone == <<asked, begun, belt, outcome, disturbed>>

Init == asked = NoMove /\ begun = FALSE /\ belt = NoMove /\ outcome = "none" /\ disturbed = FALSE

Ask(c) ==
  /\ asked = NoMove
  /\ asked' = c /\ begun' = FALSE /\ outcome' = "none"
  /\ UNCHANGED <<belt, disturbed>>

Begin ==
  /\ asked # NoMove /\ ~begun
  /\ belt' = asked /\ begun' = TRUE /\ disturbed' = FALSE
  /\ UNCHANGED <<asked, outcome>>

Stop ==
  /\ belt # NoMove
  /\ belt' = NoMove
  /\ UNCHANGED <<asked, begun, outcome, disturbed>>

Return ==
  /\ asked # NoMove
  /\ disturbed \/ (begun /\ belt = NoMove)
  /\ asked' = NoMove /\ outcome' = "ok"
  /\ UNCHANGED <<begun, belt, disturbed>>

\* A move that does not end in time, or one that a disturbance kept from beginning.
GiveUp ==
  /\ asked # NoMove
  /\ begun \/ disturbed
  /\ asked' = NoMove /\ outcome' = "error"
  /\ UNCHANGED <<begun, belt, disturbed>>

Disturb ==
  /\ disturbed' = TRUE
  /\ belt' \in {belt, NoMove}
  /\ UNCHANGED <<asked, begun, outcome>>

\* The caller dies and is started again.
Abandon ==
  /\ asked' = NoMove /\ begun' = FALSE /\ outcome' = "none" /\ disturbed' = TRUE
  /\ UNCHANGED belt

\* The request of an earlier, disturbed call is begun after all.
Stray ==
  /\ disturbed
  /\ belt' \in [kind : {"until", "mm"}, down : BOOLEAN,
                arg : {"none", "rising", "falling", "far"}]
  /\ UNCHANGED <<asked, begun, outcome, disturbed>>

Next == (\E c \in Calls : Ask(c)) \/ Begin \/ Stop \/ Return \/ GiveUp \/ Disturb \/ Abandon \/ Stray

Spec == Init /\ [][Next]_zone
=============================================================================
