---------------------------- MODULE PartJourney ----------------------------
(***************************************************************************)
(* What the line promises each part, with no beats, sensors or faults in    *)
(* sight: declared in whole pairs, it enters, gets coat 1, dries, gets      *)
(* coat 2, dries, and leaves. Nothing is skipped or undone; no part passes  *)
(* another, in place or in progress; one part at a time is coated, while    *)
(* nobody enters or leaves; and at most Room neighbours are on the line.    *)
(***************************************************************************)
EXTENDS Integers

CONSTANTS
  MaxParts,
  Room        \* the places a part can stand on the line

VARIABLE stage

Parts == 1 .. MaxParts

New    == 0
Queued == 1
Raw    == 2
Wet1   == 3
Dry1   == 4
Wet2   == 5
Dry2   == 6
Out    == 7

NoOvertaking == \A p, q \in Parts : p < q => stage[p] >= stage[q]

HasRoom ==
  \A p, q \in Parts : stage[p] \in Raw .. Dry2 /\ stage[q] \in Raw .. Dry2 => q - p < Room

Init == stage = [p \in Parts |-> New]

\* The first n parts are declared by now: whole pairs, lead and trail.
Declare(n) ==
  /\ n % 2 = 0
  /\ stage' = [p \in Parts |-> IF p <= n /\ stage[p] = New THEN Queued ELSE stage[p]]

Goes(p) == stage'[p] # stage[p]

\* Some parts go on by one stage, each as far as the others let it.
Travel ==
  /\ stage' = [p \in Parts |-> stage'[p]]
  /\ \A p \in Parts : Goes(p) => stage[p] \notin {New, Out} /\ stage'[p] = stage[p] + 1
  /\ \A p, q \in Parts : Goes(p) /\ Goes(q) /\ p # q =>
       /\ stage[p] \in {Raw, Dry1} => stage[q] \in {Wet1, Wet2}
       /\ stage[p] # stage[q] \/ stage[p] \in {Wet1, Wet2}
  /\ NoOvertaking'
  /\ HasRoom'

Next == (\E n \in 0 .. MaxParts : Declare(n)) \/ Travel

Spec == Init /\ [][Next]_stage
=============================================================================
