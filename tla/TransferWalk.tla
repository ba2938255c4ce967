---------------------------- MODULE TransferWalk ----------------------------
(***************************************************************************)
(* The two loops of the code over a transition's moves: the destination     *)
(* check of guards.departure_blocked and the book-keeping of                *)
(* machine._apply_moves. Machine states both over the set of moves, with no *)
(* order; in every state of Steady, for every subset of the moves and every *)
(* sensor picture, the ordered loops compute the same.                      *)
(***************************************************************************)
EXTENDS Steady

\* The n-th move of the beat's transition, in the order the code lists them.
Move(n) == Transitions(beat)[n]

Listed(m, n) == Move(n)[1] \in m

-----------------------------------------------------------------------------
\* One turn of the guard's loop over its working set; only the moves of m are listed.
GuardTurn(m, w, n) ==
  LET src == Move(n)[1]
      dst == Move(n)[2]
  IN  IF Listed(m, n)
      THEN [free |-> w.free /\ (dst = "OUT" \/ dst \notin w.occupied \ {src}),
            occupied |-> (w.occupied \ {src}) \cup ({dst} \ {"OUT"})]
      ELSE w

GuardTurns(m, seen) ==
  LET w[n \in 0 .. Len(Transitions(beat))] ==
        IF n = 0 THEN [free |-> TRUE, occupied |-> seen] ELSE GuardTurn(m, w[n - 1], n)
  IN  w

GuardWalk(m, seen) == GuardTurns(m, seen)[Len(Transitions(beat))]

-----------------------------------------------------------------------------
\* One turn of _apply_moves: pop the source, then drop or place the part.
Popped(w, src) ==
  IF src # "IN" THEN w.books[src] ELSE IF w.infed < declared THEN w.infed + 1 ELSE NoPart

ApplyTurn(m, w, n) ==
  LET src  == Move(n)[1]
      dst  == Move(n)[2]
      part == Popped(w, src)
      left == IF src = "IN" THEN w.books ELSE [w.books EXCEPT ![src] = NoPart]
      move == part # NoPart
  IN  IF Listed(m, n)
      THEN [infed |-> IF src = "IN" /\ move THEN part ELSE w.infed,
            books |-> IF move /\ dst # "OUT" THEN [left EXCEPT ![dst] = part] ELSE left,
            outfed |-> IF move /\ dst = "OUT" THEN w.outfed \cup {part} ELSE w.outfed]
      ELSE w

ApplyTurns(m) ==
  LET w[n \in 0 .. Len(Transitions(beat))] ==
        IF n = 0 THEN [infed |-> infed, books |-> occ, outfed |-> shipped]
        ELSE ApplyTurn(m, w[n - 1], n)
  IN  w

ApplyWalk(m) == ApplyTurns(m)[Len(Transitions(beat))]

-----------------------------------------------------------------------------
(***************************************************************************)
(* "`moves` is ordered vacate-before-fill precisely so this walk is valid"  *)
(* (guards.py). The walk with its working set finds every destination free  *)
(* exactly when each one is sensed empty or vacated by a move of the same   *)
(* transition; and moving the occupants one at a time in the listed order   *)
(* gives the books that moving them all at once gives: no part overwrites   *)
(* one that has not yet left, and none is carried twice.                    *)
(***************************************************************************)
WalkMatchesSets ==
  \A m \in SUBSET Sources(beat) :
    /\ \A seen \in SUBSET Tracked :
         GuardWalk(m, seen).free <=> DestinationsFree(m, [occupied |-> seen])
    /\ ApplyWalk(m) = [infed |-> MovedInfed(m), books |-> Moved(m), outfed |-> MovedShipped(m)]
=============================================================================
