------------------------- MODULE MCRecvCongestionCtrl -------------------------
(***************************************************************************)
(* Five transport numbers, messages of two arrivals and loss reports after *)
(* a distance of two for RecvCongestionCtrl, and the loop that releases    *)
(* arrivals as the code writes it, to compare Left with.                   *)
(***************************************************************************)
EXTENDS RecvCongestionCtrl

RECURSIVE Released(_, _, _, _)

(* What may be left of S when the iterator is at s and may still erase n   *)
(* of the elements E: an erased element is skipped over, and the next one  *)
(* too; past the end the iterator returns to one of the last two.          *)
Released(S, s, E, n) ==
    LET later == { t \in S : t > s }
        rest == S \ {s}
        lastTwo == { t \in rest : Cardinality({ u \in rest : u > t }) <= 1 }
    IN  IF s \notin E \/ n = 0
        THEN IF later = {} THEN {S} ELSE Released(S, Min(later), E, n)
        ELSE IF Cardinality(later) > 1
             THEN Released(rest, Min(later \ {Min(later)}), E, n - 1)
        ELSE IF later # {} \/ rest = {} THEN {rest}
        ELSE UNION { Released(rest, t, E, n - 1) : t \in lastTwo }

ASSUME LoopIsClosed ==
    \A S \in SUBSET (0 .. 6) \ {{}} : \A E \in SUBSET S :
        Left(S, E) = Released(S, Min(S), E, MaxIds)

=============================================================================
