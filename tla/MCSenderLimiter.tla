--------------------------- MODULE MCSenderLimiter ---------------------------
(***************************************************************************)
(* A ring of a few slots for SenderLimiter, and the loop of                *)
(* __limiterRemove as the code writes it, to compare Remaining with.       *)
(***************************************************************************)
EXTENDS SenderLimiter, Sequences

(* winBytes after the loop has passed slots that hold these bytes.         *)
RECURSIVE LoopLeft(_, _)
LoopLeft(total, passed) ==
    IF passed = <<>> THEN total
    ELSE LoopLeft(IF total >= Head(passed) THEN Head(passed) ELSE 0, Tail(passed))

(* Remaining, without the lap, over such a sequence.                       *)
ClosedLeft(total, passed) ==
    LET n == Len(passed) IN
    IF n = 0 THEN total
    ELSE IF /\ \A i \in 1 .. n : passed[i] <= total
            /\ \A i, j \in 1 .. n : i <= j => passed[j] <= passed[i]
         THEN passed[n] ELSE 0

ASSUME LoopIsClosed ==
    \A n \in 0 .. 4, total \in 0 .. 3 :
        \A passed \in [1 .. n -> 0 .. 3] :
            LoopLeft(total, passed) = ClosedLeft(total, passed)

=============================================================================
