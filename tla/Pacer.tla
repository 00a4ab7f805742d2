-------------------------------- MODULE Pacer --------------------------------
(***************************************************************************)
(* What a pacer promises: it holds packets, adds any packet at most once   *)
(* while it holds it, and lets packets go from the lowest number upwards.  *)
(* When and how many is the business of a rate, which this level hides.    *)
(***************************************************************************)
EXTENDS Integers

CONSTANT Seqs           \* packet numbers, a set of natural numbers

VARIABLE pending        \* packets held and not yet let go

PacerInit == pending = {}

Accept(S) == pending' = pending \union S

(* Lower numbers go first.                                                 *)
LetGo(S) ==
    /\ S \subseteq pending
    /\ \A s \in S, q \in pending : q < s => q \in S
    /\ pending' = pending \ S

PacerNext ==
    \/ \E S \in SUBSET Seqs : Accept(S)
    \/ \E S \in SUBSET pending : LetGo(S)

PacerSpec == PacerInit /\ [][PacerNext]_pending

=============================================================================
