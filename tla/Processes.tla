----------------------------- MODULE Processes -----------------------------
(***************************************************************************)
(* What execute, halt and the opening of terminals promise together: each  *)
(* terminal holds a stack of programs, a program takes the first free slot *)
(* and goes on top of its caller, and only the top of a stack ever leaves. *)
(* Once the promise is broken nothing more is promised.                    *)
(***************************************************************************)
EXTENDS Integers

CONSTANTS N,    \* slots 1..N
          T     \* terminals 0..T-1

Slots == 1..N
Terminals == 0..(T - 1)
Nowhere == -1

VARIABLES place,    \* terminal of the program in each slot, or Nowhere
          depth,    \* its height in that terminal's stack, from 1
          broken    \* has the promise been broken?

pvars == <<place, depth, broken>>

\* k is the height of terminal t's stack.
Height(t, k) ==
    /\ \A s \in Slots : place[s] = t => depth[s] <= k
    /\ k = 0 \/ \E s \in Slots : place[s] = t /\ depth[s] = k

FirstFree(s, free) == s \in free /\ \A u \in free : s <= u
FreeSlots == {s \in Slots : place[s] = Nowhere}

PInit == /\ place \in [Slots -> {Nowhere, 0}]
         /\ depth = [s \in Slots |-> IF place[s] = 0 THEN 1 ELSE 0]
         /\ \A s \in Slots : place[s] = 0 => s = 1
         /\ broken = FALSE

\* A program starts on top of terminal t.
Start(t) ==
    /\ ~broken
    /\ \E s \in Slots, k \in 0..N :
          /\ FirstFree(s, FreeSlots) /\ Height(t, k)
          /\ place' = [place EXCEPT ![s] = t]
          /\ depth' = [depth EXCEPT ![s] = k + 1]
    /\ UNCHANGED broken

\* The program on top of a stack leaves.
Exit(s) ==
    /\ ~broken
    /\ place[s] # Nowhere /\ Height(place[s], depth[s])
    /\ place' = [place EXCEPT ![s] = Nowhere]
    /\ depth' = [depth EXCEPT ![s] = 0]
    /\ UNCHANGED broken

Break == /\ ~broken /\ broken' = TRUE
         /\ place' = [s \in Slots |-> Nowhere] /\ depth' = [s \in Slots |-> 0]

PNext == \/ \E t \in Terminals : Start(t)
         \/ \E s \in Slots : Exit(s)
         \/ Break

PSpec == PInit /\ [][PNext]_pvars

=============================================================================
