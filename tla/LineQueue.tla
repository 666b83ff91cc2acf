----------------------------- MODULE LineQueue -----------------------------
(***************************************************************************)
(* What a terminal's input promises: a bounded queue of characters that    *)
(* hands out whole lines, in the order they were typed, after the editing  *)
(* of the line being typed.  Once input is lost nothing more is promised.  *)
(***************************************************************************)
EXTENDS Naturals, Sequences, SequencesExt

CONSTANTS N,    \* capacity
          NL    \* the character that ends a line

VARIABLES pending,   \* characters typed and not yet read
          line,      \* the last line handed out
          lost       \* has input been lost?

qvars == <<pending, line, lost>>

QInit == pending = <<>> /\ line = <<>> /\ lost = FALSE

\* Characters are added at the end, within the capacity.
Put == /\ ~lost /\ IsPrefix(pending, pending') /\ Len(pending') <= N
       /\ UNCHANGED <<line, lost>>

\* The last character of an unfinished line is taken back.
Erase == /\ ~lost /\ pending # <<>> /\ Last(pending) # NL
         /\ pending' = Front(pending)
         /\ UNCHANGED <<line, lost>>

\* The whole input is dropped.
Clear == ~lost /\ pending' = <<>> /\ UNCHANGED <<line, lost>>

\* The oldest line is handed out, complete.
Deliver == /\ ~lost
           /\ \E i \in 1..Len(pending) :
                 /\ pending[i] = NL
                 /\ \A j \in 1..(i - 1) : pending[j] # NL
                 /\ line' = SubSeq(pending, 1, i)
                 /\ pending' = SubSeq(pending, i + 1, Len(pending))
           /\ UNCHANGED lost

Lose == ~lost /\ lost' = TRUE /\ pending' = <<>> /\ line' = <<>>

QNext == Put \/ Erase \/ Clear \/ Deliver \/ Lose

QSpec == QInit /\ [][QNext]_qvars

=============================================================================
