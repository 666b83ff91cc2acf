---------------------------- MODULE MCLineBuffer ----------------------------
(* Instances of LineBuffer for TLC. *)
EXTENDS LineBuffer

\* Bound on the exploration: nothing is claimed once input is lost.
NotLost == ~lost

=============================================================================
