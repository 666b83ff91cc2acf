---------------------------- MODULE MCScheduler ----------------------------
(* Instances of Scheduler for TLC. *)
EXTENDS Scheduler

\* Bound on the exploration: the first state after a switch inside a window is
\* checked, what follows is not explored.  The properties of the runs that use
\* it claim nothing there.
Unraced == ~raced

\* Leaves out the behaviours in which two terminals already share a slot or a
\* parent is already lost, so that a run shows one race and not a second one.
NotYetCorrupt == ExclusiveSlotsAlways /\ ParentRecorded

=============================================================================
