------------------------------- MODULE MCFish -------------------------------
(* A screen of two rows of two characters and an array of three elements, so   *)
(* that frames run off the screen and the array runs out.                    *)
EXTENDS Fish

(* Texts of at most three characters: lines that end early, are empty or     *)
(* have no line feed; and one whose last line is at a place that 16 bits     *)
(* (here 2 * HALF) cannot hold.                                              *)
SomeContents == UNION {[1..k -> {"a", "sp", "nl"}] : k \in 0..2} \cup [1..3 -> {"a", "nl"}]
                  \cup {<<"nl", "nl", "nl", "a">>}

Block(l, on, off) == [Free EXCEPT !.location = l, !.on_char = "I", !.off_char = "M",
                                  !.on_length = on, !.off_length = off]
LoneBlock == Block(3, 2, 1)
(* Two locations, each of which may be added again, with phases that are     *)
(* positive, zero and 2^15 (negative); location 0 and one past the screen.    *)
SomeBlocks == {Block(1, 1, 2), Block(2, HALF, 0), Block(0, 1, 1), Block(LIMIT, 1, 1)}

(* Bound: what follows the use of location 0 is not explored, since nothing   *)
(* is claimed there.                                                          *)
NotZeroed == ~zeroed
=============================================================================
