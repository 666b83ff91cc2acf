----------------------------- MODULE MCDisplay -----------------------------
(* Instances of Display for TLC. *)
EXTENDS Display

Prints == {<<"a">>, <<"nl">>, <<"a", "a", "nl">>}
Letters == {<<"a">>}
Erasers == {<<"a">>, <<"bs">>}

\* Nothing is explored after a step that missed its target.
NotLost == ~lost

=============================================================================
