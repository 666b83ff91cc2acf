------------------------------ MODULE MCShell ------------------------------
EXTENDS Shell

(* Lines that start shells and jobs, leave a shell or name no program, with *)
(* and without arguments; and the edges of the parser: leading, doubled and *)
(* trailing spaces, only spaces, a third word, a line feed inside.          *)
Plain == {<<>>, ShellName, ExitWord, JobName, <<"k">>}
Edges == {<<"sp", "j", "sp", "k", "k">>, <<"j", "sp">>, <<"sp", "sp">>,
          <<"j", "sp", "sp", "k">>, <<"j", "sp", "k", "sp", "j">>,
          <<"j", "nl", "k">>, <<"j", "sp", "k", "nl", "k">>}
SomeLines == Plain \cup Edges
SomeStatuses == {-1, 0, 3}
SomeSizes == {-1, 1, 8}

(* The parser against the words of a line, on every line of at most four    *)
(* characters.                                                              *)
ShortLines == UNION {[1..k -> {"j", "sp", "nl"}] : k \in 0..4}
ASSUME ParserFindsWords ==
  \A l \in ShortLines : (l # <<>> /\ cmd(l) # <<>>) => cmd(l) = Word(l, 1) /\ arg(l) = Word(l, 2)
=============================================================================
