------------------------------- MODULE MCGrep -------------------------------
(* A buffer of three bytes.  The file searched has up to five bytes of any    *)
(* kind, or seven letters and line feeds, so that lines are carried over      *)
(* one, two and no reads; it comes after a short file, the clock (which reads *)
(* as empty) or an entry that is skipped, and before one that cannot be read. *)
EXTENDS Grep

Bytes == {"a", "b", "nl", "nul"}
Subjects == UNION {[1..k -> Bytes] : k \in 0..5}
              \cup [1..6 -> {"a", "nl"}] \cup [1..7 -> {"a", "nl"}]
File(t) == [kind |-> "file", content |-> t]
Before == {<<>>, <<[kind |-> "dot", content |-> <<>>], File(<<>>)>>,
           <<File(<<"a", "nl", "b", "a">>)>>}
SomeDirectories ==
  {Append(b, File(t)) : b \in Before, t \in Subjects}
    \cup {<<File(t), [kind |-> "unreadable", content |-> <<>>]>> : t \in [1..2 -> Bytes]}
SomePatterns == {<<"a">>, <<"a", "b">>, <<"a", "a">>}
SomeGarbage == {"nl", "a"}
=============================================================================
