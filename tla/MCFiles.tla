------------------------------ MODULE MCFiles ------------------------------
(* Instances of Files for TLC: a disk with a directory, the clock, a file of
   one name byte and a longer one whose name fills its field and whose blocks
   are out of order. *)
EXTENDS Files, TLC

MCDentries == <<[name |-> <<1>>, type |-> "dir", inode |-> 0],
                [name |-> <<2>>, type |-> "rtc", inode |-> 0],
                [name |-> <<3, 1>>, type |-> "file", inode |-> 1],
                [name |-> <<1, 1>>, type |-> "file", inode |-> 0]>>
MCInodes == <<[length |-> 1, blocks |-> <<2>>],
              [length |-> 3, blocks |-> <<1, 0>>]>>
MCData == <<<<"c", "x">>, <<"a", "b">>, <<"d", "y">>>>

MCDirectory == SubSeq(MCDentries, 1, 3)

\* The clock and the files, and names that are no entry: empty, a name less
\* its last byte, one with a different last byte and one a byte too long.
FileNames == {<<>>, <<2>>, <<3, 1>>, <<1, 1>>, <<3>>, <<1, 2>>, <<3, 1, 1>>}
DirNames == {<<1>>}
DirAndFile == {<<1>>, <<3, 1>>}
AnySizes == {-1, 1, 2}

\* Bound: files are only followed before the first directory is opened
\* (Programs_calls has them in full).
FilesFirst ==
    owner # <<"none", 0>> =>
        \A x \in Procs, fd \in FDs : fd_array[x][fd].fops # "file"
Symmetry == Permutations(Procs)

=============================================================================
