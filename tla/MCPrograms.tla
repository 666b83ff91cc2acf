----------------------------- MODULE MCPrograms -----------------------------
(* The disk of MCFiles and the programs of Programs. *)
EXTENDS MCFiles, Programs

\* "helloo", "shel" and the empty name: a file's name with a character more or
\* less, and none.
MCBadNames == <<<<3, 1, 1>>, <<3>>, <<>>>>
MCDirName == <<1>>
CatArguments == {<<1>>, <<2>>, <<3, 1>>, <<3>>}
AllNames == FileNames \cup DirNames

\* Bound: the earlier programs read one entry of a directory they open at most
\* (Files_dir has the directory in full).
ShortListings ==
    prog = "any" => \A fd \in FDs : fd_array[User][fd].fops = "dir" => Len(got[User][fd]) <= 1
=============================================================================
