------------------------------- MODULE Files -------------------------------
(***************************************************************************)
(* File descriptors and the read-only file system: open, read, write and   *)
(* close (syscall.c) and the directory, inode and block walk behind them   *)
(* (filesystem.c), called by one process per terminal with interrupts on.  *)
(*                                                                         *)
(* The descriptors are private to a process; dir_index, the position in    *)
(* the directory, is one variable for the whole system.                    *)
(***************************************************************************)
EXTENDS Integers, Sequences, SequencesExt

CONSTANTS
    Procs,          \* processes, each running in its own terminal
    FD_N,           \* descriptors of a process
    FILENAME_LEN,   \* bytes of a name in a directory entry
    BLOCK,          \* bytes of a data block
    Dentries,       \* boot block: sequence of [name, type, inode]
    Inodes,         \* sequence of [length, blocks], inode 0 first
    Data,           \* sequence of data blocks, block 0 first
    Names,          \* names that programs open
    Sizes,          \* nbytes that programs pass
    GotMax          \* bound: reads of one descriptor that are followed

\* Names are C strings, and the image of the disk is well formed: the inodes of
\* files exist, and their blocks exist and hold the length they state.
ASSUME FilesAssumption ==
    /\ FD_N \in Nat /\ FD_N > 2 /\ GotMax \in Nat
    /\ FILENAME_LEN \in Nat /\ BLOCK \in Nat \ {0}
    /\ Names \subseteq Seq(Nat \ {0}) /\ Sizes \subseteq Int
    /\ Dentries \in Seq([name : Seq(Nat \ {0}), type : {"rtc", "dir", "file"}, inode : Nat])
    /\ Inodes \in Seq([length : Nat, blocks : Seq(Nat)])
    /\ Data \in Seq(Seq(STRING))
    /\ \A b \in DOMAIN Data : Len(Data[b]) = BLOCK
    /\ \A i \in DOMAIN Dentries :
           /\ Len(Dentries[i].name) \in 1..FILENAME_LEN
           /\ Dentries[i].type = "file" => Dentries[i].inode < Len(Inodes)
    /\ \A i, j \in DOMAIN Dentries : Dentries[i].name = Dentries[j].name => i = j
    /\ \A k \in DOMAIN Inodes :
           /\ Inodes[k].length <= Len(Inodes[k].blocks) * BLOCK
           /\ \A b \in DOMAIN Inodes[k].blocks : Inodes[k].blocks[b] < Len(Data)

FD_STDIN == 0
FD_STDOUT == 1
FDs == 0..(FD_N - 1)
dir_count == Len(Dentries)
IndexMax == dir_count + 1    \* bound: how far a lost update may push dir_index

VARIABLES
    fd_array,    \* file_desc_array of each process
    dir_index,   \* next directory entry to read, for everyone
    pc, loc,     \* control point inside dir_read, and its locals
    got,         \* history: what each descriptor has read since open
    last,        \* history: the latest call that returned
    owner,       \* history: descriptor of the latest dir_open
    mixed        \* history: another one used dir_index since then

vars == <<fd_array, dir_index, pc, loc, got, last, owner, mixed>>

Fail == -1
Killed == -2    \* no value returned: the call ended the program
Free == [fops |-> "null", inode |-> 0, file_pos |-> 0, flags |-> 0]
Term == [fops |-> "term", inode |-> 0, file_pos |-> 0, flags |-> 1]
NoLocals == [fd |-> 0, n |-> 0, index |-> 0, len |-> 0]
NoCall == [call |-> "none", proc |-> "none", fd |-> 0, ret |-> 0,
           name |-> <<>>, room |-> FALSE]

Init ==
    /\ fd_array = [p \in Procs |-> [fd \in FDs |-> IF fd <= 1 THEN Term ELSE Free]]
    /\ dir_index = 0
    /\ pc = [p \in Procs |-> "idle"]
    /\ loc = [p \in Procs |-> NoLocals]
    /\ got = [p \in Procs |-> [fd \in FDs |-> <<>>]]
    /\ last = NoCall
    /\ owner = <<"none", 0>>
    /\ mixed = FALSE

\* Descriptors, the shared directory index and the calls in progress keep their
\* types (syscall.h 53-59, filesystem.c 11).
TypeOK ==
    /\ fd_array \in [Procs -> [FDs ->
           [fops : {"null", "rtc", "dir", "file", "term"}, inode : Nat,
            file_pos : Nat, flags : 0..1]]]
    /\ \A p \in Procs, fd \in FDs :
           fd_array[p][fd].flags = 1 => fd_array[p][fd].fops # "null"
    /\ dir_index \in 0..IndexMax
    /\ pc \in [Procs -> {"idle", "fetch", "load", "store"}]

-----------------------------------------------------------------------------
(* The file system, filesystem.c *)

\* strlen of a stored name: a name that fills its field has no 0 after it, and
\* the count runs on into file_type unless that is 0 (the clock).
StoredLen(d) ==
    IF Len(d.name) = FILENAME_LEN /\ d.type # "rtc" THEN FILENAME_LEN + 1
    ELSE Len(d.name)

\* strncmp finds no difference in n characters: the strings agree up to there,
\* or up to the 0 that ends them both.
CharAt(str, i) == IF i <= Len(str) THEN str[i] ELSE 0
strncmp(s1, s2, n) ==
    \A i \in 1..n : i <= Len(s1) + 1 => CharAt(s1, i) = CharAt(s2, i)

\* Lines 153-154, with strncmp over the length of fname.
Matches_Prefix(fname, d) ==     \* mutant: the lengths are not compared
    strncmp(fname, d.name, Len(fname))
Matches(fname, d) ==
    /\ strncmp(fname, d.name, Len(fname))
    /\ Len(fname) = StoredLen(d) \/ Len(fname) = FILENAME_LEN

\* The index of the first entry that matches, 0 for none.
read_dentry_by_name(fname) ==
    IF Len(fname) = 0 \/ Len(fname) > FILENAME_LEN THEN 0
    ELSE SelectInSeq(Dentries, LAMBDA d : Matches(fname, d))

\* The bytes copied, or Fail for an inode that does not exist.
read_data_WholeBlock(inode, offset, length) ==  \* mutant: offset in block lost
    IF inode >= Len(Inodes) THEN [ret |-> Fail, bytes |-> <<>>]
    ELSE LET file == Inodes[inode + 1]
             n == IF offset >= file.length THEN 0
                  ELSE IF file.length - offset < length THEN file.length - offset
                  ELSE length
             Byte(i) == Data[file.blocks[((offset + i) \div BLOCK) + 1] + 1]
                            [(i % BLOCK) + 1]
         IN [ret |-> n, bytes |-> [i \in 1..n |-> Byte(i - 1)]]
read_data(inode, offset, length) ==
    IF inode >= Len(Inodes) THEN [ret |-> Fail, bytes |-> <<>>]
    ELSE LET file == Inodes[inode + 1]
             n == IF offset >= file.length THEN 0
                  ELSE IF file.length - offset < length THEN file.length - offset
                  ELSE length
             Byte(i) == Data[file.blocks[((offset + i) \div BLOCK) + 1] + 1]
                            [((offset + i) % BLOCK) + 1]
         IN [ret |-> n, bytes |-> [i \in 1..n |-> Byte(i - 1)]]

-----------------------------------------------------------------------------
(* System calls, syscall.c.  A process is in one call at a time. *)

Returns(call, p, fd, ret) ==
    last' = [NoCall EXCEPT !.call = call, !.proc = p, !.fd = fd, !.ret = ret]

Slots(p) == {fd \in 2..(FD_N - 1) : fd_array[p][fd].flags = 0}
FirstSlot(p) == CHOOSE fd \in Slots(p) : \A g \in Slots(p) : fd <= g

ReturnsOpen(p, name, ret) ==
    last' = [NoCall EXCEPT !.call = "open", !.proc = p, !.ret = ret,
                           !.name = name, !.room = Slots(p) # {}]

OpenFails(p, name) ==
    /\ pc[p] = "idle"
    /\ read_dentry_by_name(name) = 0 \/ Slots(p) = {}
    /\ ReturnsOpen(p, name, Fail)
    /\ UNCHANGED <<fd_array, dir_index, pc, loc, got, owner, mixed>>

\* A directory starts over from its first entry (dir_open), for everyone.
dir_open_KeepIndex(p, fd) ==    \* mutant: line 112 is missing
    /\ UNCHANGED dir_index
    /\ owner' = <<p, fd>>
    /\ mixed' = FALSE
dir_open(p, fd) ==
    /\ dir_index' = 0
    /\ owner' = <<p, fd>>
    /\ mixed' = FALSE

Descriptor_KeepPos(d, old) ==    \* mutant: line 323 is missing
    [fops |-> d.type, inode |-> IF d.type = "file" THEN d.inode ELSE 0,
     file_pos |-> old.file_pos, flags |-> 1]
Descriptor(d, old) ==
    [fops |-> d.type, inode |-> IF d.type = "file" THEN d.inode ELSE 0,
     file_pos |-> 0, flags |-> 1]

Open(p, name) ==
    LET i == read_dentry_by_name(name)
        fd == FirstSlot(p)
    IN
    /\ pc[p] = "idle" /\ i # 0 /\ Slots(p) # {}
    /\ fd_array' = [fd_array EXCEPT ![p][fd] = Descriptor(Dentries[i], @)]
    /\ got' = [got EXCEPT ![p][fd] = <<>>]
    /\ \/ Dentries[i].type = "dir" /\ dir_open(p, fd)
       \/ Dentries[i].type # "dir" /\ UNCHANGED <<dir_index, owner, mixed>>
    /\ ReturnsOpen(p, name, fd)
    /\ UNCHANGED <<pc, loc>>

Readable(p, fd, n) ==
    fd \in FDs \ {FD_STDOUT} /\ n >= 0 /\ fd_array[p][fd].flags = 1

ReadRefused(p, fd, n) ==
    /\ pc[p] = "idle" /\ ~Readable(p, fd, n)
    /\ Returns("read", p, fd, Fail)
    /\ UNCHANGED <<fd_array, dir_index, pc, loc, got, owner, mixed>>

\* Standard input and the clock change nothing here (LineBuffer, Rtc).
ReadDevice(p, fd, n) ==
    /\ pc[p] = "idle" /\ Readable(p, fd, n)
    /\ fd_array[p][fd].fops \in {"term", "rtc"}
    /\ Returns("read", p, fd, IF fd_array[p][fd].fops = "rtc" THEN 0 ELSE n)
    /\ UNCHANGED <<fd_array, dir_index, pc, loc, got, owner, mixed>>

file_read(p, fd, n) ==
    LET f == fd_array[p][fd]
        r == read_data(f.inode, f.file_pos, n)
    IN
    /\ pc[p] = "idle" /\ Readable(p, fd, n) /\ f.fops = "file"
    /\ fd_array' = [fd_array EXCEPT ![p][fd].file_pos = @ + r.ret]
    /\ got' = [got EXCEPT ![p][fd] = @ \o r.bytes]
    /\ Returns("read", p, fd, r.ret)
    /\ UNCHANGED <<dir_index, pc, loc, owner, mixed>>

\* dir_read lines 84-86.
DirTest(p, fd, n) ==
    /\ pc[p] = "idle" /\ Readable(p, fd, n) /\ fd_array[p][fd].fops = "dir"
    /\ Len(got[p][fd]) < GotMax
    /\ \/ /\ dir_index >= dir_count
          /\ Returns("dir_end", p, fd, 0)
          /\ UNCHANGED <<pc, loc>>
       \/ /\ dir_index < dir_count
          /\ pc' = [pc EXCEPT ![p] = "fetch"]
          /\ loc' = [loc EXCEPT ![p].fd = fd, ![p].n = n]
          /\ UNCHANGED last
    /\ UNCHANGED <<fd_array, dir_index, got, owner, mixed>>

Min2(a, b) == IF a < b THEN a ELSE b

\* read_dentry_by_index succeeds.
EntryExists(index) == index < dir_count

\* Lines 89-93: the entry is the one at dir_index now.
DirFetch(p) ==
    /\ pc[p] = "fetch"
    /\ \/ /\ ~EntryExists(dir_index)
          /\ pc' = [pc EXCEPT ![p] = "idle"]
          /\ loc' = [loc EXCEPT ![p] = NoLocals]
          /\ Returns("read", p, loc[p].fd, Fail)
          /\ UNCHANGED got
       \/ /\ EntryExists(dir_index)
          /\ pc' = [pc EXCEPT ![p] = "load"]
          /\ loc' = [loc EXCEPT ![p].len =
                 Min2(Min2(StoredLen(Dentries[dir_index + 1]), FILENAME_LEN), loc[p].n)]
          /\ got' = [got EXCEPT ![p][loc[p].fd] = Append(@, dir_index + 1)]
          /\ UNCHANGED last
    /\ UNCHANGED <<fd_array, dir_index, owner, mixed>>

\* Line 94, dir_index++: a load and a store.
DirLoad(p) ==
    /\ pc[p] = "load" /\ dir_index < IndexMax
    /\ pc' = [pc EXCEPT ![p] = "store"]
    /\ loc' = [loc EXCEPT ![p].index = dir_index]
    /\ UNCHANGED <<fd_array, dir_index, got, last, owner, mixed>>

DirStore(p) ==
    /\ pc[p] = "store"
    /\ pc' = [pc EXCEPT ![p] = "idle"]
    /\ dir_index' = loc[p].index + 1
    /\ loc' = [loc EXCEPT ![p] = NoLocals]
    /\ mixed' = (mixed \/ owner # <<p, loc[p].fd>>)
    /\ Returns("read", p, loc[p].fd, loc[p].len)
    /\ UNCHANGED <<fd_array, got, owner>>

\* write looks at the range of fd only: what it calls is left over from an
\* earlier open, or nothing, and a call of nothing ends the program.
write(p, fd, n) ==
    LET fops == fd_array[p][fd].fops IN
    /\ pc[p] = "idle"
    /\ Returns("write", p, fd,
           CASE fd \notin FDs \ {FD_STDIN} \/ n < 0 -> Fail
             [] OTHER -> CASE fops \in {"dir", "file"} -> Fail
                           [] fops = "rtc" -> 0
                           [] fops = "term" -> n
                           [] fops = "null" -> Killed)
    /\ UNCHANGED <<fd_array, dir_index, pc, loc, got, owner, mixed>>

Closable_NoFlag(p, fd) == fd \in 2..(FD_N - 1)     \* mutant: flags is not tested
Closable(p, fd) == fd \in 2..(FD_N - 1) /\ fd_array[p][fd].flags = 1

CloseRefused(p, fd) ==
    /\ pc[p] = "idle" /\ ~Closable(p, fd)
    /\ Returns("close", p, fd, Fail)
    /\ UNCHANGED <<fd_array, dir_index, pc, loc, got, owner, mixed>>

close(p, fd) ==
    /\ pc[p] = "idle" /\ Closable(p, fd)
    /\ fd_array' = [fd_array EXCEPT ![p][fd].flags = 0]
    /\ got' = [got EXCEPT ![p][fd] = <<>>]
    /\ Returns("close", p, fd, 0)
    /\ UNCHANGED <<dir_index, pc, loc, owner, mixed>>

\* halt closes what is open, and execute starts the next program of the same
\* process number with the two terminal descriptors.
Restart(p) ==
    /\ pc[p] = "idle"
    /\ fd_array' = [fd_array EXCEPT ![p] = [fd \in FDs |->
           IF fd <= FD_STDOUT THEN Term
           ELSE [fd_array[p][fd] EXCEPT !.flags = 0]]]
    /\ got' = [got EXCEPT ![p] = [fd \in FDs |-> <<>>]]
    /\ last' = NoCall
    /\ UNCHANGED <<dir_index, pc, loc, owner, mixed>>

-----------------------------------------------------------------------------
Call(p) ==
    \/ \E name \in Names : OpenFails(p, name) \/ Open(p, name)
    \/ \E fd \in -1..FD_N :
           \/ CloseRefused(p, fd) \/ close(p, fd)
           \/ \E n \in Sizes :
                  \/ ReadRefused(p, fd, n) \/ ReadDevice(p, fd, n)
                  \/ file_read(p, fd, n) \/ DirTest(p, fd, n) \/ write(p, fd, n)
    \/ Restart(p)
Inside(p) == DirFetch(p) \/ DirLoad(p) \/ DirStore(p)

Next == \E p \in Procs : Call(p) \/ Inside(p)
Spec == Init /\ [][Next]_vars

-----------------------------------------------------------------------------
(* Properties *)

\* A file as one sequence of bytes, whatever blocks it lies in.
Content(inode) ==
    SubSeq(FlattenSeq([b \in DOMAIN Inodes[inode + 1].blocks |->
                           Data[Inodes[inode + 1].blocks[b] + 1]]),
           1, Inodes[inode + 1].length)

\* All variables keep their types, and what the reads of an open file have returned together is the file from its
\* beginning up to file_pos, whatever was read, closed and opened before on the
\* same descriptor (file_read, read_data).
ReadsFile ==
    /\ TypeOK
    /\ \A p \in Procs, fd \in FDs :
        LET f == fd_array[p][fd] IN
        f.flags = 1 /\ f.fops = "file" =>
            got[p][fd] = SubSeq(Content(f.inode), 1, f.file_pos)

\* open finds exactly the files that exist: the descriptor it returns is of the
\* entry with that very name, and it fails only when there is no such entry or
\* no free descriptor (read_dentry_by_name, err_open of ece391syserr.c).
OpenExact ==
    last.call = "open" =>
        \/ /\ last.ret = Fail
           /\ last.room => \A i \in DOMAIN Dentries : Dentries[i].name # last.name
        \/ \E i \in DOMAIN Dentries :
               LET f == fd_array[last.proc][last.ret] IN
               /\ Dentries[i].name = last.name
               /\ f.flags = 1 /\ f.fops = Dentries[i].type
               /\ f.fops = "file" => f.inode = Dentries[i].inode

\* Between two reads of the descriptor that opened the directory last, the
\* entries it has returned are the first dir_index ones in order (dir_read),
\* as long as no other descriptor was read.
DirInStepUnlessMixed ==
    \A p \in Procs, fd \in FDs :
        (/\ ~mixed /\ owner = <<p, fd>> /\ pc[p] = "idle"
         /\ fd_array[p][fd].flags = 1 /\ fd_array[p][fd].fops = "dir")
            => got[p][fd] = [i \in 1..dir_index |-> i]

\* dir_read lists all files in the directory (filesystem.c 81): a reader that
\* is told the directory ends has been given every entry once.
DirListsAll ==
    last.call = "dir_end" =>
        got[last.proc][last.fd] = [i \in 1..dir_count |-> i]

\* A name longer than the field is looked up by its first bytes
\* (filesystem.c 152).
LongNameFound ==
    (/\ last.call = "open" /\ last.room
     /\ Len(last.name) > FILENAME_LEN
     /\ \E i \in DOMAIN Dentries :
            Dentries[i].name = SubSeq(last.name, 1, FILENAME_LEN))
        => last.ret # Fail

=============================================================================
