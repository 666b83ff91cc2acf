------------------------------ MODULE Programs ------------------------------
(***************************************************************************)
(* Programs that use the files: the tests of ece391syserr.c, cat and ls,   *)
(* as clients of Files.  Process User first runs any programs whatever,    *)
(* calling what they like, and then one of these in the same slot, with    *)
(* the descriptor table its predecessors left.  One step is one system     *)
(* call; what the programs print about the results is left out.            *)
(***************************************************************************)
EXTENDS Files, FiniteSets

CONSTANTS
    User,       \* the process that runs the programs
    DirName,    \* "."
    BadNames,   \* sequence of the names err_open tries
    CatNames,   \* arguments of cat
    BUFLEN      \* bytes cat and ls read at once

\* The directory has an entry for itself, and names are C strings.
ASSUME ProgramsAssumption ==
    /\ User \in Procs /\ BUFLEN \in Nat \ {0}
    /\ {DirName} \cup CatNames \subseteq Seq(Nat \ {0})
    /\ BadNames \in Seq(Seq(Nat \ {0})) /\ BadNames # <<>>
    /\ \A i \in DOMAIN Dentries : Dentries[i].name \notin Range(BadNames)
    /\ \E i \in DOMAIN Dentries : Dentries[i].name = DirName /\ Dentries[i].type = "dir"

VARIABLES
    prog,       \* the program of User: "any", "syserr", "cat", "ls" or "done"
    file,       \* cat's argument
    todo,       \* syserr: the tests not begun yet
    step,       \* the next call of the current test, or of cat and ls
    opens,      \* err_open_lots: the opens that failed (cnt)
    failed,     \* the tests that failed
    asked       \* history: the tests selected

pvars == <<prog, file, todo, step, opens, failed, asked>>
allvars == <<vars, pvars>>

-----------------------------------------------------------------------------
(* The calls *)

Reads(fd, n) == \/ ReadRefused(User, fd, n) \/ ReadDevice(User, fd, n)
                \/ file_read(User, fd, n) \/ DirTest(User, fd, n)
Opens(name) == OpenFails(User, name) \/ Open(User, name)
Closes(fd) == CloseRefused(User, fd) \/ close(User, fd)

\* vidmap's test of its argument, addresses in megabytes; ITR_SYS's of eax.
VidmapResult(a) == IF a = 0 \/ a > 132 \/ a < 128 THEN Fail ELSE 132
NumberResult(n) == IF n < 1 \/ n > 8 THEN Fail ELSE 0

Answers(call, r) ==
    /\ pc[User] = "idle"
    /\ last' = [NoCall EXCEPT !.call = call, !.proc = User, !.ret = r]
    /\ UNCHANGED <<fd_array, dir_index, pc, loc, got, owner, mixed>>

\* A call of a test: what it calls and with what.
C(call, arg) == [call |-> call, arg |-> arg]
Makes(c) ==
    \/ c.call = "read" /\ Reads(c.arg, BUFLEN)
    \/ c.call = "write" /\ write(User, c.arg, BUFLEN)
    \/ c.call = "close" /\ Closes(c.arg)
    \/ c.call = "open" /\ Opens(c.arg)
    \/ c.call = "vidmap" /\ Answers("vidmap", VidmapResult(c.arg))
    \/ c.call = "number" /\ Answers("number", NumberResult(c.arg))

-----------------------------------------------------------------------------
(* ece391syserr.c *)

Each(call, lo, hi) == [i \in 1..(hi - lo + 1) |-> C(call, lo + i - 1)]
ThreeCalls(fd) == <<C("read", fd), C("write", fd), C("close", fd)>>

err_neg_fd == ThreeCalls(-1)
err_big_fd == ThreeCalls(FD_N)
err_open_lots == [i \in 1..(FD_N - 1) |-> C("open", DirName)] \o Each("close", 2, FD_N - 1)
err_open == [i \in DOMAIN BadNames |-> C("open", BadNames[i])]
err_unopened ==
    Each("close", 0, FD_N - 1) \o Each("read", 2, FD_N - 1) \o Each("write", 2, FD_N - 1)
err_vidmap == <<C("vidmap", 0), C("vidmap", 4)>>
err_stdin_out == <<C("write", FD_STDIN), C("read", FD_STDOUT)>>
err_syscall_num == <<C("number", 9), C("number", -1), C("number", 0)>>

Tests == <<err_neg_fd, err_big_fd, err_open_lots, err_open,
           err_unopened, err_vidmap, err_stdin_out, err_syscall_num>>
OPEN_LOTS == 3
UNOPENED == 5

\* Every call must fail, except that err_open_lots counts the opens that do.
Verdict(t, r) ==
    IF t = OPEN_LOTS
    THEN /\ opens' = IF Tests[t][step].call = "open" /\ r = Fail THEN opens + 1 ELSE opens
         /\ failed' = IF step = Len(Tests[t]) /\ opens' # 1 THEN failed \cup {t} ELSE failed
    ELSE /\ failed' = IF r # Fail THEN failed \cup {t} ELSE failed
         /\ UNCHANGED opens

SyserrCall ==
    /\ prog = "syserr"
    /\ LET t == Head(todo)
           over == step = Len(Tests[t])
       IN  /\ Makes(Tests[t][step])
           /\ Verdict(t, last'.ret)
           /\ step' = IF over THEN 1 ELSE step + 1
           /\ todo' = IF over THEN Tail(todo) ELSE todo
           /\ prog' = IF last'.ret = Killed \/ (over /\ Len(todo) = 1) THEN "done" ELSE prog
    /\ UNCHANGED <<file, asked>>

-----------------------------------------------------------------------------
(* ece391cat.c and ece391ls.c: open, read until nothing comes, write it out. *)

FileName == IF prog = "ls" THEN DirName ELSE file
OpenFile ==
    /\ prog \in {"cat", "ls"} /\ step = 1
    /\ Opens(FileName)
    /\ IF last'.ret = Fail THEN prog' = "done" /\ UNCHANGED step
       ELSE step' = 2 /\ UNCHANGED prog
    /\ UNCHANGED <<file, todo, opens, failed, asked>>

\* A new process has descriptor 2 for its first file.  A read of the directory
\* takes several steps (Inside).
CopyChunk ==
    /\ prog \in {"cat", "ls"} /\ step = 2
    /\ Reads(2, BUFLEN)
    /\ prog' = IF pc'[User] = "idle" /\ last'.ret \in {0, Fail} THEN "done" ELSE prog
    /\ UNCHANGED <<file, todo, step, opens, failed, asked>>

Inner ==
    /\ Inside(User)
    /\ prog' = IF prog \in {"cat", "ls"} /\ pc'[User] = "idle" /\ last'.ret = Fail
               THEN "done" ELSE prog
    /\ UNCHANGED <<file, todo, step, opens, failed, asked>>

-----------------------------------------------------------------------------
AnyCall == prog = "any" /\ Call(User) /\ UNCHANGED pvars

Selections == {<<1, 2, 3, 4, 5, 6, 7, 8>>} \cup {<<t>> : t \in 1..8}

\* The earlier program ends and one of these is started in its slot.
Begin(what, f, tests) ==
    /\ prog = "any" /\ Restart(User)
    /\ prog' = what /\ file' = f /\ todo' = tests /\ asked' = Range(tests)
    /\ step' = 1 /\ opens' = 0 /\ failed' = {}

PInit ==
    /\ Init
    /\ prog = "any" /\ file = <<>> /\ todo = <<>> /\ step = 1 /\ opens = 0
    /\ failed = {} /\ asked = {}

PNext ==
    \/ AnyCall \/ SyserrCall \/ OpenFile \/ CopyChunk \/ Inner
    \/ \E tests \in Selections : Begin("syserr", <<>>, tests)
    \/ \E name \in CatNames : Begin("cat", name, <<>>)
    \/ Begin("ls", <<>>, <<>>)

PSpec == PInit /\ [][PNext]_allvars

-----------------------------------------------------------------------------
(* Properties *)

\* Every test of ece391syserr.c passes and none ends the program, whatever
\* programs used the slot before (syscall.c 244-355, handler_in_asbly.S 19-24).
\* err_unopened is claimed only after err_open_lots: write does not look at
\* `flags' and calls what the last open of the descriptor left.
SyserrPasses ==
    /\ failed \subseteq (IF OPEN_LOTS \in asked THEN {} ELSE {UNOPENED})
    /\ prog = "done" /\ todo # <<>> => asked = {UNOPENED}

\* cat prints the whole file it was given and ls every entry of the directory,
\* in whatever pieces they read and whoever used the descriptor before, unless
\* another descriptor moved the directory index (cat.c 21-28, ls.c 18-26).
CopiesAll ==
    prog = "done" /\ asked = {} /\ fd_array[User][2].flags = 1 =>
        LET f == fd_array[User][2] IN
        /\ f.fops = "file" => got[User][2] = Content(f.inode)
        /\ f.fops = "dir" /\ ~mixed => got[User][2] = [i \in 1..dir_count |-> i]

\* err_unopened passes when it is run alone (ece391syserr.c 163).
UnopenedPasses == UNOPENED \notin failed /\ (prog = "done" => todo = <<>>)

=============================================================================
