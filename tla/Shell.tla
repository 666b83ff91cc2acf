------------------------------- MODULE Shell -------------------------------
(***************************************************************************)
(* Commands and statuses: the user shell (syscalls/ece391shell.c), the      *)
(* command line execute parses, the arguments getargs hands out and the     *)
(* status halt returns to the parent.                                       *)
(* A terminal's chain of process_num_prev is a stack here (Scheduler shows  *)
(* the chains intact when execute and halt are not disturbed), and a call   *)
(* of execute or halt is one step; Scheduler has their interleavings.       *)
(* A command line is a sequence of characters, ended by an implied NUL.     *)
(***************************************************************************)
EXTENDS Integers, Sequences, FiniteSets

CONSTANTS
  N,            \* PROCESS_NUM_MAX
  T,            \* TERMINAL_NUM
  Lines,        \* the command lines typed at a shell or passed to execute
  Statuses,     \* the values main returns
  ArgSizes      \* the nbytes passed to getargs

ShellName == <<"s">>            \* "shell"
ExitWord == <<"e">>             \* "exit": no file has this name
JobName == <<"j">>              \* any other program
Executables == {ShellName, JobName}
Exception == 256                \* status of a process an exception ends

Slots == 1..N
Terminals == 0..(T - 1)

ASSUME ShellConstants ==
  /\ N \in Nat \ {0} /\ T \in 1..N
  /\ \A l \in Lines : l \in Seq({"s", "e", "j", "k", "sp", "nl"})
  /\ Statuses \subseteq Int /\ ArgSizes \subseteq Int

VARIABLES
  stack,        \* stack[t]: processes of terminal t, the running one last
  argument,     \* argument[s]: the argument field of slot s's PCB
  task          \* task[s]: the process in slot s, as below

vars == <<stack, argument, task>>

Fate(kind, status, child) == [kind |-> kind, status |-> status, child |-> child]
NoCommand == Fate("none", 0, 0)
NoArgs == [asked |-> FALSE, n |-> 0, ret |-> 0, text |-> <<>>]

(* The program of a process, the process whose call of execute it returns   *)
(* to (caller: the frame its PCB's esp_prev and ebp_prev point into, 0 for  *)
(* a call by the kernel), the value execute last returned to it (rval) and  *)
(* what its last getargs gave (got); as history, the command line that      *)
(* started it, and the process its own last execute started (child, while   *)
(* that runs) or what became of that command (fate).                        *)
Task(name, command, from) ==
  [program |-> name, line |-> command, caller |-> from, rval |-> 0,
   fate |-> NoCommand, got |-> NoArgs]
NoTask == Task(ShellName, ShellName, 0)

Kinds == {"none", "running", "full", "refused", "exited", "exception"}
(* Chains, PCB arguments and the values execute returns keep their types    *)
(* (syscall.h 61-72).                                                       *)
TypeOK ==
  /\ stack \in [Terminals -> UNION {[1..k -> Slots] : k \in 0..N}]
  /\ \A s \in Slots :
       /\ argument[s] \in Seq({"s", "e", "j", "k"})
       /\ task[s].program \in Executables
       /\ task[s].line \in Lines \cup {ShellName}
       /\ task[s].caller \in Slots \cup {0}
       /\ task[s].rval \in Statuses \cup {-1, 0, Exception}
       /\ task[s].fate.kind \in Kinds

-----------------------------------------------------------------------------
(* execute's parser: skip spaces, take the characters up to a space, a line *)
(* feed or the NUL, and do the same once more for the argument.             *)

At(c, i) == IF i <= Len(c) THEN c[i] ELSE "nul"
FirstFrom(i, S) == CHOOSE j \in S : j >= i /\ \A k \in S : k >= i => j <= k
Start(c, i) == FirstFrom(i, {j \in 1..(Len(c) + 1) : At(c, j) # "sp"})
End(c, i) == FirstFrom(i, {j \in 1..(Len(c) + 1) : At(c, j) \in {"sp", "nl", "nul"}})

cmd(c) == SubSeq(c, Start(c, 1), End(c, Start(c, 1)) - 1)

arg(c) ==
  LET start == Start(c, End(c, Start(c, 1)))
  IN  SubSeq(c, start, End(c, start) - 1)

-----------------------------------------------------------------------------
InUse == UNION {{stack[t][i] : i \in 1..Len(stack[t])} : t \in Terminals}
Top(t) == stack[t][Len(stack[t])]
IsFirstFree(s, used) == s \notin used /\ \A u \in Slots \ used : s <= u

(* The new process in slot s after execute(command) called by process from, *)
(* on terminal t whose processes are then st; others is task as the call    *)
(* leaves the other slots.                                                  *)
Launch_StaleArgument(t, s, command, st, from, others) ==   \* mutant: an empty one is not copied
  /\ stack' = [stack EXCEPT ![t] = st]
  /\ argument' = [argument EXCEPT ![s] = IF arg(command) = <<>> THEN @ ELSE arg(command)]
  /\ task' = [others EXCEPT ![s] = Task(cmd(command), command, from)]
Launch(t, s, command, st, from, others) ==
  /\ stack' = [stack EXCEPT ![t] = st]
  /\ argument' = [argument EXCEPT ![s] = arg(command)]
  /\ task' = [others EXCEPT ![s] = Task(cmd(command), command, from)]

(* execute returns r to process s without having started anything.          *)
Return(s, r, kind) ==
  task' = [task EXCEPT ![s].rval = r, ![s].fate = Fate(kind, 0, 0)]

(* execute called by the running process of terminal t: the slot is looked  *)
(* for before the command is parsed; a full table returns 0, a name that is *)
(* no executable returns -1, and otherwise the call returns when the new    *)
(* process halts.                                                           *)
execute(t, command) ==
  \/ /\ InUse = Slots
     /\ Return(Top(t), 0, "full")
     /\ UNCHANGED <<stack, argument>>
  \/ /\ InUse # Slots /\ cmd(command) \notin Executables
     /\ Return(Top(t), -1, "refused")
     /\ UNCHANGED <<stack, argument>>
  \/ /\ cmd(command) \in Executables
     /\ \E s \in Slots :
          /\ IsFirstFree(s, InUse)
          /\ Launch(t, s, command, Append(stack[t], s), Top(t),
                    [task EXCEPT ![Top(t)].fate = Fate("running", 0, s)])

(* History: process p has ended, and whoever started it now has that fate.  *)
Ended(p, kind, status) ==
  [x \in Slots |->
     IF x = p THEN NoTask
     ELSE IF task[x].fate = Fate("running", 0, p)
          THEN [task[x] EXCEPT !.fate = Fate(kind, status, 0)] ELSE task[x]]

(* halt: the slot is freed, process_num_prev runs on and the value goes into *)
(* the frame that the PCB's esp_prev and ebp_prev name; the last process of  *)
(* a terminal is replaced by a new shell instead.                            *)
HaltWith_NoShell(t, r, kind, status) ==      \* mutant: lines 38-41 are missing
  /\ stack' = [stack EXCEPT ![t] = SubSeq(@, 1, Len(@) - 1)]
  /\ task' = Ended(Top(t), kind, status)
  /\ UNCHANGED argument
HaltWith_ParentFrame(t, r, kind, status) ==  \* mutant: esp_prev of process_num_prev's PCB
  LET rest == SubSeq(stack[t], 1, Len(stack[t]) - 1)
      others == Ended(Top(t), kind, status)
  IN  \/ /\ rest = <<>>
         /\ \E s \in Slots : /\ IsFirstFree(s, InUse \ {Top(t)})
                             /\ Launch(t, s, ShellName, <<s>>, 0, others)
      \/ /\ rest # <<>>
         /\ stack' = [stack EXCEPT ![t] = rest]
         /\ task' = [x \in Slots |-> IF x = task[task[Top(t)].caller].caller
                                      THEN [others[x] EXCEPT !.rval = r] ELSE others[x]]
         /\ UNCHANGED argument
HaltWith(t, r, kind, status) ==
  LET rest == SubSeq(stack[t], 1, Len(stack[t]) - 1)
      others == Ended(Top(t), kind, status)
  IN  \/ /\ rest = <<>>
         /\ \E s \in Slots : /\ IsFirstFree(s, InUse \ {Top(t)})
                             /\ Launch(t, s, ShellName, <<s>>, 0, others)
      \/ /\ rest # <<>>
         /\ stack' = [stack EXCEPT ![t] = rest]
         /\ task' = [others EXCEPT ![task[Top(t)].caller].rval = r]
         /\ UNCHANGED argument

halt(t, status) == HaltWith(t, status, "exited", status)

EXC(t) == HaltWith(t, Exception, "exception", 0)

-----------------------------------------------------------------------------
Init ==
  /\ stack = [t \in Terminals |-> IF t = 0 THEN <<1>> ELSE <<>>]
  /\ argument = [s \in Slots |-> <<>>]
  /\ task = [s \in Slots |-> NoTask]

(* Alt+Fn to a terminal that runs nothing starts its shell; with a full     *)
(* table execute returns at once and nothing here changes.                  *)
OpenTerminal(t) ==
  /\ stack[t] = <<>>
  /\ \E s \in Slots : IsFirstFree(s, InUse) /\ Launch(t, s, ShellName, <<s>>, 0, task)

Running(t) == stack[t] # <<>>
AtShell(t) == Running(t) /\ task[Top(t)].program = ShellName
InJob(t) == Running(t) /\ task[Top(t)].program # ShellName

(* One turn of the shell's loop; an empty line only repeats the prompt.     *)
ShellLine(t, l) ==
  /\ AtShell(t) /\ l # <<>>
  /\ IF l = ExitWord THEN halt(t, 0) ELSE execute(t, l)

(* What the shell prints about the value its execute returned.              *)
Message(r) == CASE r = -1 -> "no such command"
                [] r = Exception -> "program terminated by exception"
                [] r = 0 -> "nothing"
                [] OTHER -> "program terminated abnormally"

(* Any other program may call execute, return from main (_start passes its  *)
(* whole int on to halt), or be ended by an exception.                      *)
JobExecute(t, l) == InJob(t) /\ execute(t, l)
JobExit(t, status) == InJob(t) /\ halt(t, status)
Fault(t) == Running(t) /\ EXC(t)

strncpy(src, n) == SubSeq(src, 1, IF n < Len(src) THEN n ELSE Len(src))

(* getargs copies at most nbytes characters of the running process's PCB.   *)
Answer(s, n, a) ==
  LET ok == n >= 0 /\ a # <<>>
  IN  task' = [task EXCEPT ![s].got =
        [asked |-> TRUE, n |-> n, ret |-> IF ok THEN 0 ELSE -1,
         text |-> IF ok THEN strncpy(a, n) ELSE <<>>]]
getargs_Newest(t, n) ==     \* mutant: the PCB of the last slot in use
  /\ InJob(t)
  /\ \E s \in InUse : (\A u \in InUse : u <= s) /\ Answer(Top(t), n, argument[s])
  /\ UNCHANGED <<stack, argument>>
getargs(t, n) ==
  /\ InJob(t)
  /\ Answer(Top(t), n, argument[Top(t)])
  /\ UNCHANGED <<stack, argument>>

Next == \E t \in Terminals :
  \/ OpenTerminal(t)
  \/ \E l \in Lines : ShellLine(t, l) \/ JobExecute(t, l)
  \/ \E status \in Statuses : JobExit(t, status)
  \/ Fault(t)
  \/ \E n \in ArgSizes : getargs(t, n)
Spec == Init /\ [][Next]_vars

-----------------------------------------------------------------------------
(* The words of a command line, told by what they are rather than by a scan: *)
(* the maximal runs of letters before the first line feed, in order.         *)
Runs(c) ==
  LET Letter(i) == i \in 1..Len(c) /\ \A k \in 1..i : c[k] # "nl" /\ (k = i => c[k] # "sp")
  IN  {r \in (1..Len(c)) \X (1..Len(c)) :
         /\ r[1] <= r[2] /\ \A i \in r[1]..r[2] : Letter(i)
         /\ ~Letter(r[1] - 1) /\ ~Letter(r[2] + 1)}
Word(c, k) ==
  IF Cardinality(Runs(c)) < k THEN <<>>
  ELSE LET r == CHOOSE x \in Runs(c) : Cardinality({y \in Runs(c) : y[1] < x[1]}) = k - 1
       IN  SubSeq(c, r[1], r[2])

(* All variables keep their types, and every process runs the program its    *)
(* command line names first and carries                                      *)
(* the second word as its argument, whatever its parent and its slot's       *)
(* former owners were started with (execute's parser and the copy into the   *)
(* PCB, syscall.c 143-172 and 197).                                          *)
CommandObeyed == TypeOK /\ \A s \in InUse :
  task[s].program = Word(task[s].line, 1) /\ argument[s] = Word(task[s].line, 2)

(* getargs answers a program from its own command line, also after it ran    *)
(* other programs: it fails exactly when there is no second word, and else   *)
(* gives the first nbytes characters of it (syscall.c 364-374).              *)
ArgumentIsOwn == \A s \in InUse : task[s].got.asked =>
  LET own == Word(task[s].line, 2)
  IN  /\ task[s].got.ret = (IF own = <<>> \/ task[s].got.n < 0 THEN -1 ELSE 0)
      /\ task[s].got.ret = 0 => \E k \in 0..Len(own) :
           /\ task[s].got.text = SubSeq(own, 1, k)
           /\ k = Len(own) \/ k = task[s].got.n

(* The value due to the caller of a command that ended this way.             *)
Due(f) == CASE f.kind = "refused" -> -1
            [] f.kind = "exception" -> Exception
            [] f.kind = "exited" -> f.status
            [] OTHER -> 0
(* What a shell should print about such a command.                           *)
Truth(f) == CASE f.kind = "refused" -> "no such command"
              [] f.kind = "exception" -> "program terminated by exception"
              [] f.kind = "exited" /\ f.status # 0 -> "program terminated abnormally"
              [] OTHER -> "nothing"
(* The process that runs on a terminal is never one that still waits for the *)
(* end of a program it started, and the value it got is the one its own last *)
(* command left, however many programs its children ran in between and       *)
(* whichever of them an exception ended; so a shell tells the truth about    *)
(* every status that is a byte (execute saves the caller's frame, syscall.c  *)
(* 213-220, halt returns into it, 77-87, and the shell prints, shell.c       *)
(* 27-33).                                                                   *)
ReportsTruly == \A t \in Terminals : Running(t) =>
  LET k == task[Top(t)]
  IN  /\ k.fate.kind # "running" /\ k.rval = Due(k.fate)
      /\ k.fate.kind # "full" /\ k.fate.status \in 0..255
           => Message(k.rval) = Truth(k.fate)

(* A terminal that ever had a shell has one at its base: whatever ends the   *)
(* last process, a shell takes its place (syscall.c 38-41).                  *)
ShellStays == [][\A t \in Terminals :
  stack[t] # <<>> => stack'[t] # <<>> /\ task'[stack'[t][1]].program = ShellName]_vars

(* Only the low byte of a status reaches the caller of execute, as the       *)
(* header of the system calls asks (ece391syscall.h 9-11).                   *)
StatusLowByte == \A s \in InUse :
  task[s].fate.kind = "exited" => task[s].rval = task[s].fate.status % 256

(* execute returns 0 only for a command that ran (syscall.c 106).            *)
ZeroIsSuccess == \A s \in InUse : task[s].fate.kind = "full" => task[s].rval # 0
=============================================================================
