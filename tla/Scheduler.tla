------------------------------ MODULE Scheduler ------------------------------
(***************************************************************************)
(* Processes and terminals of the kernel: the process table, the process   *)
(* control blocks, execute and halt (student-distrib/syscall.c), the       *)
(* round-robin switch of pit_handler (pit.c) and the opening of a terminal *)
(* by switch_terminal (lib.c).                                             *)
(*                                                                         *)
(* System calls and exceptions enter through TRAP gates, so interrupts     *)
(* stay on inside execute and halt: each of them is several steps here,    *)
(* and the timer or the keyboard may interrupt between any two of them.    *)
(* The part of execute from cli() to sti() is one step.                    *)
(*                                                                         *)
(* A kernel stack is abstracted to the control point that would run if the *)
(* stack were resumed: a Thread.  `saved' is pcb->esp/ebp, `frame' is      *)
(* pcb->esp_prev/ebp_prev.                                                 *)
(***************************************************************************)
EXTENDS Integers, FiniteSets

CONSTANTS
    N,          \* PROCESS_NUM_MAX: slots 1..N of process[] hold programs
    T,          \* TERMINAL_NUM: terminals 0..T-1
    FD,         \* file descriptors above FD_STDOUT
    BaseOpens   \* may the program named "shell" open files when run as base?

ASSUME NAssumption == N \in Nat \ {0}
ASSUME TAssumption == T \in Nat \ {0}
ASSUME BaseOpensAssumption == BaseOpens \in BOOLEAN

Slots == 1..N
Slots0 == 0..N          \* 0 stands for "no process": process[0] is the kernel
Terminals == 0..(T - 1)

VARIABLES
    process,              \* process[]: is the slot in use?
    process_num,          \* terminal_t[].process_num
    flag,                 \* terminal_t[].flag: has the terminal been opened?
    total_process,        \* terminal_t[].total_process
    terminal_num,         \* terminal whose process runs
    terminal_displayed,   \* terminal on the screen
    current_process_num,  \* the global that execute and halt share
    tss,                  \* slot whose kernel stack tss.esp0 is the top of
    pde,                  \* slot whose page is mapped at 128 MB
    prev,                 \* pcb->process_num_prev
    frame,                \* pcb->esp_prev/ebp_prev: where halt jumps back to
    saved,                \* pcb->esp/ebp: where pit_handler resumes
    fds,                  \* pcb->file_desc_array[i].flags, i > FD_STDOUT
    run,                  \* the thread on the processor
    term,                 \* history: terminal the slot was last started on
    level,                \* history: its depth in that terminal's chain
    raced                 \* history: did a switch land inside a window?

table == <<process, process_num, flag, total_process>>
pcbs == <<prev, frame, fds, term, level>>
vars == <<table, terminal_num, terminal_displayed, current_process_num,
          tss, pde, pcbs, saved, run, raced>>

-----------------------------------------------------------------------------
(* Threads *)

\* Control points: "user" is user mode, or a system call that changes nothing
\* here; the others are named after the next statement to run.
HaltPCs == {"free", "count", "base", "restore", "clean", "tss", "jump"}
ExecPCs == {"entry", "scan", "build"}
SafePCs == {"user", "launch"}
PCs == HaltPCs \cup ExecPCs \cup SafePCs \cup {"wild"}

Callers == {"user", "halt", "boot", "switch"}   \* who called execute

\* proc is the slot of the program the thread works for, ret the caller of the
\* execute in progress, ptr the local next_process_num (execute) or the slot
\* of the local pcb_ptr (halt).
Thread == [proc : Slots0, pc : PCs, ret : Callers, ptr : Slots0]
UserThread(p) == [proc |-> p, pc |-> "user", ret |-> "user", ptr |-> 0]

\* Control has left the code: a stack pointer or a page table that belongs to
\* no process was loaded.  Nothing is claimed about what happens next.
Wild == [proc |-> 0, pc |-> "wild", ret |-> "user", ptr |-> 0]

Goto(pc) == run' = [run EXCEPT !.pc = pc]

\* A thread about to enter a new program (line 221) that still uses the kernel
\* stack of its caller's caller: the freed slot of the program that halted, or
\* the one of the program the keyboard interrupted.  That stack may be used
\* again before the thread is resumed.
OnBorrowedStack(th) == th.pc = "launch" /\ th.ret \in {"halt", "switch"}

\* What runs when th is resumed.
Resumed(th) == IF OnBorrowedStack(th) THEN {th, Wild} ELSE {th}

\* The windows in which a switch to another thread is not safe: halt from line
\* 33 to its jump, execute from line 118 to its cli(), and its sti() at line
\* 221 when it was called by halt or by switch_terminal.
InWindow == run.pc \in HaltPCs \cup ExecPCs \/ OnBorrowedStack(run)

\* The tables, control blocks and registers keep their types (syscall.h 53-78,
\* lib.h 18-33).
TypeOK ==
    /\ process \in [Slots -> BOOLEAN]
    /\ process_num \in [Terminals -> Slots0]
    /\ flag \in [Terminals -> BOOLEAN]
    /\ total_process \in [Terminals -> Int]
    /\ terminal_num \in Terminals
    /\ terminal_displayed \in Terminals
    /\ current_process_num \in Slots0
    /\ tss \in Slots0
    /\ pde \in Slots0
    /\ prev \in [Slots -> Slots0]
    /\ frame \in [Slots -> [proc : Slots0, ret : Callers]]
    /\ saved \in [Slots -> Thread]
    /\ fds \in [Slots -> SUBSET FD]
    /\ run \in Thread
    /\ term \in [Slots -> Terminals]
    /\ level \in [Slots -> Int]
    /\ raced \in BOOLEAN

\* entry() in kernel.c calls execute("shell") with every table zeroed by the
\* boot loader, tss.esp0 at 8 MB and interrupts already on (rtc_init).
Init ==
    /\ process = [s \in Slots |-> FALSE]
    /\ process_num = [t \in Terminals |-> 0]
    /\ flag = [t \in Terminals |-> FALSE]
    /\ total_process = [t \in Terminals |-> 0]
    /\ terminal_num = 0
    /\ terminal_displayed = 0
    /\ current_process_num = 0
    /\ tss = 0
    /\ pde = 0
    /\ prev = [s \in Slots |-> 0]
    /\ frame = [s \in Slots |-> [proc |-> 0, ret |-> "boot"]]
    /\ saved = [s \in Slots |-> Wild]
    /\ fds = [s \in Slots |-> {}]
    /\ run = [proc |-> 0, pc |-> "entry", ret |-> "boot", ptr |-> 0]
    /\ term = [s \in Slots |-> 0]
    /\ level = [s \in Slots |-> 0]
    /\ raced = FALSE

-----------------------------------------------------------------------------
(* execute *)

\* Line 118, called by a program.
ExecuteCall ==
    /\ run.pc = "user"
    /\ current_process_num' = process_num[terminal_num]
    /\ run' = [run EXCEPT !.pc = "scan", !.ret = "user"]
    /\ UNCHANGED <<table, terminal_num, terminal_displayed, tss, pde, pcbs,
                   saved, raced>>

\* Line 119: a NULL command is refused, after the global was written.
ExecuteNull ==
    /\ run.pc = "user"
    /\ current_process_num' = process_num[terminal_num]
    /\ UNCHANGED <<table, terminal_num, terminal_displayed, tss, pde, pcbs,
                   saved, run, raced>>

\* Line 118, called by the kernel (entry, or halt of a base shell).
ExecuteEntry ==
    /\ run.pc = "entry"
    /\ current_process_num' = process_num[terminal_num]
    /\ Goto("scan")
    /\ UNCHANGED <<table, terminal_num, terminal_displayed, tss, pde, pcbs,
                   saved, raced>>

FreeSlots == {s \in Slots : ~process[s]}
IsFirstFree_NoTest(s) == \A u \in Slots : s <= u   \* mutant: process[] unread
IsFirstFree_Last(s) ==      \* mutant: the scan does not stop at the first
    s \in FreeSlots /\ \A u \in FreeSlots : u <= s
IsFirstFree(s) == s \in FreeSlots /\ \A u \in FreeSlots : s <= u

\* Lines 122-130: the first free slot.
ExecuteScan ==
    /\ run.pc = "scan"
    /\ \E s \in Slots :
          /\ IsFirstFree(s)
          /\ run' = [run EXCEPT !.pc = "build", !.ptr = s]
    /\ UNCHANGED <<table, terminal_num, terminal_displayed,
                   current_process_num, tss, pde, pcbs, saved, raced>>

\* Lines 131-134: no slot is free; execute returns 0 to its caller.  entry()
\* then idles with no program, halt goes on at line 45.
ExecuteFull ==
    /\ run.pc = "scan"
    /\ FreeSlots = {}
    /\ run' = CASE run.ret = "user" -> UserThread(run.proc)
                [] run.ret = "halt" -> [run EXCEPT !.pc = "restore"]
                [] OTHER -> Wild
    /\ UNCHANGED <<table, terminal_num, terminal_displayed,
                   current_process_num, tss, pde, pcbs, saved, raced>>

\* Lines 176-182: no such file, or not an executable; execute returns -1.
\* The kernel's own calls name "shell", which the file system image holds.
ExecuteRefused ==
    /\ run.pc = "build"
    /\ run.ret = "user"
    /\ run' = UserThread(run.proc)
    /\ UNCHANGED <<table, terminal_num, terminal_displayed,
                   current_process_num, tss, pde, pcbs, saved, raced>>

\* Lines 187-219 for slot s on terminal t, `parent' being the value of
\* current_process_num and f the stack frame of this call of execute.  The
\* descriptors above FD_STDOUT stay as the slot's last owner left them.
Launch(s, t, parent, f) ==
    /\ pde' = s
    /\ process' = [process EXCEPT ![s] = TRUE]
    /\ flag' = [flag EXCEPT ![t] = TRUE]
    /\ tss' = s
    /\ prev' = [prev EXCEPT ![s] = parent]
    /\ process_num' = [process_num EXCEPT ![t] = s]
    /\ total_process' = [total_process EXCEPT ![t] = @ + 1]
    /\ frame' = [frame EXCEPT ![s] = f]
    /\ run' = [proc |-> s, pc |-> "launch", ret |-> f.ret, ptr |-> 0]
    /\ term' = [term EXCEPT ![s] = t]
    /\ level' = [level EXCEPT ![s] = total_process[t] + 1]
    /\ UNCHANGED fds

\* Lines 137-221, interrupts off.
ExecuteBuild ==
    /\ run.pc = "build"
    /\ Launch(run.ptr, terminal_num, current_process_num,
              [proc |-> run.proc, ret |-> run.ret])
    /\ UNCHANGED <<terminal_num, terminal_displayed, current_process_num,
                   saved, raced>>

\* Lines 221-233: sti, one instruction, cli, iret.  An interrupt may arrive
\* while the new program still runs on the kernel stack of execute's caller.
ExecuteIret ==
    /\ run.pc = "launch"
    /\ run' = UserThread(run.proc)
    /\ UNCHANGED <<table, terminal_num, terminal_displayed,
                   current_process_num, tss, pde, pcbs, saved, raced>>

-----------------------------------------------------------------------------
(* halt: called by a program, or by the handler of its exception (idt.c) *)

\* Line 33.
HaltCall ==
    /\ run.pc = "user"
    /\ current_process_num' = process_num[terminal_num]
    /\ Goto("free")
    /\ UNCHANGED <<table, terminal_num, terminal_displayed, tss, pde, pcbs,
                   saved, raced>>

\* Mutant: frees the program of the terminal on the screen.
HaltFree_Displayed ==
    /\ run.pc = "free"
    /\ process' = [s \in Slots |->
                     process[s] /\ s # process_num[terminal_displayed]]
    /\ Goto("count")
    /\ UNCHANGED <<process_num, flag, total_process, terminal_num,
                   terminal_displayed, current_process_num, tss, pde, pcbs,
                   saved, raced>>

\* Line 35.  current_process_num is read again from memory; slot 0 is no
\* program's.
HaltFree ==
    /\ run.pc = "free"
    /\ process' = [s \in Slots |-> process[s] /\ s # current_process_num]
    /\ Goto("count")
    /\ UNCHANGED <<process_num, flag, total_process, terminal_num,
                   terminal_displayed, current_process_num, tss, pde, pcbs,
                   saved, raced>>

\* Mutants: the count is not updated; it is tested before it is.
HaltCount_NoDecrement ==
    /\ run.pc = "count"
    /\ Goto(IF total_process[terminal_num] = 1 THEN "base" ELSE "restore")
    /\ UNCHANGED total_process
    /\ UNCHANGED <<process, process_num, flag, terminal_num,
                   terminal_displayed, current_process_num, tss, pde, pcbs,
                   saved, raced>>

HaltCount_TestFirst ==
    /\ run.pc = "count"
    /\ total_process' = [total_process EXCEPT ![terminal_num] = @ - 1]
    /\ Goto(IF total_process[terminal_num] = 0 THEN "base" ELSE "restore")
    /\ UNCHANGED <<process, process_num, flag, terminal_num,
                   terminal_displayed, current_process_num, tss, pde, pcbs,
                   saved, raced>>

\* Lines 37-38.
HaltCount ==
    /\ run.pc = "count"
    /\ total_process' = [total_process EXCEPT ![terminal_num] = @ - 1]
    /\ Goto(IF total_process[terminal_num] = 1 THEN "base" ELSE "restore")
    /\ UNCHANGED <<process, process_num, flag, terminal_num,
                   terminal_displayed, current_process_num, tss, pde, pcbs,
                   saved, raced>>

\* Mutant: the last program of a terminal is not replaced.
HaltBase_NoShell ==
    /\ run.pc = "base"
    /\ process_num' = [process_num EXCEPT ![terminal_num] = 0]
    /\ Goto("restore")
    /\ UNCHANGED <<process, flag, total_process, terminal_num,
                   terminal_displayed, current_process_num, tss, pde, pcbs,
                   saved, raced>>

\* Lines 39-40: the last program of a terminal is replaced by a new shell.
HaltBase ==
    /\ run.pc = "base"
    /\ process_num' = [process_num EXCEPT ![terminal_num] = 0]
    /\ run' = [run EXCEPT !.pc = "entry", !.ret = "halt"]
    /\ UNCHANGED <<process, flag, total_process, terminal_num,
                   terminal_displayed, current_process_num, tss, pde, pcbs,
                   saved, raced>>

\* Mutant: the terminal keeps the number of the program that halted.
HaltRestore_Dropped ==
    /\ run.pc = "restore"
    /\ run' = [run EXCEPT !.pc = "clean", !.ptr = tss]
    /\ UNCHANGED <<process_num, process, flag, total_process, terminal_num,
                   terminal_displayed, current_process_num, tss, pde, pcbs,
                   saved, raced>>

\* Lines 45-47.  With tss.esp0 outside the kernel page pcb_ptr is not mapped.
HaltRestore ==
    /\ run.pc = "restore"
    /\ IF tss = 0
       THEN run' = Wild /\ UNCHANGED process_num
       ELSE /\ process_num' = [process_num EXCEPT ![terminal_num] = prev[tss]]
            /\ run' = [run EXCEPT !.pc = "clean", !.ptr = tss]
    /\ UNCHANGED <<process, flag, total_process, terminal_num,
                   terminal_displayed, current_process_num, tss, pde, pcbs,
                   saved, raced>>

\* Mutant: no descriptor is closed.
HaltClean_KeepFds ==
    /\ run.pc = "clean"
    /\ pde' = process_num[terminal_num]
    /\ Goto("tss")
    /\ UNCHANGED <<table, terminal_num, terminal_displayed,
                   current_process_num, tss, pcbs, saved, raced>>

\* Lines 61-70: the parent's page, and close() of every open descriptor.
HaltClean ==
    /\ run.pc = "clean"
    /\ pde' = process_num[terminal_num]
    /\ fds' = [fds EXCEPT ![run.ptr] = {}]
    /\ Goto("tss")
    /\ UNCHANGED <<table, terminal_num, terminal_displayed,
                   current_process_num, tss, prev, frame, term, level, saved,
                   raced>>

\* Mutant: tss.esp0 stays on the halted program's stack.
HaltTss_Dropped ==
    /\ run.pc = "tss"
    /\ Goto("jump")
    /\ UNCHANGED <<table, terminal_num, terminal_displayed,
                   current_process_num, tss, pde, pcbs, saved, raced>>

\* Line 75.
HaltTss ==
    /\ run.pc = "tss"
    /\ tss' = prev[run.ptr]
    /\ Goto("jump")
    /\ UNCHANGED <<table, terminal_num, terminal_displayed,
                   current_process_num, pde, pcbs, saved, raced>>

\* Lines 78-87: back to the execute that started this program, which returns
\* to its caller.  With no parent the kernel page is mapped as the program.
HaltJump ==
    /\ run.pc = "jump"
    /\ run' = IF prev[run.ptr] # 0 /\ frame[run.ptr].ret = "user"
              THEN UserThread(frame[run.ptr].proc)
              ELSE Wild
    /\ UNCHANGED <<table, terminal_num, terminal_displayed,
                   current_process_num, tss, pde, pcbs, saved, raced>>

-----------------------------------------------------------------------------
(* open and close *)

\* Mutant: the scan of the descriptor table ends one entry too late.
Open_OnePast ==
    /\ run.pc = "user" /\ tss # 0
    /\ \E d \in {e + 1 : e \in FD} \ fds[tss] :
          fds' = [fds EXCEPT ![tss] = @ \cup {d}]
    /\ UNCHANGED <<table, terminal_num, terminal_displayed,
                   current_process_num, tss, pde, prev, frame, term, level,
                   saved, run, raced>>

\* open() takes a free descriptor of the running process, close() gives one
\* back.  The shell started by the kernel opens none unless BaseOpens.
Open ==
    /\ run.pc = "user" /\ tss # 0
    /\ BaseOpens \/ total_process[terminal_num] > 1
    /\ \E d \in FD \ fds[tss] : fds' = [fds EXCEPT ![tss] = @ \cup {d}]
    /\ UNCHANGED <<table, terminal_num, terminal_displayed,
                   current_process_num, tss, pde, prev, frame, term, level,
                   saved, run, raced>>

Close ==
    /\ run.pc = "user" /\ tss # 0
    /\ \E d \in fds[tss] : fds' = [fds EXCEPT ![tss] = @ \ {d}]
    /\ UNCHANGED <<table, terminal_num, terminal_displayed,
                   current_process_num, tss, pde, prev, frame, term, level,
                   saved, run, raced>>

-----------------------------------------------------------------------------
(* Interrupts: every control point that is not wild has them on *)

\* Lines 47-50: the next opened terminal, round robin.
Distance(t) == (t + T - terminal_num - 1) % T
IsNext_FirstOpen(t) ==     \* mutant: restarts from terminal 0 at each tick
    flag[t] /\ \A u \in Terminals : flag[u] => t <= u
IsNext(t) == flag[t] /\ \A u \in Terminals : flag[u] => Distance(t) <= Distance(u)

\* pit_handler.  While only terminal 0 is open it returns at once (a
\* stuttering step).  The thread is saved in the PCB that tss.esp0 points
\* into and the one found in the next process's PCB is resumed.
Tick ==
    /\ run.pc # "wild"
    /\ \E t \in Terminals \ {0} : flag[t]
    /\ \E t \in Terminals :
          /\ IsNext(t)
          /\ terminal_num' = t
          /\ pde' = process_num[t]
          /\ tss' = process_num[t]
          /\ saved' = IF tss = 0 THEN saved ELSE [saved EXCEPT ![tss] = run]
          /\ run' \in IF tss = 0 \/ process_num[t] = 0
                      THEN {Wild} ELSE Resumed(saved'[process_num[t]])
    /\ raced' = (raced \/ InWindow)
    /\ UNCHANGED <<table, terminal_displayed, current_process_num, pcbs>>

\* Alt+Fn to an open terminal, or to terminal 0: only the screen changes.
SwitchTerminal(t) ==
    /\ run.pc # "wild"
    /\ t # terminal_displayed
    /\ t = 0 \/ flag[t]
    /\ terminal_displayed' = t
    /\ UNCHANGED <<table, terminal_num, current_process_num, tss, pde, pcbs,
                   saved, run, raced>>

\* Alt+Fn to a terminal that was never opened, lib.c lines 54-66: the
\* interrupted thread is saved and execute("shell") runs with interrupts off.
OpenTerminal(t) ==
    /\ run.pc # "wild"
    /\ t # terminal_displayed
    /\ t # 0 /\ ~flag[t]
    /\ tss # 0
    /\ terminal_displayed' = t
    /\ terminal_num' = t
    /\ saved' = [saved EXCEPT ![tss] = run]
    /\ current_process_num' = process_num[t]
    /\ \E s \in Slots :
          /\ IsFirstFree(s)
          /\ Launch(s, t, process_num[t], [proc |-> run.proc, ret |-> "switch"])
    /\ raced' = (raced \/ InWindow)

\* The same with no free slot: execute returns and terminal_num is restored,
\* but the empty terminal stays on the screen.
OpenTerminalFull(t) ==
    /\ run.pc # "wild"
    /\ t # terminal_displayed
    /\ t # 0 /\ ~flag[t]
    /\ tss # 0
    /\ FreeSlots = {}
    /\ terminal_displayed' = t
    /\ saved' = [saved EXCEPT ![tss] = run]
    /\ current_process_num' = process_num[t]
    /\ raced' = (raced \/ InWindow)
    /\ UNCHANGED <<table, terminal_num, tss, pde, pcbs, run>>

\* The same before the first shell runs (or with tss.esp0 lost): saving the
\* thread writes outside the kernel page.
OpenTerminalEarly(t) ==
    /\ run.pc # "wild"
    /\ t # terminal_displayed
    /\ t # 0 /\ ~flag[t]
    /\ tss = 0
    /\ terminal_displayed' = t
    /\ run' = Wild
    /\ raced' = (raced \/ InWindow)
    /\ UNCHANGED <<table, terminal_num, current_process_num, tss, pde, pcbs,
                   saved>>

-----------------------------------------------------------------------------
Execute == \/ ExecuteCall \/ ExecuteNull \/ ExecuteEntry \/ ExecuteScan
           \/ ExecuteFull \/ ExecuteRefused \/ ExecuteBuild \/ ExecuteIret
Halt == \/ HaltCall \/ HaltFree \/ HaltCount \/ HaltBase \/ HaltRestore
        \/ HaltClean \/ HaltTss \/ HaltJump
Files == Open \/ Close
Keyboard == \E t \in Terminals : \/ SwitchTerminal(t) \/ OpenTerminal(t)
                                 \/ OpenTerminalFull(t) \/ OpenTerminalEarly(t)

Next == Execute \/ Halt \/ Files \/ Tick \/ Keyboard

\* What the running thread does inside the kernel, without being asked to.
KernelStep == \/ ExecuteEntry \/ ExecuteScan \/ ExecuteFull \/ ExecuteBuild
              \/ ExecuteIret \/ HaltFree \/ HaltCount \/ HaltBase
              \/ HaltRestore \/ HaltClean \/ HaltTss \/ HaltJump

Spec == Init /\ [][Next]_vars

\* The timer keeps ticking and the processor keeps executing the thread.
FairSpec == Spec /\ WF_vars(Tick) /\ WF_vars(KernelStep)

-----------------------------------------------------------------------------
(* Properties.  Those guarded by ~raced say what the code guarantees as long *)
(* as no switch has landed inside a window of halt or execute; the others    *)
(* drop the guard and are what the comments of the code promise.             *)

\* The slot that execute's scan found is still free when it is taken, some
\* statements later (syscall.c 122-137: "find the next available process").
SlotStillFree == run.pc = "build" => ~process[run.ptr]

\* No two open terminals ever run in the same slot, whose page, PCB and kernel
\* stack they would share (execute, syscall.c 122-130 and 193).
ExclusiveSlotsAlways ==
    \A t, u \in Terminals :
        /\ flag[t] /\ flag[u] /\ t # u
        /\ process_num[t] # 0
        => process_num[t] # process_num[u]

\* The same as long as no switch landed in a window of execute or halt.
ExclusiveSlots == ~raced => ExclusiveSlotsAlways

\* A slot in use has its parent in use, on its terminal, one level below.
Chained(s) ==
    /\ level[s] > 0 /\ flag[term[s]]
    /\ (prev[s] = 0) = (level[s] = 1)
    /\ prev[s] # 0 => /\ process[prev[s]]
                      /\ term[prev[s]] = term[s]
                      /\ level[prev[s]] = level[s] - 1
                      /\ frame[s] = [proc |-> prev[s], ret |-> "user"]

\* The slots in use of each terminal form one chain from its base shell to
\* the program that runs: each parent is in use, on the same terminal and one
\* level below, and no program has two children (process_num_prev and
\* total_process, syscall.c 208-211 and 37-47).
Chains ==
    ~raced => /\ \A s \in Slots : process[s] => Chained(s)
              /\ \A s, u \in Slots :
                    /\ process[s] /\ process[u]
                    /\ term[s] = term[u] /\ level[s] = level[u]
                    => s = u

\* total_process counts the slots in use on each terminal, except between the
\* two statements of halt that free the slot and count it (syscall.c 35-37).
TotalCounts ==
    ~raced => \A t \in Terminals :
        total_process[t] =
            Cardinality({s \in Slots : process[s] /\ term[s] = t})
            + (IF run.pc = "count" /\ t = terminal_num THEN 1 ELSE 0)

\* Outside the windows the thread on the processor is that of the scheduled
\* terminal's own top program, with its page and its kernel stack; and what is
\* saved for every other open terminal is its own top program's thread, out of
\* the windows too and on a stack that stays its own (pit_handler, pit.c 52-87; switch_terminal, lib.c 55-65).
OwnContext ==
    ~raced =>
        /\ run.pc \in SafePCs =>
              /\ run.proc = process_num[terminal_num]
              /\ tss = run.proc /\ pde = run.proc
              /\ run.proc # 0 /\ process[run.proc]
        /\ \A t \in Terminals : flag[t] /\ t # terminal_num =>
              /\ process_num[t] # 0 /\ process[process_num[t]]
              /\ saved[process_num[t]].proc = process_num[t]
              /\ saved[process_num[t]].pc \in SafePCs
              /\ ~OnBorrowedStack(saved[process_num[t]])

\* Control never leaves the code, and the shell that replaces the last program
\* of a terminal always finds a slot (halt, syscall.c 38-41: the call of
\* execute is not expected to return).
NoWildJump ==
    ~raced => /\ run.pc # "wild"
              /\ run.pc = "restore" => total_process[terminal_num] > 0

\* A program starts with no descriptor but stdin and stdout (halt, syscall.c
\* 27 and 64-70, since execute clears none).
CleanStartAlways == run.pc = "launch" => fds[run.proc] = {}

\* The same as long as no switch landed in a window of execute or halt.
CleanStart == ~raced => CleanStartAlways

\* A step that frees a slot frees the one of the program that halts, on the
\* terminal that runs (halt, syscall.c 34-35).
FreesOwnSlot ==
    \A s \in Slots : process[s] /\ ~process'[s]
                        => s = run.proc /\ term[s] = terminal_num

\* halt frees its own slot, whatever happens in between (syscall.c 33-35).
FreesOwnSlotAlways == [][FreesOwnSlot]_vars

\* The same as long as no switch landed in a window of execute or halt.
FreesOnlyItself == [][~raced => FreesOwnSlot]_vars

\* The parent that halt will restore is the program that called execute
\* (syscall.c 25 and 208).
ParentRecorded ==
    \A s \in Slots : process[s] /\ frame[s].ret = "user"
                        => prev[s] = frame[s].proc

\* Every open terminal runs again and again (pit_handler, pit.c 47-50).
RoundRobin ==
    \A t \in Terminals : []<>(flag[t] => terminal_num = t \/ raced)

\* A program that begins to halt hands its terminal to a program that runs in
\* user mode (halt, syscall.c 24-29).
HaltReturns == (run.pc = "free") ~> (run.pc = "user" \/ raced)

\* A halt that has restored its parent's data jumps to its parent
\* (syscall.c 25-29).
HaltJumps == (run.pc = "clean") ~> (run.pc = "jump")

-----------------------------------------------------------------------------
\* The slots in use as stacks of programs; a race breaks the promise.
Stacks == INSTANCE Processes WITH
    place <- [s \in Slots |-> IF process[s] /\ ~raced THEN term[s] ELSE -1],
    depth <- [s \in Slots |-> IF process[s] /\ ~raced THEN level[s] ELSE 0],
    broken <- raced

\* Step by step execute, halt and the opening of a terminal give out the first
\* free slot on top of the caller's stack and take back the top of a stack
\* only (syscall.c 33-47 and 118-213, lib.c 54-66).
KeepsStacks == Stacks!PSpec

=============================================================================
