--------------------------- MODULE SchedulerProofs ---------------------------
(***************************************************************************)
(* Proofs about Scheduler, for every number of slots and terminals.        *)
(***************************************************************************)
EXTENDS Scheduler, FiniteSetTheorems, TLAPS

-----------------------------------------------------------------------------
(* Type correctness.  It needs the local variable of a thread to be set     *)
(* wherever the thread is about to use it, also in the saved threads.       *)

PtrPCs == {"build", "clean", "tss", "jump"}
ThreadOK(th) == th \in Thread /\ (th.pc \in PtrPCs => th.ptr \in Slots)

TypeInv == TypeOK /\ ThreadOK(run) /\ \A s \in Slots : ThreadOK(saved[s])

-----------------------------------------------------------------------------
(* The inductive invariant.  What holds of the terminal that runs depends on *)
(* the control point of the thread, one conjunct per group of points.        *)

\* p is the program on top of terminal t.
Top(t, p) ==
    /\ flag[t] /\ process_num[t] = p
    /\ p \in Slots /\ process[p]
    /\ term[p] = t /\ level[p] = total_process[t]

\* p has halted: its slot is free, n programs are left under it on t.
Halted(t, p, n) ==
    /\ flag[t]
    /\ p \in Slots /\ ~process[p] /\ Chained(p)
    /\ term[p] = t /\ level[p] = n + 1

\* The slots in use form chains, no longer than total_process says.
Tree ==
    /\ \A s \in Slots : process[s] => Chained(s)
    /\ \A s \in Slots : process[s] => level[s] <= total_process[term[s]]
    /\ \A s, u \in Slots :
          process[s] /\ process[u] /\ term[s] = term[u] /\ level[s] = level[u]
            => s = u

\* Every terminal but the running one is unopened or suspended as it should be.
Suspended(t) ==
    IF flag[t]
    THEN /\ Top(t, process_num[t])
         /\ saved[process_num[t]].proc = process_num[t]
         /\ saved[process_num[t]].pc \in SafePCs
         /\ ~OnBorrowedStack(saved[process_num[t]])
    ELSE process_num[t] = 0 /\ total_process[t] = 0

Others == \A t \in Terminals : t # terminal_num => Suspended(t)

Owned == \A t \in Terminals :
            process_num[t] # 0 => term[process_num[t]] = t

\* Execute called by a program keeps the caller's context; execute called by
\* the kernel runs on an empty terminal, and a slot is free.
CallerOK == IF run.ret = "user"
            THEN Top(terminal_num, run.proc) /\ tss = run.proc /\ pde = run.proc
            ELSE /\ process_num[terminal_num] = 0
                 /\ total_process[terminal_num] = 0
                 /\ \E s \in Slots : ~process[s]

RunOK ==
    LET t == terminal_num  p == run.proc  n == total_process[terminal_num] IN
    /\ run.pc \in {"user", "launch", "free"} =>
          Top(t, p) /\ tss = p /\ pde = p
    /\ run.pc \in {"scan", "build", "entry"} => CallerOK
    /\ run.pc = "entry" => run.ret # "user"
    /\ run.pc \in {"scan", "build", "free"} =>
          current_process_num = process_num[t]
    /\ run.pc = "build" => run.ptr \in Slots /\ ~process[run.ptr]
    /\ run.pc = "count" => /\ Halted(t, p, n - 1) /\ process_num[t] = p
                           /\ tss = p
                           /\ \A s \in Slots : process[s] /\ term[s] = t
                                                => level[s] < n
    /\ run.pc = "base" => n = 0 /\ Halted(t, p, 0)
    /\ run.pc = "restore" => /\ n > 0 /\ Halted(t, p, n)
                             /\ process_num[t] = p /\ tss = p
    /\ run.pc \in {"clean", "tss", "jump"} =>
          /\ run.ptr = p /\ n > 0 /\ Halted(t, p, n)
          /\ process_num[t] = prev[p]
    /\ run.pc \in {"tss", "jump"} => pde = prev[run.ptr]
    /\ run.pc = "jump" => tss = prev[run.ptr]
    /\ run.pc # "wild"

Core == Tree /\ Others /\ Owned /\ RunOK

IInv == TypeInv /\ (~raced => Core)

-----------------------------------------------------------------------------
(* Facts about the constant sets and about threads. *)

\* Slot 0 is the only member of Slots0 that is not a slot.
LEMMA SlotFacts ==
    /\ Slots0 = Slots \cup {0} /\ 0 \notin Slots
    /\ 1 \in Slots /\ Slots \subseteq Int
BY NAssumption DEF Slots, Slots0

\* There is a terminal 0.
LEMMA TerminalFacts == 0 \in Terminals /\ Terminals \subseteq Int
BY TAssumption DEF Terminals

\* The threads the actions build are well formed.
LEMMA ThreadMake ==
    ASSUME NEW p \in Slots0, NEW pc \in PCs, NEW r \in Callers, NEW q \in Slots0,
           pc \in PtrPCs => q \in Slots
    PROVE  ThreadOK([proc |-> p, pc |-> pc, ret |-> r, ptr |-> q])
BY DEF ThreadOK, Thread

\* So are a wild thread and one in user mode.
LEMMA ThreadUser ==
    ThreadOK(Wild) /\ \A p \in Slots0 : ThreadOK(UserThread(p))
BY SlotFacts, ThreadMake
   DEF Wild, UserThread, PCs, SafePCs, PtrPCs, Callers

\* A thread that moves to another control point stays well formed.
LEMMA ThreadGoto ==
    ASSUME NEW th, ThreadOK(th), NEW pc \in PCs,
           pc \in PtrPCs => th.ptr \in Slots
    PROVE  ThreadOK([th EXCEPT !.pc = pc])
BY DEF ThreadOK, Thread

\* The same for a thread that also sets its local variable.
LEMMA ThreadSet ==
    ASSUME NEW th, ThreadOK(th), NEW pc \in PCs, NEW q \in Slots
    PROVE  ThreadOK([th EXCEPT !.pc = pc, !.ptr = q])
BY SlotFacts DEF ThreadOK, Thread

\* The same for a thread that calls execute.
LEMMA ThreadCall ==
    ASSUME NEW th, ThreadOK(th), NEW pc \in PCs \ PtrPCs, NEW r \in Callers
    PROVE  ThreadOK([th EXCEPT !.pc = pc, !.ret = r])
BY DEF ThreadOK, Thread

\* Every thread is a record with its fields in their sets.
LEMMA ThreadFields ==
    ASSUME NEW th, ThreadOK(th)
    PROVE  /\ th \in Thread /\ th.proc \in Slots0 /\ th.pc \in PCs
           /\ th.ret \in Callers /\ th.ptr \in Slots0
           /\ th.pc \in PtrPCs => th.ptr \in Slots
BY DEF ThreadOK, Thread

-----------------------------------------------------------------------------
(* Type correctness *)

\* The boot state has the types.
LEMMA TypeInit == Init => TypeInv
<1> SUFFICES ASSUME Init PROVE TypeInv
  OBVIOUS
<1>1. ThreadOK(run)
  BY SlotFacts, ThreadMake DEF Init, PCs, ExecPCs, PtrPCs, Callers
<1>2. \A s \in Slots : ThreadOK(saved[s])
  BY ThreadUser DEF Init
<1>3. saved \in [Slots -> Thread] /\ run \in Thread
  BY <1>1, ThreadUser DEF Init, ThreadOK
<1> QED
  BY <1>1, <1>2, <1>3, SlotFacts, TerminalFacts
     DEF Init, TypeInv, TypeOK, Callers

\* Everything but the threads: what a step must still establish once the
\* threads are known to be well formed.
Tables ==
    /\ process \in [Slots -> BOOLEAN]
    /\ process_num \in [Terminals -> Slots0]
    /\ flag \in [Terminals -> BOOLEAN]
    /\ total_process \in [Terminals -> Int]
    /\ terminal_num \in Terminals
    /\ terminal_displayed \in Terminals
    /\ current_process_num \in Slots0
    /\ tss \in Slots0
    /\ pde \in Slots0
    /\ prev \in [Slots -> Slots0]
    /\ frame \in [Slots -> [proc : Slots0, ret : Callers]]
    /\ fds \in [Slots -> SUBSET FD]
    /\ term \in [Slots -> Terminals]
    /\ level \in [Slots -> Int]
    /\ raced \in BOOLEAN

Threads == ThreadOK(run) /\ saved \in [Slots -> {th \in Thread : ThreadOK(th)}]

\* The types of the tables and those of the threads, apart.
LEMMA TypeSplit == TypeInv <=> Tables /\ Threads
BY DEF TypeInv, TypeOK, Tables, Threads, ThreadOK

\* Every step of the kernel keeps the types.
LEMMA TypeStep == TypeInv /\ [Next]_vars => TypeInv'
<1> SUFFICES ASSUME Tables, Threads, [Next]_vars PROVE Tables' /\ Threads'
  BY TypeSplit, PTL
<1>0. run.proc \in Slots0 /\ run.ptr \in Slots0 /\ run.ret \in Callers
  BY ThreadFields DEF Threads
<1> USE SlotFacts, TerminalFacts, <1>0
<1>1. CASE ExecuteCall
  <2>1. ThreadOK(run')
    BY <1>1, ThreadCall DEF ExecuteCall, Threads, Callers, PCs, HaltPCs, ExecPCs, SafePCs, PtrPCs
  <2>2. Threads'
    BY <1>1, <2>1 DEF ExecuteCall, Threads
  <2>3. Tables'
    BY <1>1 DEF ExecuteCall, Tables, table, pcbs
  <2> QED
    BY <2>2, <2>3
<1>2. CASE ExecuteNull
  BY <1>2, ThreadUser DEF ExecuteNull, Tables, Threads, ThreadOK, table, pcbs
<1>3. CASE ExecuteEntry
  <2>1. ThreadOK(run')
    BY <1>3, ThreadGoto DEF ExecuteEntry, Threads, Goto, PCs, HaltPCs, ExecPCs, SafePCs, PtrPCs
  <2>2. Threads'
    BY <1>3, <2>1 DEF ExecuteEntry, Threads
  <2>3. Tables'
    BY <1>3 DEF ExecuteEntry, Tables, table, pcbs
  <2> QED
    BY <2>2, <2>3
<1>4. CASE ExecuteScan
  <2>0. PICK s \in Slots : run' = [run EXCEPT !.pc = "build", !.ptr = s]
    BY <1>4 DEF ExecuteScan
  <2>1. ThreadOK(run')
    <3>1. "build" \in PCs
      BY DEF PCs, ExecPCs
    <3> QED
      BY <2>0, <3>1, ThreadSet DEF Threads
  <2>2. Threads'
    BY <1>4, <2>1 DEF ExecuteScan, Threads
  <2>3. Tables'
    BY <1>4 DEF ExecuteScan, Tables, table, pcbs
  <2> QED
    BY <2>2, <2>3
<1>5. CASE ExecuteFull
  <2>1. ThreadOK(run')
    BY <1>5, ThreadUser, ThreadGoto DEF ExecuteFull, Threads, PCs, HaltPCs, ExecPCs, SafePCs, PtrPCs
  <2>2. Threads'
    BY <1>5, <2>1 DEF ExecuteFull, Threads
  <2>3. Tables'
    BY <1>5 DEF ExecuteFull, Tables, table, pcbs
  <2> QED
    BY <2>2, <2>3
<1>6. CASE ExecuteRefused
  <2>1. ThreadOK(run')
    BY <1>6, ThreadUser DEF ExecuteRefused, Threads
  <2>2. Threads'
    BY <1>6, <2>1 DEF ExecuteRefused, Threads
  <2>3. Tables'
    BY <1>6 DEF ExecuteRefused, Tables, table, pcbs
  <2> QED
    BY <2>2, <2>3
<1>7. CASE ExecuteBuild
  <2>1. ThreadOK(run')
    BY <1>7, ThreadMake, ThreadFields DEF ExecuteBuild, Threads, Launch, Callers, PCs, HaltPCs, ExecPCs, SafePCs, PtrPCs
  <2>2. Threads'
    BY <1>7, <2>1 DEF ExecuteBuild, Threads, Launch
  <2>3. Tables'
    BY <1>7, ThreadFields DEF ExecuteBuild, Tables, table, pcbs, Launch, Threads, PtrPCs
  <2> QED
    BY <2>2, <2>3
<1>8. CASE ExecuteIret
  <2>1. ThreadOK(run')
    BY <1>8, ThreadUser DEF ExecuteIret
  <2>2. Threads'
    BY <1>8, <2>1 DEF ExecuteIret, Threads
  <2>3. Tables'
    BY <1>8 DEF ExecuteIret, Tables, table, pcbs
  <2> QED
    BY <2>2, <2>3
<1>9. CASE HaltCall
  <2>1. ThreadOK(run')
    BY <1>9, ThreadGoto DEF HaltCall, Threads, Goto, PCs, HaltPCs, ExecPCs, SafePCs, PtrPCs
  <2>2. Threads'
    BY <1>9, <2>1 DEF HaltCall, Threads
  <2>3. Tables'
    BY <1>9 DEF HaltCall, Tables, table, pcbs
  <2> QED
    BY <2>2, <2>3
<1>10. CASE HaltFree
  <2>1. ThreadOK(run')
    BY <1>10, ThreadGoto DEF HaltFree, Threads, Goto, PCs, HaltPCs, ExecPCs, SafePCs, PtrPCs
  <2>2. Threads'
    BY <1>10, <2>1 DEF HaltFree, Threads
  <2>3. Tables'
    BY <1>10 DEF HaltFree, Tables, table, pcbs
  <2> QED
    BY <2>2, <2>3
<1>11. CASE HaltCount
  <2>1. ThreadOK(run')
    BY <1>11, ThreadGoto DEF HaltCount, Threads, Goto, PCs, HaltPCs, ExecPCs, SafePCs, PtrPCs
  <2>2. Threads'
    BY <1>11, <2>1 DEF HaltCount, Threads
  <2>3. Tables'
    BY <1>11 DEF HaltCount, Tables, table, pcbs
  <2> QED
    BY <2>2, <2>3
<1>12. CASE HaltBase
  <2>1. ThreadOK(run')
    BY <1>12, ThreadCall DEF HaltBase, Threads, Callers, PCs, HaltPCs, ExecPCs, SafePCs, PtrPCs
  <2>2. Threads'
    BY <1>12, <2>1 DEF HaltBase, Threads
  <2>3. Tables'
    BY <1>12 DEF HaltBase, Tables, table, pcbs
  <2> QED
    BY <2>2, <2>3
<1>13. CASE HaltRestore
  <2>1. ThreadOK(run')
    <3>1. "clean" \in PCs
      BY DEF PCs, HaltPCs
    <3>2. tss # 0 => ThreadOK([run EXCEPT !.pc = "clean", !.ptr = tss])
      BY <3>1, ThreadSet DEF Threads, Tables
    <3> QED
      BY <1>13, <3>2, ThreadUser DEF HaltRestore
  <2>2. Threads'
    BY <1>13, <2>1 DEF HaltRestore, Threads
  <2>3. Tables'
    BY <1>13 DEF HaltRestore, Tables, table, pcbs
  <2> QED
    BY <2>2, <2>3
<1>14. CASE HaltClean
  <2>1. ThreadOK(run')
    BY <1>14, ThreadGoto, ThreadFields DEF HaltClean, Threads, Goto, PCs, HaltPCs, ExecPCs, SafePCs, PtrPCs
  <2>2. Threads'
    BY <1>14, <2>1 DEF HaltClean, Threads
  <2>3. Tables'
    BY <1>14, ThreadFields DEF HaltClean, Tables, table, pcbs, Threads, PtrPCs
  <2> QED
    BY <2>2, <2>3
<1>15. CASE HaltTss
  <2>1. ThreadOK(run')
    BY <1>15, ThreadGoto, ThreadFields DEF HaltTss, Threads, Goto, PCs, HaltPCs, ExecPCs, SafePCs, PtrPCs
  <2>2. Threads'
    BY <1>15, <2>1 DEF HaltTss, Threads
  <2>3. Tables'
    BY <1>15, ThreadFields DEF HaltTss, Tables, table, pcbs, Threads, PtrPCs
  <2> QED
    BY <2>2, <2>3
<1>16. CASE HaltJump
  <2>1. ThreadOK(run')
    BY <1>16, ThreadUser, ThreadFields DEF HaltJump, Threads, Tables, PCs, HaltPCs, ExecPCs, SafePCs, PtrPCs
  <2>2. Threads'
    BY <1>16, <2>1 DEF HaltJump, Threads
  <2>3. Tables'
    BY <1>16 DEF HaltJump, Tables, table, pcbs
  <2> QED
    BY <2>2, <2>3
<1>17. CASE Open
  BY <1>17, ThreadUser DEF Open, Tables, Threads, ThreadOK, table, pcbs
<1>18. CASE Close
  BY <1>18, ThreadUser DEF Close, Tables, Threads, ThreadOK, table, pcbs
<1>19. CASE Tick
  <2>1. saved' \in [Slots -> {th \in Thread : ThreadOK(th)}]
    BY <1>19 DEF Tick, Threads, ThreadOK
  <2>2. ThreadOK(run')
    <3>1. PICK t \in Terminals :
             \/ run' = Wild
             \/ process_num[t] # 0 /\ run' = saved'[process_num[t]]
      BY <1>19 DEF Tick, Resumed
    <3>2. process_num[t] # 0 => ThreadOK(saved'[process_num[t]])
      BY <2>1 DEF Tables
    <3> QED
      BY <3>1, <3>2, ThreadUser
  <2>3. Tables'
    BY <1>19 DEF Tick, Tables, table, pcbs
  <2> QED
    BY <2>1, <2>2, <2>3 DEF Threads
<1>20. ASSUME NEW t \in Terminals, SwitchTerminal(t) PROVE Tables' /\ Threads'
  BY <1>20, ThreadUser DEF SwitchTerminal, Tables, Threads, ThreadOK, table, pcbs
<1>21. ASSUME NEW t \in Terminals, OpenTerminal(t) PROVE Tables' /\ Threads'
  <2>1. PICK s \in Slots :
           Launch(s, t, process_num[t], [proc |-> run.proc, ret |-> "switch"])
    BY <1>21 DEF OpenTerminal, IsFirstFree
  <2>2. ThreadOK(run')
    BY <2>1, ThreadMake DEF Launch, Callers, PCs, HaltPCs, ExecPCs, SafePCs, PtrPCs
  <2>3. Threads'
    BY <1>21, <2>2 DEF OpenTerminal, Threads, ThreadOK, Tables
  <2>4. Tables'
    BY <1>21, <2>1 DEF OpenTerminal, Launch, Tables, table, pcbs, Callers
  <2> QED
    BY <2>3, <2>4
<1>22. ASSUME NEW t \in Terminals, OpenTerminalFull(t) PROVE Tables' /\ Threads'
  BY <1>22, ThreadUser DEF OpenTerminalFull, Tables, Threads, ThreadOK, table, pcbs
<1>23. ASSUME NEW t \in Terminals, OpenTerminalEarly(t) PROVE Tables' /\ Threads'
  BY <1>23, ThreadUser DEF OpenTerminalEarly, Tables, Threads, ThreadOK, table, pcbs
<1>24. CASE UNCHANGED vars
  BY <1>24 DEF vars, Tables, Threads, table, pcbs
<1> QED
  BY <1>1, <1>2, <1>3, <1>4, <1>5, <1>6, <1>7, <1>8, <1>9, <1>10, <1>11, <1>12, <1>13, <1>14, <1>15, <1>16, <1>17, <1>18, <1>19, <1>20, <1>21, <1>22, <1>23, <1>24
     DEF Next, Execute, Halt, Files, Keyboard

\* Every variable keeps its type, races included (the tables and the control
\* blocks of syscall.h and lib.h).
THEOREM TypeCorrect == Spec => []TypeOK
<1>1. TypeInv => TypeOK
  BY DEF TypeInv
<1> QED
  BY <1>1, TypeInit, TypeStep, PTL DEF Spec

-----------------------------------------------------------------------------
(* The inductive invariant holds initially. *)

\* At boot there is no process, and the running thread is boot's execute.
LEMMA CoreInit == Init => Core
<1> SUFFICES ASSUME Init PROVE Core
  OBVIOUS
<1>1. Tree /\ Owned
  BY DEF Init, Tree, Owned
<1>2. Others
  BY DEF Init, Others, Suspended
<1>3. RunOK
  BY SlotFacts, TerminalFacts DEF Init, RunOK, CallerOK
<1> QED
  BY <1>1, <1>2, <1>3 DEF Core

-----------------------------------------------------------------------------
(* It is preserved by every step that does not race. *)

\* What Goto leaves of the thread.
LEMMA GotoFields ==
    ASSUME Threads, NEW pc, Goto(pc)
    PROVE  /\ run'.pc = pc /\ run'.proc = run.proc
           /\ run'.ret = run.ret /\ run'.ptr = run.ptr
BY DEF Threads, ThreadOK, Thread, Goto

\* The tables, the control blocks and the saved threads determine everything
\* but RunOK.
LEMMA CoreFrame ==
    ASSUME Tree, Others, Owned,
           UNCHANGED <<table, prev, frame, term, level, saved, terminal_num>>
    PROVE  Tree' /\ Others' /\ Owned'
BY DEF Tree, Chained, Others, Suspended, Top, Owned, table

\* A step of execute before it builds the process, or back in user mode.
LEMMA CoreExecute ==
    ASSUME Tables, Threads, Core,
           \/ ExecuteCall \/ ExecuteNull \/ ExecuteEntry \/ ExecuteScan
           \/ ExecuteFull \/ ExecuteRefused \/ ExecuteIret
    PROVE  Core'
<1>0. Tree' /\ Others' /\ Owned'
  BY CoreFrame DEF Core, pcbs, ExecuteCall, ExecuteNull, ExecuteEntry,
     ExecuteScan, ExecuteFull, ExecuteRefused, ExecuteIret
<1> SUFFICES RunOK'
  BY <1>0 DEF Core
<1>1. CASE ExecuteCall
  <2>1. run'.pc = "scan" /\ run'.proc = run.proc /\ run'.ret = "user"
    BY <1>1 DEF ExecuteCall, Threads, ThreadOK, Thread
  <2>2. Top(terminal_num, run.proc) /\ tss = run.proc /\ pde = run.proc
    BY <1>1 DEF ExecuteCall, Core, RunOK
  <2> QED
    BY <1>1, <2>1, <2>2
       DEF ExecuteCall, RunOK, CallerOK, Top, table, pcbs
<1>2. CASE ExecuteNull
  BY <1>2 DEF ExecuteNull, Core, RunOK, CallerOK, Top, table, pcbs
<1>3. CASE ExecuteEntry
  <2>1. run'.pc = "scan" /\ run'.proc = run.proc /\ run'.ret = run.ret
    BY <1>3, GotoFields DEF ExecuteEntry
  <2> QED
    BY <1>3, <2>1 DEF ExecuteEntry, Core, RunOK, CallerOK, Top, table, pcbs
<1>4. CASE ExecuteScan
  <2>1. PICK s \in Slots :
          IsFirstFree(s) /\ run' = [run EXCEPT !.pc = "build", !.ptr = s]
    BY <1>4 DEF ExecuteScan
  <2>2. /\ run'.pc = "build" /\ run'.proc = run.proc /\ run'.ret = run.ret
        /\ run'.ptr = s
    BY <2>1 DEF Threads, ThreadOK, Thread
  <2> QED
    BY <1>4, <2>1, <2>2 DEF ExecuteScan, IsFirstFree, FreeSlots, Core, RunOK,
       CallerOK, Top, table, pcbs
<1>5. CASE ExecuteFull
  <2>1. run.ret = "user" /\ Top(terminal_num, run.proc) /\ tss = run.proc
        /\ pde = run.proc
    BY <1>5 DEF ExecuteFull, FreeSlots, Core, RunOK, CallerOK
  <2>2. run'.pc = "user" /\ run'.proc = run.proc
    BY <1>5, <2>1 DEF ExecuteFull, UserThread
  <2> QED
    BY <1>5, <2>1, <2>2 DEF ExecuteFull, RunOK, Top, table, pcbs
<1>6. CASE ExecuteRefused
  <2>2. run'.pc = "user" /\ run'.proc = run.proc
    BY <1>6 DEF ExecuteRefused, UserThread
  <2> QED
    BY <1>6, <2>2 DEF ExecuteRefused, Core, RunOK, CallerOK, Top, table, pcbs
<1>7. CASE ExecuteIret
  <2>1. run'.pc = "user" /\ run'.proc = run.proc
    BY <1>7 DEF ExecuteIret, UserThread
  <2> QED
    BY <1>7, <2>1 DEF ExecuteIret, Core, RunOK, Top, table, pcbs
<1> QED
  BY <1>1, <1>2, <1>3, <1>4, <1>5, <1>6, <1>7

\* A step of halt that changes no table.
LEMMA CoreHaltLocal ==
    ASSUME Tables, Threads, Core, HaltCall \/ HaltClean \/ HaltTss \/ HaltJump
    PROVE  Core'
<1>0. Tree' /\ Others' /\ Owned'
  BY CoreFrame DEF Core, pcbs, HaltCall, HaltClean, HaltTss, HaltJump
<1> SUFFICES RunOK'
  BY <1>0 DEF Core
<1>1. CASE HaltCall
  <2>1. run'.pc = "free" /\ run'.proc = run.proc
    BY <1>1, GotoFields DEF HaltCall
  <2> QED
    BY <1>1, <2>1 DEF HaltCall, Core, RunOK, Top, table, pcbs
<1>2. CASE HaltClean
  <2>1. run'.pc = "tss" /\ run'.proc = run.proc /\ run'.ptr = run.ptr
    BY <1>2, GotoFields DEF HaltClean
  <2> QED
    BY <1>2, <2>1 DEF HaltClean, Core, RunOK, Halted, Chained, table
<1>3. CASE HaltTss
  <2>1. run'.pc = "jump" /\ run'.proc = run.proc /\ run'.ptr = run.ptr
    BY <1>3, GotoFields DEF HaltTss
  <2> QED
    BY <1>3, <2>1 DEF HaltTss, Core, RunOK, Halted, Chained, table, pcbs
<1>4. CASE HaltJump
  <2> DEFINE p == run.proc
             n == total_process[terminal_num]
  <2>1. /\ run.ptr = p /\ n > 0 /\ Halted(terminal_num, p, n)
        /\ process_num[terminal_num] = prev[p]
        /\ pde = prev[p] /\ tss = prev[p]
    BY <1>4 DEF HaltJump, Core, RunOK
  <2>2. /\ prev[p] \in Slots /\ process[prev[p]]
        /\ frame[p] = [proc |-> prev[p], ret |-> "user"]
        /\ term[prev[p]] = terminal_num /\ level[prev[p]] = n
    BY <2>1, SlotFacts DEF Halted, Chained, Tables
  <2>3. run' = UserThread(prev[p])
    BY <1>4, <2>1, <2>2, SlotFacts DEF HaltJump
  <2>4. run'.pc = "user" /\ run'.proc = prev[p]
    BY <2>3 DEF UserThread
  <2>5. flag[terminal_num]
    BY <2>1 DEF Halted
  <2> QED
    BY <1>4, <2>1, <2>2, <2>4, <2>5 DEF HaltJump, RunOK, Top, table, pcbs
<1> QED
  BY <1>1, <1>2, <1>3, <1>4

\* Line 35 frees the top of the running terminal and nothing else: every other
\* slot in use there is on a lower level, so no slot in use loses its parent.
LEMMA CoreHaltFree ==
    ASSUME Tables, Threads, Core, HaltFree
    PROVE  Core'
<1> DEFINE t == terminal_num
           p == run.proc
           n == total_process[terminal_num]
<1>1. /\ Top(t, p) /\ tss = p /\ pde = p /\ current_process_num = p
  BY DEF HaltFree, Core, RunOK, Top
<1>2. process' = [s \in Slots |-> process[s] /\ s # p]
  BY <1>1 DEF HaltFree
<1>3. UNCHANGED <<process_num, flag, total_process, terminal_num, prev, frame,
                  term, level, saved, tss, pde, current_process_num>>
  BY DEF HaltFree, pcbs
<1>4. run'.pc = "count" /\ run'.proc = p
  BY GotoFields DEF HaltFree
<1>5. \A s \in Slots : process'[s] => process[s] /\ s # p
  BY <1>2
<1>6. \A s \in Slots : process'[s] /\ term[s] = t => level[s] < n
  <2> SUFFICES ASSUME NEW s \in Slots, process'[s], term[s] = t
               PROVE  level[s] < n
    OBVIOUS
  <2>1. process[s] /\ s # p /\ level[s] <= n
    BY <1>5 DEF Core, Tree
  <2>2. p \in Slots /\ process[p] /\ term[p] = t /\ level[p] = n
    BY <1>1 DEF Top
  <2>3. level[s] # level[p]
    BY <2>1, <2>2 DEF Core, Tree
  <2>4. level[s] \in Int /\ n \in Int
    BY DEF Tables
  <2> QED
    BY <2>1, <2>2, <2>3, <2>4
<1>7. \A s \in Slots : process'[s] => Chained(s)'
  <2> SUFFICES ASSUME NEW s \in Slots, process'[s] PROVE Chained(s)'
    OBVIOUS
  <2>1. Chained(s) /\ process[s]
    BY <1>5 DEF Core, Tree
  <2>2. prev[s] # p
    <3>1. ASSUME prev[s] = p PROVE FALSE
      <4>1. p # 0 /\ p \in Slots /\ term[p] = t /\ level[p] = n
        BY <1>1, SlotFacts DEF Top
      <4>2. term[s] = t /\ level[p] = level[s] - 1
        BY <2>1, <3>1, <4>1 DEF Chained
      <4>3. level[s] < n /\ level[s] \in Int /\ n \in Int
        BY <1>6, <4>2 DEF Tables
      <4> QED
        BY <4>1, <4>2, <4>3
    <3> QED
      BY <3>1
  <2> QED
    BY <1>2, <1>3, <2>1, <2>2, SlotFacts DEF Chained, Tables
<1>8. Tree'
  BY <1>3, <1>5, <1>7 DEF Core, Tree
<1>9. Others'
  <2> SUFFICES ASSUME NEW u \in Terminals, u # t PROVE Suspended(u)'
    BY <1>3 DEF Others
  <2>1. Suspended(u)
    BY DEF Core, Others
  <2>2. flag[u] => process_num[u] \in Slots /\ process_num[u] # p
    BY <1>1, <2>1 DEF Suspended, Top
  <2> QED
    BY <1>2, <1>3, <2>1, <2>2 DEF Suspended, Top
<1>10. Owned'
  BY <1>3 DEF Core, Owned
<1>11. Halted(t, p, n - 1)'
  <2>1. Chained(p) /\ p \in Slots /\ level[p] = n
    BY <1>1 DEF Core, Tree, Top
  <2>2. prev[p] # p /\ n \in Int
    BY <2>1, SlotFacts DEF Chained, Tables
  <2>3. Chained(p)'
    BY <1>2, <1>3, <1>4, <2>1, <2>2, SlotFacts DEF Chained, Tables
  <2>4. ~process'[p]
    BY <1>2, <2>1
  <2>5. (n - 1) + 1 = n
    BY <2>2
  <2> QED
    BY <1>1, <1>3, <1>4, <2>1, <2>3, <2>4, <2>5 DEF Halted, Top
<1>12. RunOK'
  BY <1>1, <1>3, <1>4, <1>6, <1>11 DEF RunOK, Top
<1> QED
  BY <1>8, <1>9, <1>10, <1>12 DEF Core

\* Lines 37-38: the program that halted had level n, so what is left is empty
\* exactly when n was 1.
LEMMA CoreHaltCount ==
    ASSUME Tables, Threads, Core, HaltCount
    PROVE  Core'
<1> DEFINE t == terminal_num
           p == run.proc
           n == total_process[terminal_num]
<1>1. /\ Halted(t, p, n - 1) /\ process_num[t] = p /\ tss = p
      /\ \A s \in Slots : process[s] /\ term[s] = t => level[s] < n
  BY DEF HaltCount, Core, RunOK
<1>2. UNCHANGED <<process, process_num, flag, terminal_num, prev, frame, term,
                  level, saved, tss>>
  BY DEF HaltCount, pcbs
<1>3. /\ total_process'[t] = n - 1
      /\ \A u \in Terminals : u # t => total_process'[u] = total_process[u]
  BY DEF HaltCount, Tables
<1>4. run'.pc = (IF n = 1 THEN "base" ELSE "restore") /\ run'.proc = p
  BY GotoFields DEF HaltCount
<1>5. n \in Int /\ level[p] = n /\ n > 0
  BY <1>1 DEF Halted, Chained, Tables
<1>6. Tree'
  <2>1. \A s \in Slots : process[s] => Chained(s)'
    BY <1>2 DEF Core, Tree, Chained
  <2>2. \A s \in Slots : process[s] => level[s] <= total_process'[term[s]]
    <3> SUFFICES ASSUME NEW s \in Slots, process[s]
                 PROVE  level[s] <= total_process'[term[s]]
      OBVIOUS
    <3>1. CASE term[s] = t
      BY <1>1, <1>3, <1>5, <3>1 DEF Tables
    <3>2. CASE term[s] # t
      BY <1>3, <3>2 DEF Core, Tree, Tables
    <3> QED
      BY <3>1, <3>2
  <2> QED
    BY <1>2, <2>1, <2>2 DEF Core, Tree
<1>7. Others'
  BY <1>2, <1>3 DEF Core, Others, Suspended, Top
<1>8. Owned'
  BY <1>2 DEF Core, Owned
<1>9. Halted(t, p, n)'
  <2>1. Chained(p)'
    BY <1>1, <1>2, <1>4 DEF Halted, Chained
  <2>2. n' + 1 = n
    BY <1>2, <1>3, <1>5
  <2> QED
    BY <1>1, <1>2, <1>4, <1>5, <2>1, <2>2 DEF Halted
<1>10. RunOK'
  <2>1. n' = n - 1 /\ (n = 1 => n' = 0) /\ (n # 1 => n' > 0)
    BY <1>2, <1>3, <1>5
  <2> QED
    BY <1>1, <1>2, <1>4, <1>9, <2>1 DEF RunOK
<1> QED
  BY <1>6, <1>7, <1>8, <1>10 DEF Core

\* Lines 39-40: the halted program's slot is the free one the new shell needs.
LEMMA CoreHaltBase ==
    ASSUME Tables, Threads, Core, HaltBase
    PROVE  Core'
<1> DEFINE t == terminal_num
<1>1. total_process[t] = 0 /\ run.proc \in Slots /\ ~process[run.proc]
  BY DEF HaltBase, Core, RunOK, Halted
<1>2. UNCHANGED <<process, total_process, flag, terminal_num, prev, frame,
                  term, level, saved>>
  BY DEF HaltBase, pcbs
<1>3. /\ process_num'[t] = 0
      /\ \A u \in Terminals : u # t => process_num'[u] = process_num[u]
  BY DEF HaltBase, Tables
<1>4. run'.pc = "entry" /\ run'.ret = "halt"
  BY DEF HaltBase, Threads, ThreadOK, Thread
<1>5. Tree'
  BY <1>2 DEF Core, Tree, Chained
<1>6. Others' /\ Owned'
  BY <1>2, <1>3 DEF Core, Others, Suspended, Top, Owned
<1>7. RunOK'
  BY <1>1, <1>2, <1>3, <1>4 DEF RunOK, CallerOK
<1> QED
  BY <1>5, <1>6, <1>7 DEF Core

\* Lines 45-47: the parent exists, since programs are left on the terminal.
LEMMA CoreHaltRestore ==
    ASSUME Tables, Threads, Core, HaltRestore
    PROVE  Core'
<1> DEFINE t == terminal_num
           p == run.proc
           n == total_process[terminal_num]
<1>1. n > 0 /\ Halted(t, p, n) /\ process_num[t] = p /\ tss = p
  BY DEF HaltRestore, Core, RunOK
<1>2. p \in Slots /\ p # 0
  BY <1>1, SlotFacts DEF Halted
<1>3. UNCHANGED <<process, total_process, flag, terminal_num, prev, frame,
                  term, level, saved>>
  BY DEF HaltRestore, pcbs
<1>4. /\ process_num'[t] = prev[p]
      /\ \A u \in Terminals : u # t => process_num'[u] = process_num[u]
  BY <1>1, <1>2 DEF HaltRestore, Tables
<1>5. run'.pc = "clean" /\ run'.proc = p /\ run'.ptr = p
  BY <1>1, <1>2 DEF HaltRestore, Threads, ThreadOK, Thread
<1>6. Tree'
  BY <1>3 DEF Core, Tree, Chained
<1>7. Others'
  BY <1>3, <1>4 DEF Core, Others, Suspended, Top
<1>8. Owned'
  <2>1. prev[p] # 0 => term[prev[p]] = t
    BY <1>1 DEF Halted, Chained
  <2> QED
    BY <1>3, <1>4, <2>1 DEF Core, Owned
<1>9. Halted(t, p, n)'
  BY <1>1, <1>3, <1>5 DEF Halted, Chained
<1>10. RunOK'
  BY <1>1, <1>3, <1>4, <1>5, <1>9 DEF RunOK
<1> QED
  BY <1>6, <1>7, <1>8, <1>10 DEF Core

\* Steps that touch only descriptors or the screen.
LEMMA CoreOther ==
    ASSUME Tables, Threads, Core,
           \/ Open \/ Close \/ UNCHANGED vars
           \/ \E t \in Terminals : SwitchTerminal(t)
    PROVE  Core'
<1>1. UNCHANGED <<table, prev, frame, term, level, saved, terminal_num, run,
                  tss, pde, current_process_num>>
  BY DEF Open, Close, SwitchTerminal, vars, table, pcbs
<1>2. Tree' /\ Others' /\ Owned'
  BY <1>1, CoreFrame DEF Core
<1>3. RunOK'
  BY <1>1 DEF Core, RunOK, CallerOK, Top, Halted, Chained, table
<1> QED
  BY <1>2, <1>3 DEF Core

\* Lines 187-219 put a free slot on top of a terminal: on top of its parent,
\* or as the first program of an empty terminal.
LEMMA LaunchTree ==
    ASSUME Tables, Tree, NEW s \in Slots, NEW t \in Terminals, NEW q, NEW f,
           Launch(s, t, q, f), ~process[s],
           \/ q = 0 /\ total_process[t] = 0
           \/ Top(t, q) /\ f = [proc |-> q, ret |-> "user"]
    PROVE  /\ Tree' /\ Top(t, s)'
           /\ run'.pc = "launch" /\ run'.proc = s /\ tss' = s /\ pde' = s
           /\ \A u \in Terminals \ {t} :
                 /\ process_num'[u] = process_num[u] /\ flag'[u] = flag[u]
                 /\ total_process'[u] = total_process[u]
           /\ \A u \in Slots \ {s} :
                 /\ process'[u] = process[u] /\ term'[u] = term[u]
                 /\ level'[u] = level[u]
<1> DEFINE n == total_process[t]
<1>1. /\ run'.pc = "launch" /\ run'.proc = s /\ tss' = s /\ pde' = s
  BY DEF Launch
<1>2. /\ process'[s] /\ prev'[s] = q /\ frame'[s] = f /\ term'[s] = t
      /\ level'[s] = n + 1
      /\ \A u \in Slots \ {s} :
            /\ process'[u] = process[u] /\ prev'[u] = prev[u]
            /\ frame'[u] = frame[u] /\ term'[u] = term[u]
            /\ level'[u] = level[u]
  BY DEF Launch, Tables
<1>3. /\ process_num'[t] = s /\ flag'[t] /\ total_process'[t] = n + 1
      /\ \A u \in Terminals \ {t} :
            /\ process_num'[u] = process_num[u] /\ flag'[u] = flag[u]
            /\ total_process'[u] = total_process[u]
  BY DEF Launch, Tables
<1>4. n \in Int
  BY DEF Tables
<1>5. Chained(s)'
  <2>1. CASE q = 0 /\ n = 0
    BY <1>2, <1>3, <1>4, <2>1 DEF Chained
  <2>2. CASE Top(t, q) /\ f = [proc |-> q, ret |-> "user"]
    <3>1. q \in Slots /\ q # 0 /\ q # s /\ term[q] = t /\ level[q] = n
          /\ process[q]
      BY <2>2, SlotFacts DEF Top
    <3>2. level[q] > 0
      BY <3>1 DEF Tree, Chained
    <3>3. n + 1 > 0 /\ n + 1 # 1 /\ (n + 1) - 1 = n
      BY <1>4, <3>1, <3>2
    <3>4. process'[q] /\ term'[q] = t /\ level'[q] = n
      BY <1>2, <3>1
    <3> QED
      BY <1>2, <1>3, <2>2, <3>1, <3>3, <3>4 DEF Chained
  <2> QED
    BY <2>1, <2>2
<1>6. ASSUME NEW u \in Slots, u # s, process'[u] PROVE Chained(u)'
  <2>1. process[u] /\ Chained(u)
    BY <1>2, <1>6 DEF Tree
  <2>2. prev[u] # 0 => prev[u] \in Slots /\ prev[u] # s
    BY <2>1, SlotFacts DEF Chained, Tables
  <2>3. flag'[term[u]]
    BY <1>3, <2>1 DEF Chained, Tables
  <2> QED
    BY <1>2, <1>6, <2>1, <2>2, <2>3 DEF Chained
<1>7. ASSUME NEW u \in Slots, process'[u]
      PROVE  level'[u] <= total_process'[term'[u]]
  <2>1. CASE u = s
    BY <1>2, <1>3, <1>4, <2>1
  <2>2. CASE u # s
    <3>1. process[u] /\ level[u] <= total_process[term[u]]
      BY <1>2, <1>7, <2>2 DEF Tree
    <3>2. level[u] \in Int /\ term[u] \in Terminals
      BY DEF Tables
    <3> QED
      BY <1>2, <1>3, <1>4, <2>2, <3>1, <3>2
  <2> QED
    BY <2>1, <2>2
<1>8. ASSUME NEW u \in Slots, process[u], u # s, term[u] = t
      PROVE  level[u] # n + 1
  BY <1>4, <1>8 DEF Tree, Tables
<1>9. ASSUME NEW u \in Slots, NEW v \in Slots, process'[u], process'[v],
             term'[u] = term'[v], level'[u] = level'[v]
      PROVE  u = v
  BY <1>2, <1>8, <1>9 DEF Tree
<1>10. Tree'
  BY <1>5, <1>6, <1>7, <1>9 DEF Tree
<1>11. Top(t, s)'
  BY <1>2, <1>3 DEF Top
<1> QED
  BY <1>1, <1>2, <1>3, <1>10, <1>11

\* ExecuteBuild puts the slot it found on top of the running terminal.
LEMMA CoreBuild ==
    ASSUME Tables, Threads, Core, ExecuteBuild
    PROVE  Core'
<1>0. PICK s, t, q, f : /\ s = run.ptr /\ t = terminal_num
                        /\ q = current_process_num
                        /\ f = [proc |-> run.proc, ret |-> run.ret]
  OBVIOUS
<1>1. s \in Slots /\ ~process[s] /\ t \in Terminals /\ Launch(s, t, q, f)
  BY <1>0 DEF ExecuteBuild, Core, RunOK, Tables
<1>2. \/ q = 0 /\ total_process[t] = 0
      \/ Top(t, q) /\ f = [proc |-> q, ret |-> "user"]
  BY <1>0 DEF ExecuteBuild, Core, RunOK, CallerOK, Top
<1>3. terminal_num' = t /\ saved' = saved
  BY <1>0 DEF ExecuteBuild
<1>4. /\ Tree' /\ Top(t, s)'
      /\ run'.pc = "launch" /\ run'.proc = s /\ tss' = s /\ pde' = s
      /\ \A u \in Terminals \ {t} :
            /\ process_num'[u] = process_num[u] /\ flag'[u] = flag[u]
            /\ total_process'[u] = total_process[u]
      /\ \A u \in Slots \ {s} :
            /\ process'[u] = process[u] /\ term'[u] = term[u]
            /\ level'[u] = level[u]
  BY <1>1, <1>2, LaunchTree DEF Core
<1>5. ASSUME NEW u \in Terminals, u # t
      PROVE  Suspended(u)' /\ (process_num'[u] # 0 => term'[process_num'[u]] = u)
  <2>1. Suspended(u) /\ (process_num[u] # 0 => term[process_num[u]] = u)
    BY <1>0, <1>5 DEF Core, Others, Owned
  <2>2. flag[u] => process_num[u] \in Slots \ {s}
    BY <1>1, <2>1 DEF Suspended, Top
  <2> QED
    BY <1>3, <1>4, <1>5, <2>1, <2>2 DEF Suspended, Top
<1>6. Others'
  BY <1>3, <1>5 DEF Others
<1>7. Owned'
  BY <1>4, <1>5 DEF Owned, Top
<1>8. RunOK'
  BY <1>3, <1>4 DEF RunOK
<1> QED
  BY <1>4, <1>6, <1>7, <1>8 DEF Core

\* A switch that does not race finds a thread outside the windows, which is
\* the top program of its terminal on its own stack.
LEMMA SafeSwitch ==
    ASSUME Tables, Threads, Core, ~InWindow
    PROVE  /\ run.pc \in SafePCs
           /\ Top(terminal_num, run.proc) /\ tss = run.proc
           /\ ~OnBorrowedStack(run)
<1>1. run.pc \in PCs /\ run.pc # "wild"
  BY ThreadFields DEF Threads, Core, RunOK
<1>2. run.pc \in SafePCs
  BY <1>1 DEF PCs, InWindow
<1> QED
  BY <1>2 DEF SafePCs, Core, RunOK, InWindow

\* pit_handler: the thread is saved where its terminal will look for it, and
\* the thread resumed is the next terminal's.
LEMMA CoreTick ==
    ASSUME Tables, Threads, Core, Tick, ~raced'
    PROVE  Core'
<1>1. /\ run.pc \in SafePCs /\ Top(terminal_num, run.proc) /\ tss = run.proc
      /\ ~OnBorrowedStack(run)
  BY SafeSwitch DEF Tick
<1>2. PICK t \in Terminals :
        /\ flag[t] /\ terminal_num' = t
        /\ pde' = process_num[t] /\ tss' = process_num[t]
        /\ saved' = IF tss = 0 THEN saved ELSE [saved EXCEPT ![tss] = run]
        /\ run' \in IF tss = 0 \/ process_num[t] = 0
                    THEN {Wild} ELSE Resumed(saved'[process_num[t]])
  BY DEF Tick, IsNext
<1>3. UNCHANGED <<table, prev, frame, term, level>>
  BY DEF Tick, pcbs
<1>4. PICK o, p : o = terminal_num /\ p = run.proc
  OBVIOUS
<1>5. /\ p \in Slots /\ p # 0 /\ process_num[o] = p /\ tss = p
      /\ term[p] = o /\ o \in Terminals
  BY <1>1, <1>4, SlotFacts DEF Top, Tables
<1>6. saved' = [saved EXCEPT ![p] = run]
  BY <1>2, <1>5
<1>7. \A u \in Terminals : u # o => Suspended(u)
  BY <1>4 DEF Core, Others
<1>8. \A u \in Terminals : flag[u] =>
        /\ Top(u, process_num[u])
        /\ saved'[process_num[u]].proc = process_num[u]
        /\ saved'[process_num[u]].pc \in SafePCs
        /\ ~OnBorrowedStack(saved'[process_num[u]])
  <2> SUFFICES ASSUME NEW u \in Terminals, flag[u]
               PROVE  /\ Top(u, process_num[u])
                      /\ saved'[process_num[u]].proc = process_num[u]
                      /\ saved'[process_num[u]].pc \in SafePCs
                      /\ ~OnBorrowedStack(saved'[process_num[u]])
    OBVIOUS
  <2>1. CASE u = o
    BY <1>1, <1>4, <1>5, <1>6, <2>1 DEF Threads
  <2>2. CASE u # o
    <3>1. Top(u, process_num[u]) /\ process_num[u] # p
      BY <1>5, <1>7, <2>2 DEF Suspended, Top
    <3>2. saved'[process_num[u]] = saved[process_num[u]]
      BY <1>6, <3>1 DEF Threads, Top
    <3> QED
      BY <1>7, <2>2, <3>1, <3>2 DEF Suspended
  <2> QED
    BY <2>1, <2>2
<1>9. Tree' /\ Owned'
  BY <1>3 DEF Core, Tree, Chained, Owned, table
<1>10. \A u \in Terminals : ~flag[u] => process_num[u] = 0 /\ total_process[u] = 0
  BY <1>1, <1>4, <1>7 DEF Suspended, Top
<1>11. Others'
  BY <1>3, <1>8, <1>10 DEF Others, Suspended, Top, table
<1>12. RunOK'
  <2>1. PICK r : r = process_num[t]
    OBVIOUS
  <2>2. Top(t, r) /\ r # 0
    BY <1>2, <1>8, <2>1, SlotFacts DEF Top
  <2>3. run' = saved'[r] /\ run'.proc = r /\ run'.pc \in SafePCs
    BY <1>2, <1>5, <1>8, <2>1, <2>2 DEF Resumed
  <2>4. Top(t, r)'
    BY <1>3, <2>2 DEF Top, table
  <2> QED
    BY <1>2, <2>1, <2>3, <2>4 DEF RunOK, SafePCs
<1> QED
  BY <1>9, <1>11, <1>12 DEF Core

\* switch_terminal to a new terminal: the interrupted terminal is suspended
\* like any other, and the new shell is the first program of its own.
LEMMA CoreOpenTerminal ==
    ASSUME Tables, Threads, Core, NEW t \in Terminals, OpenTerminal(t), ~raced'
    PROVE  Core'
<1>1. /\ run.pc \in SafePCs /\ Top(terminal_num, run.proc) /\ tss = run.proc
      /\ ~OnBorrowedStack(run)
  BY SafeSwitch DEF OpenTerminal
<1>2. PICK o, p : o = terminal_num /\ p = run.proc
  OBVIOUS
<1>3. /\ p \in Slots /\ process[p] /\ process_num[o] = p /\ term[p] = o
      /\ flag[o] /\ o \in Terminals
  BY <1>1, <1>2 DEF Top, Tables
<1>4. t # o /\ ~flag[t] /\ process_num[t] = 0 /\ total_process[t] = 0
  BY <1>2, <1>3 DEF OpenTerminal, Core, Others, Suspended
<1>5. PICK s \in Slots :
        ~process[s] /\ Launch(s, t, 0, [proc |-> run.proc, ret |-> "switch"])
  BY <1>4 DEF OpenTerminal, IsFirstFree, FreeSlots
<1>6. PICK f : f = [proc |-> run.proc, ret |-> "switch"]
  OBVIOUS
<1>7. Launch(s, t, 0, f)
  BY <1>5, <1>6
<1>8. /\ Tree' /\ Top(t, s)'
      /\ run'.pc = "launch" /\ run'.proc = s /\ tss' = s /\ pde' = s
      /\ \A u \in Terminals \ {t} :
            /\ process_num'[u] = process_num[u] /\ flag'[u] = flag[u]
            /\ total_process'[u] = total_process[u]
      /\ \A u \in Slots \ {s} :
            /\ process'[u] = process[u] /\ term'[u] = term[u]
            /\ level'[u] = level[u]
  BY <1>4, <1>5, <1>7, LaunchTree DEF Core
<1>9. terminal_num' = t /\ saved' = [saved EXCEPT ![p] = run]
  BY <1>1, <1>2 DEF OpenTerminal
<1>10. ASSUME NEW u \in Terminals, u # t
       PROVE  Suspended(u)' /\ (process_num'[u] # 0 => term'[process_num'[u]] = u)
  <2>1. CASE u = o
    <3>1. process_num'[o] = p /\ flag'[o] /\ p # s
      BY <1>3, <1>4, <1>5, <1>8
    <3>2. saved'[p] = run
      BY <1>3, <1>9 DEF Threads
    <3>3. Top(o, p)'
      BY <1>1, <1>2, <1>3, <1>4, <1>8, <3>1 DEF Top
    <3> QED
      BY <1>1, <1>2, <2>1, <3>1, <3>2, <3>3 DEF Suspended, Top
  <2>2. CASE u # o
    <3>1. Suspended(u) /\ (process_num[u] # 0 => term[process_num[u]] = u)
      BY <1>2, <2>2 DEF Core, Others, Owned
    <3>2. flag[u] => process_num[u] \in Slots \ {s, p}
      BY <1>3, <1>5, <2>2, <3>1 DEF Suspended, Top
    <3>3. flag[u] => saved'[process_num[u]] = saved[process_num[u]]
      BY <1>9, <3>2 DEF Threads
    <3> QED
      BY <1>8, <1>10, <3>1, <3>2, <3>3 DEF Suspended, Top
  <2> QED
    BY <2>1, <2>2
<1>11. Others'
  BY <1>9, <1>10 DEF Others
<1>12. Owned'
  BY <1>8, <1>10 DEF Owned, Top
<1>13. RunOK'
  BY <1>8, <1>9 DEF RunOK
<1> QED
  BY <1>8, <1>11, <1>12, <1>13 DEF Core

\* The same with no free slot: nothing changes but the saved copy of the
\* thread that runs on.
LEMMA CoreOpenFull ==
    ASSUME Tables, Threads, Core, NEW t \in Terminals, OpenTerminalFull(t),
           ~raced'
    PROVE  Core'
<1>1. /\ run.pc \in SafePCs /\ Top(terminal_num, run.proc) /\ tss = run.proc
      /\ ~OnBorrowedStack(run)
  BY SafeSwitch DEF OpenTerminalFull
<1>2. /\ UNCHANGED <<table, prev, frame, term, level, terminal_num, run, tss, pde>>
      /\ saved' = [saved EXCEPT ![run.proc] = run]
  BY <1>1 DEF OpenTerminalFull, pcbs
<1>3. Tree' /\ Owned'
  BY <1>2 DEF Core, Tree, Chained, Owned, table
<1>4. ASSUME NEW u \in Terminals, u # terminal_num PROVE Suspended(u)'
  <2>1. Suspended(u)
    BY <1>4 DEF Core, Others
  <2>2. flag[u] => process_num[u] \in Slots /\ process_num[u] # run.proc
    BY <1>1, <1>4, <2>1 DEF Suspended, Top
  <2>3. flag[u] => saved'[process_num[u]] = saved[process_num[u]]
    BY <1>2, <2>2 DEF Threads
  <2> QED
    BY <1>2, <2>1, <2>3 DEF Suspended, Top, table
<1>5. Others'
  BY <1>2, <1>4 DEF Others
<1>6. RunOK'
  BY <1>1, <1>2 DEF Core, RunOK, SafePCs, Top, table
<1> QED
  BY <1>3, <1>5, <1>6 DEF Core

\* Before the first shell every switch races.
LEMMA CoreOpenEarly ==
    ASSUME Tables, Threads, Core, NEW t \in Terminals, OpenTerminalEarly(t)
    PROVE  raced'
<1>1. ~InWindow => tss \in Slots
  BY SafeSwitch DEF Top
<1> QED
  BY <1>1, SlotFacts DEF OpenTerminalEarly

\* The invariant is kept by every step, as long as no switch races.
LEMMA CoreStep == TypeInv /\ Core /\ [Next]_vars /\ ~raced' => Core'
<1> SUFFICES ASSUME Tables, Threads, Core, [Next]_vars, ~raced' PROVE Core'
  BY TypeSplit
<1>1. CASE Execute
  BY <1>1, CoreExecute, CoreBuild DEF Execute
<1>2. CASE Halt
  BY <1>2, CoreHaltLocal, CoreHaltFree, CoreHaltCount, CoreHaltBase,
     CoreHaltRestore DEF Halt
<1>3. CASE Files \/ UNCHANGED vars
  BY <1>3, CoreOther DEF Files
<1>4. CASE Tick
  BY <1>4, CoreTick
<1>5. CASE Keyboard
  BY <1>5, CoreOther, CoreOpenTerminal, CoreOpenFull, CoreOpenEarly DEF Keyboard
<1> QED
  BY <1>1, <1>2, <1>3, <1>4, <1>5 DEF Next

\* A race is never forgotten.
LEMMA RacedStays == [Next]_vars /\ raced => raced'
BY DEF Next, Execute, Halt, Files, Keyboard, Tick, Open, Close, ExecuteCall,
   ExecuteNull, ExecuteEntry, ExecuteScan, ExecuteFull, ExecuteRefused,
   ExecuteBuild, ExecuteIret, HaltCall, HaltFree, HaltCount, HaltBase,
   HaltRestore, HaltClean, HaltTss, HaltJump, SwitchTerminal, OpenTerminal,
   OpenTerminalFull, OpenTerminalEarly, vars

\* IInv is an invariant.
THEOREM Invariance == Spec => []IInv
<1>1. Init => IInv
  BY TypeInit, CoreInit DEF IInv
<1>2. IInv /\ [Next]_vars => IInv'
  BY TypeStep, CoreStep, RacedStays DEF IInv
<1> QED
  BY <1>1, <1>2, PTL DEF Spec

-----------------------------------------------------------------------------
(* What the invariant gives. *)

\* Whatever the number of slots and terminals, and as long as no switch lands
\* inside a window of halt or execute, no two terminals share a slot.
THEOREM SlotsExclusive == Spec => []ExclusiveSlots
<1>1. IInv => ExclusiveSlots
  BY DEF IInv, Core, Owned, ExclusiveSlots, ExclusiveSlotsAlways
<1> QED
  BY <1>1, Invariance, PTL

\* Under the same condition the slots in use form one chain per terminal.
THEOREM ChainsIntact == Spec => []Chains
<1>1. IInv => Chains
  BY DEF IInv, Core, Tree, Chains
<1> QED
  BY <1>1, Invariance, PTL

\* Under the same condition the timer and the keyboard only ever resume a
\* terminal's own top program, with its own page and kernel stack.
THEOREM ContextOwned == Spec => []OwnContext
<1>1. IInv => OwnContext
  <2> SUFFICES ASSUME IInv, ~raced PROVE OwnContext
    BY DEF OwnContext
  <2>1. run.pc \in SafePCs => Top(terminal_num, run.proc) /\ tss = run.proc
                              /\ pde = run.proc
    BY DEF IInv, Core, RunOK, SafePCs
  <2>2. \A t \in Terminals : flag[t] /\ t # terminal_num =>
           /\ Top(t, process_num[t])
           /\ saved[process_num[t]].proc = process_num[t]
           /\ saved[process_num[t]].pc \in SafePCs
           /\ ~OnBorrowedStack(saved[process_num[t]])
    BY DEF IInv, Core, Others, Suspended
  <2> QED
    BY <2>1, <2>2, SlotFacts DEF OwnContext, Top
<1> QED
  BY <1>1, Invariance, PTL

\* Under the same condition no jump leaves the code, and the shell that
\* replaces the last program of a terminal always finds a slot.
THEOREM JumpsSafe == Spec => []NoWildJump
<1>1. IInv => NoWildJump
  BY DEF IInv, Core, RunOK, NoWildJump
<1> QED
  BY <1>1, Invariance, PTL

\* Under the same condition a halt frees the slot of the program that halts
\* and no other, although it reads the slot's number from a shared global.
THEOREM HaltFreesItself == Spec => FreesOnlyItself
<1>1. IInv /\ [Next]_vars => [~raced => FreesOwnSlot]_vars
  <2> SUFFICES ASSUME IInv, Next, ~raced, NEW s \in Slots,
                      process[s], ~process'[s]
               PROVE  s = run.proc /\ term[s] = terminal_num
    BY DEF FreesOwnSlot
  <2>1. process \in [Slots -> BOOLEAN]
    BY DEF IInv, TypeInv, TypeOK
  <2>2. HaltFree
    BY <2>1 DEF Next, Execute, Halt, Files, Keyboard, Tick, Open, Close,
       ExecuteCall, ExecuteNull, ExecuteEntry, ExecuteScan, ExecuteFull,
       ExecuteRefused, ExecuteBuild, ExecuteIret, HaltCall, HaltCount,
       HaltBase, HaltRestore, HaltClean, HaltTss, HaltJump, SwitchTerminal,
       OpenTerminal, OpenTerminalFull, OpenTerminalEarly, Launch, table
  <2>3. s = current_process_num
    BY <2>2 DEF HaltFree
  <2>4. Top(terminal_num, run.proc) /\ current_process_num = run.proc
    BY <2>2 DEF HaltFree, IInv, Core, RunOK, Top
  <2> QED
    BY <2>3, <2>4 DEF Top
<1> QED
  BY <1>1, Invariance, PTL DEF Spec, FreesOnlyItself

-----------------------------------------------------------------------------
(* The count of programs, and the slot execute found.                        *)

On(t) == {s \in Slots : process[s] /\ term[s] = t}
Halting(t) == IF run.pc = "count" /\ t = terminal_num THEN 1 ELSE 0
Counts == \A t \in Terminals : total_process[t] = Cardinality(On(t)) + Halting(t)

\* The slot execute chose is still the first free one when it is taken.
BuildFirst == run.pc = "build" => IsFirstFree(run.ptr)

CountInv == IInv /\ (~raced => Counts /\ BuildFirst)

\* What is not done by the four steps that start or end a program.
Quiet == /\ UNCHANGED <<process, term, level, total_process>>
         /\ (run'.pc = "count") = (run.pc = "count")
         /\ run.pc = "count" => terminal_num' = terminal_num

\* Where execute returns to and where halt goes on.
LEMMA ReturnPCs ==
    ASSUME Threads
    PROVE  /\ ExecuteFull \/ ExecuteRefused => run'.pc \in {"user", "restore", "wild"}
           /\ HaltRestore \/ HaltJump => run'.pc \in {"user", "clean", "wild"}
<1>1. ASSUME ExecuteFull PROVE run'.pc \in {"user", "restore", "wild"}
  <2>1. CASE run.ret = "user"
    BY <1>1, <2>1 DEF ExecuteFull, UserThread
  <2>2. CASE run.ret = "halt"
    BY <1>1, <2>2 DEF ExecuteFull, Threads, ThreadOK, Thread
  <2>3. CASE run.ret \notin {"user", "halt"}
    BY <1>1, <2>3 DEF ExecuteFull, Wild
  <2> QED
    BY <2>1, <2>2, <2>3
<1>2. ASSUME HaltRestore PROVE run'.pc \in {"user", "clean", "wild"}
  <2>1. CASE tss = 0
    BY <1>2, <2>1 DEF HaltRestore, Wild
  <2>2. CASE tss # 0
    BY <1>2, <2>2 DEF HaltRestore, Threads, ThreadOK, Thread
  <2> QED
    BY <2>1, <2>2
<1>3. ASSUME HaltJump PROVE run'.pc \in {"user", "clean", "wild"}
  <2>1. run' = Wild \/ run' = UserThread(frame[run.ptr].proc)
    BY <1>3 DEF HaltJump
  <2> QED
    BY <2>1 DEF Wild, UserThread
<1>4. ASSUME ExecuteRefused PROVE run'.pc \in {"user", "restore", "wild"}
  BY <1>4 DEF ExecuteRefused, UserThread
<1> QED
  BY <1>1, <1>2, <1>3, <1>4

\* pit_handler saves the thread in its own control block and resumes that of an
\* open terminal's program, out of the windows.
LEMMA TickResumes ==
    ASSUME Tables, Threads, Core, Tick, ~raced'
    PROVE  /\ run.pc \in SafePCs /\ Top(terminal_num, run.proc)
           /\ saved' = [saved EXCEPT ![run.proc] = run]
           /\ \E t \in Terminals :
                 /\ terminal_num' = t /\ flag[t] /\ process_num[t] \in Slots
                 /\ run' = saved'[process_num[t]] /\ run'.pc \in SafePCs
                 /\ t # terminal_num => run' = saved[process_num[t]]
                 /\ t = terminal_num => run' = run
<1>1. /\ run.pc \in SafePCs /\ Top(terminal_num, run.proc) /\ tss = run.proc
      /\ ~OnBorrowedStack(run)
  BY SafeSwitch DEF Tick
<1>2. PICK t \in Terminals :
        /\ flag[t] /\ terminal_num' = t
        /\ saved' = IF tss = 0 THEN saved ELSE [saved EXCEPT ![tss] = run]
        /\ run' \in IF tss = 0 \/ process_num[t] = 0
                    THEN {Wild} ELSE Resumed(saved'[process_num[t]])
  BY DEF Tick, IsNext
<1>3. run.proc \in Slots /\ tss # 0 /\ term[run.proc] = terminal_num
  BY <1>1, SlotFacts DEF Top
<1>4. saved' = [saved EXCEPT ![run.proc] = run]
  BY <1>1, <1>2, <1>3
<1>5. CASE t = terminal_num
  <2>1. process_num[t] = run.proc
    BY <1>1, <1>5 DEF Top
  <2>2. run' = run
    <3>1. saved'[process_num[t]] = run /\ process_num[t] # 0
      BY <1>3, <1>4, <2>1, SlotFacts DEF Threads
    <3> QED
      BY <1>1, <1>2, <1>3, <3>1 DEF Resumed
  <2> QED
    BY <1>1, <1>2, <1>3, <1>4, <1>5, <2>1, <2>2, SlotFacts DEF Threads
<1>6. CASE t # terminal_num
  <2>1. Suspended(t)
    BY <1>6 DEF Core, Others
  <2>2. /\ process_num[t] \in Slots /\ term[process_num[t]] = t
        /\ saved[process_num[t]].pc \in SafePCs
        /\ ~OnBorrowedStack(saved[process_num[t]])
    BY <1>2, <2>1 DEF Suspended, Top
  <2>3. saved'[process_num[t]] = saved[process_num[t]]
    BY <1>3, <1>4, <1>6, <2>2 DEF Threads
  <2>4. run' = saved[process_num[t]] /\ run' = saved'[process_num[t]]
    BY <1>2, <1>3, <2>2, <2>3, SlotFacts DEF Resumed
  <2> QED
    BY <1>1, <1>2, <1>4, <1>6, <2>2, <2>4
<1> QED
  BY <1>5, <1>6

\* Only four steps start or end a program.
LEMMA QuietStep ==
    ASSUME Tables, Threads, Core, [Next]_vars, ~raced',
           ~HaltFree, ~HaltCount, ~ExecuteBuild,
           ~(\E t \in Terminals : OpenTerminal(t))
    PROVE  Quiet
<1> USE DEF Quiet, table, pcbs
<1>1. CASE ExecuteCall \/ HaltBase
  BY <1>1 DEF ExecuteCall, HaltBase, Threads, ThreadOK, Thread
<1>2. CASE ExecuteNull
  BY <1>2 DEF ExecuteNull
<1>3. CASE ExecuteEntry \/ ExecuteIret \/ HaltCall \/ HaltClean \/ HaltTss
  BY <1>3, GotoFields DEF ExecuteEntry, ExecuteIret, UserThread, HaltCall,
     HaltClean, HaltTss
<1>4. CASE ExecuteScan
  <2>1. PICK s \in Slots : run' = [run EXCEPT !.pc = "build", !.ptr = s]
    BY <1>4 DEF ExecuteScan
  <2>2. run'.pc = "build"
    BY <2>1 DEF Threads, ThreadOK, Thread
  <2> QED
    BY <1>4, <2>2 DEF ExecuteScan
<1>5. CASE ExecuteFull \/ ExecuteRefused
  BY <1>5, ReturnPCs DEF ExecuteFull, ExecuteRefused
<1>6. CASE HaltRestore \/ HaltJump
  BY <1>6, ReturnPCs DEF HaltRestore, HaltJump
<1>7. CASE Files
  BY <1>7 DEF Files, Open, Close
<1>8. CASE Tick
  <2>1. run.pc # "count" /\ run'.pc # "count"
    BY <1>8, TickResumes DEF SafePCs
  <2> QED
    BY <1>8, <2>1 DEF Tick
<1>9. ASSUME NEW t \in Terminals, SwitchTerminal(t) PROVE Quiet
  BY <1>9 DEF SwitchTerminal
<1>10. ASSUME NEW t \in Terminals, OpenTerminalFull(t) PROVE Quiet
  BY <1>10 DEF OpenTerminalFull
<1>11. ASSUME NEW t \in Terminals, OpenTerminalEarly(t) PROVE Quiet
  BY <1>11, CoreOpenEarly
<1>12. CASE UNCHANGED vars
  BY <1>12 DEF vars
<1> QED
  BY <1>1, <1>2, <1>3, <1>4, <1>5, <1>6, <1>7, <1>8, <1>9, <1>10, <1>11, <1>12
     DEF Next, Execute, Halt, Keyboard

\* The programs of a terminal are finitely many slots.
LEMMA OnFinite ==
    \A t : /\ IsFiniteSet(On(t)) /\ Cardinality(On(t)) \in 0..N
           /\ On(t) \subseteq Slots
<1> SUFFICES ASSUME NEW t PROVE /\ IsFiniteSet(On(t)) /\ Cardinality(On(t)) \in 0..N
                                /\ On(t) \subseteq Slots
  OBVIOUS
<1>1. IsFiniteSet(Slots) /\ Cardinality(Slots) = N
  BY NAssumption, FS_Interval DEF Slots
<1>2. On(t) \in SUBSET Slots
  BY DEF On
<1>3. IsFiniteSet(On(t)) /\ Cardinality(On(t)) <= N
  BY <1>1, <1>2, FS_Subset
<1>4. Cardinality(On(t)) \in Nat
  BY <1>3, FS_CardinalityType
<1> QED
  BY <1>2, <1>3, <1>4, NAssumption

\* Line 35 takes one program off, which is counted off by the next statement.
LEMMA CountsFree ==
    ASSUME Tables, Threads, Core, HaltFree, Counts
    PROVE  Counts'
<1>1. Top(terminal_num, run.proc) /\ current_process_num = run.proc
  BY DEF HaltFree, Core, RunOK, Top
<1>2. /\ process' = [s \in Slots |-> process[s] /\ s # run.proc]
      /\ UNCHANGED <<total_process, terminal_num, term>>
  BY <1>1 DEF HaltFree, pcbs
<1>3. run.pc = "free" /\ run'.pc = "count"
  BY GotoFields DEF HaltFree
<1> SUFFICES ASSUME NEW t \in Terminals
             PROVE  total_process'[t] = Cardinality(On(t)') + Halting(t)'
  BY DEF Counts
<1>4. total_process[t] = Cardinality(On(t))
  <2>1. total_process[t] = Cardinality(On(t)) + 0
    BY <1>3 DEF Counts, Halting
  <2> QED
    BY <2>1, OnFinite
<1>5. CASE t = terminal_num
  <2>1. On(t)' = On(t) \ {run.proc} /\ run.proc \in On(t)
    BY <1>1, <1>2, <1>5 DEF On, Top
  <2>2. Cardinality(On(t)') = Cardinality(On(t)) - 1
    BY <2>1, OnFinite, FS_RemoveElement
  <2>3. Halting(t)' = 1
    BY <1>2, <1>3, <1>5 DEF Halting
  <2> QED
    BY <1>2, <1>4, <2>2, <2>3, OnFinite
<1>6. CASE t # terminal_num
  <2>1. On(t)' = On(t)
    BY <1>1, <1>2, <1>6 DEF On, Top
  <2>2. Halting(t)' = 0
    BY <1>2, <1>6 DEF Halting
  <2> QED
    BY <1>2, <1>4, <2>1, <2>2, OnFinite
<1> QED
  BY <1>5, <1>6

\* Line 37 counts it off.
LEMMA CountsCount ==
    ASSUME Tables, Threads, HaltCount, Counts
    PROVE  Counts'
<1>1. /\ UNCHANGED <<process, terminal_num, term>>
      /\ total_process' = [total_process EXCEPT ![terminal_num] = @ - 1]
  BY DEF HaltCount, pcbs
<1>2. run.pc = "count" /\ run'.pc # "count"
  BY GotoFields DEF HaltCount
<1> SUFFICES ASSUME NEW t \in Terminals
             PROVE  total_process'[t] = Cardinality(On(t)') + Halting(t)'
  BY DEF Counts
<1>3. On(t)' = On(t) /\ Halting(t)' = 0
  BY <1>1, <1>2 DEF On, Halting
<1>4. total_process[t] = Cardinality(On(t)) + (IF t = terminal_num THEN 1 ELSE 0)
  BY <1>2 DEF Counts, Halting
<1> QED
  BY <1>1, <1>3, <1>4, OnFinite DEF Tables

\* Lines 187-219 add one program and count it.
LEMMA CountsLaunch ==
    ASSUME Tables, NEW s \in Slots, NEW t \in Terminals, NEW q, NEW f,
           Launch(s, t, q, f), ~process[s], run.pc # "count", Counts
    PROVE  Counts'
<1>1. run'.pc = "launch"
  BY DEF Launch
<1>2. /\ process' = [process EXCEPT ![s] = TRUE] /\ term' = [term EXCEPT ![s] = t]
      /\ total_process' = [total_process EXCEPT ![t] = @ + 1]
  BY DEF Launch
<1> SUFFICES ASSUME NEW u \in Terminals
             PROVE  total_process'[u] = Cardinality(On(u)') + Halting(u)'
  BY DEF Counts
<1>3. Halting(u)' = 0 /\ Halting(u) = 0
  BY <1>1 DEF Halting
<1>4. total_process[u] = Cardinality(On(u))
  BY <1>3, OnFinite DEF Counts
<1>5. CASE u = t
  <2>1. On(u)' = On(u) \cup {s} /\ s \notin On(u)
    BY <1>2, <1>5 DEF On, Tables
  <2>2. Cardinality(On(u)') = Cardinality(On(u)) + 1
    BY <2>1, OnFinite, FS_AddElement
  <2> QED
    BY <1>2, <1>3, <1>4, <1>5, <2>2, OnFinite DEF Tables
<1>6. CASE u # t
  <2>1. On(u)' = On(u)
    BY <1>2, <1>6 DEF On, Tables
  <2> QED
    BY <1>2, <1>3, <1>4, <1>6, <2>1, OnFinite DEF Tables
<1> QED
  BY <1>5, <1>6

\* The count is kept by every step, as long as no switch races.
LEMMA CountsStep ==
    ASSUME Tables, Threads, Core, Counts, [Next]_vars, ~raced'
    PROVE  Counts'
<1>1. CASE HaltFree
  BY <1>1, CountsFree
<1>2. CASE HaltCount
  BY <1>2, CountsCount
<1>3. CASE ExecuteBuild
  <2>1. PICK s, t, q, f : /\ s = run.ptr /\ t = terminal_num
                          /\ q = current_process_num
                          /\ f = [proc |-> run.proc, ret |-> run.ret]
    OBVIOUS
  <2>2. s \in Slots /\ ~process[s] /\ t \in Terminals /\ Launch(s, t, q, f)
        /\ run.pc # "count"
    BY <1>3, <2>1 DEF ExecuteBuild, Core, RunOK, Tables
  <2> QED
    BY <2>2, CountsLaunch
<1>4. ASSUME NEW t \in Terminals, OpenTerminal(t) PROVE Counts'
  <2>1. PICK q, f : q = process_num[t] /\ f = [proc |-> run.proc, ret |-> "switch"]
    OBVIOUS
  <2>2. PICK s \in Slots : ~process[s] /\ Launch(s, t, q, f)
    BY <1>4, <2>1 DEF OpenTerminal, IsFirstFree, FreeSlots
  <2>3. run.pc # "count"
    BY <1>4, SafeSwitch DEF OpenTerminal, SafePCs
  <2> QED
    BY <2>2, <2>3, CountsLaunch
<1>5. ASSUME Quiet PROVE Counts'
  <2>1. \A t \in Terminals : On(t)' = On(t) /\ Halting(t)' = Halting(t)
    BY <1>5 DEF Quiet, On, Halting
  <2> QED
    BY <1>5, <2>1 DEF Quiet, Counts
<1> QED
  BY <1>1, <1>2, <1>3, <1>4, <1>5, QuietStep

\* Between the scan and the taking of the slot nobody takes or frees one.
LEMMA BuildStep ==
    ASSUME Tables, Threads, Core, BuildFirst, [Next]_vars, ~raced'
    PROVE  BuildFirst'
<1> SUFFICES ASSUME run'.pc = "build" PROVE IsFirstFree(run.ptr)'
  BY DEF BuildFirst
<1>1. CASE ExecuteScan
  <2>1. PICK s \in Slots :
          IsFirstFree(s) /\ run' = [run EXCEPT !.pc = "build", !.ptr = s]
    BY <1>1 DEF ExecuteScan
  <2>2. run'.ptr = s /\ process' = process
    BY <1>1, <2>1 DEF ExecuteScan, Threads, ThreadOK, Thread, table
  <2> QED
    BY <2>1, <2>2 DEF IsFirstFree, FreeSlots
<1>2. CASE run' = run /\ process' = process
  BY <1>2 DEF BuildFirst, IsFirstFree, FreeSlots
<1>3. CASE ExecuteCall \/ HaltBase
  BY <1>3 DEF ExecuteCall, HaltBase, Threads, ThreadOK, Thread
<1>4. CASE \/ ExecuteEntry \/ ExecuteIret \/ HaltCall \/ HaltFree \/ HaltCount
           \/ HaltClean \/ HaltTss
  BY <1>4, GotoFields DEF ExecuteEntry, ExecuteIret, UserThread, HaltCall,
     HaltFree, HaltCount, HaltClean, HaltTss
<1>5. CASE ExecuteBuild
  BY <1>5 DEF ExecuteBuild, Launch
<1>6. CASE ExecuteFull \/ ExecuteRefused
  BY <1>6, ReturnPCs
<1>7. CASE HaltRestore \/ HaltJump
  BY <1>7, ReturnPCs
<1>8. CASE Tick
  BY <1>8, TickResumes DEF SafePCs
<1>9. ASSUME NEW t \in Terminals, OpenTerminal(t) \/ OpenTerminalEarly(t) PROVE FALSE
  BY <1>9 DEF OpenTerminal, OpenTerminalEarly, Launch, Wild
<1>10. ASSUME NEW t \in Terminals, SwitchTerminal(t) \/ OpenTerminalFull(t)
       PROVE  run' = run /\ process' = process
  BY <1>10 DEF SwitchTerminal, OpenTerminalFull, table
<1>11. ASSUME ExecuteNull \/ Files \/ UNCHANGED vars
       PROVE  run' = run /\ process' = process
  BY <1>11 DEF ExecuteNull, Files, Open, Close, vars, table
<1> QED
  BY <1>1, <1>2, <1>3, <1>4, <1>5, <1>6, <1>7, <1>8, <1>9, <1>10, <1>11
     DEF Next, Execute, Halt, Keyboard

\* The two are invariants together with IInv.
THEOREM CountInvariance == Spec => []CountInv
<1>1. Init => Counts /\ BuildFirst
  <2> SUFFICES ASSUME Init PROVE Counts /\ BuildFirst
    OBVIOUS
  <2>1. \A t \in Terminals : On(t) = {} /\ Halting(t) = 0 /\ total_process[t] = 0
    BY DEF Init, On, Halting
  <2>2. Cardinality({}) = 0
    BY FS_EmptySet
  <2>3. Counts
    BY <2>1, <2>2 DEF Counts
  <2>4. BuildFirst
    BY DEF Init, BuildFirst
  <2> QED
    BY <2>3, <2>4
<1>2. Init => IInv
  BY TypeInit, CoreInit DEF IInv
<1>3. CountInv /\ [Next]_vars => CountInv'
  <2> SUFFICES ASSUME CountInv, [Next]_vars PROVE CountInv'
    OBVIOUS
  <2>1. IInv'
    BY TypeStep, CoreStep, RacedStays DEF IInv, CountInv
  <2>2. ASSUME ~raced' PROVE Counts' /\ BuildFirst'
    <3>1. ~raced
      BY <2>2, RacedStays
    <3>2. Tables /\ Threads /\ Core /\ Counts /\ BuildFirst
      BY <3>1, TypeSplit DEF CountInv, IInv
    <3> QED
      BY <2>2, <3>2, CountsStep, BuildStep
  <2> QED
    BY <2>1, <2>2 DEF CountInv
<1> QED
  BY <1>1, <1>2, <1>3, PTL DEF Spec, CountInv

\* As long as no switch lands in a window, total_process is the number of slots in
\* use on its terminal, for every number of slots and terminals
\* (syscall.c 35-37 and 211).
THEOREM TotalsExact == Spec => []TotalCounts
<1>1. CountInv => TotalCounts
  BY DEF CountInv, Counts, On, Halting, TotalCounts
<1> QED
  BY <1>1, CountInvariance, PTL

-----------------------------------------------------------------------------
(* The refinement: the slots in use are stacks of programs.                  *)

Place == [s \in Slots |-> IF process[s] /\ ~raced THEN term[s] ELSE -1]
Depth == [s \in Slots |-> IF process[s] /\ ~raced THEN level[s] ELSE 0]

\* A terminal is not the place of a free slot.
LEMMA Somewhere == \A t \in Terminals : t # -1
BY TAssumption DEF Terminals

\* The height of a terminal's stack is total_process, when nobody is halting.
LEMMA StackHeight ==
    ASSUME Tables, Tree, Counts, ~raced, run.pc # "count", NEW t \in Terminals,
           NEW q, (q = 0 /\ total_process[t] = 0) \/ Top(t, q)
    PROVE  total_process[t] \in 0..N /\ Stacks!Height(t, total_process[t])
<1>1. total_process[t] = Cardinality(On(t)) + 0
  BY DEF Counts, Halting
<1>2. total_process[t] \in 0..N
  BY <1>1, OnFinite
<1>3. \A s \in Slots : Place[s] = t => Depth[s] <= total_process[t]
  <2> SUFFICES ASSUME NEW s \in Slots, Place[s] = t PROVE Depth[s] <= total_process[t]
    OBVIOUS
  <2>1. process[s] /\ term[s] = t
    BY Somewhere DEF Place
  <2> QED
    BY <2>1 DEF Depth, Tree
<1>4. total_process[t] = 0
      \/ \E s \in Slots : Place[s] = t /\ Depth[s] = total_process[t]
  <2>1. ASSUME Top(t, q)
        PROVE  q \in Slots /\ Place[q] = t /\ Depth[q] = total_process[t]
    BY <2>1 DEF Top, Place, Depth
  <2> QED
    BY <2>1
<1> QED
  BY <1>2, <1>3, <1>4 DEF Stacks!Height, Stacks!Slots, Slots, Place, Depth

\* Taking the first free slot on top of terminal t is Start(t).
LEMMA StackStart ==
    ASSUME Tables, Tree, Counts, raced = FALSE, raced' = FALSE, run.pc # "count",
           NEW s \in Slots, NEW t \in Terminals, NEW q, NEW f,
           Launch(s, t, q, f), IsFirstFree(s),
           (q = 0 /\ total_process[t] = 0) \/ Top(t, q)
    PROVE  Stacks!Start(t)
<1>1. /\ process' = [process EXCEPT ![s] = TRUE] /\ term' = [term EXCEPT ![s] = t]
      /\ level' = [level EXCEPT ![s] = total_process[t] + 1]
  BY DEF Launch
<1>2. total_process[t] \in 0..N /\ Stacks!Height(t, total_process[t])
  BY StackHeight
<1>3. Place' = [Place EXCEPT ![s] = t]
  BY <1>1 DEF Place, Tables
<1>4. Depth' = [Depth EXCEPT ![s] = total_process[t] + 1]
  BY <1>1 DEF Depth, Tables
<1>5. Stacks!FirstFree(s, Stacks!FreeSlots)
  <2>1. {u \in Slots : Place[u] = -1} = FreeSlots
    BY Somewhere DEF Place, FreeSlots, Tables
  <2>2. Stacks!FreeSlots = FreeSlots
    BY <2>1 DEF Stacks!FreeSlots, Stacks!Slots, Slots, Stacks!Nowhere, Place
  <2> QED
    BY <2>2 DEF IsFirstFree, Stacks!FirstFree
<1>6. s \in Stacks!Slots
  BY DEF Stacks!Slots, Slots
<1> QED
  BY <1>2, <1>3, <1>4, <1>5, <1>6 DEF Stacks!Start, Place, Depth

\* Freeing the slot of the program on top is Exit.
LEMMA StackExit ==
    ASSUME Tables, Threads, Core, HaltFree, raced = FALSE, raced' = FALSE
    PROVE  \E s \in Slots : Stacks!Exit(s)
<1>1. PICK p : p = run.proc
  OBVIOUS
<1>2. Top(terminal_num, p) /\ current_process_num = p
  BY <1>1 DEF HaltFree, Core, RunOK, Top
<1>3. /\ process' = [s \in Slots |-> process[s] /\ s # p]
      /\ UNCHANGED <<term, level>>
  BY <1>2 DEF HaltFree, pcbs
<1>4. /\ p \in Slots /\ process[p] /\ term[p] = terminal_num
      /\ level[p] = total_process[terminal_num] /\ terminal_num \in Terminals
  BY <1>2 DEF Top, Tables
<1>5. Place[p] = terminal_num /\ Depth[p] = level[p] /\ Place[p] # -1
  BY <1>4, Somewhere DEF Place, Depth
<1>6. \A s \in Slots : Place[s] = terminal_num => Depth[s] <= level[p]
  <2> SUFFICES ASSUME NEW s \in Slots, Place[s] = terminal_num PROVE Depth[s] <= level[p]
    OBVIOUS
  <2>1. process[s] /\ term[s] = terminal_num
    BY <1>4, Somewhere DEF Place
  <2> QED
    BY <1>4, <2>1 DEF Depth, Core, Tree
<1>7. Stacks!Height(Place[p], Depth[p])
  BY <1>4, <1>5, <1>6 DEF Stacks!Height, Stacks!Slots, Slots, Place, Depth
<1>8. Place' = [Place EXCEPT ![p] = -1]
  BY <1>3, <1>4 DEF Place, Tables
<1>9. Depth' = [Depth EXCEPT ![p] = 0]
  BY <1>3, <1>4 DEF Depth, Tables
<1> QED
  BY <1>4, <1>5, <1>7, <1>8, <1>9 DEF Stacks!Exit, Stacks!Nowhere, Place, Depth

\* Every step of the kernel is a step of the stacks, or leaves them alone.
LEMMA StackStep == CountInv /\ CountInv' /\ [Next]_vars => [Stacks!PNext]_(Stacks!pvars)
<1> SUFFICES ASSUME CountInv, CountInv', [Next]_vars
             PROVE  [Stacks!PNext]_(Stacks!pvars)
  OBVIOUS
<1>0. Tables /\ Threads /\ raced \in BOOLEAN /\ raced' \in BOOLEAN
  <2>1. TypeInv /\ TypeInv'
    BY DEF CountInv, IInv
  <2> QED
    BY <2>1, TypeSplit DEF TypeInv, TypeOK
<1>1. CASE raced
  <2>1. raced = TRUE /\ raced' = TRUE
    BY <1>0, <1>1, RacedStays
  <2>2. Place' = Place /\ Depth' = Depth
    BY <2>1 DEF Place, Depth
  <2> QED
    BY <2>1, <2>2 DEF Stacks!pvars, Place, Depth
<1>2. CASE ~raced /\ raced'
  <2>1. raced = FALSE /\ raced' = TRUE
    BY <1>0, <1>2
  <2>2. Place' = [s \in Slots |-> -1] /\ Depth' = [s \in Slots |-> 0]
    BY <2>1 DEF Place, Depth
  <2>3. Stacks!Break
    BY <2>1, <2>2 DEF Stacks!Break, Stacks!Slots, Slots, Stacks!Nowhere, Place, Depth
  <2> QED
    BY <2>3 DEF Stacks!PNext
<1>3. CASE ~raced /\ ~raced'
  <2>0. raced = FALSE /\ raced' = FALSE
    BY <1>0, <1>3
  <2>1. Core /\ Tree /\ Counts /\ BuildFirst
    BY <1>3 DEF CountInv, IInv, Core
  <2>t. Slots = Stacks!Slots /\ Terminals = Stacks!Terminals
    BY DEF Slots, Stacks!Slots, Terminals, Stacks!Terminals
  <2>2. CASE HaltFree
    BY <1>0, <2>0, <2>1, <2>2, <2>t, StackExit DEF Stacks!PNext
  <2>3. CASE ExecuteBuild
    <3>1. PICK s, t, q, f : /\ s = run.ptr /\ t = terminal_num
                            /\ q = current_process_num
                            /\ f = [proc |-> run.proc, ret |-> run.ret]
      OBVIOUS
    <3>2. s \in Slots /\ t \in Terminals /\ Launch(s, t, q, f) /\ run.pc # "count"
      BY <1>0, <2>1, <2>3, <3>1 DEF ExecuteBuild, Core, RunOK, Tables
    <3>3. (q = 0 /\ total_process[t] = 0) \/ Top(t, q)
      BY <2>1, <2>3, <3>1 DEF ExecuteBuild, Core, RunOK, CallerOK, Top
    <3>4. IsFirstFree(s)
      BY <2>1, <2>3, <3>1 DEF ExecuteBuild, BuildFirst
    <3>5. Stacks!Start(t)
      BY <1>0, <2>0, <2>1, <3>2, <3>3, <3>4, StackStart
    <3> QED
      BY <2>t, <3>2, <3>5 DEF Stacks!PNext
  <2>4. ASSUME NEW t \in Terminals, OpenTerminal(t) PROVE Stacks!PNext
    <3>1. run.pc \in SafePCs /\ Top(terminal_num, run.proc)
      BY <1>0, <1>3, <2>1, <2>4, SafeSwitch DEF OpenTerminal
    <3>2. process_num[t] = 0 /\ total_process[t] = 0
      BY <2>1, <2>4, <3>1 DEF OpenTerminal, Core, Others, Suspended, Top
    <3>3. PICK f : f = [proc |-> run.proc, ret |-> "switch"]
      OBVIOUS
    <3>4. PICK s \in Slots : IsFirstFree(s) /\ Launch(s, t, 0, f)
      BY <2>4, <3>2, <3>3 DEF OpenTerminal
    <3>5. Stacks!Start(t)
      BY <1>0, <2>0, <2>1, <3>1, <3>2, <3>4, StackStart DEF SafePCs
    <3> QED
      BY <2>t, <3>5 DEF Stacks!PNext
  <2>5. ASSUME UNCHANGED <<process, term, level>> PROVE UNCHANGED Stacks!pvars
    BY <2>0, <2>5 DEF Stacks!pvars
  <2>6. CASE HaltCount
    BY <2>5, <2>6 DEF HaltCount, pcbs
  <2> QED
    BY <1>0, <1>3, <2>1, <2>2, <2>3, <2>4, <2>5, <2>6, QuietStep DEF Quiet
<1> QED
  BY <1>1, <1>2, <1>3

\* As long as no switch lands in a window, execute, halt and the opening of a
\* terminal implement stacks of programs: the first free slot goes on top of the
\* caller's stack, and only the top of a stack leaves (syscall.c 33-47 and
\* 118-213, lib.c 54-66).
THEOREM KernelKeepsStacks == Spec => KeepsStacks
<1>1. Init => Stacks!PInit
  <2> SUFFICES ASSUME Init PROVE Stacks!PInit
    OBVIOUS
  <2>1. Place = [s \in Slots |-> -1] /\ Depth = [s \in Slots |-> 0] /\ raced = FALSE
    BY DEF Init, Place, Depth
  <2>2. -1 # 0
    OBVIOUS
  <2> QED
    BY <2>1, <2>2 DEF Stacks!PInit, Stacks!Slots, Slots, Stacks!Nowhere, Place, Depth
<1> QED
  BY <1>1, CountInvariance, StackStep, PTL DEF Spec, KeepsStacks, Stacks!PSpec

-----------------------------------------------------------------------------
(* Descriptors: halt of the last program of a terminal skips the loop that    *)
(* closes them, so a clean start needs that program to have opened none.      *)

Closing == {"count", "restore", "clean"}

\* Open descriptors are those of a program above the base of its terminal, in use
\* or on its way through halt.
FdsOwned ==
    \A s \in Slots : fds[s] # {} =>
        /\ level[s] > 1
        /\ process[s] \/ (run.pc \in Closing /\ s = run.proc)

\* A program that is about to start has none, also when it was interrupted there.
LaunchClean == run.pc = "launch" => fds[run.proc] = {}
SavedClean ==
    \A t \in Terminals :
        t # terminal_num /\ flag[t] /\ saved[process_num[t]].pc = "launch"
          => fds[process_num[t]] = {}

FdClean == FdsOwned /\ LaunchClean /\ SavedClean
FdInv == IInv /\ (~raced => FdClean)

\* A step that starts no program, changes no descriptor and switches to no other
\* terminal keeps the three when a program it stops closing has no descriptor.
LEMMA FdFrame ==
    ASSUME Core, FdClean, UNCHANGED <<process, level, fds, flag, saved, terminal_num>>,
           \A t \in Terminals : t # terminal_num => process_num'[t] = process_num[t],
           \/ run'.pc = run.pc /\ run'.proc = run.proc
           \/ /\ run'.pc # "launch"
              /\ run.pc \in Closing =>
                    \/ run'.pc \in Closing /\ run'.proc = run.proc
                    \/ fds[run.proc] = {}
    PROVE  FdClean'
<1>1. FdsOwned'
  BY DEF FdClean, FdsOwned
<1>2. LaunchClean'
  BY DEF FdClean, LaunchClean
<1>3. SavedClean'
  BY DEF FdClean, SavedClean
<1> QED
  BY <1>1, <1>2, <1>3 DEF FdClean

\* Everything in execute before it builds the process.
LEMMA FdExecute ==
    ASSUME Tables, Threads, Core, FdClean,
           \/ ExecuteCall \/ ExecuteNull \/ ExecuteEntry \/ ExecuteScan
           \/ ExecuteFull \/ ExecuteRefused \/ ExecuteIret
    PROVE  FdClean'
<1>1. run.pc \notin Closing
  BY DEF ExecuteCall, ExecuteNull, ExecuteEntry, ExecuteScan, ExecuteFull,
     ExecuteRefused, ExecuteIret, Closing
<1>2. UNCHANGED <<process, level, fds, flag, saved, terminal_num, process_num>>
  BY DEF ExecuteCall, ExecuteNull, ExecuteEntry, ExecuteScan, ExecuteFull,
     ExecuteRefused, ExecuteIret, table, pcbs
<1>3. run' = run \/ run'.pc # "launch"
  <2>1. CASE ExecuteCall
    BY <2>1 DEF ExecuteCall, Threads, ThreadOK, Thread
  <2>2. CASE ExecuteNull
    BY <2>2 DEF ExecuteNull
  <2>3. CASE ExecuteEntry \/ ExecuteIret
    BY <2>3, GotoFields DEF ExecuteEntry, ExecuteIret, UserThread
  <2>4. CASE ExecuteScan
    BY <2>4 DEF ExecuteScan, Threads, ThreadOK, Thread
  <2>5. CASE ExecuteFull \/ ExecuteRefused
    BY <2>5, ReturnPCs
  <2> QED
    BY <2>1, <2>2, <2>3, <2>4, <2>5
<1> QED
  BY <1>1, <1>2, <1>3, FdFrame

\* halt: the descriptors of the program that halts stay accounted for until they
\* are closed; the program of level 1, which skips the loop, has none.
LEMMA FdHalt ==
    ASSUME Tables, Threads, Core, FdClean, Halt
    PROVE  FdClean'
<1> USE DEF Closing
<1>1. CASE HaltCall
  <2>1. run'.pc = "free"
    BY <1>1, GotoFields DEF HaltCall
  <2> QED
    BY <1>1, <2>1, FdFrame DEF HaltCall, table, pcbs
<1>2. CASE HaltFree
  <2>1. /\ Top(terminal_num, run.proc) /\ current_process_num = run.proc
        /\ run'.pc = "count" /\ run'.proc = run.proc
    BY <1>2, GotoFields DEF HaltFree, Core, RunOK, Top
  <2>2. /\ process' = [s \in Slots |-> process[s] /\ s # run.proc] /\ run.pc = "free"
        /\ UNCHANGED <<process_num, flag, terminal_num, fds, level, saved>>
    BY <1>2, <2>1 DEF HaltFree, pcbs
  <2>3. FdsOwned'
    BY <2>1, <2>2 DEF FdClean, FdsOwned
  <2>4. LaunchClean' /\ SavedClean'
    BY <2>1, <2>2 DEF FdClean, LaunchClean, SavedClean
  <2> QED
    BY <2>3, <2>4 DEF FdClean
<1>3. CASE HaltCount
  <2> DEFINE n == total_process[terminal_num]
  <2>1. run'.pc = (IF n = 1 THEN "base" ELSE "restore") /\ run'.proc = run.proc
    BY <1>3, GotoFields DEF HaltCount
  <2>2. Halted(terminal_num, run.proc, n - 1) /\ n \in Int
    BY <1>3 DEF HaltCount, Core, RunOK, Tables
  <2>3. n = 1 => fds[run.proc] = {}
    BY <2>2 DEF Halted, FdClean, FdsOwned
  <2> QED
    BY <1>3, <2>1, <2>3, FdFrame DEF HaltCount, pcbs
<1>4. CASE HaltBase
  <2>1. run'.pc = "entry"
    BY <1>4 DEF HaltBase, Threads, ThreadOK, Thread
  <2>2. \A t \in Terminals : t # terminal_num => process_num'[t] = process_num[t]
    BY <1>4 DEF HaltBase, Tables
  <2> QED
    BY <1>4, <2>1, <2>2, FdFrame DEF HaltBase, pcbs
<1>5. CASE HaltRestore
  <2>1. tss = run.proc /\ tss # 0
    BY <1>5, SlotFacts DEF HaltRestore, Core, RunOK, Halted
  <2>2. run'.pc = "clean" /\ run'.proc = run.proc
    BY <1>5, <2>1 DEF HaltRestore, Threads, ThreadOK, Thread
  <2>3. \A t \in Terminals : t # terminal_num => process_num'[t] = process_num[t]
    BY <1>5, <2>1 DEF HaltRestore, Tables
  <2> QED
    BY <1>5, <2>2, <2>3, FdFrame DEF HaltRestore, pcbs
<1>6. CASE HaltClean
  <2>1. run.pc = "clean" /\ run.ptr = run.proc /\ run'.pc = "tss" /\ run.proc \in Slots
    BY <1>6, GotoFields DEF HaltClean, Core, RunOK, Halted
  <2>2. /\ fds' = [fds EXCEPT ![run.proc] = {}]
        /\ UNCHANGED <<process, process_num, flag, terminal_num, level, saved>>
    BY <1>6, <2>1 DEF HaltClean, table
  <2>3. fds \in [Slots -> SUBSET FD]
    BY DEF Tables
  <2>4. \A s \in Slots : fds'[s] = IF s = run.proc THEN {} ELSE fds[s]
    BY <2>1, <2>2, <2>3
  <2>5. FdsOwned' /\ LaunchClean'
    BY <2>1, <2>2, <2>4 DEF FdClean, FdsOwned, LaunchClean
  <2>6. SavedClean'
    <3> SUFFICES ASSUME NEW t \in Terminals, t # terminal_num, flag[t],
                        saved[process_num[t]].pc = "launch"
                 PROVE  fds'[process_num[t]] = {}
      BY <2>2 DEF SavedClean
    <3>1. process_num[t] \in Slots /\ fds[process_num[t]] = {}
      BY DEF Core, Others, Suspended, Top, FdClean, SavedClean
    <3> QED
      BY <2>4, <3>1
  <2> QED
    BY <2>5, <2>6 DEF FdClean
<1>7. CASE HaltTss
  <2>1. run'.pc = "jump"
    BY <1>7, GotoFields DEF HaltTss
  <2> QED
    BY <1>7, <2>1, FdFrame DEF HaltTss, table, pcbs
<1>8. CASE HaltJump
  <2>1. run'.pc # "launch"
    BY <1>8, ReturnPCs
  <2> QED
    BY <1>8, <2>1, FdFrame DEF HaltJump, table, pcbs
<1> QED
  BY <1>1, <1>2, <1>3, <1>4, <1>5, <1>6, <1>7, <1>8 DEF Halt

\* open and close work on the descriptors of the program that runs, which is above
\* the base of its terminal when it opens one.
LEMMA FdFiles ==
    ASSUME Tables, Threads, Core, FdClean, Files, ~BaseOpens
    PROVE  FdClean'
<1>1. /\ run.pc = "user" /\ Top(terminal_num, run.proc) /\ tss = run.proc
      /\ UNCHANGED <<process, process_num, flag, terminal_num, level, saved, run>>
  BY DEF Files, Open, Close, Core, RunOK, table
<1>2. run.proc \in Slots /\ term[run.proc] = terminal_num /\ process[run.proc]
      /\ level[run.proc] = total_process[terminal_num]
  BY <1>1 DEF Top
<1>3. PICK D : fds' = [fds EXCEPT ![run.proc] = D] /\ (D # {} => level[run.proc] > 1)
  <2>1. CASE Open
    BY <1>1, <1>2, <2>1 DEF Open
  <2>2. CASE Close
    <3>1. PICK d \in fds[run.proc] : fds' = [fds EXCEPT ![run.proc] = @ \ {d}]
      BY <1>1, <2>2 DEF Close
    <3>2. level[run.proc] > 1
      BY <1>2, <3>1 DEF FdClean, FdsOwned
    <3> QED
      BY <3>1, <3>2
  <2> QED
    BY <2>1, <2>2 DEF Files
<1>4. \A s \in Slots : fds'[s] = IF s = run.proc THEN D ELSE fds[s]
  BY <1>2, <1>3 DEF Tables
<1>5. FdsOwned' /\ LaunchClean'
  BY <1>1, <1>2, <1>3, <1>4 DEF FdClean, FdsOwned, LaunchClean
<1>6. SavedClean'
  <2> SUFFICES ASSUME NEW t \in Terminals, t # terminal_num, flag[t],
                      saved[process_num[t]].pc = "launch"
               PROVE  fds'[process_num[t]] = {}
    BY <1>1 DEF SavedClean
  <2>1. /\ process_num[t] \in Slots /\ term[process_num[t]] = t
        /\ fds[process_num[t]] = {}
    BY DEF Core, Others, Suspended, Top, FdClean, SavedClean
  <2> QED
    BY <1>2, <1>4, <2>1
<1> QED
  BY <1>5, <1>6 DEF FdClean

\* The slot a new program gets is free, and nobody is closing.
LEMMA FdBuild ==
    ASSUME Tables, Threads, Core, FdClean, ExecuteBuild
    PROVE  FdClean'
<1>1. PICK s : s = run.ptr
  OBVIOUS
<1>2. s \in Slots /\ ~process[s] /\ run.pc = "build" /\ terminal_num \in Terminals
  BY <1>1 DEF ExecuteBuild, Core, RunOK, Tables
<1>3. /\ process' = [process EXCEPT ![s] = TRUE] /\ UNCHANGED <<fds, saved, terminal_num>>
      /\ run'.pc = "launch" /\ run'.proc = s
      /\ flag' = [flag EXCEPT ![terminal_num] = TRUE]
      /\ process_num' = [process_num EXCEPT ![terminal_num] = s]
      /\ level' = [level EXCEPT ![s] = total_process[terminal_num] + 1]
  BY <1>1 DEF ExecuteBuild, Launch
<1>4. fds[s] = {}
  BY <1>2 DEF FdClean, FdsOwned, Closing
<1>5. FdsOwned'
  BY <1>2, <1>3, <1>4 DEF FdClean, FdsOwned, Tables, Closing
<1>6. LaunchClean'
  BY <1>3, <1>4 DEF LaunchClean
<1>7. SavedClean'
  BY <1>3 DEF FdClean, SavedClean, Tables
<1> QED
  BY <1>5, <1>6, <1>7 DEF FdClean

\* The same for the shell of a new terminal, and the thread it interrupts.
LEMMA FdOpenTerminal ==
    ASSUME Tables, Threads, Core, FdClean, NEW t \in Terminals, OpenTerminal(t),
           ~raced'
    PROVE  FdClean'
<1>1. /\ run.pc \in SafePCs /\ Top(terminal_num, run.proc) /\ tss = run.proc
      /\ ~OnBorrowedStack(run)
  BY SafeSwitch DEF OpenTerminal
<1>2. PICK s \in Slots : ~process[s] /\
        Launch(s, t, process_num[t], [proc |-> run.proc, ret |-> "switch"])
  BY DEF OpenTerminal, IsFirstFree, FreeSlots
<1>3. /\ process' = [process EXCEPT ![s] = TRUE] /\ UNCHANGED fds
      /\ run'.pc = "launch" /\ run'.proc = s
      /\ flag' = [flag EXCEPT ![t] = TRUE]
      /\ process_num' = [process_num EXCEPT ![t] = s]
      /\ level' = [level EXCEPT ![s] = total_process[t] + 1]
  BY <1>2 DEF Launch
<1>4. terminal_num' = t /\ saved' = [saved EXCEPT ![run.proc] = run]
  BY <1>1 DEF OpenTerminal
<1>5. run.pc \notin Closing
  BY <1>1 DEF SafePCs, Closing
<1>6. fds[s] = {}
  BY <1>2, <1>5 DEF FdClean, FdsOwned
<1>7. FdsOwned'
  BY <1>2, <1>3, <1>5, <1>6 DEF FdClean, FdsOwned, Tables
<1>8. LaunchClean'
  BY <1>3, <1>6 DEF LaunchClean
<1>9. SavedClean'
  <2> SUFFICES ASSUME NEW u \in Terminals, u # t, flag[u],
                      saved'[process_num[u]].pc = "launch"
               PROVE  fds[process_num[u]] = {}
    BY <1>3, <1>4 DEF SavedClean, Tables
  <2>1. CASE u = terminal_num
    <3>1. process_num[u] = run.proc /\ run.proc \in Slots
      BY <1>1, <2>1 DEF Top
    <3>2. run.pc = "launch"
      BY <1>4, <3>1 DEF Threads
    <3> QED
      BY <3>1, <3>2 DEF FdClean, LaunchClean
  <2>2. CASE u # terminal_num
    <3>1. process_num[u] \in Slots /\ term[process_num[u]] = u
      BY <2>2 DEF Core, Others, Suspended, Top
    <3>2. process_num[u] # run.proc
      BY <1>1, <2>2, <3>1 DEF Top
    <3>3. saved'[process_num[u]] = saved[process_num[u]]
      BY <1>4, <3>1, <3>2 DEF Threads
    <3> QED
      BY <2>2, <3>3 DEF FdClean, SavedClean
  <2> QED
    BY <2>1, <2>2
<1> QED
  BY <1>7, <1>8, <1>9 DEF FdClean

\* A thread interrupted before its first instruction finds the descriptors closed
\* when it is resumed.
LEMMA FdTick ==
    ASSUME Tables, Threads, Core, FdClean, Tick, ~raced'
    PROVE  FdClean'
<1>1. /\ run.pc \in SafePCs /\ Top(terminal_num, run.proc)
      /\ saved' = [saved EXCEPT ![run.proc] = run]
  BY TickResumes
<1>2. PICK t \in Terminals :
        /\ terminal_num' = t /\ flag[t] /\ process_num[t] \in Slots
        /\ run' = saved'[process_num[t]] /\ run'.pc \in SafePCs
        /\ t # terminal_num => run' = saved[process_num[t]]
        /\ t = terminal_num => run' = run
  BY TickResumes
<1>3. UNCHANGED <<process, process_num, flag, level, fds>>
  BY DEF Tick, table, pcbs
<1>4. FdsOwned'
  BY <1>1, <1>2, <1>3 DEF FdClean, FdsOwned, SafePCs, Closing
<1>5. LaunchClean'
  <2>1. CASE t = terminal_num
    BY <1>2, <1>3, <2>1 DEF FdClean, LaunchClean
  <2>2. CASE t # terminal_num
    <3>1. saved[process_num[t]].proc = process_num[t]
      BY <1>2, <2>2 DEF Core, Others, Suspended
    <3> QED
      BY <1>2, <1>3, <2>2, <3>1 DEF FdClean, LaunchClean, SavedClean
  <2> QED
    BY <2>1, <2>2
<1>6. SavedClean'
  <2> SUFFICES ASSUME NEW u \in Terminals, flag[u],
                      saved'[process_num[u]].pc = "launch"
               PROVE  fds[process_num[u]] = {}
    BY <1>3 DEF SavedClean
  <2>1. CASE u = terminal_num
    <3>1. process_num[u] = run.proc /\ run.proc \in Slots
      BY <1>1, <2>1 DEF Top
    <3>2. run.pc = "launch"
      BY <1>1, <3>1 DEF Threads
    <3> QED
      BY <3>1, <3>2 DEF FdClean, LaunchClean
  <2>2. CASE u # terminal_num
    <3>1. process_num[u] \in Slots /\ term[process_num[u]] = u
      BY <2>2 DEF Core, Others, Suspended, Top
    <3>2. process_num[u] # run.proc
      BY <1>1, <2>2, <3>1 DEF Top
    <3>3. saved'[process_num[u]] = saved[process_num[u]]
      BY <1>1, <3>1, <3>2 DEF Threads
    <3> QED
      BY <2>2, <3>3 DEF FdClean, SavedClean
  <2> QED
    BY <2>1, <2>2
<1> QED
  BY <1>4, <1>5, <1>6 DEF FdClean

\* Alt+Fn with no free slot saves the thread that runs on.
LEMMA FdOpenFull ==
    ASSUME Tables, Threads, Core, FdClean, NEW t \in Terminals, OpenTerminalFull(t),
           ~raced'
    PROVE  FdClean'
<1>1. /\ Top(terminal_num, run.proc) /\ tss = run.proc
  BY SafeSwitch DEF OpenTerminalFull
<1>2. /\ UNCHANGED <<process, process_num, flag, level, fds, terminal_num, run>>
      /\ saved' = [saved EXCEPT ![run.proc] = run]
  BY <1>1 DEF OpenTerminalFull, table, pcbs
<1>3. \A u \in Terminals : u # terminal_num /\ flag[u] =>
         saved'[process_num[u]] = saved[process_num[u]]
  <2> SUFFICES ASSUME NEW u \in Terminals, u # terminal_num, flag[u]
               PROVE  saved'[process_num[u]] = saved[process_num[u]]
    OBVIOUS
  <2>1. process_num[u] \in Slots /\ term[process_num[u]] = u
    BY DEF Core, Others, Suspended, Top
  <2>2. process_num[u] # run.proc
    BY <1>1, <2>1 DEF Top
  <2> QED
    BY <1>2, <2>1, <2>2 DEF Threads
<1> QED
  BY <1>2, <1>3 DEF FdClean, FdsOwned, LaunchClean, SavedClean

\* Every step keeps the descriptors accounted for, as long as no switch races.
LEMMA FdStep ==
    ASSUME Tables, Threads, Core, FdClean, [Next]_vars, ~raced', ~BaseOpens
    PROVE  FdClean'
<1>1. CASE Execute
  BY <1>1, FdExecute, FdBuild DEF Execute
<1>2. CASE Halt
  BY <1>2, FdHalt
<1>3. CASE Files
  BY <1>3, FdFiles
<1>4. CASE Tick
  BY <1>4, FdTick
<1>5. ASSUME UNCHANGED <<table, terminal_num, pcbs, saved, run>> PROVE FdClean'
  BY <1>5 DEF FdClean, FdsOwned, LaunchClean, SavedClean, table, pcbs
<1>6. CASE Keyboard
  <2>1. PICK t \in Terminals : \/ SwitchTerminal(t) \/ OpenTerminal(t)
                               \/ OpenTerminalFull(t) \/ OpenTerminalEarly(t)
    BY <1>6 DEF Keyboard
  <2>2. CASE SwitchTerminal(t)
    BY <1>5, <2>2 DEF SwitchTerminal
  <2> QED
    BY <2>1, <2>2, FdOpenTerminal, FdOpenFull, CoreOpenEarly
<1>7. CASE UNCHANGED vars
  BY <1>5, <1>7 DEF vars
<1> QED
  BY <1>1, <1>2, <1>3, <1>4, <1>6, <1>7 DEF Next

\* When the shell of a terminal opens no file, a program starts with no descriptor
\* but stdin and stdout, although execute clears none (syscall.c 27 and 64-70): as
\* long as no switch lands in a window.
THEOREM StartsClean == ASSUME ~BaseOpens PROVE Spec => []CleanStart
<1>1. Init => FdInv
  <2> SUFFICES ASSUME Init PROVE FdInv
    OBVIOUS
  <2>1. FdClean
    BY DEF Init, FdClean, FdsOwned, LaunchClean, SavedClean
  <2> QED
    BY <2>1, TypeInit, CoreInit DEF FdInv, IInv
<1>2. FdInv /\ [Next]_vars => FdInv'
  <2> SUFFICES ASSUME FdInv, [Next]_vars PROVE FdInv'
    OBVIOUS
  <2>1. IInv'
    BY TypeStep, CoreStep, RacedStays DEF IInv, FdInv
  <2>2. ASSUME ~raced' PROVE FdClean'
    <3>1. ~raced
      BY <2>2, RacedStays
    <3>2. Tables /\ Threads /\ Core /\ FdClean
      BY <3>1, TypeSplit DEF FdInv, IInv
    <3> QED
      BY <2>2, <3>2, FdStep
  <2> QED
    BY <2>1, <2>2 DEF FdInv
<1>3. FdInv => CleanStart
  BY DEF FdInv, FdClean, LaunchClean, CleanStart, CleanStartAlways
<1> QED
  BY <1>1, <1>2, <1>3, PTL DEF Spec

=============================================================================
