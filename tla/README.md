# TLA+ models of the Virtual Operating System kernel

The repository holds a small i386 operating system: a kernel
(`src/student-distrib`), user programs (`src/syscalls`, `src/fish`) and the file
system image they are packed into. The kernel runs up to six processes on three
terminals, one of which is on the screen. This directory holds TLA+
specifications of it, TLC configurations that check them on small instances,
and TLAPS proofs, for every value of the constants, of every invariant, action
property and refinement that the runs check.

## The system

| component | state | operations | talks to |
|---|---|---|---|
| processes (`syscall.c`, `pit.c`) | `process[]`, the PCBs (parent, saved esp/ebp, descriptors, argument), `tss.esp0`, the page at 128 MB, `terminal_t[].process_num/flag/total_process`, the global `current_process_num` | `execute`, `halt`, the timer's `pit_handler`, opening a terminal | shares `terminal_num` with every other part; is interrupted by timer and keyboard |
| commands and statuses (`syscall.c`, `ece391shell.c`) | argument in the PCB, values returned by `execute` | the shell's loop, `execute`'s parser, `getargs`, `halt(status)`, exceptions | the shell calls `execute`; `halt` returns into the parent's call |
| input line (`keyboard.c`, `terminal.c`) | `key_buf`, `num_buf`, `buf_flag` of each terminal | keyboard handler; `terminal_read` | keyboard interrupt against a reader that spins |
| modifiers (`keyboard.c`) | `CTRL/SHIFT/ALT/CAPSLOCK_PRESS` | make and break codes, the four maps | feeds the input line and the display |
| display (`lib.c`, `terminal.c`, `pit.c`) | screen memory, each terminal's page and cursor, the page at 132 MB | `putc`, `putc2screen`, `clear`, `switch_terminal`, `vidmap`, the timer's remapping | programs, keyboard and kernel messages all draw |
| files (`filesystem.c`, `syscall.c`) | descriptors of each PCB, the static `dir_index` | `open`, `read`, `write`, `close`, `read_dentry_by_name`, `read_data`, `dir_read` | processes share `dir_index` |
| clock and interrupt controller (`rtc.c`, `i8259.c`, `idt.c`) | cached masks, jump table, register selection of the clock, `rtc_flag[]` | driver initialisation, `rtc_handler`, `rtc_read`, `rtc_write` | interrupts against `rtc_write`; the masks are shared by all drivers |
| user programs (`src/syscalls`) | descriptors they hold, `grep`'s buffer | `syserr`'s tests, `cat`, `ls`, `grep` | clients of the file calls; a program inherits the slot of an earlier one |
| fish (`src/fish`) | `mp1_list_head`, `blink_array`, the frame files | `mp1_ioctl` (add, remove, sync, find), `mp1_rtc_tasklet`, `add_frames` | the clock's ticks drive the tasklet; draws through `vidmap`'s page |

What makes it hard: system calls and exceptions enter through **trap gates**
(`idt.c` 241-263), so interrupts stay on inside `execute`, `halt`,
`terminal_read`, `dir_read`, `rtc_write` and the exception handlers. The only
protection is the occasional `cli()`. A timer tick may switch to another
terminal's process, which may be in the same function, and a key may change
the screen, the line buffer or open a terminal, between any two statements.
`PROJECT.json` lists the hazards line by line.

## Modules

* **Scheduler** models `execute`, `halt`, `pit_handler` and the opening of
  terminals. A kernel stack is a *thread*: the control point that would run if
  the stack were resumed, with the local variables that matter. `saved[s]` is
  `pcb->esp/ebp`, `frame[s]` is `pcb->esp_prev/ebp_prev`, `tss` and `pde` are
  the slots `tss.esp0` and the 128 MB page belong to. `halt` is seven steps
  (`HaltFree` ... `HaltJump`), `execute` is four (`ExecuteEntry`,
  `ExecuteScan`, `ExecuteBuild`, `ExecuteIret`); the part between `cli()` and
  `sti()` is one step. `Tick` and the keyboard actions are enabled between any
  two of them. History variables: `term` and `level` (where a slot was
  started and how deep), and `raced`, which becomes TRUE when a switch lands
  inside a *window*: `halt` from its entry to its jump, `execute` from its
  entry to its `cli()`, and the `sti()` before its `iret` when `halt` or
  `switch_terminal` called it. There the thread waits on a stack that is not its
  process's own (`OnBorrowedStack`): the freed slot of the program that halted,
  or the stack of the program the keyboard interrupted. A stack has no contents
  in the model, so resuming such a thread is a choice between the thread and
  `Wild` (`Resumed`). What control does after a stack or a page of no process
  was loaded is the thread `Wild`, about which nothing is claimed.
* **Processes** is what all that promises: a stack of programs per terminal,
  where a program takes the first free slot on top of its terminal and only the
  top of a stack leaves. Scheduler implements it (`KeepsStacks`), with `place`
  and `depth` mapped to `term` and `level` of the slots in use and `broken` to
  `raced`.
* **Shell** models commands and statuses above that: a terminal's chain of
  parents is a stack, `execute` and `halt` are single steps. `task[s].caller` is
  the frame `execute` saves in the PCB (`esp_prev`, `ebp_prev`), and `halt` puts its
  value there, whatever process that is. What became of a command is history
  (`fate`), kept with the process that gave it: it points to the child while that
  runs and takes its end when it ends, not through the frame, so that a value in
  the wrong frame would show. A command line is
  a sequence of characters, and the parser is translated by what each of its
  loops finds.
* **LineBuffer** models one terminal's `key_buf` with the counters that lie
  behind it in the struct, so that a store past the end lands where the
  compiled struct puts it. **LineQueue** is the abstract queue of lines it
  implements while `lost` is FALSE. `buf_flag` is an `int8_t`: `LinesCounted` says
  that it is the number of line feeds *as a signed byte*, since a buffer of 128
  line feeds makes it -128, which `terminal_read` still takes for TRUE.
* **Keyboard** models modifiers and the four maps; a key is the kind of
  character its map entries hold. `keyboard_print` returns early on a full line,
  which is an input here and LineBuffer's state there.
* **Display** models the screen, the terminals' pages and cursors, and the
  page at 132 MB. The output of a system call is one step (it runs under
  `cli()`); messages printed with interrupts on (exceptions and "no more
  process") are cell-by-cell steps, and their `draw_cursor` is three: the position
  is read (`lib.c` 12), its low byte is written (13), its high byte is written
  (14). `Byte` is the number of values of such a byte. `KeyTabOverrun` is a TAB
  past the end of `key_buf`, over `num_buf` and the cursor behind it. `actor` is a history variable: the
  terminal a step works for. `lost` marks the first race: a draw by a test that is
  no longer true, a stale byte of the cursor, a key in the middle of a message's
  own move of the cursor (`Torn`), the overrun of TAB. `Puts` is the effect of
  a whole string on a cursor and a page, character by character.
* **Files** models descriptors and the file system calls over a constant
  image; `dir_read` is four steps, the others are one, since they touch only
  the caller's own PCB. `FilesAssumption` says what image the kernel is
  given: names fit their field and differ, and the blocks of a file exist and
  are long enough for its length. `Killed` stands for the value of a call that
  ended the program: it is the answer of a `write` through a null table.
* **Rtc** models the driver initialisation, the masks, the clock's register
  selection and its readers and writers, port access by port access. The
  controllers deliver an interrupt (`Deliver`) that is not masked and not held up
  by one in service of the same or a higher priority; then its handler runs
  (`isr`), whose acknowledgement and work are a step each. No process moves before
  a handler ends.
* **Programs** puts programs on Files: one process first runs any programs
  whatever, making any calls, and then `ece391syserr` (all tests, or any one),
  `cat` or `ls`, with the descriptor table its predecessors left in the slot. A
  test is the sequence of its calls, and the verdict of each is the code's.
  `ProgramsAssumption` says of the image what these programs take for granted:
  it has a directory named ".", and none of the names `err_open` expects to fail.
* **Grep** models `ece391grep`: the walk over the directory, and in
  `do_one_file` one read or one turn of the loop over the lines per step. `data`
  is byte by byte, since its borders are what can go wrong; on entry it holds
  what the last call left or any other bytes of the stack. `getargs` and the
  opening of the directory, before the loop, are taken to succeed. A line of a
  text is the pair of positions before and after it (`Lines`), so that the
  reference definition needs no recursion.
* **Blink** models `blink.S` and the allocator of `fish.c`: the linked list, the
  static array in which location 0 marks a free element, `add`, `remove` and
  `sync` as one step each and the tasklet as one step per element. **Fish** puts
  two users on it: `fish` itself (`add_frames` and the script of `main`), and a
  program that calls in any order. `Stored` cuts a place to the 16 bits of the
  field `location`. History: `paired` (synchronised since),
  `stale` (drawn by a sync in the wrong state, or uncovered by a remove) and
  `zeroed` (location 0 was used). `Glyphs` is the set of characters and
  `Structures` the type of `struct mp1_blink_struct`; a space is "sp". `TextAt`
  is the reference for what `add_frames` shows: the character with so many line
  feeds before it and so many characters after the last of them.
* **SchedulerProofs**, **ShellProofs**, **LineBufferProofs**, **KeyboardProofs**,
  **DisplayProofs**, **RtcProofs**, **FilesProofs** (with Programs) and
  **UserProofs** (Fish and Grep) hold the inductive invariants of their
  components, the lemmas about their operators and the theorems.
* **MC*** modules define the values of constants for TLC.

`PROJECT.json`, "map", names the lines each definition stands for.

Guarded and plain properties: several properties exist twice, as `P` and as
`~raced => P` or `~lost => P`. The guarded form is checked to hold, and
proved wherever "What is proved" names it. The plain form is what a comment of the code says, and
a configuration shows the race that breaks it. So the guarded form says that these races
are the *only* ways to break it in the model; it does not catch the race itself.
Where a hazard of `PROJECT.json` is such a race, its note names the flag and the
configuration that shows it.

## Runs that pass

| run | instance | shows |
|---|---|---|
| Scheduler_main | 3 slots, 3 terminals | chains, counts, exclusive slots, contexts, descriptors and what `halt` frees, while no switch races; every open terminal runs again and again, and a halting program hands over to one in user mode; all of it implements Processes |
| LineBuffer_queue | buffer of 4, TAB of 2 | the buffer implements a queue of lines; a waiting reader gets its line |
| Keyboard_keys | one key per modifier | status bytes follow the keys; what is typed is what the held keys say, and nothing on a full line |
| Display_screens | 2 terminals, one column of 3 rows, Ctrl+L, exception texts | text and cursor stay with their terminal |
| Display_cursor | 1 terminal, 2 columns, 3 rows, all keys and messages | the cursor stays in the grid |
| Programs_calls | 1 process, 4 descriptors, blocks of 2 bytes | reads give consecutive bytes; `open` finds exactly the named entry; the tests of `ece391syserr` pass, `cat` and `ls` copy everything, whatever ran in the slot before |
| Files_dir | 2 processes, 3 entries | a listing keeps in step with `dir_index` if nobody else uses it |
| Rtc_clock | 2 terminals, a power of two and another frequency | handled interrupts stay open, and none is held up but by a handler that runs; rates; every read returns |
| Shell_main | 3 slots, 2 terminals, 12 lines | program and argument are the first and the second word; `getargs`; the value of `execute` is the one its own child left, and the shell reports it; a shell on every open terminal |
| Grep_lines | buffer of 3, texts of up to 7 bytes, 3 words | exactly the lines with the word are printed, whole, once and in order; `grep` ends |
| Fish_blink | 3 elements, 2x2 screen, words of 6 values, texts of up to 3 characters and one that wraps | list and allocation agree; the screen shows each element's state; synchronised elements stay in step; two texts become the right elements while their places fit 16 bits; the list, and with it the tasklet, ends |

Two pure conversions are also compared with a reference definition, as
assumptions that TLC evaluates when it starts: `RatesExact` of MCRtc (the rate
of every power of two and of the neighbours of the limits) and
`ParserFindsWords` of MCShell (every line of at most four characters).

**Bounds.** Three slots and three terminals are the smallest instance in which
a terminal runs a program on top of its shell, another one is open, and the
table fills up; with three terminals the round robin has a choice to get
wrong. A 4-byte line buffer with 2-byte tabs has every case of "fits, fits
exactly, overlaps the end". A column of three cells wraps at every character and
scrolls at every third; two columns and three rows have an inner row and an inner
cell. A `Byte` of 2 values gives the last position of either grid a high byte that
is not zero, so that the two bytes can disagree. The rates of all frequencies are
compared by `RatesExact`, so two frequencies with different rates are enough for
the writers of Rtc_clock. Blocks of 2
bytes and files of 1 to 3 bytes make reads start, end and cross inside blocks.
A buffer of 3 bytes lets `grep` carry a line over none, one and two reads, and
fill the buffer exactly; texts include NUL bytes, for which only termination is
claimed. Three blinking elements suffice for a middle of the list, two elements
at one location and a full array; 2^15 is 3, so that positive, zero and negative
lengths all occur. `ShortListings` lets the earlier programs of Programs_calls
read one directory entry per descriptor, and `FilesFirst` keeps files out of
Files_dir once a directory is open: each of the two runs has in full what the
other cuts.
`StartMax`, `SpillMax`, `GotMax` and `IndexMax` bound counters, in guards, at
values beyond the first one at which behaviour changes. The constraints
`Unraced`, `NotLost`, `NotYetCorrupt` and `NotZeroed` stop at states after the first race,
about which the guarded properties say nothing. For RoundRobin and HaltReturns
this means: they are checked of behaviours in which no switch ever lands in a
window.

**Types.** Each component has a type invariant. Scheduler and LineBuffer check
theirs as `TypeOK`, Grep as `GTypeOK`; in the others it is the first conjunct of an invariant
(StatusHeld, HandledOpen, CursorShownUnlessLost, ReadsFile, CommandObeyed,
ListIsUsed).

**Deadlock** is checked except where the system may stop: Scheduler (a `Wild`
thread), Display and Files (bounded counters use up the inputs), and the user
programs, which end.

**Fairness.** Scheduler: weak fairness of the timer (the PIT is periodic and
its handler ends with `sti()`) and of the running kernel thread (the processor
executes it between interrupts); nothing is assumed of programs or of the
user. LineBuffer: a spinning or copying reader is scheduled again, which
RoundRobin shows. Rtc: a handler goes on (weak; interrupts are off in it), the
clock's interrupt, periodic and delivered again and again, gets through (strong:
between two deliveries the line may be masked or another handler may run), and
a process inside a call is scheduled again (strong: handlers interrupt it). Grep: a program that has a next statement executes it
(it is a single thread, and the processor comes back to it, by RoundRobin).

## Runs that find a disagreement

One run checks a property that quotes a comment of the repository and that
the code does not keep ("findings" in `PROJECT.json`): Scheduler_slot_race.
`execute` has found slot 2 and has not reached its `cli()`; Alt+F2 opens the second
terminal, whose shell takes slot 2; the timer then resumes the first `execute`,
which goes on to build its process in slot 2 although it is in use (`SlotStillFree`).

The other ways in which a guarded property loses its guard, and a few more
statements of comments and tests that do not hold, have a configuration of
their own and a property beside the guarded one. They are kept to show a trace
(`tlc -config Scheduler_races.cfg MCScheduler`), and are not in the list of
runs. A configuration with two rows checks one property at a time: the other is
in it as a comment, to be exchanged with the first.

| configuration | property | trace |
|---|---|---|
| Scheduler_races | FreesOwnSlotAlways | `halt` frees another terminal's process (`syscall.c` 33-35) |
| Scheduler_races | ParentRecorded | `execute` records another terminal's process as parent (118, 208) |
| Scheduler_fd_leak | CleanStartAlways | the shell that replaces a base program inherits its descriptors (40, 65-70) |
| Scheduler_halt_lost | HaltJumps | a `halt` interrupted after restoring its parent never jumps (47) |
| LineBuffer_tab | InBuffer | TAB stores without a test of `num_buf` (`keyboard.c` 284) |
| LineBuffer_line | ReadHasLine | BACKSPACE erases a counted line feed (`keyboard.c` 293); with the other `Keys`, Ctrl+L empties the buffer under a reader (`terminal.c` 28-31) |
| Rtc_races | DisableMasks | `disable_irq` ANDs the bit where it should OR it: the clock interrupts the write it was disabled for (`i8259.c` 93) |
| Rtc_races | OnlyHandledOpen | `disable_irq` opens interrupts without a handler (`i8259.c` 93) |
| Rtc_races | RateSet | an interrupt redirects `rtc_write`'s register access (`rtc.c` 97) |
| Rtc_zero | WriteReturns | `powerOfTwo(0)` does not return (`rtc.c` 130) |
| Files_dir_shared | DirListsAll | one `dir_index` for everybody (`filesystem.c` 112) |
| Files_long_name | LongNameFound | long names are refused where a comment says they are cut (`filesystem.c` 139, 152) |
| Programs_unopened | UnopenedPasses | `write` ignores `flags`: `err_unopened` alone ends the program, and passes after `err_open_lots` only because that leaves the directory's table behind (`syscall.c` 278) |
| Display_scroll, _erase | CursorOnScreen | the scroll and start-of-line tests compare for equality and can be passed (`lib.c` 312, 289) |
| Display_scroll | CursorShown | ENTER is echoed between the two parts of a message's `draw_cursor`, which then writes the old position (`lib.c` 11-14) |
| Display_vidmap | OutputStaysHome | the page at 132 MB is stale after Alt+Fn (`syscall.c` 391) |
| Display_vidmap | PageIsOwn | with `Skew` = 1, the background page is misaligned (`pit.c` 60) |
| Keyboard_two_shifts | StatusHeld | one status for two keys (`keyboard.c` 245) |
| Shell_codes | StatusLowByte | `halt` returns the whole status: a `main` that returns -1 is reported as a command that does not exist (`syscall.c` 85) |
| Shell_codes | ZeroIsSuccess | a full process table returns 0 (`syscall.c` 133) |
| Fish_blink | CellsShown | a place past 65535, from row 818 on, wraps in `location` and is added on the screen (`fish.c` 125, `blink.h` 7) |

PageIsOwn rests on the layout of the committed `bootimg`: `terminal_t` is at
0x40b000 and `struct terminal` is 0x1040 bytes long. `Skew` is the misalignment
in cells.

## What is proved

Eight modules hold the proofs. Every theorem is about all values of the
constants that satisfy the named assumptions (evaluated by TLC in each run), and
where a property has a guard (`~raced`, `~lost`, `~hit`, `~mixed`, `~zeroed`, `~dirty`) the
theorem has the same one: the history flag is set by the step at which a race of
the kind the configurations above show becomes possible.

| module | theorems, with the property they establish | for every |
|---|---|---|
| SchedulerProofs | TypeCorrect (TypeOK), SlotsExclusive (ExclusiveSlots), ChainsIntact (Chains), ContextOwned (OwnContext), JumpsSafe (NoWildJump), TotalsExact (TotalCounts), StartsClean (CleanStart), HaltFreesItself (the action property FreesOnlyItself), KernelKeepsStacks (the refinement KeepsStacks) | number of slots and terminals, set of descriptors |
| ShellProofs | CommandsObeyed (CommandObeyed), ArgumentsOwn (ArgumentIsOwn), ReportsTrue (ReportsTruly), ShellsStay (the action property ShellStays) | number of slots and terminals, set of lines over the six letters, statuses and sizes |
| LineBufferProofs | LineTypeCorrect (TypeOK), LinesAreCounted (LinesCounted), BufferImplementsQueue (the refinement ImplementsQueue) | size of the buffer and of a tab, keys and read sizes |
| KeyboardProofs | StatusCorrect (StatusHeld), TypedCorrectly (the action property TypedAsHeld), NeverStuck | sequence of make, break and repeat codes |
| DisplayProofs | CursorFollows (CursorShownUnlessLost), CursorsOnScreen (CursorOnScreenUnlessLost), ScreensStayApart (the action property OutputStaysHomeUnlessLost) | grid, number of terminals, buffer size, output, message, skew |
| FilesProofs, on Files | FilesReadRight (ReadsFile), OpensExactly (OpenExact), ListsInOrder (DirInStepUnlessMixed) | well-formed image, block size, number of processes and descriptors, names and read sizes |
| FilesProofs, on Programs | TestsPass (SyserrPasses), ProgramsCopyAll (CopiesAll) | the same, and sequence of calls by earlier programs, arguments of `cat`, buffer length, names that do not exist |
| RtcProofs | HandledStaysOpen (HandledOpen), NothingHeldUp (NoneHeldUp), RateAsWritten (RateSetUnlessHit) | number of terminals, frequencies asked for up to any `MaxAsked` |
| UserProofs, on Fish | ListKept (ListIsUsed), ScreenTrue (ScreenShowsState), SyncHolds (StayInStep), FramesTrue (FramesShown) | array, screen, width of the 16-bit fields, characters, frame files, client; FramesTrue for files whose places fit the field (`NoWrap`) |
| UserProofs, on Grep | GrepTypeCorrect (GTypeOK), GrepPrintsMatches (PrintsMatchesUnlessDirty) | buffer size, directory, contents, word, bytes left on the stack |

Three theorems have a hypothesis beside the assumptions, each the value of a
constant that the run uses and that another configuration of the table above
shows to be needed:

* `~TwoHanded` (StatusCorrect, TypedCorrectly): the two keys of a modifier are
  not held together (Keyboard_two_shifts). `NeverStuck` is what remains without
  it: a status byte can be cleared too early but never stays set.
* `~BaseOpens` (StartsClean): the shell at the base of a terminal opens no file,
  as `ece391shell.c` does not (Scheduler_fd_leak).
* `NoErase` (CursorsOnScreen): no program prints a backspace (Display_erase).

`NoWrap` is a condition inside FramesShown itself, on the texts of a behaviour.

### The inductive invariants

None of the properties is inductive alone; what has to be added says how the
code works.

* **Scheduler.** That the slot freed by `halt` is the caller's own needs
  `current_process_num` to be the running process at that control point, which
  needs `process_num` to be the top of its terminal's chain, which needs the
  switch of `pit_handler` to resume a thread that is at a safe control point.
  `IInv` is `TypeInv /\ (~raced => Core)`, and `Core` has four parts: `Tree`
  (every slot in use is chained to a parent on its terminal, one level below;
  levels are unique on a terminal and at most its `total_process`), `Others`
  (each terminal that does not run is *suspended*: if it is open, its
  `process_num` is the top of its chain, and the thread saved in that PCB is its
  own, at a safe control point; if not, it has no process and a zero count),
  `Owned` (a terminal's `process_num` was started on it) and `RunOK` (for each
  control point of the running thread, what `execute` or `halt` has already
  changed and what it still has to change). `LaunchTree` (a free slot is put on
  top) and `CoreHaltFree` (the top is taken away) carry the argument about chains.
  `CountInv` adds that `total_process` is the cardinality of the slots on the
  terminal, plus one between `halt`'s release of the slot and its decrement, and
  that the slot `execute` found is still the first free one when it takes it:
  that fact is also what maps `ExecuteBuild` to a step of Processes. `FdInv` adds
  that only slots in use own descriptors, and that what is about to start a
  program has none.
* **Shell.** `SInv`: a slot is in one place of one chain (`Apart`), the lowest
  process of a chain is a shell, and every process in a chain is *obedient* (its
  program, argument and `getargs` answer are the words of its line). `Linked`
  connects the saved frames with the chains: a process above the base has the
  one below it as caller, and that one waits for exactly this child; the top of a
  chain waits for nobody and holds the value due for its last command. Since a
  slot has one place, only one process waits for the one that ends (`EndedFacts`),
  and `halt`'s way through the frame reaches it. `ParserFinds` relates the scans of `execute`'s parser to
  the words of the line, for lines of any length and spacing.
* **LineBuffer.** `LInv`: until input is lost, every line feed stored is among
  the bytes in use, `buf_flag` is their number as a signed byte, and a reader
  that saw `buf_flag` has a line to copy. The refinement maps `key_buf` up to
  `num_buf` to the queue; each action is a step of LineQueue or a stutter, the
  shift after a read being the removal of the first line.
* **Keyboard.** `IInv`: no status is set without a key held; with one hand, a held
  modifier has its status set and at most one of its keys is down.
* **Display.** `DInv`: types, a kernel message in progress has characters left and
  belongs to an open terminal, and the hardware cursor is the displayed one's
  while that terminal has no message under way; before a message writes the high
  byte the low one is right.
  `OnScreen`: every cursor is in its grid, or one row below while a message is
  about to scroll, and lies far enough from the start of the line that the typed
  keys can be erased. `Puts`, a whole string, is followed through the
  least counterexample to "every prefix leaves the cursor in the grid".
* **Files.** `FInv`: an open file's inode exists, its position is within the file
  and the bytes read are exactly the content up to it (`Cells`); a `dir_read` in
  progress uses a directory's descriptor (`Calls`); while nobody else used
  `dir_index`, the entries read are 1..`dir_index`, one more between the copy and
  the store (`AllInStep`). `ReadOn` says that `read_data`'s loop over blocks
  returns the bytes from the position on, for every block and chunk size.
* **Programs.** `PInv` adds to `FInv` what each program knows of its slot. Only
  one process calls, so a `dir_read` that passed the test of `dir_index` finds the
  entry still there (`Index`). `cat` and `ls` have no open descriptor before their
  `open` and then descriptor 2, which owns the directory index if it is a
  directory's (`Copying`): `open` reuses the lowest free descriptor and resets its
  position, so nothing an earlier program left is read. For `syserr`, `Testing`
  says which test is at which call (`Queue`) and which descriptors are open: none
  outside `err_open_lots`, and inside it those opened so far, or not yet closed
  (`Lots`). After it every descriptor still has the directory's table (`Left`),
  which is why the later `err_unopened` gets -1 from `write` and not an exception.
* **Rtc.** `RInv`: what is in service is what the handler that runs was called for
  and has not acknowledged, and the cascade is never masked once it is open; an
  interrupt with a handler is never masked, since
  `disable_irq` clears bits; a writer that passed `powerOfTwo` has a frequency of
  at least 1; until a hit, a writer midway has register A selected and carries
  the divider it read. `RateIsRight` says that the rate `rtc_write` computes with
  its shift loops gives the frequency `Promised` for the request, for every
  request.
* **Fish.** `FInv`: there is a chain of distinct elements from the head to NULL
  through exactly the elements that are not free, and the tasklet is at one of
  them (`Linking`). During the tasklet two synchronised elements may differ by one
  tick: the one behind the tasklet is `Ticked` once more than the one before it
  (`Partners`). `ChainAdd` and `ChainRemove` say what one assignment of a link
  does to the chain, `WalkExists` that a link-by-link walk is the chain. For
  `add_frames`, `Framing` follows each of the two texts (`Along`: so many line
  feeds and then so many characters were read of it, or its row or the text is
  over and shows nothing more in this row) and says that the array is `Filled`
  with the cells before the current row and column, in reading order. The
  element number of a cell is a cardinality (`Rank`); that it is the next free one
  when `add` runs is the argument about finite sets in `FramingHolds`.
* **Grep.** `GInv` is `Buffer` (the indices; a read leaves room to spare only at
  the end of the file; a line that is carried over begins behind another, so that
  the next read has room), `Searching` and `Searched`. `Searching` says that the
  bytes from `line_start` on are the text from a certain place on, and that
  exactly the lines with the word up to that place are printed. The place is the
  beginning of a line (`AtLine`), or it is the line feed or the end of the text
  behind a line that ended with the buffer and was searched there (`AtFeed`): the
  code then searches an empty line, which contains no word. That second case is
  what makes the invariant inductive. `~dirty` is needed where a full buffer cuts
  a line: the code looks for a line feed in the byte behind the buffer, which no
  read ever writes.

Facts about data of any length (walks along a list, prefixes of a string, the
end of a line, the shift loop of `rtc_write`, blocks of a file) are proved
without an induction theorem: a recursive *function* is unfolded, and the least
counterexample, which exists because `<` on Nat is well founded, is refuted. Where a definition was
beyond the provers it was rewritten without changing its meaning: no nested `@`,
no tuple as a bound variable, sets of characters as constants.

### Only model-checked

* Liveness under fairness (RoundRobin, HaltReturns, LineDelivered, ReadReturns,
  Finishes): the prover has no ENABLED. These five are the only properties of the
  passing runs that no theorem states.
* `RatesExact` and `ParserFindsWords` compare with reference definitions on all
  small inputs.

## Abstractions and what is not modelled

* Registers, stack contents and the bytes of programs: a stack is its control
  point, and a thread on a stack that others use meanwhile may be resumed as
  `Wild`. `process[6]` is one past the end of the array; in the committed image
  two bytes of padding follow it, and the model gives it an element of its own.
* Shell takes `execute` and `halt` as undisturbed steps; their interleavings
  are Scheduler's.
* Steps of the display with interrupts on are as fine as the races in them need:
  the two loads of `lib.c` 12 are one step, so are the three assignments of
  `clear` (34-36), and in `putc` the store of a character with the move of the
  cursor, and the scroll. A key that lands between these pieces would find a
  cursor that is half moved; a key in the control points around them sets `lost`
  (`Torn`), and nothing is claimed after it.
* `page_init`, segment descriptors, multiboot parsing: set-up without later
  state. Of the library, `strlen`, `strncmp` and `strncpy` are modelled where
  they are used; `strcpy` (the argument into the PCB, `syscall.c` 197) and `memcpy`
  (a directory entry, the screens of `switch_terminal`) are assignments in the
  actions that call them. `itoa` and `strrev` only format, and `memset`, its
  variants and `memmove` have no caller.
* `counter`, `pingpong`, `hello` and `testprint` only format and print; `sigtest`
  needs signals, which the kernel does not have. In the models of the kernel's
  parts programs are the environment: they may make any call at any time.
* Fish's ioctl `find` reads only. What follows the use of location 0 in Blink is
  left out: the list becomes cyclic there and nothing is claimed.
* The host emulation of the system calls and the in-kernel tests (commented out)
  do not run in the kernel.

## Plan

1. Done: Scheduler with its proofs and Processes, LineBuffer/LineQueue, Rtc,
   Files with Programs, Display, Keyboard, Shell, Grep, Blink and Fish.
2. Done: the proofs above, for every component of the kernel and for the user
   programs: every safety property that a run checks is a theorem.
3. Left for later: `page_init` and the mappings at run time in one module; a
   composition of Scheduler and LineBuffer, where `terminal_read` uses
   `terminal_num` after a switch.
