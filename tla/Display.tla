------------------------------ MODULE Display ------------------------------
(***************************************************************************)
(* What the terminals show: putc, putc2screen, clear and switch_terminal   *)
(* (lib.c), the echo of keys (keyboard.c), terminal_write (terminal.c),    *)
(* the text of the exception handlers (idt.c) and the page through which   *)
(* programs reach video memory (vidmap in syscall.c, pit_handler).         *)
(*                                                                         *)
(* The displayed terminal is drawn in video memory, every other one in a   *)
(* page of its own; switch_terminal copies.  System calls print with       *)
(* interrupts off, exception handlers with interrupts on: their text goes  *)
(* on, step by step, between keys, switches and ticks.                     *)
(***************************************************************************)
EXTENDS Integers, Sequences

CONSTANTS
    T,            \* number of terminals
    NUM_COLS, NUM_ROWS,
    Byte,         \* values of a byte of the cursor's position: 256
    BUF_SIZE,     \* KEYBOARD_BUF_SIZE
    TabSize,      \* TAB_SIZE
    Keys,         \* keys that are pressed: "a", "tab", "nl", "bs", "clear"
    Outputs,      \* strings that programs print
    Messages,     \* kernel messages with interrupts on: "exception", "full"
    Vidmaps,      \* whether programs call vidmap
    Skew,         \* cells by which a terminal structure exceeds whole pages
    StartMax      \* bound: rows above the screen that start_line_ptr is followed

ASSUME DisplayAssumption ==
    /\ T \in Nat \ {0} /\ NUM_COLS \in Nat \ {0} /\ NUM_ROWS \in Nat \ {0, 1}
    /\ BUF_SIZE \in Nat \ {0} /\ BUF_SIZE <= (NUM_ROWS - 1) * NUM_COLS
    /\ Byte \in Nat \ {0}
    /\ TabSize \in Nat /\ Outputs \subseteq Seq({"a", "nl", "bs"})
    /\ Messages \subseteq {"exception", "full"}
    /\ Vidmaps \in BOOLEAN /\ Skew \in Nat

Terminals == 0..(T - 1)
Cells == 0..(NUM_ROWS * NUM_COLS - 1)
Blank == "sp"
None == -1          \* no terminal
Screen == -2        \* video memory, as the target of the page at 132 MB

VARIABLES
    video_mem,            \* what the monitor shows
    video_memory,         \* the page of each terminal
    cur,                  \* screen_x, screen_y, start_line_ptr of each terminal
    num_buf,              \* keys stored for each terminal
    flag,                 \* terminals that have a shell
    terminal_num,         \* the running terminal
    terminal_displayed,
    cursor,               \* the two bytes of the hardware cursor's position
    page,                 \* what 132 MB maps to: None, Screen or a terminal
    exc,                  \* a kernel message of each terminal: how far it is
    actor,                \* history: the terminal a step belongs to
    lost                  \* history: a step hit what it was not meant to

shown == <<video_mem, video_memory, cur, cursor>>
vars == <<video_mem, video_memory, cur, num_buf, flag, terminal_num,
          terminal_displayed, cursor, page, exc, actor, lost>>

NoExc == [pc |-> "idle", on |-> "memory", i |-> 0, msg |-> <<>>, pos |-> 0]
Origin == [x |-> 0, y |-> 0, start |-> 0]
BlankPage == [c \in Cells |-> Blank]
Pos(c) == c.y * NUM_COLS + c.x

\* The bytes of lines 13 and 14, and what draw_cursor leaves when nothing
\* comes between them.
Low(pos) == pos % Byte
High(pos) == (pos \div Byte) % Byte
CursorAt(c) == [low |-> Low(Pos(c)), high |-> High(Pos(c))]

\* Pages hold characters, columns stay in the grid, the terminal that runs is an
\* opened one, and the keys fit their buffer unless TAB ran past it (lib.h 18-33).
TypeOK ==
    /\ video_mem \in [Cells -> {Blank, "a"}]
    /\ video_memory \in [Terminals -> [Cells -> {Blank, "a"}]]
    /\ \A t \in Terminals : cur[t].x \in 0..(NUM_COLS - 1) /\ cur[t].y \in Int
    /\ num_buf \in [Terminals -> Nat]
    /\ ~lost => \A t \in Terminals : num_buf[t] <= BUF_SIZE
    /\ flag \subseteq Terminals
    /\ terminal_num \in flag /\ actor \in Terminals \cup {None} /\ terminal_displayed \in Terminals
    /\ page \in Terminals \cup {None, Screen}

Init ==
    /\ video_mem = BlankPage
    /\ video_memory = [t \in Terminals |-> BlankPage]
    /\ cur = [t \in Terminals |-> Origin]
    /\ num_buf = [t \in Terminals |-> 0]
    /\ flag = {0}
    /\ terminal_num = 0 /\ terminal_displayed = 0
    /\ cursor = CursorAt(Origin)
    /\ page = None
    /\ exc = [t \in Terminals |-> NoExc]
    /\ actor = 0
    /\ lost = FALSE

-----------------------------------------------------------------------------
(* putc and putc2screen, the same on two pages: s is [mem, c] *)

Stored(mem, pos, ch) == IF pos \in Cells THEN [mem EXCEPT ![pos] = ch] ELSE mem

NewLine(s) ==
    [s EXCEPT !.c = [x |-> 0, y |-> s.c.y + 1, start |-> (s.c.y + 1) * NUM_COLS]]

Back(s) ==
    LET c == [s.c EXCEPT !.x = IF @ = 0 THEN NUM_COLS - 1 ELSE @ - 1,
                         !.y = IF s.c.x = 0 THEN @ - 1 ELSE @]
    IN [mem |-> Stored(s.mem, Pos(c), Blank), c |-> c]

Letter(s, ch) ==
    [mem |-> Stored(s.mem, Pos(s.c), ch),
     c   |-> [s.c EXCEPT !.x = (@ + 1) % NUM_COLS,
                         !.y = IF s.c.x + 1 >= NUM_COLS THEN @ + 1 ELSE @]]

Advance(s, ch) == CASE ch = "nl" -> NewLine(s)
                    [] ch = "bs" -> Back(s)
                    [] OTHER -> Letter(s, ch)

\* Lines 312-330.
Scroll(s) ==
    IF s.c.y # NUM_ROWS THEN s
    ELSE [mem |-> [p \in Cells |-> IF p + NUM_COLS \in Cells THEN s.mem[p + NUM_COLS]
                                   ELSE Blank],
          c   |-> [s.c EXCEPT !.y = @ - 1, !.start = @ - NUM_COLS]]

\* BACKSPACE at the start of the line does nothing at all.
Put(s, ch) ==
    IF ch = "bs" /\ Pos(s.c) = s.c.start THEN s ELSE Scroll(Advance(s, ch))

\* One character after the other.
Puts(s, chars) ==
    LET put[k \in 0..Len(chars)] == IF k = 0 THEN s ELSE Put(put[k - 1], chars[k])
    IN put[Len(chars)]

View(t) == IF t = terminal_displayed THEN video_mem ELSE video_memory[t]
State(t) == [mem |-> View(t), c |-> cur[t]]

\* The state of terminal t becomes s; the cursor is drawn if t is displayed.
Draw(t, s) ==
    /\ cur' = [cur EXCEPT ![t] = s.c]
    /\ \/ /\ t = terminal_displayed
          /\ video_mem' = s.mem /\ cursor' = CursorAt(s.c)
          /\ UNCHANGED video_memory
       \/ /\ t # terminal_displayed
          /\ video_memory' = [video_memory EXCEPT ![t] = s.mem]
          /\ UNCHANGED <<video_mem, cursor>>

\* A key lands in the middle of a kernel message that moves the cursor: between
\* the test of putc and the end of its scroll, or at lines 34-36 of clear.
Torn(t) == \/ exc[t].pc \in {"store", "scroll"}
           \/ exc[t].pc = "clear" /\ exc[t].i \notin Cells

Followed(t) == cur[t].start >= -StartMax * NUM_COLS

-----------------------------------------------------------------------------
(* Steps with interrupts off *)

\* terminal_write of the running process.
terminal_write(out) ==
    /\ exc[terminal_num].pc = "idle" /\ Followed(terminal_num)
    /\ Draw(terminal_num, Puts(State(terminal_num), out))
    /\ actor' = terminal_num
    /\ UNCHANGED <<num_buf, flag, terminal_num, terminal_displayed, page, exc, lost>>

\* terminal_read takes the k bytes of a line (LineBuffer).
terminal_read(k) ==
    /\ exc[terminal_num].pc = "idle"
    /\ k \in 1..num_buf[terminal_num]
    /\ num_buf' = [num_buf EXCEPT ![terminal_num] = @ - k]
    /\ actor' = terminal_num
    /\ UNCHANGED <<shown, flag, terminal_num, terminal_displayed, page, exc, lost>>

\* The echo of a key; it may find the cursor of a kernel message half moved.
Echo(chars, n) ==
    LET t == terminal_displayed IN
    /\ Followed(t)
    /\ Draw(t, Puts(State(t), chars))
    /\ num_buf' = [num_buf EXCEPT ![t] = @ + n]
    /\ actor' = t
    /\ lost' = (lost \/ Torn(t))
    /\ UNCHANGED <<flag, terminal_num, terminal_displayed, page, exc>>

KeyChar == "a" \in Keys /\ num_buf[terminal_displayed] < BUF_SIZE - 1 /\ Echo(<<"a">>, 1)
KeyEnter == "nl" \in Keys /\ num_buf[terminal_displayed] # BUF_SIZE /\ Echo(<<"nl">>, 1)
KeyBackspace_Unchecked == "bs" \in Keys /\ Echo(<<"bs">>, 0)   \* mutant: no test
KeyBackspace == "bs" \in Keys /\ num_buf[terminal_displayed] > 0 /\ Echo(<<"bs">>, -1)
Spaces == [i \in 1..TabSize |-> Blank]
\* TAB past the end of key_buf: the spaces are shown, and stored over what lies
\* behind it in the structure, num_buf and then screen_x and screen_y.  What
\* these hold then is any value in their range here; no claim is made after it.
KeyTabOverrun ==
    LET t == terminal_displayed
        s == Puts(State(t), Spaces)
    IN
    /\ num_buf[t] + TabSize > BUF_SIZE /\ Followed(t)
    /\ \E n \in 0..(num_buf[t] + TabSize) : num_buf' = [num_buf EXCEPT ![t] = n]
    /\ \E x \in 0..(NUM_COLS - 1), y \in 0..NUM_ROWS :
           Draw(t, [s EXCEPT !.c = [s.c EXCEPT !.x = x, !.y = y]])
    /\ actor' = t
    /\ lost' = TRUE
    /\ UNCHANGED <<flag, terminal_num, terminal_displayed, page, exc>>
KeyTab ==
    /\ "tab" \in Keys
    /\ \/ num_buf[terminal_displayed] + TabSize <= BUF_SIZE /\ Echo(Spaces, TabSize)
       \/ KeyTabOverrun

\* Ctrl+L: clear for the displayed terminal, with terminal_num borrowed.
KeyClear ==
    LET t == terminal_displayed IN
    /\ "clear" \in Keys
    /\ Draw(t, [mem |-> BlankPage, c |-> Origin])
    /\ num_buf' = [num_buf EXCEPT ![t] = 0]
    /\ actor' = t
    /\ lost' = (lost \/ Torn(t))
    /\ UNCHANGED <<flag, terminal_num, terminal_displayed, page, exc>>

\* Lines 48-52 of switch_terminal.
Copies_NoSave(new) ==       \* mutant: line 48 is missing
    /\ video_mem' = video_memory[new]
    /\ terminal_displayed' = new
    /\ UNCHANGED video_memory
Copies(new) ==
    /\ video_memory' = [video_memory EXCEPT ![terminal_displayed] = video_mem]
    /\ video_mem' = video_memory[new]
    /\ terminal_displayed' = new

\* Alt+F1..F3 to a terminal that has its shell.
switch_terminal_NoCursor(new) ==    \* mutant: line 52 is missing
    /\ new # terminal_displayed
    /\ new = 0 \/ new \in flag
    /\ Copies(new)
    /\ actor' = None
    /\ UNCHANGED <<cur, cursor, num_buf, flag, terminal_num, page, exc, lost>>
switch_terminal(new) ==
    /\ new # terminal_displayed
    /\ new = 0 \/ new \in flag
    /\ Copies(new)
    /\ cursor' = CursorAt(cur[new])
    /\ actor' = None
    /\ UNCHANGED <<cur, num_buf, flag, terminal_num, page, exc, lost>>

\* To one that has none: it is cleared and gets a shell, and runs, ...
OpenTerminal(new) ==
    /\ new # terminal_displayed /\ new # 0 /\ new \notin flag
    /\ video_memory' = [video_memory EXCEPT ![terminal_displayed] = video_mem]
    /\ video_mem' = BlankPage
    /\ terminal_displayed' = new
    /\ cur' = [cur EXCEPT ![new] = Origin] /\ cursor' = CursorAt(Origin)
    /\ flag' = flag \cup {new}
    /\ terminal_num' = new
    /\ actor' = new
    /\ UNCHANGED <<num_buf, page, exc, lost>>

\* ... or, when the process table is full, only execute's message.
OpenTerminalFull(new) ==
    LET s == Puts([mem |-> BlankPage, c |-> Origin], <<"a", "nl">>) IN
    /\ new # terminal_displayed /\ new # 0 /\ new \notin flag
    /\ video_memory' = [video_memory EXCEPT ![terminal_displayed] = video_mem]
    /\ video_mem' = s.mem
    /\ terminal_displayed' = new
    /\ cur' = [cur EXCEPT ![new] = s.c] /\ cursor' = CursorAt(s.c)
    /\ actor' = new
    /\ UNCHANGED <<num_buf, flag, terminal_num, page, exc, lost>>

\* pit_handler, lines 41-62, as far as the display is concerned.
Tick(next) ==
    /\ flag # {0}
    /\ next \in flag
    /\ \A t \in flag : (next - terminal_num - 1) % T <= (t - terminal_num - 1) % T
    /\ terminal_num' = next
    /\ page' = IF next = terminal_displayed THEN Screen ELSE next
    /\ actor' = None
    /\ UNCHANGED <<shown, num_buf, flag, terminal_displayed, exc, lost>>

vidmap ==
    /\ Vidmaps /\ exc[terminal_num].pc = "idle"
    /\ page' = Screen
    /\ actor' = terminal_num
    /\ UNCHANGED <<shown, num_buf, flag, terminal_num, terminal_displayed, exc, lost>>

\* The entry for a background terminal keeps the address from bit 12 on: the
\* page starts this many cells before video_memory, inside the terminal before.
Shift(t) == IF t = Screen THEN 0 ELSE t * Skew

\* A store of the running program through the mapped page.
UserStore(p) ==
    LET t == terminal_num
        q == p - Shift(page)
    IN
    /\ Vidmaps /\ exc[t].pc = "idle" /\ page # None
    /\ \/ /\ page = Screen
          /\ video_mem' = [video_mem EXCEPT ![q] = "a"]
          /\ UNCHANGED <<video_memory, cur>>
       \/ /\ page # Screen /\ q >= 0
          /\ video_memory' = [video_memory EXCEPT ![page] = [@ EXCEPT ![q] = "a"]]
          /\ UNCHANGED <<video_mem, cur>>
       \/ /\ page # Screen /\ q < 0
          /\ \E y \in 0..NUM_ROWS : cur' = [cur EXCEPT ![page - 1].y = y]
          /\ UNCHANGED <<video_mem, video_memory>>
    /\ lost' = \/ lost \/ Shift(page) # 0
               \/ page # IF t = terminal_displayed THEN Screen ELSE t
    /\ actor' = t
    /\ UNCHANGED <<cursor, num_buf, flag, terminal_num, terminal_displayed, page, exc>>

-----------------------------------------------------------------------------
(* Messages with interrupts on: of an exception handler, which clears the
   terminal, prints and halts (all but EXC_PF, which only prints), and of
   execute when there is no free process.
   Where clear and putc draw is decided by a test (lines 23, 215) and used
   afterwards. *)

Where(t) == IF t = terminal_displayed THEN "screen" ELSE "memory"
Goto(t, pc) == exc' = [exc EXCEPT ![t].pc = pc]
others == <<num_buf, flag, terminal_num, terminal_displayed, page>>

\* A step that draws where the test said; putc2screen reads terminal_displayed
\* again at every use.
Target(t) == IF exc[t].on = "screen" THEN terminal_displayed ELSE t
Missed(t) == lost \/ exc[t].on # Where(t)
On(t) == IF exc[t].on = "screen" THEN video_mem ELSE video_memory[t]
Drawn(t, mem) ==
    IF exc[t].on = "screen" THEN video_mem' = mem /\ UNCHANGED video_memory
    ELSE video_memory' = [video_memory EXCEPT ![t] = mem] /\ UNCHANGED video_mem

\* An exception, and the test of clear (line 23).
ExcClearTest(t) ==
    /\ "exception" \in Messages /\ exc[t].pc = "idle"
    /\ exc' = [exc EXCEPT ![t] =
           [NoExc EXCEPT !.pc = "clear", !.on = Where(t), !.msg = <<"a">>]]
    /\ UNCHANGED <<shown, others, lost>>

\* Without a clear: execute, line 132 of syscall.c, and EXC_PF.
FullMessage(t) ==
    /\ "full" \in Messages /\ exc[t].pc = "idle" /\ Followed(t)
    /\ exc' = [exc EXCEPT ![t].pc = "test", ![t].msg = <<"a", "nl">>]
    /\ UNCHANGED <<shown, others, lost>>

\* One turn of the loops of lines 24-32.
ExcClearCell(t) ==
    /\ exc[t].pc = "clear" /\ exc[t].i \in Cells
    /\ Drawn(t, [On(t) EXCEPT ![exc[t].i] = Blank])
    /\ exc' = [exc EXCEPT ![t].i = @ + 1]
    /\ lost' = Missed(t)
    /\ UNCHANGED <<cur, cursor, others>>

\* Lines 34-36; draw_cursor follows.
ExcClearEnd(t) ==
    /\ exc[t].pc = "clear" /\ exc[t].i \notin Cells
    /\ cur' = [cur EXCEPT ![t] = Origin]
    /\ exc' = [exc EXCEPT ![t].pc = "pos", ![t].i = 0]
    /\ UNCHANGED <<video_mem, video_memory, cursor, others, lost>>

\* draw_cursor of a kernel message: the position is read (line 12), ...
ExcReadPos(t) ==
    /\ exc[t].pc = "pos"
    /\ exc' = [exc EXCEPT ![t].pc = "low", ![t].pos = Pos(cur[terminal_displayed])]
    /\ UNCHANGED <<shown, others, lost>>

\* ... and its bytes are written (13, 14), each of them stale if the displayed
\* terminal or its position has changed meanwhile.
ExcDrawLow(t) ==
    /\ exc[t].pc = "low"
    /\ cursor' = [cursor EXCEPT !.low = Low(exc[t].pos)]
    /\ lost' = (lost \/ Low(exc[t].pos) # CursorAt(cur[terminal_displayed]).low)
    /\ Goto(t, "high")
    /\ UNCHANGED <<video_mem, video_memory, cur, others>>

\* The message goes on with what is left of it.
Continued(e) ==
    IF e.msg = <<>> THEN NoExc ELSE [e EXCEPT !.pc = "test", !.pos = 0]

ExcDrawHigh(t) ==
    /\ exc[t].pc = "high"
    /\ cursor' = [cursor EXCEPT !.high = High(exc[t].pos)]
    /\ lost' = (lost \/ High(exc[t].pos) # CursorAt(cur[terminal_displayed]).high)
    /\ exc' = [exc EXCEPT ![t] = Continued(@)]
    /\ UNCHANGED <<video_mem, video_memory, cur, others>>

\* putc, line 215.
ExcPutTest(t) ==
    /\ exc[t].pc = "test"
    /\ exc' = [exc EXCEPT ![t].pc = "store", ![t].on = Where(t)]
    /\ UNCHANGED <<shown, others, lost>>

\* Lines 280-309 (221-250).
ExcPutStore(t) ==
    LET s == Advance([mem |-> On(t), c |-> cur[Target(t)]], Head(exc[t].msg)) IN
    /\ exc[t].pc = "store"
    /\ Drawn(t, s.mem)
    /\ cur' = [cur EXCEPT ![Target(t)] = s.c]
    /\ Goto(t, "scroll")
    /\ lost' = Missed(t)
    /\ UNCHANGED <<cursor, others>>

\* Lines 312-330 (253-271); the screen's cursor is drawn (333), the page has none.
ExcPutScroll(t) ==
    LET s == Scroll([mem |-> On(t), c |-> cur[Target(t)]]) IN
    /\ exc[t].pc = "scroll"
    /\ Drawn(t, s.mem)
    /\ cur' = [cur EXCEPT ![Target(t)] = s.c]
    /\ exc' = LET left == [exc[t] EXCEPT !.msg = Tail(@)]
              IN [exc EXCEPT ![t] = IF @.on = "screen" THEN [left EXCEPT !.pc = "pos"]
                                    ELSE Continued(left)]
    /\ lost' = Missed(t)
    /\ UNCHANGED <<cursor, others>>

\* A handler's message of the terminal that runs, one step at a time.
KernelMessage(t) ==
    /\ t = terminal_num
    /\ actor' = t
    /\ \/ FullMessage(t) \/ ExcClearTest(t) \/ ExcClearCell(t) \/ ExcClearEnd(t)
       \/ ExcReadPos(t) \/ ExcDrawLow(t) \/ ExcDrawHigh(t)
       \/ ExcPutTest(t) \/ ExcPutStore(t) \/ ExcPutScroll(t)

-----------------------------------------------------------------------------
Key == KeyChar \/ KeyEnter \/ KeyBackspace \/ KeyTab \/ KeyClear
Next ==
    \/ \E out \in Outputs : terminal_write(out)
    \/ \E k \in 1..BUF_SIZE : terminal_read(k)
    \/ Key
    \/ \E t \in Terminals : \/ switch_terminal(t) \/ OpenTerminal(t)
                            \/ OpenTerminalFull(t) \/ Tick(t) \/ KernelMessage(t)
    \/ vidmap
    \/ \E p \in Cells : UserStore(p)
Spec == Init /\ [][Next]_vars

-----------------------------------------------------------------------------
(* Properties *)

\* What a terminal shows, and its cursor, change only by steps of its own
\* process, by its own keys or by its own opening: never by what another
\* terminal prints, and switch_terminal loses nothing (lib.c 48-49, 215).
OutputStaysHome ==
    [][\A t \in Terminals : t # actor' => State(t)' = State(t)]_vars
\* The same until one of the races marked by `lost' hits.
OutputStaysHomeUnlessLost ==
    [][~lost' => \A t \in Terminals : t # actor' => State(t)' = State(t)]_vars

\* The cursor of every terminal is on its screen whenever no kernel message is
\* half printed, however lines are broken, erased and scrolled (lib.c 221-271).
CursorOnScreen ==
    \A t \in Terminals : exc[t] = NoExc => Pos(cur[t]) \in Cells
\* The same until one of the races marked by `lost' hits.
CursorOnScreenUnlessLost == ~lost => CursorOnScreen

\* While the page maps the running background terminal, as pit_handler sets it,
\* its program can change no other terminal (pit.c 59-60, page.h 8).
PageIsOwn ==
    [][\A t \in Terminals :
           page = t /\ actor' = t => \A u \in Terminals \ {t} : State(u)' = State(u)]_vars

\* The hardware cursor is where the displayed terminal continues, however keys,
\* switches and ticks fall between the reads and writes of draw_cursor.
CursorShown ==
    exc[terminal_displayed] = NoExc => cursor = CursorAt(cur[terminal_displayed])
\* All variables keep their types, and the hardware cursor is where the displayed
\* terminal continues until one of the races marked by `lost' hits (draw_cursor).
CursorShownUnlessLost == TypeOK /\ (~lost => CursorShown)

=============================================================================
