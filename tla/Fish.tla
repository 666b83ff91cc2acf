-------------------------------- MODULE Fish --------------------------------
(***************************************************************************)
(* The fish program (fish/fish.c) on top of Blink: add_frames turns two    *)
(* text files into blinking characters, one file for each phase, and main  *)
(* runs the tasklet at every tick of the clock between a few ioctl calls.  *)
(* Besides fish itself (`at' > 0) the module has any other program that    *)
(* uses the ioctl calls and the tasklet in any order (`at' = 0).           *)
(***************************************************************************)
EXTENDS Blink, Sequences

CONSTANTS
  COLS, OFFSET,       \* 80 columns, frames start at column 40
  FRAME_LENGTH,       \* 15: both lengths of the frames' characters
  LONE,               \* the structure main adds by itself
  WAIT,               \* ticks between main's calls (100)
  Contents,           \* contents of frame0.txt and frame1.txt
  ClientBlocks        \* structures that another program adds

ASSUME FishAssumption ==
  /\ COLS \in Nat \ {0} /\ OFFSET \in Nat \ {0} /\ WAIT \in Nat
  /\ FRAME_LENGTH \in Words /\ {"a", "b", "sp"} \subseteq Glyphs
  /\ {LONE} \cup ClientBlocks \subseteq Structures(Nat)
  /\ Contents \subseteq Seq({"a", "b", "sp", "nl"})

Script == <<"frames", "wait", "add", "wait", "sync", "wait", "remove", "wait", "done">>

VARIABLES
  files,              \* history: what the two files hold
  rest,               \* what of them is not read yet
  char, eof,          \* c0 and c1, eof0 and eof1
  row, col,
  at, i               \* position in Script (0: another program), tick count

fvars == <<files, rest, char, eof, row, col, at, i>>
vars == <<bvars, fvars>>

Init ==
  /\ BInit
  /\ \/ at = 0 /\ files = <<<<>>, <<>>>>
     \/ at = 1 /\ files \in Contents \X Contents
  /\ rest = files
  /\ char = <<"0", "0">> /\ eof = <<FALSE, FALSE>>
  /\ row = 0 /\ col = 0 /\ i = 0

Doing(what) == at > 0 /\ Script[at] = what

-----------------------------------------------------------------------------
(* The page of vidmap or one of the two files cannot be had: main returns,  *)
(* or add_frames halts, before anything is read.                            *)
SetupFails ==
  /\ Doing("frames") /\ row = 0 /\ col = 0
  /\ at' = Len(Script) /\ UNCHANGED <<bvars, files, rest, char, eof, row, col, i>>

(* add_frames.  One character is read of each file whose line has not ended *)
(* in this row; the end of a file is the end of its line.                   *)
ReadsChar(k) == char[k] # "nl"
AtEnd(k) == eof[k] \/ (ReadsChar(k) /\ rest[k] = <<>>)
NewChar(k) == IF ~ReadsChar(k) \/ rest[k] = <<>> THEN "nl" ELSE Head(rest[k])
NewRest(k) == IF ReadsChar(k) /\ rest[k] # <<>> THEN Tail(rest[k]) ELSE rest[k]

Shown(c) == IF c = "nl" THEN "sp" ELSE c
Stored(l) == l % (2 * HALF)         \* in an unsigned short
FrameBlock(l, c0, c1) ==
  [Free EXCEPT !.location = l, !.on_char = Shown(c0), !.off_char = Shown(c1),
               !.on_length = FRAME_LENGTH, !.off_length = FRAME_LENGTH]

FrameChar ==
  LET c == [k \in 1..2 |-> NewChar(k)] IN
  /\ Doing("frames") /\ c # <<"nl", "nl">>
  /\ IF Shown(c[1]) # "sp" \/ Shown(c[2]) # "sp"
     THEN Add(FrameBlock(Stored(row * COLS + col + OFFSET), c[1], c[2]))
     ELSE UNCHANGED bvars
  /\ char' = c
  /\ eof' = [k \in 1..2 |-> AtEnd(k)]
  /\ rest' = [k \in 1..2 |-> NewRest(k)]
  /\ col' = col + 1
  /\ UNCHANGED <<files, row, at, i>>

(* Both lines have ended: the next row, unless both files have.             *)
FrameRow_BothRead ==        \* mutant: a file that ended is read again
  /\ Doing("frames") /\ \A k \in 1..2 : NewChar(k) = "nl"
  /\ eof' = [k \in 1..2 |-> AtEnd(k)]
  /\ rest' = [k \in 1..2 |-> NewRest(k)]
  /\ char' = <<"0", "0">>
  /\ row' = IF eof'[1] THEN row ELSE row + 1
  /\ col' = 0
  /\ at' = IF eof'[1] /\ eof'[2] THEN at + 1 ELSE at
  /\ UNCHANGED <<bvars, files, i>>
FrameRow ==
  /\ Doing("frames") /\ \A k \in 1..2 : NewChar(k) = "nl"
  /\ eof' = [k \in 1..2 |-> AtEnd(k)]
  /\ rest' = [k \in 1..2 |-> NewRest(k)]
  /\ char' = [k \in 1..2 |-> IF eof'[k] THEN "nl" ELSE "0"]
  /\ row' = row + 1 /\ col' = 0
  /\ at' = IF eof'[1] /\ eof'[2] THEN at + 1 ELSE at
  /\ UNCHANGED <<bvars, files, i>>

-----------------------------------------------------------------------------
Keep == UNCHANGED <<files, rest, char, eof, row, col>>
Advance == at' = at + 1 /\ i' = 0 /\ Keep

(* One turn of a waiting loop: a tick, then the whole tasklet.              *)
WaitTick ==
  /\ Doing("wait") /\ i < WAIT /\ cur = NULL
  /\ TaskletStart \/ (head = NULL /\ UNCHANGED bvars)
  /\ i' = i + 1 /\ UNCHANGED at /\ Keep
WaitOver == Doing("wait") /\ i = WAIT /\ cur = NULL /\ UNCHANGED bvars /\ Advance
Tasklet == TaskletStep /\ UNCHANGED fvars

MainAdd == Doing("add") /\ Add(LONE) /\ Advance
MainSync ==
  /\ Doing("sync")
  /\ \/ mp1_ioctl_sync(OFFSET, LONE.location)
     \/ /\ NULL \in {mp1_find_helper(OFFSET), mp1_find_helper(LONE.location)}
        /\ UNCHANGED bvars
  /\ Advance
MainRemove ==
  /\ Doing("remove")
  /\ \/ mp1_ioctl_remove(LONE.location)
     \/ mp1_find_helper(LONE.location) = NULL /\ UNCHANGED bvars
  /\ Advance

(* Another program: any call, outside the tasklet.                          *)
Client ==
  /\ at = 0 /\ cur = NULL /\ UNCHANGED fvars
  /\ \/ \E b \in ClientBlocks : Add(b)
     \/ \E l \in Locations : mp1_ioctl_remove(l)
     \/ \E l, m \in Locations : mp1_ioctl_sync(l, m)
     \/ TaskletStart

Next == \/ SetupFails \/ FrameChar \/ FrameRow \/ WaitTick \/ WaitOver \/ Tasklet
        \/ MainAdd \/ MainSync \/ MainRemove \/ Client

Spec == Init /\ [][Next]_vars

-----------------------------------------------------------------------------
(* The text of a file as the character in a row and column, a space where    *)
(* the line is shorter or the file has no such line: the one with so many    *)
(* line feeds before it and so many characters after the last of them.       *)
Feeds(f, n) == Cardinality({h \in 1..n : f[h] = "nl"})
IsIn(f, p, r, c) ==
  /\ f[p] # "nl" /\ Feeds(f, p - 1) = r
  /\ c < p /\ (p - c = 1 \/ f[p - c - 1] = "nl")
  /\ \A h \in (p - c)..(p - 1) : f[h] # "nl"
TextAt(f, r, c) ==
  LET here == {p \in 1..Len(f) : IsIn(f, p, r, c)}
  IN  IF here = {} THEN "sp" ELSE f[CHOOSE p \in here : TRUE]

(* The cells where either frame has something to show, in reading order.     *)
Rows == 0..Len(files[1]) + Len(files[2])
Cells == {p \in Rows \X Rows : \E k \in 1..2 : TextAt(files[k], p[1], p[2]) # "sp"}
Location(p) == p[1] * COLS + p[2] + OFFSET
OnScreen == {p \in Cells : Location(p) < LIMIT}
Rank(p) == Cardinality({q \in OnScreen :
             q[1] < p[1] \/ (q[1] = p[1] /\ q[2] <= p[2])})

(* No place of the texts is beyond what an unsigned short can hold.          *)
NoWrap == \A p \in Cells : Location(p) < 2 * HALF

CellsShown ==
  at = 2 /\ i = 0 =>
    \A e \in Elements :
      /\ \A p \in OnScreen : Rank(p) = e =>
           block[e] = [FrameBlock(Location(p), TextAt(files[1], p[1], p[2]),
                                  TextAt(files[2], p[1], p[2]))
                        EXCEPT !.status = 1, !.countdown = FRAME_LENGTH, !.next = e - 1]
      /\ e > Cardinality(OnScreen) => block[e] = Free

(* add_frames makes exactly one element for every cell of the screen where   *)
(* one of the two texts has a visible character, with the characters of both *)
(* texts there, however their lines and lengths differ, as long as the array *)
(* has room and no line is so far down that its place wraps around in the    *)
(* 16-bit location and lands on the screen again (fish.c 78-148).            *)
FramesShown == NoWrap => CellsShown
=============================================================================
