----------------------------- MODULE LineBuffer -----------------------------
(***************************************************************************)
(* The line discipline of one terminal: keyboard_handler and               *)
(* keyboard_print (student-distrib/keyboard.c) fill key_buf from the       *)
(* keyboard interrupt while terminal_read (terminal.c), in the process of  *)
(* that terminal, waits for a line and takes it out.                       *)
(*                                                                         *)
(* `lost' is a history variable: it records that a key or a read of a kind *)
(* the buffer does not survive has happened.                               *)
(***************************************************************************)
EXTENDS Integers, Sequences, SequencesExt, FiniteSets

CONSTANTS
    N,          \* KEYBOARD_BUF_SIZE
    TabSize,    \* TAB_SIZE
    Chars,      \* what a character key stores
    Keys,       \* the kinds of key that are pressed
    ReadSizes,  \* values of nbytes
    SpillMax    \* bound on the bytes written past key_buf

Newline == "nl"
Space == "sp"
Nul == "nul"
SpaceCode == 32         \* ' ' as the number it is when it lands on a counter
FlagOffset == 4         \* buf_flag follows key_buf and the four bytes of num_buf

ASSUME LineAssumption ==
    /\ N \in Nat \ {0} /\ TabSize \in Nat \ {0} /\ SpillMax \in Nat
    /\ Keys \subseteq {"char", "tab", "backspace", "enter", "clear"}
    /\ ReadSizes \subseteq Nat
    /\ Newline \notin Chars    \* the code of '\n' in the maps is ENTER's

VARIABLES
    key_buf,    \* terminal_t[t].key_buf
    num_buf,    \* .num_buf
    buf_flag,   \* .buf_flag, an int8_t
    reader,     \* control point of terminal_read
    nbytes,     \* its argument
    buf,        \* what the last read copied out
    lost

vars == <<key_buf, num_buf, buf_flag, reader, nbytes, buf, lost>>

Index == 0..(N - 1)

\* The buffer holds characters, its counters stay numbers of their width, and the
\* count stays within the buffer until a key has destroyed input (lib.h 12 and
\* 20-22).
TypeOK ==
    /\ key_buf \in [Index -> Chars \cup {Newline, Space, Nul}]
    /\ num_buf \in Int /\ num_buf <= N + SpillMax /\ (~lost => num_buf \in 0..N)
    /\ buf_flag \in -128..127
    /\ reader \in {"idle", "wait", "copy"}
    /\ nbytes \in ReadSizes \cup {0}
    /\ lost \in BOOLEAN

Init ==
    /\ key_buf = [i \in Index |-> Nul]
    /\ num_buf = 0
    /\ buf_flag = 0
    /\ reader = "idle"
    /\ nbytes = 0
    /\ buf = <<>>
    /\ lost = FALSE

Int8(x) == ((x + 128) % 256) - 128

-----------------------------------------------------------------------------
(* The keyboard interrupt *)

\* key_buf[num_buf++] = c, k times and with no check: past the end the bytes
\* fall on num_buf, which the increment repairs, and then on buf_flag.
Store(c, k) ==
    LET hit == num_buf .. (num_buf + k - 1) IN
    /\ key_buf' = [i \in Index |-> IF i \in hit THEN c ELSE key_buf[i]]
    /\ num_buf' = num_buf + k
    /\ buf_flag' = IF (N + FlagOffset) \in hit THEN SpaceCode ELSE buf_flag

KeyChar_Unchecked(c) ==     \* mutant: no test for a full buffer
    /\ "char" \in Keys
    /\ Store(c, 1)
    /\ UNCHANGED <<reader, nbytes, buf, lost>>

\* keyboard_print: a character is dropped when the last place but one is taken.
KeyChar(c) ==
    /\ "char" \in Keys
    /\ num_buf < N - 1
    /\ Store(c, 1)
    /\ UNCHANGED <<reader, nbytes, buf, lost>>

\* TAB is not checked.
KeyTab ==
    /\ "tab" \in Keys
    /\ num_buf + TabSize <= N + SpillMax
    /\ Store(Space, TabSize)
    /\ lost' = (lost \/ num_buf + TabSize > N)
    /\ UNCHANGED <<reader, nbytes, buf>>

\* BACKSPACE takes the last byte back, whatever it is.
KeyBackspace ==
    /\ "backspace" \in Keys
    /\ num_buf > 0
    /\ num_buf' = num_buf - 1
    /\ lost' = (lost \/ (num_buf <= N /\ key_buf[num_buf - 1] = Newline))
    /\ UNCHANGED <<key_buf, buf_flag, reader, nbytes, buf>>

\* ENTER ends the line, and may use the last place.
KeyEnter ==
    /\ "enter" \in Keys
    /\ num_buf # N /\ num_buf < N + SpillMax
    /\ key_buf' = [i \in Index |-> IF i = num_buf THEN Newline ELSE key_buf[i]]
    /\ num_buf' = num_buf + 1
    /\ buf_flag' = Int8(buf_flag + 1)
    /\ UNCHANGED <<reader, nbytes, buf, lost>>

\* CTRL+L empties the buffer, also when terminal_read has seen its line but
\* has not yet turned interrupts off.
KeyClear ==
    /\ "clear" \in Keys
    /\ key_buf' = [i \in Index |-> Nul]
    /\ num_buf' = 0
    /\ buf_flag' = 0
    /\ lost' = (lost \/ reader = "copy")
    /\ UNCHANGED <<reader, nbytes, buf>>

-----------------------------------------------------------------------------
(* terminal_read *)

ReadCall(n) ==
    /\ reader = "idle"
    /\ reader' = "wait"
    /\ nbytes' = n
    /\ UNCHANGED <<key_buf, num_buf, buf_flag, buf, lost>>

\* Mutant: the loop waits for exactly one line.
ReadTest_OneLine ==
    /\ reader = "wait"
    /\ buf_flag = 1
    /\ reader' = "copy"
    /\ UNCHANGED <<key_buf, num_buf, buf_flag, nbytes, buf, lost>>

\* The loop at line 28 sees a line; interrupts stay on until line 31.
ReadTest ==
    /\ reader = "wait"
    /\ buf_flag # 0
    /\ reader' = "copy"
    /\ UNCHANGED <<key_buf, num_buf, buf_flag, nbytes, buf, lost>>

Newlines == {i \in Index : key_buf[i] = Newline}

\* Lines 37-42: up to the first newline or nbytes; with neither inside the
\* buffer the copy runs on over the memory behind it.
BytesRead ==
    LET ends == {i \in Newlines : i < nbytes} IN
    IF ends # {} THEN {1 + CHOOSE i \in ends : \A j \in ends : i <= j}
    ELSE IF nbytes <= N THEN {nbytes}
    ELSE (N + 1)..nbytes

\* Mutants: the line is not counted off; the buffer is not shifted.
ReadCopy_NoCount ==
    /\ reader = "copy"
    /\ \E r \in BytesRead :
          /\ buf' = [i \in 1..r |-> IF i <= N THEN key_buf[i - 1] ELSE Nul]
          /\ key_buf' = [i \in Index |->
                           IF i + r < N THEN key_buf[i + r] ELSE Nul]
          /\ num_buf' = num_buf - r
          /\ buf_flag' = buf_flag
    /\ lost' = (lost \/ {i \in Newlines : i < nbytes} = {})
    /\ reader' = "idle"
    /\ UNCHANGED nbytes

ReadCopy_NoShift ==
    /\ reader = "copy"
    /\ \E r \in BytesRead :
          /\ buf' = [i \in 1..r |-> IF i <= N THEN key_buf[i - 1] ELSE Nul]
          /\ key_buf' = key_buf
          /\ num_buf' = num_buf - r
          /\ buf_flag' = Int8(buf_flag - 1)
    /\ lost' = (lost \/ {i \in Newlines : i < nbytes} = {})
    /\ reader' = "idle"
    /\ UNCHANGED nbytes

\* Lines 31-58, interrupts off.
ReadCopy ==
    /\ reader = "copy"
    /\ \E r \in BytesRead :
          /\ buf' = [i \in 1..r |-> IF i <= N THEN key_buf[i - 1] ELSE Nul]
          /\ key_buf' = [i \in Index |->
                           IF i + r < N THEN key_buf[i + r] ELSE Nul]
          /\ num_buf' = num_buf - r
          /\ buf_flag' = Int8(buf_flag - 1)
    /\ lost' = (lost \/ {i \in Newlines : i < nbytes} = {})
    /\ reader' = "idle"
    /\ UNCHANGED nbytes

-----------------------------------------------------------------------------
Keyboard == \/ \E c \in Chars : KeyChar(c)
            \/ KeyTab \/ KeyBackspace \/ KeyEnter \/ KeyClear
Reader == \/ \E n \in ReadSizes : ReadCall(n)
          \/ ReadTest \/ ReadCopy

Next == Keyboard \/ Reader
Spec == Init /\ [][Next]_vars

\* The process that reads is scheduled again and again (Scheduler, RoundRobin),
\* and spins in its loop when it is.
FairSpec == Spec /\ WF_vars(ReadTest) /\ WF_vars(ReadCopy)

-----------------------------------------------------------------------------
(* Properties *)

\* The count stays within the buffer (lib.h 12, terminal_t[].num_buf).
InBuffer == num_buf \in 0..N

\* When terminal_read copies, there is a line to copy (terminal.c 22 and 27).
ReadHasLine ==
    reader = "copy" => \E i \in Newlines : i < num_buf

\* Until a key has destroyed input, buf_flag is the number of complete lines
\* among the num_buf bytes in use, in the one byte it has (a full buffer of 128
\* newlines makes it -128), and a reader that copies has one
\* (keyboard.c 304-309, terminal.c 27-28 and 53-55).
LinesCounted ==
    ~lost => /\ buf_flag = Int8(Cardinality({i \in Newlines : i < num_buf}))
             /\ ReadHasLine

\* A waiting read ends once a line is there, unless the line is cleared
\* (terminal.c 27-28).
LineDelivered ==
    (reader = "wait" /\ buf_flag # 0) ~> (reader = "idle" \/ buf_flag = 0 \/ lost)

\* The abstract queue: the bytes in use, and the line last read.
Contents == [i \in 1..num_buf |-> key_buf[i - 1]]
Queue == INSTANCE LineQueue WITH
            NL <- Newline,
            pending <- IF lost THEN <<>> ELSE Contents,
            line <- IF lost THEN <<>> ELSE buf
\* Until input is lost the buffer implements a queue of lines: what is read is
\* what was typed, whole lines first in first out
\* (keyboard.c 280-310 and 351-391, terminal.c 24-64).
ImplementsQueue == Queue!QSpec

=============================================================================
