-------------------------------- MODULE Grep --------------------------------
(***************************************************************************)
(* The user program grep (syscalls/ece391grep.c): main walks the directory *)
(* and do_one_file searches a file through a buffer of BUFSIZE bytes,      *)
(* carrying the beginning of a line that the buffer cuts over to the next  *)
(* read.  What it reads is what Files promises: the directory entry by     *)
(* entry and each file from its beginning.  One step is one read or one    *)
(* turn of the loop over the lines of the buffer.                          *)
(***************************************************************************)
EXTENDS Integers, Sequences

CONSTANTS
  BUFSIZE,      \* bytes read at once; data has one more
  Directories,  \* sequences of entries: [kind, content]
  Patterns,     \* arguments of grep
  Garbage       \* what the stack may hold where data is, before it is written

Kinds == {"dot", "file", "unreadable"}

\* A word has a character, and neither of those that end a line or a string.
ASSUME GrepAssumption ==
  /\ BUFSIZE \in Nat \ {0}
  /\ Directories \subseteq Seq([kind : Kinds, content : Seq(STRING)])
  /\ Patterns \subseteq Seq(STRING \ {"nl", "nul"}) \ {<<>>}

VARIABLES
  entries,      \* the directory
  search,       \* the word searched for, s in do_one_file
  entry,        \* the directory entry being searched, 0 before the first
  pos,          \* the position of its descriptor
  data,         \* the buffer: data[1] is data[0] in the code
  last, cnt, line_start,
  pc,
  printed,      \* history: the lines printed for each entry
  dirty         \* history: was data[BUFSIZE] a line feed by accident?

gvars == <<entries, search, entry, pos, data, last, cnt, line_start, pc, printed, dirty>>

Content == entries[entry].content

GInit ==
  /\ entries \in Directories /\ search \in Patterns
  /\ data = [j \in 0..BUFSIZE |-> "nul"] /\ dirty = FALSE
  /\ entry = 0 /\ pos = 0 /\ last = 0 /\ cnt = 0 /\ line_start = 0
  /\ pc = "next" /\ printed = [e \in DOMAIN entries |-> <<>>]

(* The indices stay inside the buffer, and a read always has room for a byte *)
(* (ece391grep.c 22-59).                                                     *)
GTypeOK ==
  /\ entry \in 0..Len(entries) /\ pos \in Nat
  /\ last \in 0..BUFSIZE /\ cnt \in 0..BUFSIZE /\ line_start \in 0..BUFSIZE
  /\ pc \in {"next", "read", "line", "done", "failed"}
  /\ pc = "read" => last < BUFSIZE

-----------------------------------------------------------------------------
(* data is not initialised: it holds what the last call left there, or what  *)
(* other use of the stack did.                                               *)
Uninitialised == {data} \cup {[j \in 0..BUFSIZE |-> g] : g \in Garbage}

(* main: the entries that begin with a dot are skipped.                      *)
NextEntry ==
  /\ pc = "next" /\ entry < Len(entries)
  /\ entry' = entry + 1
  /\ pc' = IF entries[entry + 1].kind = "dot" THEN "next" ELSE "read"
  /\ data' \in Uninitialised /\ dirty' = (dirty \/ data'[BUFSIZE] = "nl")
  /\ pos' = 0 /\ last' = 0
  /\ UNCHANGED <<entries, search, cnt, line_start, printed>>
Done ==
  /\ pc = "next" /\ entry = Len(entries)
  /\ pc' = "done"
  /\ UNCHANGED <<entries, search, entry, pos, data, last, cnt, line_start, printed, dirty>>

ReadFailed ==
  /\ pc = "read" /\ entries[entry].kind = "unreadable"
  /\ pc' = "failed"
  /\ UNCHANGED <<entries, search, entry, pos, data, last, cnt, line_start, printed, dirty>>

Smaller(a, b) == IF a < b THEN a ELSE b
Read ==
  LET n == Smaller(BUFSIZE - last, Len(Content) - pos) IN
  /\ pc = "read" /\ entries[entry].kind # "unreadable"
  /\ data' = [j \in 0..BUFSIZE |->
                IF j \in last..(last + n - 1) THEN Content[pos + 1 + j - last] ELSE data[j]]
  /\ pos' = pos + n /\ cnt' = n /\ last' = last + n
  /\ line_start' = 0 /\ pc' = "line"
  /\ UNCHANGED <<entries, search, entry, printed, dirty>>

-----------------------------------------------------------------------------
(* The end of the line in the buffer: its line feed, or the end of the data. *)
Ends == {j \in line_start..BUFSIZE : j >= last \/ data[j] = "nl"}
line_end == CHOOSE j \in Ends : \A k \in Ends : j <= k

Cut_Never == FALSE                              \* mutant: nothing is carried over
Cut_AtEnd == data[line_end] # "nl"              \* mutant: also when nothing was read
Cut == data[line_end] # "nl" /\ cnt # 0 /\ line_start # 0

Ended == [data EXCEPT ![line_end] = "nul"]

(* The string in d from index j: up to its NUL.                              *)
String(d, j) ==
  LET nul == CHOOSE k \in j..BUFSIZE : d[k] = "nul" /\ \A h \in j..(k - 1) : d[h] # "nul"
  IN  [k \in 1..(nul - j) |-> d[j + k - 1]]

(* ece391_strcpy(data, data + line_start): the string and its NUL move down. *)
Carried(d) ==
  LET line == Append(String(d, line_start), "nul")
  IN  [j \in 0..BUFSIZE |-> IF j < Len(line) THEN line[j + 1] ELSE d[j]]

CarryOver_KeepLast ==       \* mutant: `last' is not fixed
  /\ pc = "line" /\ Cut
  /\ data' = Carried(Ended)
  /\ pc' = "read"
  /\ UNCHANGED <<entries, search, entry, pos, last, cnt, line_start, printed, dirty>>
CarryOver ==
  /\ pc = "line" /\ Cut
  /\ data' = Carried(Ended)
  /\ last' = last - line_start
  /\ pc' = "read"
  /\ UNCHANGED <<entries, search, entry, pos, cnt, line_start, printed, dirty>>

(* ece391_strncmp(data + check, s, s_len) finds no difference.               *)
Same(d, check) ==
  \A k \in DOMAIN search : check + k - 1 < line_end /\ d[check + k - 1] = search[k]
Found == \E check \in line_start..(line_end - 1) : Same(Ended, check)

SearchLine ==
  /\ pc = "line" /\ ~Cut
  /\ data' = Ended
  /\ printed' = IF Found
                THEN [printed EXCEPT ![entry] = Append(@, String(Ended, line_start))]
                ELSE printed
  /\ IF line_end + 1 < last
     THEN line_start' = line_end + 1 /\ UNCHANGED <<last, pc>>
     ELSE last' = 0 /\ pc' = (IF cnt = 0 THEN "next" ELSE "read") /\ UNCHANGED line_start
  /\ UNCHANGED <<entries, search, entry, pos, cnt, dirty>>

GNext == NextEntry \/ Done \/ ReadFailed \/ Read \/ CarryOver \/ SearchLine
GSpec == GInit /\ [][GNext]_gvars /\ WF_gvars(GNext)

-----------------------------------------------------------------------------
(* The lines of a text, each as the positions before and after it: those of  *)
(* two line feeds, or of an end of the text.                                 *)
Feed(t, j) == j \in DOMAIN t => t[j] = "nl"
Lines(t) ==
  {l \in (0..Len(t)) \X (1..(Len(t) + 1)) :
     /\ l[1] < l[2] /\ Feed(t, l[1]) /\ Feed(t, l[2])
     /\ \A j \in (l[1] + 1)..(l[2] - 1) : ~Feed(t, j)}
Line(t, l) == SubSeq(t, l[1] + 1, l[2] - 1)
HasWord(t, l) ==
  \E j \in l[1]..(l[2] - 1 - Len(search)) : \A k \in DOMAIN search : t[j + k] = search[k]
Hits(t) == {l \in Lines(t) : HasWord(t, l)}

(* The strings in p are the lines of t in `lines', each once and in order.    *)
InOrder(p, t, lines) ==
  \E place \in [1..Len(p) -> lines] :
    /\ \A j, k \in 1..Len(p) : j < k => place[j][2] < place[k][2]
    /\ \A l \in lines : \E k \in 1..Len(p) : place[k] = l
    /\ \A k \in 1..Len(p) : p[k] = Line(t, place[k])

IsText(t) == \A j \in DOMAIN t : t[j] # "nul"
Fits(t) == \A l \in Lines(t) : l[2] - l[1] - 1 <= BUFSIZE

(* When a file has been searched, grep has printed exactly its lines that    *)
(* contain the word, whole, once and in order, wherever the reads cut them   *)
(* and whatever earlier files left in the buffer (ece391grep.c 21-58): for   *)
(* texts whose lines fit the buffer, unless the byte after it was a line     *)
(* feed by accident.                                                         *)
PrintsMatchesUnlessDirty ==
  pc \in {"next", "done"} /\ ~dirty =>
    \A e \in 1..entry :
      LET t == entries[e].content IN
      entries[e].kind = "file" /\ IsText(t) /\ Fits(t) => InOrder(printed[e], t, Hits(t))

(* grep ends, on any content (ece391grep.c 22 and 31: both loops leave).     *)
Finishes == <>(pc \in {"done", "failed"})
=============================================================================
