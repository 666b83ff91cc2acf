------------------------------- MODULE Blink -------------------------------
(***************************************************************************)
(* The blinking characters of the fish program (fish/blink.S): a linked    *)
(* list of structures taken from a static array (mp1_malloc and mp1_free,  *)
(* fish.c) in which location 0 marks a free element, the ioctl calls that  *)
(* change it and the tasklet that counts every structure down.  The        *)
(* tasklet is one step per list element; a call of mp1_ioctl is one step.  *)
(***************************************************************************)
EXTENDS Integers, FiniteSets

CONSTANTS
  POOL,       \* elements of blink_array (80*25)
  LIMIT,      \* characters on the screen (80*25)
  HALF,       \* 2^15: lengths and countdowns have 16 bits
  Glyphs      \* the characters (bytes), with the one of a cleared element

ASSUME BlinkAssumption ==
  POOL \in Nat \ {0} /\ LIMIT \in Nat \ {0} /\ HALF \in Nat \ {0} /\ "nul" \in Glyphs

NULL == 0
Elements == 1..POOL
Locations == 0..(LIMIT - 1)

VARIABLES
  head,       \* mp1_list_head
  block,      \* blink_array
  screen,     \* the characters in video memory
  cur,        \* the element the tasklet is at, NULL outside it
  paired,     \* history: pairs of elements synchronised and not changed since
  stale,      \* history: locations last drawn for another state than the element's
  zeroed      \* history: was location 0 ever added?

bvars == <<head, block, screen, cur, paired, stale, zeroed>>

Free == [location |-> 0, on_char |-> "nul", off_char |-> "nul", on_length |-> 0,
         off_length |-> 0, countdown |-> 0, status |-> 0, next |-> NULL]

Words == 0..(2 * HALF - 1)
Signed(w) == IF w < HALF THEN w ELSE w - 2 * HALF
Decremented(w) == (w + 2 * HALF - 1) % (2 * HALF)

(* struct mp1_blink_struct, with its location in one of locs (blink.h).      *)
Structures(locs) ==
  [location : locs, on_char : Glyphs, off_char : Glyphs, on_length : Words,
   off_length : Words, countdown : Words, status : 0..1, next : {NULL} \cup Elements]

BInit ==
  /\ head = NULL /\ cur = NULL
  /\ block = [e \in Elements |-> Free]
  /\ screen = [l \in Locations |-> "nul"]
  /\ paired = {} /\ stale = {} /\ zeroed = FALSE

(* The list, the array, the words in it and the screen keep their types.     *)
BTypeOK ==
  /\ head \in {NULL} \cup Elements /\ cur \in {NULL} \cup Elements
  /\ block \in [Elements -> Structures(Locations)]
  /\ screen \in [Locations -> Glyphs]

-----------------------------------------------------------------------------
(* The element k links from the head, NULL past the end.                    *)
After[k \in 0..POOL] ==
  IF k = 0 THEN head
  ELSE LET e == After[k - 1] IN IF e = NULL THEN NULL ELSE block[e].next

Matches(l) == {k \in 0..POOL : After[k] # NULL /\ block[After[k]].location = l}
FirstMatch(l) == CHOOSE k \in Matches(l) : \A j \in Matches(l) : k <= j
mp1_find_helper(l) == IF Matches(l) = {} THEN NULL ELSE After[FirstMatch(l)]

mp1_malloc == LET free == {e \in Elements : block[e].location = 0}
              IN  IF free = {} THEN NULL ELSE CHOOSE e \in free : \A f \in free : e <= f

mp1_poke(l, c) == screen' = [screen EXCEPT ![l] = c]

Unpaired(e) == {p \in paired : e \notin p}

InRange(b) == b.location < LIMIT

(* A structure with a location off the screen, or no free element, is       *)
(* refused; nothing changes.                                                *)
mp1_ioctl_add(b) ==
  /\ InRange(b) /\ mp1_malloc # NULL
  /\ block' = [block EXCEPT ![mp1_malloc] =
       [b EXCEPT !.status = 1, !.countdown = b.on_length, !.next = head]]
  /\ head' = mp1_malloc
  /\ mp1_poke(b.location, b.on_char)
  /\ paired' = Unpaired(mp1_malloc) /\ stale' = stale \ {b.location}
  /\ zeroed' = (zeroed \/ b.location = 0)
  /\ UNCHANGED cur

AddRefused(b) == (~InRange(b) \/ mp1_malloc = NULL) /\ UNCHANGED bvars
Add(b) == mp1_ioctl_add(b) \/ AddRefused(b)

(* The newest element at l is unlinked and cleared; the screen keeps its    *)
(* character.                                                               *)
mp1_ioctl_remove_HeadOnly(l) ==   \* mutant: the previous link is not looked for
  LET e == mp1_find_helper(l) IN
  /\ e # NULL
  /\ head' = IF head = e THEN block[e].next ELSE head
  /\ block' = [block EXCEPT ![e] = Free]
  /\ paired' = Unpaired(e) /\ stale' = stale \cup {l}
  /\ UNCHANGED <<screen, cur, zeroed>>
mp1_ioctl_remove(l) ==
  LET e == mp1_find_helper(l)
      k == FirstMatch(l)
  IN
  /\ e # NULL
  /\ head' = IF k = 0 THEN block[e].next ELSE head
  /\ block' = [d \in Elements |->
       IF d = e THEN Free
       ELSE IF k > 0 /\ d = After[k - 1] THEN [block[d] EXCEPT !.next = block[e].next]
       ELSE block[d]]
  /\ paired' = Unpaired(e) /\ stale' = stale \cup {l}
  /\ UNCHANGED <<screen, cur, zeroed>>

Synced_NoCountdown(from, to) ==   \* mutant: the countdown is not copied
  [to EXCEPT !.on_length = from.on_length, !.off_length = from.off_length,
             !.status = from.status]
Synced(from, to) ==
  [to EXCEPT !.on_length = from.on_length, !.off_length = from.off_length,
             !.countdown = from.countdown, !.status = from.status]

(* The element at the high half of the argument sets the times and state of *)
(* the one at the low half.  `testb' leaves no sign, so `cmovl' never takes *)
(* the ON character: the OFF character is drawn in both states.             *)
mp1_ioctl_sync(l, m) ==
  LET e == mp1_find_helper(l)
      f == mp1_find_helper(m)
  IN
  /\ e # NULL /\ f # NULL
  /\ block' = [block EXCEPT ![f] = Synced(block[e], @)]
  /\ mp1_poke(m, block[f].off_char)
  /\ paired' = IF e = f THEN paired ELSE Unpaired(f) \cup {{e, f}}
  /\ stale' = IF block'[f].status = 1 THEN stale \cup {m} ELSE stale \ {m}
  /\ UNCHANGED <<head, cur, zeroed>>

(* The tasklet: from the head, one element at a time.                       *)
TaskletStart ==
  /\ cur = NULL /\ head # NULL /\ cur' = head
  /\ UNCHANGED <<head, block, screen, paired, stale, zeroed>>

Toggled(b) ==
  [b EXCEPT !.countdown = IF b.status = 1 THEN b.off_length ELSE b.on_length,
            !.status = 1 - b.status]

TaskletStep_NoToggle ==     \* mutant: the status is not flipped
  LET b == [block[cur] EXCEPT !.countdown = Decremented(@)]
      due == Signed(b.countdown) <= 0
  IN
  /\ cur # NULL
  /\ block' = [block EXCEPT ![cur] =
       IF due THEN [Toggled(b) EXCEPT !.status = b.status] ELSE b]
  /\ IF due
     THEN /\ mp1_poke(b.location, IF b.status = 1 THEN b.off_char ELSE b.on_char)
          /\ stale' = stale \ {b.location}
     ELSE UNCHANGED <<screen, stale>>
  /\ cur' = b.next
  /\ UNCHANGED <<head, paired, zeroed>>
TaskletStep ==
  LET b == [block[cur] EXCEPT !.countdown = Decremented(@)]
      due == Signed(b.countdown) <= 0
  IN
  /\ cur # NULL
  /\ block' = [block EXCEPT ![cur] = IF due THEN Toggled(b) ELSE b]
  /\ IF due
     THEN /\ mp1_poke(b.location, IF b.status = 1 THEN b.off_char ELSE b.on_char)
          /\ stale' = stale \ {b.location}
     ELSE UNCHANGED <<screen, stale>>
  /\ cur' = b.next
  /\ UNCHANGED <<head, paired, zeroed>>

-----------------------------------------------------------------------------
Listed == {After[k] : k \in 0..POOL} \ {NULL}
Used == {e \in Elements : block[e].location # 0}

(* The structures keep their types (BTypeOK), and the list ends and holds    *)
(* exactly the elements that are not free, so the tasklet ends too: none is  *)
(* lost, none is given out again while it is linked (blink.S 140-162 and     *)
(* 206-221, fish.c 160-175), unless location 0, the mark of a free element,  *)
(* was added.                                                                *)
ListIsUsed ==
  /\ BTypeOK
  /\ ~zeroed => /\ After[POOL] = NULL
                /\ Listed = Used

(* The screen shows the ON character of an element that is on and the OFF    *)
(* character of one that is off, where one element owns the location and it  *)
(* was not drawn by a sync or uncovered by a remove (blink.S 64-86, 165-169).*)
ScreenShowsState ==
  ~zeroed => \A e \in Used :
    LET b == block[e] IN
    (b.location \notin stale /\ \A f \in Used : block[f].location = b.location => f = e)
      => screen[b.location] = (IF b.status = 1 THEN b.on_char ELSE b.off_char)

(* Two synchronised elements stay in step: outside the tasklet they always   *)
(* have the same state and the same time left, whatever else is added,       *)
(* removed or synchronised (blink.S 267-275).                                *)
StayInStep ==
  ~zeroed /\ cur = NULL => \A p \in paired : \A e, f \in p :
    /\ block[e].status = block[f].status
    /\ block[e].countdown = block[f].countdown

=============================================================================
