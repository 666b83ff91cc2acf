------------------------------ MODULE Keyboard ------------------------------
(***************************************************************************)
(* From scancodes to characters: the status of the modifier keys kept by   *)
(* keyboard_handler and the choice among the four maps in keyboard_print   *)
(* (keyboard.c).  Where a character goes is in LineBuffer and Display, what*)
(* Alt and a function key do in Scheduler.                                 *)
(*                                                                         *)
(* A key sends one code when it goes down, again while it stays down and   *)
(* is the key pressed last, and one when it is let go.  The handler sees   *)
(* the same codes from the left and the right Ctrl and Alt (the prefix of  *)
(* the right one is ignored as a code beyond the maps), and treats the two *)
(* Shift codes alike.                                                      *)
(***************************************************************************)
EXTENDS FiniteSets

CONSTANT TwoHanded     \* whether both keys of a modifier are held together

ASSUME KeyboardAssumption == TwoHanded \in BOOLEAN

Modifiers == {"CTRL", "SHIFT", "ALT"}
Sides == {"left", "right"}
ModKeys == Modifiers \X Sides
Plain == {"letter", "l", "symbol", "other"}    \* kinds of entries of the maps

VARIABLES
    press,      \* CTRL_PRESS, SHIFT_PRESS, ALT_PRESS
    caps,       \* CAPSLOCK_PRESS
    out,        \* what keyboard_print made of the latest character key
    down,       \* the keys that are down
    newest      \* the key pressed last, if it is still down

vars == <<press, caps, out, down, newest>>

NoKey == <<"none", "left">>
NoOut == [kind |-> "none", full |-> FALSE, shown |-> "nothing"]

\* The status bytes are 0 or 1 and what is printed is a printable kind
\* (keyboard.c 14-18).
TypeOK ==
    /\ press \in [Modifiers -> BOOLEAN]
    /\ caps \in BOOLEAN
    /\ out \in [kind : Plain \cup {"none"}, full : BOOLEAN,
                shown : {"nothing", "clear", "lower", "upper", "plain", "shifted"}]
    /\ down \subseteq (ModKeys \cup {<<"CAPSLOCK", "left">>})
    /\ newest \in down \cup {NoKey}

Init ==
    /\ press = [m \in Modifiers |-> FALSE]
    /\ caps = FALSE
    /\ out = NoOut
    /\ down = {}
    /\ newest = NoKey

-----------------------------------------------------------------------------
(* keyboard_handler *)

\* Cases CTRL, SHIFT_L, SHIFT_R and ALT.
ModifierCode(m) == press' = [press EXCEPT ![m] = TRUE]

\* The release cases.
ReleaseCode_Stuck(m) == UNCHANGED press       \* mutant: the release is missed
ReleaseCode(m) == press' = [press EXCEPT ![m] = FALSE]

\* Case CAPSLOCK.
CapsCode == caps' = ~caps

HeldTwice(k) == \E s \in Sides : <<k[1], s>> \in down

PressModifier(k) ==
    /\ k \notin down
    /\ TwoHanded \/ ~HeldTwice(k)
    /\ down' = down \cup {k} /\ newest' = k
    /\ ModifierCode(k[1])
    /\ UNCHANGED <<caps, out>>

ReleaseModifier(k) ==
    /\ k \in down
    /\ down' = down \ {k} /\ newest' = IF newest = k THEN NoKey ELSE newest
    /\ ReleaseCode(k[1])
    /\ UNCHANGED <<caps, out>>

CapsKey == <<"CAPSLOCK", "left">>

PressCaps ==
    /\ CapsKey \notin down
    /\ down' = down \cup {CapsKey} /\ newest' = CapsKey
    /\ CapsCode
    /\ UNCHANGED <<press, out>>

\* The code of its release is beyond the maps and ignored.
ReleaseCaps ==
    /\ CapsKey \in down
    /\ down' = down \ {CapsKey} /\ newest' = IF newest = CapsKey THEN NoKey ELSE newest
    /\ UNCHANGED <<press, caps, out>>

\* The keyboard repeats the code of the newest key while it is down.
Repeat ==
    /\ newest # NoKey
    /\ \/ /\ newest = CapsKey
          /\ CapsCode
          /\ UNCHANGED press
       \/ /\ newest # CapsKey
          /\ ModifierCode(newest[1])
          /\ UNCHANGED caps
    /\ UNCHANGED <<out, down, newest>>

-----------------------------------------------------------------------------
(* keyboard_print *)

\* What the maps hold for a kind of key: CAPSLOCK exchanges the cases of the
\* letters and leaves everything else alone.
keyboard_original(k) == CASE k \in {"letter", "l"} -> "lower"
                          [] k = "symbol" -> "plain" [] OTHER -> "nothing"
keyboard_shift(k) == CASE k \in {"letter", "l"} -> "upper"
                       [] k = "symbol" -> "shifted" [] OTHER -> "nothing"
keyboard_capslock(k) == CASE k \in {"letter", "l"} -> "upper"
                          [] k = "symbol" -> "plain" [] OTHER -> "nothing"
keyboard_capsshift(k) == CASE k \in {"letter", "l"} -> "lower"
                           [] k = "symbol" -> "shifted" [] OTHER -> "nothing"

Printed_CapsWins(k) ==      \* mutant: SHIFT is not looked at under CAPSLOCK
    CASE press["CTRL"] /\ k = "l" -> "clear"
      [] OTHER -> IF caps THEN keyboard_capslock(k)
                  ELSE IF press["SHIFT"] THEN keyboard_shift(k)
                  ELSE keyboard_original(k)
Printed(k) ==
    CASE press["CTRL"] /\ k = "l" -> "clear"
      [] OTHER -> CASE caps /\ ~press["SHIFT"] -> keyboard_capslock(k)
                    [] ~caps /\ press["SHIFT"] -> keyboard_shift(k)
                    [] caps /\ press["SHIFT"] -> keyboard_capsshift(k)
                    [] OTHER -> keyboard_original(k)

\* A key when the displayed terminal's buffer is full or not (LineBuffer says
\* when): only Ctrl+L is looked at before the buffer is.
keyboard_print(k, full) ==
    /\ out' = [kind |-> k, full |-> full,
               shown |-> IF full /\ ~(press["CTRL"] /\ k = "l") THEN "nothing"
                         ELSE Printed(k)]
    /\ newest' = NoKey
    /\ UNCHANGED <<press, caps, down>>

-----------------------------------------------------------------------------
Next ==
    \/ \E k \in ModKeys : PressModifier(k) \/ ReleaseModifier(k)
    \/ PressCaps \/ ReleaseCaps \/ Repeat
    \/ \E k \in Plain, full \in BOOLEAN : keyboard_print(k, full)
Spec == Init /\ [][Next]_vars

-----------------------------------------------------------------------------
(* Properties *)

Held(m) == \E s \in Sides : <<m, s>> \in down

\* All variables keep their types, and the status of a modifier is pressed
\* exactly while a key of it is down (keyboard.c 14 and 220-250).
StatusHeld == TypeOK /\ \A m \in Modifiers : press[m] <=> Held(m)

\* What the keys that are down call for.
Wanted(k) == CASE k = "l" /\ Held("CTRL") -> "clear"
               [] k \in {"letter", "l"} /\ ~(k = "l" /\ Held("CTRL")) ->
                      IF Held("SHIFT") # caps THEN "upper" ELSE "lower"
               [] k = "symbol" -> IF Held("SHIFT") THEN "shifted" ELSE "plain"
               [] k = "other" -> "nothing"

\* A character comes out as the keys that are down call for: capital letters
\* with SHIFT or CAPSLOCK but not with both, the upper symbols with SHIFT, and
\* nothing at all with a full buffer, where Ctrl+L still clears (keyboard_print).
TypedAsHeld ==
    [][\A k \in Plain : (out' # out /\ out'.kind = k) =>
        out'.shown = IF out'.full /\ Wanted(k) # "clear" THEN "nothing" ELSE Wanted(k)]_vars

=============================================================================
