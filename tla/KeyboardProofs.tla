---------------------------- MODULE KeyboardProofs ----------------------------
(***************************************************************************)
(* What keyboard_handler knows of the modifier keys, for every sequence of *)
(* codes.  A status is one byte for the two keys of a modifier, so it can  *)
(* only ever err on one side: no status stays set once every key is up     *)
(* (NeverStuck), and it is exact when the two keys are not held together   *)
(* (StatusCorrect).                                                        *)
(***************************************************************************)
EXTENDS Keyboard, TLAPS

\* No status is set while no key of its modifier is down.
NoneStuck == \A m \in Modifiers : press[m] => Held(m)

\* One key of a modifier at a time is down, and then its status is set.
OneHand ==
    \A m \in Modifiers :
        /\ Held(m) => press[m]
        /\ ~(<<m, "left">> \in down /\ <<m, "right">> \in down)

IInv == TypeOK /\ NoneStuck /\ (~TwoHanded => OneHand)

\* A key that is down is a modifier key or CAPSLOCK, and the three are apart.
LEMMA KeyFacts ==
    /\ \A k \in ModKeys : k[1] \in Modifiers /\ k[2] \in Sides /\ k = <<k[1], k[2]>>
    /\ CapsKey \notin ModKeys /\ NoKey \notin ModKeys /\ CapsKey # NoKey
    /\ \A m \in Modifiers : \A s \in Sides : <<m, s>> \in ModKeys /\ <<m, s>> # CapsKey
BY DEF ModKeys, Modifiers, Sides, CapsKey, NoKey

\* The initial state is typed and has no key down.
LEMMA KInit == Init => IInv
<1> SUFFICES ASSUME Init PROVE IInv
    OBVIOUS
<1>1. TypeOK
    BY DEF Init, TypeOK, NoOut, Plain
<1>2. NoneStuck /\ OneHand
    BY DEF Init, NoneStuck, OneHand, Held
<1> QED BY <1>1, <1>2 DEF IInv

\* Every code of a modifier or of CAPSLOCK, and every character, keeps the types.
LEMMA KType == TypeOK /\ [Next]_vars => TypeOK'
<1> SUFFICES ASSUME TypeOK, [Next]_vars PROVE TypeOK'
    OBVIOUS
<1> USE DEF TypeOK
<1>1. ASSUME NEW k \in ModKeys, PressModifier(k) PROVE TypeOK'
    BY <1>1, KeyFacts DEF PressModifier, ModifierCode
<1>2. ASSUME NEW k \in ModKeys, ReleaseModifier(k) PROVE TypeOK'
    BY <1>2, KeyFacts DEF ReleaseModifier, ReleaseCode
<1>3. CASE PressCaps
    BY <1>3 DEF PressCaps, CapsCode, CapsKey
<1>4. CASE ReleaseCaps
    BY <1>4 DEF ReleaseCaps
<1>5. CASE Repeat
    BY <1>5 DEF Repeat, CapsCode, ModifierCode
<1>6. ASSUME NEW k \in Plain, NEW full \in BOOLEAN, keyboard_print(k, full) PROVE TypeOK'
  <2>1. Printed(k) \in {"nothing", "clear", "lower", "upper", "plain", "shifted"}
    BY DEF Printed, keyboard_capslock, keyboard_shift, keyboard_capsshift,
           keyboard_original
  <2> QED BY <1>6, <2>1 DEF keyboard_print
<1>7. CASE UNCHANGED vars
    BY <1>7 DEF vars
<1> QED BY <1>1, <1>2, <1>3, <1>4, <1>5, <1>6, <1>7 DEF Next

\* A status and the keys that are down move together: a code touches the status
\* of its own modifier only, and a release leaves a key of the same modifier down
\* only when both were.
LEMMA KStep == IInv /\ [Next]_vars => IInv'
<1> SUFFICES ASSUME IInv, [Next]_vars PROVE IInv'
    OBVIOUS
<1> USE DEF IInv
<1>0. TypeOK'
    BY KType
<1>t. press \in [Modifiers -> BOOLEAN]
    BY DEF TypeOK
<1>1. ASSUME NEW k \in ModKeys, PressModifier(k) PROVE IInv'
  <2>1. press' = [press EXCEPT ![k[1]] = TRUE] /\ down' = down \cup {k}
    BY <1>1 DEF PressModifier, ModifierCode
  <2>2. NoneStuck'
    BY <2>1, <1>t, KeyFacts DEF NoneStuck, Held
  <2>3. ~TwoHanded => OneHand'
    BY <1>1, <2>1, <1>t, KeyFacts DEF PressModifier, HeldTwice, OneHand, Held, Sides
  <2> QED BY <1>0, <2>2, <2>3
<1>2. ASSUME NEW k \in ModKeys, ReleaseModifier(k) PROVE IInv'
  <2>1. press' = [press EXCEPT ![k[1]] = FALSE] /\ down' = down \ {k} /\ k \in down
    BY <1>2 DEF ReleaseModifier, ReleaseCode
  <2>2. NoneStuck'
    BY <2>1, <1>t, KeyFacts DEF NoneStuck, Held
  <2>3. ASSUME ~TwoHanded, NEW m \in Modifiers
        PROVE  /\ Held(m)' => press'[m]
               /\ ~(<<m, "left">> \in down' /\ <<m, "right">> \in down')
    <3>1. OneHand
        BY <2>3
    <3>2. CASE m = k[1]
        BY <2>1, <3>1, <3>2, <1>t, KeyFacts DEF OneHand, Held, Sides
    <3>3. CASE m # k[1]
        BY <2>1, <3>1, <3>3, <1>t, KeyFacts DEF OneHand, Held, Sides
    <3> QED BY <3>2, <3>3
  <2>4. ~TwoHanded => OneHand'
    BY <2>3 DEF OneHand
  <2> QED BY <1>0, <2>2, <2>4
<1>3. CASE PressCaps \/ ReleaseCaps
  <2>1. press' = press /\ \A m \in Modifiers, s \in Sides :
                              <<m, s>> \in down' <=> <<m, s>> \in down
    BY <1>3, KeyFacts DEF PressCaps, ReleaseCaps
  <2> QED BY <1>0, <2>1 DEF NoneStuck, OneHand, Held, Sides
<1>4. CASE Repeat
  <2>1. CASE newest = CapsKey
    BY <1>0, <1>4, <2>1 DEF Repeat, NoneStuck, OneHand, Held
  <2>2. CASE newest # CapsKey
    <3>1. newest \in ModKeys /\ newest \in down
        BY <1>4, <2>2 DEF Repeat, TypeOK, CapsKey
    <3>2. press' = [press EXCEPT ![newest[1]] = TRUE] /\ down' = down
        BY <1>4, <2>2 DEF Repeat, ModifierCode
    <3>3. NoneStuck'
        BY <3>1, <3>2, <1>t, KeyFacts DEF NoneStuck, Held
    <3>4. ~TwoHanded => OneHand'
        BY <3>1, <3>2, <1>t, KeyFacts DEF OneHand, Held
    <3> QED BY <1>0, <3>3, <3>4
  <2> QED BY <2>1, <2>2
<1>5. ASSUME NEW k \in Plain, NEW full \in BOOLEAN, keyboard_print(k, full) PROVE IInv'
    BY <1>0, <1>5 DEF keyboard_print, NoneStuck, OneHand, Held
<1>6. CASE UNCHANGED vars
    BY <1>0, <1>6 DEF vars, NoneStuck, OneHand, Held
<1> QED BY <1>1, <1>2, <1>3, <1>4, <1>5, <1>6 DEF Next

\* The invariant holds in every behaviour of the keyboard.
THEOREM KInvariance == Spec => []IInv
BY KInit, KStep, PTL DEF Spec

\* However the keys are held, no modifier stays pressed once its keys are up: the
\* release of either key clears the status (keyboard.c 230-250).
THEOREM NeverStuck == Spec => [](\A m \in Modifiers : press[m] => Held(m))
<1>1. IInv => \A m \in Modifiers : press[m] => Held(m)
    BY DEF IInv, NoneStuck
<1> QED BY <1>1, KInvariance, PTL

\* With one key of each modifier in use, the status of a modifier is exactly
\* whether a key of it is down, and all variables keep their types
\* (keyboard.c 220-250).
THEOREM StatusCorrect == ASSUME ~TwoHanded PROVE Spec => []StatusHeld
<1>1. IInv => StatusHeld
    BY DEF IInv, NoneStuck, OneHand, StatusHeld
<1> QED BY <1>1, KInvariance, PTL

\* With one key of each modifier in use, a character comes out as the keys that
\* are down call for (keyboard_print).
THEOREM TypedCorrectly == ASSUME ~TwoHanded PROVE Spec => TypedAsHeld
<1>1. ASSUME IInv, [Next]_vars, NEW k \in Plain, out' # out, out'.kind = k
      PROVE  out'.shown = IF out'.full /\ Wanted(k) # "clear" THEN "nothing" ELSE Wanted(k)
  <2>1. PICK j \in Plain, full \in BOOLEAN : keyboard_print(j, full)
    BY <1>1 DEF Next, vars, PressModifier, ReleaseModifier, PressCaps, ReleaseCaps,
                Repeat
  <2>2. /\ j = k /\ out'.full = full
        /\ out'.shown = IF full /\ ~(press["CTRL"] /\ k = "l") THEN "nothing" ELSE Printed(k)
    BY <1>1, <2>1 DEF keyboard_print
  <2>3. /\ press["CTRL"] <=> Held("CTRL")
        /\ press["SHIFT"] <=> Held("SHIFT")
        /\ caps \in BOOLEAN
    BY <1>1 DEF IInv, NoneStuck, OneHand, TypeOK, Modifiers
  <2>4. k \in {"letter", "l", "symbol", "other"}
    BY <1>1 DEF Plain
  <2>5. Printed(k) = Wanted(k)
    <3>0. (Held("SHIFT") # caps) <=> (caps /\ ~press["SHIFT"]) \/ (~caps /\ press["SHIFT"])
      <4>1. Held("SHIFT") \in BOOLEAN
        BY DEF Held
      <4>2. CASE caps = TRUE
        BY <2>3, <4>1, <4>2
      <4>3. CASE caps = FALSE
        BY <2>3, <4>1, <4>3
      <4> QED BY <2>3, <4>2, <4>3
    <3>1. CASE k = "letter"
        BY <3>0, <3>1, <2>3 DEF Printed, Wanted, keyboard_capslock, keyboard_shift,
              keyboard_capsshift, keyboard_original
    <3>2. CASE k = "l"
        BY <3>0, <3>2, <2>3 DEF Printed, Wanted, keyboard_capslock, keyboard_shift,
              keyboard_capsshift, keyboard_original
    <3>3. CASE k = "symbol"
        BY <3>3, <2>3 DEF Printed, Wanted, keyboard_capslock, keyboard_shift,
              keyboard_capsshift, keyboard_original
    <3>4. CASE k = "other"
        BY <3>4, <2>3 DEF Printed, Wanted, keyboard_capslock, keyboard_shift,
              keyboard_capsshift, keyboard_original
    <3> QED BY <2>4, <3>1, <3>2, <3>3, <3>4
  <2>6. Wanted(k) = "clear" <=> press["CTRL"] /\ k = "l"
    <3>1. CASE k = "l"
      BY <2>3, <3>1 DEF Wanted
    <3>2. CASE k # "l"
      BY <2>4, <3>2 DEF Wanted
    <3> QED BY <3>1, <3>2
  <2> QED BY <2>2, <2>5, <2>6
<1>2. IInv /\ [Next]_vars =>
        [\A k \in Plain : (out' # out /\ out'.kind = k) =>
            out'.shown = IF out'.full /\ Wanted(k) # "clear" THEN "nothing" ELSE Wanted(k)]_vars
    BY <1>1
<1> QED BY <1>2, KInvariance, PTL DEF Spec, TypedAsHeld

=============================================================================
