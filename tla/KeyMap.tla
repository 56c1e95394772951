------------------------------- MODULE KeyMap -------------------------------
(***************************************************************************)
(* The key tables of the backends (core/key.hpp, wayland_keymap.hpp,       *)
(* win32_key.hpp, xcb.cpp).  A key is its USB HID usage, a number.  A code *)
(* of a windowing system that names a key - an X keysym, a Windows virtual *)
(* key, a KEY_ constant of Linux - is written as the usage of the key it   *)
(* names, so that a table is the set of usages it knows together with the  *)
(* usages it renames.  The numbers those codes really have matter only     *)
(* where the code passes them from one machine to another: see KeyTravel.  *)
(***************************************************************************)
EXTENDS Integers

\* The values of enum class Key that the tables below name one by one.
None       == 0
Letters    == 4 .. 29
Digit1     == 30
Digit9     == 38
Digit0     == 39
Enter      == 40
HashTilde  == 50
Symbols    == (40 .. 56) \ {HashTilde}     \* Enter .. Slash
CapsLock   == 57
F1ToF12    == 58 .. 69
Editing    == 70 .. 83                     \* SysRq .. Up, NumLock
KeypadOps  == 84 .. 88                     \* KeypadSlash .. KeypadEnter
KeypadEnter == 88
KeypadDigits == 89 .. 99                   \* Keypad1 .. Keypad0, KeypadDot
Key102nd   == 100
Power      == 102
F13ToF24   == 104 .. 115
Stop       == 120
Find       == 126
Mute       == 127
VolumeUp   == 128
VolumeDown == 129
KeypadComma == 133
Modifiers  == 224 .. 231
MediaKeys  == 232 .. 251                   \* MediaPlayPause .. MediaCalc
Usages     == 0 .. 251

\* What every table has: the keys of an ordinary keyboard.
Keyboard == Letters \cup (Digit1 .. Digit0) \cup Symbols \cup {CapsLock} \cup F1ToF12
              \cup Editing \cup KeypadOps \cup KeypadDigits \cup Modifiers

-----------------------------------------------------------------------------
(* Linux: evdevKeyCode and keyFromEvdev.                                   *)

\* Usages that share a KEY_ code with another usage.
EvdevAlias(k) ==
  CASE k = HashTilde -> Key102nd
    [] k = 239       -> Mute           \* MediaMute
    [] k = 237       -> VolumeUp       \* MediaVolumeUp
    [] k = 238       -> VolumeDown     \* MediaVolumeDown
    [] k = 243       -> Stop           \* MediaStop
    [] k = 244       -> Find           \* MediaFind
    [] OTHER         -> k

EvdevKeys == Keyboard \cup {HashTilde} \cup (100 .. 129)    \* Key102nd .. VolumeDown
               \cup {KeypadComma} \cup (135 .. 140)         \* Ro .. KeypadJpComma
               \cup (144 .. 148) \cup MediaKeys             \* Hangeul .. ZenkakuHankaku

\* Mutant of EvdevKeyCode: the rows of the keypad's digits are missing.
EvdevKeyCodeNoDigits(k) == IF k \in EvdevKeys \ KeypadDigits THEN EvdevAlias(k) ELSE None

\* The KEY_ code that names a usage, None when the table has no row for it.
EvdevKeyCode(k) == IF k \in EvdevKeys THEN EvdevAlias(k) ELSE None

\* The usages a code may stand for; the search from 0 upwards takes the first.
UsagesOf(code) == {k \in Usages : EvdevKeyCode(k) = code}
KeyFromEvdev(code) ==
  IF code = None \/ UsagesOf(code) = {} THEN None
  ELSE CHOOSE k \in UsagesOf(code) : \A j \in UsagesOf(code) : k <= j

-----------------------------------------------------------------------------
(* X11: translateKeySym when capturing, keySymFor when injecting.          *)

TranslateKeySym(sym) == IF sym \in Keyboard THEN sym ELSE None

\* The media keys keySymFor knows, and the keysym each shares with a plain key.
XMedia == {Mute, VolumeUp, VolumeDown, 232, 233, 234, 235, 237, 238, 239, 243}
XAlias(k) ==
  CASE k = 237 -> VolumeUp [] k = 238 -> VolumeDown [] k = 239 -> Mute
    [] k = 243 -> 233      [] OTHER   -> k           \* MediaStop, MediaStopCd

KeySymFor(k) == IF k \in Keyboard \cup F13ToF24 \cup XMedia THEN XAlias(k) ELSE None

-----------------------------------------------------------------------------
(* Windows: virtualKeyToKey when capturing, keyToWin32 when injecting.     *)

\* The digit printed on a digit key.
DigitOf(k) == IF k = Digit0 THEN 0 ELSE k - Digit1 + 1

\* A digit d becomes Digit0 + d.  The keypad's Enter has no virtual key of its own.
VirtualKeyToKey(vk) ==
  CASE vk \in Digit1 .. Digit0 -> Digit0 + DigitOf(vk)
    [] vk \in Keyboard \ ((Digit1 .. Digit0) \cup {KeypadEnter}) -> vk
    [] OTHER                    -> None

WinMedia == {Mute, VolumeUp, VolumeDown, 232, 233, 234, 235, 237, 238, 239}
WinAlias(k) ==
  CASE k = KeypadEnter -> Enter
    [] k = 237 -> VolumeUp [] k = 238 -> VolumeDown [] k = 239 -> Mute [] OTHER -> k

KeyToWin32(k) == IF k \in Keyboard \cup F13ToF24 \cup WinMedia THEN WinAlias(k) ELSE None
=============================================================================
