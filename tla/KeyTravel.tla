------------------------------ MODULE KeyTravel ------------------------------
(***************************************************************************)
(* A key on its way from the keyboard of the server's machine to the one   *)
(* of a client: the capture of one backend names it, the event crosses the *)
(* network with the name (Key) and with the code the capturing machine has *)
(* for the key (nativeCode), and the injector of another backend, which    *)
(* may be on another system, presses a key.  An injection that is refused  *)
(* ends the client's run (client.cpp).  A physical key is written as the   *)
(* usage printed on a US keyboard; NativeCode gives the numbers the real   *)
(* systems have for KnownKeys, which contain every key the runs press.     *)
(***************************************************************************)
EXTENDS KeyMap, Sequences

CONSTANTS Captures,      \* backends the server may run: portal, x11, win32
          Injectors,     \* backends the client may run: portal, wlr, x11, win32
          Keys,          \* physical keys the user presses, of Usages
          MaxWire        \* bound on the events under way

VARIABLES server, client,     \* the backend on each side
          held,               \* physical keys the user holds down
          wire,               \* key events under way
          down,               \* keys the client's machine believes are down
          connected           \* FALSE once an injection was refused

vars == <<server, client, held, wire, down, connected>>

-----------------------------------------------------------------------------
(* The codes the systems have for the keys pressed here.                   *)

KnownKeys == KeypadDigits \cup {18, Digit1, Digit0, Enter, 43, 87, Key102nd, Power, 104,
                                VolumeUp, 225}

\* KEY_ constants of linux/input-event-codes.h; an X keycode is 8 more.
KeypadCode == <<79, 80, 81, 75, 76, 77, 71, 72, 73, 82, 83>>
LinuxCode ==
  [k \in KnownKeys |->
     CASE k \in KeypadDigits -> KeypadCode[k - 88]
       [] k = 18 -> 24 [] k = Digit1 -> 2 [] k = Digit0 -> 11 [] k = Enter -> 28
       [] k = 43 -> 15 [] k = 87 -> 78 [] k = Key102nd -> 86 [] k = Power -> 116
       [] k = 104 -> 183 [] k = VolumeUp -> 115 [] k = 225 -> 42]

\* Virtual keys of winuser.h.
VirtualKey ==
  [k \in KnownKeys |->
     CASE k \in 89 .. 97 -> k + 8 [] k = 98 -> 96 [] k = 99 -> 110
       [] k = 18 -> 79 [] k = Digit1 -> 49 [] k = Digit0 -> 48 [] k = Enter -> 13
       [] k = 43 -> 9 [] k = 87 -> 107 [] k = Key102nd -> 226 [] k = Power -> 95
       [] k = 104 -> 124 [] k = VolumeUp -> 175 [] k = 225 -> 160]

NativeCode(backend, k) == CASE backend = "portal" -> LinuxCode[k]
                            [] backend = "x11"    -> LinuxCode[k] + 8
                            [] backend = "win32"  -> VirtualKey[k]

\* The key a native code presses on the injecting machine; some other key, 0, if
\* it is none of those the runs know.
KeyOfNative(backend, code) ==
  LET Ks == {k \in KnownKeys : NativeCode(backend, k) = code}
  IN  IF Ks = {} THEN 0 ELSE CHOOSE k \in Ks : TRUE

\* Column 0 of the X key map: the digits of the keypad are in column 1, the
\* navigation keysym in column 0 is one translateKeySym has no row for.
KeySymOf(k) == IF k \in KeypadDigits THEN None ELSE k

\* The keypad's Enter arrives as VK_RETURN.
VirtualKeyOf(k) == IF k = KeypadEnter THEN Enter ELSE k

-----------------------------------------------------------------------------
(* One event.                                                              *)

KeyEvent(key, native, release, origin) ==
  [key |-> key, nativeCode |-> native, release |-> release, origin |-> origin]

\* What the capture of a backend makes of a key; portal ignores unmapped keys.
Captured(backend, k) == CASE backend = "portal" -> KeyFromEvdev(EvdevKeyCode(k))
                          [] backend = "x11"    -> TranslateKeySym(KeySymOf(k))
                          [] backend = "win32"  -> VirtualKeyToKey(VirtualKeyOf(k))

Refused == -1

\* The codes an injector tries: X keycodes are bytes, virtual keys are words.
XCodes == 1 .. 255
WinCodes == 1 .. 65535

\* Mutant of KeyCodeFor: the sender's code is tried for presses only.
KeyCodeForPresses(e) == IF KeySymFor(e.key) # None THEN KeySymFor(e.key)
                        ELSE IF ~e.release THEN KeyOfNative("x11", e.nativeCode)
                        ELSE None

\* XcbInputInjector::keyCodeFor: the named key, or else the sender's own code.  The
\* client's X key map is taken to have every keysym of the table.
KeyCodeFor(e) == IF KeySymFor(e.key) # None THEN KeySymFor(e.key)
                 ELSE IF e.nativeCode \in XCodes THEN KeyOfNative("x11", e.nativeCode)
                 ELSE Refused

\* keyToWin32 with its default branch.
Win32KeyFor(e) == IF KeyToWin32(e.key) # None THEN KeyToWin32(e.key)
                  ELSE IF e.nativeCode \in WinCodes THEN KeyOfNative("win32", e.nativeCode)
                  ELSE Refused

\* The Wayland injectors know only the name.
EvdevKeyFor(e) == IF EvdevKeyCode(e.key) # None THEN EvdevKeyCode(e.key) ELSE Refused

Injected(backend, e) == CASE backend = "x11"   -> KeyCodeFor(e)
                          [] backend = "win32" -> Win32KeyFor(e)
                          [] OTHER             -> EvdevKeyFor(e)

-----------------------------------------------------------------------------
Init == /\ server \in Captures /\ client \in Injectors
        /\ held = {} /\ wire = <<>> /\ down = {} /\ connected = TRUE

Send(k, release) ==
  wire' = IF server = "portal" /\ Captured(server, k) = None THEN wire
          ELSE Append(wire, KeyEvent(Captured(server, k), NativeCode(server, k), release, k))

Press(k) == /\ k \notin held /\ connected /\ Len(wire) < MaxWire
            /\ held' = held \cup {k}
            /\ Send(k, FALSE)
            /\ UNCHANGED <<server, client, down, connected>>

Release(k) == /\ k \in held /\ connected /\ Len(wire) < MaxWire
              /\ held' = held \ {k}
              /\ Send(k, TRUE)
              /\ UNCHANGED <<server, client, down, connected>>

\* Client::handleMessage: the first refused event is the last one.
Inject == /\ wire # <<>> /\ connected
          /\ LET e == Head(wire)
                 k == Injected(client, e)
             IN  /\ connected' = (k # Refused)
                 /\ down' = IF k = Refused THEN down
                            ELSE IF e.release THEN down \ {k} ELSE down \cup {k}
          /\ wire' = Tail(wire)
          /\ UNCHANGED <<server, client, held>>

Next == (\E k \in Keys : Press(k) \/ Release(k)) \/ Inject
Spec == Init /\ [][Next]_vars

-----------------------------------------------------------------------------
\* The keys pressed whose release has not arrived.
Pressed == held \cup {wire[i].origin : i \in 1 .. Len(wire)}

\* While the user presses digits, the client's machine sees digits: key.hpp calls
\* the usages "Keyboard 1 and !" to "Keyboard 0 and )".
DigitsAreDigits == Pressed \subseteq Digit1 .. Digit0 => down \subseteq Digit1 .. Digit0

\* While the client runs, a key comes up with its release: nothing is left down
\* once the user has let go of every key and the events have arrived.
ReleasesReachTheSameKey == connected /\ wire = <<>> /\ held = {} => down = {}

\* Of the keys of an ordinary keyboard only the digits of an X11 server's keypad, which
\* its capture cannot name, end the run of a client, and only of one on Wayland, whose
\* injectors do not try the code.
OrdinaryKeysAreTaken ==
  [][connected /\ ~connected' /\ Head(wire).origin \in Keyboard
       => /\ server = "x11" /\ Head(wire).origin \in KeypadDigits
          /\ client \in {"portal", "wlr"}]_vars

\* A key pressed on one system is a key pressed, and then released, on any other, but
\* for the keypad of an X11 server and a Wayland client.
KeysArrive == []ReleasesReachTheSameKey /\ OrdinaryKeysAreTaken
=============================================================================
