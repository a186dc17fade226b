--------------------------- MODULE DisplayProofs ---------------------------
(***************************************************************************)
(* Theorems about Display, for every framebuffer, palette and bound.  The  *)
(* invariant has three parts, each inductive alone: the keys, the pixels,  *)
(* and where exec is with which window.                                    *)
(***************************************************************************)
EXTENDS Display, TLAPS

\* A key is pressed, then delivered, then read; no key is read again.
KeysInv ==
    /\ pressed \in 0 .. MaxPresses /\ runs \in 0 .. MaxRuns
    /\ delivered \in 0 .. pressed
    /\ _last_key \in 0 .. delivered /\ read \in 0 .. delivered
    /\ KeyNotReadYet

\* The copy is what FBSYNC last found, and until FBSYNC is over, what it is now.
Colours == {Unset} \cup 0 .. (Colors - 1)
PixelsInv ==
    /\ framebuffer \in [Pixels -> Bytes]
    /\ host_display_buffer \in [Pixels -> Colours]
    /\ screen \in [Pixels -> Colours]
    /\ synced = host_display_buffer
    /\ at \in {"fbsync wait", "fbsync update"} => synced = framebuffer

\* When the window can be dead, or was never opened.
Places == {"idle", "program", "fbsync wait", "fbsync update", "last wait",
           "last update", "close", "undefined"}
WindowInv ==
    /\ at \in Places
    /\ gui \in BOOLEAN /\ closed \in BOOLEAN /\ keeps_mode \in BOOLEAN
    /\ window \in {"uninitialized", "null", "open", "destroyed"}
    /\ window = "destroyed" => closed
    /\ keeps_mode /\ window = "uninitialized" =>
           at \in {"idle", "program", "undefined"} /\ (at = "program" => ~ gui)
    /\ DefinedUnlessClosed

IInv == KeysInv /\ PixelsInv /\ WindowInv

LEMMA InvariantTypes == IInv => TypeOK
BY DEF IInv, KeysInv, PixelsInv, WindowInv, TypeOK, Colours, Places

-----------------------------------------------------------------------------
(* The keys. *)

LEMMA KeysDelivered ==
    ASSUME KeysInv, Deliver \/ UNCHANGED keys, UNCHANGED <<pressed, read, runs>>
    PROVE  KeysInv'
BY DisplayAssumption DEF KeysInv, KeyNotReadYet, Deliver, keys

LEMMA KeysCalled ==
    ASSUME KeysInv, NEW ok, NEW failed,
           mfb_wait_sync(ok, failed) \/ mfb_update_ex(ok, failed),
           UNCHANGED <<pressed, read, runs>>
    PROVE  KeysInv'
<1>1. Deliver \/ UNCHANGED keys
  BY Zenon DEF mfb_wait_sync, mfb_update_ex, NoWindow, UpdateEvents, keys
<1>. QED
  BY <1>1, KeysDelivered

LEMMA KeysInvariant == ASSUME KeysInv, [Next]_vars PROVE KeysInv'
<1>1. CASE UNCHANGED <<_last_key, delivered, pressed, read, runs>>
  BY <1>1 DEF KeysInv, KeyNotReadYet
<1>2. CASE Begin
  BY <1>2, DisplayAssumption DEF Begin, KeysInv, KeyNotReadYet
<1>3. CASE Input
  <2>1. UNCHANGED <<delivered, pressed, runs>>
    BY <1>3, Zenon DEF Input, user
  <2>2. \/ _last_key' = 0 /\ read' = IF _last_key # 0 THEN _last_key ELSE read
        \/ UNCHANGED <<read, _last_key>>
    BY <1>3, Zenon DEF Input
  <2>. QED
    BY <2>1, <2>2, DisplayAssumption DEF KeysInv, KeyNotReadYet
<1>4. CASE Press
  BY <1>4, DisplayAssumption DEF Press, keys, KeysInv, KeyNotReadYet
<1>5. CASE FbsyncWait \/ FbsyncUpdate \/ LastWait \/ LastUpdate
  BY <1>5, KeysCalled, Zenon
     DEF FbsyncWait, FbsyncUpdate, LastWait, LastUpdate, user
<1>6. CASE (\E b \in BOOLEAN : set_gui(b) \/ WriteGui(b)) \/ FbsyncConvert \/ Leave \/ Throw
           \/ (\E p \in Pixels, byte \in Bytes : SetPixel(p, byte))
           \/ CloseWindow \/ Close \/ UNCHANGED vars
  BY <1>6, <1>1, Zenon
     DEF set_gui, WriteGui, FbsyncConvert, Leave, Throw, SetPixel, CloseWindow, Close,
         vars, keys, user
<1>. QED
  BY <1>2, <1>3, <1>4, <1>5, <1>6, Zenon DEF Next, Exec

-----------------------------------------------------------------------------
(* The pixels. *)

LEMMA FrameIsFramebuffer ==
    ASSUME PixelsInv, Defined(framebuffer)
    PROVE  /\ Frame(framebuffer) = framebuffer
           /\ framebuffer \in [Pixels -> Colours]
<1>1. framebuffer \in [Pixels -> Bytes]
  BY DEF PixelsInv
<1>2. ASSUME NEW p \in Pixels PROVE framebuffer[p] \in Colours
  <2>1. framebuffer[p] \in Bytes /\ framebuffer[p] < Colors
    BY <1>1, Zenon DEF Defined
  <2>. QED
    BY <2>1, DisplayAssumption DEF Bytes, Colours
<1>. QED
  BY <1>1, <1>2, Zenon DEF Frame

LEMMA BlankColours == Blank \in [Pixels -> Colours]
BY DEF Blank, Colours

LEMMA PixelsInvariant == ASSUME PixelsInv, [Next]_vars PROVE PixelsInv'
<1>1. CASE UNCHANGED <<pixels, at, window>>
  BY <1>1, Zenon DEF PixelsInv, pixels
<1>2. CASE Begin
  BY <1>2, BlankColours DEF Begin, PixelsInv
<1>3. CASE \E p \in Pixels, byte \in Bytes : SetPixel(p, byte)
  BY <1>3 DEF SetPixel, PixelsInv
<1>4. CASE FbsyncConvert
  <2>1. CASE Defined(framebuffer)
    BY <1>4, <2>1, FrameIsFramebuffer DEF FbsyncConvert, PixelsInv
  <2>2. CASE ~ Defined(framebuffer)
    BY <1>4, <2>2 DEF FbsyncConvert, PixelsInv
  <2>. QED
    BY <2>1, <2>2
<1>5. CASE FbsyncWait
  BY <1>5 DEF FbsyncWait, mfb_wait_sync, NoWindow, PixelsInv
<1>6. CASE FbsyncUpdate
  BY <1>6 DEF FbsyncUpdate, mfb_update_ex, NoWindow, PixelsInv
<1>7. CASE LastWait
  BY <1>7 DEF LastWait, mfb_wait_sync, NoWindow, PixelsInv
<1>8. CASE LastUpdate
  BY <1>8 DEF LastUpdate, mfb_update_ex, NoWindow, PixelsInv
<1>9. CASE Leave
  BY <1>9 DEF Leave, pixels, PixelsInv
<1>10. CASE Throw \/ CloseWindow
  BY <1>10 DEF Throw, CloseWindow, pixels, PixelsInv
<1>11. CASE \/ \E b \in BOOLEAN : set_gui(b) \/ WriteGui(b)
            \/ Input \/ Press \/ Close \/ UNCHANGED vars
  BY <1>11, <1>1, Zenon DEF set_gui, WriteGui, Input, Press, Close, vars
<1>. QED
  BY <1>2, <1>3, <1>4, <1>5, <1>6, <1>7, <1>8, <1>9, <1>10, <1>11, Zenon DEF Next, Exec

-----------------------------------------------------------------------------
(* The window. *)

LEMMA WindowCalled ==
    ASSUME WindowInv, NEW ok \in {"program", "fbsync update", "last wait", "last update"},
           NEW failed \in {"program", "fbsync update", "close"},
           mfb_wait_sync(ok, failed) \/ mfb_update_ex(ok, failed),
           at \notin {"idle", "program", "undefined"},
           UNCHANGED <<gui, closed, keeps_mode, framebuffer>>
    PROVE  WindowInv'
<1>1. window = "uninitialized" => ~ keeps_mode
  BY DEF WindowInv
<1>2. CASE NoWindow(failed)
  <2>1. window # "open" /\ UNCHANGED window /\ at' = IF window = "null" THEN failed ELSE "undefined"
    BY <1>2, Zenon DEF NoWindow
  <2>. QED
    BY <1>1, <2>1, Zenon DEF WindowInv, Places, DefinedUnlessClosed
<1>3. CASE window = "open" /\ window' = (IF closed THEN "destroyed" ELSE window) /\ at' \in {ok, failed}
  BY <1>3, Zenon DEF WindowInv, Places, DefinedUnlessClosed
<1>4. CASE window = "open" /\ UNCHANGED window /\ at' = failed
  BY <1>4, Zenon DEF WindowInv, Places, DefinedUnlessClosed
<1>5. \/ NoWindow(failed)
      \/ window = "open" /\ window' = (IF closed THEN "destroyed" ELSE window) /\ at' \in {ok, failed}
      \/ window = "open" /\ UNCHANGED window /\ at' = failed
  BY DEF mfb_wait_sync, mfb_update_ex, UpdateEvents
<1>. QED
  BY <1>2, <1>3, <1>4, <1>5, Zenon

LEMMA WindowInvariant == ASSUME WindowInv, [Next]_vars PROVE WindowInv'
<1>1. CASE UNCHANGED <<at, gui, closed, keeps_mode, window, framebuffer>>
  BY <1>1, Zenon DEF WindowInv, DefinedUnlessClosed, Defined
<1>2. CASE Begin
  BY <1>2, Zenon DEF Begin, WindowInv, Places, DefinedUnlessClosed
<1>3. CASE \E p \in Pixels, byte \in Bytes : SetPixel(p, byte)
  <2>1. at = "program" /\ UNCHANGED <<at, gui, closed, keeps_mode, window>>
    BY <1>3, Zenon DEF SetPixel, user
  <2>. QED
    BY <2>1, Zenon DEF WindowInv, DefinedUnlessClosed
<1>4. CASE FbsyncConvert
  BY <1>4, Zenon DEF FbsyncConvert, user, WindowInv, Places, DefinedUnlessClosed, Defined
<1>5. CASE FbsyncWait \/ FbsyncUpdate \/ LastWait \/ LastUpdate
  BY <1>5, WindowCalled
     DEF FbsyncWait, FbsyncUpdate, LastWait, LastUpdate, user
<1>6. CASE CloseWindow
  BY <1>6, Zenon DEF CloseWindow, pixels, user, WindowInv, Places, DefinedUnlessClosed, Defined
<1>7. CASE Leave
  BY <1>7, Zenon
     DEF Leave, WindowTest, pixels, user, WindowInv, Places, DefinedUnlessClosed, Defined
<1>8. CASE Throw
  BY <1>8, Zenon DEF Throw, pixels, user, WindowInv, Places, DefinedUnlessClosed, Defined
<1>9. CASE \E b \in BOOLEAN : set_gui(b) \/ WriteGui(b)
  <2>. PICK b \in BOOLEAN : set_gui(b) \/ WriteGui(b)
    BY <1>9
  <2>1. gui' \in BOOLEAN /\ UNCHANGED <<at, closed, window, framebuffer>>
    BY Zenon DEF set_gui, WriteGui, pixels, user
  <2>2. CASE set_gui(b)
    BY <2>1, <2>2, Zenon DEF set_gui, WindowInv, DefinedUnlessClosed
  <2>3. CASE WriteGui(b)
    BY <2>1, <2>3, Zenon DEF WriteGui, WindowInv, DefinedUnlessClosed
  <2>. QED
    BY <2>2, <2>3
<1>10. CASE Close
  BY <1>10, Zenon DEF Close, pixels, WindowInv, DefinedUnlessClosed, Defined
<1>11. CASE Input \/ Press \/ UNCHANGED vars
  BY <1>11, <1>1, Zenon DEF Input, Press, vars, pixels, user
<1>. QED
  BY <1>2, <1>3, <1>4, <1>5, <1>6, <1>7, <1>8, <1>9, <1>10, <1>11, Zenon DEF Next, Exec

-----------------------------------------------------------------------------
LEMMA InitInvariant == Init => IInv
<1>. SUFFICES ASSUME Init PROVE IInv
  OBVIOUS
<1>1. KeysInv
  BY DisplayAssumption DEF Init, KeysInv, KeyNotReadYet
<1>2. PixelsInv
  <2>1. 0 \in Bytes
    BY DisplayAssumption DEF Bytes
  <2>. QED
    BY <2>1, BlankColours, Zenon DEF Init, PixelsInv
<1>3. WindowInv
  BY Zenon DEF Init, WindowInv, Places, DefinedUnlessClosed
<1>. QED
  BY <1>1, <1>2, <1>3 DEF IInv

LEMMA Invariant == Spec => []IInv
<1>1. IInv /\ [Next]_vars => IInv'
  BY KeysInvariant, PixelsInvariant, WindowInvariant, Zenon DEF IInv
<1>. QED
  BY <1>1, InitInvariant, PTL DEF Spec

-----------------------------------------------------------------------------
\* Type correctness: the display's state keeps its types, _last_key is a press
\* that was delivered, and the host buffer holds only colours of the palette.
THEOREM TypeCorrect == Spec => []TypeOK
BY Invariant, InvariantTypes, PTL

\* For every program and user, exec meets undefined behaviour only after the
\* user closed the window, the program changed the GUI byte or synchronised
\* without a window, or a pixel is past COLORS.
THEOREM UndefinedOnlyThen == Spec => []DefinedUnlessClosed
<1>1. IInv => DefinedUnlessClosed
  BY DEF IInv, WindowInv
<1>. QED
  BY <1>1, Invariant, PTL

\* INPUT never gives a program a press that was read before, or one that came
\* before a press that was read, across runs.
THEOREM KeysReadOnce == Spec => []KeyNotReadYet
<1>1. IInv => KeyNotReadYet
  BY DEF IInv, KeysInv
<1>. QED
  BY <1>1, Invariant, PTL

\* Whatever fails and in whatever order, the screen only changes to the whole
\* framebuffer as this run's last FBSYNC found it, and FBSYNC itself changes it to
\* the framebuffer as it is at that moment, two calls after copying it.
THEOREM FramesAreWhole == Spec => NoTearing
<1>1. IInv /\ [Next]_vars =>
          [at # "idle" /\ screen' # screen =>
               screen' = synced /\ (at = "fbsync update" => screen' = framebuffer)]_vars
  <2> SUFFICES ASSUME IInv, Next, at # "idle", screen' # screen
               PROVE  screen' = synced /\ (at = "fbsync update" => screen' = framebuffer)
    BY DEF vars
  <2>1. CASE FbsyncUpdate
    BY <2>1 DEF FbsyncUpdate, mfb_update_ex, IInv, PixelsInv
  <2>2. CASE LastUpdate
    BY <2>2 DEF LastUpdate, mfb_update_ex, IInv, PixelsInv
  <2>3. CASE ~ (FbsyncUpdate \/ LastUpdate)
    BY <2>3 DEF Next, Exec, set_gui, WriteGui, Begin, Input, FbsyncConvert, Leave, Throw,
                SetPixel, FbsyncWait, LastWait, CloseWindow, mfb_wait_sync, Press, Close,
                pixels
  <2>. QED
    BY <2>1, <2>2, <2>3
<1>. QED
  BY <1>1, Invariant, PTL DEF Spec, NoTearing
=============================================================================
