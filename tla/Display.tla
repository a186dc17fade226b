------------------------------ MODULE Display ------------------------------
(***************************************************************************)
(* The window of VM::exec (src/VM.cpp): when it is opened, drawn, asked    *)
(* for keys and closed, while its user presses keys and closes it.  What   *)
(* the program computes is left open: it may set any pixel, write the GUI  *)
(* byte, read a key, synchronise, halt or throw, in any order.             *)
(*                                                                         *)
(* MiniFB is external.  Its calls deliver what the user did since the last *)
(* one, and destroy the window when the user has closed it.  A call on a   *)
(* window that is destroyed or was never opened is undefined.              *)
(*                                                                         *)
(* Arrow presses are numbered and a press stands for its direction; a      *)
(* colour stands for its index in COLORS.                                  *)
(***************************************************************************)
EXTENDS Integers

CONSTANTS
    Pixels,
    Colors,      \* how many entries VMconf::COLORS has
    MaxPresses,  \* bounds
    MaxRuns

ASSUME DisplayAssumption == Colors \in Nat \ {0} /\ MaxPresses \in Nat /\ MaxRuns \in Nat

VARIABLES
    at,           \* where exec is; idle between two runs
    gui,          \* the GUI byte
    framebuffer,
    window,
    host_display_buffer,
    _last_key,
    screen,       \* what the user sees
    synced,       \* the framebuffer as this run's last FBSYNC found it
    pressed,      \* how often the user has pressed an arrow
    delivered,    \* the presses MiniFB has reported
    closed,       \* the user has closed this run's window
    read,         \* the last press a program was given
    keeps_mode,   \* this run's program has left the GUI byte as it was, and
                  \* synchronised only with a window
    runs

pixels == <<framebuffer, host_display_buffer, screen, synced>>
user == <<pressed, closed>>
keys == <<_last_key, delivered>>
vars == <<at, gui, window, keys, pixels, user, read, keeps_mode, runs>>

\* A byte that a program may leave in the framebuffer, one of them past COLORS.
Bytes == 0 .. Colors
Unset == -1
Blank == [p \in Pixels |-> Unset]

\* VMconf::COLORS, read without a check.
DefinedLoosely(fb) == \A p \in Pixels : fb[p] =< Colors
Defined(fb) == \A p \in Pixels : fb[p] < Colors

FrameButLast(fb) == [p \in Pixels |-> IF \A q \in Pixels : q =< p THEN Unset ELSE fb[p]]
Frame(fb) == [p \in Pixels |-> fb[p]]

-----------------------------------------------------------------------------
(* MiniFB.                                                                    *)

\* The callback's _last_key holds the latest press.
Deliver ==
    /\ _last_key' = IF delivered < pressed THEN pressed ELSE _last_key
    /\ delivered' = pressed

\* Every call takes the user's events, and destroys a window it finds closed.
UpdateEvents ==
    /\ Deliver
    /\ window' = IF closed THEN "destroyed" ELSE window

\* A call without a window fails; one on a pointer to no window is undefined.
NoWindow(failed) ==
    /\ window # "open"
    /\ at' = IF window = "null" THEN failed ELSE "undefined"
    /\ UNCHANGED <<window, keys>>

\* exec goes on at ok if the call succeeds and at failed if not: the user has
\* closed the window, or poll fails.
mfb_wait_sync(ok, failed) ==
    /\ \/ NoWindow(failed)
       \/ window = "open" /\ UpdateEvents /\ at' \in IF closed THEN {failed} ELSE {ok, failed}
    /\ UNCHANGED screen

\* The update draws before it takes the events; if it fails before it draws, it
\* does neither.
mfb_update_ex(ok, failed) ==
    \/ NoWindow(failed) /\ UNCHANGED screen
    \/ /\ window = "open"
       /\ screen' = host_display_buffer
       /\ UpdateEvents
       /\ at' = IF closed THEN failed ELSE ok
    \/ /\ window = "open"
       /\ at' = failed
       /\ UNCHANGED <<window, keys, screen>>

\* if (window): an uninitialized pointer may be anything.
WindowTest == IF window = "uninitialized" THEN BOOLEAN ELSE {window # "null"}

-----------------------------------------------------------------------------
(* VM::set_gui, and exec with what its program does.                          *)

set_gui(b) ==
    /\ at = "idle"
    /\ gui' = b
    /\ UNCHANGED <<at, window, keys, pixels, user, read, keeps_mode, runs>>

Begin ==
    /\ at = "idle"
    /\ runs < MaxRuns
    /\ runs' = runs + 1
    /\ at' = "program"
    /\ window' \in IF gui THEN {"open", "null"} ELSE {"uninitialized"}
    /\ host_display_buffer' = Blank
    /\ screen' = Blank
    /\ synced' = Blank
    /\ delivered' = pressed
    /\ closed' = FALSE
    /\ keeps_mode' = TRUE
    /\ UNCHANGED <<gui, framebuffer, _last_key, pressed, read>>

SetPixel(p, byte) ==
    /\ at = "program"
    /\ framebuffer' = [framebuffer EXCEPT ![p] = byte]
    /\ UNCHANGED <<at, gui, window, host_display_buffer, screen, synced, keys, user,
                   read, keeps_mode, runs>>

WriteGui(b) ==
    /\ at = "program"
    /\ gui' = b
    /\ keeps_mode' = FALSE
    /\ UNCHANGED <<at, window, keys, pixels, user, read, runs>>

InputKeeping ==
    /\ at = "program"
    /\ \E test \in WindowTest :
           read' = IF gui /\ test /\ _last_key # 0 THEN _last_key ELSE read
    /\ UNCHANGED <<at, gui, window, keys, pixels, user, keeps_mode, runs>>
\* With a window INPUT takes the last key, without one std::cin's.
Input ==
    /\ at = "program"
    /\ \E test \in WindowTest :
           IF gui /\ test
           THEN /\ read' = IF _last_key # 0 THEN _last_key ELSE read
                /\ _last_key' = 0
           ELSE UNCHANGED <<read, _last_key>>
    /\ UNCHANGED <<at, gui, window, delivered, pixels, user, keeps_mode, runs>>

\* FBSYNC converts the framebuffer, waits for the next frame and shows it,
\* whatever the wait and the update return.
FbsyncConvert ==
    /\ at = "program"
    /\ at' = IF Defined(framebuffer) THEN "fbsync wait" ELSE "undefined"
    /\ host_display_buffer' =
           IF Defined(framebuffer) THEN Frame(framebuffer) ELSE host_display_buffer
    /\ synced' = IF Defined(framebuffer) THEN framebuffer ELSE synced
    /\ keeps_mode' = (keeps_mode /\ window # "uninitialized")
    /\ UNCHANGED <<gui, window, framebuffer, screen, keys, user, read, runs>>

FbsyncWait ==
    /\ at = "fbsync wait"
    /\ mfb_wait_sync("fbsync update", "fbsync update")
    /\ UNCHANGED <<gui, framebuffer, host_display_buffer, synced, user, read, keeps_mode, runs>>

FbsyncUpdate ==
    /\ at = "fbsync update"
    /\ mfb_update_ex("program", "program")
    /\ UNCHANGED <<gui, framebuffer, host_display_buffer, synced, user, read, keeps_mode, runs>>

\* HALT, or the end of the code.
LeaveByWindow ==
    /\ at = "program"
    /\ \E test \in WindowTest : at' = IF test THEN "last wait" ELSE "idle"
    /\ UNCHANGED <<gui, window, keys, pixels, user, read, keeps_mode, runs>>
Leave ==
    /\ at = "program"
    /\ \E test \in WindowTest : at' = IF gui /\ test THEN "last wait" ELSE "idle"
    /\ UNCHANGED <<gui, window, keys, pixels, user, read, keeps_mode, runs>>

\* An exception leaves the window as it is.
Throw ==
    /\ at = "program"
    /\ at' = "idle"
    /\ UNCHANGED <<gui, window, keys, pixels, user, read, keeps_mode, runs>>

\* The loop goes on while both calls succeed.
LastWaitIgnored ==
    /\ at = "last wait"
    /\ mfb_wait_sync("last update", "last update")
    /\ UNCHANGED <<gui, framebuffer, host_display_buffer, synced, user, read, keeps_mode, runs>>
LastWait ==
    /\ at = "last wait"
    /\ mfb_wait_sync("last update", "close")
    /\ UNCHANGED <<gui, framebuffer, host_display_buffer, synced, user, read, keeps_mode, runs>>

LastUpdate ==
    /\ at = "last update"
    /\ mfb_update_ex("last wait", "close")
    /\ UNCHANGED <<gui, framebuffer, host_display_buffer, synced, user, read, keeps_mode, runs>>

\* mfb_close writes to the window, and the pointer is forgotten.
CloseWindow ==
    /\ at = "close"
    /\ at' = IF window \in {"open", "null"} THEN "idle" ELSE "undefined"
    /\ window' = IF window = "open" THEN "null" ELSE window
    /\ UNCHANGED <<gui, keys, pixels, user, read, keeps_mode, runs>>

\* The steps exec takes without the program's doing.
Exec == FbsyncWait \/ FbsyncUpdate \/ LastWait \/ LastUpdate \/ CloseWindow

-----------------------------------------------------------------------------
(* The user, as long as there is a window.                                    *)

Press ==
    /\ window = "open" /\ ~ closed
    /\ pressed < MaxPresses
    /\ pressed' = pressed + 1
    /\ UNCHANGED <<at, gui, window, keys, pixels, closed, read, keeps_mode, runs>>

Close ==
    /\ window = "open"
    /\ closed' = TRUE
    /\ UNCHANGED <<at, gui, window, keys, pixels, pressed, read, keeps_mode, runs>>

Init ==
    /\ at = "idle"
    /\ gui = FALSE
    /\ framebuffer = [p \in Pixels |-> 0]
    /\ window = "null"
    /\ host_display_buffer = Blank
    /\ _last_key = 0
    /\ screen = Blank
    /\ synced = Blank
    /\ pressed = 0
    /\ delivered = 0
    /\ closed = FALSE
    /\ read = 0
    /\ keeps_mode = TRUE
    /\ runs = 0

Next ==
    \/ \E b \in BOOLEAN : set_gui(b) \/ WriteGui(b)
    \/ Begin \/ Input \/ FbsyncConvert \/ Leave \/ Throw
    \/ \E p \in Pixels, byte \in Bytes : SetPixel(p, byte)
    \/ Exec
    \/ Press \/ Close

Spec == Init /\ [][Next]_vars /\ WF_vars(Exec)

-----------------------------------------------------------------------------
TypeOK ==
    /\ at \in {"idle", "program", "fbsync wait", "fbsync update", "last wait",
               "last update", "close", "undefined"}
    /\ gui \in BOOLEAN /\ closed \in BOOLEAN /\ keeps_mode \in BOOLEAN
    /\ framebuffer \in [Pixels -> Bytes]
    /\ window \in {"uninitialized", "null", "open", "destroyed"}
    /\ host_display_buffer \in [Pixels -> {Unset} \cup 0 .. (Colors - 1)]
    /\ screen \in [Pixels -> {Unset} \cup 0 .. (Colors - 1)]
    /\ synced \in [Pixels -> {Unset} \cup 0 .. (Colors - 1)]
    /\ pressed \in 0 .. MaxPresses /\ runs \in 0 .. MaxRuns
    /\ delivered \in 0 .. pressed
    /\ _last_key \in 0 .. delivered /\ read \in 0 .. delivered

\* exec only meets undefined behaviour when the user has closed the window, the
\* program has changed the mode it was started in or synchronised without a
\* window, or a pixel is not an index of COLORS.
DefinedUnlessClosed ==
    at = "undefined" => closed \/ ~ keeps_mode \/ ~ Defined(framebuffer)

\* No press is given to a program twice, or after a later one: the key that waits
\* is a press after the last one read, in this run or an earlier one.
KeyNotReadYet == _last_key # 0 => _last_key > read

\* No tearing: all the user is ever shown is the whole framebuffer as this run's
\* last FBSYNC found it, although FBSYNC goes on when a wait or an update fails
\* and the wait loop may be the first to show a copy; what FBSYNC itself shows is
\* the framebuffer as it is at that moment.
NoTearing ==
    [][at # "idle" /\ screen' # screen =>
           screen' = synced /\ (at = "fbsync update" => screen' = framebuffer)]_vars

\* A close during the wait loop is met by whichever of the two calls comes next,
\* and that call ends the loop: exec gets to mfb_close without another call on the
\* window.  (What mfb_close then does to it is DestroyedNotUsed's question.)
CloseEndsWaiting ==
    at \in {"last wait", "last update"} /\ window = "open" /\ closed ~> at = "close"

\* external/minifb/README.md:40 of a window that mfb_update_ex has found closed:
\* it "has been destroyed internally and cannot be used anymore".
DestroyedNotUsed == ~ (at = "undefined" /\ window = "destroyed")
=============================================================================
