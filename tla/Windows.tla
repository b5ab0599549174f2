------------------------------ MODULE Windows ------------------------------
(***************************************************************************)
(* src/os/src/desktop.c and app.c: the windows, the start menu and the     *)
(* context menu.  A frame takes the input, then lets the context menu, the *)
(* windows and the rest of the desktop act on it in turn, a step each.     *)
(* Where the pointer is is open in each: windows lie anywhere.             *)
(***************************************************************************)
EXTENDS Integers, FiniteSets, FiniteSetsExt

CONSTANTS
  APP_MAX_RUNNING,
  Apps,       \* the names of the built-in applications
  Terminal, Settings

None == "none"  \* no application: a slot that is not running

ASSUME WindowsAssumption ==
  /\ APP_MAX_RUNNING \in Nat \ {0}
  /\ {Terminal, Settings} \subseteq Apps /\ None \notin Apps

VARIABLES
  phase,       \* the next part of the frame
  cur_btn, last_clicked, right_click,   \* the left button and the clicks of the frame
  clicked,     \* the click of the left button is not yet used up
  running,     \* the name in each slot of apps[], or None
  focused, dragging,  \* the slots whose window is
  start_open, ctx_open,
  ended,       \* what desktop_run returns
  acted,       \* ghost: the parts of the desktop the click has acted on
  pushedBack   \* ghost: a window out of focus was closed since the focus was last set

winVars == <<phase, cur_btn, last_clicked, right_click, clicked, running, focused, dragging,
             start_open, ctx_open, ended, acted, pushedBack>>
inputVars == <<cur_btn, last_clicked, right_click>>
appVars   == <<running, focused, dragging, pushedBack>>

AppSlots == 0 .. APP_MAX_RUNNING - 1
Open  == {i \in AppSlots : running[i] # None}
Endings == {"running", "logout", "shutdown"}

WinTypeOK ==
  /\ phase \in {"poll", "context", "windows", "desktop"}
  /\ {cur_btn, last_clicked, right_click, clicked, start_open, ctx_open, pushedBack} \subseteq BOOLEAN
  /\ running \in [AppSlots -> Apps \cup {None}]
  /\ focused \subseteq AppSlots /\ dragging \subseteq AppSlots
  /\ ended \in Endings
  /\ acted \subseteq {"context", "window", "start", "outside", "icon", "menu"}

WinInit ==
  /\ phase = "poll" /\ cur_btn = FALSE /\ last_clicked = FALSE /\ right_click = FALSE
  /\ clicked = FALSE /\ acted = {} /\ ctx_open = FALSE
  /\ running = [i \in AppSlots |-> None] /\ focused = {} /\ dragging = {}
  /\ pushedBack = FALSE /\ start_open = FALSE /\ ended = "running"

(* desktop_run starts: app_init and its variables.  ctx_open is static.    *)
AppInit ==
  /\ phase' = "poll" /\ cur_btn' = FALSE /\ last_clicked' = FALSE /\ right_click' = FALSE
  /\ clicked' = FALSE /\ acted' = {}
  /\ running' = [i \in AppSlots |-> None] /\ focused' = {} /\ dragging' = {}
  /\ pushedBack' = FALSE /\ start_open' = FALSE /\ ended' = "running"
  /\ UNCHANGED ctx_open

-----------------------------------------------------------------------------
FocusOn(i) == focused' = {i} /\ pushedBack' = FALSE

(* app_launch_builtin: a window that is open, the first free slot, or none *)
Launch(name) ==
  LET free == AppSlots \ Open IN
  IF \E i \in Open : running[i] = name
  THEN FocusOn(CHOOSE i \in Open : running[i] = name) /\ UNCHANGED <<running, dragging>>
  ELSE IF free = {} THEN UNCHANGED appVars
  ELSE /\ running' = [running EXCEPT ![Min(free)] = name]
       /\ dragging' = dragging \ {Min(free)}
       /\ FocusOn(Min(free))

(* Mutant: the window that was closed keeps the only focus.                *)
AppCloseOnly(i) ==
  /\ running' = [running EXCEPT ![i] = None]
  /\ pushedBack' = (pushedBack \/ i \notin focused)
  /\ UNCHANGED focused

(* app_close: the highest slot left gets the focus, and none loses it      *)
AppClose(i) ==
  LET left == Open \ {i} IN
  /\ running' = [running EXCEPT ![i] = None]
  /\ focused' = focused \cup (IF left = {} THEN {} ELSE {Max(left)})
  /\ pushedBack' = (pushedBack \/ i \notin focused)

-----------------------------------------------------------------------------
(* The clicks since the last frame, the button as it is now, which may be  *)
(* up again or down already for a click that comes in the next frame, and  *)
(* ESC, which closes the menus.                                            *)
Poll ==
  /\ phase = "poll" /\ phase' = "context" /\ ended = "running"
  /\ cur_btn' \in BOOLEAN /\ right_click' \in BOOLEAN
  /\ last_clicked' \in BOOLEAN /\ clicked' = last_clicked' /\ acted' = {}
  /\ \E escape \in BOOLEAN :
       /\ start_open' = (start_open /\ ~escape)
       /\ ctx_open'   = (ctx_open /\ ~escape)
  /\ UNCHANGED <<appVars, ended>>

(* The right button opens the context menu where no icon is, on a window   *)
(* too; a click closes it, and one on an item is used up.                  *)
Context ==
  /\ phase = "context" /\ phase' = "windows"
  /\ \E free \in BOOLEAN, item \in {"text", "terminal", "beside"} :
       LET open == ctx_open \/ (right_click /\ ~start_open /\ free)
           used == open /\ clicked /\ item # "beside"
       IN /\ ctx_open' = (open /\ ~clicked)
          /\ clicked'  = (clicked /\ ~used)
          /\ acted'    = IF used THEN {"context"} ELSE {}
          /\ IF used /\ item = "terminal" THEN Launch(Terminal) ELSE UNCHANGED appVars
  /\ UNCHANGED <<inputVars, start_open, ended>>

(* the window in front of those under the pointer                          *)
Topmost(under) ==
  IF under \cap focused # {} THEN Max(under \cap focused) ELSE Max(under)

(* app_handle_mouse: a window that is dragged follows the button that is   *)
(* held and takes the click with it; it is let go when the button is up.   *)
Drag ==
  /\ phase = "windows" /\ phase' = "desktop"
  /\ cur_btn /\ dragging \cap Open # {}
  /\ clicked' = FALSE
  /\ acted' = IF clicked THEN acted \cup {"window"} ELSE acted
  /\ UNCHANGED <<inputVars, appVars, start_open, ctx_open, ended>>

(* app_handle_mouse: the click, also one the context menu has used up      *)
ClickWindow(under, part) ==
  /\ phase = "windows" /\ phase' = "desktop"
  /\ ~(cur_btn /\ dragging \cap Open # {})
  /\ last_clicked /\ under # {} /\ under \subseteq Open
  /\ LET i == Topmost(under) IN
     IF part = "close"
     THEN AppClose(i) /\ dragging' = dragging \ Open
     ELSE /\ FocusOn(i)
          /\ dragging' = (dragging \ Open) \cup (IF part = "title" THEN {i} ELSE {})
          /\ UNCHANGED running
  /\ clicked' = FALSE /\ acted' = acted \cup {"window"}
  /\ UNCHANGED <<inputVars, start_open, ctx_open, ended>>

(* app_handle_mouse: no window under the pointer, or no click              *)
NoWindow ==
  /\ phase = "windows" /\ phase' = "desktop"
  /\ ~(cur_btn /\ dragging \cap Open # {})
  /\ dragging' = dragging \ Open
  /\ UNCHANGED <<inputVars, clicked, running, focused, pushedBack, start_open, ctx_open, ended, acted>>

(* the start button, the menu and the icons share what is left of a click  *)
EndFrame == phase = "desktop" /\ phase' = "poll" /\ UNCHANGED <<inputVars, ctx_open>>

StartButton ==
  /\ EndFrame /\ clicked
  /\ start_open' = ~start_open /\ clicked' = FALSE /\ acted' = acted \cup {"start"}
  /\ UNCHANGED <<appVars, ended>>

(* beside the menu; an icon is one of the places there                     *)
Icon(name) ==
  /\ EndFrame /\ clicked
  /\ start_open' = FALSE /\ clicked' = FALSE
  /\ acted' = acted \cup {"icon"}
  /\ Launch(name)
  /\ UNCHANGED ended

Beside ==
  /\ EndFrame /\ clicked
  /\ start_open' = FALSE /\ acted' = acted \cup {"outside"}
  /\ UNCHANGED <<appVars, clicked, ended>>

(* draw_menu_and_hit, which is where the menu acts                         *)
MenuItem(item) ==
  /\ EndFrame /\ clicked /\ start_open
  /\ ended' = IF item \in Endings THEN item ELSE ended
  /\ IF item = "settings" THEN Launch(Settings) ELSE UNCHANGED appVars
  /\ acted' = acted \cup {"menu"}
  /\ UNCHANGED <<clicked, start_open>>

NoClick ==
  /\ EndFrame /\ ~clicked
  /\ UNCHANGED <<appVars, clicked, start_open, ended, acted>>

WinNext ==
  \/ Poll \/ Context \/ Drag \/ NoWindow
  \/ \E under \in SUBSET AppSlots, part \in {"close", "title", "body"} : ClickWindow(under, part)
  \/ StartButton \/ Beside \/ NoClick
  \/ \E name \in Apps : Icon(name)
  \/ \E item \in {"about", "settings", "logout", "shutdown"} : MenuItem(item)

-----------------------------------------------------------------------------
(* Each application has one window; while a window is open one has the     *)
(* focus, and only one unless a window behind it was closed; one window is *)
(* dragged at most.  A click acts on one thing, except that a window below *)
(* the context menu gets it too; what ends the session was the menu.       *)
WindowsTrue ==
  /\ \A i, j \in Open : running[i] = running[j] => i = j
  /\ Open # {} => focused \cap Open # {}
  /\ Cardinality(focused \cap Open) > 1 => pushedBack
  /\ Cardinality(dragging \cap Open) <= 1
  /\ Cardinality(acted) <= 1 \/ acted = {"context", "window"}
  /\ ended # "running" => acted = {"menu"}

=============================================================================
