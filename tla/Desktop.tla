------------------------------ MODULE Desktop ------------------------------
(***************************************************************************)
(* What stands between the hardware and the user: the keyboard, the mouse, *)
(* the clock with its watchdog, and the session of pinguinos_main, which   *)
(* goes from the log-in to the desktop and back.  The drivers give the     *)
(* session any keys and clicks, so that they share no state with it, and a *)
(* behaviour is one of one of them.                                        *)
(***************************************************************************)
EXTENDS Input, Rtc, Login, Windows

VARIABLE side  \* which of them this behaviour is about

vars == <<side, kbdVars, mouseVars, rtcVars, date, loginVars, winVars>>

Sides == {"keyboard", "mouse", "clock", "dates", "session"}

Init ==
  /\ side \in Sides
  /\ KbdInit /\ MouseInit /\ LoginInit /\ WinInit /\ RtcInit /\ DateInit
  /\ side # "clock" => time = 0 /\ wdt_ticks = 0

(* desktop_run returns.  app_init comes when the desktop starts again, and *)
(* nothing looks at the windows before.                                    *)
EndDesktop ==
  /\ screen = "desktop" /\ ended # "running"
  /\ Leave(IF ended = "logout" THEN "login" ELSE "off")
  /\ AppInit

Session ==
  \/ LoginNext /\ UNCHANGED winVars
  \/ screen = "desktop" /\ WinNext /\ UNCHANGED loginVars
  \/ EndDesktop

Next ==
  /\ UNCHANGED side
  /\ \/ side = "keyboard" /\ KbdNext /\ UNCHANGED <<mouseVars, rtcVars, date, loginVars, winVars>>
     \/ side = "mouse" /\ MouseNext /\ UNCHANGED <<kbdVars, rtcVars, date, loginVars, winVars>>
     \/ side = "clock" /\ RtcNext /\ UNCHANGED <<kbdVars, mouseVars, date, loginVars, winVars>>
     \/ side = "dates" /\ NextMonth /\ UNCHANGED <<kbdVars, mouseVars, rtcVars, loginVars, winVars>>
     \/ side = "session" /\ Session /\ UNCHANGED <<kbdVars, mouseVars, rtcVars, date>>

Spec == Init /\ [][Next]_vars

-----------------------------------------------------------------------------
(* The types of all of them: the rings' positions within the rings, the    *)
(* pointer within the screen or one past it, the fields within their size. *)
TypeOK ==
  /\ side \in Sides
  /\ date.days \in Nat
  /\ KbdTypeOK /\ MouseTypeOK /\ RtcTypeOK /\ LoginTypeOK /\ WinTypeOK

(* The drivers tell what happened: every key in its order with its shift   *)
(* state, every click once, a time that was, and a hang when there is one; *)
(* and hours and dates are converted as ConversionsTrue says.              *)
DriversTrue == KeysArrive /\ ClicksSeen /\ ClockTrue /\ ConversionsTrue

=============================================================================
