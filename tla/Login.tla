------------------------------- MODULE Login -------------------------------
(***************************************************************************)
(* src/os/src/login.c: the form of the first start, where a user is made,  *)
(* and the form to log in.  An action is a frame: the buttons are sampled, *)
(* a click is acted on, and then one key at most.                          *)
(***************************************************************************)
EXTENDS Integers, Sequences

CONSTANTS
  LOGIN_USERNAME_MAX, LOGIN_PASSWORD_MAX,
  Chars   \* the characters that are typed

ASSUME LoginAssumption ==
  LOGIN_USERNAME_MAX \in Nat \ {0} /\ LOGIN_PASSWORD_MAX \in Nat \ {0}

VARIABLES
  screen,   \* which loop runs
  user_db,  \* with a ghost: what stood in the second password field
  form,     \* the fields
  focus, prev_btn,
  user      \* ghost: what was entered by the user the desktop runs for

loginVars == <<screen, user_db, form, focus, prev_btn, user>>

Fields  == <<"name", "pass", "pass2">>
Texts(max) == UNION {[1 .. n -> Chars] : n \in 0 .. max - 1}
Forms   == [name : Texts(LOGIN_USERNAME_MAX),
            pass : Texts(LOGIN_PASSWORD_MAX), pass2 : Texts(LOGIN_PASSWORD_MAX)]
Empty   == [name |-> <<>>, pass |-> <<>>, pass2 |-> <<>>]
Screens == {"setup", "login", "desktop", "off"}

LoginTypeOK ==
  /\ screen \in Screens /\ user_db \in Seq(Forms)
  /\ form \in Forms /\ focus \in 0 .. 2 /\ prev_btn \in BOOLEAN
  /\ user \in Forms

(* users_init, and login_run that finds no user                            *)
LoginInit ==
  /\ screen = "setup" /\ user_db = <<>>
  /\ form = Empty /\ focus = 0 /\ prev_btn = FALSE /\ user = Empty

(* the form of a screen that is entered                                    *)
Fresh(s) == screen' = s /\ form' = Empty /\ focus' = 0 /\ prev_btn' = FALSE

FieldCount == IF screen = "setup" THEN 3 ELSE 2
Clicked(btn) == btn /\ ~prev_btn

(* Mutant: a character is stored where the end of the string belongs.      *)
TypedFull(f, i, key) ==
  LET text == f[Fields[i + 1]] IN
  [f EXCEPT ![Fields[i + 1]] =
     IF key = "BACKSPACE" THEN SubSeq(text, 1, Len(text) - 1)
     ELSE IF key \in Chars /\ Len(text) < (IF i = 0 THEN LOGIN_USERNAME_MAX ELSE LOGIN_PASSWORD_MAX)
     THEN Append(text, key) ELSE text]

(* What a key does to the field in focus.  Keys that change the focus are  *)
(* in Moved.                                                               *)
Typed(f, i, key) ==
  LET text == f[Fields[i + 1]]
      max  == IF i = 0 THEN LOGIN_USERNAME_MAX ELSE LOGIN_PASSWORD_MAX
  IN  [f EXCEPT ![Fields[i + 1]] =
        IF key = "BACKSPACE" THEN SubSeq(text, 1, Len(text) - 1)
        ELSE IF key \in Chars /\ Len(text) < max - 1 THEN Append(text, key) ELSE text]

(* set_focus wraps; the arrows of the log-in form stop at its two fields   *)
Moved(i, key) ==
  CASE key = "TAB" \/ (key = "DOWN" /\ screen = "setup") -> (i + 1) % FieldCount
    [] key = "UP" /\ screen = "setup" -> (i - 1) % FieldCount
    [] key = "UP" /\ screen = "login" -> 0
    [] key = "DOWN" /\ screen = "login" -> 1
    [] OTHER -> i

Keys == Chars \cup {"TAB", "UP", "DOWN", "BACKSPACE", ""}

(* A frame in which nothing is sent: a click into a field, and a key.      *)
Edit(btn, spot, key) ==
  /\ screen \in {"setup", "login"}
  /\ LET i == IF Clicked(btn) /\ spot < FieldCount THEN spot ELSE focus IN
     /\ focus' = Moved(i, key)
     /\ form' = Typed(form, i, key)
  /\ prev_btn' = btn /\ UNCHANGED <<screen, user_db, user>>

(* Mutant: the second password is not looked at.                           *)
ConfirmedOnce(second) == form.name # <<>> /\ form.pass # <<>>

(* try_create_user                                                         *)
Confirmed(second) == form.name # <<>> /\ form.pass # <<>> /\ form.pass = second

(* first_run_setup returns: the user is stored, and the log-in form shows  *)
UsersAdd ==
  /\ user_db' = Append(user_db, form)
  /\ Fresh("login") /\ UNCHANGED user

(* the passwords are cleared; after the button the key is taken as well    *)
Refused(btn, key) ==
  /\ focus' = Moved(1, key)
  /\ form' = Typed([form EXCEPT !.pass = <<>>, !.pass2 = <<>>], 1, key)
  /\ prev_btn' = btn /\ UNCHANGED <<screen, user_db, user>>

(* ENTER in the form of the first start; a field may be clicked before     *)
CreateByEnter(btn) ==
  /\ screen = "setup"
  /\ IF Confirmed(form.pass2) THEN UsersAdd ELSE Refused(btn, "")

(* The button: pw2_tmp is not terminated when the password has the full    *)
(* length, so that it may be unequal then.  ENTER in the same frame finds  *)
(* the passwords empty.                                                    *)
CreateByButton(btn, key) ==
  /\ screen = "setup" /\ Clicked(btn)
  /\ \/ Confirmed(form.pass2) /\ UsersAdd
     \/ /\ ~Confirmed(form.pass2) \/ Len(form.pass2) = LOGIN_PASSWORD_MAX - 1
        /\ Refused(btn, key)

(* check_login                                                             *)
CheckLogin(u) == u.name = form.name /\ u.pass = form.pass

(* ENTER or a click on the button, which skips the key                     *)
DoLogin(btn) ==
  /\ screen = "login"
  /\ IF \E i \in DOMAIN user_db : CheckLogin(user_db[i])
     THEN /\ user' = form /\ Fresh("desktop") /\ UNCHANGED user_db
     ELSE /\ form' = [form EXCEPT !.pass = <<>>] /\ focus' = 0 /\ prev_btn' = btn
          /\ UNCHANGED <<screen, user_db, user>>

(* desktop_run returns: pinguinos_main calls login_run again or halts      *)
Leave(to) ==
  /\ screen = "desktop"
  /\ Fresh(to) /\ user' = Empty /\ UNCHANGED user_db

LoginNext ==
  \E btn \in BOOLEAN :
    \/ \E spot \in 0 .. 3, key \in Keys : Edit(btn, spot, key)
    \/ \E key \in Keys : CreateByButton(btn, key)
    \/ CreateByEnter(btn) \/ DoLogin(btn)

-----------------------------------------------------------------------------
(* The desktop runs only for a user who is stored under the name and the   *)
(* password that were entered; a stored user has both, and the password    *)
(* was entered twice; there is one, made before the first log-in.          *)
OnlyUsers ==
  /\ screen = "desktop" => \E i \in DOMAIN user_db :
       user_db[i].name = user.name /\ user_db[i].pass = user.pass
  /\ \A i \in DOMAIN user_db : LET u == user_db[i] IN
       u.name # <<>> /\ u.pass # <<>> /\ u.pass = u.pass2
  /\ Len(user_db) = (IF screen = "setup" THEN 0 ELSE 1)

=============================================================================
