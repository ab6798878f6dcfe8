-------------------------------- MODULE Menu --------------------------------
(***************************************************************************)
(* The menu of src/app/moboot/moboot.c, and waiting for a key              *)
(* (src/target/apq-touchpad/gpiokeys.c).  The keys are polled: each poll   *)
(* may find any of KeySets, whatever an earlier one has found.  Time is    *)
(* the Clock, by which a second is over; bound: the loop is never more     *)
(* than one second late.                                                   *)
(***************************************************************************)
EXTENDS Integers

CONSTANT KeySets   \* what gpiokeys_poll() may find: sets of "up", "down", "select"

ASSUME KeysAssumption == {} \in KeySets

VARIABLES
  pc,
  total, curpos, is_pressed, has_timeout, countdown,
  late,      \* current_time() > tick
  caught,    \* history: the poll after drawing the menu found a key while the time ran
  how        \* history: what ended the menu

menuVars == <<total, curpos, is_pressed, has_timeout, countdown, late, caught, how>>

\* moboot_menu() is called.
moboot_menu(init, n, timeout) ==
  /\ pc' = "draw"
  /\ total' = n /\ curpos' = init /\ is_pressed' = {}
  /\ has_timeout' = (timeout # 0) /\ countdown' = timeout /\ late' = FALSE
  /\ caught' = FALSE /\ UNCHANGED how

\* The entries are drawn, then the keys are polled; this poll does not end the
\* countdown.
Draw ==
  /\ pc = "draw" /\ pc' = "turn"
  /\ is_pressed' \in KeySets
  /\ caught' = (caught \/ (has_timeout /\ is_pressed' # {}))
  /\ UNCHANGED <<total, curpos, has_timeout, countdown, late, how>>

\* As below, but the second that is over is counted again and again.
Turn_Faulty ==
  /\ pc = "turn"
  /\ late' = FALSE /\ pc' = "poll"
  /\ countdown' = IF late /\ countdown > 1 THEN countdown - 1 ELSE countdown
  /\ UNCHANGED <<total, curpos, is_pressed, has_timeout, caught, how>>

\* The loop looks at the time.
Turn ==
  /\ pc = "turn"
  /\ IF late THEN /\ late' = FALSE /\ countdown' = countdown - 1
                  /\ IF countdown = 1
                       THEN pc' = "chosen" /\ how' = "timeout" /\ has_timeout' = FALSE
                       ELSE pc' = "poll" /\ UNCHANGED <<how, has_timeout>>
             ELSE pc' = "poll" /\ UNCHANGED <<late, countdown, how, has_timeout>>
  /\ UNCHANGED <<total, curpos, is_pressed, caught>>

Up(p) == IF p = 0 THEN total - 1 ELSE p - 1
Down(p) == IF p = total - 1 THEN 0 ELSE p + 1

\* A key has been released.
Released(pressed) ==
  IF "select" \in pressed THEN pc' = "chosen" /\ how' = "select" /\ UNCHANGED curpos
  ELSE LET p == IF "up" \in pressed THEN Up(curpos) ELSE curpos
       IN  /\ curpos' = IF "down" \in pressed THEN Down(p) ELSE p
           /\ pc' = "draw" /\ UNCHANGED how

\* The loop polls the keys.  A key ends the countdown; so does leaving the menu.
Poll ==
  /\ pc = "poll"
  /\ \E keys \in KeySets :
       /\ IF is_pressed # {} /\ keys = {}
            THEN Released(is_pressed) /\ UNCHANGED is_pressed
            ELSE /\ is_pressed' = IF keys # {} THEN keys ELSE is_pressed
                 /\ pc' = "turn" /\ UNCHANGED <<curpos, how>>
       /\ IF keys # {} \/ pc' = "chosen"
            THEN has_timeout' = FALSE /\ countdown' = 0 /\ late' = FALSE
            ELSE UNCHANGED <<has_timeout, countdown, late>>
  /\ UNCHANGED <<total, caught>>

Clock ==
  /\ has_timeout /\ ~late
  /\ late' = TRUE
  /\ UNCHANGED <<pc, total, curpos, is_pressed, has_timeout, countdown, caught, how>>

\* gpiokeys_wait_select(), at first from, then select: all keys up, then SELECT
\* pressed and released.
gpiokeys_wait_select(from, select, after) ==
  \/ /\ pc = from
     /\ \/ UNCHANGED <<pc, is_pressed>>
        \/ pc' = select /\ is_pressed' \in KeySets
  \/ /\ pc = select
     /\ \E keys \in KeySets :
          /\ pc' = IF keys = {} /\ "select" \in is_pressed THEN after ELSE pc
          /\ is_pressed' = keys

MenuStep == Draw \/ Turn \/ Poll
=============================================================================
