------------------------------- MODULE Event -------------------------------
(***************************************************************************)
(* Events: src/kernel/event.c.  An event with EVENT_FLAG_AUTOUNSIGNAL lets *)
(* one thread through per signal; any other stays signalled until          *)
(* event_unsignal().  As in Mutex, a destroyed event is not used until it  *)
(* is initialized again.                                                   *)
(*                                                                         *)
(* Names that end in _Faulty are variants with a bug; no action uses them. *)
(***************************************************************************)
EXTENDS Mutex

CONSTANTS
  EventTimeouts,  \* timeouts of event_wait_timeout(), in ticks, not 0
  AutoFlags       \* the values event_init() is given for the flag

ASSUME EventAssumption ==
  EventTimeouts \subseteq 1 .. MaxDelay /\ AutoFlags \subseteq BOOLEAN

VARIABLES
  signalled,      \* e->signalled
  autounsignal    \* e->flags & EVENT_FLAG_AUTOUNSIGNAL

eventVars == <<signalled, autounsignal>>

-----------------------------------------------------------------------------
event_init(e) ==
  /\ Calls("user") /\ e \in destroyed
  /\ \E initial \in BOOLEAN, flag \in AutoFlags :
       /\ signalled' = [signalled EXCEPT ![e] = initial]
       /\ autounsignal' = [autounsignal EXCEPT ![e] = flag]
  /\ wait' = [wait EXCEPT ![e] = <<>>] /\ wcount' = [wcount EXCEPT ![e] = 0]
  /\ destroyed' = destroyed \ {e}
  /\ UNCHANGED <<schedVars, callVars, blocking, block_ret, timerVars, mutexVars>>

event_destroy(e) ==
  /\ Calls("user") /\ e \in Destroyable \ destroyed
  /\ signalled' = [signalled EXCEPT ![e] = FALSE]
  /\ autounsignal' = [autounsignal EXCEPT ![e] = FALSE]
  /\ destroyed' = destroyed \cup {e}
  /\ wait_queue_wake_all_begin(e, "destroy_all")
  /\ UNCHANGED <<waitVars, timerVars, mutexVars>>

\* event_wait_timeout() on a signalled event falls through; an auto-unsignal
\* event is used up.
event_wait_through(e) ==
  /\ e \notin destroyed /\ signalled[e]
  /\ signalled' = [signalled EXCEPT ![e] = ~autounsignal[e]]
  /\ UNCHANGED <<schedVars, waitVars, timerVars, mutexVars, destroyed, autounsignal>>

\* As below, but whether the event is signalled is not looked at.
event_wait_block_Faulty(e, timeout, p) ==
  /\ e \notin destroyed
  /\ disable_ints
  /\ wait_queue_block(e, timeout)
  /\ InCall(p, e)
  /\ UNCHANGED <<idle_thread, priority, mutexVars, destroyed, eventVars>>

\* On an unsignalled one it blocks.  (A timeout of 0 returns at once.)
event_wait_block(e, timeout, p) ==
  /\ e \notin destroyed /\ ~signalled[e]
  /\ disable_ints
  /\ wait_queue_block(e, timeout)
  /\ InCall(p, e)
  /\ UNCHANGED <<idle_thread, priority, mutexVars, destroyed, eventVars>>

event_wait_return(p) ==
  /\ exit_critical_sections(2)
  /\ InCall(p, NoObject)
  /\ UNCHANGED <<current, idle_thread, state, priority, quantum, saved, run_queue,
                 run_queue_bitmap, waitVars, mutexVars, destroyed, eventVars>>

event_wait(e) ==
  /\ Calls("user")
  /\ \/ event_wait_through(e) /\ UNCHANGED callVars
     \/ event_wait_block(e, INFINITE_TIME, "event_wait")
     \/ \E timeout \in EventTimeouts :
          event_wait_block(e, timeout, "event_wait_timeout")

event_wait_returns ==
  \/ Returns("event_wait") /\ event_wait_return("user") /\ UNCHANGED timerVars
  \/ /\ Returns("event_wait_timeout")
     /\ event_wait_return("user")
     /\ timer_cancel(current)

\* event_signal() of an event that is not signalled (else it does nothing):
\* an auto-unsignal event gives the signal to one waiter, and keeps it only if
\* there is none; any other stays signalled and wakes all.
event_signal(e, reschedule) ==
  /\ Calls("user") /\ e \notin destroyed /\ ~signalled[e]
  /\ \/ /\ autounsignal[e] /\ wait[e] = <<>>
        /\ signalled' = [signalled EXCEPT ![e] = TRUE]
        /\ UNCHANGED <<schedVars, callVars, waitVars>>
     \/ /\ autounsignal[e] /\ wait[e] # <<>> /\ reschedule
        /\ disable_ints
        /\ wait_queue_wake_one_resched(e, NO_ERROR)
        /\ InCall("wake_return", NoObject)
        /\ UNCHANGED <<idle_thread, priority, signalled>>
     \/ /\ autounsignal[e] /\ wait[e] # <<>> /\ ~reschedule
        /\ MakeReady(e, Tail(wait[e]), Head(wait[e]), NO_ERROR)
        /\ UNCHANGED <<current, idle_thread, priority, quantum, saved, crit, ints,
                       callVars, signalled>>
     \/ /\ ~autounsignal[e]
        /\ signalled' = [signalled EXCEPT ![e] = TRUE]
        /\ wait_queue_wake_all_begin(
             e, IF reschedule THEN "signal_all" ELSE "signal_all_noresched")
        /\ UNCHANGED waitVars
  /\ UNCHANGED <<timerVars, mutexVars, destroyed, autounsignal>>

event_unsignal(e) ==
  /\ Calls("user") /\ e \notin destroyed
  /\ signalled' = [signalled EXCEPT ![e] = FALSE]
  /\ UNCHANGED <<schedVars, callVars, waitVars, timerVars, mutexVars, destroyed,
                 autounsignal>>

=============================================================================
