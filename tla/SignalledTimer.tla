--------------------------- MODULE SignalledTimer ---------------------------
(***************************************************************************)
(* chapter_09/program_01 and program_03: an io_context runs the handler of *)
(* a timer, which in program_03 starts the timer again until a signal      *)
(* cancels it.                                                             *)
(*                                                                         *)
(* The io_context is external: when a wait completes, or is aborted, its   *)
(* handler joins the queue of those that run() calls one after the other,  *)
(* and cancel() reaches only waits that have not completed.                *)
(***************************************************************************)
EXTENDS Naturals, Sequences

CONSTANTS SIGNALS     \* bound: how often the user presses Ctrl+C

ASSUME SignalledTimerAssumption == SIGNALS \in Nat
-----------------------------------------------------------------------------
VARIABLES periodic,   \* program_03, otherwise program_01
          timer,      \* whether the timer is waited for
          signals,    \* whether a signal is waited for
          handlers,   \* the queue of run(): what has completed, and how
          pressed,    \* how often Ctrl+C has been pressed
          stopped     \* run() has returned

timerVars == <<periodic, timer, signals, handlers, pressed, stopped>>

(* main() until run() *)
TimerInit ==
    /\ periodic \in BOOLEAN
    /\ timer = TRUE
    /\ signals = periodic
    /\ handlers = << >>
    /\ pressed = 0
    /\ stopped = FALSE

Completed(what, ec) == [what |-> what, ec |-> ec]

Expire ==
    /\ timer
    /\ timer' = FALSE
    /\ handlers' = Append(handlers, Completed("timer", "success"))
    /\ UNCHANGED <<periodic, signals, pressed, stopped>>

(* The signal set has installed a handler: a signal that nothing waits for  *)
(* stays with the set.                                                      *)
Interrupt ==
    /\ periodic /\ ~ stopped /\ pressed < SIGNALS
    /\ pressed' = pressed + 1
    /\ signals' = FALSE
    /\ handlers' = IF signals THEN Append(handlers, Completed("signal", "success"))
                   ELSE handlers
    /\ UNCHANGED <<periodic, timer, stopped>>

(* Mutant: the handler starts the timer again whatever the error is. *)
timer_handler_always ==
    /\ handlers # << >> /\ Head(handlers).what = "timer"
    /\ timer' = periodic
    /\ handlers' = Tail(handlers)
    /\ UNCHANGED <<periodic, signals, pressed, stopped>>

(* on_timeout(), or timer_handler(): expires_after() and async_wait()       *)
timer_handler ==
    /\ handlers # << >> /\ Head(handlers).what = "timer"
    /\ timer' = (periodic /\ Head(handlers).ec = "success")
    /\ handlers' = Tail(handlers)
    /\ UNCHANGED <<periodic, signals, pressed, stopped>>

(* The handler of the signal: timer.cancel() *)
signal_handler ==
    /\ handlers # << >> /\ Head(handlers).what = "signal"
    /\ timer' = FALSE
    /\ handlers' = IF timer THEN Append(Tail(handlers), Completed("timer", "aborted"))
                   ELSE Tail(handlers)
    /\ UNCHANGED <<periodic, signals, pressed, stopped>>

RunReturns ==
    /\ ~ stopped /\ handlers = << >> /\ ~ timer /\ ~ signals
    /\ stopped' = TRUE
    /\ UNCHANGED <<periodic, timer, signals, handlers, pressed>>

RunOne == timer_handler \/ signal_handler \/ RunReturns
TimerNext == Expire \/ Interrupt \/ RunOne
-----------------------------------------------------------------------------
(* The timer has expired and its handler is in the queue already when       *)
(* cancel() is about to be called.  That handler starts the timer again,    *)
(* and no signal is waited for any more, so that nothing ends run().        *)
CancelsTooLate ==
    /\ Len(handlers) = 2
    /\ handlers[1].what = "signal" /\ handlers[2] = Completed("timer", "success")

(* run() returns when the one timer of program_01 has expired, and in       *)
(* program_03 after a signal, unless cancel() comes too late.               *)
ShutsDown ==
    []~ CancelsTooLate => ((~ periodic \/ pressed > 0) ~> stopped)
=============================================================================
