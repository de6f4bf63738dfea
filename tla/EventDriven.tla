----------------------------- MODULE EventDriven -----------------------------
(***************************************************************************)
(* The programs of chapters 8 and 9 in which one thread runs coroutines    *)
(* and handlers: `program` says which of them is run, and the variables of *)
(* the others stay as they are.                                            *)
(***************************************************************************)
EXTENDS Coroutines, SleepLoop, SignalledTimer, EchoServer

VARIABLE program

eventVars == <<program, coroutineVars, sleepVars, timerVars, echoVars>>

Init ==
    /\ program \in {"coroutine", "sleep", "timer", "echo"}
    /\ CoroutineInit /\ SleepInit /\ TimerInit /\ EchoInit
    /\ program # "coroutine" => body = "empty"
    /\ program # "sleep" => \A t \in Tasks : sleeps[t] \in {<< 2, 1 >>, << 1 >>}
    /\ program # "timer" => ~ periodic

RunCoroutine ==
    /\ program = "coroutine" /\ CoroutineNext
    /\ UNCHANGED <<program, sleepVars, timerVars, echoVars>>
RunSleep ==
    /\ program = "sleep" /\ SleepNext
    /\ UNCHANGED <<program, coroutineVars, timerVars, echoVars>>
RunTimer ==
    /\ program = "timer" /\ TimerNext
    /\ UNCHANGED <<program, coroutineVars, sleepVars, echoVars>>
RunEcho ==
    /\ program = "echo" /\ EchoNext
    /\ UNCHANGED <<program, coroutineVars, sleepVars, timerVars>>

(* main() has returned, or a failed assert() has ended the program; the     *)
(* frame of chapter_08/program_01 is left behind.                           *)
MainReturned ==
    CASE program = "coroutine" -> LeftBehind \/ frame.at \in {"destroyed", "aborted"}
      [] program = "sleep" -> returned
      [] program = "timer" -> stopped
      [] program = "echo" -> done_serving
Returned == MainReturned /\ UNCHANGED eventVars

Next == RunCoroutine \/ RunSleep \/ RunTimer \/ RunEcho \/ Returned

Spec == Init /\ [][Next]_eventVars

(* The thread that runs the loop is scheduled, time passes until a timer    *)
(* expires, and the operating system delivers what has arrived.  Signals    *)
(* and clients may never come.                                              *)
FairSpec ==
    /\ Spec
    /\ WF_sleepVars(program = "sleep" /\ SleepProgress)
    /\ WF_timerVars(program = "timer" /\ Expire)
    /\ WF_timerVars(program = "timer" /\ RunOne)
    /\ \A c \in Clients : WF_echoVars(program = "echo" /\ Serve(c))
    /\ WF_echoVars(program = "echo" /\ ServingEnds)
-----------------------------------------------------------------------------
(* No coroutine is resumed after its end or through a handle whose frame is *)
(* gone, and the parser without the input that it asserts to have only by a *)
(* get() out of turn.                                                       *)
ResumedInTime == NothingUndefined /\ HandlesValid

(* The event loop of chapter_08 and the timers of chapter_09 come to their  *)
(* end, and the server answers.                                             *)
LoopsProgress ==
    /\ program = "sleep" => <>returned
    /\ program = "timer" => ShutsDown
    /\ program = "echo" => EverythingServed
=============================================================================
