----------------------------- MODULE EchoServer -----------------------------
(***************************************************************************)
(* chapter_09/program_19: a listener coroutine accepts connections, and a  *)
(* session coroutine echoes what its client sends until it reads QUIT.     *)
(*                                                                         *)
(* Sockets and the io_context are external.  What a client sends is a      *)
(* stream without message boundaries, so that QUIT may arrive in two parts *)
(* or together with other text.  Each resumption of a coroutine is a step. *)
(***************************************************************************)
EXTENDS Naturals, Sequences, FiniteSets

CONSTANTS Clients,
          MAX_SENT     \* bound: parts that each client sends

ASSUME EchoServerAssumption == MAX_SENT \in [Clients -> Nat]

Parts == {"QU", "IT", "nl"}
-----------------------------------------------------------------------------
VARIABLES listening,   \* the listener has not ended
          session,     \* where the coroutine of each client is
          sent,        \* what each client has sent,
          consumed,    \* how many parts of it have been read,
          closed,      \* whether it has closed the connection,
          received,    \* and what it has received
          data,        \* the buffer of each session
          done_serving \* run() has returned

echoVars == <<listening, session, sent, consumed, closed, received, data, done_serving>>

EchoInit ==
    /\ listening = TRUE
    /\ session = [c \in Clients |-> "none"]
    /\ sent = [c \in Clients |-> << >>]
    /\ consumed = [c \in Clients |-> 0]
    /\ closed = [c \in Clients |-> FALSE]
    /\ received = [c \in Clients |-> << >>]
    /\ data = [c \in Clients |-> << >>]
    /\ done_serving = FALSE

MoveTo(c, place) == session' = [session EXCEPT ![c] = place]

(* Mutant: the array is static, as one that was meant not to live in the frame. *)
StaticBuffer(c) == CHOOSE d \in Clients : TRUE

(* The array of the coroutine's frame. *)
Buffer(c) == c

Connect(c) ==
    /\ ~ done_serving /\ listening /\ session[c] = "none"
    /\ MoveTo(c, "connecting")
    /\ UNCHANGED <<listening, sent, consumed, closed, received, data, done_serving>>

Send(c, part) ==
    /\ session[c] \notin {"none", "ended"} /\ ~ closed[c] /\ Len(sent[c]) < MAX_SENT[c]
    /\ sent' = [sent EXCEPT ![c] = Append(@, part)]
    /\ UNCHANGED <<listening, session, consumed, closed, received, data, done_serving>>

Close(c) ==
    /\ session[c] # "none" /\ ~ closed[c]
    /\ closed' = [closed EXCEPT ![c] = TRUE]
    /\ UNCHANGED <<listening, session, sent, consumed, received, data, done_serving>>

(* listener(): async_accept(), co_spawn() of echo() and the next accept. *)
Accept(c) ==
    /\ listening /\ session[c] = "connecting"
    /\ MoveTo(c, "reading")
    /\ UNCHANGED <<listening, sent, consumed, closed, received, data, done_serving>>

(* The acceptor cannot be opened, or async_accept() throws: the exception   *)
(* leaves a detached coroutine, which ends it and nothing else.             *)
ListenerFails ==
    /\ listening
    /\ listening' = FALSE
    /\ session' = [c \in Clients |-> IF session[c] = "connecting" THEN "ended"
                                     ELSE session[c]]
    /\ UNCHANGED <<sent, consumed, closed, received, data, done_serving>>

(* str, with the end of line removed *)
Stripped(chunk) ==
    IF chunk # << >> /\ chunk[Len(chunk)] = "nl" THEN SubSeq(chunk, 1, Len(chunk) - 1)
    ELSE chunk

(* async_read_some() gives some of what has arrived, and echo() starts to   *)
(* write the answer.                                                        *)
Read(c) ==
    /\ session[c] = "reading"
    /\ \E k \in consumed[c] + 1 .. Len(sent[c]) :
         LET chunk == SubSeq(sent[c], consumed[c] + 1, k) IN
         /\ consumed' = [consumed EXCEPT ![c] = k]
         /\ data' = [data EXCEPT ![Buffer(c)] = chunk]
         /\ MoveTo(c, IF Stripped(chunk) = << "QU", "IT" >> THEN "leaving" ELSE "writing")
    /\ UNCHANGED <<listening, sent, closed, received, done_serving>>

(* At the end of the stream it throws: the branch for 0 bytes is not taken. *)
ReadEnd(c) ==
    /\ session[c] = "reading" /\ closed[c] /\ consumed[c] = Len(sent[c])
    /\ MoveTo(c, "ended")
    /\ UNCHANGED <<listening, sent, consumed, closed, received, data, done_serving>>

(* async_write() completes *)
Written(c) ==
    /\ \/ /\ session[c] = "writing"
          /\ received' = [received EXCEPT ![c] = @ \o data[Buffer(c)]]
          /\ MoveTo(c, "reading")
       \/ /\ session[c] = "leaving"
          /\ received' = [received EXCEPT ![c] = Append(@, "Good bye!")]
          /\ MoveTo(c, "ended")
    /\ UNCHANGED <<listening, sent, consumed, closed, data, done_serving>>

(* or throws, the peer being gone *)
WriteFails(c) ==
    /\ session[c] \in {"writing", "leaving"} /\ closed[c]
    /\ MoveTo(c, "ended")
    /\ UNCHANGED <<listening, sent, consumed, closed, received, data, done_serving>>

(* No coroutine is left. *)
ServingEnds ==
    /\ ~ done_serving /\ ~ listening
    /\ \A c \in Clients : session[c] \in {"none", "ended"}
    /\ done_serving' = TRUE
    /\ UNCHANGED <<listening, session, sent, consumed, closed, received, data>>

Serve(c) == Accept(c) \/ Read(c) \/ ReadEnd(c) \/ Written(c) \/ WriteFails(c)

EchoNext ==
    \/ \E c \in Clients : Connect(c) \/ Close(c) \/ Serve(c) \/ \E p \in Parts : Send(c, p)
    \/ ListenerFails \/ ServingEnds
-----------------------------------------------------------------------------
(* A client receives what it has sent, all that was read of it while its    *)
(* session waits for more, and at most a QUIT is answered otherwise: by     *)
(* the last thing that it receives.  A session does not end before its      *)
(* client has received the farewell or closed, if it was accepted.          *)
Farewell(c) == received[c] # << >> /\ received[c][Len(received[c])] = "Good bye!"
EchoesInOrder ==
    \A c \in Clients :
      LET echoed == IF Farewell(c) THEN Len(received[c]) - 1 ELSE Len(received[c]) IN
      /\ echoed <= consumed[c] /\ SubSeq(received[c], 1, echoed) = SubSeq(sent[c], 1, echoed)
      /\ session[c] = "reading" => echoed = consumed[c]
      /\ Farewell(c) => Stripped(SubSeq(sent[c], echoed + 1, consumed[c])) = << "QU", "IT" >>
      /\ session[c] = "ended" /\ consumed[c] > 0 => Farewell(c) \/ closed[c]

(* Whatever a client sends is read, unless its session ends; and when the   *)
(* listener has failed and the clients have closed, run() returns.          *)
EverythingServed ==
    /\ \A c \in Clients :
         consumed[c] < Len(sent[c]) ~> (consumed[c] = Len(sent[c]) \/ session[c] = "ended")
    /\ (~ listening /\ \A c \in Clients : closed[c] \/ session[c] = "none") ~> done_serving
=============================================================================
