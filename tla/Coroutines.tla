----------------------------- MODULE Coroutines -----------------------------
(***************************************************************************)
(* The coroutines of chapter 8 that an object hides behind put(), get(),   *)
(* next() and value().  The calls come in every order, within two limits   *)
(* that the programs keep: the parser is put only the characters of        *)
(* numbers that `#` ends (PutNext), though get() comes at any moment, and  *)
(* a value is read only where there is one (Readable).                     *)
(*                                                                         *)
(* A frame records where its coroutine is suspended, the data of the       *)
(* promise and the local variables.  A resume() runs on the caller's       *)
(* thread to the next suspension and is one step.  Two more places stand   *)
(* for what must not happen: "undefined", a frame resumed although it is   *)
(* finished or destroyed, and "aborted", a failed assert().                *)
(***************************************************************************)
EXTENDS Integers, Sequences, FiniteSets

CONSTANTS Bodies,      \* the coroutines to run
          MODULUS,     \* of program_04: 1000000007
          LIMIT,       \* of fibonacci_generator(limit): 10
          MAX_CALLS    \* bound: calls made of one object

AllBodies == {"empty", "hello", "echo_input", "fibonacci", "fibonacci_endless",
              "fibonacci_limited", "numbers", "parse_string"}

ASSUME CoroutinesAssumption ==
    /\ Bodies \subseteq AllBodies
    /\ MODULUS \in Nat \ {0, 1} /\ LIMIT \in Nat /\ MAX_CALLS \in Nat
-----------------------------------------------------------------------------
(* Characters, and an optional one. *)
Digits == << "0", "1", "2", "3", "4", "5", "6", "7", "8", "9" >>
isdigit(c) == \E d \in 1 .. 10 : Digits[d] = c
digit(c) == (CHOOSE d \in 1 .. 10 : Digits[d] = c) - 1
nullopt == ""

Suspend(f, place) == [f EXCEPT !.at = place]
ReturnVoid(f) == Suspend(f, "final")
Yield(f, v) == [f EXCEPT !.at = "yield", !.output = v]

(* program_06: the first character of a number is taken from the promise;   *)
(* any that cannot start one is skipped.                                    *)
(* Mutant: the sign is declared outside the loop.                           *)
FirstCharacterKeepsSign(f, c) ==
    LET g == [f EXCEPT !.input = nullopt] IN
    IF ~ isdigit(c) /\ c \notin {"-", "+"} THEN Suspend(g, "first")
    ELSE [g EXCEPT !.at = "more",
                   !.sign = IF c = "-" THEN -1 ELSE @,
                   !.number = IF isdigit(c) THEN digit(c) ELSE 0]

FirstCharacter(f, c) ==
    LET g == [f EXCEPT !.input = nullopt] IN
    IF ~ isdigit(c) /\ c \notin {"-", "+"} THEN Suspend(g, "first")
    ELSE [g EXCEPT !.at = "more",
                   !.sign = IF c = "-" THEN -1 ELSE 1,
                   !.number = IF isdigit(c) THEN digit(c) ELSE 0]

(* and the following ones, up to one that is no digit.                      *)
NextCharacter(f, c) ==
    LET g == [f EXCEPT !.input = nullopt] IN
    IF isdigit(c) THEN [g EXCEPT !.number = 10 * @ + digit(c)]
    ELSE Yield(g, g.number * g.sign)

ResumeParser(f) ==
    CASE f.at \in {"initial", "yield"} /\ f.input = nullopt -> Suspend(f, "first")
      [] f.at \in {"first", "more"} /\ f.input = nullopt -> Suspend(f, "aborted")
      [] f.at = "more" /\ f.input # nullopt -> NextCharacter(f, f.input)
      [] OTHER -> FirstCharacter(f, f.input)

(* program_04 and program_05: a is yielded, and at the next resumption the  *)
(* sum c takes b's place and b that of a.                                   *)
ResumeFibonacci(f, c) ==
    IF f.at = "initial" THEN Yield(f, f.a)
    ELSE [Yield(f, f.b) EXCEPT !.a = f.b, !.b = c]

ResumeLimited(f) ==
    IF f.left = 0 THEN ReturnVoid(f)
    ELSE [ResumeFibonacci(f, f.a + f.b) EXCEPT !.left = f.left - 1]

(* program_07 *)
ResumeNumbers(f) ==
    IF f.number = 5 THEN ReturnVoid(f)
    ELSE [Yield(f, f.number) EXCEPT !.number = f.number + 1]

(* program_02 and program_03: co_yield and co_return; an awaiter that is    *)
(* always ready, whose await_resume() moves the string out of the promise.  *)
ResumeHello(f) == IF f.at = "initial" THEN Yield(f, "Hello") ELSE ReturnVoid(f)
ResumeEcho(f) == ReturnVoid([f EXCEPT !.input = nullopt])

(* handle.resume() *)
Resume(routine, f) ==
    CASE f.at \in {"final", "destroyed"} -> Suspend(f, "undefined")
      [] f.at \in {"undefined", "aborted"} -> f
      [] OTHER ->
           CASE routine = "parse_string" -> ResumeParser(f)
             [] routine = "fibonacci" -> ResumeFibonacci(f, (f.a + f.b) % MODULUS)
             [] routine = "fibonacci_endless" -> ResumeFibonacci(f, f.a + f.b)
             [] routine = "fibonacci_limited" -> ResumeLimited(f)
             [] routine = "numbers" -> ResumeNumbers(f)
             [] routine = "hello" -> ResumeHello(f)
             [] routine = "echo_input" -> ResumeEcho(f)
             [] OTHER -> ReturnVoid(f)

done(f) == f.at = "final"

(* Mutant: done() is not asked. *)
ResumeAlways(routine, f) == Resume(routine, f)
ResumeUnlessDone(routine, f) == IF done(f) THEN f ELSE Resume(routine, f)
-----------------------------------------------------------------------------
VARIABLES body,    \* the coroutine that this main has started
          frame,   \* its frame
          calls    \* the calls made of the object, and what they gave

coroutineVars == <<body, frame, calls>>

strings == {"hello", "echo_input"}

CoroutineInit ==
    /\ body \in Bodies
    /\ frame = [at |-> "initial", input |-> nullopt,
                output |-> IF body \in strings THEN "" ELSE 0,
                sign |-> 1, number |-> 0, a |-> 0, b |-> 1, left |-> LIMIT]
    /\ calls = << >>

InUse == frame.at \notin {"destroyed", "aborted", "undefined"}

(* One more call, with what it has returned or made the coroutine print.    *)
Called(op, argument, result) ==
    /\ InUse /\ Len(calls) < MAX_CALLS
    /\ calls' = Append(calls, [op |-> op, argument |-> argument, result |-> result])
    /\ UNCHANGED body

(* async_parse::put(), and that of program_03, whose coroutine prints the   *)
(* input and ends.                                                          *)
Put(c) ==
    /\ frame' = ResumeUnlessDone(body, [frame EXCEPT !.input = c])
    /\ Called("put", c, IF body = "echo_input" /\ ~ done(frame) THEN c ELSE nullopt)

(* get() of program_02 moves the string out of the promise.                 *)
GetString ==
    /\ body = "hello"
    /\ LET f == ResumeUnlessDone(body, frame) IN
       /\ frame' = [f EXCEPT !.output = ""]
       /\ Called("get", nullopt, f.output)

(* async_parse::get(), which gives nothing when the assert() that it leads  *)
(* to ends the program.                                                     *)
GetNumber ==
    /\ body = "parse_string"
    /\ frame' = ResumeUnlessDone(body, frame)
    /\ Called("get", nullopt, IF frame'.at = "aborted" THEN nullopt ELSE frame'.output)

(* next() or ++ of an iterator or begin() *)
generators == {"fibonacci", "fibonacci_endless", "fibonacci_limited", "numbers"}

next ==
    /\ body \in generators
    /\ frame' = ResumeUnlessDone(body, frame)
    /\ Called("next", nullopt, ~ done(frame'))

HowMany(op, s) == Cardinality({i \in DOMAIN s : s[i].op = op})

(* value(), or * of an iterator.  The value of program_07's promise is not  *)
(* initialised, and an iterator of program_05 is read only while there is a *)
(* number.                                                                  *)
Readable ==
    CASE body = "fibonacci" -> TRUE
      [] body = "numbers" -> HowMany("next", calls) > 0
      [] OTHER -> frame.at = "yield"

value ==
    /\ body \in generators /\ Readable
    /\ Called("value", nullopt, frame.output)
    /\ UNCHANGED frame

(* main() of program_06 puts the characters of numbers that `#` ends, which *)
(* anything but a sign or a digit may precede, and nothing between a `#`    *)
(* and the get() that follows it.                                           *)
MaxOf(S) == CHOOSE x \in S : \A y \in S : y <= x
Piece(s) ==
    LET gets == {i \in DOMAIN s : s[i].op = "get"} IN
    SubSeq(s, IF gets = {} THEN 1 ELSE MaxOf(gets) + 1, Len(s))
Ended(piece) == piece # << >> /\ piece[Len(piece)].argument = "#"
Started(piece) == \E i \in DOMAIN piece : piece[i].argument # "x"

PutNext ==
    LET piece == Piece(calls) IN
    \/ /\ body = "parse_string" /\ ~ Ended(piece)
       /\ \E c \in {"-", "+", "1", "2", "x", "#"} :
            /\ c \in {"-", "+", "x"} => ~ Started(piece)
            /\ c = "#" => Started(piece)
            /\ Put(c)
    \/ body = "echo_input" /\ \E c \in {"x", "y"} : Put(c)

(* The return object of program_01 knows no handle: the coroutine is never  *)
(* resumed and its frame never destroyed.                                   *)
LeftBehind == body = "empty"

(* The destructor of the object, at the end of main(). *)
Destroy ==
    /\ InUse /\ ~ LeftBehind
    /\ frame' = Suspend(frame, "destroyed")
    /\ UNCHANGED <<body, calls>>

CoroutineNext == PutNext \/ GetNumber \/ GetString \/ next \/ value \/ Destroy
-----------------------------------------------------------------------------
(* What the calls promise. *)
Fib[k \in Nat] == IF k < 2 THEN k ELSE Fib[k - 1] + Fib[k - 2]

(* The function of program_06 that parses a whole string.                   *)
parse_string(str) ==
    LET num[i \in 0 .. Len(str)] ==
          IF i = 0 THEN 0
          ELSE IF isdigit(str[i].argument) THEN 10 * num[i - 1] + digit(str[i].argument)
          ELSE num[i - 1]
    IN  IF \E i \in DOMAIN str : str[i].argument = "-" THEN - num[Len(str)]
        ELSE num[Len(str)]

(* A get() that no `#` precedes resumes the parser where it waits for a     *)
(* character; only the first call of all finds it before that.              *)
OutOfTurn(earlier) == earlier # << >> /\ ~ Ended(Piece(earlier))

Promised(earlier, call) ==
    LET k == HowMany("next", earlier) IN
    CASE call.op = "value" ->
           (CASE body = "numbers" -> (IF k < 5 THEN k ELSE 5) - 1
              [] body = "fibonacci" -> (IF k = 0 THEN 0 ELSE Fib[k - 1] % MODULUS)
              [] OTHER -> Fib[k - 1])
      [] call.op = "next" ->
           (CASE body = "numbers" -> k < 5
              [] body = "fibonacci_limited" -> k < LIMIT
              [] OTHER -> TRUE)
      [] call.op = "get" ->
           IF body = "parse_string"
           THEN IF OutOfTurn(earlier) THEN nullopt ELSE parse_string(Piece(earlier))
           ELSE IF HowMany("get", earlier) = 0 THEN "Hello" ELSE ""
      [] call.op = "put" ->
           IF body = "echo_input" /\ earlier = << >> THEN call.argument ELSE nullopt

(* The numbers that the generators give, at whatever moments next() and     *)
(* value() are called, are the terms of their sequences, each put() is met  *)
(* by the co_await that it is for, and the number that get() returns is the *)
(* one that the function parse_string() finds in the characters put since   *)
(* the last one; a get() out of turn returns nothing.                       *)
AnswersAsPromised ==
    \A i \in DOMAIN calls :
      calls[i].result = Promised(SubSeq(calls, 1, i - 1), calls[i])

(* No frame is resumed after its end, and the assert() that a co_await of   *)
(* program_06 goes on with a character fails for a get() out of turn, and   *)
(* for nothing else.                                                        *)
AskedOutOfTurn ==
    /\ body = "parse_string"
    /\ \E i \in DOMAIN calls : calls[i].op = "get" /\ OutOfTurn(SubSeq(calls, 1, i - 1))
NothingUndefined ==
    /\ frame.at # "undefined"
    /\ frame.at = "aborted" <=> AskedOutOfTurn
=============================================================================
