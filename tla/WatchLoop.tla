------------------------------ MODULE WatchLoop ------------------------------
(***************************************************************************)
(* otcat --watch: cliapp.Run connects once, runWatch hands                 *)
(* internal/watch/poller.go a read function and an emit function, and Run  *)
(* polls until its count is reached, an emit fails or the context of       *)
(* signal.NotifyContext is cancelled.  The read function is Driver.Read    *)
(* with one address, the same every time: one call of the Modbus client,   *)
(* and a look at how many registers came.  So this module is a caller of   *)
(* ModbusClient: every state of the client, the device and the network     *)
(* between them is here.                                                   *)
(*                                                                         *)
(* The context given to a read only sets its deadline: cancelling it does  *)
(* not end the call (client.go, do, looks at ctx.Deadline and never at     *)
(* ctx.Done).                                                              *)
(***************************************************************************)
EXTENDS ModbusClient

CONSTANTS Count,        \* --count; 0 is no limit
          Width,        \* registers per value of the --type in use: 1 or 2
          Durations,    \* how many values a time.Duration has: 2^64, in nanoseconds
          Interval,     \* --interval
          Backoffs      \* the values --max-backoff may have

(* The longest duration there is. *)
Longest == Durations \div 2 - 1

ASSUME CountAssumption == Count \in Nat /\ Width \in {1, 2}
ASSUME TimesAssumption == /\ Durations \in Nat
                          /\ Interval \in 1..Longest
                          /\ Backoffs \subseteq 1..Longest

VARIABLES maxBackoff, \* --max-backoff
          stage,      \* where Run is
          attempt,    \* consecutive failed reads
          emitted,    \* values emitted
          delay,      \* how long the sleep in progress is
          cancelled,  \* SIGINT or SIGTERM has arrived
          exit,       \* the exit code, by name, once it is decided
          faults      \* ghost: times the network or the device was late or hung up

loopVars  == <<maxBackoff, stage, attempt, emitted, delay, cancelled, exit>>
watchVars == <<vars, loopVars, faults>>

(* Signed arithmetic on durations wraps. *)
Wrap(x) == LET m == x % Durations
           IN  IF m >= Durations \div 2 THEN m - Durations ELSE m

expCeiling == 20
Exponent(a) == IF a - 1 > expCeiling THEN expCeiling ELSE a - 1

(* Mutant: a product that wraps round is taken for a small one. *)
CeilingUnguarded(a) ==
    LET upper == Wrap(Interval * 2^Exponent(a))
    IN  IF upper > maxBackoff THEN maxBackoff ELSE upper

(* fullJitterBackoff: the longest delay there may be after a failures, and *)
(* how many delays Int63n is told to choose from.  It panics unless they   *)
(* are at least one.                                                       *)
Ceiling(a) ==
    LET upper == Wrap(Interval * 2^Exponent(a))
    IN  IF upper <= 0 \/ upper > maxBackoff THEN maxBackoff ELSE upper
Choices(a) == Wrap(Ceiling(a) + 1)

WatchInit == /\ Init
             /\ maxBackoff \in Backoffs
             /\ stage = "dial"
             /\ attempt = 0
             /\ emitted = 0
             /\ delay = 0
             /\ cancelled = FALSE
             /\ exit = "none"
             /\ faults = 0

(***************************************************************************)
(* cliapp.Run: one dial, and a deferred Close.                             *)
(***************************************************************************)
Dial == /\ stage = "dial"
        /\ Connect
        /\ stage' = "check"
        /\ UNCHANGED <<maxBackoff, attempt, emitted, delay, cancelled, exit, faults>>

(* What ends the command by an error is told on standard error first. *)
Complaining(code) == /\ stage' = "report"
                     /\ exit' = code
                     /\ UNCHANGED <<vars, maxBackoff, attempt, emitted, delay, cancelled, faults>>

Return(code) == /\ stage' = "returned"
                /\ exit' = code
                /\ IF conn # 0 THEN Close ELSE UNCHANGED vars
                /\ UNCHANGED <<maxBackoff, attempt, emitted, delay, cancelled, faults>>

DialFails == stage = "dial" /\ Complaining("connection")

Report == stage = "report" /\ Return(exit)

Interrupt == /\ ~cancelled
             /\ stage # "returned"
             /\ cancelled' = TRUE
             /\ UNCHANGED <<vars, maxBackoff, stage, attempt, emitted, delay, exit, faults>>

(***************************************************************************)
(* poller.Run.  The loop looks at the context, then reads; the context may *)
(* be cancelled in between.  MaxCalls bounds the number of rounds.         *)
(***************************************************************************)
CheckContext ==
    /\ stage = "check"
    /\ \/ /\ cancelled
          /\ Return("interrupted")
       \/ /\ ~cancelled
          /\ n < MaxCalls
          /\ stage' = "call"
          /\ UNCHANGED <<vars, maxBackoff, attempt, emitted, delay, cancelled, exit, faults>>

StartRead ==
    /\ stage = "call"
    /\ RefuseCall(call) \/ SendRequest(call) \/ SendIntoClosed(call) \/ WriteError(call)
    /\ stage' = "wait"
    /\ UNCHANGED <<maxBackoff, attempt, emitted, delay, cancelled, exit, faults>>

(* The call of the client has returned. *)
ReadDone == stage = "wait" /\ pc = "idle"

(* Driver.Read looks at the count of registers only when it has them. *)
Misfit == call.fc \in RegisterReads /\ call.qty % Width # 0

ReadSucceeds ==
    /\ ReadDone
    /\ last.kind = "ok" /\ ~Misfit
    /\ attempt' = 0
    /\ stage' = "emit"
    /\ UNCHANGED <<vars, maxBackoff, emitted, delay, cancelled, exit, faults>>

ReadFails ==
    /\ ReadDone
    /\ last.kind # "ok" \/ Misfit
    /\ stage' = "complain"
    /\ UNCHANGED <<vars, maxBackoff, attempt, emitted, delay, cancelled, exit, faults>>

(* onErr has written its line. *)
Complain ==
    /\ stage = "complain"
    /\ attempt' = attempt + 1
    /\ Choices(attempt') > 0
    /\ delay' \in 0..(Choices(attempt') - 1)
    /\ stage' = "sleep"
    /\ UNCHANGED <<vars, maxBackoff, emitted, cancelled, exit, faults>>

(* The deferred Close runs, then the trace goes to standard error. *)
Panics ==
    /\ stage = "complain"
    /\ attempt' = attempt + 1
    /\ Choices(attempt') <= 0
    /\ stage' = "report"
    /\ exit' = "panic"
    /\ Close
    /\ UNCHANGED <<maxBackoff, emitted, delay, cancelled, faults>>

Emitted(enough) ==
    /\ stage = "emit"
    /\ emitted' = emitted + 1
    /\ IF enough THEN stage' = "counted" /\ UNCHANGED delay
                 ELSE stage' = "sleep" /\ delay' = Interval
    /\ UNCHANGED <<vars, maxBackoff, attempt, cancelled, exit, faults>>

(* Mutant: the count is looked at before the value is counted. *)
EmitCountsLate == Emitted(Count > 0 /\ emitted >= Count)

Emit == Emitted(Count > 0 /\ emitted + 1 >= Count)

CountReached == stage = "counted" /\ Return("ok")

EmitFails == stage = "emit" /\ Complaining("io")

(* Mutant: the loop goes straight back to reading after a sleep. *)
WakeUnchecked ==
    /\ stage = "sleep"
    /\ n < MaxCalls
    /\ stage' = "call"
    /\ UNCHANGED <<vars, maxBackoff, attempt, emitted, delay, cancelled, exit, faults>>

(* The timer fires.  When both the timer and the context are ready, select *)
(* picks either; a sleep of no length only looks at the context.           *)
Wake ==
    /\ stage = "sleep"
    /\ delay > 0 \/ ~cancelled
    /\ stage' = "check"
    /\ UNCHANGED <<vars, maxBackoff, attempt, emitted, delay, cancelled, exit, faults>>

SleepInterrupted ==
    /\ stage = "sleep"
    /\ cancelled
    /\ Return("interrupted")

(***************************************************************************)
(* The client's call, the device and the network go on underneath.         *)
(***************************************************************************)
Late     == Timeout /\ faults' = faults + 1 /\ UNCHANGED loopVars
HangUp(k) == Drop(k) /\ faults' = faults + 1 /\ UNCHANGED loopVars
Progress == /\ \/ ReadHeader
               \/ ReadPDU
               \/ ReadEOF
               \/ \E k \in Conns : Serve(k) \/ RequestLost(k) \/ AnswerLost(k)
            /\ UNCHANGED <<loopVars, faults>>

(* The process runs: what it can do next it does, as long as whoever reads *)
(* its output does read it.  Deadlines and timers pass.                    *)
Step == \/ Dial
        \/ DialFails
        \/ CheckContext
        \/ StartRead
        \/ ReadSucceeds
        \/ ReadFails
        \/ Complain
        \/ Panics
        \/ Emit
        \/ EmitFails
        \/ CountReached
        \/ Report
        \/ Wake
        \/ SleepInterrupted

WatchNext == \/ Step
             \/ Interrupt
             \/ Late
             \/ Progress
             \/ \E k \in Conns : HangUp(k)

WatchSpec == WatchInit /\ [][WatchNext]_watchVars

FairWatchSpec == WatchSpec /\ WF_watchVars(Step) /\ WF_watchVars(Late)

-----------------------------------------------------------------------------
(***************************************************************************)
(* Properties.                                                             *)
(***************************************************************************)

(* No delay after a failure is longer than docs/backoff.md:26 says, though *)
(* the product it is drawn from wraps and its exponent is clamped: at most *)
(* max_backoff, and at most base * 2^(attempt-1) (poller.go,               *)
(* fullJitterBackoff).  Int63n panics when max_backoff is the longest      *)
(* duration there is and that product reaches it, and only then.           *)
BackoffInBounds ==
    LET product == Interval * 2^Exponent(attempt)
    IN  /\ stage = "sleep" /\ attempt > 0 => delay <= maxBackoff /\ delay <= product
        /\ exit = "panic" => maxBackoff = Longest /\ product >= Longest

(* What is emitted is what the device answered to the read just made,      *)
(* although the loop keeps its connection when reads fail and reads on     *)
(* from where a failed one stopped: a stale or misread value never reaches *)
(* the output (poller.go:47-62 over client.go, do).                        *)
EmitsOwnAnswer ==
    stage = "emit" =>
        /\ last.n = n
        /\ answer # <<>>
        /\ Interpret(call, answer) = Outcome("ok", last.vals)

(* A run with a count that ends by itself has emitted exactly that many    *)
(* values, one per read, and no run emits more (poller.go:60-66).          *)
CountExact == /\ exit = "ok" => Count > 0 /\ emitted = Count
              /\ Count > 0 => emitted <= Count
              /\ emitted <= n

(* An interrupt ends the run, however the device behaves (poller.go, Run,  *)
(* and the deadline every read has).                                       *)
InterruptReturns == cancelled ~> (stage = "returned")

(* To whoever started it the command is a WatchProcess: whatever it was     *)
(* doing when it was told to stop, at most the reading it had begun goes on *)
(* and at most its value is emitted; no value without a reading, the count  *)
(* exact, errors told before the exit (poller.go:43, 60-66, 68, 74-86, with *)
(* runWatch around it).                                                    *)
PhaseOf == CASE stage = "dial" -> "connecting"
             [] stage \in {"check", "sleep"} -> "deciding"
             [] stage \in {"call", "wait"} -> "reading"
             [] stage = "emit" -> "value"
             [] stage = "complain" -> "error"
             [] stage = "counted" -> "finished"
             [] stage = "report" -> "lastword"
             [] stage = "returned" -> "exited"

Process == INSTANCE WatchProcess WITH
             Limits <- {Count}, limit <- Count, phase <- PhaseOf,
             emitted <- emitted, told <- cancelled, exit <- exit

IsWatchProcess == Process!Spec

(* docs/backoff.md:54-55: "a single transient failure costs at most one    *)
(* Uniform(0, --interval) delay before returning to steady-state polling": *)
(* as many delays in a row as there were failures of the network, at most. *)
OneRetryPerFailure == attempt <= faults
=============================================================================
