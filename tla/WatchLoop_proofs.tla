--------------------------- MODULE WatchLoop_proofs ---------------------------
(***************************************************************************)
(* Proofs about WatchLoop, for every count, interval and back-off, over    *)
(* every device, table and network ModbusClient has.                       *)
(***************************************************************************)
EXTENDS WatchLoop, ModbusClient_proofs

(***************************************************************************)
(* The loop is a caller of the client: everything proved about the client  *)
(* holds under it.                                                         *)
(***************************************************************************)
LEMMA CallStays == WatchSpec => [](call \in Calls)
  <1>1. WatchInit => call \in Calls
    BY DEF WatchInit, Init
  <1>2. call \in Calls /\ [WatchNext]_watchVars => (call \in Calls)'
    <2> SUFFICES ASSUME call \in Calls, [WatchNext]_watchVars PROVE (call \in Calls)'
      OBVIOUS
    <2>1. call' = call
      <3>1. CASE UNCHANGED watchVars
        BY <3>1 DEF watchVars, vars
      <3>2. CASE StartRead
        BY <3>2 DEF StartRead, RefuseCall, SendRequest, SendIntoClosed, WriteError, CanSend,
                    Begin
      <3>3. CASE Step /\ ~StartRead
        BY <3>3 DEF Step, Dial, DialFails, CheckContext, ReadSucceeds, ReadFails, Complain,
                    Panics, Emit, Emitted, EmitFails, CountReached, Report, Wake,
                    SleepInterrupted, Return, Complaining, Connect, Close, vars
      <3>4. CASE Interrupt
        BY <3>4 DEF Interrupt, vars
      <3>5. CASE Late
        BY <3>5 DEF Late, Timeout, Finish
      <3>6. CASE Progress
        <4>1. CASE ReadHeader \/ ReadPDU \/ ReadEOF
          BY <4>1 DEF ReadHeader, ReadPDU, ReadEOF, Finish
        <4>2. ASSUME NEW k \in Conns, Serve(k) \/ RequestLost(k) \/ AnswerLost(k)
              PROVE  call' = call
          BY <4>2 DEF Serve, RequestLost, AnswerLost, Unanswered, clientVars
        <4> QED BY <3>6, <4>1, <4>2 DEF Progress
      <3>7. ASSUME NEW k \in Conns, HangUp(k)
            PROVE  call' = call
        BY <3>7 DEF HangUp, Drop, clientVars
      <3> QED BY <3>1, <3>2, <3>3, <3>4, <3>5, <3>6, <3>7 DEF WatchNext
    <2> QED BY <2>1
  <1> QED BY <1>1, <1>2, PTL DEF WatchSpec

LEMMA StepCalls ==
    ASSUME call \in Calls, [WatchNext]_watchVars
    PROVE  [Next]_vars
  <1>1. CASE UNCHANGED watchVars
    BY <1>1 DEF watchVars
  <1>2. CASE StartRead
    BY <1>2 DEF StartRead, Next
  <1>3. CASE Step /\ ~StartRead
    BY <1>3 DEF Step, Dial, DialFails, CheckContext, ReadSucceeds, ReadFails, Complain, Panics,
                Emit, Emitted, EmitFails, CountReached, Report, Wake, SleepInterrupted,
                Return, Complaining, Next
  <1>4. CASE Interrupt
    BY <1>4 DEF Interrupt
  <1>5. CASE Late \/ Progress \/ \E k \in Conns : HangUp(k)
    BY <1>5 DEF Late, Progress, HangUp, Next
  <1> QED BY <1>1, <1>2, <1>3, <1>4, <1>5 DEF WatchNext

(* The loop is a caller of the client that ModbusClient describes, so what *)
(* is proved of the client holds of it (poller.go, Run over client.go, do).*)
THEOREM LoopCallsClient == WatchSpec => Spec
  <1>1. WatchInit => Init
    BY DEF WatchInit
  <1> QED BY <1>1, CallStays, StepCalls, PTL DEF WatchSpec, Spec

(***************************************************************************)
(* The delays.                                                             *)
(***************************************************************************)
LEMMA SmallPowers == \A k \in 0..20 : 2^k \in Nat \ {0}
  <1> SUFFICES ASSUME NEW k \in 0..20 PROVE 2^k \in Nat \ {0}
    OBVIOUS
  <1>1. /\ 2^0 = 1 /\ 2^1 = 2 /\ 2^2 = 4 /\ 2^3 = 8 /\ 2^4 = 16 /\ 2^5 = 32
        /\ 2^6 = 64 /\ 2^7 = 128 /\ 2^8 = 256 /\ 2^9 = 512 /\ 2^10 = 1024 /\ 2^11 = 2048
        /\ 2^12 = 4096 /\ 2^13 = 8192 /\ 2^14 = 16384 /\ 2^15 = 32768 /\ 2^16 = 65536 /\ 2^17 = 131072
        /\ 2^18 = 262144 /\ 2^19 = 524288 /\ 2^20 = 1048576
    OBVIOUS
  <1>2. CASE k = 0
    BY <1>1, <1>2
  <1>3. CASE k = 1
    BY <1>1, <1>3
  <1>4. CASE k = 2
    BY <1>1, <1>4
  <1>5. CASE k = 3
    BY <1>1, <1>5
  <1>6. CASE k = 4
    BY <1>1, <1>6
  <1>7. CASE k = 5
    BY <1>1, <1>7
  <1>8. CASE k = 6
    BY <1>1, <1>8
  <1>9. CASE k = 7
    BY <1>1, <1>9
  <1>10. CASE k = 8
    BY <1>1, <1>10
  <1>11. CASE k = 9
    BY <1>1, <1>11
  <1>12. CASE k = 10
    BY <1>1, <1>12
  <1>13. CASE k = 11
    BY <1>1, <1>13
  <1>14. CASE k = 12
    BY <1>1, <1>14
  <1>15. CASE k = 13
    BY <1>1, <1>15
  <1>16. CASE k = 14
    BY <1>1, <1>16
  <1>17. CASE k = 15
    BY <1>1, <1>17
  <1>18. CASE k = 16
    BY <1>1, <1>18
  <1>19. CASE k = 17
    BY <1>1, <1>19
  <1>20. CASE k = 18
    BY <1>1, <1>20
  <1>21. CASE k = 19
    BY <1>1, <1>21
  <1>22. CASE k = 20
    BY <1>1, <1>22
  <1> QED BY <1>2, <1>3, <1>4, <1>5, <1>6, <1>7, <1>8, <1>9, <1>10, <1>11, <1>12,
             <1>13, <1>14, <1>15, <1>16, <1>17, <1>18, <1>19, <1>20, <1>21, <1>22

LEMMA WrapFacts ==
    ASSUME NEW x \in Nat
    PROVE  /\ Wrap(x) \in Int /\ Wrap(x) <= x
           /\ x <= Longest => Wrap(x) = x
  <1>1. Durations \in Nat /\ 2 <= Durations
    BY TimesAssumption DEF Longest
  <1>2. PICK m \in Int : m = x % Durations
    BY <1>1
  <1>3. 0 <= m /\ m < Durations
    BY <1>1, <1>2
  <1>4. x < Durations => m = x
    BY <1>1, <1>2
  <1>5. PICK half \in Nat : half = Durations \div 2 /\ half <= Durations
    BY <1>1
  <1>6. Wrap(x) = IF m >= half THEN m - Durations ELSE m
    BY <1>2, <1>5 DEF Wrap
  <1>7. Longest = half - 1
    BY <1>5 DEF Longest
  <1> QED BY <1>1, <1>3, <1>4, <1>5, <1>6, <1>7

(* A product that wraps round to nothing or below is replaced by the       *)
(* ceiling, as one that is larger than the ceiling is; one that wraps      *)
(* further is smaller than what it should be.                              *)
LEMMA CeilingInRange ==
    ASSUME NEW a \in Nat \ {0}, maxBackoff \in Backoffs
    PROVE  /\ Interval * 2^Exponent(a) \in Nat
           /\ Ceiling(a) \in 1..maxBackoff
           /\ Ceiling(a) <= Interval * 2^Exponent(a)
  <1>1. Exponent(a) \in 0..20
    BY DEF expCeiling, Exponent
  <1>2. PICK p \in Nat \ {0} : p = 2^Exponent(a)
    BY <1>1, SmallPowers
  <1>3. /\ Interval \in Nat \ {0} /\ maxBackoff \in Nat \ {0} /\ maxBackoff <= Longest
        /\ Longest \in Nat
    BY TimesAssumption DEF Longest
  <1>4. PICK x \in Nat \ {0} : x = Interval * p
    BY <1>2, <1>3
  <1>5. PICK upper \in Int : upper = Wrap(x)
    BY <1>4, WrapFacts
  <1>6. upper <= x /\ (x <= Longest => upper = x)
    BY <1>4, <1>5, WrapFacts
  <1>7. Ceiling(a) = IF upper <= 0 \/ upper > maxBackoff THEN maxBackoff ELSE upper
    BY <1>2, <1>4, <1>5 DEF Ceiling
  <1>8. Ceiling(a) \in 1..maxBackoff /\ Ceiling(a) <= x
    BY <1>3, <1>4, <1>5, <1>6, <1>7
  <1> QED BY <1>2, <1>4, <1>8

(* What Int63n is told to choose from.  One more than the longest duration *)
(* is the shortest.                                                        *)
LEMMA ChoicesInRange ==
    ASSUME NEW a \in Nat \ {0}, maxBackoff \in Backoffs
    PROVE  /\ Choices(a) \in Int
           /\ Choices(a) - 1 <= Ceiling(a)
           /\ Choices(a) <= 0 => Ceiling(a) = Longest
  <1>1. PICK c \in Nat : c = Ceiling(a) /\ c <= maxBackoff
    <2>1. Ceiling(a) \in 1..maxBackoff /\ maxBackoff \in Nat
      BY CeilingInRange, TimesAssumption DEF Longest
    <2> QED BY <2>1
  <1>2. Longest \in Nat /\ maxBackoff <= Longest /\ maxBackoff \in Nat
    BY TimesAssumption DEF Longest
  <1>3. PICK w \in Int : w = Choices(a) /\ w <= c + 1 /\ (c + 1 <= Longest => w = c + 1)
    <2>1. c + 1 \in Nat
      BY <1>1
    <2> QED BY <1>1, <2>1, WrapFacts DEF Choices
  <1> QED BY <1>1, <1>2, <1>3

(***************************************************************************)
(* The invariant of the loop itself.                                       *)
(***************************************************************************)
LoopTypeOK ==
    /\ stage \in {"dial", "check", "call", "wait", "complain", "emit", "counted", "sleep",
                 "report", "returned"}
    /\ maxBackoff \in Backoffs
    /\ attempt \in Nat /\ emitted \in Nat /\ delay \in Nat
    /\ cancelled \in BOOLEAN
    /\ exit \in {"none", "ok", "interrupted", "io", "connection", "panic"}
    /\ faults \in Nat

(* Each round is one call: a value and a failure are counted once each, at *)
(* its end.                                                                *)
OneCallPerRound ==
    /\ pc # "idle" => stage = "wait"
    /\ attempt <= n /\ emitted <= n
    /\ stage \in {"wait", "emit", "complain"} => attempt < n /\ emitted < n
    /\ stage \in {"wait", "emit", "complain"} /\ pc = "idle" => last.n = n
    /\ stage = "emit" => last.kind = "ok"

(* The count is not reached before the loop has seen that it is. *)
BelowCount ==
    /\ Count > 0 /\ stage \in {"dial", "check", "call", "wait", "complain", "emit", "sleep"} =>
         emitted < Count
    /\ Count > 0 => emitted <= Count
    /\ stage = "counted" \/ exit = "ok" => Count > 0 /\ emitted = Count
    /\ exit = "ok" => stage = "returned"

(* Where the failures and the exit code matter. *)
Standing ==
    /\ stage \in {"emit", "counted"} => attempt = 0
    /\ exit = "panic" => stage \in {"report", "returned"}

LoopIInv == LoopTypeOK /\ OneCallPerRound /\ BelowCount /\ Standing /\ BackoffInBounds

LEMMA LoopInit == WatchInit => LoopIInv
  <1> SUFFICES ASSUME WatchInit PROVE LoopIInv
    OBVIOUS
  <1>1. LoopTypeOK /\ Standing /\ BackoffInBounds
    BY DEF WatchInit, LoopTypeOK, Standing, BackoffInBounds
  <1>2. OneCallPerRound /\ BelowCount
    BY CountAssumption DEF WatchInit, Init, OneCallPerRound, BelowCount
  <1> QED BY <1>1, <1>2 DEF LoopIInv

(* What a step of the client leaves of a round. *)
LEMMA UnderneathKeeps ==
    ASSUME IInv, LoopIInv, UNCHANGED loopVars, faults' \in {faults, faults + 1},
           n' = n, (last' = last /\ pc' = pc) \/ pc # "idle",
           pc # "idle" /\ pc' = "idle" => last'.n = n
    PROVE  LoopIInv'
  BY DEF loopVars, LoopIInv, LoopTypeOK, OneCallPerRound, BelowCount, Standing, BackoffInBounds

LEMMA ClientSteps ==
    ASSUME IInv, LoopIInv, Late \/ Progress \/ \E k \in Conns : HangUp(k)
    PROVE  LoopIInv'
  <1>1. CASE Late
    BY <1>1, UnderneathKeeps DEF Late, Timeout, Finish, Result
  <1>2. CASE ReadHeader /\ UNCHANGED <<loopVars, faults>>
    BY <1>2, UnderneathKeeps DEF ReadHeader, Finish, Result
  <1>3. CASE (ReadPDU \/ ReadEOF) /\ UNCHANGED <<loopVars, faults>>
    BY <1>3, UnderneathKeeps DEF ReadPDU, ReadEOF, Finish, Result
  <1>4. ASSUME NEW k \in Conns, Serve(k) \/ RequestLost(k) \/ AnswerLost(k),
               UNCHANGED <<loopVars, faults>>
        PROVE  LoopIInv'
    <2>1. pc' = pc /\ n' = n /\ last' = last
      BY <1>4 DEF Serve, RequestLost, AnswerLost, Unanswered, clientVars
    <2> QED BY <1>4, <2>1, UnderneathKeeps
  <1>5. ASSUME NEW k \in Conns, HangUp(k)
        PROVE  LoopIInv'
    <2>1. pc' = pc /\ n' = n /\ last' = last
      BY <1>5 DEF HangUp, Drop, clientVars
    <2>2. faults' = faults + 1 /\ UNCHANGED loopVars
      BY <1>5 DEF HangUp
    <2> QED BY <2>1, <2>2, UnderneathKeeps
  <1> QED BY <1>1, <1>2, <1>3, <1>4, <1>5 DEF Progress

LEMMA StartReadKeeps == IInv /\ LoopIInv /\ StartRead => LoopIInv'
  <1> SUFFICES ASSUME IInv, LoopIInv, StartRead PROVE LoopIInv'
    OBVIOUS
  <1>1. RefuseCall(call) \/ SendRequest(call) \/ SendIntoClosed(call) \/ WriteError(call)
    BY DEF StartRead
  <1>2. /\ n' = n + 1 /\ stage' = "wait" /\ stage = "call"
        /\ UNCHANGED <<maxBackoff, attempt, emitted, delay, cancelled, exit, faults>>
        /\ pc' = "idle" => last'.n = n'
    BY <1>1 DEF StartRead, RefuseCall, SendRequest, SendIntoClosed, WriteError, CanSend,
                Begin, Result, LoopIInv, OneCallPerRound
  <1>3. n \in Nat
    BY BoundsAssumption DEF IInv, TypeOK
  <1>4. LoopTypeOK'
    BY <1>2 DEF LoopIInv, LoopTypeOK
  <1>5. OneCallPerRound'
    BY <1>2, <1>3 DEF LoopIInv, LoopTypeOK, OneCallPerRound
  <1>6. BelowCount' /\ Standing' /\ BackoffInBounds'
    BY <1>2 DEF LoopIInv, BelowCount, Standing, BackoffInBounds
  <1> QED BY <1>4, <1>5, <1>6 DEF LoopIInv

LEMMA LoopStepKeeps ==
    ASSUME IInv, LoopIInv, Step, ~StartRead
    PROVE  LoopIInv'
  <1>0. /\ n \in Nat /\ Count \in Nat /\ Interval \in Nat \ {0}
        /\ n' = n /\ last' = last /\ pc' = pc
    <2>1. n' = n /\ last' = last /\ pc' = pc
      BY DEF Step, Dial, DialFails, CheckContext, ReadSucceeds, ReadFails, Complain, Panics,
             Emit, Emitted, EmitFails, CountReached, Report, Wake, SleepInterrupted, Return,
             Complaining, Connect, Close, vars
    <2> QED BY <2>1, BoundsAssumption, CountAssumption, TimesAssumption DEF IInv, TypeOK
  <1>1. CASE Complain \/ Panics
    <2>1. /\ attempt' = attempt + 1 /\ attempt + 1 \in Nat \ {0} /\ stage = "complain"
          /\ UNCHANGED <<maxBackoff, emitted, cancelled, faults>>
          /\ \/ /\ Choices(attempt + 1) > 0 /\ delay' \in 0..(Choices(attempt + 1) - 1)
                /\ stage' = "sleep" /\ exit' = exit
             \/ /\ Choices(attempt + 1) <= 0 /\ delay' = delay
                /\ stage' = "report" /\ exit' = "panic"
      BY <1>1 DEF Complain, Panics, LoopIInv, LoopTypeOK, Choices, Ceiling
    <2>2. PICK x \in Nat : x = Interval * 2^Exponent(attempt + 1)
      BY <2>1, CeilingInRange DEF LoopIInv, LoopTypeOK
    <2>3. PICK c \in Nat : c = Ceiling(attempt + 1) /\ c <= maxBackoff /\ c <= x
      <3>1. Ceiling(attempt + 1) \in 1..maxBackoff /\ Ceiling(attempt + 1) <= x
        BY <2>1, <2>2, CeilingInRange DEF LoopIInv, LoopTypeOK
      <3> QED BY <3>1, TimesAssumption DEF LoopIInv, LoopTypeOK, Longest
    <2>4. PICK w \in Int : w = Choices(attempt + 1) /\ w - 1 <= c /\ (w <= 0 => c = Longest)
      BY <2>1, <2>3, ChoicesInRange DEF LoopIInv, LoopTypeOK
    <2>6. maxBackoff \in Nat /\ maxBackoff <= Longest /\ Longest \in Nat
      BY TimesAssumption DEF LoopIInv, LoopTypeOK, Longest
    <2>7. /\ stage' = "sleep" => delay' <= maxBackoff /\ delay' <= x /\ delay' \in Nat
          /\ stage' = "report" => maxBackoff = Longest /\ x >= Longest
      BY <2>1, <2>2, <2>3, <2>4, <2>6
    <2>8. LoopTypeOK'
      BY <2>1, <2>7 DEF LoopIInv, LoopTypeOK
    <2>9. OneCallPerRound'
      BY <1>0, <2>1 DEF LoopIInv, LoopTypeOK, OneCallPerRound
    <2>10. BelowCount' /\ Standing'
      BY <2>1 DEF LoopIInv, BelowCount, Standing
    <2>11. BackoffInBounds'
      <3>1. Interval * 2^Exponent(attempt') = x
        BY <2>1, <2>2
      <3>2. exit' = "panic" => stage' = "report"
        BY <2>1 DEF LoopIInv, Standing
      <3> QED BY <2>1, <2>7, <3>1, <3>2 DEF BackoffInBounds
    <2> QED BY <2>8, <2>9, <2>10, <2>11 DEF LoopIInv
  <1>2. CASE Emit
    <2>1. /\ stage = "emit" /\ emitted' = emitted + 1
          /\ \/ /\ Count > 0 /\ emitted + 1 >= Count
                /\ stage' = "counted" /\ delay' = delay
             \/ /\ ~(Count > 0 /\ emitted + 1 >= Count)
                /\ stage' = "sleep" /\ delay' = Interval
          /\ UNCHANGED <<maxBackoff, attempt, cancelled, exit, faults>>
      BY <1>2 DEF Emit, Emitted
    <2>2. LoopTypeOK'
      BY <1>0, <2>1 DEF LoopIInv, LoopTypeOK
    <2>3. OneCallPerRound'
      BY <1>0, <2>1 DEF LoopIInv, LoopTypeOK, OneCallPerRound
    <2>4. BelowCount'
      BY <1>0, <2>1 DEF LoopIInv, LoopTypeOK, BelowCount
    <2>5. Standing' /\ BackoffInBounds'
      BY <2>1 DEF LoopIInv, Standing, BackoffInBounds
    <2> QED BY <2>2, <2>3, <2>4, <2>5 DEF LoopIInv
  <1>3. CASE Dial \/ DialFails \/ CheckContext \/ ReadSucceeds \/ ReadFails \/ EmitFails
             \/ CountReached \/ Report \/ Wake \/ SleepInterrupted
    <2>1. LoopTypeOK'
      BY <1>3 DEF Dial, DialFails, CheckContext, ReadSucceeds, ReadFails, EmitFails,
                  CountReached, Report, Wake, SleepInterrupted, Return, Complaining,
                  LoopIInv, LoopTypeOK
    <2>2. OneCallPerRound'
      BY <1>0, <1>3 DEF Dial, DialFails, CheckContext, ReadSucceeds, ReadFails, EmitFails,
                  CountReached, Report, Wake, SleepInterrupted, Return, Complaining,
                  ReadDone, LoopIInv, LoopTypeOK, OneCallPerRound
    <2>3. BelowCount'
      <3>0. CASE Dial \/ DialFails
        BY <3>0 DEF Dial, DialFails, Complaining, LoopIInv, BelowCount
      <3>1. CASE CheckContext
        BY <3>1 DEF CheckContext, Return, LoopIInv, BelowCount
      <3>4. CASE ReadSucceeds \/ ReadFails
        BY <3>4 DEF ReadSucceeds, ReadFails, ReadDone, LoopIInv, BelowCount
      <3>2. CASE EmitFails \/ CountReached
        BY <3>2 DEF EmitFails, CountReached, Return, Complaining, LoopIInv, BelowCount
      <3>3. CASE Report \/ Wake \/ SleepInterrupted
        BY <3>3 DEF Report, Wake, SleepInterrupted, Return, LoopIInv, BelowCount
      <3> QED BY <1>3, <3>0, <3>1, <3>2, <3>3, <3>4
    <2>4. Standing' /\ BackoffInBounds'
      <3>1. CASE ReadSucceeds
        BY <3>1 DEF ReadSucceeds, ReadDone, LoopIInv, Standing, BackoffInBounds
      <3>2. CASE Dial \/ DialFails \/ CheckContext \/ ReadFails \/ EmitFails \/ CountReached
                 \/ Report \/ Wake \/ SleepInterrupted
        <4>1. attempt' = attempt /\ maxBackoff' = maxBackoff /\ stage' \notin {"sleep", "emit", "counted"}
          BY <3>2 DEF Dial, DialFails, CheckContext, ReadFails, EmitFails, CountReached,
                      Report, Wake, SleepInterrupted, Return, Complaining
        <4>2. exit' = "panic" => exit = "panic" /\ stage' \in {"report", "returned"}
          BY <3>2 DEF Dial, DialFails, CheckContext, ReadFails, EmitFails, CountReached,
                      Report, Wake, SleepInterrupted, Return, Complaining, ReadDone,
                      LoopIInv, Standing
        <4> QED BY <4>1, <4>2 DEF LoopIInv, Standing, BackoffInBounds
      <3> QED BY <1>3, <3>1, <3>2
    <2> QED BY <2>1, <2>2, <2>3, <2>4 DEF LoopIInv
  <1> QED BY <1>1, <1>2, <1>3 DEF Step

LEMMA LoopInvariance == WatchSpec => [](IInv /\ LoopIInv)
  <1>1. ASSUME IInv, LoopIInv, [WatchNext]_watchVars
        PROVE  LoopIInv'
    <2>1. CASE Step
      BY <1>1, <2>1, StartReadKeeps, LoopStepKeeps
    <2>2. CASE Interrupt
      BY <1>1, <2>2 DEF Interrupt, vars, LoopIInv, LoopTypeOK, OneCallPerRound, BelowCount,
                        Standing, BackoffInBounds
    <2>3. CASE Late \/ Progress \/ \E k \in Conns : HangUp(k)
      BY <1>1, <2>3, ClientSteps
    <2>4. CASE UNCHANGED watchVars
      BY <1>1, <2>4 DEF watchVars, vars, loopVars, LoopIInv, LoopTypeOK, OneCallPerRound,
                        BelowCount, Standing, BackoffInBounds
    <2> QED BY <1>1, <2>1, <2>2, <2>3, <2>4 DEF WatchNext
  <1> QED BY <1>1, LoopInit, LoopCallsClient, Invariance, PTL DEF WatchSpec

-----------------------------------------------------------------------------
(***************************************************************************)
(* Theorems.                                                               *)
(***************************************************************************)
(* No delay after a failure is longer than max_backoff, nor than base *    *)
(* 2^(attempt-1), for every interval and every ceiling a time.Duration can *)
(* hold, whatever wraps; and Int63n panics only when max_backoff is the    *)
(* longest duration and that product reaches it (poller.go,                *)
(* fullJitterBackoff; docs/backoff.md:26).                                 *)
THEOREM BackoffBounded == WatchSpec => []BackoffInBounds
  BY LoopInvariance, PTL DEF LoopIInv

(* A run with a count that ends by itself has emitted exactly that many    *)
(* values, one per read, and no run emits more (poller.go:60-66), for      *)
(* every count.                                                            *)
THEOREM CountIsExact == WatchSpec => []CountExact
  <1>1. LoopIInv => CountExact
    BY DEF LoopIInv, OneCallPerRound, BelowCount, CountExact
  <1> QED BY <1>1, LoopInvariance, PTL

(* What is emitted over a connection no read has failed on is what the     *)
(* device answered to the read just made, whatever the tables hold.  (Over *)
(* a connection on which reads have failed it takes more to say so:        *)
(* OnlyOwnValues, below.)                                                  *)
ValueIsOwn == stage = "emit" =>
                 /\ last.n = n
                 /\ last.fresh => /\ answer # <<>>
                                  /\ Interpret(call, answer) = Outcome("ok", last.vals)

(* ValueIsOwn holds of every value the loop emits (poller.go, Run).        *)
THEOREM ValuesAreOwn == WatchSpec => []ValueIsOwn
  <1>1. IInv /\ LoopIInv => ValueIsOwn
    BY DEF IInv, OwnAnswer, Answered, LoopIInv, OneCallPerRound, ValueIsOwn
  <1> QED BY <1>1, LoopInvariance, PTL

(* A loop that only reads: what it reads is in the tables from the start.  *)
ReadsOnly == \A c \in Calls : c.fc \in Reads

(* What the device answers to the loop's reads cannot be mistaken for the  *)
(* header of a response.                                                   *)
ReadingsUnmistakable ==
    \A c \in Calls : QuantityOK(c) => Unmistakable(Dispatch(InitMem, RequestPDU(c)).resp)

LEMMA ReadsChangeNothing == ReadsOnly => (Spec => [](mem = InitMem))
  <1> SUFFICES ASSUME ReadsOnly
               PROVE  Spec => [](mem = InitMem)
    OBVIOUS
  <1>1. Init => mem = InitMem
    BY DEF Init
  <1>2. ASSUME IInv, mem = InitMem, [Next]_vars
        PROVE  (mem = InitMem)'
    <2>1. ASSUME NEW k \in Conns, Serve(k) \/ AnswerLost(k)
          PROVE  mem' = mem
      <3>1. PICK r \in Request, resp \in Seq(Byte) : mem' = Written(mem, r.call)
        <4>1. requests[k] # <<>> /\ mem' = Handled(k).mem
          BY <2>1 DEF Serve, AnswerLost, Unanswered
        <4> QED BY <1>2, <4>1, HandledMeans
      <3>2. r.call.fc \in Reads
        BY DEF Request, ReadsOnly
      <3>3. r.call.fc \notin Writes
        BY <3>2 DEF Reads, BitReads, RegisterReads, Writes, SingleWrites, MultiWrites,
                    FuncReadCoils, FuncReadDiscreteInputs, FuncReadHoldingRegisters,
                    FuncReadInputRegisters, FuncWriteSingleCoil, FuncWriteSingleRegister,
                    FuncWriteMultipleCoils, FuncWriteMultipleRegisters
      <3> QED BY <3>1, <3>3 DEF Written
    <2>2. ASSUME NEW k \in Conns, Drop(k) \/ RequestLost(k)
          PROVE  mem' = mem
      BY <2>2 DEF Drop, RequestLost
    <2>3. CASE Connect \/ Close
      BY <1>2, <2>3 DEF Connect, Close
    <2>4. ASSUME NEW c \in Calls,
                 RefuseCall(c) \/ SendRequest(c) \/ SendIntoClosed(c) \/ WriteError(c)
          PROVE  mem' = mem
      BY <2>4 DEF RefuseCall, SendRequest, SendIntoClosed, WriteError, CanSend, Begin
    <2>5. CASE ReadHeader \/ ReadPDU \/ Timeout \/ ReadEOF
      BY <1>2, <2>5 DEF ReadHeader, ReadPDU, Timeout, ReadEOF, Finish
    <2>6. CASE UNCHANGED vars
      BY <1>2, <2>6 DEF vars
    <2> QED BY <1>2, <2>1, <2>2, <2>3, <2>4, <2>5, <2>6 DEF Next
  <1> QED BY <1>1, <1>2, Invariance, PTL DEF Spec

(* The loop keeps its connection when reads fail, and still every value it *)
(* emits is what the device answered to the read just made: never one that *)
(* was asked for earlier and came late (poller.go, Run over client.go, do).*)
(* For a loop that only reads, as long as the numbers of the requests have *)
(* not wrapped and no answer can be mistaken for a header.                 *)
THEOREM OnlyOwnValues ==
    MaxCalls < TxMod /\ ReadsOnly /\ ReadingsUnmistakable => (WatchSpec => []EmitsOwnAnswer)
  <1> SUFFICES ASSUME MaxCalls < TxMod, ReadsOnly, ReadingsUnmistakable
               PROVE  WatchSpec => []EmitsOwnAnswer
    OBVIOUS
  <1>1. mem = InitMem => AnswersUnmistakable
    BY DEF ReadingsUnmistakable, AnswersUnmistakable
  <1>2. LoopIInv /\ NoForeignAnswer => EmitsOwnAnswer
    <2> SUFFICES ASSUME LoopIInv, NoForeignAnswer, stage = "emit"
                 PROVE  /\ last.n = n /\ answer # <<>>
                        /\ Interpret(call, answer) = Outcome("ok", last.vals)
      BY DEF EmitsOwnAnswer
    <2>1. last.kind = "ok" /\ last.n = n /\ pc = "idle"
      BY DEF LoopIInv, OneCallPerRound
    <2> QED BY <2>1 DEF NoForeignAnswer, Answered
  <1> QED BY <1>1, <1>2, LoopInvariance, LoopCallsClient, ReadsChangeNothing,
             NoForeignAnswers, PTL

(* A loop that reads one register, or up to eight coils, at a time.        *)
ShortReads == \A c \in Calls : \/ c.fc \in BitReads /\ c.qty <= 8
                               \/ c.fc \in RegisterReads /\ c.qty = 1

(* What it is answered is too short to hold a header with a small number:  *)
(* only the function code and the count of a register, 3 and 2, could be   *)
(* read as a number, and that is 770.                                      *)
LEMMA ShortAnswer ==
    ASSUME NEW m \in Memory, NEW c, WellFormed(c), QuantityOK(c),
           (c.fc \in BitReads /\ c.qty <= 8) \/ (c.fc \in RegisterReads /\ c.qty = 1)
    PROVE  LET resp == Dispatch(m, RequestPDU(c)).resp
           IN  /\ Len(resp) <= 4 /\ resp[2] # 0
               /\ Len(resp) = 4 => resp[1] \in {3, 4} /\ resp[2] = 2
  <1> DEFINE pdu  == RequestPDU(c)
             d    == ReadTable(m, pdu)
             vals == Slice(m[TableOf(c.fc)], c.addr, c.qty)
  <1>1. /\ c.addr \in Nat /\ c.qty \in Nat /\ 1 <= c.qty /\ c.qty <= Limit(c.fc)
        /\ c.fc \in {1, 2, 3, 4}
        /\ (c.fc \in {1, 2} /\ c.qty <= 8) \/ (c.fc \in {3, 4} /\ c.qty = 1)
    <2>1. c.addr \in Words /\ c.qty \in Words /\ 1 <= c.qty
      BY CallFields
    <2>2. (c.fc \in {1, 2} /\ c.qty <= 8) \/ (c.fc \in {3, 4} /\ c.qty = 1)
      BY Codes
    <2> QED BY <2>1, <2>2 DEF Words, QuantityOK
  <1>2. Len(pdu) = 5 /\ pdu[1] = c.fc /\ WordAt(pdu, 2) = c.addr /\ WordAt(pdu, 4) = c.qty
    <2>1. Payload(c) = <<>> /\ SecondWord(c) = c.qty
      BY <1>1, Codes DEF Payload, SecondWord, FuncWriteMultipleCoils,
                         FuncWriteMultipleRegisters
    <2>2. Len(pdu) = 5 + Len(Payload(c)) /\ pdu[1] = c.fc /\ WordAt(pdu, 2) = c.addr
          /\ WordAt(pdu, 4) = SecondWord(c)
      BY RequestFields
    <2> QED BY <2>1, <2>2
  <1>3. Dispatch(m, pdu) = d
    <2>1. Len(pdu) # 0 /\ Len(pdu) > 0 /\ pdu[1] \in Reads
      BY <1>1, <1>2, Codes
    <2> HIDE DEF pdu
    <2> QED BY <2>1, Codes DEF Dispatch
  <1>4. ~(c.qty < 1) /\ ~(c.qty > Limit(c.fc))
    <2>1. Limit(c.fc) \in Int
      BY <1>1, Limits
    <2> QED BY <1>1, <2>1
  <1> HIDE DEF pdu
  <1>5. CASE c.addr + c.qty > TableSize
    <2>1. d = Refuse(m, pdu, exIllegalAddress)
      BY <1>2, <1>4, <1>5 DEF ReadTable
    <2>2. d.resp = <<c.fc + 128, 2>>
      BY <1>1, <1>2, <2>1 DEF Refuse, Exception, exceptionBit, exIllegalAddress
    <2>3. Len(d.resp) = 2 /\ d.resp[2] = 2
      BY <2>2
    <2> QED BY <1>3, <2>3 DEF pdu
  <1>6. CASE ~(c.addr + c.qty > TableSize)
    <2>1. c.addr + c.qty <= TableSize
      BY <1>1, <1>6, TableSizeAssumption
    <2>2. /\ Len(vals) = c.qty
          /\ c.fc \in {1, 2} => vals \in Seq({0, 1})
          /\ c.fc \in {3, 4} => vals \in Seq(Words)
      BY <1>1, <2>1, SliceType
    <2> HIDE DEF vals
    <2>3. CASE c.fc \in {1, 2}
      <3> DEFINE size == NumBytes(c.qty)
                 resp == <<c.fc, size>> \o PackBits(vals)
      <3>1. d = Answer(m, resp)
        BY <1>2, <1>4, <1>6, <2>3, Codes DEF ReadTable, vals
      <3>2. PackBits(vals) \in Seq(Byte) /\ Len(PackBits(vals)) = size /\ size \in Nat
        BY <1>1, <2>2, <2>3, PackBitsType, NumBytesBounds
      <3>3. size = 1
        <4>1. (c.qty + 7) \div 8 = 1
          BY <1>1, <2>3
        <4> QED BY <4>1 DEF NumBytes
      <3> HIDE DEF size, d
      <3>4. Len(resp) = 2 + size /\ resp[2] = size
        <4>1. c.fc \in {1, 2, 3, 4}
          BY <1>1
        <4> QED BY <4>1, <3>2, DataMeans
      <3> HIDE DEF resp
      <3>5. Len(resp) <= 4 /\ resp[2] # 0 /\ Len(resp) # 4
        BY <3>3, <3>4
      <3>6. Dispatch(m, RequestPDU(c)).resp = resp
        BY <1>3, <3>1 DEF Answer, pdu
      <3> QED BY <3>5, <3>6
    <2>4. CASE c.fc \in {3, 4}
      <3> DEFINE size == 2 * c.qty
                 resp == <<c.fc, size>> \o PackWords(vals)
      <3>1. d = Answer(m, resp)
        BY <1>2, <1>4, <1>6, <2>4, Codes DEF ReadTable, vals
      <3>2. PackWords(vals) \in Seq(Byte) /\ Len(PackWords(vals)) = size /\ size \in Nat
        BY <1>1, <2>2, <2>4, PackWordsType
      <3>3. size = 2
        BY <1>1, <2>4
      <3> HIDE DEF size, d
      <3>4. Len(resp) = 2 + size /\ resp[1] = c.fc /\ resp[2] = size
        <4>1. c.fc \in {1, 2, 3, 4}
          BY <1>1
        <4> QED BY <4>1, <3>2, DataMeans
      <3> HIDE DEF resp
      <3>5. Len(resp) <= 4 /\ resp[2] # 0 /\ resp[1] \in {3, 4} /\ resp[2] = 2
        BY <2>4, <3>3, <3>4
      <3>6. Dispatch(m, RequestPDU(c)).resp = resp
        BY <1>3, <3>1 DEF Answer, pdu
      <3> QED BY <3>5, <3>6
    <2> QED BY <1>1, <2>3, <2>4
  <1> QED BY <1>5, <1>6

LEMMA ShortUnmistakable ==
    ASSUME NEW pdu \in Seq(Byte), Len(pdu) <= 4, pdu[2] # 0,
           Len(pdu) = 4 => pdu[1] \in {3, 4} /\ pdu[2] = 2, MaxCalls < 770
    PROVE  Unmistakable(pdu)
  <1> DEFINE b == <<UnitID>> \o pdu
  <1>1. Len(b) = Len(pdu) + 1 /\ \A i \in 1..Len(pdu) : b[i + 1] = pdu[i]
    BY PrefixedBytes
  <1>2. Len(pdu) \in Nat
    BY LenProperties
  <1> HIDE DEF b
  <1>3. ASSUME NEW i \in 1..(Len(b) - 3), MayBeHeader(b, i)
        PROVE  WordAt(b, i) \notin 1..MaxCalls
    <2>1. 3 <= Len(pdu) /\ (i = 1 \/ (i = 2 /\ Len(pdu) = 4))
      <3>1. Len(b) - 3 = Len(pdu) - 2
        BY <1>1, <1>2
      <3>2. i \in Int /\ 1 <= i /\ i <= Len(pdu) - 2
        BY <1>2, <3>1
      <3>3. CASE Len(pdu) = 4
        <4>1. i <= 2
          BY <3>2, <3>3
        <4>2. i = 1 \/ i = 2
          BY <3>2, <4>1
        <4> QED BY <3>3, <4>2
      <3>4. CASE Len(pdu) # 4
        <4>1. \A l \in Nat : l <= 4 /\ l # 4 => l <= 3
          OBVIOUS
        <4>2. Len(pdu) <= 3
          BY <1>2, <3>4, <4>1, Zenon
        <4> QED BY <1>2, <3>2, <4>2
      <3> QED BY <3>3, <3>4
    <2>2. CASE i = 1
      <3>1. b[2 + 1] = pdu[2]
        BY <1>1, <1>2, <2>1
      <3>2. b[1 + 2] = 0
        BY <1>3, <2>2 DEF MayBeHeader
      <3> QED BY <3>1, <3>2
    <2>3. CASE i = 2 /\ Len(pdu) = 4
      <3>1. b[1 + 1] = pdu[1] /\ b[2 + 1] = pdu[2]
        BY <1>1, <2>3
      <3>2. WordAt(b, 2) = pdu[1] * 256 + 2
        BY <2>3, <3>1 DEF WordAt
      <3>3. pdu[1] = 3 \/ pdu[1] = 4
        BY <2>3
      <3>4. WordAt(b, 2) >= 770
        BY <3>2, <3>3
      <3> QED BY <2>3, <3>2, <3>3, <3>4, BoundsAssumption
    <2> QED BY <2>1, <2>2, <2>3
  <1> QED BY <1>3 DEF Unmistakable, b

(* For a loop that reads one register or up to eight coils nothing about   *)
(* the device's tables has to be assumed: in up to 769 readings every      *)
(* value it emits is the device's answer to the read just made, whatever   *)
(* reads failed before (poller.go, Run over client.go, do).                *)
THEOREM ShortReadingsAreOwn ==
    MaxCalls < TxMod /\ MaxCalls < 770 /\ ShortReads => (WatchSpec => []EmitsOwnAnswer)
  <1> SUFFICES ASSUME MaxCalls < TxMod, MaxCalls < 770, ShortReads
               PROVE  WatchSpec => []EmitsOwnAnswer
    OBVIOUS
  <1>1. ASSUME NEW m \in Memory, NEW c \in Calls, QuantityOK(c)
        PROVE  Unmistakable(Dispatch(m, RequestPDU(c)).resp)
    <2> DEFINE resp == Dispatch(m, RequestPDU(c)).resp
    <2>1. WellFormed(c)
      BY CallFacts
    <2>2. /\ Len(resp) <= 4 /\ resp[2] # 0
          /\ Len(resp) = 4 => resp[1] \in {3, 4} /\ resp[2] = 2
      <3>1. (c.fc \in BitReads /\ c.qty <= 8) \/ (c.fc \in RegisterReads /\ c.qty = 1)
        BY DEF ShortReads
      <3>2. QuantityOK(c)
        BY <1>1
      <3> QED BY <2>1, <3>1, <3>2, ShortAnswer
    <2>3. resp \in Seq(Byte)
      <3>1. 0 \in TxIDs
        BY TxModAssumption DEF TxIDs
      <3>2. RequestPDU(c) \in Seq(Byte) /\ 1 <= Len(RequestPDU(c))
        BY <1>1, <3>1, RequestReady
      <3>3. Dispatched(Dispatch(m, RequestPDU(c)))
        BY <3>2, DispatchType
      <3> QED BY <3>3 DEF Dispatched
    <2> HIDE DEF resp
    <2>4. Unmistakable(resp)
      BY <2>2, <2>3, ShortUnmistakable
    <2> QED BY <2>4 DEF resp
  <1>2. InitMem \in Memory
    BY InitMemAssumption
  <1>3. ReadsOnly /\ ReadingsUnmistakable
    <2>1. ReadsOnly
      BY DEF ShortReads, ReadsOnly, Reads
    <2> QED BY <1>1, <1>2, <2>1 DEF ReadingsUnmistakable
  <1> QED BY <1>3, OnlyOwnValues

(* To whoever started it the loop is a WatchProcess (poller.go, Run, with  *)
(* runWatch around it): every step is one of its steps or none.            *)
LEMMA LoopStepIsProcessStep ==
    ASSUME LoopIInv, Step
    PROVE  [Process!Next]_(Process!processVars)
  <1> USE DEF Process!Next, Process!Goes, Process!processVars, PhaseOf
  <1>1. CASE Dial \/ DialFails
    BY <1>1 DEF Dial, DialFails, Complaining, Process!Connected, Process!NotConnected
  <1>2. CASE CheckContext
    BY <1>2 DEF CheckContext, Return, Process!Stop, Process!BeginReading
  <1>3. CASE StartRead \/ Wake
    BY <1>3 DEF StartRead, Wake
  <1>4. CASE ReadSucceeds \/ ReadFails
    BY <1>4 DEF ReadSucceeds, ReadFails, ReadDone, Process!HasValue, Process!HasError
  <1>5. CASE Complain \/ Panics
    BY <1>5 DEF Complain, Panics, Process!WriteError, Process!Crash
  <1>6. CASE Emit
    <2>1. /\ stage = "emit" /\ emitted' = emitted + 1 /\ UNCHANGED <<cancelled, exit>>
          /\ stage' = IF Count > 0 /\ emitted + 1 >= Count THEN "counted" ELSE "sleep"
      BY <1>6 DEF Emit, Emitted
    <2>2. Count \in Nat /\ emitted \in Nat /\ (Count > 0 => emitted < Count)
      BY <2>1, CountAssumption DEF LoopIInv, LoopTypeOK, BelowCount
    <2>3. Count > 0 /\ emitted + 1 >= Count <=> emitted + 1 = Count
      BY <2>2
    <2>4. stage' = IF emitted' = Count THEN "counted" ELSE "sleep"
      BY <2>1, <2>3
    <2> QED BY <2>1, <2>4 DEF Process!WriteValue
  <1>7. CASE EmitFails \/ CountReached \/ Report
    BY <1>7 DEF EmitFails, CountReached, Report, Complaining, Return, Process!CannotWrite,
                Process!Finish, Process!LastWord
  <1>8. CASE SleepInterrupted
    BY <1>8 DEF SleepInterrupted, Return, Process!Stop, LoopIInv, LoopTypeOK
  <1> QED BY <1>1, <1>2, <1>3, <1>4, <1>5, <1>6, <1>7, <1>8 DEF Step

THEOREM LoopIsWatchProcess == WatchSpec => IsWatchProcess
  <1>1. WatchInit => Process!Init
    BY DEF WatchInit, Process!Init, PhaseOf
  <1>2. ASSUME LoopIInv, [WatchNext]_watchVars
        PROVE  [Process!Next]_(Process!processVars)
    <2>1. CASE Step
      BY <1>2, <2>1, LoopStepIsProcessStep
    <2>2. CASE Interrupt
      <3>1. PhaseOf # "exited"
        BY <1>2, <2>2 DEF Interrupt, PhaseOf, LoopIInv, LoopTypeOK
      <3>2. PhaseOf' = PhaseOf /\ cancelled' = TRUE /\ UNCHANGED <<emitted, exit>>
        BY <2>2 DEF Interrupt, PhaseOf
      <3> QED BY <3>1, <3>2 DEF Process!Next, Process!Tell
    <2>3. CASE Late \/ Progress \/ \E k \in Conns : HangUp(k)
      BY <2>3 DEF Late, Progress, HangUp, loopVars, Process!processVars, PhaseOf
    <2>4. CASE UNCHANGED watchVars
      BY <2>4 DEF watchVars, loopVars, Process!processVars, PhaseOf
    <2> QED BY <1>2, <2>1, <2>2, <2>3, <2>4 DEF WatchNext
  <1> QED BY <1>1, <1>2, LoopInvariance, PTL DEF WatchSpec, IsWatchProcess, Process!Spec
=============================================================================
