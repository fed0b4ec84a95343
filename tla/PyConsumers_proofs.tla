-------------------------- MODULE PyConsumers_proofs --------------------------
(***************************************************************************)
(* Proofs about the two parts of the Python bindings that consume what     *)
(* otcat delivers: the generator of PyWatch, for every count, every room   *)
(* of the two pipes and every number of values, and the engine of Alerting,*)
(* for any number of rules, values, debounces and rounds.  The modules     *)
(* have nothing in common.                                                 *)
(***************************************************************************)
EXTENDS PyWatch, Alerting, SequenceTheorems, TLAPS

(***************************************************************************)
(* PyWatch: the inductive invariant.                                       *)
(***************************************************************************)
Gens == {"reading", "suspended", "closing", "waiting", "killing", "closed", "gone"}

PyWatchTypeOK == /\ limit \in Nat
                 /\ phase \in Phases
                 /\ emitted \in Nat
                 /\ gen \in Gens
                 /\ out \in Seq(Nat)
                 /\ delivered \in Seq(Nat)

(* No value is lost, doubled or overtaken: what the consumer was given and *)
(* what is still in the pipe are the values emitted, counted from 1.       *)
NothingLost == /\ Len(delivered) + Len(out) = emitted
               /\ \A i \in 1..Len(delivered) : delivered[i] = i
               /\ \A i \in 1..Len(out) : out[i] = Len(delivered) + i

(* A process about to report success has emitted its count. *)
CountKept == phase = "finished" \/ exit = "ok" => emitted = limit

(* Exit codes are those of processes that are over, or about to be.        *)
OkIsExited == exit = "ok" => phase = "exited"

(* The end of the loop is seen when there is nothing more to come. *)
EndIsEnd == why = "end" => /\ gen \notin {"reading", "suspended"}
                           /\ out = <<>> /\ phase = "exited"

PyWatchIInv == /\ PyWatchTypeOK /\ NothingLost /\ CountKept /\ OkIsExited /\ EndIsEnd
               /\ NoProcessLeft

LEMMA WatchInitIInv == WatchInit => PyWatchIInv
  BY LimitsAssumption
     DEF WatchInit, Init, PyWatchIInv, PyWatchTypeOK, NothingLost, CountKept, OkIsExited,
         EndIsEnd, NoProcessLeft, Phases, Gens

(* What the process does on its own changes neither pipe. *)
LEMMA ProcessKeeps ==
    ASSUME PyWatchIInv, Silently \/ BrokenPipe \/ FromTerminal
    PROVE  PyWatchIInv'
  BY DEF Silently, BrokenPipe, FromTerminal, Signalled, Tell, Killed, Readers, pyVars,
         Connected, NotConnected, BeginReading, HasValue, HasError, CannotWrite, Finish, Stop,
         Goes, PyWatchIInv, PyWatchTypeOK, NothingLost, CountKept, OkIsExited, EndIsEnd,
         NoProcessLeft, Phases, Gens

LEMMA PutValueKeeps == PyWatchIInv /\ PutValue => PyWatchIInv'
  <1> SUFFICES ASSUME PyWatchIInv, PutValue PROVE PyWatchIInv'
    OBVIOUS
  <1> USE DEF PyWatchIInv
  <1>1. /\ phase = "value" /\ emitted' = emitted + 1
        /\ phase' = IF emitted + 1 = limit THEN "finished" ELSE "deciding"
        /\ out' = Append(out, emitted + 1)
        /\ UNCHANGED <<limit, exit, gen, why, delivered, hurried>>
    BY DEF PutValue, WriteValue
  <1>2. /\ out' \in Seq(Nat) /\ Len(out') = Len(out) + 1
        /\ out'[Len(out) + 1] = emitted + 1
        /\ \A i \in 1..Len(out) : out'[i] = out[i]
    BY <1>1, AppendProperties DEF PyWatchTypeOK
  <1>3. PyWatchTypeOK'
    BY <1>1, <1>2 DEF PyWatchTypeOK, Phases
  <1>4. NothingLost'
    <2>1. /\ Len(delivered) + Len(out) = emitted /\ Len(delivered) \in Nat /\ Len(out) \in Nat
          /\ \A i \in 1..Len(out) : out[i] = Len(delivered) + i
      BY DEF NothingLost, PyWatchTypeOK
    <2>2. \A i \in 1..Len(out') : out'[i] = Len(delivered') + i
      <3> TAKE i \in 1..Len(out')
      <3>1. i \in 1..Len(out) \/ i = Len(out) + 1
        BY <1>2, <2>1
      <3>2. CASE i \in 1..Len(out)
        BY <1>1, <1>2, <2>1, <3>2
      <3>3. CASE i = Len(out) + 1
        <4>1. out'[i] = emitted + 1
          BY <1>2, <3>3
        <4>2. emitted + 1 = Len(delivered) + i
          BY <2>1, <3>3
        <4> QED BY <1>1, <4>1, <4>2
      <3> QED BY <3>1, <3>2, <3>3
    <2> QED BY <1>1, <1>2, <2>1, <2>2 DEF NothingLost
  <1>5. CountKept' /\ OkIsExited'
    BY <1>1 DEF CountKept, OkIsExited
  <1>6. EndIsEnd' /\ NoProcessLeft'
    BY <1>1 DEF EndIsEnd, NoProcessLeft
  <1> QED BY <1>3, <1>4, <1>5, <1>6

LEMMA PutErrorKeeps == PyWatchIInv /\ PutError => PyWatchIInv'
  BY DEF PutError, WriteError, LastWord, Goes, PyWatchIInv, PyWatchTypeOK, NothingLost,
         CountKept, OkIsExited, EndIsEnd, NoProcessLeft, Phases

LEMMA YieldKeeps == PyWatchIInv /\ Yield => PyWatchIInv'
  <1> SUFFICES ASSUME PyWatchIInv, Yield PROVE PyWatchIInv'
    OBVIOUS
  <1> USE DEF PyWatchIInv
  <1>1. /\ out # <<>> /\ out' = Tail(out) /\ delivered' = Append(delivered, Head(out))
        /\ gen = "reading" /\ gen' = "suspended"
        /\ UNCHANGED <<limit, phase, emitted, exit, why, hurried>>
    BY DEF Yield, processVars
  <1>2. /\ out' \in Seq(Nat) /\ Len(out) = Len(out') + 1 /\ Head(out) = out[1]
        /\ \A i \in 1..Len(out') : out'[i] = out[i + 1]
        /\ Head(out) \in Nat /\ 1 \in 1..Len(out)
    <2>1. Len(out) # 0
      BY <1>1, EmptySeq DEF PyWatchTypeOK
    <2> QED BY <1>1, <2>1, HeadTailProperties DEF PyWatchTypeOK
  <1>3. /\ delivered' \in Seq(Nat) /\ Len(delivered') = Len(delivered) + 1
        /\ delivered'[Len(delivered) + 1] = Head(out)
        /\ \A i \in 1..Len(delivered) : delivered'[i] = delivered[i]
    BY <1>1, <1>2, AppendProperties DEF PyWatchTypeOK
  <1>4. PyWatchTypeOK'
    BY <1>1, <1>2, <1>3 DEF PyWatchTypeOK, Gens
  <1>5. NothingLost'
    <2>1. PICK d, o \in Nat : d = Len(delivered) /\ o = Len(out')
      BY <1>2, LenProperties DEF PyWatchTypeOK
    <2>2. Head(out) = d + 1
      BY <1>2, <2>1 DEF NothingLost
    <2>3. Len(delivered') + Len(out') = emitted'
      <3>1. Len(delivered) + Len(out) = emitted /\ emitted' = emitted
        BY <1>1 DEF NothingLost
      <3>2. Len(out) = o + 1 /\ Len(delivered') = d + 1
        BY <1>2, <1>3, <2>1
      <3> QED BY <2>1, <3>1, <3>2
    <2>4. ASSUME NEW i \in 1..(d + 1) PROVE delivered'[i] = i
      <3>1. CASE i = d + 1
        BY <1>3, <2>1, <2>2, <3>1
      <3>2. CASE i \in 1..d
        BY <1>3, <2>1, <3>2 DEF NothingLost
      <3> QED BY <2>1, <3>1, <3>2
    <2>5. ASSUME NEW i \in 1..o PROVE out'[i] = d + 1 + i
      <3>1. i + 1 \in 1..Len(out) /\ out'[i] = out[i + 1]
        BY <1>2, <2>1
      <3>2. out[i + 1] = d + (i + 1)
        BY <2>1, <3>1 DEF NothingLost
      <3> QED BY <2>1, <3>1, <3>2
    <2>6. Len(delivered') = d + 1
      BY <1>3, <2>1
    <2> QED BY <2>1, <2>3, <2>4, <2>5, <2>6 DEF NothingLost
  <1>6. CountKept' /\ OkIsExited' /\ EndIsEnd' /\ NoProcessLeft'
    BY <1>1 DEF CountKept, OkIsExited, EndIsEnd, NoProcessLeft
  <1> QED BY <1>4, <1>5, <1>6

(* The other steps of the generator and those of the consumer. *)
LEMMA GeneratorKeeps ==
    ASSUME PyWatchIInv,
           \/ SeesEnd \/ Terminate \/ Waited \/ WaitTimesOut \/ Kill \/ Collect
           \/ Throw \/ ThrowAgain \/ AskNext \/ Close \/ Vanish
    PROVE  PyWatchIInv'
  BY DEF SeesEnd, Terminate, Waited, WaitTimesOut, Kill, Collect, Throw, ThrowAgain,
         AskNext, Close, Vanish, Leave, Gone, Killed, Signalled, Tell, processVars,
         PyWatchIInv, PyWatchTypeOK, NothingLost, CountKept, OkIsExited, EndIsEnd,
         NoProcessLeft, Phases, Gens

(* PyWatchIInv holds in every reachable state of the generator, its pipes  *)
(* and its process.                                                        *)
THEOREM PyWatchInvariance == PyWatchSpec => []PyWatchIInv
  <1>1. ASSUME PyWatchIInv, [WatchNext]_watchVars
        PROVE  PyWatchIInv'
    <2>1. CASE Otcat \/ FromTerminal
      BY <1>1, <2>1, ProcessKeeps, PutValueKeeps, PutErrorKeeps DEF Otcat
    <2>2. CASE Generator \/ Throw \/ ThrowAgain \/ AskNext \/ Close \/ Vanish
      BY <1>1, <2>2, YieldKeeps, GeneratorKeeps DEF Generator
    <2>3. CASE UNCHANGED watchVars
      BY <1>1, <2>3 DEF watchVars, processVars, pyVars, PyWatchIInv, PyWatchTypeOK,
                        NothingLost, CountKept, OkIsExited, EndIsEnd, NoProcessLeft
    <2> QED BY <1>1, <2>1, <2>2, <2>3 DEF WatchNext
  <1> QED BY <1>1, WatchInitIInv, PTL DEF PyWatchSpec

(* A generator that is exhausted has delivered what the process emitted,   *)
(* value by value; one with a count that went well, as many (client.py,    *)
(* watch: the loop over stdout ends only at the end of the pipe).          *)
THEOREM ExhaustedComplete == PyWatchSpec => []ExhaustedIsComplete
  <1>1. PyWatchIInv => ExhaustedIsComplete
    <2> SUFFICES ASSUME PyWatchIInv, why = "end" PROVE ExhaustedIsComplete
      BY DEF ExhaustedIsComplete
    <2> USE DEF PyWatchIInv
    <2>1. Len(delivered) = emitted /\ \A i \in 1..emitted : delivered[i] = i
      BY DEF EndIsEnd, NothingLost, PyWatchTypeOK
    <2>2. delivered = [i \in 1..emitted |-> i]
      BY <2>1 DEF PyWatchTypeOK
    <2>3. exit = "ok" => Len(delivered) = limit
      BY <2>1 DEF CountKept
    <2> QED BY <2>2, <2>3 DEF ExhaustedIsComplete
  <1> QED BY <1>1, PyWatchInvariance, PTL

(* Once the generator is closed its process is gone, unless an exception   *)
(* cut the wait short (client.py, the finally of watch).                   *)
THEOREM ProcessesEndWithGenerator == PyWatchSpec => []NoProcessLeft
  BY PyWatchInvariance, PTL DEF PyWatchIInv

(***************************************************************************)
(* Alerting: its type invariant, that a rule's state follows its samples,  *)
(* and that the callbacks are made in turn.                                *)
(***************************************************************************)
(* The counter starts at nothing, and nothing needs one breach at least.   *)
LEMMA AlertInitially == AlertInit => AlertIInv
  <1> SUFFICES ASSUME AlertInit PROVE AlertIInv
    OBVIOUS
  <1>1. \A r \in Rule : history[r] = <<>> /\ called[r] = <<>> /\ consecutive[r] = 0 /\ active[r] = FALSE
    BY DEF AlertInit
  <1>2. \A r \in Rule : Needed(r) \in Nat /\ Needed(r) > 0
    BY RulesAssumption DEF Needed
  <1>3. AlertTypeOK
    BY <1>1, RulesAssumption DEF AlertInit, AlertTypeOK, Rule
  <1>4. Counted
    BY <1>1, <1>2 DEF Counted, AllBreached
  <1>5. Paced
    BY <1>1 DEF AlertInit, Paced
  <1> QED BY <1>3, <1>4, <1>5 DEF AlertIInv

(* A round begins: no rule has had its turn in it.                         *)
LEMMA StartRoundKeeps == AlertIInv /\ StartRound => AlertIInv'
  <1> SUFFICES ASSUME AlertIInv, StartRound PROVE AlertIInv'
    OBVIOUS
  <1>1. round' \in Nat /\ round' = round + 1 /\ round' \in 0..MaxRounds
    BY RulesAssumption DEF AlertIInv, AlertTypeOK, StartRound
  <1>2. AlertTypeOK'
    BY <1>1, RulesAssumption DEF AlertIInv, AlertTypeOK, StartRound, Rule
  <1>3. Counted'
    BY DEF AlertIInv, Counted, AllBreached, StartRound
  <1>4. Paced'
    <2>1. round \in Nat /\ turn = 0 /\ \A r \in Rule : consecutive[r] \in Nat
      BY RulesAssumption DEF AlertIInv, AlertTypeOK, StartRound
    <2>2. \A r \in Rule : consecutive[r] <= round
      BY <2>1 DEF AlertIInv, Paced
    <2>3. ASSUME NEW r \in Rule PROVE consecutive'[r] < round'
      BY <1>1, <2>1, <2>2 DEF StartRound
    <2>4. ASSUME NEW r \in Rule PROVE consecutive'[r] <= round'
      BY <1>1, <2>1, <2>2 DEF StartRound
    <2> QED BY <2>3, <2>4 DEF Paced
  <1> QED BY <1>2, <1>3, <1>4 DEF AlertIInv

(* How a turn ends: with the next rule's, or with the round's.             *)
LEMMA TurnEnds ==
    ASSUME AlertIInv, Turn, Pass \/ (turn' = 0 /\ UNCHANGED round)
    PROVE  /\ turn \in Rule /\ turn' \in 0..Rules /\ round' = round
           /\ turn' = 0 \/ turn' = turn + 1
  <1>1. Rules \in Nat /\ turn \in 0..Rules /\ turn # 0
    BY RulesAssumption DEF AlertIInv, AlertTypeOK, Turn
  <1>2. turn \in Rule
    BY <1>1 DEF Rule
  <1>3. turn' \in {0, IF turn = Rules THEN 0 ELSE turn + 1} /\ round' = round
    BY DEF Pass
  <1> QED BY <1>1, <1>2, <1>3

(* A turn without a sample that counts.                                    *)
LEMMA IdleTurnKeeps ==
    ASSUME AlertIInv, Turn, Pass, UNCHANGED <<consecutive, active, history, called>>
    PROVE  AlertIInv'
  <1>1. turn \in Rule /\ turn' \in 0..Rules /\ round' = round /\ (turn' = 0 \/ turn' = turn + 1)
    BY TurnEnds
  <1>2. AlertTypeOK'
    BY <1>1 DEF AlertIInv, AlertTypeOK
  <1>3. Counted'
    BY DEF AlertIInv, Counted, AllBreached
  <1>4. Paced'
    BY <1>1, RulesAssumption DEF AlertIInv, AlertTypeOK, Paced, Rule
  <1> QED BY <1>2, <1>3, <1>4 DEF AlertIInv

(* A sample is evaluated: it is appended, counted or the count reset, and  *)
(* the rule is active from the count that is needed on.                    *)
LEMMA EvaluationKeeps ==
    ASSUME AlertIInv, Turn, Pass \/ (turn' = 0 /\ UNCHANGED round),
           NEW b \in BOOLEAN,
           history' = [history EXCEPT ![turn] = Append(@, b)],
           consecutive' = [consecutive EXCEPT ![turn] = IF b THEN @ + 1 ELSE 0],
           active' = [active EXCEPT ![turn] =
                        IF b THEN @ \/ consecutive[turn] + 1 >= Debounce[turn] ELSE FALSE],
           called' \in [Rule -> Seq({"trigger", "clear"} \X Nat)]
    PROVE  AlertIInv'
  <1>1. turn \in Rule /\ turn' \in 0..Rules /\ round' = round /\ (turn' = 0 \/ turn' = turn + 1)
    BY TurnEnds
  <1> DEFINE h  == history[turn]
             c  == consecutive[turn]
             h1 == history'[turn]
             c1 == consecutive'[turn]
  <1>2. /\ h \in Seq(BOOLEAN) /\ Len(h) \in Nat
        /\ c \in Nat /\ c <= Len(h) /\ c < round /\ round \in Nat /\ round <= MaxRounds
        /\ active[turn] \in BOOLEAN
    <2>1. h \in Seq(BOOLEAN)
      BY <1>1 DEF AlertIInv, AlertTypeOK
    <2>2. c \in Nat /\ c <= Len(h) /\ round \in Nat /\ round <= MaxRounds /\ active[turn] \in BOOLEAN
      BY <1>1, RulesAssumption DEF AlertIInv, AlertTypeOK
    <2>3. c < round
      BY <1>1, RulesAssumption DEF AlertIInv, Paced, Turn, Rule
    <2> QED BY <2>1, <2>2, <2>3, LenProperties
  <1>3. /\ h1 \in Seq(BOOLEAN) /\ Len(h1) = Len(h) + 1 /\ h1[Len(h) + 1] = b
        /\ \A j \in 1..Len(h) : h1[j] = h[j]
    <2>1. h1 = Append(h, b)
      BY <1>1 DEF AlertIInv, AlertTypeOK
    <2> HIDE DEF h, h1
    <2>2. h1 \in Seq(BOOLEAN) /\ Len(h1) = Len(h) + 1
      BY <1>2, <2>1, AppendProperties, Zenon
    <2>3. h1[Len(h) + 1] = b
      BY <1>2, <2>1, AppendProperties, Zenon
    <2>4. ASSUME NEW j \in 1..Len(h) PROVE h1[j] = h[j]
      <3>1. Append(h, b)[j] = h[j]
        BY <1>2, AppendProperties
      <3> QED BY <2>1, <3>1, Zenon
    <2> QED BY <2>2, <2>3, <2>4, Zenon
  <1>4. c1 = IF b THEN c + 1 ELSE 0
    BY <1>1 DEF AlertIInv, AlertTypeOK
  <1>5. \A r \in Rule : r # turn => /\ history'[r] = history[r]
                                    /\ consecutive'[r] = consecutive[r]
                                    /\ active'[r] = active[r]
    BY DEF AlertIInv, AlertTypeOK
  <1>6. c1 \in Nat /\ c1 <= Len(h1) /\ c1 <= round
    BY <1>2, <1>3, <1>4
  <1>7. AlertTypeOK'
    <2>1. history' \in [Rule -> Seq(BOOLEAN)]
      BY <1>1, <1>3 DEF AlertIInv, AlertTypeOK
    <2>2. consecutive' \in [Rule -> 0..MaxRounds]
      <3>1. c1 \in 0..MaxRounds
        BY <1>2, <1>6, RulesAssumption
      <3> QED BY <1>1, <3>1 DEF AlertIInv, AlertTypeOK
    <2>3. active' \in [Rule -> BOOLEAN]
      BY <1>1, <1>2 DEF AlertIInv, AlertTypeOK
    <2>4. \A r \in Rule : consecutive'[r] <= Len(history'[r])
      BY <1>5, <1>6 DEF AlertIInv, AlertTypeOK
    <2> QED BY <1>1, <2>1, <2>2, <2>3, <2>4 DEF AlertIInv, AlertTypeOK
  <1>8. /\ c1 <= Len(h1)
        /\ \A j \in (Len(h1) - c1 + 1)..Len(h1) : h1[j]
        /\ c1 < Len(h1) => ~h1[Len(h1) - c1]
        /\ active'[turn] <=> c1 >= Needed(turn)
    <2>1. /\ \A j \in (Len(h) - c + 1)..Len(h) : h[j]
          /\ c < Len(h) => ~h[Len(h) - c]
          /\ active[turn] <=> c >= Needed(turn)
      BY <1>1 DEF AlertIInv, Counted, AllBreached
    <2>2. Needed(turn) \in Nat /\ Needed(turn) > 0 /\ Debounce[turn] \in Nat
      BY <1>1, RulesAssumption DEF Needed
    <2>3. active'[turn] = IF b THEN active[turn] \/ c + 1 >= Debounce[turn] ELSE FALSE
      BY <1>1 DEF AlertIInv, AlertTypeOK
    <2> HIDE DEF h, c, h1, c1
    <2>4. CASE b
      <3>1. c1 = c + 1 /\ Len(h1) - c1 = Len(h) - c
        BY <2>4, <1>2, <1>3, <1>4
      <3>2. ASSUME NEW j \in (Len(h1) - c1 + 1)..Len(h1)
            PROVE  h1[j]
        <4>1. j = Len(h) + 1 \/ (j \in (Len(h) - c + 1)..Len(h) /\ j \in 1..Len(h))
          BY <3>1, <1>2, <1>3
        <4>2. CASE j = Len(h) + 1
          BY <4>2, <2>4, <1>3, Zenon
        <4>3. CASE j \in (Len(h) - c + 1)..Len(h) /\ j \in 1..Len(h)
          BY <4>3, <2>1, <1>3, Zenon
        <4> QED BY <4>1, <4>2, <4>3
      <3>3. ASSUME c1 < Len(h1) PROVE ~h1[Len(h1) - c1]
        <4>1. c < Len(h) /\ Len(h) - c \in 1..Len(h)
          BY <3>1, <3>3, <1>2, <1>3
        <4>2. h1[Len(h) - c] = h[Len(h) - c] /\ ~h[Len(h) - c]
          BY <4>1, <2>1, <1>3, Zenon
        <4> QED BY <4>2, <3>1, Zenon
      <3>4. active'[turn] <=> c1 >= Needed(turn)
        <4>1. c1 >= Needed(turn) <=> (c >= Needed(turn) \/ c + 1 >= Debounce[turn])
          BY <3>1, <2>2, <1>2 DEF Needed
        <4>2. active'[turn] = (active[turn] \/ c + 1 >= Debounce[turn])
          BY <2>3, <2>4, Zenon
        <4> QED BY <4>1, <4>2, <2>1, Zenon
      <3> QED BY <1>6, <3>2, <3>3, <3>4, Zenon
    <2>5. CASE ~b
      <3>1. c1 = 0 /\ Len(h1) = Len(h) + 1 /\ Len(h1) - c1 = Len(h) + 1
        BY <2>5, <1>2, <1>3, <1>4
      <3>2. ~h1[Len(h1) - c1]
        BY <3>1, <2>5, <1>3, Zenon
      <3>3. ~(c1 >= Needed(turn))
        BY <3>1, <2>2
      <3>4. ~active'[turn]
        BY <2>3, <2>5, Zenon
      <3>5. \A j \in (Len(h1) - c1 + 1)..Len(h1) : FALSE
        BY <3>1, <1>2
      <3> QED BY <1>6, <3>2, <3>3, <3>4, <3>5, Zenon
    <2> QED BY <2>4, <2>5
  <1>9. Counted'
    <2> SUFFICES ASSUME NEW r \in Rule
                 PROVE  /\ AllBreached(r, Len(history[r]), consecutive[r])'
                        /\ (consecutive[r] < Len(history[r]) =>
                              ~history[r][Len(history[r]) - consecutive[r]])'
                        /\ (active[r] <=> consecutive[r] >= Needed(r))'
      BY DEF Counted
    <2>1. CASE r = turn
      BY <2>1, <1>8 DEF AllBreached, Needed
    <2>2. CASE r # turn
      BY <2>2, <1>5 DEF AlertIInv, Counted, AllBreached, Needed
    <2> QED BY <2>1, <2>2
  <1>10. Paced'
    <2> SUFFICES ASSUME NEW r \in Rule
                 PROVE  (IF turn # 0 /\ turn <= r THEN consecutive[r] < round
                         ELSE consecutive[r] <= round)'
      BY DEF Paced
    <2>1. CASE r = turn
      BY <2>1, <1>1, <1>2, <1>6, RulesAssumption DEF Rule
    <2>2. CASE r # turn
      <3>1. /\ consecutive'[r] = consecutive[r] /\ consecutive[r] \in Nat
            /\ r \in Nat /\ turn \in Nat /\ turn # 0 /\ round \in Nat
        <4>1. consecutive'[r] = consecutive[r]
          BY <2>2, <1>5
        <4>2. consecutive[r] \in Nat /\ round \in Nat
          BY RulesAssumption DEF AlertIInv, AlertTypeOK
        <4>3. r \in Nat /\ turn \in Nat
          BY <1>1, RulesAssumption DEF Rule
        <4> QED BY <4>1, <4>2, <4>3 DEF Turn
      <3>2. IF turn # 0 /\ turn <= r THEN consecutive[r] < round ELSE consecutive[r] <= round
        BY DEF AlertIInv, Paced
      <3> QED BY <3>1, <3>2, <1>1
    <2> QED BY <2>1, <2>2
  <1> QED BY <1>7, <1>9, <1>10 DEF AlertIInv

(* What Notify leaves of the callbacks made.                               *)
LEMMA NotifyTyped ==
    ASSUME AlertIInv, Turn, NEW what \in {"trigger", "clear"}, Notify(what),
           history'[turn] \in Seq(BOOLEAN)
    PROVE  called' \in [Rule -> Seq({"trigger", "clear"} \X Nat)]
  <1>1. <<what, Len(history'[turn])>> \in {"trigger", "clear"} \X Nat
    BY LenProperties
  <1>2. turn \in Rule
    BY RulesAssumption DEF AlertIInv, AlertTypeOK, Turn, Rule
  <1>3. Append(called[turn], <<what, Len(history'[turn])>>) \in Seq({"trigger", "clear"} \X Nat)
    BY <1>1, <1>2, AppendProperties DEF AlertIInv, AlertTypeOK
  <1> QED BY <1>2, <1>3 DEF Notify, AlertIInv, AlertTypeOK

(* The sample appended is a truth value.                                   *)
LEMMA HistoryTyped ==
    ASSUME AlertIInv, Turn, NEW b \in BOOLEAN,
           history' = [history EXCEPT ![turn] = Append(@, b)]
    PROVE  turn \in Rule /\ history'[turn] \in Seq(BOOLEAN)
  <1>1. turn \in Rule
    BY RulesAssumption DEF AlertIInv, AlertTypeOK, Turn, Rule
  <1>2. Append(history[turn], b) \in Seq(BOOLEAN)
    BY <1>1, AppendProperties DEF AlertIInv, AlertTypeOK
  <1> QED BY <1>1, <1>2 DEF AlertIInv, AlertTypeOK

(* A rule is active from the count that is needed on, and stays so. *)
LEMMA BreachActivates ==
    ASSUME AlertIInv, Turn, NEW v \in Values, Breached(v)
    PROVE  active' = [active EXCEPT ![turn] =
                        IF TRUE THEN @ \/ consecutive[turn] + 1 >= Debounce[turn] ELSE FALSE]
  <1>1. turn \in Rule
    BY RulesAssumption DEF AlertIInv, AlertTypeOK, Turn, Rule
  <1>2. active[turn] \in BOOLEAN /\ active \in [Rule -> BOOLEAN]
    BY <1>1 DEF AlertIInv, AlertTypeOK
  <1>3. CASE Due
    BY <1>1, <1>2, <1>3 DEF Due, Breached
  <1>4. CASE ~Due
    <2>1. active' = active
      BY <1>4 DEF Breached
    <2>2. (active[turn] \/ consecutive[turn] + 1 >= Debounce[turn]) = active[turn]
      BY <1>2, <1>4 DEF Due
    <2> QED BY <1>1, <1>2, <2>1, <2>2
  <1> QED BY <1>3, <1>4

LEMMA BreachedKeeps ==
    ASSUME AlertIInv, NEW v \in Values, Breached(v)
    PROVE  AlertIInv'
  <1>1. Turn /\ history' = [history EXCEPT ![turn] = Append(@, TRUE)]
    BY DEF Breached
  <1>2. turn \in Rule /\ history'[turn] \in Seq(BOOLEAN)
    BY <1>1, HistoryTyped
  <1>3. active' = [active EXCEPT ![turn] =
                     IF TRUE THEN @ \/ consecutive[turn] + 1 >= Debounce[turn] ELSE FALSE]
    BY <1>1, BreachActivates
  <1>4. consecutive' = [consecutive EXCEPT ![turn] = IF TRUE THEN @ + 1 ELSE 0]
    BY DEF Breached
  <1>5. CASE Due
    <2>1. Notify("trigger")
      BY <1>5 DEF Breached
    <2>2. called' \in [Rule -> Seq({"trigger", "clear"} \X Nat)]
      BY <1>1, <1>2, <2>1, NotifyTyped
    <2>3. Pass \/ (turn' = 0 /\ UNCHANGED round)
      BY <2>1 DEF Notify
    <2> QED BY <1>1, <1>3, <1>4, <2>2, <2>3, EvaluationKeeps
  <1>6. CASE ~Due
    <2>1. called' = called /\ Pass
      BY <1>6 DEF Breached
    <2>2. called' \in [Rule -> Seq({"trigger", "clear"} \X Nat)]
      BY <2>1 DEF AlertIInv, AlertTypeOK
    <2> QED BY <1>1, <1>3, <1>4, <2>1, <2>2, EvaluationKeeps
  <1> QED BY <1>5, <1>6

LEMMA NormalKeeps ==
    ASSUME AlertIInv, NEW v \in Values, Normal(v)
    PROVE  AlertIInv'
  <1>1. Turn /\ history' = [history EXCEPT ![turn] = Append(@, FALSE)]
    BY DEF Normal
  <1>2. turn \in Rule /\ history'[turn] \in Seq(BOOLEAN)
    BY <1>1, HistoryTyped
  <1>3. /\ consecutive' = [consecutive EXCEPT ![turn] = IF FALSE THEN @ + 1 ELSE 0]
        /\ active' = [active EXCEPT ![turn] =
                        IF FALSE THEN @ \/ consecutive[turn] + 1 >= Debounce[turn] ELSE FALSE]
    BY DEF Normal
  <1>4. CASE active[turn] /\ HasClear[turn]
    <2>1. Notify("clear")
      BY <1>4 DEF Normal
    <2>2. called' \in [Rule -> Seq({"trigger", "clear"} \X Nat)]
      BY <1>1, <1>2, <2>1, NotifyTyped
    <2>3. Pass \/ (turn' = 0 /\ UNCHANGED round)
      BY <2>1 DEF Notify
    <2> QED BY <1>1, <1>3, <2>2, <2>3, EvaluationKeeps
  <1>5. CASE ~(active[turn] /\ HasClear[turn])
    <2>1. called' = called /\ Pass
      BY <1>5 DEF Normal
    <2>2. called' \in [Rule -> Seq({"trigger", "clear"} \X Nat)]
      BY <2>1 DEF AlertIInv, AlertTypeOK
    <2> QED BY <1>1, <1>3, <2>1, <2>2, EvaluationKeeps
  <1> QED BY <1>4, <1>5

(* AlertIInv holds in every reachable state of the engine.                 *)
THEOREM AlertInvariance == AlertSpec => []AlertIInv
  <1>1. AlertIInv /\ [AlertNext]_alertVars => AlertIInv'
    <2> SUFFICES ASSUME AlertIInv, [AlertNext]_alertVars PROVE AlertIInv'
      OBVIOUS
    <2>1. CASE StartRound
      BY <2>1, StartRoundKeeps
    <2>2. CASE ReadFails
      BY <2>2, IdleTurnKeeps DEF ReadFails
    <2>3. ASSUME NEW v \in Values, PredicateFails(v) PROVE AlertIInv'
      BY <2>3, IdleTurnKeeps DEF PredicateFails
    <2>4. ASSUME NEW v \in Values, Breached(v) PROVE AlertIInv'
      BY <2>4, BreachedKeeps
    <2>5. ASSUME NEW v \in Values, Normal(v) PROVE AlertIInv'
      BY <2>5, NormalKeeps
    <2>6. CASE UNCHANGED alertVars
      BY <2>6 DEF alertVars, AlertIInv, AlertTypeOK, Counted, Paced, AllBreached, Needed
    <2> QED BY <2>1, <2>2, <2>3, <2>4, <2>5, <2>6 DEF AlertNext
  <1> QED BY <1>1, AlertInitially, PTL DEF AlertSpec

(* The engine's state stays in its range.                                  *)
THEOREM AlertTypeCorrect == AlertSpec => []AlertTypeOK
  <1>1. AlertIInv => AlertTypeOK
    BY DEF AlertIInv
  <1> QED BY <1>1, AlertInvariance, PTL

(* The counter says more than is promised: a rule is active exactly when   *)
(* its last `debounce` evaluated samples all breached.                     *)
LEMMA ActiveExactly ==
    ASSUME AlertIInv, NEW r \in Rule
    PROVE  active[r] <=> AllBreached(r, Len(history[r]), Needed(r))
  <1>1. /\ history[r] \in Seq(BOOLEAN) /\ Len(history[r]) \in Nat
        /\ consecutive[r] \in Nat /\ Needed(r) \in Nat
        /\ consecutive[r] <= Len(history[r])
    BY RulesAssumption, LenProperties DEF AlertIInv, AlertTypeOK, Needed
  <1>2. /\ \A j \in (Len(history[r]) - consecutive[r] + 1)..Len(history[r]) : history[r][j]
        /\ consecutive[r] < Len(history[r]) => ~history[r][Len(history[r]) - consecutive[r]]
        /\ active[r] <=> consecutive[r] >= Needed(r)
    BY DEF AlertIInv, Counted, AllBreached
  <1>3. CASE consecutive[r] >= Needed(r)
    BY <1>1, <1>2, <1>3 DEF AllBreached
  <1>4. CASE consecutive[r] < Needed(r)
    <2>1. SUFFICES ASSUME AllBreached(r, Len(history[r]), Needed(r)) PROVE FALSE
      BY <1>1, <1>2, <1>4
    <2>2. Len(history[r]) - consecutive[r] \in
             (Len(history[r]) - Needed(r) + 1)..Len(history[r])
      BY <1>1, <1>4
    <2> QED BY <1>1, <1>2, <1>4, <2>1, <2>2 DEF AllBreached
  <1> QED BY <1>1, <1>3, <1>4

(* A rule is active once its last `debounce` evaluated samples all         *)
(* breached, and no longer once they were all normal (alerting.py,         *)
(* _evaluate), whatever failed in between.                                 *)
THEOREM AlarmsFollow == AlertSpec => []AlarmFollowsSignal
  <1>1. AlertIInv => AlarmFollowsSignal
    <2> SUFFICES ASSUME AlertIInv, NEW r \in Rule,
                        AllNormal(r, Len(history[r]), Needed(r)),
                        AllBreached(r, Len(history[r]), Needed(r))
                 PROVE  FALSE
      BY ActiveExactly DEF AlarmFollowsSignal
    <2>1. Needed(r) \in Nat \ {0} /\ Len(history[r]) \in Nat
      BY RulesAssumption, LenProperties DEF AlertIInv, AlertTypeOK, Needed
    <2>2. Len(history[r]) \in (Len(history[r]) - Needed(r) + 1)..Len(history[r])
      BY <2>1
    <2> QED BY <2>2 DEF AllBreached, AllNormal
  <1> QED BY <1>1, AlertInvariance, PTL

(***************************************************************************)
(* The callbacks.  What Onsets and Normals say of a rule, of any sequence. *)
(***************************************************************************)
AllOf(h, i, count) == i >= count /\ \A j \in (i - count + 1)..i : h[j]

OnsetsOf(h, need) == {i \in 1..Len(h) : AllOf(h, i, need) /\ ~AllOf(h, i, need + 1)}
NormalsOf(h)      == {i \in 1..Len(h) : ~h[i]}

(* h ends with c breaching samples, and not with more. *)
EndsWith(h, c) == /\ h \in Seq(BOOLEAN) /\ c <= Len(h)
                  /\ AllOf(h, Len(h), c)
                  /\ c < Len(h) => ~h[Len(h) - c]

LEMMA SoManyAtTheEnd ==
    ASSUME NEW h, NEW c \in Nat, EndsWith(h, c), NEW count \in Nat
    PROVE  AllOf(h, Len(h), count) <=> count <= c
  <1>1. Len(h) \in Nat
    BY LenProperties DEF EndsWith
  <1>2. CASE count <= c
    BY <1>1, <1>2 DEF EndsWith, AllOf
  <1>3. CASE count > c
    <2>1. ASSUME AllOf(h, Len(h), count) PROVE FALSE
      <3>1. c < Len(h) /\ Len(h) - c \in (Len(h) - count + 1)..Len(h)
        BY <1>1, <1>3, <2>1 DEF AllOf
      <3> QED BY <2>1, <3>1 DEF EndsWith, AllOf
    <2> QED BY <1>3, <2>1
  <1> QED BY <1>2, <1>3

(* What one more sample adds: an onset when it completes the run of breaches*)
(* that is needed, and no other.                                           *)
OneLonger(h, h1) == /\ h1 \in Seq(BOOLEAN) /\ Len(h1) = Len(h) + 1
                    /\ \A j \in 1..Len(h) : h1[j] = h[j]
Breach(h1) == h1[Len(h1)]

LEMMA OneMoreSample ==
    ASSUME NEW h, NEW c \in Nat, EndsWith(h, c), NEW need \in Nat \ {0},
           NEW h1, OneLonger(h, h1)
    PROVE  /\ Breach(h1) /\ c + 1 = need =>
                OnsetsOf(h1, need) = OnsetsOf(h, need) \union {Len(h) + 1}
           /\ ~(Breach(h1) /\ c + 1 = need) => OnsetsOf(h1, need) = OnsetsOf(h, need)
  <1>1. PICK n \in Nat : n = Len(h)
    BY LenProperties DEF EndsWith
  <1>b. PICK b \in BOOLEAN : b = Breach(h1)
    <2>1. Len(h1) \in 1..Len(h1)
      BY <1>1 DEF OneLonger
    <2> QED BY <2>1, ElementOfSeq DEF OneLonger, Breach
  <1>2. /\ Len(h1) = n + 1 /\ h1[n + 1] = b
        /\ \A j \in 1..n : h1[j] = h[j]
    BY <1>1, <1>b DEF OneLonger, Breach
  <1>3. ASSUME NEW i \in 1..n, NEW count \in Nat
        PROVE  AllOf(h1, i, count) <=> AllOf(h, i, count)
    BY <1>2, <1>3 DEF AllOf
  <1>4. ASSUME NEW count \in Nat \ {0}
        PROVE  AllOf(h1, n + 1, count) <=> b /\ count <= c + 1
    <2>1. AllOf(h, n, count - 1) <=> count - 1 <= c
      BY <1>1, SoManyAtTheEnd
    <2>2. PICK m \in Nat : m = n + 1
      OBVIOUS
    <2>3. h1[m] = b
      BY <1>2, <2>2
    <2>4. CASE m >= count
      <3>1. ASSUME AllOf(h1, m, count) PROVE b /\ AllOf(h, n, count - 1)
        <4>1. m \in (m - count + 1)..m
          BY <2>2
        <4>2. h1[m]
          BY <3>1, <4>1, Zenon DEF AllOf
        <4>3. \A j \in (n - (count - 1) + 1)..n : j \in (m - count + 1)..m /\ j \in 1..n
          BY <2>2, <2>4
        <4>4. ASSUME NEW j \in (n - (count - 1) + 1)..n PROVE h[j]
          <5>1. h1[j]
            BY <3>1, <4>3, Zenon DEF AllOf
          <5> QED BY <1>2, <4>3, <5>1, Zenon
        <4>5. n >= count - 1
          BY <2>2, <2>4
        <4> QED BY <2>3, <4>2, <4>4, <4>5, Zenon DEF AllOf
      <3>2. ASSUME b, AllOf(h, n, count - 1) PROVE AllOf(h1, m, count)
        <4>1. ASSUME NEW j \in (m - count + 1)..m PROVE h1[j]
          <5>1. j = m \/ (j \in (n - (count - 1) + 1)..n /\ j \in 1..n)
            BY <2>2, <2>4
          <5>2. CASE j = m
            BY <2>3, <3>2, <5>2, Zenon
          <5>3. CASE j \in (n - (count - 1) + 1)..n /\ j \in 1..n
            BY <1>2, <3>2, <5>3, Zenon DEF AllOf
          <5> QED BY <5>1, <5>2, <5>3
        <4> QED BY <2>4, <4>1, Zenon DEF AllOf
      <3> QED BY <2>1, <2>2, <3>1, <3>2
    <2>5. CASE ~(m >= count)
      <3>1. ~AllOf(h1, m, count)
        BY <2>5, Zenon DEF AllOf
      <3>2. c <= n
        BY <1>1 DEF EndsWith
      <3> QED BY <2>2, <2>5, <3>1, <3>2
    <2> QED BY <2>4, <2>5
  <1>5. OnsetsOf(h1, need) = {i \in 1..(n + 1) : AllOf(h1, i, need) /\ ~AllOf(h1, i, need + 1)}
    BY <1>2 DEF OnsetsOf
  <1>6. \A i \in 1..n : i \in OnsetsOf(h1, need) <=> i \in OnsetsOf(h, need)
    <2> SUFFICES ASSUME NEW i \in 1..n PROVE i \in OnsetsOf(h1, need) <=> i \in OnsetsOf(h, need)
      OBVIOUS
    <2>1. AllOf(h1, i, need) <=> AllOf(h, i, need)
      BY <1>3
    <2>2. AllOf(h1, i, need + 1) <=> AllOf(h, i, need + 1)
      BY <1>3
    <2> QED BY <1>1, <1>5, <2>1, <2>2 DEF OnsetsOf
  <1>7. n + 1 \in OnsetsOf(h1, need) <=> b /\ c + 1 = need
    <2>1. AllOf(h1, n + 1, need) <=> b /\ need <= c + 1
      BY <1>4
    <2>2. AllOf(h1, n + 1, need + 1) <=> b /\ need + 1 <= c + 1
      BY <1>4
    <2>3. n + 1 \in 1..(n + 1)
      OBVIOUS
    <2> QED BY <1>5, <2>1, <2>2, <2>3
  <1>8. OnsetsOf(h1, need) \subseteq 1..(n + 1) /\ OnsetsOf(h, need) \subseteq 1..n
    BY <1>1, <1>5 DEF OnsetsOf
  <1>9. \A i \in 1..(n + 1) : i \in 1..n \/ i = n + 1
    OBVIOUS
  <1> HIDE DEF OnsetsOf
  <1>10. OnsetsOf(h1, need) = IF b /\ c + 1 = need THEN OnsetsOf(h, need) \union {n + 1}
                              ELSE OnsetsOf(h, need)
    <2>1. CASE b /\ c + 1 = need
      BY <1>6, <1>7, <1>8, <1>9, <2>1
    <2>2. CASE ~(b /\ c + 1 = need)
      <3>1. OnsetsOf(h1, need) = OnsetsOf(h, need)
        <4>1. n + 1 \notin OnsetsOf(h1, need)
          BY <1>7, <2>2, Zenon
        <4> QED BY <1>6, <1>8, <1>9, <4>1
      <3> QED BY <2>2, <3>1, Zenon
    <2> QED BY <2>1, <2>2
  <1> QED BY <1>1, <1>b, <1>10

(* What is true of the callbacks s made for a history h: what              *)
(* CallbacksInTurn says, and that an active rule has breached ever since   *)
(* it was announced.                                                       *)
Told(h, s, need, clears, act) ==
    /\ \A i \in 1..Len(s) :
          /\ s[i][1] = IF clears /\ i % 2 = 0 THEN "clear" ELSE "trigger"
          /\ s[i][2] \in IF s[i][1] = "trigger" THEN OnsetsOf(h, need) ELSE NormalsOf(h)
          /\ i > 1 => s[i - 1][2] < s[i][2]
    /\ act => /\ s # <<>> /\ s[Len(s)][1] = "trigger"
              /\ \A j \in s[Len(s)][2]..Len(h) : h[j]
    /\ clears /\ ~act => s = <<>> \/ s[Len(s)][1] = "clear"

Telling == \A r \in Rule : Told(history[r], called[r], Needed(r), HasClear[r], active[r])

(* One more sample, which breaches (b) or does not, and nothing is called. *)
LEMMA ToldQuietly ==
    ASSUME NEW h, NEW c \in Nat, EndsWith(h, c), NEW need \in Nat \ {0},
           NEW s \in Seq({"trigger", "clear"} \X Nat), NEW clears \in BOOLEAN,
           Told(h, s, need, clears, need <= c),
           NEW h1, OneLonger(h, h1),
           IF Breach(h1) THEN c + 1 # need ELSE need > c \/ ~clears
    PROVE  Told(h1, s, need, clears, Breach(h1) /\ need <= c + 1)
  <1>1. PICK n \in Nat : n = Len(h)
    BY LenProperties DEF EndsWith
  <1>2. Len(h1) = n + 1 /\ \A j \in 1..n : h1[j] = h[j]
    BY <1>1 DEF OneLonger
  <1>3. OnsetsOf(h, need) \subseteq OnsetsOf(h1, need) /\ NormalsOf(h) \subseteq NormalsOf(h1)
    <2>1. OnsetsOf(h, need) \subseteq OnsetsOf(h1, need)
      BY OneMoreSample
    <2>2. NormalsOf(h) \subseteq NormalsOf(h1)
      BY <1>1, <1>2 DEF NormalsOf
    <2> QED BY <2>1, <2>2
  <1>4. ASSUME NEW i \in 1..Len(s)
        PROVE  /\ s[i][1] = IF clears /\ i % 2 = 0 THEN "clear" ELSE "trigger"
               /\ s[i][2] \in IF s[i][1] = "trigger" THEN OnsetsOf(h1, need) ELSE NormalsOf(h1)
               /\ i > 1 => s[i - 1][2] < s[i][2]
    BY <1>3 DEF Told
  <1>5. CASE Breach(h1) /\ need <= c + 1
    <2>1. need <= c
      BY <1>5
    <2>2. s # <<>> /\ s[Len(s)][1] = "trigger" /\ \A j \in s[Len(s)][2]..n : h[j]
      BY <1>1, <2>1 DEF Told
    <2>3. PICK p \in Nat : p = s[Len(s)][2] /\ p > 0
      <3>1. Len(s) \in 1..Len(s) /\ s[Len(s)][2] \in OnsetsOf(h, need)
        BY <2>2, LenProperties, EmptySeq DEF Told
      <3> QED BY <1>1, <3>1 DEF OnsetsOf
    <2>4. ASSUME NEW j \in p..(n + 1) PROVE h1[j]
      <3>1. j = n + 1 \/ (j \in p..n /\ j \in 1..n)
        BY <2>3
      <3>2. CASE j = n + 1
        BY <1>2, <1>5, <3>2 DEF Breach
      <3>3. CASE j \in p..n /\ j \in 1..n
        BY <1>2, <2>2, <2>3, <3>3
      <3> QED BY <3>1, <3>2, <3>3
    <2> QED BY <1>2, <1>4, <1>5, <2>2, <2>3, <2>4 DEF Told
  <1>6. CASE ~(Breach(h1) /\ need <= c + 1)
    <2>1. clears => ~(need <= c)
      BY <1>6
    <2>2. clears => s = <<>> \/ s[Len(s)][1] = "clear"
      BY <2>1 DEF Told
    <2> QED BY <1>4, <1>6, <2>2 DEF Told
  <1> QED BY <1>5, <1>6

(* One more sample, and the callback that is due after it. *)
LEMMA ToldAloud ==
    ASSUME NEW h, NEW c \in Nat, EndsWith(h, c), NEW need \in Nat \ {0},
           NEW s \in Seq({"trigger", "clear"} \X Nat), NEW clears \in BOOLEAN,
           Told(h, s, need, clears, need <= c),
           NEW h1, OneLonger(h, h1),
           NEW what, what = IF Breach(h1) THEN "trigger" ELSE "clear",
           IF Breach(h1) THEN c + 1 = need ELSE need <= c /\ clears
    PROVE  Told(h1, Append(s, <<what, Len(h1)>>), need, clears, Breach(h1) /\ need <= c + 1)
  <1>1. PICK n \in Nat : n = Len(h)
    BY LenProperties DEF EndsWith
  <1>2. PICK m \in Nat : m = Len(s)
    BY LenProperties
  <1>3. PICK t : t = Append(s, <<what, Len(h1)>>)
    OBVIOUS
  <1>4. Len(h1) = n + 1 /\ \A j \in 1..n : h1[j] = h[j]
    BY <1>1 DEF OneLonger
  <1>5. /\ Len(t) = m + 1 /\ t[m + 1] = <<what, n + 1>> /\ t # <<>>
        /\ \A i \in 1..m : t[i] = s[i]
    <2>1. what \in {"trigger", "clear"}
      OBVIOUS
    <2>2. <<what, n + 1>> \in {"trigger", "clear"} \X Nat
      BY <2>1
    <2> QED BY <1>2, <1>3, <1>4, <2>2, AppendProperties
  <1>6. OnsetsOf(h, need) \subseteq OnsetsOf(h1, need) /\ NormalsOf(h) \subseteq NormalsOf(h1)
    <2>1. OnsetsOf(h, need) \subseteq OnsetsOf(h1, need)
      BY OneMoreSample
    <2>2. NormalsOf(h) \subseteq NormalsOf(h1)
      BY <1>1, <1>4 DEF NormalsOf
    <2> QED BY <2>1, <2>2
  <1>7. ASSUME NEW i \in 1..m
        PROVE  /\ t[i][1] = IF clears /\ i % 2 = 0 THEN "clear" ELSE "trigger"
               /\ t[i][2] \in IF t[i][1] = "trigger" THEN OnsetsOf(h1, need) ELSE NormalsOf(h1)
               /\ t[i][2] \in 1..n
               /\ i > 1 => t[i - 1][2] < t[i][2]
    <2>1. /\ s[i][1] = IF clears /\ i % 2 = 0 THEN "clear" ELSE "trigger"
          /\ s[i][2] \in IF s[i][1] = "trigger" THEN OnsetsOf(h, need) ELSE NormalsOf(h)
          /\ i > 1 => s[i - 1][2] < s[i][2]
      BY <1>2 DEF Told
    <2>2. s[i][2] \in 1..n
      BY <1>1, <2>1 DEF OnsetsOf, NormalsOf
    <2>3. t[i] = s[i] /\ (i > 1 => t[i - 1] = s[i - 1])
      BY <1>5
    <2> QED BY <1>6, <2>1, <2>2, <2>3
  <1>8. t[m + 1][1] = what /\ t[m + 1][2] = n + 1
    BY <1>5
  <1>9. m + 1 > 1 => t[m][2] < n + 1
    <2>1. CASE m > 0
      <3>1. m \in 1..m
        BY <2>1
      <3>2. t[m][2] \in 1..n
        BY <1>7, <3>1
      <3> QED BY <3>2
    <2> QED BY <2>1
  <1>10. m > 0 => m \in 1..m /\ s # <<>> /\ (s[m][1] = IF clears /\ m % 2 = 0 THEN "clear" ELSE "trigger")
    BY <1>2, EmptySeq DEF Told
  <1>11. CASE Breach(h1)
    <2>1. what = "trigger" /\ c + 1 = need /\ ~(need <= c) /\ need <= c + 1
      BY <1>11
    <2>2. n + 1 \in OnsetsOf(h1, need)
      BY <1>1, <1>11, <2>1, OneMoreSample
    <2>3. clears => (m + 1) % 2 # 0
      <3> SUFFICES ASSUME clears PROVE (m + 1) % 2 # 0
        OBVIOUS
      <3>1. m = 0 \/ m % 2 = 0
        BY <1>2, <1>10, <2>1 DEF Told
      <3> QED BY <3>1
    <2>4. ASSUME NEW i \in 1..(m + 1)
          PROVE  /\ t[i][1] = IF clears /\ i % 2 = 0 THEN "clear" ELSE "trigger"
                 /\ t[i][2] \in IF t[i][1] = "trigger" THEN OnsetsOf(h1, need) ELSE NormalsOf(h1)
                 /\ i > 1 => t[i - 1][2] < t[i][2]
      <3>1. CASE i \in 1..m
        BY <1>7, <3>1
      <3>2. CASE i = m + 1
        <4>1. i - 1 = m
          BY <3>2
        <4> QED BY <1>8, <1>9, <2>1, <2>2, <2>3, <3>2, <4>1
      <3> QED BY <3>1, <3>2
    <2>5. \A j \in (n + 1)..(n + 1) : h1[j]
      BY <1>4, <1>11 DEF Breach
    <2> QED BY <1>3, <1>4, <1>5, <1>8, <1>11, <2>1, <2>4, <2>5 DEF Told
  <1>12. CASE ~Breach(h1)
    <2>1. what = "clear" /\ need <= c /\ clears
      BY <1>12
    <2>2. n + 1 \in NormalsOf(h1)
      BY <1>4, <1>12 DEF NormalsOf, Breach
    <2>3. (m + 1) % 2 = 0
      <3>1. m > 0 /\ s[m][1] = "trigger"
        BY <1>2, <2>1, LenProperties, EmptySeq DEF Told
      <3>2. m % 2 # 0
        BY <1>10, <2>1, <3>1
      <3> QED BY <3>2
    <2>4. ASSUME NEW i \in 1..(m + 1)
          PROVE  /\ t[i][1] = IF clears /\ i % 2 = 0 THEN "clear" ELSE "trigger"
                 /\ t[i][2] \in IF t[i][1] = "trigger" THEN OnsetsOf(h1, need) ELSE NormalsOf(h1)
                 /\ i > 1 => t[i - 1][2] < t[i][2]
      <3>1. CASE i \in 1..m
        BY <1>7, <3>1
      <3>2. CASE i = m + 1
        <4>1. i - 1 = m
          BY <3>2
        <4> QED BY <1>8, <1>9, <2>1, <2>2, <2>3, <3>2, <4>1
      <3> QED BY <3>1, <3>2
    <2> QED BY <1>3, <1>5, <1>8, <1>12, <2>1, <2>4 DEF Told
  <1> QED BY <1>11, <1>12

(* What is true of the rule whose turn it is. *)
LEMMA OfTurn ==
    ASSUME AlertIInv, Turn
    PROVE  /\ turn \in Rule /\ Needed(turn) \in Nat \ {0} /\ Debounce[turn] \in Nat
           /\ history[turn] \in Seq(BOOLEAN) /\ called[turn] \in Seq({"trigger", "clear"} \X Nat)
           /\ consecutive[turn] \in Nat /\ EndsWith(history[turn], consecutive[turn])
           /\ active[turn] <=> Needed(turn) <= consecutive[turn]
  <1>1. turn \in Rule
    BY RulesAssumption DEF AlertIInv, AlertTypeOK, Turn, Rule
  <1>2. Needed(turn) \in Nat \ {0} /\ Debounce[turn] \in Nat
    BY <1>1, RulesAssumption DEF Needed
  <1>3. /\ history[turn] \in Seq(BOOLEAN) /\ called[turn] \in Seq({"trigger", "clear"} \X Nat)
        /\ consecutive[turn] \in Nat /\ consecutive[turn] <= Len(history[turn])
    BY <1>1, RulesAssumption DEF AlertIInv, AlertTypeOK
  <1>4. /\ AllBreached(turn, Len(history[turn]), consecutive[turn])
        /\ consecutive[turn] < Len(history[turn]) =>
             ~history[turn][Len(history[turn]) - consecutive[turn]]
        /\ active[turn] <=> consecutive[turn] >= Needed(turn)
    BY <1>1 DEF AlertIInv, Counted
  <1>5. EndsWith(history[turn], consecutive[turn])
    BY <1>3, <1>4 DEF EndsWith, AllOf, AllBreached
  <1> QED BY <1>1, <1>2, <1>3, <1>4, <1>5

(* What is due after a sample that breaches, or one that does not. *)
Called(b) == IF b THEN Due ELSE active[turn] /\ HasClear[turn]
Kind(b)   == IF b THEN "trigger" ELSE "clear"

(* A sample is evaluated, and what is due is called. *)
LEMMA TellingKept ==
    ASSUME AlertIInv, Telling, Turn, NEW b \in BOOLEAN,
           history' = [history EXCEPT ![turn] = Append(@, b)],
           active' = [active EXCEPT ![turn] =
                        IF b THEN @ \/ consecutive[turn] + 1 >= Debounce[turn] ELSE FALSE],
           called' = IF Called(b)
                     THEN [called EXCEPT ![turn] = Append(@, <<Kind(b), Len(history'[turn])>>)]
                     ELSE called
    PROVE  Telling'
  <1>1. /\ turn \in Rule /\ Needed(turn) \in Nat \ {0} /\ Debounce[turn] \in Nat
        /\ history[turn] \in Seq(BOOLEAN) /\ called[turn] \in Seq({"trigger", "clear"} \X Nat)
        /\ consecutive[turn] \in Nat /\ EndsWith(history[turn], consecutive[turn])
        /\ active[turn] <=> Needed(turn) <= consecutive[turn]
    BY OfTurn
  <1>2. PICK h \in Seq(BOOLEAN) : h = history[turn]
    BY <1>1
  <1>3. PICK s \in Seq({"trigger", "clear"} \X Nat) : s = called[turn]
    BY <1>1
  <1>4. PICK c \in Nat : c = consecutive[turn]
    BY <1>1
  <1>5. PICK need \in Nat \ {0} : need = Needed(turn)
    BY <1>1
  <1>6. PICK clears \in BOOLEAN : clears = HasClear[turn]
    BY <1>1, RulesAssumption
  <1>7. PICK h1 : h1 = Append(h, b)
    OBVIOUS
  <1>8. PICK s1 : s1 = called'[turn]
    OBVIOUS
  <1>9. history'[turn] = h1 /\ \A r \in Rule : r # turn => history'[r] = history[r]
    BY <1>1, <1>2, <1>7 DEF AlertIInv, AlertTypeOK
  <1>10. /\ s1 = IF Called(b) THEN Append(s, <<Kind(b), Len(h1)>>) ELSE s
         /\ \A r \in Rule : r # turn => called'[r] = called[r]
    BY <1>1, <1>3, <1>8, <1>9 DEF AlertIInv, AlertTypeOK
  <1>11. OneLonger(h, h1) /\ Breach(h1) = b
    <2>1. h1 \in Seq(BOOLEAN) /\ Len(h1) = Len(h) + 1 /\ h1[Len(h) + 1] = b
          /\ \A k \in 1..Len(h) : h1[k] = h[k]
      BY <1>7, AppendProperties
    <2> QED BY <2>1 DEF OneLonger, Breach
  <1>12. Told(h, s, need, clears, need <= c)
    <2>1. Told(h, s, need, clears, active[turn])
      BY <1>1, <1>2, <1>3, <1>5, <1>6 DEF Telling
    <2>2. active[turn] <=> need <= c
      BY <1>1, <1>4, <1>5
    <2> QED BY <2>1, <2>2, Zenon DEF Told
  <1>13. Called(b) <=> IF b THEN c + 1 = need ELSE need <= c /\ clears
    BY <1>1, <1>4, <1>5, <1>6 DEF Called, Due, Needed
  <1>14. Told(h1, s1, need, clears, b /\ need <= c + 1)
    <2>1. EndsWith(h, c)
      BY <1>1, <1>2, <1>4, Zenon
    <2>2. CASE Called(b)
      <3>1. IF Breach(h1) THEN c + 1 = need ELSE need <= c /\ clears
        BY <1>11, <1>13, <2>2, Zenon
      <3>2. Kind(b) = IF Breach(h1) THEN "trigger" ELSE "clear"
        BY <1>11, Zenon DEF Kind
      <3>3. Told(h1, Append(s, <<Kind(b), Len(h1)>>), need, clears, Breach(h1) /\ need <= c + 1)
        BY <1>11, <1>12, <2>1, <3>1, <3>2, ToldAloud
      <3> QED BY <1>10, <1>11, <2>2, <3>3, Zenon
    <2>3. CASE ~Called(b)
      <3>1. IF Breach(h1) THEN c + 1 # need ELSE need > c \/ ~clears
        BY <1>11, <1>13, <2>3
      <3>2. Told(h1, s, need, clears, Breach(h1) /\ need <= c + 1)
        BY <1>11, <1>12, <2>1, <3>1, ToldQuietly
      <3> QED BY <1>10, <1>11, <2>3, <3>2, Zenon
    <2> QED BY <2>2, <2>3
  <1>15. /\ active'[turn] <=> b /\ need <= c + 1
         /\ \A r \in Rule : r # turn => active'[r] = active[r]
    <2>1. active'[turn] = IF b THEN active[turn] \/ c + 1 >= Debounce[turn] ELSE FALSE
      BY <1>1, <1>4 DEF AlertIInv, AlertTypeOK
    <2>2. active[turn] \/ c + 1 >= Debounce[turn] <=> need <= c + 1
      BY <1>1, <1>4, <1>5 DEF Needed
    <2>3. \A r \in Rule : r # turn => active'[r] = active[r]
      BY DEF AlertIInv, AlertTypeOK
    <2> QED BY <2>1, <2>2, <2>3, Zenon
  <1>16. ASSUME NEW r \in Rule
         PROVE  Told(history'[r], called'[r], Needed(r), HasClear[r], active'[r])
    <2>1. CASE r = turn
      <3>1. Told(h1, s1, need, clears, active'[turn])
        BY <1>14, <1>15, Zenon DEF Told
      <3> QED BY <1>5, <1>6, <1>8, <1>9, <2>1, <3>1
    <2>2. CASE r # turn
      BY <1>9, <1>10, <1>15, <2>2 DEF Telling
    <2> QED BY <2>1, <2>2
  <1>17. \A r \in Rule : Needed(r)' = Needed(r)
    BY DEF Needed
  <1> QED BY <1>16, <1>17 DEF Telling, Told, OnsetsOf, NormalsOf, AllOf

(* Why CallbacksInTurn follows. *)
LEMMA TellingMeans == AlertIInv /\ Telling => CallbacksInTurn
  <1> SUFFICES ASSUME AlertIInv, Telling, NEW r \in Rule
               PROVE  LET said == called[r]
                          last == said[Len(said)]
                      IN  /\ \A i \in 1..Len(said) :
                                /\ said[i][1] = IF HasClear[r] /\ i % 2 = 0 THEN "clear" ELSE "trigger"
                                /\ said[i][2] \in IF said[i][1] = "trigger" THEN Onsets(r) ELSE Normals(r)
                                /\ i > 1 => said[i - 1][2] < said[i][2]
                          /\ active[r] =>
                                /\ said # <<>>
                                /\ last[1] = "trigger"
                                /\ \A j \in last[2]..Len(history[r]) : ~AllNormal(r, j, Needed(r))
                          /\ HasClear[r] /\ ~active[r] => said = <<>> \/ last[1] = "clear"
    BY DEF CallbacksInTurn
  <1>1. Told(history[r], called[r], Needed(r), HasClear[r], active[r])
    BY DEF Telling
  <1>2. OnsetsOf(history[r], Needed(r)) = Onsets(r) /\ NormalsOf(history[r]) = Normals(r)
    BY DEF OnsetsOf, NormalsOf, Onsets, Normals, AllOf, AllBreached
  <1>3. Needed(r) \in Nat \ {0}
    BY RulesAssumption DEF Needed
  <1>4. ASSUME NEW j \in Int, history[r][j] PROVE ~AllNormal(r, j, Needed(r))
    <2>1. j \in (j - Needed(r) + 1)..j
      BY <1>3
    <2> QED BY <1>4, <2>1 DEF AllNormal
  <1>5. ASSUME active[r], NEW j \in called[r][Len(called[r])][2]..Len(history[r])
        PROVE  ~AllNormal(r, j, Needed(r))
    BY <1>1, <1>4, <1>5 DEF Told
  <1> QED BY <1>1, <1>2, <1>5 DEF Told

(* on_trigger is called at the sample that completes `debounce` breaching  *)
(* ones, on_clear at a normal one, the two in turn, and no change of a     *)
(* rule's state goes without its callback, whatever reads, predicates and  *)
(* callbacks fail (alerting.py:28-31).                                     *)
THEOREM CallsInTurn == AlertSpec => []CallbacksInTurn
  <1>1. AlertInit => Telling
    <2> SUFFICES ASSUME AlertInit, NEW r \in Rule
                 PROVE  Told(history[r], called[r], Needed(r), HasClear[r], active[r])
      BY DEF Telling
    <2>1. history[r] = <<>> /\ called[r] = <<>> /\ active[r] = FALSE
      BY DEF AlertInit
    <2> QED BY <2>1 DEF Told
  <1>2. AlertIInv /\ Telling /\ [AlertNext]_alertVars => Telling'
    <2> SUFFICES ASSUME AlertIInv, Telling, [AlertNext]_alertVars PROVE Telling'
      OBVIOUS
    <2>1. CASE UNCHANGED <<history, called, active>>
      BY <2>1 DEF Telling, Told, OnsetsOf, NormalsOf, AllOf, Needed
    <2>2. ASSUME NEW v \in Values, Breached(v) PROVE Telling'
      <3>1. called' = IF Called(TRUE)
                    THEN [called EXCEPT ![turn] = Append(@, <<Kind(TRUE), Len(history'[turn])>>)]
                    ELSE called
        BY <2>2 DEF Breached, Notify, Called, Kind
      <3>2. Turn /\ history' = [history EXCEPT ![turn] = Append(@, TRUE)]
        BY <2>2 DEF Breached
      <3>3. active' = [active EXCEPT ![turn] =
                         IF TRUE THEN @ \/ consecutive[turn] + 1 >= Debounce[turn] ELSE FALSE]
        BY <2>2, <3>2, BreachActivates
      <3> QED BY <3>1, <3>2, <3>3, TellingKept
    <2>3. ASSUME NEW v \in Values, Normal(v) PROVE Telling'
      <3>1. called' = IF Called(FALSE)
                    THEN [called EXCEPT ![turn] = Append(@, <<Kind(FALSE), Len(history'[turn])>>)]
                    ELSE called
        BY <2>3 DEF Normal, Notify, Called, Kind
      <3>2. /\ Turn /\ history' = [history EXCEPT ![turn] = Append(@, FALSE)]
            /\ active' = [active EXCEPT ![turn] =
                            IF FALSE THEN @ \/ consecutive[turn] + 1 >= Debounce[turn] ELSE FALSE]
        BY <2>3 DEF Normal
      <3> QED BY <3>1, <3>2, TellingKept
    <2>4. CASE StartRound \/ ReadFails \/ (\E v \in Values : PredicateFails(v)) \/ UNCHANGED alertVars
      BY <2>1, <2>4 DEF StartRound, ReadFails, PredicateFails, alertVars
    <2> QED BY <2>2, <2>3, <2>4 DEF AlertNext
  <1> QED BY <1>1, <1>2, AlertInvariance, TellingMeans, PTL DEF AlertSpec
=============================================================================
